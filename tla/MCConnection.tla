---------------------------- MODULE MCConnection ----------------------------
(***************************************************************************)
(* Instances of Connection for TLC: for each scenario what the client asks *)
(* for, in which order it starts, and how many objects of a kind it keeps. *)
(***************************************************************************)
EXTENDS Connection

Interfaces ==
  {"wl_display", "wl_registry", "wl_callback", "wl_compositor", "wl_surface", "xdg_wm_base",
   "xdg_surface", "xdg_toplevel", "wl_shm", "wl_shm_pool", "wl_buffer", "zwp_linux_dmabuf_v1",
   "zwp_linux_buffer_params_v1", "wl_seat", "wl_pointer", "wl_keyboard", "wl_touch",
   "wp_viewporter", "wp_viewport", "wp_fractional_scale_manager_v1", "wp_fractional_scale_v1",
   "wl_data_device_manager", "wl_data_device", "wl_data_offer", "gtk_shell1", "gtk_surface1"}

\* One object of each kind, but n of those in S.
Keep(n, S) == [i \in Interfaces |-> IF i \in S THEN n ELSE 1]

AllGlobals ==
  RecreatedGlobals \cup {"wl_data_device_manager", "gtk_shell1"}
Always == {AllGlobals}
Boot(globals) == <<GetRegistry>> \o [i \in DOMAIN globals |-> Bind(globals[i])]
NoServerIds == {}

Scenario(startup, requests, cap, guests, hosts, advertised) ==
  [ startup |-> startup, requests |-> requests, cap |-> cap,
    guests |-> guests, hosts |-> hosts, advertised |-> advertised ]

-----------------------------------------------------------------------------
\* Windows: a surface and its role, made and destroyed in any legal order.
WindowStartup == Boot(<<"wl_compositor", "xdg_wm_base">>)
WindowRequests ==
  {CreateSurface, GetXdgSurface, GetToplevel, DestroyToplevel, DestroyXdg, DestroySurface}
OneOfEach == Keep(1, {})
ToplevelStartup ==
  Boot(<<"wl_compositor", "xdg_wm_base", "wl_seat">>) \o
  <<GetKeyboard, CreateSurface, GetXdgSurface, GetToplevel>>
WaitRequests == {DestroyToplevel, DestroyXdg}
XdgMayVanish == {AllGlobals, AllGlobals \ {"xdg_wm_base"}}
Windows == Scenario(WindowStartup, WindowRequests, OneOfEach, 1..7, 1..8, XdgMayVanish)
Waiting == Scenario(ToplevelStartup, WaitRequests, OneOfEach, 1..10, 1..13, Always)

-----------------------------------------------------------------------------
\* Attributes: what the client says about a window it has.
AttributeStartup ==
  Boot(<<"wl_compositor", "xdg_wm_base", "wp_viewporter">>) \o
  <<CreateSurface, GetXdgSurface, GetToplevel, GetViewport>>
AttributeRequests == {SetTitle, SetAppId, SetDestination, DestroyViewport, GetViewport}
Attributes == Scenario(AttributeStartup, AttributeRequests, OneOfEach, 1..9, 1..10, Always)

-----------------------------------------------------------------------------
\* Ids: surfaces and callbacks come and go, and ids are used again; one bind
\* is of an interface the proxy has no table for, and requests on it follow.
IdStartup == Boot(<<"wl_compositor">>)
IdRequests == {CreateSurface, DestroySurface, Sync, Bind("gtk_shell1")}
IdCap == Keep(2, {"wl_surface"})
UnknownStartup == Boot(<<"wl_compositor", "gtk_shell1">>) \o <<CreateSurface>>
UnknownRequests == {GetGtkSurface, Sync}
Recycling == Scenario(IdStartup, IdRequests, IdCap, 1..5, 1..8, Always)
Unknown == Scenario(UnknownStartup, UnknownRequests, OneOfEach, 1..7, 1..7, Always)

-----------------------------------------------------------------------------
\* Callbacks: frame and sync requests on a surface that is always there.
CallbackStartup == Boot(<<"wl_compositor">>) \o <<CreateSurface>>
CallbackRequests == {Frame, Sync}
EarlyRequests == {GetRegistry, Sync}
NoStartup == <<>>
CallbackCap == Keep(2, {"wl_callback"})
StaleStartup == Boot(<<"wl_compositor", "wl_shm">>) \o <<CreateSurface>>
StaleRequests == {Frame, CreatePool}
CompositorMayVanish == {AllGlobals, AllGlobals \ {"wl_compositor"}}
Callbacks == Scenario(CallbackStartup, CallbackRequests, CallbackCap, 1..6, 1..9, Always)
EarlySync == Scenario(NoStartup, EarlyRequests, CallbackCap, 1..6, 1..9, Always)
StaleFrame == Scenario(StaleStartup, StaleRequests, OneOfEach, 1..6, 1..9, CompositorMayVanish)

-----------------------------------------------------------------------------
\* Buffers: a pool and its buffers, attached and committed to a surface.
BufferStartup == Boot(<<"wl_compositor", "wl_shm">>) \o <<CreateSurface, CreatePool>>
BufferRequests == {CreateBuffer, Attach, Commit, DestroyBuffer}
BufferCap == Keep(2, {"wl_buffer"})
PoolRequests == {CreateBuffer, Attach, Commit, DestroyPool}
Buffers == Scenario(BufferStartup, BufferRequests, BufferCap, 1..8, 1..9, Always)
Pools == Scenario(BufferStartup, PoolRequests, OneOfEach, 1..7, 1..8, Always)

-----------------------------------------------------------------------------
\* Pools: a pool that is resized and destroyed, before its buffer or after.
PoolStartup == Boot(<<"wl_shm">>)
ResizeRequests == {CreatePool, ResizePool, CreateBuffer, DestroyPool, DestroyBuffer}
Resizing == Scenario(PoolStartup, ResizeRequests, OneOfEach, 1..6, 1..6, Always)

-----------------------------------------------------------------------------
\* Seat: a surface's scale, pointer and keyboard, focus, buttons, and the clipboard splice.
SeatStartup ==
  Boot(<<"wl_compositor", "wl_seat", "wp_fractional_scale_manager_v1">>) \o
  <<CreateSurface, GetFractional, GetPointer, GetKeyboard, GetTouch>>
SeatRequests == {ReleasePointer, GetPointer}
CloseStartup == Boot(<<"wl_compositor", "wl_seat">>) \o <<CreateSurface, GetPointer>>
CloseRequests == {DestroySurface}
Seat == Scenario(SeatStartup, SeatRequests, OneOfEach, 1..10, 1..16, Always)
ClosedSurface == Scenario(CloseStartup, CloseRequests, OneOfEach, 1..10, 1..16, Always)

-----------------------------------------------------------------------------
\* Offers: objects the compositor creates.
OfferStartup == Boot(<<"wl_seat", "wl_data_device_manager">>) \o <<GetDataDevice>>
OfferRequests == {DestroyOffer, Sync}
OfferCap == Keep(2, {"wl_data_offer"})
OfferServerGuests == {100, 101, 102}
OfferServerHosts == {100, 101}
Offers == Scenario(OfferStartup, OfferRequests, OfferCap, 1..6, 1..7, Always)

-----------------------------------------------------------------------------
\* Dmabuf: buffers made through a params object.
DmabufStartup == Boot(<<"zwp_linux_dmabuf_v1">>)
DmabufRequests == {CreateParams, AddPlane, CreateImmed, DestroyParams, DestroyBuffer}
Dmabuf == Scenario(DmabufStartup, DmabufRequests, OneOfEach, 1..5, 1..6, Always)

-----------------------------------------------------------------------------
\* What the runs play, and the ids they use in all.
WindowScenarios == [windows |-> Windows, attributes |-> Attributes, resizing |-> Resizing, seat |-> Seat]
ObjectScenarios == [recycling |-> Recycling, unknown |-> Unknown, offers |-> Offers, dmabuf |-> Dmabuf,
                    waiting |-> Waiting]
ObjectInterfaces ==
  {"wl_display", "wl_registry", "wl_callback", "wl_compositor", "wl_surface", "wl_buffer",
   "zwp_linux_dmabuf_v1", "zwp_linux_buffer_params_v1", "wl_seat", "wl_data_device_manager",
   "wl_data_device", "wl_data_offer", "wl_keyboard", "xdg_wm_base", "xdg_surface", "xdg_toplevel",
   "gtk_surface1"}
PromiseScenarios == [callbacks |-> Callbacks, buffers |-> Buffers]
GhostScenarios == [windows |-> Windows]
PoolScenarios == [pools |-> Pools]
ClosedSurfaceScenarios == [closedSurface |-> ClosedSurface]
StaleFrameScenarios == [staleFrame |-> StaleFrame]
EarlySyncScenarios == [earlySync |-> EarlySync]

UpTo6 == 1..6
UpTo7 == 1..7
UpTo8 == 1..8
UpTo9 == 1..9
UpTo10 == 1..10
UpTo13 == 1..13
UpTo16 == 1..16
=============================================================================
