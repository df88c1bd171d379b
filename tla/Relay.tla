------------------------------- MODULE Relay -------------------------------
(***************************************************************************)
(* relay_ready_messages (src/lib.rs): what one message, in either          *)
(* direction, does to the proxy's state, to the client and to the          *)
(* compositor.  Recovery and Connection add the rest of run_connection.    *)
(*                                                                         *)
(* run_connection is a single task that handles one message at a time; a   *)
(* message is sent, carried and handled in one step.  A compositor that    *)
(* has died (~up) processes nothing any more, but events it had already    *)
(* sent may still be read until the proxy sees the end of file.            *)
(***************************************************************************)
EXTENDS ShadowTable, WaylandProtocol, WaylandPeers, BufferFlow, PendingFrames, GrabState

CONSTANTS
  Scenarios,        \* what a client does, and what compositors there are: by name,
                    \*   startup     the requests it makes first, in this order
                    \*   requests    the requests it makes then
                    \*   cap[i]      how many live objects of interface i it keeps
                    \*   guests      the ids it uses
                    \*   hosts       the host ids the proxy may allocate for it
                    \*   advertised  the sets of globals compositors advertise
  Value,            \* values of titles, sizes, destinations
  Buttons,          \* pointer buttons
  Cached,           \* possible answers to "is anything in the clipboard cache"
  KnownAppIds,      \* app_ids with an installed .desktop file
  BinaryAppId,      \* the app_id found through the client's pid, 0 if none
  MaxGeneration,    \* bound on the number of reconnects
  MaxPlanes,        \* bound on the planes of a dmabuf buffer
  DiesInRecovery,   \* whether a compositor may die while recovery uses it
  WaitTraffic       \* whether others talk while recovery waits for one message

ASSUME BoundsAssumption == MaxGeneration \in Nat /\ MaxPlanes \in Nat
ASSUME SwitchesAssumption == {DiesInRecovery, WaitTraffic} \subseteq BOOLEAN
ASSUME ScenariosAssumption ==
  \A n \in DOMAIN Scenarios :
    /\ 1 \in Scenarios[n].guests /\ Scenarios[n].guests \subseteq ClientGuestId
    /\ Scenarios[n].hosts \subseteq ClientHostId
ASSUME OfferAssumption == "wl_data_offer" \in Interface
ASSUME AppIdAssumption == BinaryAppId \in Value \cup {0}

VARIABLES
  scenario,       \* the name of the scenario that is played
  pc,             \* "run", "frozen", or the step of recovery
  at,             \* the recipe recovery is replaying
  adv,            \* the globals the current compositor advertises
  objects,        \* the shadow table
  graph,          \* the recreation graph
  buffer_flow, pending_frames, grabs,
  planes,         \* pending_dmabuf_planes: per params object, its dmabuf
                  \* global and how many planes were added
  reclaim,        \* ReclaimState: pending, ddm (its global), source (host id)
  up, host, expected,   \* the compositor, and the next id it accepts
  cl,             \* the client
  boot            \* how much of its startup the client has done

proxyVars ==
  <<objects, graph, buffer_flow, pending_frames, grabs, planes, reclaim>>
vars == <<scenario, pc, at, adv, proxyVars, up, host, expected, cl, boot>>

Played == Scenarios[scenario]

Init ==
  /\ scenario \in DOMAIN Scenarios /\ adv \in Played.advertised
  /\ pc = "run" /\ at = 0
  /\ objects = new_table
  /\ graph = <<>>
  /\ buffer_flow = new_buffer_flow(GuestId)
  /\ pending_frames = new_pending_frames
  /\ grabs = new_grabs(GuestId)
  /\ planes = [g \in GuestId |-> [dmabuf |-> 0, n |-> 0]]
  /\ reclaim = [pending |-> FALSE, ddm |-> FALSE, source |-> 0]
  /\ up = TRUE /\ host = FreshHost(HostId) /\ expected = 2
  /\ cl = [g \in GuestId |-> IF g = 1 THEN ClientObject("wl_display", 0, 0, NoAttr) ELSE Blank("new")]
  /\ boot = 0

RoomFor(n) == objects.next_host_id..(objects.next_host_id + n - 1) \subseteq Played.hosts

-----------------------------------------------------------------------------
\* What the client may send, and what sending it means to the client.

LiveOf(iface) == {g \in GuestId : Live(cl, g) /\ cl[g].iface = iface}

Senders(r) ==
  {s \in LiveOf(r.on) :
     /\ r.dtor /\ r.on \in ChildrenFirst =>
          ~\E x \in GuestId : Live(cl, x) /\ s \in {cl[x].parent, cl[x].arg}
     /\ r.name \in {"add", "create_immed"} => ~cl[s].spent
     /\ r.name = "add" => cl[s].attr["planes"] < MaxPlanes
     /\ r.name = "create_immed" => cl[s].attr["planes"] > 0}

ArgsFor(r) ==
  IF r.arg = "none" THEN {0}
  ELSE IF r.name = "attach" THEN {0} \cup {b \in LiveOf("wl_buffer") : ~cl[b].busy}
  ELSE LiveOf(r.arg)

ValuesFor(r) ==
  IF r.name \in {"set_title", "set_app_id", "resize", "set_destination", "create_pool"}
  THEN Value ELSE {0}

NewIdsFor(r, s, a) ==
  IF r.child = "none" THEN {0}
  ELSE IF \/ Cardinality(LiveOf(r.child)) >= Played.cap[r.child]
          \/ r.name = "bind" /\ r.child \notin adv
          \/ r.child \in Single /\ \E x \in LiveOf(r.child) :
                IF a # 0 THEN cl[x].arg = a ELSE cl[x].parent = s
       THEN {} ELSE NextIds(cl, Played.guests)

SetsAttr(r) ==
  CASE r.name = "set_title" -> "title"
    [] r.name = "set_app_id" -> "app_id"
    [] r.name = "resize" -> "size"
    [] r.name = "set_destination" -> "destination"
    [] r.name = "add" -> "planes"
    [] OTHER -> "none"

AttrAfter(r, old, v) ==
  IF SetsAttr(r) = "none" THEN old
  ELSE [old EXCEPT ![SetsAttr(r)] = IF r.name = "add" THEN @ + 1 ELSE v]

FirstAttr(r, params, v) ==
  CASE r.name = "create_pool" -> [NoAttr EXCEPT !["size"] = v]
    [] r.name = "create_immed" -> [NoAttr EXCEPT !["planes"] = params["planes"]]
    [] OTHER -> NoAttr

Sent(r, s, a, v, g) ==
  LET gone == IF r.dtor THEN Destroyed(cl, s, ServerGuestId) ELSE cl
      made == IF r.child = "none" THEN gone
              ELSE [gone EXCEPT ![g] = ClientObject(r.child, s, a, FirstAttr(r, cl[s].attr, v))]
      told == [made EXCEPT ![s].attr = AttrAfter(r, @, v)]
  IN CASE r.name = "attach" -> [told EXCEPT ![s].att = a]
       [] r.name = "commit" /\ cl[s].att # 0 -> [told EXCEPT ![s].att = 0, ![cl[s].att].busy = TRUE]
       [] r.name = "create_immed" -> [told EXCEPT ![s].spent = TRUE]
       [] OTHER -> told

Booted == boot' = IF boot < Len(Played.startup) THEN boot + 1 ELSE boot

\* Some request r on object s, with object argument a, plain argument v and
\* new_id g (0 where it has none), that the client may send now.
Sends(Handle(_, _, _, _, _)) ==
  \E r \in IF boot < Len(Played.startup) THEN {Played.startup[boot + 1]} ELSE Played.requests :
    \E s \in Senders(r), a \in ArgsFor(r), v \in ValuesFor(r) :
      \E g \in NewIdsFor(r, s, a) : Handle(r, s, a, v, g) /\ Booted

-----------------------------------------------------------------------------
\* Client to compositor: the observations made on the way.

RecreatedGlobals ==
  {"wl_compositor", "xdg_wm_base", "wl_shm", "zwp_linux_dmabuf_v1", "wl_seat",
   "wp_viewporter", "wp_fractional_scale_manager_v1", "xdg_activation_v1"}

SeatDeviceRequests == {"get_pointer", "get_keyboard", "get_touch"}

KindOf(r) ==
  CASE r.name = "bind" /\ r.child \in RecreatedGlobals -> "Global"
    [] r.name = "create_surface"       -> "Surface"
    [] r.name = "get_xdg_surface"      -> "XdgSurface"
    [] r.name = "get_toplevel"         -> "XdgToplevel"
    [] r.name = "create_pool"          -> "ShmPool"
    [] r.name = "create_buffer"        -> "ShmBuffer"
    [] r.name = "create_immed"         -> "DmabufBuffer"
    [] r.name \in SeatDeviceRequests  -> "SeatDevice"
    [] r.name = "get_viewport"         -> "Viewport"
    [] r.name = "get_fractional_scale" -> "FractionalScale"
    [] OTHER -> "none"

\* What the protocol's tables say of all the requests a client of scenario n
\* makes: who makes callbacks and offers, that every recipe is of a new object
\* of a compiled-in interface, and what has no destructor.
Asked(n) == {Scenarios[n].startup[i] : i \in DOMAIN Scenarios[n].startup} \cup Scenarios[n].requests

ASSUME RequestsAssumption ==
  \A n \in DOMAIN Scenarios :
    /\ Scenarios[n].startup \in Seq(Asked(n))
    /\ \A r \in Asked(n) :
         /\ r.child \in Interface \cup Unresolvable \cup {"none"}
         /\ r.child \notin {"wl_display", "wl_data_offer"}
         /\ r.child = "wl_callback" <=> r.name \in {"frame", "sync"}
         /\ KindOf(r) # "none" => r.child # "none"
         /\ r.dtor => r.child = "none" /\ r.on \notin {"wl_display", "wl_callback"}

\* And what is set on which objects, and what only one request makes.
ASSUME ProtocolAssumption ==
  \A n \in DOMAIN Scenarios : \A r \in Asked(n) :
    /\ SetsAttr(r) # "none" \/ r.name \in {"attach", "commit"} => r.child = "none" /\ ~r.dtor
    /\ SetsAttr(r) \in {"title", "app_id"} => r.on = "xdg_toplevel"
    /\ SetsAttr(r) = "size" => r.on = "wl_shm_pool"
    /\ SetsAttr(r) = "destination" => r.on = "wp_viewport"
    /\ SetsAttr(r) = "planes" => r.on = "zwp_linux_buffer_params_v1"
    /\ r.child = "xdg_toplevel" <=> r.name = "get_toplevel"
    /\ r.child = "wl_shm_pool" <=> r.name = "create_pool"
    /\ r.child = "wp_viewport" <=> r.name = "get_viewport"
    /\ r.child = "zwp_linux_buffer_params_v1" <=> r.name = "create_params"
    /\ r.name = "create_immed" => r.on = "zwp_linux_buffer_params_v1" /\ r.child = "wl_buffer"
    /\ r.child # "none" => r.on # "wl_data_offer"
    /\ r.dtor => r.arg = "none"

\* Wrong: a dmabuf buffer hangs off its params object, which has no recipe.
ParentAsSent(kind, s) == IF kind = "Global" THEN 0 ELSE s

\* A dmabuf buffer hangs off the dmabuf global.
RecipeParent(kind, s) ==
  CASE kind = "Global" -> 0
    [] kind = "DmabufBuffer" -> planes[s].dmabuf
    [] OTHER -> s

\* The recipe captured for the new object g, if any; that of a dmabuf buffer
\* has the planes added to its params object so far.
RecipesOf(r, s, a, v, g) ==
  LET kind == KindOf(r)
      dmabuf == kind = "DmabufBuffer"
      recipe == [ id |-> g, kind |-> kind, interface |-> r.child, arg |-> a,
                  parent |-> RecipeParent(kind, s),
                  attr |-> CASE kind = "ShmPool" -> [NoAttr EXCEPT !["size"] = v]
                             [] dmabuf -> [NoAttr EXCEPT !["planes"] = planes[s].n]
                             [] OTHER -> NoAttr ]
  IN IF kind = "none" \/ (dmabuf /\ planes[s].dmabuf = 0) THEN <<>> ELSE <<recipe>>

Captured(r, s, a, v, g) ==
  LET new == RecipesOf(r, s, a, v, g)
  IN IF new = <<>> THEN graph ELSE record(graph, new[1])

\* An app_id without a .desktop file is replaced by the one of the binary.
corrected_app_id(v) == IF v \in KnownAppIds \/ BinaryAppId = 0 THEN v ELSE BinaryAppId

ValueSent(r, v) == IF r.name = "set_app_id" THEN corrected_app_id(v) ELSE v

\* Wrong: the app_id is remembered as the client sent it.
UpdatedUncorrected(graph0, r, s, v) ==
  CASE r.name = "resize"          -> update_shm_pool_size(graph0, s, v)
    [] r.name = "set_title"       -> update_toplevel_title(graph0, s, v)
    [] r.name = "set_app_id"      -> update_toplevel_app_id(graph0, s, v)
    [] r.name = "set_destination" -> update_viewport_destination(graph0, s, v)
    [] OTHER -> graph0

Updated(graph0, r, s, v) ==
  CASE r.name = "resize"          -> update_shm_pool_size(graph0, s, v)
    [] r.name = "set_title"       -> update_toplevel_title(graph0, s, v)
    [] r.name = "set_app_id"      -> update_toplevel_app_id(graph0, s, corrected_app_id(v))
    [] r.name = "set_destination" -> update_viewport_destination(graph0, s, v)
    [] OTHER -> graph0

ObserveBuffers(r, s, a) ==
  buffer_flow' = CASE r.name = "attach" -> on_attach(buffer_flow, s, a)
                   [] r.name = "commit" -> on_commit(buffer_flow, s)
                   [] OTHER -> buffer_flow

ObserveCallbacks(r, g) ==
  pending_frames' = CASE r.name = "frame" -> on_frame_requested(pending_frames, g)
                      [] r.name = "sync"  -> on_sync_requested(pending_frames, g)
                      [] OTHER -> pending_frames

\* Wrong: only the last plane is kept.
PlanesOverwritten(r, s, g, passed) ==
  CASE r.name = "create_params" -> [planes EXCEPT ![g] = [dmabuf |-> s, n |-> 0]]
    [] r.name = "create_immed"  -> [planes EXCEPT ![s] = [dmabuf |-> 0, n |-> 0]]
    [] r.name = "add" /\ passed /\ planes[s].dmabuf # 0 -> [planes EXCEPT ![s].n = 1]
    [] OTHER -> planes

\* create_params opens an entry, create_immed consumes it; the fd of an added
\* plane is kept only once the request got as far as being passed on.
PlanesAfter(r, s, g, passed) ==
  CASE r.name = "create_params" -> [planes EXCEPT ![g] = [dmabuf |-> s, n |-> 0]]
    [] r.name = "create_immed"  -> [planes EXCEPT ![s] = [dmabuf |-> 0, n |-> 0]]
    [] r.name = "add" /\ passed /\ planes[s].dmabuf # 0 -> [planes EXCEPT ![s].n = @ + 1]
    [] OTHER -> planes

\* The new_id is mapped before the sender itself is looked at.
WithNewId(r, g) ==
  IF r.child = "none" THEN objects
  ELSE map(allocate_host_id(objects), g, objects.next_host_id, r.child)

-----------------------------------------------------------------------------
\* Client to compositor: what becomes of a request.

\* Objects made for ids the client no longer holds are nobody's.
Settled(host1) == Orphaned(host1, Holds(cl) \ Holds(cl'))

Understood(r, s, a) ==
  /\ objects.interfaces[s] = r.on
  /\ r.arg = "none" \/ host_id(objects, a) # {}
  /\ r.child \notin Unresolvable

\* Dropped before anything is noted: an unknown sender, an argument that
\* cannot be translated, a new object of an unknown interface.
DropRequest(r, s, a, v, g) ==
  /\ ~Understood(r, s, a)
  /\ cl' = Sent(r, s, a, v, g)
  /\ host' = Settled(host)
  /\ UNCHANGED <<proxyVars, expected>>

\* Wrong: the id allocated for a refused new_id is not given back.
RolledBackWithGap(mapped, r, g) == IF r.child = "none" THEN mapped ELSE remove_guest(mapped, g)

\* The mapping made for the new_id of a refused request is undone.
RolledBack(mapped, r, g) ==
  IF r.child = "none" THEN mapped
  ELSE remove_guest(unallocate_host_id(mapped, objects.next_host_id), g)

\* The sender's own mapping is of an earlier connection.  A destructor and a
\* frame request are answered, and the mapping of a new_id is rolled back.
RefuseRequest(r, s, a, v, g) ==
  LET mapped == WithNewId(r, g)
      rolled == RolledBack(mapped, r, g)
      noted == remove(Updated(Captured(r, s, a, v, g), r, s, v), g)
      sent == Sent(r, s, a, v, g)
  IN /\ Understood(r, s, a) /\ host_id(mapped, s) = {}
     /\ objects' = IF r.dtor THEN remove_guest(rolled, s) ELSE rolled
     /\ graph' = IF r.dtor THEN remove(noted, s) ELSE noted
     /\ cl' = CASE r.dtor -> IdsDeleted(sent, {s})
                [] r.name = "frame" -> IdsDeleted(CallbackDone(sent, g), {g})
                [] OTHER -> sent
     /\ ObserveBuffers(r, s, a)
     /\ ObserveCallbacks(r, g)
     /\ planes' = PlanesAfter(r, s, g, FALSE)
     /\ host' = Settled(host)
     /\ UNCHANGED <<grabs, reclaim, expected>>

\* What a live compositor does with a request it receives.
Processed(r, hs, ha, v, g) ==
  LET n == objects.next_host_id
      made == IF r.child = "none" THEN host
              ELSE [host EXCEPT ![n] = HostObject(r.child, g, hs, ha, FirstAttr(r, host[hs].attr, v))]
      told == [made EXCEPT ![hs].attr = AttrAfter(r, @, v)]
  IN CASE r.name = "attach" -> [told EXCEPT ![hs].att = ha]
       [] r.name = "commit" -> HostCommitted(told, hs)
       [] r.dtor -> HostDestroyed(told, hs)
       [] OTHER -> told

\* Passed on; while frozen there is nobody to pass it to, but everything else
\* is done all the same.
PassRequest(r, s, a, v, g) ==
  LET mapped == WithNewId(r, g)
      new == r.child # "none"
  IN /\ Understood(r, s, a)
     /\ new => RoomFor(1)
     /\ objects' = mapped
     /\ graph' = Updated(Captured(r, s, a, v, g), r, s, v)
     /\ ObserveBuffers(r, s, a)
     /\ ObserveCallbacks(r, g)
     /\ planes' = PlanesAfter(r, s, g, TRUE)
     /\ cl' = Sent(r, s, a, v, g)
     /\ \E hs \in host_id(mapped, s), ha \in host_id(mapped, a) :
          host' = Settled(IF pc = "run" /\ up THEN Processed(r, hs, ha, ValueSent(r, v), g) ELSE host)
     /\ expected' = IF pc = "run" /\ up /\ new THEN expected + 1 ELSE expected
     /\ UNCHANGED <<grabs, reclaim>>

Relayed(r, s, a, v, g) ==
  \/ DropRequest(r, s, a, v, g)
  \/ RefuseRequest(r, s, a, v, g)
  \/ PassRequest(r, s, a, v, g)

Request ==
  /\ pc \in {"run", "frozen"}
  /\ Sends(Relayed)
  /\ UNCHANGED <<scenario, pc, at, adv, up>>

-----------------------------------------------------------------------------
\* Compositor to client.

\* The guest object an event of host object h is for: none if h is the
\* proxy's own data source, whose events it keeps, or cannot be translated.
Hears(h) == IF h = reclaim.source THEN {} ELSE guest_id(objects, h)

HostHas(h, iface) == host[h].iface = iface /\ ~host[h].dead

\* wl_callback.done; the compositor's object is gone with it.
HostDone(h) ==
  /\ HostHas(h, "wl_callback") /\ host[h].owed
  /\ host' = HostDestroyed(host, h)
  /\ \E g \in Hears(h) :
       /\ pending_frames' = on_done_received(pending_frames, g)
       /\ cl' = CallbackDone(cl, g)
  /\ UNCHANGED <<objects, graph, buffer_flow, grabs, planes, reclaim, expected>>

\* wl_display.delete_id, relayed for a tracked id and dropped for any other.
HostDeletesId(h) ==
  /\ h \in ClientHostId /\ host[h].dead
  /\ host' = [host EXCEPT ![h] = NoObject]
  /\ IF guest_id(objects, h) = {} THEN UNCHANGED <<objects, graph, cl>>
     ELSE \E g \in guest_id(objects, h) :
            /\ objects' = remove_guest(objects, g)
            /\ graph' = remove(graph, g)
            /\ cl' = IdsDeleted(cl, {g})
  /\ UNCHANGED <<buffer_flow, pending_frames, grabs, planes, reclaim, expected>>

HostReleases(h) ==
  /\ HostHas(h, "wl_buffer") /\ host[h].owed
  /\ host' = [host EXCEPT ![h].owed = FALSE]
  /\ \E g \in Hears(h) :
       /\ buffer_flow' = on_release(buffer_flow, g)
       /\ cl' = BuffersReleased(cl, {g})
  /\ UNCHANGED <<objects, graph, pending_frames, grabs, planes, reclaim, expected>>

\* wl_data_device.data_offer: the compositor creates an object.
HostOffers(h, n) ==
  /\ HostHas(h, "wl_data_device") /\ n \in ServerHostId /\ host[n].iface = "none"
  /\ objects.next_guest_server_id \in ServerGuestId
  /\ \E d \in Hears(h) :
       LET g == objects.next_guest_server_id
       IN /\ objects' = map(allocate_guest_server_id(objects), g, n, "wl_data_offer")
          /\ cl' = [cl EXCEPT ![g] = ClientObject("wl_data_offer", d, 0, NoAttr)]
          /\ host' = [host EXCEPT ![n] = HostObject("wl_data_offer", g, h, 0, NoAttr)]
  /\ UNCHANGED <<graph, buffer_flow, pending_frames, grabs, planes, reclaim, expected>>

\* The number of a destroyed server object is the compositor's to use again.
HostForgets(h) ==
  /\ h \in ServerHostId /\ host[h].dead
  /\ host' = [host EXCEPT ![h] = NoObject]
  /\ UNCHANGED <<proxyVars, cl, expected>>

\* The proxy's own data source is cancelled; nobody destroys it.
HostCancelsSource ==
  /\ reclaim.source # 0 /\ HostHas(reclaim.source, "wl_data_source")
  /\ reclaim' = [reclaim EXCEPT !.source = 0]
  /\ UNCHANGED <<objects, graph, buffer_flow, pending_frames, grabs, planes, host, cl, expected>>

-----------------------------------------------------------------------------
\* attempt_clipboard_splice: on the first input event after a recovery the
\* proxy makes itself a data source, if there is anything to offer.

\* Any registry and seat may be the ones found; both must be current.
Found(current) ==
  \E r \in find_guest_id_by_interface_name(objects, "wl_registry"),
     s \in find_guest_id_by_interface_name(objects, "wl_seat") :
    (host_id(objects, r) # {} /\ host_id(objects, s) # {}) = current

MayDecline == FALSE \in Cached \/ ~reclaim.ddm \/ Found(FALSE) \/ ~Found(TRUE)
MayReclaim == TRUE \in Cached /\ reclaim.ddm /\ Found(TRUE)

\* ids of the three ids stay allocated; done says that all writes went
\* through.  On a dead connection they may fail from any point on.
SpliceEnds(ids, done) ==
  \/ MayDecline /\ ids = 0 /\ ~done
  \/ MayReclaim /\ ids = 3 /\ done
  \/ MayReclaim /\ ~up /\ ~done

SpliceInterfaces == <<"wl_data_device_manager", "wl_data_source", "wl_data_device">>

attempt_clipboard_splice(host0) ==
  \E ids \in 0..3, done \in BOOLEAN :
    LET n == objects.next_host_id
        own == n..(n + ids - 1)
    IN /\ SpliceEnds(ids, done)
       /\ RoomFor(ids)
       /\ objects' = allocate_host_ids(objects, ids)
       /\ reclaim' = [reclaim EXCEPT !.pending = FALSE, !.source = IF done THEN n + 1 ELSE @]
       /\ host' = [h \in HostId |->
                     IF up /\ h \in own THEN HostObject(SpliceInterfaces[h - n + 1], Proxy, 0, 0, NoAttr)
                     ELSE host0[h]]
       /\ expected' = IF up THEN expected + ids ELSE expected

\* An event with an input serial; the compositor's state becomes host0.
WithSerial(host0) ==
  IF reclaim.pending THEN attempt_clipboard_splice(host0)
  ELSE host' = host0 /\ UNCHANGED <<objects, reclaim, expected>>

-----------------------------------------------------------------------------
\* Input events, observed into grabs.

Focusable(h) == HostHas(h, "wl_pointer") \/ HostHas(h, "wl_keyboard")

HostEnters(h, s) ==
  /\ Focusable(h) /\ host[h].focus = 0 /\ HostHas(s, "wl_surface")
  /\ \E g \in Hears(h), t \in guest_id(objects, s) :
       /\ grabs' = IF HostHas(h, "wl_pointer") THEN on_pointer_enter(grabs, g, t)
                   ELSE on_keyboard_enter(grabs, g, t)
       /\ cl' = [cl EXCEPT ![g].focus = t]
  /\ WithSerial([host EXCEPT ![h].focus = s])
  /\ UNCHANGED <<graph, buffer_flow, pending_frames, planes>>

HostLeaves(h) ==
  /\ Focusable(h) /\ host[h].focus # 0
  /\ \E g \in Hears(h) :
       /\ grabs' = IF HostHas(h, "wl_pointer") THEN on_pointer_leave(grabs, g)
                   ELSE on_keyboard_leave(grabs, g)
       /\ cl' = [cl EXCEPT ![g].focus = 0]
  /\ WithSerial([host EXCEPT ![h].focus = 0])
  /\ UNCHANGED <<graph, buffer_flow, pending_frames, planes>>

\* Some button is pressed, while over a surface, or released.
HostButton(h, b) ==
  LET press == b \notin host[h].pressed
      After(held) == IF press THEN held \cup {b} ELSE held \ {b}
  IN /\ HostHas(h, "wl_pointer") /\ (press => host[h].focus # 0)
     /\ \E g \in Hears(h) :
          /\ grabs' = on_pointer_button(grabs, g, b, press)
          /\ cl' = [cl EXCEPT ![g].pressed = After(@)]
     /\ WithSerial([host EXCEPT ![h].pressed = After(@)])
     /\ UNCHANGED <<graph, buffer_flow, pending_frames, planes>>

\* wl_keyboard.key and wl_touch.down matter only for the serial they bring;
\* a key is the first to bring one when the enter before it was lost in
\* recovery, a touch needs no enter at all.
HostKeyOrTouch(h) ==
  /\ reclaim.pending
  /\ \/ HostHas(h, "wl_keyboard") /\ host[h].focus # 0
     \/ /\ HostHas(h, "wl_touch")
        /\ \E s \in HostId : HostHas(s, "wl_surface") /\ guest_id(objects, s) # {}
  /\ Hears(h) # {}
  /\ WithSerial(host)
  /\ UNCHANGED <<graph, buffer_flow, pending_frames, grabs, planes, cl>>

Event ==
  /\ pc = "run"
  /\ \/ \E h \in HostId : \/ HostDone(h) \/ HostDeletesId(h) \/ HostReleases(h)
                          \/ HostForgets(h) \/ HostLeaves(h) \/ HostKeyOrTouch(h)
                          \/ HostHas(h, "wl_data_device") /\ \E n \in HostId : HostOffers(h, n)
                          \/ Focusable(h) /\ \E s \in HostId : HostEnters(h, s)
                          \/ \E b \in Buttons : HostButton(h, b)
     \/ HostCancelsSource
  /\ UNCHANGED <<scenario, pc, at, adv, up, boot>>
=============================================================================
