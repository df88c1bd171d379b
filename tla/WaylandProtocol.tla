-------------------------- MODULE WaylandProtocol --------------------------
(***************************************************************************)
(* The part of the Wayland protocol the proxy's logic distinguishes, as    *)
(* the generated interface tables it links against describe it             *)
(* (MessageDesc: name, child_interface, is_destructor, signature).         *)
(* A request is a record: the interface it is on, its name, the interface  *)
(* of the object it creates and of its object argument ("none" if it has   *)
(* neither), and whether it is a destructor.                               *)
(***************************************************************************)
Req(on, name, child, arg, dtor) ==
  [on |-> on, name |-> name, child |-> child, arg |-> arg, dtor |-> dtor]

Plain(on, name) == Req(on, name, "none", "none", FALSE)
Making(on, name, child) == Req(on, name, child, "none", FALSE)
Destructor(on, name) == Req(on, name, "none", "none", TRUE)

GetRegistry      == Making("wl_display", "get_registry", "wl_registry")
Sync             == Making("wl_display", "sync", "wl_callback")
Bind(global)     == Making("wl_registry", "bind", global)
CreateSurface    == Making("wl_compositor", "create_surface", "wl_surface")
Attach           == Req("wl_surface", "attach", "none", "wl_buffer", FALSE)
Commit           == Plain("wl_surface", "commit")
Frame            == Making("wl_surface", "frame", "wl_callback")
DestroySurface   == Destructor("wl_surface", "destroy")
GetXdgSurface    == Req("xdg_wm_base", "get_xdg_surface", "xdg_surface", "wl_surface", FALSE)
GetToplevel      == Making("xdg_surface", "get_toplevel", "xdg_toplevel")
DestroyXdg       == Destructor("xdg_surface", "destroy")
SetTitle         == Plain("xdg_toplevel", "set_title")
SetAppId         == Plain("xdg_toplevel", "set_app_id")
DestroyToplevel  == Destructor("xdg_toplevel", "destroy")
CreatePool       == Making("wl_shm", "create_pool", "wl_shm_pool")
CreateBuffer     == Making("wl_shm_pool", "create_buffer", "wl_buffer")
ResizePool       == Plain("wl_shm_pool", "resize")
DestroyPool      == Destructor("wl_shm_pool", "destroy")
DestroyBuffer    == Destructor("wl_buffer", "destroy")
CreateParams     == Making("zwp_linux_dmabuf_v1", "create_params", "zwp_linux_buffer_params_v1")
AddPlane         == Plain("zwp_linux_buffer_params_v1", "add")
CreateImmed      == Making("zwp_linux_buffer_params_v1", "create_immed", "wl_buffer")
DestroyParams    == Destructor("zwp_linux_buffer_params_v1", "destroy")
GetPointer       == Making("wl_seat", "get_pointer", "wl_pointer")
GetKeyboard      == Making("wl_seat", "get_keyboard", "wl_keyboard")
GetTouch         == Making("wl_seat", "get_touch", "wl_touch")
ReleasePointer   == Destructor("wl_pointer", "release")
GetViewport      == Req("wp_viewporter", "get_viewport", "wp_viewport", "wl_surface", FALSE)
SetDestination   == Plain("wp_viewport", "set_destination")
DestroyViewport  == Destructor("wp_viewport", "destroy")
GetFractional    == Req("wp_fractional_scale_manager_v1", "get_fractional_scale",
                        "wp_fractional_scale_v1", "wl_surface", FALSE)
GetDataDevice    == Req("wl_data_device_manager", "get_data_device", "wl_data_device", "wl_seat", FALSE)
DestroyOffer     == Destructor("wl_data_offer", "destroy")

\* Interfaces with no compiled-in table: a bind of one cannot be resolved.
Unresolvable == {"gtk_shell1"}
GetGtkSurface    == Req("gtk_shell1", "get_gtk_surface", "gtk_surface1", "wl_surface", FALSE)

\* Requests a legal client makes at most once per live parent or argument.
Single == {"xdg_surface", "xdg_toplevel", "wp_viewport", "wp_fractional_scale_v1"}

\* Objects a legal client destroys only after the objects made from them.
ChildrenFirst == {"wl_surface", "xdg_surface", "xdg_wm_base"}

EventsOf(interface) ==
  CASE interface = "wl_callback" -> {"done"}
    [] interface = "wl_buffer"   -> {"release"}
    [] interface = "wl_pointer"  -> {"enter", "leave", "button"}
    [] interface = "wl_keyboard" -> {"enter", "leave", "key"}
    [] OTHER -> {}
=============================================================================
