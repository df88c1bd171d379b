----------------------------- MODULE Connection -----------------------------
(***************************************************************************)
(* One proxied connection from end to end: run_connection (src/lib.rs),    *)
(* between a client and a compositor that may die at any moment, and the   *)
(* properties that make it correct.                                        *)
(***************************************************************************)
EXTENDS Recovery

\* Every compositor that dies is followed by another one.
HostDies ==
  /\ up /\ objects.generation < MaxGeneration
  /\ pc = "run" \/ DiesInRecovery
  /\ up' = FALSE
  /\ UNCHANGED <<scenario, pc, at, adv, proxyVars, host, expected, cl, boot>>

Next == Request \/ Event \/ Recover \/ HostDies

(***************************************************************************)
(* Fairness.  The select loop of run_connection always gets to its enabled *)
(* arms: it sees an end of file, reconnects, and a recovery it has started *)
(* goes on; two of its waits end by themselves after 5 s.  The third, for  *)
(* the registry, ends with the compositor's answer or its death only, so   *)
(* FetchRegistry is no step of Proxies.  That writes do not block is       *)
(* assumed here; Channel has those that do.                                *)
(*                                                                         *)
(* Answers: a compositor that lives answers callbacks, recovery's own sync *)
(* included, and deletes ids.  Nothing is assumed of the client, of        *)
(* releases, or of configure and ack_configure.                            *)
(***************************************************************************)
Proxies ==
  \/ SeeEof \/ Reconnect \/ RecoverNothing \/ FetchFails
  \/ ReplaySkips \/ ReplayFails \/ ReplayMaps \/ ConfigureFails \/ AckTimesOut \/ FinishRecovery

Answers ==
  \/ FetchRegistry
  \/ /\ pc = "run" /\ up
     /\ \E h \in HostId : HostDone(h) \/ HostDeletesId(h)
     /\ UNCHANGED <<scenario, pc, at, adv, up, boot>>

Spec == Init /\ [][Next]_vars
ProxySpec == Spec /\ WF_vars(Proxies)
FairSpec == ProxySpec /\ WF_vars(Answers)

-----------------------------------------------------------------------------
(***************************************************************************)
(* The state of run_connection is of its types: recovery is at a recipe of *)
(* the graph or just past the last one, and what the trackers hold are     *)
(* guest ids.                                                              *)
(***************************************************************************)
TypeOK ==
  /\ pc \in {"run", "frozen", "recover", "replay", "configure", "ack"}
  /\ at \in 0..(Len(graph) + 1)
  /\ scenario \in DOMAIN Scenarios /\ adv \in Played.advertised
  /\ objects \in ShadowTableType
  /\ \A i \in DOMAIN graph :
       /\ graph[i].kind \in RecipeKind /\ graph[i].id \in ClientGuestId
       /\ {graph[i].parent, graph[i].arg} \subseteq GuestId \cup {0}
  /\ buffer_flow.in_flight \cup pending_frames \subseteq GuestId
  /\ reclaim \in [pending : BOOLEAN, ddm : BOOLEAN, source : Nat]
  /\ \A h \in HostId : host[h].owner \in GuestId \cup {0, Proxy, Orphan}
  /\ DOMAIN cl = GuestId

Ids == INSTANCE IdTranslation WITH
  owner <- [h \in HostId |-> IF host[h].iface = "none" THEN 0 ELSE host[h].owner],
  used <- Holds(cl)

(***************************************************************************)
(* The whole connection keeps the promises of IdTranslation: every request,*)
(* event, crash and replayed recipe is one of its steps.                   *)
(***************************************************************************)
TranslatesIds == Ids!Spec

-----------------------------------------------------------------------------
Settles == pc = "run" /\ up
Known(g) == Live(cl, g) /\ objects.interfaces[g] = cl[g].iface
Current(g) == Live(cl, g) /\ host_id(objects, g) # {}
HostOf(g) == CHOOSE h \in host_id(objects, g) : TRUE

(***************************************************************************)
(* A translated object is, for the compositor, an object of the interface  *)
(* the client means, made from the objects the client made it from.  If    *)
(* the client has given the parent up, it does not hang below whatever now *)
(* has the parent's id.  (A dmabuf buffer hangs below a params object,     *)
(* which is never recreated: it is left out.)                              *)
(***************************************************************************)
SameShape ==
  Settles => \A g \in GuestId \ {1} : Current(g) =>
    LET o == host[HostOf(g)]
        p == host[o.parent].owner
    IN /\ o.iface = cl[g].iface
       /\ o.attr["planes"] = 0 =>
            IF cl[g].parent # 0 THEN p = cl[g].parent
            ELSE p \notin GuestId \/ ~Live(cl, p)
       /\ cl[g].arg # 0 /\ Live(cl, cl[g].arg) => host[o.arg].owner = cl[g].arg

(***************************************************************************)
(* What the client last set on an object (title, app_id as corrected, pool *)
(* size, viewport destination, dmabuf planes) is what the compositor has,  *)
(* whether it was told live, while frozen, or by a replayed recipe.        *)
(***************************************************************************)
SameAttributes ==
  Settles => \A g \in GuestId : Current(g) =>
    host[HostOf(g)].attr =
      [cl[g].attr EXCEPT !["app_id"] = IF @ = 0 THEN 0 ELSE corrected_app_id(@)]

(***************************************************************************)
(* When relaying resumes, no tracked object is left behind that could have *)
(* been recreated: a live object with a recipe kind is current again if    *)
(* the compositor advertises its global, or if its parent and argument are *)
(* current.                                                                *)
(***************************************************************************)
Recreatable(g) ==
  IF cl[g].iface \in RecreatedGlobals THEN cl[g].iface \in adv
  ELSE IF cl[g].attr["planes"] > 0 THEN cl[g].iface = "wl_buffer" /\ "zwp_linux_dmabuf_v1" \in adv
  ELSE /\ cl[g].iface \in {"wl_surface", "xdg_surface", "xdg_toplevel", "wl_shm_pool", "wl_buffer",
                           "wl_pointer", "wl_keyboard", "wl_touch", "wp_viewport",
                           "wp_fractional_scale_v1"}
       /\ cl[g].parent # 0 /\ Current(cl[g].parent)
       /\ cl[g].arg # 0 => Current(cl[g].arg)

NothingLeftBehind == Settles => \A g \in GuestId : Known(g) /\ Recreatable(g) => Current(g)

(***************************************************************************)
(* The proxy never decodes a request by another object's signature: the    *)
(* interface it has for a live id is the client's, or that of an answered  *)
(* callback the id had before (which has no requests at all).              *)
(***************************************************************************)
SameSignature ==
  \A g \in GuestId : Live(cl, g) => objects.interfaces[g] \in {NoInterface, cl[g].iface, "wl_callback"}

(***************************************************************************)
(* Client and compositor agree on focus and held buttons: after a crash    *)
(* the client is not left believing in a grab the new compositor does not  *)
(* know of.                                                                *)
(***************************************************************************)
SameGrabs ==
  Settles => \A g \in GuestId : Live(cl, g) =>
    LET hs == host_id(objects, g)
        focus == (UNION {guest_id(objects, host[h].focus) : h \in hs}) \cup (IF hs = {} THEN {0} ELSE {})
    IN /\ focus = {cl[g].focus}
       /\ cl[g].pressed = UNION {host[h].pressed : h \in hs}

(***************************************************************************)
(* The id whose events the proxy keeps for itself is its own data source   *)
(* on this connection, never an object of the client's.                    *)
(***************************************************************************)
SourceIsOwn ==
  reclaim.source # 0 =>
    /\ guest_id(objects, reclaim.source) = {}
    /\ up => host[reclaim.source].owner = Proxy /\ host[reclaim.source].iface = "wl_data_source"

(***************************************************************************)
(* Every callback the client waits on will be answered by the compositor   *)
(* or is on the list recovery answers from.                                *)
(***************************************************************************)
PromisesTracked ==
  \A g \in GuestId : Known(g) /\ cl[g].iface = "wl_callback" => g \in pending_frames

(***************************************************************************)
(* A buffer the client believes busy is on the list recovery releases from.*)
(***************************************************************************)
BusyTracked == \A g \in GuestId : Known(g) /\ cl[g].busy => g \in buffer_flow.in_flight

(***************************************************************************)
(* delete_id is only ever sent for an object the client has destroyed.     *)
(***************************************************************************)
DeletedIdsAreDead == \A g \in GuestId : ~cl[g].gone

(***************************************************************************)
(* When a recovery is about to synthesize leave events, each surface they  *)
(* name is one the client still holds: libwayland treats an event that     *)
(* names a freed id as a fatal error.                                      *)
(***************************************************************************)
LeavesNameHeldSurfaces ==
  pc = "replay" /\ at > Len(graph) =>
    \A d \in GuestId : "leave" \in EventsOf(objects.interfaces[d]) =>
      {grabs.pointers[d].entered_surface, grabs.keyboards[d].entered_surface} \subseteq Holds(cl) \cup {0}

(***************************************************************************)
(* No object the client has destroyed exists on the compositor: a later    *)
(* reconnect does not recreate it (src/recreation.rs, remove).             *)
(***************************************************************************)
NoGhosts ==
  Settles => \A h \in HostId : host[h].owner \in GuestId /\ ~host[h].dead => Live(cl, host[h].owner)

\* Recovery has asked for the registry and reads until its sync is answered,
\* the one wait without a timeout.
AwaitsRegistry ==
  pc = "recover" /\ up /\ find_guest_id_by_interface_name(objects, "wl_registry") # {}

(***************************************************************************)
(* A connection that has lost its compositor relays again in the end       *)
(* (recover_state_after_reconnect): of client and compositor nothing is    *)
(* assumed, neither configure nor ack_configure, nor that the compositor   *)
(* lives until the end.  The one that can keep it from that is a           *)
(* compositor that lives and never answers the sync behind get_registry.   *)
(***************************************************************************)
RecoveryEnds == (pc # "run") ~> (pc = "run" \/ []AwaitsRegistry)

(***************************************************************************)
(* Every callback is answered, across any number of crashes.               *)
(***************************************************************************)
CallbacksAnswered ==
  \A g \in ClientGuestId : (Live(cl, g) /\ cl[g].iface = "wl_callback") ~> ~(Live(cl, g) /\ cl[g].iface = "wl_callback")

(***************************************************************************)
(* A buffer that is busy when the compositor is lost becomes free again.   *)
(***************************************************************************)
LostBuffersReleased == \A g \in ClientGuestId : (cl[g].busy /\ pc # "run") ~> ~cl[g].busy
=============================================================================
