------------------------------ MODULE Recovery ------------------------------
(***************************************************************************)
(* recover_state_after_reconnect and synthesize_grab_releases              *)
(* (src/lib.rs), from the reconnect to the moment relaying resumes.        *)
(*                                                                         *)
(* Nothing is relayed meanwhile, but the compositor may die between any    *)
(* two steps: pc "recover" (connected), "replay" (at recipe number at),    *)
(* "configure" and "ack" (the two waits after a recreated toplevel).       *)
(***************************************************************************)
EXTENDS Relay

peerVars == <<scenario, adv, up, boot>>
trackers == <<graph, buffer_flow, pending_frames, grabs, planes>>

\* The proxy sees the end of file and freezes.
SeeEof ==
  /\ pc = "run" /\ ~up
  /\ pc' = "frozen"
  /\ UNCHANGED <<at, proxyVars, peerVars, host, expected, cl>>

\* Wrong: the source of the dead connection is still taken for the proxy's own.
SourceKept == reclaim
ReclaimReset == [reclaim EXCEPT !.source = 0]

\* reconnect_with_backoff succeeds.
Reconnect ==
  /\ pc = "frozen" /\ objects.generation < MaxGeneration
  /\ pc' = "recover" /\ adv' \in Played.advertised
  /\ up' = TRUE /\ host' = FreshHost(HostId) /\ expected' = 2
  /\ objects' = bump_generation(objects)
  /\ reclaim' = ReclaimReset
  /\ UNCHANGED <<scenario, at, trackers, cl, boot>>

-----------------------------------------------------------------------------
\* synthesize_grab_releases: what the client is told about devices that had
\* focus or a button held, if the proxy still knows the device.

GrabsReleased(c) ==
  LET Has(g, event) == event \in EventsOf(objects.interfaces[g])
      Left(g) ==
        \/ /\ g \in active_pointer_grabs(grabs) /\ Has(g, "leave")
           /\ grabs.pointers[g].entered_surface # 0
        \/ g \in active_keyboard_grabs(grabs) /\ Has(g, "leave")
      Dropped(g) == IF g \in active_pointer_grabs(grabs) /\ Has(g, "button")
                    THEN grabs.pointers[g].pressed_buttons ELSE {}
  IN [g \in GuestId |-> [c[g] EXCEPT !.focus = IF Left(g) THEN 0 ELSE @,
                                     !.pressed = @ \ Dropped(g)]]

synthesize_grab_releases(c) ==
  /\ cl' = GrabsReleased(c)
  /\ grabs' = clear(grabs)

-----------------------------------------------------------------------------
\* No registry yet: there is nothing to recover.
RecoverNothing ==
  /\ pc = "recover" /\ find_guest_id_by_interface_name(objects, "wl_registry") = {}
  /\ pc' = "run"
  /\ synthesize_grab_releases(cl)
  /\ UNCHANGED <<at, objects, graph, buffer_flow, pending_frames, planes, reclaim, peerVars, host, expected>>

\* n new ids reach the compositor, if it is still there: made[k] is the k-th.
Created(made) ==
  LET n == objects.next_host_id
  IN /\ host' = IF up THEN [h \in HostId |-> IF h \in n..(n + Len(made) - 1) THEN made[h - n + 1]
                                             ELSE host[h]]
                ELSE host
     /\ expected' = IF up THEN expected + Len(made) ELSE expected

RegistryMapped(g) == map(allocate_host_ids(objects, 2), g, objects.next_host_id, "wl_registry")

\* get_registry and a sync of the proxy's own, whose done marks the last
\* global; any registry the client has may be the one found.  The step is the
\* compositor's answer: pc stays "recover" until it comes, and as nothing else
\* happens meanwhile, what was sent before is part of it.
FetchRegistry ==
  /\ pc = "recover" /\ up /\ RoomFor(2)
  /\ \E g \in find_guest_id_by_interface_name(objects, "wl_registry") :
       /\ objects' = RegistryMapped(g)
       /\ Created(<< HostObject("wl_registry", g, 1, 0, NoAttr),
                     [HostObject("wl_callback", Proxy, 1, 0, NoAttr) EXCEPT !.owed = FALSE, !.dead = TRUE] >>)
  /\ pc' = "replay" /\ at' = 1
  /\ UNCHANGED <<trackers, reclaim, peerVars, cl>>

\* The connection breaks before the last global: recovery reports an error.
FetchFails ==
  /\ pc = "recover" /\ ~up /\ RoomFor(2)
  /\ find_guest_id_by_interface_name(objects, "wl_registry") # {}
  /\ pc' = "frozen"
  /\ objects' = allocate_host_ids(objects, 2)
  /\ UNCHANGED <<at, trackers, reclaim, peerVars, host, expected, cl>>

-----------------------------------------------------------------------------
\* One recipe after the other.

Recipe == graph[at]
Replaying == pc = "replay" /\ at <= Len(graph)

\* Wrong: the end of a wait is taken for the end of another recipe.
AlwaysAdvances(next) == pc' = next /\ at' = at + 1
Done(next) == pc' = next /\ at' = IF next = "replay" THEN at + 1 ELSE at

\* The interface that has the request a recipe replays.
ParentInterface(recipe) ==
  CASE recipe.kind = "Surface"         -> "wl_compositor"
    [] recipe.kind = "XdgSurface"      -> "xdg_wm_base"
    [] recipe.kind = "XdgToplevel"     -> "xdg_surface"
    [] recipe.kind = "ShmPool"         -> "wl_shm"
    [] recipe.kind = "ShmBuffer"       -> "wl_shm_pool"
    [] recipe.kind = "DmabufBuffer"    -> "zwp_linux_dmabuf_v1"
    [] recipe.kind = "SeatDevice"      -> "wl_seat"
    [] recipe.kind = "Viewport"        -> "wp_viewporter"
    [] recipe.kind = "FractionalScale" -> "wp_fractional_scale_manager_v1"

\* A global must be advertised again, anything else needs its parent and its
\* argument to have been recreated on this connection.
Replayable(recipe) ==
  IF recipe.kind = "Global" THEN recipe.interface \in adv
  ELSE /\ objects.interfaces[recipe.parent] = ParentInterface(recipe)
       /\ host_id(objects, recipe.parent) # {}
       /\ host_id(objects, recipe.arg) # {}

\* The host ids a recipe's request names; globals are bound on the registry.
RegistryHostId == 2
HostParents(recipe) == IF recipe.kind = "Global" THEN {RegistryHostId} ELSE host_id(objects, recipe.parent)

ReplaySkips ==
  /\ Replaying /\ ~Replayable(Recipe)
  /\ Done("replay")
  /\ UNCHANGED <<proxyVars, peerVars, host, expected, cl>>

\* A failed write leaves its id allocated and the object unmapped.
ReplayFails ==
  /\ Replaying /\ Replayable(Recipe) /\ ~up
  /\ \E n \in IF Recipe.kind = "DmabufBuffer" THEN 1..2 ELSE {1} :
       RoomFor(n) /\ objects' = allocate_host_ids(objects, n)
  /\ Done("replay")
  /\ UNCHANGED <<trackers, reclaim, peerVars, host, expected, cl>>

\* A recreated toplevel is committed once, to be configured.
CommitSent(recipe, table) ==
  /\ recipe.kind = "XdgToplevel"
  /\ \E x \in recipe_for(graph, recipe.parent) :
       x.kind = "XdgSurface" /\ host_id(table, x.arg) # {} /\ table.interfaces[x.arg] = "wl_surface"

Remapped(recipe, private) ==
  map(allocate_host_ids(objects, private + 1), recipe.id, objects.next_host_id + private, recipe.interface)

\* A dmabuf buffer is recreated through a params object of the proxy's own.
ReplayMaps ==
  LET private == IF Recipe.kind = "DmabufBuffer" THEN 1 ELSE 0
      n == objects.next_host_id
  IN /\ Replaying /\ Replayable(Recipe) /\ RoomFor(private + 1)
     /\ objects' = Remapped(Recipe, private)
     /\ \E hp \in HostParents(Recipe), ha \in host_id(objects, Recipe.arg) :
          LET params == HostObject("zwp_linux_buffer_params_v1", Proxy, hp, 0, Recipe.attr)
              object == HostObject(Recipe.interface, Recipe.id, IF private = 1 THEN n ELSE hp, ha, Recipe.attr)
          IN Created(IF private = 1 THEN <<params, object>> ELSE <<object>>)
     /\ IF CommitSent(Recipe, objects')
        THEN \/ Done("configure")
             \/ ~up /\ Done("replay")
        ELSE Done("replay")
     /\ UNCHANGED <<trackers, reclaim, peerVars, cl>>

-----------------------------------------------------------------------------
\* The two waits after a toplevel: for the compositor's configure, which is
\* passed to the client, and for the client's ack_configure.

Waits(next) ==
  /\ Done(next)
  /\ UNCHANGED <<proxyVars, peerVars, host, expected, cl>>

\* Any other event is read and thrown away; the compositor has focused some
\* recreated device all the same.
LoseEvent ==
  /\ pc = "configure" /\ up /\ WaitTraffic
  /\ \E h, s \in HostId :
       /\ Focusable(h) /\ host[h].focus = 0 /\ HostHas(s, "wl_surface")
       /\ host' = [host EXCEPT ![h].focus = s]
  /\ UNCHANGED <<pc, at, proxyVars, peerVars, expected, cl>>

HostConfigures == pc = "configure" /\ up /\ Waits("ack")
ConfigureFails == pc = "configure" /\ Waits("replay")

\* A client acks through the xdg_surface it still has.
ClientAcks == pc = "ack" /\ Live(cl, Recipe.parent) /\ Waits("replay")
\* Wrong: the ack is awaited without a timeout.
AckAwaitedForever == pc = "ack" /\ ~Live(cl, Recipe.parent) /\ Waits("replay")
AckTimesOut == pc = "ack" /\ Waits("replay")

\* Whatever else the client sends meanwhile is read and thrown away.
Lost(r, s, a, v, g) ==
  /\ cl' = Sent(r, s, a, v, g)
  /\ host' = Settled(host)

LoseRequest ==
  /\ pc = "ack" /\ WaitTraffic
  /\ Sends(Lost)
  /\ UNCHANGED <<scenario, pc, at, proxyVars, adv, up, expected>>

-----------------------------------------------------------------------------
\* The promises of the dead compositor are kept in its place: buffers that
\* came back are released, callbacks are answered.

Releasable ==
  {b \in buffer_flow.in_flight :
     host_id(objects, b) # {} /\ "release" \in EventsOf(objects.interfaces[b])}

Answerable == {g \in pending_frames : objects.interfaces[g] # NoInterface}

\* Wrong: nobody answers in the dead compositor's place.
NothingAnswered(c) == c

\* done goes to what the table says is a callback, delete_id to all of them.
Answered(c) ==
  LET done == {g \in Answerable : "done" \in EventsOf(objects.interfaces[g])}
  IN IdsDeleted([g \in GuestId |-> IF g \in done THEN CallbackDone(c, g)[g] ELSE c[g]], Answerable)

FinishRecovery ==
  /\ pc = "replay" /\ at > Len(graph)
  /\ buffer_flow' = drain_in_flight(buffer_flow)
  /\ pending_frames' = drain_awaiting_done(pending_frames)
  /\ reclaim' = [reclaim EXCEPT !.pending = TRUE, !.ddm = "wl_data_device_manager" \in adv]
  /\ synthesize_grab_releases(Answered(BuffersReleased(cl, Releasable)))
  /\ host' = Settled(host)
  /\ pc' = "run" /\ at' = 0
  /\ UNCHANGED <<objects, graph, planes, peerVars, expected>>

Recover ==
  \/ SeeEof \/ Reconnect \/ RecoverNothing \/ FetchRegistry \/ FetchFails
  \/ ReplaySkips \/ ReplayFails \/ ReplayMaps
  \/ HostConfigures \/ ConfigureFails \/ ClientAcks \/ AckTimesOut \/ LoseEvent \/ LoseRequest
  \/ FinishRecovery
=============================================================================
