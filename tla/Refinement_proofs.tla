-------------------------- MODULE Refinement_proofs --------------------------
(***************************************************************************)
(* That a whole connection keeps the promises of IdTranslation, whatever   *)
(* the scenario, the ids and the bounds are: every request, event, crash   *)
(* and replayed recipe is one of that module's steps or changes nothing    *)
(* it speaks of.                                                           *)
(*                                                                         *)
(* The promises speak of who owns a host id and of the ids the client      *)
(* holds.  That each step of the connection is one of theirs needs more,   *)
(* and that is RInv: next to the invariants of both modules, how the table,*)
(* the recipes and the list of callbacks stand to what the client has (a   *)
(* recipe of an object the client was told is gone would recreate it       *)
(* under an id in use), and how the compositor's objects stand to the      *)
(* table.                                                                  *)
(*                                                                         *)
(* One request breaks it: the answer to a frame request on a surface of an *)
(* earlier connection frees the callback, but leaves it on the list that   *)
(* recovery answers from (run MCStaleFrame).  The theorems are about the    *)
(* executions without such a request, NoRefusedFrame.                      *)
(***************************************************************************)
EXTENDS Connection_proofs
------------------------------------------------------------------------------
\* IdTranslation, for a connection.

\* The owners and the held ids of IdTranslation, as Connection has them.
Own == [h \in HostId |-> IF host[h].iface = "none" THEN 0 ELSE host[h].owner]
P == INSTANCE IdTranslation_proofs WITH owner <- Own, used <- Holds(cl)

\* The ids the client holds, in terms of the objects' states.
LEMMA HoldsIs ==
  ASSUME NEW c, ClientShape(c)
  PROVE  Holds(c) \subseteq GuestId /\ \A g \in GuestId : g \in Holds(c) <=> c[g].st \in {"live", "dead"}
BY DEF Holds, ClientShape

\* A step IdTranslation does not see.
LEMMA Stutters ==
  ASSUME UNCHANGED <<objects, up, expected, Own, Holds(cl)>>
  PROVE  [P!Next]_(P!vars)
BY DEF P!vars

\* A request with a new_id that is passed on, or that nobody is there to get.
LEMMA Creates ==
  ASSUME NEW g \in ClientGuestId, NEW i \in Interface, g \notin Holds(cl), up' = up,
         Holds(cl') = Holds(cl) \cup {g}, RoomFor(1), Played.hosts \subseteq ClientHostId,
         objects' = map(allocate_host_id(objects), g, objects.next_host_id, i),
         objects.next_host_id \in Nat,
         up => /\ expected' = expected + 1
               /\ \A h \in HostId : Own'[h] = IF h = objects.next_host_id THEN g ELSE Own[h],
         ~up => UNCHANGED <<Own, expected>>
  PROVE  [P!Next]_(P!vars)
<1>1. P!RoomFor(1)
  BY DEF RoomFor, P!RoomFor
<1>2. P!Announce(1, objects.next_host_id, g)
  <2>1. objects.next_host_id..(objects.next_host_id + 1 - 1) = {objects.next_host_id}
    OBVIOUS
  <2>2. Own' = [h \in HostId |-> Own'[h]]
    BY DEF Own
  <2>. QED BY <2>1, <2>2 DEF P!Announce, P!HostId, HostId
<1>3. objects' = P!map(P!allocate_host_id(objects), g, objects.next_host_id, i)
  BY DEF map, allocate_host_id, allocate_host_ids, BiMapInsert, P!map, P!allocate_host_id,
         P!allocate_host_ids, P!BiMapInsert, GuestId, P!GuestId, NoId, P!NoId
<1>4. P!Create(g, i)
  BY <1>1, <1>2, <1>3 DEF P!Create
<1>. QED BY <1>4 DEF P!Next

\* A request with a new_id whose sender is stale.
LEMMA Rejects ==
  ASSUME NEW g \in ClientGuestId, NEW i \in Interface, g \notin Holds(cl),
         Holds(cl') = Holds(cl) \cup {g}, UNCHANGED <<up, expected, Own>>,
         objects' = remove_guest(unallocate_host_id(map(allocate_host_id(objects), g, objects.next_host_id, i),
                                                    objects.next_host_id), g)
  PROVE  [P!Next]_(P!vars)
<1> DEFINE h == objects.next_host_id
<1>1. map(allocate_host_id(objects), g, h, i) = P!map(P!allocate_host_id(objects), g, h, i)
  BY DEF map, allocate_host_id, allocate_host_ids, BiMapInsert, P!map, P!allocate_host_id,
         P!allocate_host_ids, P!BiMapInsert, GuestId, P!GuestId, NoId, P!NoId
<1>2. \A t : remove_guest(unallocate_host_id(t, h), g) = P!remove_guest(P!unallocate_host_id(t, h), g)
  BY DEF remove_guest, unallocate_host_id, P!remove_guest, P!unallocate_host_id,
         NoId, NoInterface, NoGeneration, P!NoId, P!NoInterface, P!NoGeneration
<1>3. P!CreateRejected(g, i, TRUE)
  BY <1>1, <1>2 DEF P!CreateRejected
<1>. QED BY <1>3 DEF P!Next

\* A request with a new_id that is dropped before the new_id is looked at.
LEMMA Drops ==
  ASSUME NEW g \in ClientGuestId, g \notin Holds(cl), Holds(cl') = Holds(cl) \cup {g},
         UNCHANGED <<objects, up, expected, Own>>
  PROVE  [P!Next]_(P!vars)
<1>1. P!CreateDropped(g)
  BY DEF P!CreateDropped
<1>. QED BY <1>1 DEF P!Next

\* Recovery recreates an object, with ids of its own before or after.
LEMMA Recreates ==
  ASSUME NEW g \in ClientGuestId, NEW i \in Interface, g \in Holds(cl) \ {1},
         NEW before \in 0..1, NEW after \in 0..1, UNCHANGED <<up, Holds(cl)>>,
         RoomFor(before + 1 + after), Played.hosts \subseteq ClientHostId, objects.next_host_id \in Nat,
         objects' = map(allocate_host_ids(objects, before + 1 + after), g, objects.next_host_id + before, i),
         up => /\ expected' = expected + (before + 1 + after)
               /\ \A h \in HostId :
                    Own'[h] = IF h \in objects.next_host_id..(objects.next_host_id + (before + 1 + after) - 1)
                              THEN IF h = objects.next_host_id + before THEN g ELSE Proxy
                              ELSE Own[h],
         ~up => UNCHANGED <<Own, expected>>
  PROVE  [P!Next]_(P!vars)
<1> DEFINE n == before + 1 + after
           h == objects.next_host_id + before
<1>1. P!RoomFor(n)
  BY DEF RoomFor, P!RoomFor
<1>2. P!Announce(n, h, g)
  <2>1. Own' = [x \in HostId |-> Own'[x]]
    BY DEF Own
  <2>. QED BY <2>1 DEF P!Announce, P!HostId, HostId, Proxy, P!Proxy
<1>3. objects' = P!map(P!allocate_host_ids(objects, n), g, h, i)
  BY DEF map, allocate_host_ids, BiMapInsert, P!map,
         P!allocate_host_ids, P!BiMapInsert, GuestId, P!GuestId, NoId, P!NoId
<1>4. P!Recreate(g, i, before, after)
  BY <1>1, <1>2, <1>3 DEF P!Recreate
<1>. QED BY <1>4 DEF P!Next

\* The proxy makes objects for itself, or fails to.
LEMMA MakesOwn ==
  ASSUME NEW n \in 0..3, UNCHANGED <<up, Holds(cl)>>, objects \in ShadowTableType,
         RoomFor(n), Played.hosts \subseteq ClientHostId, objects' = allocate_host_ids(objects, n),
         up => /\ expected' = expected + n
               /\ \A h \in HostId :
                    Own'[h] = IF h \in objects.next_host_id..(objects.next_host_id + n - 1)
                              THEN Proxy ELSE Own[h],
         ~up => UNCHANGED <<Own, expected>>, expected \in Nat
  PROVE  [P!Next]_(P!vars)
<1>1. Own' = [x \in HostId |-> Own'[x]] /\ Own = [x \in HostId |-> Own[x]]
  BY DEF Own
<1>2. objects.next_host_id \in Nat
  BY DEF ShadowTableType
<1>3. CASE n = 0
  <2>1. objects' = objects
    BY <1>3 DEF allocate_host_ids, ShadowTableType
  <2>2. Own' = Own /\ expected' = expected
    <3>1. objects.next_host_id..(objects.next_host_id + n - 1) = {}
      BY <1>2, <1>3
    <3>. QED BY <1>1, <1>3, <3>1
  <2>. QED BY <2>1, <2>2, Stutters
<1>4. CASE n \in 1..3
  <2>1. P!RoomFor(n)
    BY DEF RoomFor, P!RoomFor
  <2>2. P!Announce(n, P!Nothing, P!Nothing)
    <3>1. \A h \in HostId : h # P!Nothing
      BY IdRanges DEF P!Nothing
    <3>. QED BY <1>1, <3>1 DEF P!Announce, P!HostId, HostId, Proxy, P!Proxy
  <2>3. P!CreatePrivate(n)
    BY <2>1, <2>2 DEF P!CreatePrivate, P!allocate_host_ids, allocate_host_ids
  <2>. QED BY <1>4, <2>3 DEF P!Next
<1>. QED BY <1>3, <1>4

\* An event brings a new object of the compositor.
LEMMA ServerCreates ==
  ASSUME NEW h \in ServerHostId, NEW i \in Interface, host[h].iface = "none",
         objects.next_guest_server_id \in ServerGuestId,
         objects' = map(allocate_guest_server_id(objects), objects.next_guest_server_id, h, i),
         \A x \in HostId : Own'[x] = IF x = h THEN objects.next_guest_server_id ELSE Own[x],
         Holds(cl') = Holds(cl) \cup {objects.next_guest_server_id}, UNCHANGED <<up, expected>>
  PROVE  [P!Next]_(P!vars)
<1> DEFINE g == objects.next_guest_server_id
<1>1. objects' = P!map(P!allocate_guest_server_id(objects), g, h, i)
  BY DEF map, allocate_guest_server_id, BiMapInsert, P!map,
         P!allocate_guest_server_id, P!BiMapInsert, GuestId, P!GuestId, NoId, P!NoId
<1>2. Own[h] = P!Nothing
  BY DEF Own, HostId, P!Nothing
<1>3. Own' = [Own EXCEPT ![h] = g]
  <2>1. Own' = [x \in HostId |-> Own'[x]]
    BY DEF Own
  <2>. QED BY <2>1 DEF Own
<1>4. P!ServerCreate(h, i)
  BY <1>1, <1>2, <1>3 DEF P!ServerCreate
<1>. QED BY <1>4 DEF P!Next

\* delete_id, relayed or dropped.
LEMMA Deletes ==
  ASSUME NEW h \in ClientHostId \ {1}, Own[h] # 0, UNCHANGED <<up, expected>>,
         \A x \in HostId : Own'[x] = IF x = h THEN 0 ELSE Own[x],
         \/ guest_id(objects, h) = {} /\ UNCHANGED <<objects, Holds(cl)>>
         \/ \E g \in guest_id(objects, h) :
              objects' = remove_guest(objects, g) /\ Holds(cl') = Holds(cl) \ {g}
  PROVE  [P!Next]_(P!vars)
<1>1. Own' = [Own EXCEPT ![h] = P!Nothing]
  <2>1. Own' = [x \in HostId |-> Own'[x]]
    BY DEF Own
  <2>. QED BY <2>1 DEF Own, P!Nothing
<1>2. guest_id(objects, h) = P!guest_id(objects, h)
  BY DEF guest_id, P!guest_id, GuestId, P!GuestId, is_current_generation, P!is_current_generation
<1>3. \A g : remove_guest(objects, g) = P!remove_guest(objects, g)
  BY DEF remove_guest, P!remove_guest, NoId, NoInterface, NoGeneration, P!NoId, P!NoInterface, P!NoGeneration
<1>4. P!DeleteId(h)
  BY <1>1, <1>2, <1>3 DEF P!DeleteId, P!Nothing
<1>. QED BY <1>4 DEF P!Next

\* The proxy answers a destructor with its own delete_id.
LEMMA Synthesizes ==
  ASSUME NEW g \in GuestId \ {1}, g \in Holds(cl), host_id(objects, g) = {},
         objects' = remove_guest(objects, g), Holds(cl') = Holds(cl) \ {g},
         \A h \in HostId : Own'[h] = IF Own[h] = g THEN Orphan ELSE Own[h],
         UNCHANGED <<up, expected>>
  PROVE  [P!Next]_(P!vars)
<1>1. Own' = [h \in HostId |-> Own'[h]]
  BY DEF Own
<1>2. P!GiveUp({g})
  BY <1>1 DEF P!GiveUp, HostId, P!HostId, Orphan, P!Orphan
<1>3. host_id(objects, g) = P!host_id(objects, g)
  BY DEF host_id, P!host_id, NoId, P!NoId, is_current_generation, P!is_current_generation
<1>4. remove_guest(objects, g) = P!remove_guest(objects, g)
  BY DEF remove_guest, P!remove_guest, NoId, NoInterface, NoGeneration, P!NoId, P!NoInterface, P!NoGeneration
<1>5. P!SynthesizeDeleteId(g)
  BY <1>2, <1>3, <1>4 DEF P!SynthesizeDeleteId
<1>. QED BY <1>5 DEF P!Next, GuestId, P!GuestId

\* The client gives ids up that the compositor will not be asked about.
LEMMA Frees ==
  ASSUME NEW S \in SUBSET (Holds(cl) \ {1}), Holds(cl') = Holds(cl) \ S,
         \A g \in S : host_id(objects, g) = {} \/ g \in ServerGuestId,
         \A h \in HostId : Own'[h] = IF Own[h] \in S THEN Orphan ELSE Own[h],
         UNCHANGED <<objects, up, expected>>
  PROVE  [P!Next]_(P!vars)
<1>1. Own' = [h \in HostId |-> Own'[h]]
  BY DEF Own
<1>2. P!GiveUp(S)
  BY <1>1 DEF P!GiveUp, HostId, P!HostId, Orphan, P!Orphan
<1>3. \A g : host_id(objects, g) = P!host_id(objects, g)
  BY DEF host_id, P!host_id, NoId, P!NoId, is_current_generation, P!is_current_generation
<1>4. P!ClientFrees(S)
  BY <1>2, <1>3 DEF P!ClientFrees
<1>. QED BY <1>4 DEF P!Next

\* The compositor uses a server id again.
LEMMA Forgets ==
  ASSUME NEW h \in ServerHostId, Own[h] = Orphan, UNCHANGED <<objects, up, expected, Holds(cl)>>,
         \A x \in HostId : Own'[x] = IF x = h THEN 0 ELSE Own[x]
  PROVE  [P!Next]_(P!vars)
<1>1. Own' = [Own EXCEPT ![h] = P!Nothing]
  <2>1. Own' = [x \in HostId |-> Own'[x]]
    BY DEF Own
  <2>. QED BY <2>1 DEF Own, P!Nothing
<1>2. P!ServerForgets(h)
  BY <1>1 DEF P!ServerForgets, Orphan, P!Orphan
<1>. QED BY <1>2 DEF P!Next

\* The compositor dies.
LEMMA Dies ==
  ASSUME up, ~up', UNCHANGED <<objects, Own, expected, Holds(cl)>>, up' \in BOOLEAN
  PROVE  [P!Next]_(P!vars)
<1>1. P!HostDies
  BY DEF P!HostDies
<1>. QED BY <1>1 DEF P!Next

\* The proxy connects to the next one.
LEMMA Reconnects ==
  ASSUME ~up, up' = TRUE, objects.generation < MaxGeneration, objects' = bump_generation(objects),
         expected' = 2, UNCHANGED Holds(cl),
         \A h \in HostId : Own'[h] = IF h = 1 THEN 1 ELSE 0
  PROVE  [P!Next]_(P!vars)
<1>1. Own' = P!FreshHost
  <2>1. Own' = [h \in HostId |-> Own'[h]]
    BY DEF Own
  <2>. QED BY <2>1 DEF P!FreshHost, HostId, P!HostId, P!Nothing
<1>2. bump_generation(objects) = P!bump_generation(objects)
  BY DEF bump_generation, P!bump_generation, map, P!map, BiMapInsert, P!BiMapInsert,
         GuestId, P!GuestId, NoId, P!NoId
<1>3. P!Reconnect
  BY <1>1, <1>2 DEF P!Reconnect
<1>. QED BY <1>3 DEF P!Next

------------------------------------------------------------------------------
\* The inductive invariant.

\* The promises of IdTranslation in terms of what Connection has.
Promises ==
  /\ up => objects.next_host_id = expected
  /\ up => \A g \in Holds(cl), h \in Nat \ {NoId} : Maps(objects, g, h) => h \in HostId /\ Own[h] = g
  /\ \A g \in ClientGuestId \ Holds(cl), h \in Nat \ {NoId} : ~Maps(objects, g, h)

\* They follow from its invariant.
LEMMA PromisesIs ==
  ASSUME P!IInv
  PROVE  Promises /\ expected \in Nat /\ up \in BOOLEAN
BY DEF P!IInv, P!TypeOK, P!Gapless, P!Sound, P!Free, P!Maps, Maps, P!HostId, HostId, NoId, P!NoId, Promises

\* No callback has a delete_id before it was destroyed.
Alive(c) == \A g \in GuestId : c[g].st \in {"new", "free", "live", "dead"} /\ ~c[g].gone

\* The interface the table has for an id: the client's, or that of a callback
\* the id had before; server ids are offers.
Named(t, c) ==
  \A g \in GuestId :
    /\ t.interfaces[g] \in IF c[g].st \in {"live", "dead"} THEN {"none", c[g].iface, "wl_callback"}
                           ELSE {"none", "wl_callback", "wl_data_offer"}
    /\ g \in ServerGuestId => t.interfaces[g] \in {"none", "wl_data_offer"}
    /\ g \in ClientGuestId => t.interfaces[g] # "wl_data_offer"

\* Recipes are of objects the client has not been told are gone.
Standing(c) ==
  {x \in Recipes : /\ c[x.id].st \in {"live", "dead"} /\ x.interface = c[x.id].iface
                   /\ x.interface \notin {"wl_callback", "wl_data_offer"}}

\* What waits for done is a callback.
Waiting(pf, c) == \A g \in pf : c[g].st = "live" /\ c[g].iface = "wl_callback"

\* Server ids are mapped to server ids, and those are offers.
Ranges(t, k) ==
  /\ \A g \in GuestId, h \in HostId : Maps(t, g, h) => (g \in ServerGuestId <=> h \in ServerHostId)
  /\ \A h \in ServerHostId : k[h].iface \in {"none", "wl_data_offer"}

\* What the compositor has for a live object is of its interface, and lives.
Agree(t, c, k) ==
  \A g \in GuestId, h \in HostId :
    Maps(t, g, h) /\ c[g].st = "live" /\ k[h].iface # "none" => k[h].iface = c[g].iface /\ ~k[h].dead

\* Every object has an owner; only objects are destroyed; a destroyed offer is an orphan.
Objects(k) ==
  \A h \in HostId :
    /\ k[h].iface # "none" => k[h].owner # 0
    /\ k[h].dead => k[h].iface # "none"
    /\ k[h].dead /\ h \in ServerHostId => k[h].owner = Orphan

\* There is no object past the last id handed out.
Ahead(t, k) == \A h \in ClientHostId : h >= t.next_host_id => k[h].iface = "none"

\* Callbacks are not recreated: none is mapped while recovery runs.
Unanswered(t) ==
  \A g \in GuestId, h \in Nat \ {NoId} : t.interfaces[g] = "wl_callback" => ~Maps(t, g, h)

\* The inductive invariant.
RInv ==
  /\ TInv /\ P!IInv
  /\ Alive(cl) /\ Named(objects, cl) /\ graph \in Seq(Standing(cl)) /\ Waiting(pending_frames, cl)
  /\ Ranges(objects, host) /\ Agree(objects, cl, host) /\ Objects(host) /\ Ahead(objects, host)
  /\ pc \notin {"run", "frozen"} => Unanswered(objects)

\* The rest of RInv in the next state; the step is one of IdTranslation.
Keeps ==
  /\ [P!Next]_(P!vars)
  /\ Alive(cl)' /\ Named(objects, cl)' /\ (graph \in Seq(Standing(cl)))' /\ Waiting(pending_frames, cl)'
  /\ Ranges(objects, host)' /\ Agree(objects, cl, host)' /\ Objects(host)' /\ Ahead(objects, host)'
  /\ (pc \notin {"run", "frozen"} => Unanswered(objects))'

\* A step that keeps the parts keeps the invariant: the step of IdTranslation keeps its own.
LEMMA KeepsIs ==
  ASSUME RInv, Keeps, TInv'
  PROVE  RInv'
<1>1. P!IInv'
  BY P!NextStep, ClientGuestIdAssumption, ServerGuestIdAssumption, ServerBaseAssumption, InterfaceAssumption,
     ClientHostIdAssumption, ServerHostIdAssumption, BoundsAssumption DEF RInv, Keeps
<1>. QED BY <1>1 DEF RInv, Keeps

\* The parts of the next state are the parts of the primed variables.
LEMMA PartsNext ==
  /\ Alive(cl)' <=> Alive(cl')
  /\ Named(objects, cl)' <=> Named(objects', cl')
  /\ (graph \in Seq(Standing(cl)))' <=> graph' \in Seq(Standing(cl'))
  /\ Waiting(pending_frames, cl)' <=> Waiting(pending_frames', cl')
  /\ Ranges(objects, host)' <=> Ranges(objects', host')
  /\ Agree(objects, cl, host)' <=> Agree(objects', cl', host')
  /\ Objects(host)' <=> Objects(host')
  /\ Ahead(objects, host)' <=> Ahead(objects', host')
BY DEF Alive, Named, Standing, Waiting, Ranges, Agree, Objects, Ahead, Maps

\* What RInv says, in one place.
LEMMA RInvIs ==
  ASSUME RInv
  PROVE  /\ Control /\ Trackers /\ ClientShape(cl) /\ Display(cl) /\ HostShape(host) /\ Owned(host)
         /\ HostDisplay(host) /\ TableInv(objects) /\ TableDisplay(objects) /\ OwnSource
         /\ Promises /\ expected \in Nat /\ up \in BOOLEAN
         /\ Alive(cl) /\ Named(objects, cl) /\ graph \in Seq(Standing(cl)) /\ Waiting(pending_frames, cl)
         /\ Ranges(objects, host) /\ Agree(objects, cl, host) /\ Objects(host) /\ Ahead(objects, host)
         /\ Played.hosts \subseteq ClientHostId
         /\ objects.next_host_id \in Nat /\ objects.next_host_id >= 2
BY PromisesIs, ScenariosAssumption DEF RInv, TInv, Control, Played, TableInv, ShadowTableType

\* What has to be shown of a step, as conditions on the primed variables.
LEMMA KeepsWhen ==
  ASSUME [P!Next]_(P!vars),
         Alive(cl'), Named(objects', cl'), graph' \in Seq(Standing(cl')), Waiting(pending_frames', cl'),
         Ranges(objects', host'), Agree(objects', cl', host'), Objects(host'), Ahead(objects', host'),
         pc' \notin {"run", "frozen"} => Unanswered(objects')
  PROVE  Keeps
<1>1. Unanswered(objects)' <=> Unanswered(objects')
  BY DEF Unanswered, Maps
<1>. QED BY <1>1, PartsNext DEF Keeps

------------------------------------------------------------------------------
\* Requests.

\* Recipes stand as long as their objects are held under the same interface.
LEMMA StandingKept ==
  ASSUME NEW c, NEW d, NEW old \in Seq(Standing(c)),
         \A g \in ClientGuestId : c[g].st \in {"live", "dead"} /\ c[g].iface # "wl_callback" =>
           d[g].st \in {"live", "dead"} /\ d[g].iface = c[g].iface
  PROVE  old \in Seq(Standing(d))
<1>1. \A x \in Standing(c) : x \in Standing(d)
  BY DEF Standing, Recipes
<1>. QED BY <1>1, RecipesIn

\* After remove they stand without the object removed.
LEMMA StandingRemoved ==
  ASSUME NEW c, NEW d, NEW old \in Seq(Standing(c)), NEW id,
         \A g \in ClientGuestId \ {id} : c[g].st \in {"live", "dead"} /\ c[g].iface # "wl_callback" =>
           d[g].st \in {"live", "dead"} /\ d[g].iface = c[g].iface
  PROVE  remove(old, id) \in Seq(Standing(d))
<1>1. remove(old, id) \in Seq({x \in Standing(c) : x.id # id})
  BY Removed
<1>2. \A x \in {y \in Standing(c) : y.id # id} : x \in Standing(d)
  BY DEF Standing, Recipes
<1>. QED BY <1>1, <1>2, RecipesIn

\* The client after a request.
LEMMA SentGives ==
  ASSUME RInv, NEW r, NEW s, NEW a, NEW v, NEW g, Sendable(r, s, a, v, g)
  PROVE  LET u == Sent(r, s, a, v, g)
             new == r.child # "none"
         IN /\ ClientShape(u)
            /\ \A x \in GuestId :
                 /\ u[x].st = IF new /\ x = g THEN "live"
                              ELSE IF r.dtor /\ x = s THEN IF s \in ServerGuestId THEN "free" ELSE "dead"
                              ELSE cl[x].st
                 /\ u[x].iface = IF new /\ x = g THEN r.child
                                 ELSE IF r.dtor /\ x = s /\ s \in ServerGuestId THEN "none" ELSE cl[x].iface
                 /\ ~u[x].gone
            /\ new => /\ g \in ClientGuestId \ {1} /\ g \in GuestId \ {1} /\ g \notin ServerGuestId
                      /\ cl[g].st \in {"new", "free"}
            /\ r.dtor => ~new /\ s # 1 /\ s \in GuestId /\ cl[s].st = "live" /\ cl[s].iface # "wl_callback"
<1>1. Control /\ ClientShape(cl) /\ Alive(cl) /\ Display(cl)
  BY RInvIs
<1>2. s \in GuestId /\ cl[s].st = "live" /\ cl[s].iface = r.on /\ ~cl[s].gone
  BY <1>1 DEF Sendable, Alive
<1>3. r.child # "none" => g \in ClientGuestId \ {1} /\ g \in GuestId \ {1} /\ g \notin ServerGuestId
                          /\ cl[g].st \in {"new", "free"}
  BY <1>1, NewIdIs, IdRanges DEF Sendable
<1>4. r.dtor => ~(r.child # "none") /\ s # 1 /\ cl[s].iface # "wl_callback"
  BY <1>1, <1>2, SendableRequest DEF Display
<1> DEFINE u == Sent(r, s, a, v, g)
<1>5. /\ ClientShape(u)
      /\ \A x \in GuestId :
           /\ u[x].st = IF r.child # "none" /\ x = g THEN "live"
                        ELSE IF r.dtor /\ x = s THEN IF s \in ServerGuestId \/ cl[s].gone THEN "free" ELSE "dead"
                        ELSE cl[x].st
           /\ u[x].iface = IF r.child # "none" /\ x = g THEN r.child
                           ELSE IF r.dtor /\ x = s /\ (s \in ServerGuestId \/ cl[s].gone) THEN "none" ELSE cl[x].iface
           /\ ~cl[x].gone => ~u[x].gone
  BY <1>1, <1>2, <1>3, SentIs
<1> HIDE DEF u
<1>. QED BY <1>1, <1>2, <1>3, <1>4, <1>5 DEF u, Alive

\* The graph after a request, before anything is removed from it.
LEMMA GraphSent ==
  ASSUME RInv, NEW r, NEW s, NEW a, NEW v, NEW g, Sendable(r, s, a, v, g), r.child \notin Unresolvable
  PROVE  Updated(Captured(r, s, a, v, g), r, s, v) \in Seq(Standing(Sent(r, s, a, v, g)))
<1> DEFINE u == Sent(r, s, a, v, g)
           S == Standing(u)
<1>1. Control /\ Trackers /\ Display(cl) /\ graph \in Seq(Standing(cl))
  BY RInvIs
<1>2. graph \in Seq(S)
  <2>1. \A x \in ClientGuestId : cl[x].st \in {"live", "dead"} /\ cl[x].iface # "wl_callback" =>
          u[x].st \in {"live", "dead"} /\ u[x].iface = cl[x].iface
    BY SentGives, IdRanges DEF GuestId
  <2>. QED BY <1>1, <2>1, StandingKept
<1>3. Captured(r, s, a, v, g) \in Seq(S)
  <2>1. CASE Captured(r, s, a, v, g) = graph
    BY <1>2, <2>1
  <2>2. ASSUME NEW x \in Recipes, Captured(r, s, a, v, g) = record(graph, x), x.id = g,
               x.interface = r.child, r.child # "none", KindOf(r) # "none"
        PROVE  Captured(r, s, a, v, g) \in Seq(S)
    <3>1. r.child \notin {"wl_callback", "wl_data_offer"}
      <4>1. r.child = "wl_callback" <=> r.name \in {"frame", "sync"}
        BY <1>1, SendableRequest
      <4>2. r.name \in {"frame", "sync"} => KindOf(r) = "none"
        BY DEF KindOf, SeatDeviceRequests
      <4>3. r.child # "wl_data_offer"
        BY <1>1, SendableRequest
      <4>. QED BY <2>2, <4>1, <4>2, <4>3
    <3>2. u[g].st = "live" /\ u[g].iface = r.child
      BY <2>2, SentGives
    <3>3. x \in S
      BY <2>2, <3>1, <3>2 DEF Standing
    <3>. QED BY <1>2, <2>2, <3>3, Recorded
  <2>. QED BY <1>1, <2>1, <2>2, CapturedIs
<1>4. S \subseteq Recipes /\ \A x \in S, y \in Recipes : y.id = x.id /\ y.interface = x.interface => y \in S
  BY DEF Standing
<1>5. v \in Value \cup {0}
  BY DEF Sendable
<1> HIDE DEF S
<1>6. Updated(Captured(r, s, a, v, g), r, s, v) \in Seq(S)
  BY <1>3, <1>4, <1>5, UpdatedIs
<1>. QED BY <1>6 DEF S

\* What the client holds after a request.
LEMMA SentHolds ==
  ASSUME RInv, NEW r, NEW s, NEW a, NEW v, NEW g, Sendable(r, s, a, v, g)
  PROVE  /\ r.child # "none" => g \notin Holds(cl) /\ Holds(Sent(r, s, a, v, g)) = Holds(cl) \cup {g}
         /\ r.dtor => s \in Holds(cl)
         /\ r.dtor /\ s \in ServerGuestId => Holds(Sent(r, s, a, v, g)) = Holds(cl) \ {s}
         /\ r.dtor /\ s \notin ServerGuestId => Holds(Sent(r, s, a, v, g)) = Holds(cl)
         /\ r.child = "none" /\ ~r.dtor => Holds(Sent(r, s, a, v, g)) = Holds(cl)
<1> DEFINE u == Sent(r, s, a, v, g)
<1>1. ClientShape(cl) /\ ClientShape(u)
  BY RInvIs, SentGives
<1>2. /\ Holds(cl) \subseteq GuestId /\ \A x \in GuestId : x \in Holds(cl) <=> cl[x].st \in {"live", "dead"}
      /\ Holds(u) \subseteq GuestId /\ \A x \in GuestId : x \in Holds(u) <=> u[x].st \in {"live", "dead"}
  BY <1>1, HoldsIs
<1>3. /\ \A x \in GuestId :
           u[x].st = IF r.child # "none" /\ x = g THEN "live"
                     ELSE IF r.dtor /\ x = s THEN IF s \in ServerGuestId THEN "free" ELSE "dead"
                     ELSE cl[x].st
      /\ r.child # "none" => g \in GuestId /\ cl[g].st \in {"new", "free"}
      /\ r.dtor => r.child = "none" /\ s \in GuestId /\ cl[s].st = "live"
  BY SentGives
<1> HIDE DEF u
<1>. QED BY <1>2, <1>3 DEF u

\* The owners after a request.
LEMMA SettledOwn ==
  ASSUME RInv, NEW k, HostShape(k), Owned(k), host' = Settled(k)
  PROVE  /\ \A h \in HostId : /\ host'[h].iface = k[h].iface
                              /\ host'[h].dead <=> k[h].dead
                              /\ host'[h].owner = IF k[h].owner \in Holds(cl) \ Holds(cl') THEN Orphan ELSE k[h].owner
                              /\ Own'[h] = IF k[h].iface = "none" THEN 0
                                           ELSE IF k[h].owner \in Holds(cl) \ Holds(cl') THEN Orphan
                                           ELSE k[h].owner
         /\ HostShape(host')
<1>1. ClientShape(cl)
  BY RInvIs
<1>2. /\ HostShape(Settled(k))
      /\ \A h \in HostId :
              /\ Settled(k)[h].iface = k[h].iface
              /\ Settled(k)[h].dead <=> k[h].dead
              /\ Settled(k)[h].owner = IF k[h].owner \in Holds(cl) \ Holds(cl') THEN Orphan ELSE k[h].owner
  BY <1>1, SettledIs
<1>. QED BY <1>2 DEF Own

\* The owners are a function, in this state and the next.
LEMMA OwnIs == Own = [h \in HostId |-> Own[h]] /\ Own' = [h \in HostId |-> Own'[h]]
BY DEF Own

\* Objects of given up ids are left as orphans, whatever else is of the host.
LEMMA SettledParts ==
  ASSUME RInv, NEW k, HostShape(k), Owned(k), host' = Settled(k), Objects(k)
  PROVE  Objects(host')
<1>1. \A h \in HostId : /\ host'[h].iface = k[h].iface
                        /\ host'[h].dead <=> k[h].dead
                        /\ host'[h].owner = IF k[h].owner \in Holds(cl) \ Holds(cl') THEN Orphan ELSE k[h].owner
  BY SettledOwn
<1>2. Orphan # 0
  BY DEF Orphan
<1>. QED BY <1>1, <1>2 DEF Objects

\* A request that the proxy drops, or throws away while it waits.
LEMMA SentAloneKeeps ==
  ASSUME RInv, NEW r, NEW s, NEW a, NEW v, NEW g, Sendable(r, s, a, v, g),
         UNCHANGED proxyVars, UNCHANGED <<pc, up, expected>>,
         cl' = Sent(r, s, a, v, g), host' = Settled(host)
  PROVE  Keeps
<1>1. /\ HostShape(host) /\ Owned(host) /\ Promises /\ Alive(cl) /\ Named(objects, cl)
      /\ graph \in Seq(Standing(cl)) /\ Waiting(pending_frames, cl) /\ Trackers
      /\ Ranges(objects, host) /\ Agree(objects, cl, host) /\ Objects(host) /\ Ahead(objects, host)
      /\ ClientShape(cl)
  BY RInvIs
<1>2. UNCHANGED <<objects, graph, pending_frames>>
  BY DEF proxyVars
<1> DEFINE new == r.child # "none"
<1>3. /\ \A x \in GuestId :
           /\ cl'[x].st = IF new /\ x = g THEN "live"
                          ELSE IF r.dtor /\ x = s THEN IF s \in ServerGuestId THEN "free" ELSE "dead"
                          ELSE cl[x].st
           /\ cl'[x].iface = IF new /\ x = g THEN r.child
                             ELSE IF r.dtor /\ x = s /\ s \in ServerGuestId THEN "none" ELSE cl[x].iface
           /\ ~cl'[x].gone
      /\ new => /\ g \in ClientGuestId \ {1} /\ g \in GuestId \ {1} /\ g \notin ServerGuestId
                /\ cl[g].st \in {"new", "free"}
      /\ r.dtor => ~new /\ s # 1 /\ s \in GuestId /\ cl[s].st = "live" /\ cl[s].iface # "wl_callback"
  BY SentGives
<1>4. /\ new => g \notin Holds(cl) /\ Holds(cl') = Holds(cl) \cup {g}
      /\ r.dtor => s \in Holds(cl)
      /\ r.dtor /\ s \in ServerGuestId => Holds(cl') = Holds(cl) \ {s}
      /\ r.dtor /\ s \notin ServerGuestId => Holds(cl') = Holds(cl)
      /\ ~new /\ ~r.dtor => Holds(cl') = Holds(cl)
  BY SentHolds
<1>5. \A h \in HostId :
        /\ host'[h].iface = host[h].iface
        /\ host'[h].dead <=> host[h].dead
        /\ host'[h].owner = IF host[h].owner \in Holds(cl) \ Holds(cl') THEN Orphan ELSE host[h].owner
        /\ Own'[h] = IF host[h].iface = "none" THEN 0
                     ELSE IF host[h].owner \in Holds(cl) \ Holds(cl') THEN Orphan ELSE host[h].owner
  BY <1>1, SettledOwn
<1>6. \A h \in HostId : Own[h] = IF host[h].iface = "none" THEN 0 ELSE host[h].owner
  BY DEF Own
<1>7. [P!Next]_(P!vars)
  <2>1. CASE new
    <3>1. \A h \in HostId : Own'[h] = Own[h]
      BY <1>4, <1>5, <1>6, <2>1
    <3>2. UNCHANGED <<objects, up, expected, Own>>
      BY <1>2, <3>1, OwnIs
    <3>. QED BY <1>3, <1>4, <2>1, <3>2, Drops
  <2>2. CASE ~new /\ r.dtor /\ s \in ServerGuestId
    <3>1. {s} \in SUBSET (Holds(cl) \ {1}) /\ Holds(cl') = Holds(cl) \ {s}
      BY <1>3, <1>4, <2>2
    <3>2. Holds(cl) \subseteq GuestId /\ \A x \in GuestId : x # 0
      BY <1>1, HoldsIs, IdRanges
    <3>3. \A h \in HostId : Own'[h] = IF Own[h] \in {s} THEN Orphan ELSE Own[h]
      BY <1>5, <1>6, <3>1, <3>2
    <3>. QED BY <1>2, <2>2, <3>1, <3>3, Frees
  <2>3. CASE ~new /\ ~(r.dtor /\ s \in ServerGuestId)
    <3>1. Holds(cl') = Holds(cl)
      BY <1>4, <2>3
    <3>2. \A h \in HostId : Own'[h] = Own[h]
      BY <1>5, <1>6, <3>1
    <3>. QED BY <1>2, <3>1, <3>2, OwnIs, Stutters
  <2>. QED BY <2>1, <2>2, <2>3
<1>8. Alive(cl')
  BY <1>1, <1>3 DEF Alive
<1>9. Named(objects', cl')
  BY <1>1, <1>2, <1>3 DEF Named
<1>10. graph' \in Seq(Standing(cl'))
  <2>1. \A x \in ClientGuestId : cl[x].st \in {"live", "dead"} /\ cl[x].iface # "wl_callback" =>
          cl'[x].st \in {"live", "dead"} /\ cl'[x].iface = cl[x].iface
    BY <1>3, IdRanges DEF GuestId
  <2>. QED BY <1>1, <1>2, <2>1, StandingKept
<1>11. Waiting(pending_frames', cl')
  BY <1>1, <1>2, <1>3 DEF Waiting, Trackers, GuestId
<1>12. Ranges(objects', host')
  BY <1>1, <1>2, <1>5 DEF Ranges, HostId
<1>13. Agree(objects', cl', host')
  <2>1. new => \A h \in HostId : ~Maps(objects, g, h)
    BY <1>1, <1>3, <1>4, IdRanges DEF Promises, NoId
  <2>. QED BY <1>1, <1>2, <1>3, <1>5, <2>1 DEF Agree
<1>14. Objects(host')
  BY <1>1, SettledParts
<1>15. Ahead(objects', host')
  BY <1>1, <1>2, <1>5 DEF Ahead, HostId
<1>16. pc' \notin {"run", "frozen"} => Unanswered(objects')
  BY <1>2 DEF RInv
<1>. QED BY <1>7, <1>8, <1>9, <1>10, <1>11, <1>12, <1>13, <1>14, <1>15, <1>16, KeepsWhen

\* A callback is waited for once it has been made.
LEMMA WaitingSent ==
  ASSUME RInv, NEW r, NEW s, NEW a, NEW v, NEW g, Sendable(r, s, a, v, g), NEW c,
         ObserveCallbacks(r, g),
         \A x \in GuestId : ~(r.dtor /\ x = s) =>
           c[x].st = Sent(r, s, a, v, g)[x].st /\ c[x].iface = Sent(r, s, a, v, g)[x].iface
  PROVE  Waiting(pending_frames', c)
<1>1. Control /\ Waiting(pending_frames, cl) /\ Trackers
  BY RInvIs
<1> DEFINE u == Sent(r, s, a, v, g)
<1>2. /\ \A x \in GuestId :
           /\ u[x].st = IF r.child # "none" /\ x = g THEN "live"
                        ELSE IF r.dtor /\ x = s THEN IF s \in ServerGuestId THEN "free" ELSE "dead"
                        ELSE cl[x].st
           /\ u[x].iface = IF r.child # "none" /\ x = g THEN r.child
                           ELSE IF r.dtor /\ x = s /\ s \in ServerGuestId THEN "none" ELSE cl[x].iface
      /\ r.child # "none" => g \in GuestId /\ cl[g].st \in {"new", "free"}
      /\ r.dtor => r.child = "none" /\ s \in GuestId /\ cl[s].iface # "wl_callback"
  BY SentGives
<1>3. \A x \in pending_frames : x \in GuestId /\ cl[x].st = "live" /\ cl[x].iface = "wl_callback"
  BY <1>1 DEF Waiting, Trackers, GuestId
<1>4. \A x \in pending_frames : ~(r.dtor /\ x = s) /\ u[x].st = "live" /\ u[x].iface = "wl_callback"
  BY <1>2, <1>3
<1>5. r.name \in {"frame", "sync"} => r.child = "wl_callback"
  BY <1>1, SendableRequest
<1>6. r.name \in {"frame", "sync"} => g \in GuestId /\ ~(r.dtor /\ g = s) /\ u[g].st = "live" /\ u[g].iface = "wl_callback"
  BY <1>2, <1>5
<1>7. pending_frames' \subseteq pending_frames \cup (IF r.name \in {"frame", "sync"} THEN {g} ELSE {})
  BY DEF ObserveCallbacks, on_frame_requested, on_sync_requested
<1> HIDE DEF u
<1>. QED BY <1>3, <1>4, <1>6, <1>7 DEF Waiting, u

\* A request whose sender is not of this connection, but for frame.
LEMMA RefuseKeeps ==
  ASSUME RInv, NEW r, NEW s, NEW a, NEW v, NEW g, Sendable(r, s, a, v, g),
         UNCHANGED <<pc, up>>, pc \in {"run", "frozen"}, RefuseRequest(r, s, a, v, g), r.name # "frame"
  PROVE  Keeps
<1>1. /\ HostShape(host) /\ Owned(host) /\ Promises /\ Alive(cl) /\ Named(objects, cl)
      /\ graph \in Seq(Standing(cl)) /\ Waiting(pending_frames, cl) /\ Trackers /\ Control /\ Display(cl)
      /\ Ranges(objects, host) /\ Agree(objects, cl, host) /\ Objects(host) /\ Ahead(objects, host)
      /\ ClientShape(cl) /\ TableInv(objects)
  BY RInvIs
<1> DEFINE new == r.child # "none"
           u == Sent(r, s, a, v, g)
           rolled == RolledBack(WithNewId(r, g), r, g)
           noted == Updated(Captured(r, s, a, v, g), r, s, v)
<1>2. r.child \notin Unresolvable /\ (new => r.child \in Interface)
  BY <1>1, SendableRequest DEF RefuseRequest, Understood
<1>3. /\ ClientShape(u)
      /\ \A x \in GuestId :
           /\ u[x].st = IF new /\ x = g THEN "live"
                          ELSE IF r.dtor /\ x = s THEN IF s \in ServerGuestId THEN "free" ELSE "dead"
                          ELSE cl[x].st
           /\ u[x].iface = IF new /\ x = g THEN r.child
                             ELSE IF r.dtor /\ x = s /\ s \in ServerGuestId THEN "none" ELSE cl[x].iface
           /\ ~u[x].gone
      /\ new => /\ g \in ClientGuestId \ {1} /\ g \in GuestId \ {1} /\ g \notin ServerGuestId
                /\ cl[g].st \in {"new", "free"}
      /\ r.dtor => ~new /\ s # 1 /\ s \in GuestId /\ cl[s].st = "live" /\ cl[s].iface # "wl_callback"
  BY SentGives
<1>4. /\ new => g \notin Holds(cl) /\ Holds(u) = Holds(cl) \cup {g}
      /\ r.dtor => s \in Holds(cl)
      /\ r.dtor /\ s \in ServerGuestId => Holds(u) = Holds(cl) \ {s}
      /\ r.dtor /\ s \notin ServerGuestId => Holds(u) = Holds(cl)
      /\ ~new /\ ~r.dtor => Holds(u) = Holds(cl)
  BY SentHolds
<1>5. \A h \in HostId :
        /\ host'[h].iface = host[h].iface
        /\ host'[h].dead <=> host[h].dead
        /\ host'[h].owner = IF host[h].owner \in Holds(cl) \ Holds(cl') THEN Orphan ELSE host[h].owner
        /\ Own'[h] = IF host[h].iface = "none" THEN 0
                     ELSE IF host[h].owner \in Holds(cl) \ Holds(cl') THEN Orphan ELSE host[h].owner
  BY <1>1, SettledOwn DEF RefuseRequest
<1>6. \A h \in HostId : Own[h] = IF host[h].iface = "none" THEN 0 ELSE host[h].owner
  BY DEF Own
<1>7. UNCHANGED expected /\ ObserveCallbacks(r, g)
  BY DEF RefuseRequest
<1>8. Objects(host')
  BY <1>1, SettledParts DEF RefuseRequest
<1>9. noted \in Seq(Standing(u))
  BY <1>2, GraphSent
<1> HIDE DEF u, noted
<1>10. CASE new
  <2>1. objects' = rolled /\ cl' = u /\ graph' = remove(noted, g)
    BY <1>3, <1>10 DEF RefuseRequest, u, noted
  <2>2. /\ rolled.interfaces = [objects.interfaces EXCEPT ![g] = NoInterface]
        /\ rolled.next_host_id = objects.next_host_id
        /\ \A x \in GuestId, y \in Nat \ {NoId} : Maps(rolled, x, y) => Maps(objects, x, y) /\ x # g
    BY <1>1, <1>2, <1>3, <1>10, RolledBackIs
  <2>3. rolled = remove_guest(unallocate_host_id(map(allocate_host_id(objects), g, objects.next_host_id, r.child),
                                                 objects.next_host_id), g)
    BY <1>10 DEF RolledBack, WithNewId
  <2> HIDE DEF rolled
  <2>4. UNCHANGED Own
    <3>1. \A h \in HostId : Own'[h] = Own[h]
      BY <1>4, <1>5, <1>6, <1>10, <2>1
    <3>. QED BY <3>1, OwnIs
  <2>5. [P!Next]_(P!vars)
    BY <1>2, <1>3, <1>4, <1>7, <1>10, <2>1, <2>3, <2>4, Rejects
  <2>6. Alive(cl')
    BY <1>1, <1>3, <2>1 DEF Alive
  <2>7. Named(objects', cl')
    <3>1. objects.interfaces \in [GuestId -> Interface \cup {NoInterface}]
      BY <1>1 DEF TableInv, ShadowTableType
    <3>2. \A x \in GuestId : objects'.interfaces[x] = IF x = g THEN "none" ELSE objects.interfaces[x]
      BY <2>1, <2>2, <3>1 DEF NoInterface
    <3>. QED BY <1>1, <1>3, <1>10, <2>1, <3>2 DEF Named
  <2>8. graph' \in Seq(Standing(cl'))
    BY <1>9, <2>1, StandingRemoved
  <2>9. Waiting(pending_frames', cl')
    BY <1>7, <2>1, WaitingSent DEF u
  <2>10. \A x \in GuestId, h \in HostId : Maps(objects', x, h) => Maps(objects, x, h) /\ x # g
    BY <2>1, <2>2, IdRanges DEF NoId
  <2>11. Ranges(objects', host') /\ Agree(objects', cl', host')
    BY <1>1, <1>3, <1>5, <1>10, <2>1, <2>10 DEF Ranges, Agree, HostId
  <2>12. Ahead(objects', host')
    BY <1>1, <1>5, <2>1, <2>2 DEF Ahead, HostId
  <2>. QED BY <1>8, <2>5, <2>6, <2>7, <2>8, <2>9, <2>11, <2>12, KeepsWhen
<1>11. CASE r.dtor
  <2>1. objects' = remove_guest(objects, s) /\ cl' = IdsDeleted(u, {s}) /\ graph' = remove(remove(noted, g), s)
        /\ host_id(objects, s) = {}
    BY <1>3, <1>11 DEF RefuseRequest, WithNewId, RolledBack, u, noted
  <2>2. /\ ClientShape(cl')
        /\ \A x \in GuestId :
             /\ cl'[x].st = IF x = s THEN "free" ELSE u[x].st
             /\ cl'[x].iface = IF x = s THEN "none" ELSE u[x].iface
             /\ ~cl'[x].gone
    BY <1>3, <1>11, <2>1, IdsDeletedIs
  <2>3. Holds(cl') = Holds(cl) \ {s}
    <3>1. \A x \in GuestId : x \in Holds(cl) <=> cl[x].st \in {"live", "dead"}
      BY <1>1, HoldsIs
    <3>2. \A x \in GuestId : x \in Holds(cl') <=> cl'[x].st \in {"live", "dead"}
      BY <2>2, HoldsIs
    <3>3. Holds(cl) \subseteq GuestId /\ Holds(cl') \subseteq GuestId
      BY <1>1, <2>2, HoldsIs
    <3>. QED BY <1>3, <1>11, <2>2, <3>1, <3>2, <3>3
  <2>4. s \in GuestId \ {1} /\ s \in Holds(cl) /\ s # 0
    BY <1>3, <1>4, <1>11, IdRanges
  <2>5. [P!Next]_(P!vars)
    <3>1. \A h \in HostId : Own'[h] = IF Own[h] = s THEN Orphan ELSE Own[h]
      BY <1>5, <1>6, <2>3, <2>4
    <3>. QED BY <1>7, <2>1, <2>3, <2>4, <3>1, Synthesizes
  <2>6. Alive(cl')
    BY <1>1, <1>3, <1>11, <2>2 DEF Alive
  <2>7. objects \in ShadowTableType /\ objects.interfaces \in [GuestId -> Interface \cup {NoInterface}]
    BY <1>1 DEF TableInv, ShadowTableType
  <2>8. Named(objects', cl')
    <3>1. objects'.interfaces = [objects.interfaces EXCEPT ![s] = NoInterface]
      BY <2>1, <2>4, <2>7, RemoveInterfaces
    <3>2. \A x \in GuestId : objects'.interfaces[x] = IF x = s THEN "none" ELSE objects.interfaces[x]
      BY <2>7, <3>1 DEF NoInterface
    <3>3. \A x \in GuestId : IF x = s THEN cl'[x].st = "free"
                             ELSE cl'[x].st = cl[x].st /\ cl'[x].iface = cl[x].iface
      BY <1>3, <1>11, <2>2
    <3>. QED BY <1>1, <3>2, <3>3 DEF Named
  <2>9. graph' \in Seq(Standing(cl'))
    <3>1. remove(noted, g) \in Seq(Standing(u))
      BY <1>9, StandingRemoved
    <3>2. \A x \in ClientGuestId \ {s} : u[x].st = cl'[x].st /\ u[x].iface = cl'[x].iface
      BY <2>2 DEF GuestId
    <3>. QED BY <2>1, <3>1, <3>2, StandingRemoved
  <2>10. Waiting(pending_frames', cl')
    <3>1. \A x \in GuestId \ {s} : cl'[x].st = u[x].st /\ cl'[x].iface = u[x].iface
      BY <2>2
    <3>. QED BY <1>7, <1>11, <3>1, WaitingSent DEF u
  <2>11. \A x \in GuestId, h \in HostId : Maps(objects', x, h) => Maps(objects, x, h) /\ x # s
    BY <1>1, <2>1, <2>4, RemoveKeeps, IdRanges DEF NoId
  <2>12. Ranges(objects', host') /\ Agree(objects', cl', host')
    BY <1>1, <1>3, <1>5, <1>11, <2>2, <2>11 DEF Ranges, Agree, HostId
  <2>13. Ahead(objects', host')
    <3>1. objects'.next_host_id = objects.next_host_id
      BY <2>1, <2>4, <2>7, RemoveIs
    <3>. QED BY <1>1, <1>5, <3>1 DEF Ahead, HostId
  <2>. QED BY <1>8, <2>5, <2>6, <2>8, <2>9, <2>10, <2>12, <2>13, KeepsWhen
<1>12. CASE ~new /\ ~r.dtor
  <2>1. UNCHANGED objects /\ cl' = u /\ graph' = remove(noted, g)
    BY <1>12 DEF RefuseRequest, WithNewId, RolledBack, u, noted
  <2>2. UNCHANGED Holds(cl)
    BY <1>4, <1>12, <2>1
  <2>3. UNCHANGED Own
    <3>1. \A h \in HostId : Own'[h] = Own[h]
      BY <1>5, <1>6, <2>2
    <3>. QED BY <3>1, OwnIs
  <2>4. [P!Next]_(P!vars)
    BY <1>7, <2>1, <2>2, <2>3, Stutters
  <2>5. \A x \in GuestId : cl'[x].st = cl[x].st /\ cl'[x].iface = cl[x].iface /\ ~cl'[x].gone
    BY <1>3, <1>12, <2>1
  <2>6. Alive(cl') /\ Named(objects', cl')
    BY <1>1, <2>1, <2>5 DEF Alive, Named
  <2>7. graph' \in Seq(Standing(cl'))
    BY <1>9, <2>1, StandingRemoved
  <2>8. Waiting(pending_frames', cl')
    BY <1>7, <2>1, WaitingSent DEF u
  <2>9. Ranges(objects', host') /\ Agree(objects', cl', host')
    BY <1>1, <1>5, <2>1, <2>5 DEF Ranges, Agree, HostId
  <2>10. Ahead(objects', host')
    BY <1>1, <1>5, <2>1 DEF Ahead, HostId
  <2>. QED BY <1>8, <2>4, <2>6, <2>7, <2>8, <2>9, <2>10, KeepsWhen
<1>. QED BY <1>10, <1>11, <1>12

\* A request that is passed on, to the compositor or, while frozen, to nobody.
LEMMA PassKeeps ==
  ASSUME RInv, NEW r, NEW s, NEW a, NEW v, NEW g, Sendable(r, s, a, v, g),
         UNCHANGED <<pc, up>>, pc \in {"run", "frozen"}, PassRequest(r, s, a, v, g)
  PROVE  Keeps
<1> DEFINE n == objects.next_host_id
           new == r.child # "none"
           m == WithNewId(r, g)
           u == Sent(r, s, a, v, g)
<1>1. /\ HostShape(host) /\ Owned(host) /\ Promises /\ Alive(cl) /\ Named(objects, cl)
      /\ graph \in Seq(Standing(cl)) /\ Waiting(pending_frames, cl) /\ Trackers /\ Control /\ Display(cl)
      /\ Ranges(objects, host) /\ Agree(objects, cl, host) /\ Objects(host) /\ Ahead(objects, host)
      /\ ClientShape(cl) /\ TableInv(objects) /\ Played.hosts \subseteq ClientHostId
      /\ n \in Nat /\ n >= 2 /\ up \in BOOLEAN
  BY RInvIs
<1>2. r.child \notin Unresolvable /\ (new => r.child \in Interface)
  BY <1>1, SendableRequest DEF PassRequest, Understood
<1>3. /\ ClientShape(u)
      /\ \A x \in GuestId :
           /\ u[x].st = IF new /\ x = g THEN "live"
                          ELSE IF r.dtor /\ x = s THEN IF s \in ServerGuestId THEN "free" ELSE "dead"
                          ELSE cl[x].st
           /\ u[x].iface = IF new /\ x = g THEN r.child
                             ELSE IF r.dtor /\ x = s /\ s \in ServerGuestId THEN "none" ELSE cl[x].iface
           /\ ~u[x].gone
      /\ new => /\ g \in ClientGuestId \ {1} /\ g \in GuestId \ {1} /\ g \notin ServerGuestId
                /\ cl[g].st \in {"new", "free"}
      /\ r.dtor => ~new /\ s # 1 /\ s \in GuestId /\ cl[s].st = "live" /\ cl[s].iface # "wl_callback"
  BY SentGives
<1>4. /\ new => g \notin Holds(cl) /\ Holds(u) = Holds(cl) \cup {g}
      /\ r.dtor => s \in Holds(cl)
      /\ r.dtor /\ s \in ServerGuestId => Holds(u) = Holds(cl) \ {s}
      /\ r.dtor /\ s \notin ServerGuestId => Holds(u) = Holds(cl)
      /\ ~new /\ ~r.dtor => Holds(u) = Holds(cl)
  BY SentHolds
<1>5. graph' \in Seq(Standing(u))
  BY <1>2, GraphSent DEF PassRequest
<1>6. /\ TableInv(m)
      /\ m.interfaces = IF new THEN [objects.interfaces EXCEPT ![g] = r.child] ELSE objects.interfaces
      /\ m.next_host_id = IF new THEN n + 1 ELSE n
      /\ \A x \in GuestId, y \in Nat \ {NoId} :
           Maps(m, x, y) <=> IF new /\ x = g THEN y = n ELSE Maps(objects, x, y) /\ (new => y # n)
  BY <1>1, <1>2, <1>3, WithNewIdIs
<1>7. objects' = m /\ cl' = u /\ ObserveCallbacks(r, g) /\ (new => RoomFor(1))
      /\ expected' = IF pc = "run" /\ up /\ new THEN expected + 1 ELSE expected
  BY DEF PassRequest
<1>8. /\ new => m = map(allocate_host_id(objects), g, n, r.child)
      /\ ~new => m = objects
  BY DEF WithNewId
<1>9. pc = "run" /\ up <=> up
  BY <1>1 DEF Control
<1>10. PICK hs \in host_id(m, s), ha \in host_id(m, a) :
        host' = Settled(IF pc = "run" /\ up THEN Processed(r, hs, ha, ValueSent(r, v), g) ELSE host)
  BY DEF PassRequest
<1> DEFINE k == IF pc = "run" /\ up THEN Processed(r, hs, ha, ValueSent(r, v), g) ELSE host
<1>11. /\ HostShape(k)
       /\ \A h \in HostId :
            LET made == up /\ new /\ h = n
            IN /\ k[h].owner = IF made THEN g ELSE host[h].owner
               /\ k[h].iface = IF made THEN r.child ELSE host[h].iface
               /\ k[h].dead => ((host[h].dead /\ ~made) \/ (up /\ r.dtor /\ h = hs))
  BY <1>1, <1>9, ProcessedIs
<1>12. Owned(k)
  BY <1>1, <1>3, <1>11 DEF Owned
<1>13. Maps(m, s, hs) /\ hs # NoId
  BY <1>6, HostIdIs DEF TableInv, Sendable
<1>14. new => n \in ClientHostId /\ n \in HostId /\ n \notin ServerHostId
  BY <1>1, <1>7, IdRanges DEF RoomFor, HostId
<1>15. host' = Settled(k)
  BY <1>10
<1> HIDE DEF k, m, u
<1>16. \A h \in HostId : /\ host'[h].iface = k[h].iface
                         /\ host'[h].dead <=> k[h].dead
                         /\ host'[h].owner = IF k[h].owner \in Holds(cl) \ Holds(cl') THEN Orphan ELSE k[h].owner
                         /\ Own'[h] = IF k[h].iface = "none" THEN 0
                                      ELSE IF k[h].owner \in Holds(cl) \ Holds(cl') THEN Orphan
                                      ELSE k[h].owner
  BY <1>11, <1>12, <1>15, SettledOwn
<1>17. \A h \in HostId : Own[h] = IF host[h].iface = "none" THEN 0 ELSE host[h].owner
  BY DEF Own
<1>18. [P!Next]_(P!vars)
  <2>1. CASE new
    <3>1. Holds(cl) \ Holds(cl') = {}
      BY <1>4, <1>7, <2>1
    <3>2. r.child # "none" /\ r.child \in Interface
      BY <1>2, <2>1
    <3>3. \A h \in HostId : Own'[h] = IF up /\ h = n THEN g ELSE Own[h]
      BY <1>11, <1>16, <1>17, <2>1, <3>1, <3>2
    <3>4. ~up => UNCHANGED <<Own, expected>>
      BY <1>7, <3>3, OwnIs
    <3>5. up => /\ expected' = expected + 1
                /\ \A h \in HostId : Own'[h] = IF h = n THEN g ELSE Own[h]
      BY <1>7, <1>9, <2>1, <3>3
    <3>6. g \in ClientGuestId /\ g \notin Holds(cl) /\ Holds(cl') = Holds(cl) \cup {g} /\ RoomFor(1)
          /\ objects' = map(allocate_host_id(objects), g, objects.next_host_id, r.child)
      BY <1>3, <1>4, <1>7, <1>8, <2>1
    <3>. QED BY <1>1, <3>2, <3>4, <3>5, <3>6, Creates
  <2>2. CASE ~new /\ r.dtor /\ s \in ServerGuestId
    <3>1. {s} \in SUBSET (Holds(cl) \ {1}) /\ Holds(cl') = Holds(cl) \ {s}
      BY <1>3, <1>4, <1>7, <2>2
    <3>2. Holds(cl) \subseteq GuestId /\ \A x \in GuestId : x # 0
      BY <1>1, HoldsIs, IdRanges
    <3>3. \A h \in HostId : Own'[h] = IF Own[h] \in {s} THEN Orphan ELSE Own[h]
      BY <1>11, <1>16, <1>17, <2>2, <3>1, <3>2
    <3>. QED BY <1>7, <1>8, <2>2, <3>1, <3>3, Frees
  <2>3. CASE ~new /\ ~(r.dtor /\ s \in ServerGuestId)
    <3>1. Holds(cl') = Holds(cl)
      BY <1>4, <1>7, <2>3
    <3>2. \A h \in HostId : Own'[h] = Own[h]
      BY <1>11, <1>16, <1>17, <2>3, <3>1
    <3>. QED BY <1>7, <1>8, <2>3, <3>1, <3>2, OwnIs, Stutters
  <2>. QED BY <2>1, <2>2, <2>3
<1>19. Alive(cl')
  BY <1>1, <1>3, <1>7 DEF Alive
<1>20. objects.interfaces \in [GuestId -> Interface \cup {NoInterface}]
  BY <1>1 DEF TableInv, ShadowTableType
<1>21. Named(objects', cl')
  <2>1. \A x \in GuestId : objects'.interfaces[x] = IF new /\ x = g THEN r.child ELSE objects.interfaces[x]
    BY <1>6, <1>7, <1>20
  <2>2. new => r.child # "wl_data_offer"
    BY <1>1, SendableRequest
  <2>. QED BY <1>1, <1>3, <1>7, <2>1, <2>2, ZenonT(60) DEF Named
<1>22. graph' \in Seq(Standing(cl'))
  BY <1>5, <1>7
<1>23. Waiting(pending_frames', cl')
  BY <1>7, WaitingSent DEF u
<1>24. \A x \in GuestId, h \in HostId :
         Maps(objects', x, h) => IF new /\ x = g THEN h = n ELSE Maps(objects, x, h) /\ (new => h # n)
  BY <1>6, <1>7, IdRanges DEF NoId
<1>25. Ranges(objects', host')
  <2>1. \A h \in ServerHostId : host'[h].iface \in {"none", "wl_data_offer"}
    BY <1>1, <1>11, <1>14, <1>16 DEF Ranges, HostId
  <2>. QED BY <1>1, <1>3, <1>14, <1>24, <2>1 DEF Ranges
\* The sender is the only id mapped to the object a destructor destroys.
<1>26. r.dtor => \A x \in GuestId : Maps(objects', x, hs) => x = s
  BY <1>3, <1>6, <1>7, <1>13 DEF TableInv, Maps
<1>27. Agree(objects', cl', host')
  <2> SUFFICES ASSUME NEW x \in GuestId, NEW h \in HostId, Maps(objects', x, h), cl'[x].st = "live",
                      host'[h].iface # "none"
               PROVE  host'[h].iface = cl'[x].iface /\ ~host'[h].dead
    BY DEF Agree
  <2>1. CASE new /\ x = g
    <3>1. h = n /\ h \in ClientHostId
      BY <1>14, <1>24, <2>1
    <3>2. ~up => host[h].iface = "none"
      BY <1>1, <3>1 DEF Ahead
    <3>3. up
      BY <1>11, <1>16, <3>2
    <3>. QED BY <1>3, <1>7, <1>11, <1>16, <2>1, <3>1, <3>3
  <2>2. CASE ~(new /\ x = g)
    <3>1. Maps(objects, x, h) /\ (new => h # n)
      BY <1>24, <2>2
    <3>2. ~(r.dtor /\ x = s) /\ cl[x].st = "live" /\ cl'[x].iface = cl[x].iface
      BY <1>3, <1>7, <2>2
    <3>3. ~(r.dtor /\ h = hs)
      BY <1>26, <3>2
    <3>. QED BY <1>1, <1>11, <1>16, <3>1, <3>2, <3>3 DEF Agree
  <2>. QED BY <2>1, <2>2
<1>28. Objects(host')
  <2>1. \A h \in HostId : host'[h].iface # "none" => host'[h].owner # 0
    BY <1>1, <1>3, <1>11, <1>16, IdRanges DEF Objects, Orphan
  <2>2. ASSUME up, r.dtor, hs \in HostId
        PROVE  host[hs].iface # "none" /\ (hs \in ServerHostId => host'[hs].owner = Orphan)
    <3>1. s \in Holds(cl) /\ s \in GuestId /\ s # 0 /\ Maps(objects, s, hs) /\ hs \in Nat \ {NoId}
      BY <1>3, <1>4, <1>8, <1>13, <2>2, IdRanges DEF NoId
    <3>2. Own[hs] = s
      BY <1>1, <2>2, <3>1 DEF Promises
    <3>3. host[hs].iface # "none" /\ host[hs].owner = s
      BY <1>17, <2>2, <3>1, <3>2
    <3>4. hs \in ServerHostId => s \in ServerGuestId
      BY <1>1, <2>2, <3>1 DEF Ranges
    <3>5. k[hs].owner = s
      BY <1>3, <1>11, <2>2, <3>3
    <3>. QED BY <1>4, <1>7, <1>16, <2>2, <3>1, <3>3, <3>4, <3>5
  <2>3. \A h \in HostId : host'[h].dead => host'[h].iface # "none"
    BY <1>1, <1>3, <1>11, <1>16, <2>2 DEF Objects
  <2>4. \A h \in HostId : host'[h].dead /\ h \in ServerHostId => host'[h].owner = Orphan
    <3>1. Orphan \notin Holds(cl)
      BY <1>1, HoldsIs, IdRanges DEF Orphan
    <3>. QED BY <1>1, <1>11, <1>14, <1>16, <2>2, <3>1 DEF Objects
  <2>. QED BY <2>1, <2>3, <2>4 DEF Objects
<1>29. Ahead(objects', host')
  <2>1. objects'.next_host_id = (IF new THEN n + 1 ELSE n) /\ \A h \in ClientHostId : h \in HostId /\ h \in Nat
    BY <1>6, <1>7, IdRanges DEF HostId
  <2>. QED BY <1>1, <1>11, <1>16, <2>1 DEF Ahead
<1>. QED BY <1>18, <1>19, <1>21, <1>22, <1>23, <1>25, <1>27, <1>28, <1>29, KeepsWhen

------------------------------------------------------------------------------
\* Events.

\* Events that leave the table and the graph alone, and who owns what.
LEMMA QuietKeeps ==
  ASSUME RInv, UNCHANGED <<objects, graph, expected, up>>, pc' = pc \/ pc' \in {"run", "frozen"} \/ pc \notin {"run", "frozen"},
         pending_frames' \subseteq pending_frames,
         ClientShape(cl'),
         \A g \in GuestId : /\ cl'[g].iface = cl[g].iface /\ ~cl'[g].gone
                            /\ cl'[g].st = cl[g].st \/ (cl[g].st = "live" /\ cl'[g].st = "dead"
                                                        /\ g \notin pending_frames'),
         \A h \in HostId : /\ host'[h].iface = host[h].iface /\ host'[h].owner = host[h].owner
                           /\ (host'[h].dead /\ ~host[h].dead) =>
                                /\ host[h].iface # "none" /\ h \notin ServerHostId
                                /\ \A g \in GuestId : Maps(objects, g, h) => cl'[g].st # "live"
                           /\ host[h].dead => host'[h].dead
  PROVE  Keeps
<1>1. /\ Alive(cl) /\ Named(objects, cl)
      /\ graph \in Seq(Standing(cl)) /\ Waiting(pending_frames, cl) /\ Trackers
      /\ Ranges(objects, host) /\ Agree(objects, cl, host) /\ Objects(host) /\ Ahead(objects, host)
      /\ ClientShape(cl) /\ Control
  BY RInvIs
<1>2. Holds(cl') = Holds(cl)
  <2>1. \A x \in GuestId : (x \in Holds(cl') <=> cl'[x].st \in {"live", "dead"})
                           /\ (x \in Holds(cl) <=> cl[x].st \in {"live", "dead"})
    BY <1>1, HoldsIs
  <2>2. Holds(cl) \subseteq GuestId /\ Holds(cl') \subseteq GuestId
    BY <1>1, HoldsIs
  <2>. QED BY <2>1, <2>2
<1>3. \A h \in HostId : Own'[h] = Own[h]
  BY DEF Own
<1>4. [P!Next]_(P!vars)
  BY <1>2, <1>3, OwnIs, Stutters
<1>5. Alive(cl')
  BY <1>1 DEF Alive
<1>6. Named(objects', cl')
  BY <1>1 DEF Named
<1>7. graph' \in Seq(Standing(cl'))
  <2>1. \A g \in ClientGuestId : cl[g].st \in {"live", "dead"} => cl'[g].st \in {"live", "dead"} /\ cl'[g].iface = cl[g].iface
    BY DEF GuestId
  <2>. QED BY <1>1, <2>1, StandingKept
<1>8. Waiting(pending_frames', cl')
  BY <1>1 DEF Waiting, Trackers, GuestId
<1>9. Ranges(objects', host') /\ Ahead(objects', host')
  BY <1>1 DEF Ranges, Ahead, HostId
<1>10. Agree(objects', cl', host')
  BY <1>1 DEF Agree
<1>11. Objects(host')
  BY <1>1 DEF Objects
<1>12. pc' \notin {"run", "frozen"} => Unanswered(objects')
  BY DEF RInv
<1>. QED BY <1>4, <1>5, <1>6, <1>7, <1>8, <1>9, <1>10, <1>11, <1>12, KeepsWhen

\* The one guest id a host id stands for.
LEMMA OnlyOne ==
  ASSUME RInv, NEW h \in HostId, NEW g \in GuestId, Maps(objects, g, h)
  PROVE  \A x \in GuestId : Maps(objects, x, h) => x = g
<1>1. TableInv(objects) /\ h # NoId
  BY RInvIs, IdRanges DEF NoId
<1>. QED BY <1>1 DEF TableInv, Maps

\* done.
LEMMA HostDoneStep ==
  ASSUME RInv, UNCHANGED <<pc, up>>, NEW h \in HostId, HostDone(h)
  PROVE  Keeps
<1>1. /\ ClientShape(cl) /\ HostShape(host) /\ Alive(cl) /\ Agree(objects, cl, host) /\ Ranges(objects, host)
      /\ Waiting(pending_frames, cl)
  BY RInvIs
<1>2. PICK g \in Hears(h) : pending_frames' = on_done_received(pending_frames, g) /\ cl' = CallbackDone(cl, g)
  BY DEF HostDone
<1>3. g \in GuestId /\ Maps(objects, g, h)
  BY HearsIs DEF RInv
<1>4. host' = HostDestroyed(host, h) /\ host[h].iface = "wl_callback" /\ ~host[h].dead
      /\ UNCHANGED <<objects, graph, expected>>
  BY DEF HostDone, HostHas
<1>5. ~cl[g].gone
  BY <1>1, <1>3 DEF Alive
<1>6. /\ ClientShape(cl')
      /\ \A x \in GuestId :
           /\ cl'[x].st = IF cl[g].st = "live" /\ cl[g].iface = "wl_callback" /\ x = g THEN "dead" ELSE cl[x].st
           /\ cl'[x].iface = cl[x].iface
           /\ ~cl'[x].gone
  BY <1>1, <1>2, <1>3, <1>5, CallbackDoneIs DEF Alive
<1>7. \A x \in HostId : /\ host'[x].owner = host[x].owner /\ host'[x].iface = host[x].iface
                        /\ host'[x].dead <=> host[x].dead \/ x = h
  BY <1>1, <1>4, HostDestroyedIs
<1>8. pending_frames' = pending_frames \ {g}
  BY <1>2 DEF on_done_received
<1>9. \A x \in GuestId : Maps(objects, x, h) => cl'[x].st # "live"
  <2>1. \A x \in GuestId : Maps(objects, x, h) => x = g
    BY <1>3, OnlyOne
  <2>2. cl[g].st = "live" => cl[g].iface = "wl_callback"
    BY <1>1, <1>3, <1>4 DEF Agree
  <2>. QED BY <1>6, <2>1, <2>2
<1>10. h \notin ServerHostId
  BY <1>1, <1>4 DEF Ranges
<1>. QED BY <1>4, <1>6, <1>7, <1>8, <1>9, <1>10, QuietKeeps

\* release.
LEMMA HostReleasesStep ==
  ASSUME RInv, UNCHANGED <<pc, up>>, NEW h \in HostId, HostReleases(h)
  PROVE  Keeps
<1>1. ClientShape(cl) /\ HostShape(host) /\ Alive(cl)
  BY RInvIs
<1>2. PICK g \in Hears(h) : cl' = BuffersReleased(cl, {g})
  BY DEF HostReleases
<1>3. host' = [host EXCEPT ![h].owed = FALSE] /\ UNCHANGED <<objects, graph, expected, pending_frames>>
  BY DEF HostReleases
<1>4. ClientShape(cl') /\ \A x \in GuestId : cl'[x].st = cl[x].st /\ cl'[x].iface = cl[x].iface /\ ~cl'[x].gone
  BY <1>1, <1>2, BuffersReleasedIs DEF Alive
<1>5. \A x \in HostId : /\ host'[x].owner = host[x].owner /\ host'[x].iface = host[x].iface
                        /\ host'[x].dead <=> host[x].dead
  BY <1>1, <1>3 DEF HostShape, HostField
<1>. QED BY <1>3, <1>4, <1>5, QuietKeeps

\* cancelled, of the proxy's own source.
LEMMA HostCancelsSourceStep ==
  ASSUME RInv, UNCHANGED <<pc, up>>, HostCancelsSource
  PROVE  Keeps
<1>1. ClientShape(cl) /\ HostShape(host) /\ Alive(cl)
  BY RInvIs
<1>2. UNCHANGED <<objects, graph, host, expected, pending_frames, cl>>
  BY DEF HostCancelsSource
<1>. QED BY <1>1, <1>2, QuietKeeps DEF Alive

\* The compositor destroys a server id.
LEMMA HostForgetsStep ==
  ASSUME RInv, UNCHANGED <<pc, up>>, NEW h \in HostId, HostForgets(h)
  PROVE  Keeps
<1>1. /\ Alive(cl) /\ Named(objects, cl) /\ HostShape(host)
      /\ graph \in Seq(Standing(cl)) /\ Waiting(pending_frames, cl)
      /\ Ranges(objects, host) /\ Agree(objects, cl, host) /\ Objects(host) /\ Ahead(objects, host)
  BY RInvIs
<1>2. h \in ServerHostId /\ host[h].dead /\ host' = [host EXCEPT ![h] = NoObject]
      /\ UNCHANGED <<objects, graph, pending_frames, cl, expected>>
  BY DEF HostForgets, proxyVars
<1>3. \A x \in HostId : host'[x] = IF x = h THEN NoObject ELSE host[x]
  BY <1>1, <1>2 DEF HostShape
<1>4. Own[h] = Orphan /\ \A x \in HostId : Own'[x] = IF x = h THEN 0 ELSE Own[x]
  BY <1>1, <1>2, <1>3, NoObjectIs DEF Objects, Own
<1>5. [P!Next]_(P!vars)
  BY <1>2, <1>4, Forgets
<1>6. Ranges(objects', host') /\ Agree(objects', cl', host') /\ Objects(host') /\ Ahead(objects', host')
  BY <1>1, <1>2, <1>3, NoObjectIs DEF Ranges, Agree, Objects, Ahead, HostId
<1>7. pc' \notin {"run", "frozen"} => Unanswered(objects')
  BY <1>2 DEF RInv
<1>. QED BY <1>1, <1>2, <1>5, <1>6, <1>7, KeepsWhen

\* delete_id.
LEMMA HostDeletesIdStep ==
  ASSUME RInv, UNCHANGED <<pc, up>>, NEW h \in HostId, HostDeletesId(h)
  PROVE  Keeps
<1>1. /\ Alive(cl) /\ Named(objects, cl) /\ HostShape(host) /\ HostDisplay(host) /\ ClientShape(cl)
      /\ graph \in Seq(Standing(cl)) /\ Waiting(pending_frames, cl) /\ Trackers /\ Promises
      /\ Ranges(objects, host) /\ Agree(objects, cl, host) /\ Objects(host) /\ Ahead(objects, host)
      /\ TableInv(objects) /\ objects \in ShadowTableType
  BY RInvIs DEF TableInv
<1>2. h \in ClientHostId \ {1} /\ host[h].dead /\ host' = [host EXCEPT ![h] = NoObject]
      /\ UNCHANGED <<pending_frames, expected>> /\ h \notin ServerHostId /\ h # NoId /\ h \in Nat
  BY <1>1, IdRanges DEF HostDeletesId, HostDisplay, NoId
<1>3. \A x \in HostId : host'[x] = IF x = h THEN NoObject ELSE host[x]
  BY <1>1, <1>2 DEF HostShape
<1>4. Own[h] # 0 /\ host[h].iface # "none" /\ \A x \in HostId : Own'[x] = IF x = h THEN 0 ELSE Own[x]
  BY <1>1, <1>2, <1>3, NoObjectIs DEF Objects, Own
<1>5. Objects(host')
  BY <1>1, <1>3, NoObjectIs DEF Objects
<1>6. CASE guest_id(objects, h) = {}
  <2>1. UNCHANGED <<objects, graph, cl>>
    BY <1>6 DEF HostDeletesId
  <2>2. [P!Next]_(P!vars)
    BY <1>2, <1>4, <1>6, <2>1, Deletes
  <2>3. Ranges(objects', host') /\ Agree(objects', cl', host') /\ Ahead(objects', host')
    BY <1>1, <1>3, <2>1, NoObjectIs DEF Ranges, Agree, Ahead, HostId
  <2>4. pc' \notin {"run", "frozen"} => Unanswered(objects')
    BY <2>1 DEF RInv
  <2>. QED BY <1>1, <1>2, <1>5, <2>1, <2>2, <2>3, <2>4, KeepsWhen
<1>7. ASSUME NEW g \in guest_id(objects, h), objects' = remove_guest(objects, g),
             graph' = remove(graph, g), cl' = IdsDeleted(cl, {g})
      PROVE  Keeps
  <2>1. g \in GuestId /\ Maps(objects, g, h)
    BY <1>1, GuestIdIs
  <2>2. g \in ClientGuestId /\ g # 1
    BY <1>1, <1>2, <2>1 DEF Ranges, GuestId, TableInv, Maps
  <2>3. cl[g].st # "live"
    BY <1>1, <1>2, <1>4, <2>1 DEF Agree
  <2>4. g \in Holds(cl)
    BY <1>1, <1>2, <2>1, <2>2 DEF Promises
  <2>5. cl[g].st = "dead"
    BY <1>1, <2>1, <2>3, <2>4, HoldsIs
  <2>6. /\ ClientShape(cl')
        /\ \A x \in GuestId : /\ cl'[x].st = IF x = g THEN "free" ELSE cl[x].st
                              /\ cl'[x].iface = IF x = g THEN "none" ELSE cl[x].iface
                              /\ ~cl'[x].gone
    <3>1. {x \in {g} : cl[x].st = "dead"} = {g}
      BY <2>5
    <3>2. \A x \in {g} : cl[x].st # "live"
      BY <2>3
    <3>. QED BY <1>1, <1>7, <2>1, <2>3, <3>1, <3>2, IdsDeletedIs DEF Alive
  <2>7. Holds(cl') = Holds(cl) \ {g}
    <3>1. /\ Holds(cl) \subseteq GuestId /\ \A x \in GuestId : x \in Holds(cl) <=> cl[x].st \in {"live", "dead"}
          /\ Holds(cl') \subseteq GuestId /\ \A x \in GuestId : x \in Holds(cl') <=> cl'[x].st \in {"live", "dead"}
      BY <1>1, <2>6, HoldsIs
    <3>. QED BY <2>6, <3>1
  <2>8. [P!Next]_(P!vars)
    BY <1>2, <1>4, <1>7, <2>7, Deletes
  <2>9. /\ \A x \in GuestId, y \in Nat \ {NoId} : Maps(objects', x, y) <=> x # g /\ Maps(objects, x, y)
        /\ objects'.next_host_id = objects.next_host_id
        /\ objects'.interfaces = [objects.interfaces EXCEPT ![g] = NoInterface]
    <3>1. objects'.next_host_id = objects.next_host_id
      BY <1>1, <1>7, <2>1, RemoveIs
    <3>2. objects'.interfaces = [objects.interfaces EXCEPT ![g] = NoInterface]
      BY <1>1, <1>7, <2>1, RemoveInterfaces
    <3>. QED BY <1>1, <1>7, <2>1, <2>2, <3>1, <3>2, RemoveKeeps
  <2>10. objects.interfaces \in [GuestId -> Interface \cup {NoInterface}]
    BY <1>1 DEF ShadowTableType
  <2>11. \A x \in GuestId : objects'.interfaces[x] = IF x = g THEN "none" ELSE objects.interfaces[x]
    BY <2>9, <2>10 DEF NoInterface
  <2>12. Alive(cl')
    BY <1>1, <2>6 DEF Alive
  <2>13. Named(objects', cl')
    BY <1>1, <2>6, <2>11 DEF Named
  <2>14. graph' \in Seq(Standing(cl'))
    <3>1. \A x \in ClientGuestId \ {g} : cl[x].st \in {"live", "dead"} /\ cl[x].iface # "wl_callback" =>
             cl'[x].st \in {"live", "dead"} /\ cl'[x].iface = cl[x].iface
      BY <2>6 DEF GuestId
    <3>. QED BY <1>1, <1>7, <3>1, StandingRemoved
  <2>15. Waiting(pending_frames', cl')
    BY <1>1, <1>2, <2>3, <2>6 DEF Waiting, Trackers, GuestId
  <2>16. Ranges(objects', host')
    BY <1>1, <1>3, <2>9, NoObjectIs, IdRanges DEF Ranges, HostId, NoId
  <2>17. Agree(objects', cl', host')
    BY <1>1, <1>3, <2>6, <2>9, NoObjectIs, IdRanges DEF Agree, NoId
  <2>18. Ahead(objects', host')
    BY <1>1, <1>3, <2>9, NoObjectIs DEF Ahead, HostId
  <2>19. pc' \notin {"run", "frozen"} => Unanswered(objects')
    BY <2>9, <2>11 DEF RInv, Unanswered
  <2>. QED BY <1>5, <2>8, <2>12, <2>13, <2>14, <2>15, <2>16, <2>17, <2>18, <2>19, KeepsWhen
<1>. QED BY <1>6, <1>7 DEF HostDeletesId

\* A data_offer brings a server id.
LEMMA HostOffersStep ==
  ASSUME RInv, UNCHANGED <<pc, up>>, pc = "run", NEW h \in HostId, NEW n \in HostId, HostOffers(h, n)
  PROVE  Keeps
<1> DEFINE t == allocate_guest_server_id(objects)
           g == objects.next_guest_server_id
<1>1. /\ Alive(cl) /\ Named(objects, cl) /\ HostShape(host) /\ ClientShape(cl)
      /\ graph \in Seq(Standing(cl)) /\ Waiting(pending_frames, cl) /\ Trackers
      /\ Ranges(objects, host) /\ Agree(objects, cl, host) /\ Objects(host) /\ Ahead(objects, host)
      /\ TableInv(objects) /\ objects \in ShadowTableType
  BY RInvIs DEF TableInv
<1>2. g \in GuestId \ {1} /\ g \in ServerGuestId /\ g \notin ClientGuestId /\ n \in ServerHostId /\ n \in HostId \ {1}
      /\ n \in Nat /\ n >= 2 /\ n \notin ClientHostId
  BY IdRanges, ServerHostIdAssumption, ServerBaseAssumption, ServerGuestIdAssumption, ClientGuestIdAssumption
     DEF HostOffers, GuestId, HostId
<1>3. PICK d \in Hears(h) :
         /\ objects' = map(t, g, n, "wl_data_offer")
         /\ cl' = [cl EXCEPT ![g] = ClientObject("wl_data_offer", d, 0, NoAttr)]
         /\ host' = [host EXCEPT ![n] = HostObject("wl_data_offer", g, h, 0, NoAttr)]
  BY DEF HostOffers
<1>4. /\ TableInv(t) /\ t.interfaces = objects.interfaces /\ t.next_host_id = objects.next_host_id
      /\ \A x, y : Maps(t, x, y) <=> Maps(objects, x, y)
  BY <1>1, AllocateServerKeeps, OtherInterfaces DEF TableInv
<1>5. host[n].iface = "none" /\ UNCHANGED <<graph, pending_frames, expected>>
  BY DEF HostOffers
<1>6. objects' = map(allocate_guest_server_id(objects), objects.next_guest_server_id, n, "wl_data_offer")
      /\ objects.next_guest_server_id \in ServerGuestId
  BY <1>2, <1>3
<1> HIDE DEF t
<1>7. /\ objects'.next_host_id = objects.next_host_id
      /\ \A x \in GuestId, y \in Nat \ {NoId} :
           Maps(objects', x, y) <=> IF x = g THEN y = n ELSE Maps(objects, x, y) /\ y # n
  BY <1>2, <1>3, <1>4, MapKeeps, OfferAssumption
<1>8. \A x \in GuestId : objects'.interfaces[x] = IF x = g THEN "wl_data_offer" ELSE objects.interfaces[x]
  <2>1. t \in ShadowTableType /\ objects.interfaces \in [GuestId -> Interface \cup {NoInterface}]
    BY <1>1, <1>4 DEF TableInv, ShadowTableType
  <2>2. objects'.interfaces = [objects.interfaces EXCEPT ![g] = "wl_data_offer"]
    BY <1>2, <1>3, <1>4, <2>1, MapInterfaces, OfferAssumption
  <2>. QED BY <2>1, <2>2
<1> DEFINE new == ClientObject("wl_data_offer", d, 0, NoAttr)
           made == HostObject("wl_data_offer", g, h, 0, NoAttr)
<1>9. DOMAIN new = ClientField /\ new.st = "live" /\ new.iface = "wl_data_offer" /\ ~new.gone
  BY ClientObjectIs
<1>10. made.iface = "wl_data_offer" /\ made.owner = g /\ ~made.dead
  BY HostObjectIs
<1>11. /\ \A x \in GuestId : cl'[x] = IF x = g THEN new ELSE cl[x]
       /\ ClientShape(cl')
  BY <1>1, <1>2, <1>3, <1>9 DEF ClientShape
<1>12. \A x \in HostId : host'[x] = IF x = n THEN made ELSE host[x]
  BY <1>1, <1>3 DEF HostShape
<1> HIDE DEF new, made
<1>13. Holds(cl') = Holds(cl) \cup {g}
  <2>1. /\ Holds(cl) \subseteq GuestId /\ \A x \in GuestId : x \in Holds(cl) <=> cl[x].st \in {"live", "dead"}
        /\ Holds(cl') \subseteq GuestId /\ \A x \in GuestId : x \in Holds(cl') <=> cl'[x].st \in {"live", "dead"}
    BY <1>1, <1>11, HoldsIs
  <2>. QED BY <1>2, <1>9, <1>11, <2>1
<1>14. \A x \in HostId : Own'[x] = IF x = n THEN g ELSE Own[x]
  BY <1>10, <1>12 DEF Own
<1>15. [P!Next]_(P!vars)
  BY <1>2, <1>5, <1>6, <1>13, <1>14, ServerCreates, OfferAssumption
<1>16. Alive(cl')
  BY <1>1, <1>9, <1>11 DEF Alive
<1>17. Named(objects', cl')
  BY <1>1, <1>2, <1>8, <1>9, <1>11 DEF Named
<1>18. graph' \in Seq(Standing(cl'))
  <2>1. \A x \in ClientGuestId : cl'[x] = cl[x]
    BY <1>2, <1>11 DEF GuestId
  <2>. QED BY <1>1, <1>5, <2>1, StandingKept
<1>19. Waiting(pending_frames', cl')
  BY <1>1, <1>2, <1>5, <1>11 DEF Waiting, Trackers, GuestId
<1>20. Ranges(objects', host')
  BY <1>1, <1>2, <1>7, <1>10, <1>12, IdRanges DEF Ranges, HostId, NoId
<1>21. Agree(objects', cl', host')
  BY <1>1, <1>7, <1>9, <1>10, <1>11, <1>12, IdRanges DEF Agree, NoId
<1>22. Objects(host')
  BY <1>1, <1>2, <1>10, <1>12, IdRanges DEF Objects
<1>23. Ahead(objects', host')
  BY <1>1, <1>2, <1>7, <1>12 DEF Ahead, HostId
<1>24. pc' \notin {"run", "frozen"} => Unanswered(objects')
  OBVIOUS
<1>. QED BY <1>15, <1>16, <1>17, <1>18, <1>19, <1>20, <1>21, <1>22, <1>23, <1>24, KeepsWhen

\* Focus and pressed buttons leave the state and the interface of an object alone.
LEMMA OnlyFocusSet ==
  ASSUME RInv, NEW g, NEW f, NEW p
  PROVE  /\ \A x \in GuestId : /\ ClientFocused(g, f)[x].st = cl[x].st
                               /\ ClientFocused(g, f)[x].iface = cl[x].iface
                               /\ ~ClientFocused(g, f)[x].gone
         /\ \A x \in GuestId : /\ ClientPressed(g, p)[x].st = cl[x].st
                               /\ ClientPressed(g, p)[x].iface = cl[x].iface
                               /\ ~ClientPressed(g, p)[x].gone
<1>1. ClientShape(cl) /\ Alive(cl)
  BY RInvIs
<1>2. \A x \in GuestId : /\ ClientFocused(g, f)[x].st = cl[x].st
                         /\ ClientFocused(g, f)[x].iface = cl[x].iface
                         /\ ClientFocused(g, f)[x].gone = cl[x].gone
  BY <1>1 DEF ClientFocused, ClientShape, ClientField
<1>3. \A x \in GuestId : /\ ClientPressed(g, p)[x].st = cl[x].st
                         /\ ClientPressed(g, p)[x].iface = cl[x].iface
                         /\ ClientPressed(g, p)[x].gone = cl[x].gone
  BY <1>1 DEF ClientPressed, ClientShape, ClientField
<1>. QED BY <1>1, <1>2, <1>3 DEF Alive

\* Events with an input serial: no more of an object changes than focus and buttons.
LEMMA SpliceStep ==
  ASSUME RInv, UNCHANGED <<pc, up>>, pc = "run", UNCHANGED <<graph, pending_frames>>,
         NEW k, SameHost(k), WithSerial(k), ClientShape(cl'),
         \A g \in GuestId : cl'[g].st = cl[g].st /\ cl'[g].iface = cl[g].iface /\ ~cl'[g].gone
  PROVE  Keeps
<1>1. /\ Alive(cl) /\ Named(objects, cl) /\ HostShape(host) /\ ClientShape(cl)
      /\ graph \in Seq(Standing(cl)) /\ Waiting(pending_frames, cl) /\ Trackers
      /\ Ranges(objects, host) /\ Agree(objects, cl, host) /\ Objects(host) /\ Ahead(objects, host)
      /\ TableInv(objects) /\ objects \in ShadowTableType /\ expected \in Nat /\ objects.next_host_id \in Nat
      /\ Played.hosts \subseteq ClientHostId
  BY RInvIs DEF TableInv
<1>2. CASE host' = k /\ UNCHANGED <<objects, expected>>
  BY <1>2, QuietKeeps DEF SameHost
<1>3. CASE attempt_clipboard_splice(k)
  <2> DEFINE n == objects.next_host_id
  <2>1. PICK ids \in 0..3, done \in BOOLEAN :
          /\ RoomFor(ids) /\ objects' = allocate_host_ids(objects, ids)
          /\ host' = [h \in HostId |->
                       IF up /\ h \in n..(n + ids - 1) THEN HostObject(SpliceInterfaces[h - n + 1], Proxy, 0, 0, NoAttr)
                       ELSE k[h]]
          /\ expected' = IF up THEN expected + ids ELSE expected
    BY <1>3 DEF attempt_clipboard_splice
  <2>2. /\ objects'.next_host_id = n + ids
        /\ objects'.interfaces = objects.interfaces
        /\ \A x, y : Maps(objects', x, y) <=> Maps(objects, x, y)
    <3>1. ids \in Nat /\ objects' = allocate_host_ids(objects, ids)
      BY <2>1
    <3>2. objects'.next_host_id = objects.next_host_id + ids
      BY <1>1, <3>1, AllocateIs
    <3>3. objects'.interfaces = objects.interfaces
      BY <1>1, <3>1, AllocateInterfaces
    <3>. QED BY <1>1, <3>1, <3>2, <3>3, AllocateKeeps
  <2>3. \A j \in 1..3 : SpliceInterfaces[j] \notin {"none"}
    BY DEF SpliceInterfaces
  <2>4. n..(n + ids - 1) \subseteq ClientHostId /\ \A h \in ServerHostId : h \notin n..(n + ids - 1)
    BY <1>1, <2>1, IdRanges DEF RoomFor
  <2>5. \A h \in HostId :
          IF up /\ h \in n..(n + ids - 1)
          THEN host'[h].owner = Proxy /\ ~host'[h].dead /\ host'[h].iface # "none"
          ELSE /\ host'[h].owner = host[h].owner /\ host'[h].iface = host[h].iface
               /\ host'[h].dead <=> host[h].dead
    <3>1. \A h \in n..(n + ids - 1) : h - n + 1 \in 1..3
      BY <1>1
    <3>. QED BY <2>1, <2>3, <3>1, HostObjectIs DEF SameHost
  <2> HIDE DEF n
  <2>6. \A h \in HostId : Own'[h] = IF up /\ h \in n..(n + ids - 1) THEN Proxy ELSE Own[h]
    BY <2>5 DEF Own
  <2>7. Holds(cl') = Holds(cl)
    <3>1. /\ Holds(cl) \subseteq GuestId /\ \A x \in GuestId : x \in Holds(cl) <=> cl[x].st \in {"live", "dead"}
          /\ Holds(cl') \subseteq GuestId /\ \A x \in GuestId : x \in Holds(cl') <=> cl'[x].st \in {"live", "dead"}
      BY <1>1, HoldsIs
    <3>. QED BY <3>1
  <2>8. [P!Next]_(P!vars)
    <3>1. ~up => UNCHANGED <<Own, expected>>
      BY <2>1, <2>6, OwnIs
    <3>2. up => /\ expected' = expected + ids
                /\ \A h \in HostId :
                    Own'[h] = IF h \in objects.next_host_id..(objects.next_host_id + ids - 1)
                              THEN Proxy ELSE Own[h]
      BY <2>1, <2>6 DEF n
    <3>. QED BY <1>1, <2>1, <2>7, <3>1, <3>2, MakesOwn
  <2>9. Alive(cl') /\ Named(objects', cl') /\ Waiting(pending_frames', cl')
    BY <1>1, <2>2, ZenonT(60) DEF Alive, Named, Waiting, Trackers, GuestId
  <2>10. graph' \in Seq(Standing(cl'))
    <3>1. \A x \in ClientGuestId : cl'[x].st = cl[x].st /\ cl'[x].iface = cl[x].iface
      BY DEF GuestId
    <3>. QED BY <1>1, <3>1, StandingKept
  <2>11. Ranges(objects', host')
    BY <1>1, <2>2, <2>4, <2>5 DEF Ranges, HostId
  <2>12. Agree(objects', cl', host')
    <3>1. \A x \in GuestId, h \in HostId : Maps(objects, x, h) => h \notin n..(n + ids - 1)
      <4>1. \A x \in GuestId, h \in ClientHostId : Maps(objects, x, h) => h < n
        BY <1>1 DEF TableInv, n
      <4>. QED BY <1>1, <2>4, <4>1, IdRanges DEF HostId, n
    <3>. QED BY <1>1, <2>2, <2>5, <3>1 DEF Agree
  <2>13. Objects(host')
    BY <1>1, <2>4, <2>5 DEF Objects, Proxy
  <2>14. Ahead(objects', host')
    <3>1. \A h \in ClientHostId : h \in HostId /\ h \in Nat
      BY IdRanges DEF HostId
    <3>. QED BY <1>1, <2>2, <2>5, <3>1 DEF Ahead, n
  <2>15. pc' \notin {"run", "frozen"} => Unanswered(objects')
    OBVIOUS
  <2>. QED BY <2>8, <2>9, <2>10, <2>11, <2>12, <2>13, <2>14, <2>15, KeepsWhen
<1>. QED BY <1>2, <1>3 DEF WithSerial

\* Whatever the compositor says keeps them.
LEMMA EventStep ==
  ASSUME RInv, Event
  PROVE  Keeps
<1>1. pc = "run" /\ UNCHANGED <<pc, up>> /\ TInv /\ ClientShape(cl) /\ Alive(cl)
  BY RInvIs DEF Event, RInv
<1>2. ASSUME NEW h \in HostId, HostDone(h) PROVE Keeps
  BY <1>1, <1>2, HostDoneStep
<1>3. ASSUME NEW h \in HostId, HostDeletesId(h) PROVE Keeps
  BY <1>1, <1>3, HostDeletesIdStep
<1>4. ASSUME NEW h \in HostId, HostReleases(h) PROVE Keeps
  BY <1>1, <1>4, HostReleasesStep
<1>5. ASSUME NEW h \in HostId, HostForgets(h) PROVE Keeps
  BY <1>1, <1>5, HostForgetsStep
<1>6. ASSUME NEW h \in HostId, HostLeaves(h) PROVE Keeps
  <2>1. PICK g : cl' = ClientFocused(g, 0)
    BY <1>6 DEF HostLeaves, ClientFocused
  <2>2. WithSerial(HostFocused(h, 0)) /\ UNCHANGED <<graph, pending_frames>>
    BY <1>6 DEF HostLeaves, HostFocused
  <2>. QED BY <1>1, <2>1, <2>2, FocusSet, OnlyFocusSet, SpliceStep
<1>7. ASSUME NEW h \in HostId, HostKeyOrTouch(h) PROVE Keeps
  <2>1. WithSerial(host) /\ UNCHANGED <<graph, pending_frames, cl>>
    BY <1>7 DEF HostKeyOrTouch
  <2>2. SameHost(host)
    BY <1>1, FocusSet
  <2>. QED BY <1>1, <2>1, <2>2, SpliceStep DEF Alive
<1>8. ASSUME NEW h \in HostId, NEW n \in HostId, HostOffers(h, n) PROVE Keeps
  BY <1>1, <1>8, HostOffersStep
<1>9. ASSUME NEW h \in HostId, NEW s \in HostId, HostEnters(h, s) PROVE Keeps
  <2>1. PICK g, t : cl' = ClientFocused(g, t)
    BY <1>9 DEF HostEnters, ClientFocused
  <2>2. WithSerial(HostFocused(h, s)) /\ UNCHANGED <<graph, pending_frames>>
    BY <1>9 DEF HostEnters, HostFocused
  <2>. QED BY <1>1, <2>1, <2>2, FocusSet, OnlyFocusSet, SpliceStep
<1>10. ASSUME NEW h \in HostId, NEW b \in Buttons, HostButton(h, b) PROVE Keeps
  <2>1. PICK g, p : cl' = ClientPressed(g, p)
    BY <1>10 DEF HostButton, ClientPressed
  <2>2. PICK p1 : WithSerial(HostPressed(h, p1)) /\ UNCHANGED <<graph, pending_frames>>
    BY <1>10 DEF HostButton, HostPressed
  <2>. QED BY <1>1, <2>1, <2>2, FocusSet, OnlyFocusSet, SpliceStep
<1>11. ASSUME HostCancelsSource PROVE Keeps
  BY <1>1, <1>11, HostCancelsSourceStep
<1>. QED BY <1>2, <1>3, <1>4, <1>5, <1>6, <1>7, <1>8, <1>9, <1>10, <1>11 DEF Event

------------------------------------------------------------------------------
\* Recovery.

\* A new connection: no mapping but that of the display is left.
LEMMA ReconnectStep ==
  ASSUME RInv, Reconnect
  PROVE  Keeps
<1>1. /\ Alive(cl) /\ Named(objects, cl) /\ ClientShape(cl) /\ Display(cl) /\ Control
      /\ graph \in Seq(Standing(cl)) /\ Waiting(pending_frames, cl)
      /\ TableInv(objects) /\ objects \in ShadowTableType
  BY RInvIs DEF TableInv
<1>2. /\ pc' = "recover" /\ up' = TRUE /\ ~up /\ expected' = 2 /\ host' = FreshHost(HostId)
      /\ objects' = bump_generation(objects) /\ objects.generation < MaxGeneration
      /\ UNCHANGED <<cl, graph, pending_frames>>
  BY <1>1 DEF Reconnect, trackers, Control
<1>3. /\ HostShape(host') /\ HostDisplay(host') /\ host'[1].owner = 1
      /\ \A h \in HostId \ {1} : host'[h] = NoObject
  BY <1>2, FreshHostIs
<1>4. \A h \in HostId : Own'[h] = IF h = 1 THEN 1 ELSE 0
  BY <1>3, NoObjectIs DEF Own, HostDisplay
<1>5. [P!Next]_(P!vars)
  BY <1>2, <1>4, Reconnects
<1>6. /\ objects'.next_host_id = 2
      /\ \A x \in GuestId, y \in Nat : Maps(objects', x, y) => x = 1 /\ y = 1
      /\ objects'.interfaces = [objects.interfaces EXCEPT ![1] = "wl_display"]
  BY <1>1, <1>2, BumpKeeps, OtherInterfaces
<1>7. objects.interfaces \in [GuestId -> Interface \cup {NoInterface}]
  BY <1>1 DEF ShadowTableType
<1>8. \A x \in GuestId : objects'.interfaces[x] = IF x = 1 THEN "wl_display" ELSE objects.interfaces[x]
  BY <1>6, <1>7
<1>9. 1 \in ClientGuestId /\ 1 \in ClientHostId /\ 1 \notin ServerGuestId /\ 1 \notin ServerHostId
  BY IdRanges, ClientGuestIdAssumption, ClientHostIdAssumption
<1>10. Alive(cl') /\ graph' \in Seq(Standing(cl')) /\ Waiting(pending_frames', cl')
  BY <1>1, <1>2
<1>11. Named(objects', cl')
  BY <1>1, <1>2, <1>8, <1>9 DEF Named, Display
<1>12. Ranges(objects', host')
  BY <1>3, <1>6, <1>9, NoObjectIs, IdRanges DEF Ranges, HostId
<1>13. Agree(objects', cl', host')
  BY <1>1, <1>2, <1>3, <1>6, IdRanges DEF Agree, Display, HostDisplay
<1>14. Objects(host')
  BY <1>3, <1>9, NoObjectIs DEF Objects, HostDisplay
<1>15. Ahead(objects', host')
  BY <1>3, <1>6, NoObjectIs DEF Ahead, HostId
<1>16. pc' \notin {"run", "frozen"} => Unanswered(objects')
  BY <1>6, <1>8 DEF Unanswered
<1>. QED BY <1>5, <1>10, <1>11, <1>12, <1>13, <1>14, <1>15, <1>16, KeepsWhen

\* Recovery recreates an object the client holds, among objects of its own.
LEMMA RemapStep ==
  ASSUME RInv, pc \notin {"run", "frozen"}, UNCHANGED <<up, cl, graph, pending_frames>>,
         NEW g \in ClientGuestId \ {1}, NEW i \in Interface, i # "wl_callback", i # "wl_data_offer",
         cl[g].st \in {"live", "dead"}, cl[g].iface = i,
         NEW before \in 0..1, NEW after \in 0..1, NEW made,
         Creation(made), Created(made), Len(made) = before + 1 + after, RoomFor(before + 1 + after),
         objects' = map(allocate_host_ids(objects, before + 1 + after), g, objects.next_host_id + before, i),
         made[before + 1].owner = g, made[before + 1].iface = i, ~made[before + 1].dead,
         \A k \in 1..(before + 1 + after) : k # before + 1 => made[k].owner = Proxy /\ made[k].iface # "none"
  PROVE  Keeps
<1> DEFINE n == objects.next_host_id
           len == before + 1 + after
<1>1. /\ Alive(cl) /\ Named(objects, cl) /\ ClientShape(cl) /\ HostShape(host) /\ Control
      /\ graph \in Seq(Standing(cl)) /\ Waiting(pending_frames, cl) /\ Played.hosts \subseteq ClientHostId
      /\ Ranges(objects, host) /\ Agree(objects, cl, host) /\ Objects(host) /\ Ahead(objects, host)
      /\ TableInv(objects) /\ objects \in ShadowTableType /\ n \in Nat
  BY RInvIs DEF TableInv
<1>2. len \in 1..3 /\ before < len /\ g \in GuestId \ {1} /\ i # "none"
  BY IdRanges, InterfaceAssumption DEF GuestId
<1>3. n..(n + len - 1) \subseteq ClientHostId /\ \A h \in ServerHostId : h \notin n..(n + len - 1)
  BY <1>1, IdRanges DEF RoomFor
<1>4. /\ \A h \in HostId : host'[h] = IF up /\ h \in n..(n + len - 1) THEN made[h - n + 1] ELSE host[h]
      /\ HostShape(host')
  <2>1. \A k \in 1..Len(made) : DOMAIN made[k] = HostField
    BY DEF Creation
  <2>. QED BY <1>1, <1>2, <2>1, CreatedIs, SMTT(60)
<1>5. expected' = IF up THEN expected + len ELSE expected
  BY DEF Created
<1>6. /\ objects'.next_host_id = n + len
      /\ objects'.interfaces = [objects.interfaces EXCEPT ![g] = i]
      /\ \A x \in GuestId, y \in Nat \ {NoId} :
           Maps(objects', x, y) <=> IF x = g THEN y = n + before ELSE Maps(objects, x, y) /\ y # n + before
  <2>1. len \in Nat /\ before \in Nat
    BY <1>2
  <2>2. PICK l \in Nat : l = len
    BY <2>1
  <2>3. before < l
    BY <1>2, <2>2
  <2>4. \A u : u = map(allocate_host_ids(objects, l), g, n + before, i) =>
          /\ u.next_host_id = n + l
          /\ u.interfaces = [objects.interfaces EXCEPT ![g] = i]
          /\ \A x \in GuestId, y \in Nat \ {NoId} :
               Maps(u, x, y) <=> IF x = g THEN y = n + before ELSE Maps(objects, x, y) /\ y # n + before
    BY <1>1, <1>2, <2>1, <2>3, RemappedIs, SMTT(90)
  <2>5. objects' = map(allocate_host_ids(objects, l), g, n + before, i)
    BY <2>2
  <2>. QED BY <2>2, <2>4, <2>5, Zenon
<1>7. \A x \in GuestId : objects'.interfaces[x] = IF x = g THEN i ELSE objects.interfaces[x]
  BY <1>1, <1>6 DEF ShadowTableType
<1>8. \A h \in HostId : up /\ h \in n..(n + len - 1) =>
         IF h = n + before THEN host'[h].owner = g /\ host'[h].iface = i /\ ~host'[h].dead
         ELSE host'[h].owner = Proxy /\ host'[h].iface # "none"
  <2>2. \A k \in 1..len : IF k = before + 1 THEN made[k].owner = g /\ made[k].iface = i /\ ~made[k].dead
                          ELSE made[k].owner = Proxy /\ made[k].iface # "none"
    OBVIOUS
  <2>3. n \in Nat /\ len \in Nat /\ before \in Nat
    BY <1>1, <1>2
  <2> HIDE DEF n, len
  <2>1. \A h \in n..(n + len - 1) : h - n + 1 \in 1..len /\ (h - n + 1 = before + 1 <=> h = n + before)
    BY <2>3
  <2>. QED BY <1>4, <2>1, <2>2
<1>9. g \in Holds(cl)
  BY <1>1, <1>2, HoldsIs
<1>10. \A h \in HostId :
          Own'[h] = IF up /\ h \in n..(n + len - 1) THEN IF h = n + before THEN g ELSE Proxy ELSE Own[h]
  BY <1>2, <1>4, <1>8 DEF Own
<1>11. [P!Next]_(P!vars)
  <2>1. ~up => UNCHANGED <<Own, expected>>
    BY <1>5, <1>10, OwnIs
  <2>2. up => /\ expected' = expected + (before + 1 + after)
              /\ \A h \in HostId :
                    Own'[h] = IF h \in objects.next_host_id..(objects.next_host_id + (before + 1 + after) - 1)
                              THEN IF h = objects.next_host_id + before THEN g ELSE Proxy
                              ELSE Own[h]
    BY <1>5, <1>10
  <2>. QED BY <1>1, <1>9, <2>1, <2>2, Recreates
<1> HIDE DEF n, len
<1>12. Alive(cl') /\ graph' \in Seq(Standing(cl')) /\ Waiting(pending_frames', cl')
  BY <1>1
<1>13. Named(objects', cl')
  BY <1>1, <1>2, <1>7, IdRanges, ZenonT(60) DEF Named
<1>14. \A x \in GuestId, h \in HostId :
         Maps(objects', x, h) => IF x = g THEN h = n + before
                                 ELSE Maps(objects, x, h) /\ h \notin n..(n + len - 1)
  <2>1. \A x \in GuestId, h \in ClientHostId : Maps(objects, x, h) => h < n
    BY <1>1 DEF TableInv, n
  <2>2. \A h \in HostId : h \in Nat \ {NoId}
    BY IdRanges DEF NoId
  <2>3. \A h \in HostId : h \in ClientHostId \/ h \in ServerHostId
    BY DEF HostId
  <2>4. \A h \in HostId : h \in n..(n + len - 1) => h \in ClientHostId /\ ~(h < n)
    BY <1>1, <1>2, <1>3
  <2>. QED BY <1>6, <2>1, <2>2, <2>4
<1>15. n + before \in n..(n + len - 1) /\ n + before \in ClientHostId /\ n + before \notin ServerHostId
  BY <1>1, <1>2, <1>3
<1>16. Ranges(objects', host')
  <2>1. g \notin ServerGuestId
    BY IdRanges
  <2>2. \A h \in ServerHostId : host'[h] = host[h]
    BY <1>3, <1>4 DEF HostId
  <2>. QED BY <1>1, <1>14, <1>15, <2>1, <2>2 DEF Ranges
<1>17. Agree(objects', cl', host')
  <2> SUFFICES ASSUME NEW x \in GuestId, NEW h \in HostId, Maps(objects', x, h), cl'[x].st = "live",
                      host'[h].iface # "none"
               PROVE  host'[h].iface = cl'[x].iface /\ ~host'[h].dead
    BY DEF Agree
  <2>1. CASE x = g
    <3>1. h = n + before
      BY <1>14, <2>1
    <3>2. ~up => host'[h].iface = "none"
      <4>1. h >= n
        BY <1>1, <1>2, <3>1
      <4>. QED BY <1>1, <1>4, <1>15, <3>1, <4>1 DEF Ahead, n
    <3>. QED BY <1>8, <1>15, <2>1, <3>1, <3>2
  <2>2. CASE x # g
    BY <1>1, <1>4, <1>14, <2>2 DEF Agree
  <2>. QED BY <2>1, <2>2
<1>18. Objects(host')
  <2>1. \A h \in HostId : up /\ h \in n..(n + len - 1) =>
           h \notin ServerHostId /\ host'[h].iface # "none" /\ host'[h].owner # 0
    BY <1>2, <1>3, <1>8, IdRanges DEF Proxy
  <2>. QED BY <1>1, <1>4, <2>1 DEF Objects
<1>19. Ahead(objects', host')
  <2>1. \A h \in ClientHostId : h \in HostId /\ h \in Nat
    BY IdRanges DEF HostId
  <2>2. \A h \in ClientHostId : h >= n + len => h \notin n..(n + len - 1) /\ h >= n
    BY <1>1, <1>2, <2>1
  <2>. QED BY <1>1, <1>4, <1>6, <2>1, <2>2 DEF Ahead, n
<1>20. pc' \notin {"run", "frozen"} => Unanswered(objects')
  BY <1>6, <1>7 DEF RInv, Unanswered
<1>. QED BY <1>11, <1>12, <1>13, <1>16, <1>17, <1>18, <1>19, <1>20, KeepsWhen

\* Recovery that does not get through: ids of the proxy's own that reach nobody.
LEMMA WastedStep ==
  ASSUME RInv, pc \notin {"run", "frozen"}, ~up, NEW n \in 0..3, RoomFor(n),
         objects' = allocate_host_ids(objects, n),
         UNCHANGED <<up, graph, pending_frames, host, expected, cl>>
  PROVE  Keeps
<1>1. /\ Alive(cl) /\ Named(objects, cl) /\ graph \in Seq(Standing(cl)) /\ Waiting(pending_frames, cl)
      /\ Ranges(objects, host) /\ Agree(objects, cl, host) /\ Objects(host) /\ Ahead(objects, host)
      /\ Played.hosts \subseteq ClientHostId /\ TableInv(objects) /\ objects \in ShadowTableType
      /\ objects.next_host_id \in Nat /\ expected \in Nat
  BY RInvIs DEF TableInv
<1>2. Own' = Own
  BY DEF Own
<1>3. [P!Next]_(P!vars)
  BY <1>1, <1>2, MakesOwn
<1>4. n \in Nat /\ objects' = allocate_host_ids(objects, n)
  OBVIOUS
<1>5. objects'.next_host_id = objects.next_host_id + n
  BY <1>1, <1>4, AllocateIs, ZenonT(60)
<1>6. objects'.interfaces = objects.interfaces
  BY <1>1, <1>4, AllocateInterfaces
<1>7. \A x, y : Maps(objects', x, y) <=> Maps(objects, x, y)
  BY <1>1, <1>4, AllocateKeeps
<1>8. Named(objects', cl') /\ Ranges(objects', host') /\ Agree(objects', cl', host') /\ Objects(host')
  BY <1>1, <1>6, <1>7 DEF Named, Ranges, Agree, Objects
<1>9. Ahead(objects', host')
  BY <1>1, <1>4, <1>5, IdRanges DEF Ahead, HostId
<1>10. pc' \notin {"run", "frozen"} => Unanswered(objects')
  BY <1>6, <1>7 DEF RInv, Unanswered
<1>. QED BY <1>1, <1>3, <1>8, <1>9, <1>10, KeepsWhen

\* The registry is fetched.
LEMMA FetchRegistryStep ==
  ASSUME RInv, FetchRegistry
  PROVE  Keeps
<1>1. Named(objects, cl) /\ TInv
  BY RInvIs DEF RInv
<1>2. PICK g \in GuestId \ {1} :
        /\ objects.interfaces[g] = "wl_registry" /\ "wl_registry" \in Interface
        /\ objects' = map(allocate_host_ids(objects, 2), g, objects.next_host_id, "wl_registry")
        /\ Created(RegistryMade(g))
  BY <1>1, FetchRegistryIs
<1>3. /\ cl[g].st \in {"live", "dead"} /\ cl[g].iface = "wl_registry"
      /\ g \in ClientGuestId \ {1}
  BY <1>1, <1>2 DEF Named, GuestId
<1>4. pc = "recover" /\ RoomFor(2) /\ UNCHANGED <<up, cl, graph, pending_frames>>
  BY DEF FetchRegistry, trackers, peerVars
<1> DEFINE made == RegistryMade(g)
<1>5. /\ Creation(made) /\ Len(made) = 2
      /\ made[1].iface = "wl_registry" /\ made[1].owner = g /\ ~made[1].dead
      /\ made[2].iface = "wl_callback" /\ made[2].owner = Proxy
  BY RegistryMadeIs
<1>6. Created(made)
  BY <1>2
<1>7. objects.next_host_id \in Nat
  BY RInvIs
<1> HIDE DEF made
<1>8. \A k \in 1..2 : k # 1 => k = 2
  OBVIOUS
<1> DEFINE before == 0
           after == 1
<1>9. /\ before \in 0..1 /\ after \in 0..1 /\ before + 1 + after = 2 /\ before + 1 = 1
      /\ objects.next_host_id + before = objects.next_host_id
  BY <1>7
<1> HIDE DEF before, after
<1>10. \A k \in 1..(before + 1 + after) : k # before + 1 => made[k].owner = Proxy /\ made[k].iface # "none"
  BY <1>5, <1>8, <1>9
<1>11. /\ Len(made) = before + 1 + after /\ RoomFor(before + 1 + after)
       /\ objects' = map(allocate_host_ids(objects, before + 1 + after), g,
                         objects.next_host_id + before, "wl_registry")
       /\ made[before + 1].owner = g /\ made[before + 1].iface = "wl_registry" /\ ~made[before + 1].dead
  BY <1>2, <1>4, <1>5, <1>9
<1>. QED BY <1>2, <1>3, <1>4, <1>5, <1>6, <1>9, <1>10, <1>11, RemapStep

\* A recipe is replayed.
LEMMA ReplayMapsStep ==
  ASSUME RInv, ReplayMaps
  PROVE  Keeps
<1>1. TInv /\ graph \in Seq(Standing(cl)) /\ Trackers
  BY RInvIs DEF RInv
<1>2. PICK private \in {0, 1} : \E made : Replays(private, made)
  BY <1>1, ReplayMapsIs
<1>12. PICK made : Replays(private, made)
  BY <1>2
<1>3. Recipe \in Standing(cl) /\ pc = "replay"
  <2>1. pc = "replay" /\ at \in 1..Len(graph)
    BY <1>1, ReplayMapsIs
  <2>. QED BY <1>1, <2>1 DEF Recipe
<1>4. /\ Recipe.id \in ClientGuestId \ {1} /\ Recipe.interface \in Interface
      /\ Recipe.interface # "wl_callback" /\ Recipe.interface # "wl_data_offer"
      /\ cl[Recipe.id].st \in {"live", "dead"} /\ cl[Recipe.id].iface = Recipe.interface
  BY <1>3 DEF Standing, Recipes
<1>5. UNCHANGED <<up, cl, graph, pending_frames>>
  BY DEF ReplayMaps, trackers, peerVars
<1>6. /\ Creation(made) /\ Len(made) = private + 1 /\ Created(made)
      /\ objects' = map(allocate_host_ids(objects, Len(made)), Recipe.id,
                        objects.next_host_id + private, Recipe.interface)
      /\ RoomFor(private + 1)
      /\ made[private + 1].owner = Recipe.id /\ made[private + 1].iface = Recipe.interface
      /\ ~made[private + 1].dead
      /\ private = 1 => made[1].owner = Proxy /\ made[1].iface = "zwp_linux_buffer_params_v1"
  BY <1>12 DEF Replays
<1> DEFINE after == 0
<1>7. private \in 0..1 /\ after \in 0..1 /\ private + 1 + after = private + 1
      /\ \A k \in 1..(private + 1) : k # private + 1 => k = 1 /\ private = 1
  OBVIOUS
<1> HIDE DEF after
<1>8. \A k \in 1..(private + 1 + after) : k # private + 1 => made[k].owner = Proxy /\ made[k].iface # "none"
  BY <1>6, <1>7
<1>9. /\ Len(made) = private + 1 + after /\ RoomFor(private + 1 + after)
      /\ objects' = map(allocate_host_ids(objects, private + 1 + after), Recipe.id,
                        objects.next_host_id + private, Recipe.interface)
  BY <1>6, <1>7
<1>10. pc \notin {"run", "frozen"}
  BY <1>3
<1> DEFINE g == Recipe.id
           i == Recipe.interface
<1>11. /\ g \in ClientGuestId \ {1} /\ i \in Interface /\ i # "wl_callback" /\ i # "wl_data_offer"
       /\ cl[g].st \in {"live", "dead"} /\ cl[g].iface = i
       /\ objects' = map(allocate_host_ids(objects, private + 1 + after), g, objects.next_host_id + private, i)
       /\ made[private + 1].owner = g /\ made[private + 1].iface = i /\ ~made[private + 1].dead
  BY <1>4, <1>6, <1>9
<1> HIDE DEF g, i
<1>. QED BY <1>5, <1>6, <1>7, <1>8, <1>9, <1>10, <1>11, RemapStep

\* Recovery ends: what waited for done is answered and free.
LEMMA FinishRecoveryStep ==
  ASSUME RInv, FinishRecovery
  PROVE  Keeps
<1>1. /\ Alive(cl) /\ Named(objects, cl) /\ ClientShape(cl) /\ HostShape(host) /\ Owned(host) /\ Trackers
      /\ graph \in Seq(Standing(cl)) /\ Waiting(pending_frames, cl) /\ Display(cl)
      /\ Ranges(objects, host) /\ Agree(objects, cl, host) /\ Objects(host) /\ Ahead(objects, host)
      /\ TableInv(objects) /\ objects \in ShadowTableType
  BY RInvIs DEF TableInv
<1>2. /\ pc = "replay" /\ pc' = "run" /\ host' = Settled(host) /\ pending_frames' = {}
      /\ cl' = GrabsReleased(Answered(BuffersReleased(cl, Releasable)))
      /\ UNCHANGED <<objects, graph, expected, up>>
  BY DEF FinishRecovery, synthesize_grab_releases, drain_awaiting_done, peerVars
<1> DEFINE S == Answerable
           b == BuffersReleased(cl, Releasable)
           u == Answered(b)
<1>3. \A g \in S : /\ g \in GuestId \ {1} /\ g \in ClientGuestId /\ objects.interfaces[g] = "wl_callback"
                   /\ cl[g].st = "live" /\ cl[g].iface = "wl_callback"
  <2>1. \A g \in S : g \in pending_frames /\ objects.interfaces[g] # "none"
    BY DEF Answerable, NoInterface
  <2>2. pending_frames \subseteq ClientGuestId \ {1} /\ ClientGuestId \subseteq GuestId
    BY <1>1 DEF Trackers, GuestId
  <2>. QED BY <1>1, <2>1, <2>2 DEF Waiting, Named
<1>4. ClientShape(b) /\ \A g \in GuestId : b[g].st = cl[g].st /\ b[g].iface = cl[g].iface /\ ~b[g].gone
  BY <1>1, BuffersReleasedIs DEF Alive
<1> HIDE DEF b
<1>5. /\ ClientShape(u)
      /\ \A g \in GuestId \ S : u[g].st = cl[g].st /\ u[g].iface = cl[g].iface /\ ~u[g].gone
      /\ \A g \in GuestId \cap S : u[g].st = "free" /\ u[g].iface = "none" /\ ~u[g].gone
  <2>1. ClientShape(u)
    BY <1>4, AnsweredIs
  <2>2. \A g \in GuestId \ S : u[g].st = b[g].st /\ u[g].iface = b[g].iface /\ (~b[g].gone => ~u[g].gone)
    BY <1>4, AnsweredIs
  <2>3. \A g \in GuestId \cap S :
           /\ objects.interfaces[g] = "wl_callback"
           /\ b[g].st = "live" /\ b[g].iface = "wl_callback" /\ ~b[g].gone
           => u[g].st = "free" /\ u[g].iface = "none" /\ ~u[g].gone
    BY <1>4, AnsweredIs
  <2> HIDE DEF u, S
  <2>. QED BY <1>3, <1>4, <2>1, <2>2, <2>3
<1>6. cl' = GrabsReleased(u)
  BY <1>2 DEF b
<1> HIDE DEF u
<1>7. /\ ClientShape(cl')
      /\ \A g \in GuestId : cl'[g].st = u[g].st /\ cl'[g].iface = u[g].iface /\ (~u[g].gone => ~cl'[g].gone)
  BY <1>5, <1>6, GrabsReleasedIs
<1> HIDE DEF S
<1>8. \A g \in GuestId :
        /\ cl'[g].st = IF g \in S THEN "free" ELSE cl[g].st
        /\ cl'[g].iface = IF g \in S THEN "none" ELSE cl[g].iface
        /\ ~cl'[g].gone
  BY <1>5, <1>7
<1>9. S \in SUBSET (Holds(cl) \ {1}) /\ Holds(cl') = Holds(cl) \ S
  <2>1. /\ Holds(cl) \subseteq GuestId /\ \A x \in GuestId : x \in Holds(cl) <=> cl[x].st \in {"live", "dead"}
        /\ Holds(cl') \subseteq GuestId /\ \A x \in GuestId : x \in Holds(cl') <=> cl'[x].st \in {"live", "dead"}
    BY <1>1, <1>7, HoldsIs
  <2>. QED BY <1>3, <1>8, <2>1
<1>10. \A h \in HostId : /\ host'[h].iface = host[h].iface
                         /\ host'[h].dead <=> host[h].dead
                         /\ Own'[h] = IF host[h].iface = "none" THEN 0
                                      ELSE IF host[h].owner \in Holds(cl) \ Holds(cl') THEN Orphan
                                      ELSE host[h].owner
  BY <1>1, <1>2, SettledOwn
<1>11. [P!Next]_(P!vars)
  <2>1. \A g \in S : host_id(objects, g) = {} \/ g \in ServerGuestId
    <3> SUFFICES ASSUME NEW g \in S PROVE host_id(objects, g) = {}
      OBVIOUS
    <3>1. Unanswered(objects)
      BY <1>2 DEF RInv
    <3>2. \A h \in Nat \ {NoId} : ~Maps(objects, g, h)
      BY <1>3, <3>1 DEF Unanswered
    <3>3. \A h : h \in host_id(objects, g) <=> Maps(objects, g, h) /\ h # NoId
      BY <1>1, <1>3, HostIdIs
    <3>4. objects.guest_to_host[g] \in Nat
      BY <1>1, <1>3 DEF ShadowTableType
    <3>. QED BY <3>2, <3>3, <3>4 DEF Maps
  <2>2. \A h \in HostId : Own'[h] = IF Own[h] \in S THEN Orphan ELSE Own[h]
    <3>1. \A h \in HostId : Own[h] = IF host[h].iface = "none" THEN 0 ELSE host[h].owner
      BY DEF Own
    <3>2. 0 \notin S
      BY <1>3, IdRanges
    <3>. QED BY <1>9, <1>10, <3>1, <3>2
  <2>. QED BY <1>2, <1>9, <2>1, <2>2, Frees
<1>12. Alive(cl')
  BY <1>1, <1>8 DEF Alive
<1>13. Named(objects', cl')
  BY <1>1, <1>2, <1>3, <1>8 DEF Named
<1>14. graph' \in Seq(Standing(cl'))
  <2>1. \A g \in ClientGuestId : cl[g].st \in {"live", "dead"} /\ cl[g].iface # "wl_callback" =>
          cl'[g].st \in {"live", "dead"} /\ cl'[g].iface = cl[g].iface
    BY <1>3, <1>8 DEF GuestId
  <2>. QED BY <1>1, <1>2, <2>1, StandingKept
<1>15. Waiting(pending_frames', cl')
  BY <1>2 DEF Waiting
<1>16. Ranges(objects', host') /\ Ahead(objects', host')
  BY <1>1, <1>2, <1>10 DEF Ranges, Ahead, HostId
<1>17. Agree(objects', cl', host')
  BY <1>1, <1>2, <1>8, <1>10 DEF Agree
<1>18. Objects(host')
  BY <1>1, <1>2, SettledParts
<1>19. pc' \notin {"run", "frozen"} => Unanswered(objects')
  BY <1>2
<1>. QED BY <1>11, <1>12, <1>13, <1>14, <1>15, <1>16, <1>17, <1>18, <1>19, KeepsWhen

\* Every step of the recovery keeps them.
LEMMA RecoverStep ==
  ASSUME RInv, Recover
  PROVE  Keeps
<1>1. TInv /\ Control /\ ClientShape(cl) /\ Alive(cl)
  BY RInvIs DEF RInv
<1>2. ASSUME UNCHANGED <<objects, graph, pending_frames, host, expected, up, cl>>,
             pc' = pc \/ pc' \in {"run", "frozen"} \/ pc \notin {"run", "frozen"}
      PROVE  Keeps
  BY <1>1, <1>2, QuietKeeps DEF Alive
<1>3. ASSUME SeeEof PROVE Keeps
  BY <1>2, <1>3 DEF SeeEof, proxyVars, peerVars
<1>4. ASSUME RecoverNothing PROVE Keeps
  <2>1. cl' = GrabsReleased(cl) /\ pc' = "run"
        /\ UNCHANGED <<objects, graph, pending_frames, host, expected, up>>
    BY <1>4 DEF RecoverNothing, synthesize_grab_releases, peerVars
  <2>2. ClientShape(cl') /\ \A g \in GuestId : cl'[g].st = cl[g].st /\ cl'[g].iface = cl[g].iface /\ ~cl'[g].gone
    BY <1>1, <2>1, GrabsReleasedIs DEF Alive
  <2>. QED BY <2>1, <2>2, QuietKeeps
<1>5. ASSUME FetchFails PROVE Keeps
  <2>1. pc = "recover" /\ ~up /\ RoomFor(2) /\ objects' = allocate_host_ids(objects, 2)
        /\ UNCHANGED <<up, graph, pending_frames, host, expected, cl>>
    BY <1>5 DEF FetchFails, trackers, peerVars
  <2>. QED BY <2>1, WastedStep
<1>6. ASSUME ReplaySkips PROVE Keeps
  BY <1>2, <1>6 DEF ReplaySkips, Replaying, proxyVars, peerVars
<1>7. ASSUME ReplayFails PROVE Keeps
  <2>1. PICK n \in 0..3 : RoomFor(n) /\ objects' = allocate_host_ids(objects, n)
    BY <1>7 DEF ReplayFails
  <2>2. pc = "replay" /\ ~up /\ UNCHANGED <<up, graph, pending_frames, host, expected, cl>>
    BY <1>7 DEF ReplayFails, Replaying, trackers, peerVars
  <2>. QED BY <2>1, <2>2, WastedStep
<1>8. ASSUME HostConfigures \/ ConfigureFails \/ ClientAcks \/ AckTimesOut PROVE Keeps
  BY <1>2, <1>8 DEF HostConfigures, ConfigureFails, ClientAcks, AckTimesOut, Waits, proxyVars, peerVars
<1>9. ASSUME LoseEvent PROVE Keeps
  <2>1. PICK h, s \in HostId : host' = HostFocused(h, s)
    BY <1>9 DEF LoseEvent, HostFocused
  <2>2. UNCHANGED <<pc, objects, graph, pending_frames, expected, up, cl>>
    BY <1>9 DEF LoseEvent, proxyVars, peerVars
  <2>3. SameHost(host')
    BY <1>1, <2>1, FocusSet
  <2>. QED BY <1>1, <2>2, <2>3, QuietKeeps DEF SameHost, Alive
<1>10. ASSUME LoseRequest PROVE Keeps
  <2>1. PICK r, s, a, v, g : Sendable(r, s, a, v, g) /\ Lost(r, s, a, v, g)
    BY <1>1, <1>10, LoseRequestIs
  <2>2. UNCHANGED proxyVars /\ UNCHANGED <<pc, up, expected>>
    BY <1>10 DEF LoseRequest
  <2>. QED BY <2>1, <2>2, SentAloneKeeps DEF Lost
<1>. QED BY <1>3, <1>4, <1>5, <1>6, <1>7, <1>8, <1>9, <1>10,
            ReconnectStep, FetchRegistryStep, ReplayMapsStep, FinishRecoveryStep DEF Recover

\* The compositor dies, at any time.
LEMMA HostDiesStep ==
  ASSUME RInv, HostDies
  PROVE  Keeps
<1>1. /\ Alive(cl) /\ Named(objects, cl) /\ graph \in Seq(Standing(cl)) /\ Waiting(pending_frames, cl)
      /\ Ranges(objects, host) /\ Agree(objects, cl, host) /\ Objects(host) /\ Ahead(objects, host)
  BY RInvIs
<1>2. up /\ up' = FALSE /\ UNCHANGED <<pc, objects, graph, pending_frames, host, expected, cl>>
  BY DEF HostDies, proxyVars
<1>3. Own' = Own
  BY <1>2 DEF Own
<1>4. [P!Next]_(P!vars)
  BY <1>2, <1>3, Dies
<1>5. pc' \notin {"run", "frozen"} => Unanswered(objects')
  BY <1>2 DEF RInv
<1>. QED BY <1>1, <1>2, <1>4, <1>5, KeepsWhen

------------------------------------------------------------------------------
\* Every step, and the theorems.

\* A client's frame request on a surface of an earlier connection is refused.
RefuseFrame(r, s, a, v, g) == r.name = "frame" /\ RefuseRequest(r, s, a, v, g)
RefusesFrame == Sends(RefuseFrame)

\* Every request but such a frame keeps them.
LEMMA RequestStep ==
  ASSUME RInv, Request, ~RefusesFrame
  PROVE  Keeps
<1>1. Control
  BY RInvIs
<1>2. pc \in {"run", "frozen"} /\ UNCHANGED <<pc, up>>
  BY DEF Request
<1>3. PICK r \in IF boot < Len(Played.startup) THEN {Played.startup[boot + 1]} ELSE Played.requests :
        \E s \in Senders(r), a \in ArgsFor(r), v \in ValuesFor(r) :
          \E g \in NewIdsFor(r, s, a) : Relayed(r, s, a, v, g) /\ Booted
  BY DEF Request, Sends
<1>4. PICK s \in Senders(r), a \in ArgsFor(r), v \in ValuesFor(r) :
          \E g \in NewIdsFor(r, s, a) : Relayed(r, s, a, v, g) /\ Booted
  BY <1>3
<1>5. PICK g \in NewIdsFor(r, s, a) : Relayed(r, s, a, v, g) /\ Booted
  BY <1>4
<1>6. Sendable(r, s, a, v, g)
  BY <1>1, <1>5, SendableIs
<1>7. CASE DropRequest(r, s, a, v, g)
  BY <1>2, <1>6, <1>7, SentAloneKeeps DEF DropRequest
<1>8. CASE RefuseRequest(r, s, a, v, g)
  <2>1. r.name # "frame"
    BY <1>3, <1>4, <1>5, <1>8 DEF RefusesFrame, Sends, RefuseFrame
  <2>. QED BY <1>2, <1>6, <1>8, <2>1, RefuseKeeps
<1>9. CASE PassRequest(r, s, a, v, g)
  BY <1>2, <1>6, <1>9, PassKeeps
<1>. QED BY <1>5, <1>7, <1>8, <1>9 DEF Relayed

\* Every step keeps the invariant, unless it refuses a frame.
LEMMA RInvStep ==
  ASSUME RInv, [Next]_vars, [~RefusesFrame]_vars
  PROVE  RInv' /\ [P!Next]_(P!vars)
<1>1. TInv'
  BY TInvStep DEF RInv
<1>2. Keeps
  <2>1. CASE UNCHANGED vars
    <3>1. UNCHANGED <<pc, objects, graph, pending_frames, host, expected, up, cl>>
      BY <2>1 DEF vars, proxyVars
    <3>2. ClientShape(cl) /\ Alive(cl)
      BY RInvIs
    <3>. QED BY <3>1, <3>2, QuietKeeps DEF Alive
  <2>2. CASE Next /\ ~RefusesFrame
    BY <2>2, RequestStep, EventStep, RecoverStep, HostDiesStep DEF Next
  <2>. QED BY <2>1, <2>2
<1>. QED BY <1>1, <1>2, KeepsIs DEF Keeps

\* At first the client holds its display and nothing else.
LEMMA RInvInit ==
  ASSUME Init
  PROVE  RInv /\ P!Init
<1>1. TInv
  BY TInvInit
<1>2. /\ objects = new_table /\ graph = <<>> /\ pending_frames = {} /\ up = TRUE /\ expected = 2
      /\ host = FreshHost(HostId) /\ pc = "run"
  BY DEF Init, new_pending_frames
<1>3. /\ HostDisplay(host) /\ host[1].owner = 1 /\ \A h \in HostId \ {1} : host[h] = NoObject
  BY <1>2, FreshHostIs
<1>4. \A g \in GuestId :
        IF g = 1 THEN cl[g].st = "live" /\ cl[g].iface = "wl_display" /\ ~cl[g].gone
        ELSE cl[g].st = "new" /\ ~cl[g].gone
  <2>1. \A g \in GuestId : cl[g] = IF g = 1 THEN ClientObject("wl_display", 0, 0, NoAttr) ELSE Blank("new")
    BY DEF Init
  <2>. QED BY <2>1, BlankIs, ClientObjectIs
<1>5. /\ TableInv(objects) /\ objects.next_host_id = 2
      /\ \A x \in GuestId, y \in Nat \ {NoId} : Maps(objects, x, y) => x = 1 /\ y = 1
  BY <1>2, NewTable
<1>6. \A g \in GuestId : objects.interfaces[g] = IF g = 1 THEN "wl_display" ELSE "none"
  BY <1>2 DEF new_table, map, NoInterface
<1>7. 1 \in ClientGuestId /\ 1 \in ClientHostId /\ 1 \notin ServerGuestId /\ 1 \notin ServerHostId
  BY IdRanges, ClientGuestIdAssumption, ClientHostIdAssumption
<1>8. P!Init
  <2>1. Own = P!FreshHost
    BY <1>3, NoObjectIs DEF Own, P!FreshHost, HostId, P!HostId, P!Nothing, HostDisplay
  <2>2. Holds(cl) = {1}
    <3>1. Holds(cl) \subseteq GuestId /\ \A x \in GuestId : x \in Holds(cl) <=> cl[x].st \in {"live", "dead"}
      BY <1>1, HoldsIs DEF TInv
    <3>. QED BY <1>4, <3>1, IdRanges
  <2>3. new_table = P!new_table
    BY DEF new_table, P!new_table, map, P!map, BiMapInsert, P!BiMapInsert, GuestId, P!GuestId,
           NoId, P!NoId, NoInterface, P!NoInterface, NoGeneration, P!NoGeneration
  <2>. QED BY <1>2, <2>1, <2>2, <2>3 DEF P!Init
<1>9. P!IInv
  BY <1>8, P!InitStep, ClientGuestIdAssumption, ServerGuestIdAssumption, ServerBaseAssumption,
     InterfaceAssumption, ClientHostIdAssumption, ServerHostIdAssumption, BoundsAssumption
<1>10. Alive(cl)
  BY <1>4, IdRanges DEF Alive
<1>11. Named(objects, cl)
  BY <1>4, <1>6, <1>7 DEF Named
<1>12. graph \in Seq(Standing(cl)) /\ Waiting(pending_frames, cl)
  BY <1>2 DEF Waiting
<1>13. \A x \in GuestId, h \in HostId : Maps(objects, x, h) => x = 1 /\ h = 1
  BY <1>5, IdRanges DEF NoId
<1>14. Ranges(objects, host)
  BY <1>3, <1>7, <1>13, NoObjectIs DEF Ranges, HostId
<1>15. Agree(objects, cl, host)
  BY <1>3, <1>4, <1>13 DEF Agree, HostDisplay
<1>16. Objects(host)
  BY <1>3, <1>7, NoObjectIs DEF Objects, HostDisplay
<1>17. Ahead(objects, host)
  BY <1>3, <1>5, NoObjectIs DEF Ahead, HostId
<1>. QED BY <1>1, <1>2, <1>8, <1>9, <1>10, <1>11, <1>12, <1>14, <1>15, <1>16, <1>17 DEF RInv

\* The executions in which no frame request meets a stale surface.
NoRefusedFrame == Spec /\ [][~RefusesFrame]_vars

\* The invariant holds of those executions.
LEMMA RInvHolds == NoRefusedFrame => []RInv
BY RInvInit, RInvStep, PTL DEF NoRefusedFrame, Spec

\* It says what two of the theorems do.
LEMMA RInvImplies ==
  ASSUME RInv
  PROVE  SameSignature /\ DeletedIdsAreDead
<1>1. Alive(cl) /\ Named(objects, cl)
  BY RInvIs
<1>. QED BY <1>1 DEF Alive, Named, SameSignature, DeletedIdsAreDead, Live, NoInterface

\* The instance of Connection and that of the lemmas are the same specification.
LEMMA SameInstance ==
  /\ P!Init <=> Ids!Init
  /\ [P!Next]_(P!vars) <=> [Ids!Next]_(Ids!vars)
<1>1. P!Init <=> Ids!Init
  BY DEF Own, P!Init, Ids!Init, P!GuestId, Ids!GuestId, P!HostId, Ids!HostId, P!NoId, Ids!NoId, P!NoInterface, Ids!NoInterface,
         P!NoGeneration, Ids!NoGeneration, P!BiMapInsert, Ids!BiMapInsert, P!map, Ids!map,
         P!new_table, Ids!new_table, P!Nothing, Ids!Nothing, P!FreshHost, Ids!FreshHost
<1>2. P!Next <=> Ids!Next
  BY DEF Own, P!Next, Ids!Next, P!GuestId, Ids!GuestId, P!HostId, Ids!HostId, P!NoId, Ids!NoId, P!NoInterface, Ids!NoInterface,
         P!NoGeneration, Ids!NoGeneration, P!BiMapInsert, Ids!BiMapInsert, P!map, Ids!map,
         P!new_table, Ids!new_table, P!bump_generation, Ids!bump_generation,
         P!is_current_generation, Ids!is_current_generation, P!allocate_host_ids,
         Ids!allocate_host_ids, P!allocate_host_id, Ids!allocate_host_id, P!unallocate_host_id,
         Ids!unallocate_host_id, P!allocate_guest_server_id, Ids!allocate_guest_server_id,
         P!host_id, Ids!host_id, P!guest_id, Ids!guest_id, P!remove_guest, Ids!remove_guest,
         P!Nothing, Ids!Nothing, P!Proxy, Ids!Proxy, P!Orphan, Ids!Orphan, P!FreshHost,
         Ids!FreshHost, P!RoomFor, Ids!RoomFor, P!Announce, Ids!Announce, P!GiveUp, Ids!GiveUp,
         P!Create, Ids!Create, P!CreateRejected, Ids!CreateRejected, P!CreateDropped,
         Ids!CreateDropped, P!Recreate, Ids!Recreate, P!CreatePrivate, Ids!CreatePrivate,
         P!ServerCreate, Ids!ServerCreate, P!DeleteId, Ids!DeleteId, P!SynthesizeDeleteId,
         Ids!SynthesizeDeleteId, P!ClientFrees, Ids!ClientFrees, P!ServerForgets,
         Ids!ServerForgets, P!HostDies, Ids!HostDies, P!Reconnect, Ids!Reconnect
<1>3. UNCHANGED P!vars <=> UNCHANGED Ids!vars
  BY DEF Own, P!vars, Ids!vars
<1>. QED BY <1>1, <1>2, <1>3

(***************************************************************************)
(* The connection implements IdTranslation: what relay_ready_messages,     *)
(* run_connection and recover_state_after_reconnect do to the shadow table *)
(* is, step by step, what that module allows, next to what the compositor  *)
(* and the client really hold.                                             *)
(***************************************************************************)
THEOREM ConnectionTranslatesIds == NoRefusedFrame => TranslatesIds
<1>1. Init => Ids!Init
  BY RInvInit, SameInstance
<1>2. RInv /\ [Next]_vars /\ [~RefusesFrame]_vars => [Ids!Next]_(Ids!vars)
  BY RInvStep, SameInstance
<1>. QED BY <1>1, <1>2, RInvHolds, PTL DEF NoRefusedFrame, Spec, TranslatesIds, Ids!Spec

(***************************************************************************)
(* So its promises are the connection's: what host_id translates for an id *)
(* the client holds is, on the compositor, the object made for it; the     *)
(* next id allocated is the one the compositor expects; the proxy's own    *)
(* objects are untracked; and an id the client may use next is mapped to   *)
(* nothing.                                                                *)
(***************************************************************************)
THEOREM ConnectionKeepsIdPromises ==
  NoRefusedFrame => [](P!TranslationSound /\ P!Gapless /\ P!PrivateUntracked /\ P!FreeIdsUntranslatable)
<1>1. RInv => P!TranslationSound /\ P!Gapless /\ P!PrivateUntracked /\ P!FreeIdsUntranslatable
  BY P!Meaning, ClientGuestIdAssumption, ServerGuestIdAssumption, ServerBaseAssumption,
     InterfaceAssumption, ClientHostIdAssumption, ServerHostIdAssumption, BoundsAssumption DEF RInv, P!IInv
<1>. QED BY <1>1, RInvHolds, PTL

(***************************************************************************)
(* relay_ready_messages decodes a request by the signature of the client's *)
(* own object: the interface the table has for an id is that object's, or  *)
(* that of an answered callback the id had before.                         *)
(***************************************************************************)
THEOREM SignaturesStay == NoRefusedFrame => []SameSignature
BY RInvHolds, RInvImplies, PTL

(***************************************************************************)
(* No delete_id reaches the client for an object it still uses, whether    *)
(* the compositor sends it or the proxy synthesizes it for a destructor or *)
(* at the end of a recovery.                                               *)
(***************************************************************************)
THEOREM DeletedStayDead == NoRefusedFrame => []DeletedIdsAreDead
BY RInvHolds, RInvImplies, PTL

------------------------------------------------------------------------------
\* Promises.

\* A callback stays on the list while the table knows it.
LEMMA TrackedKept ==
  ASSUME PromisesTracked,
         \A x \in GuestId :
           cl'[x].st = "live" /\ cl'[x].iface = "wl_callback" /\ objects'.interfaces[x] = "wl_callback" =>
             \/ x \in pending_frames'
             \/ /\ cl[x].st = "live" /\ cl[x].iface = "wl_callback" /\ objects.interfaces[x] = "wl_callback"
                /\ x \in pending_frames => x \in pending_frames'
  PROVE  PromisesTracked'
BY DEF PromisesTracked, Known, Live

\* A step that leaves the list and the client's objects alone.
LEMMA TrackedQuiet ==
  ASSUME PromisesTracked, pending_frames' = pending_frames,
         \A x \in GuestId : /\ cl'[x].st = cl[x].st /\ cl'[x].iface = cl[x].iface
                            /\ objects'.interfaces[x] = "wl_callback" => objects.interfaces[x] = "wl_callback"
  PROVE  PromisesTracked'
BY TrackedKept

\* A request for a callback that the proxy does not get to see, or drops.
CallbackUnseen(r, s, a, v, g) ==
  /\ r.child = "wl_callback"
  /\ DropRequest(r, s, a, v, g) \/ (pc = "ack" /\ Lost(r, s, a, v, g))
UnseenCallback == Sends(CallbackUnseen)

\* A request that goes no further, for no callback.
LEMMA TrackedAlone ==
  ASSUME RInv, PromisesTracked, NEW r, NEW s, NEW a, NEW v, NEW g, Sendable(r, s, a, v, g),
         r.child # "wl_callback", UNCHANGED <<objects, pending_frames>>, cl' = Sent(r, s, a, v, g)
  PROVE  PromisesTracked'
<1>1. \A x \in GuestId :
        /\ cl'[x].st = IF r.child # "none" /\ x = g THEN "live"
                       ELSE IF r.dtor /\ x = s THEN IF s \in ServerGuestId THEN "free" ELSE "dead"
                       ELSE cl[x].st
        /\ cl'[x].iface = IF r.child # "none" /\ x = g THEN r.child
                          ELSE IF r.dtor /\ x = s /\ s \in ServerGuestId THEN "none" ELSE cl[x].iface
  BY SentGives
<1>. QED BY <1>1, TrackedKept

\* A refused request leaves no callback in the table.
LEMMA TrackedRefused ==
  ASSUME RInv, PromisesTracked, NEW r, NEW s, NEW a, NEW v, NEW g, Sendable(r, s, a, v, g),
         RefuseRequest(r, s, a, v, g), r.name # "frame"
  PROVE  PromisesTracked'
<1>1. Control /\ TableInv(objects) /\ objects \in ShadowTableType
  BY RInvIs DEF TableInv
<1> DEFINE u == Sent(r, s, a, v, g)
           rolled == RolledBack(WithNewId(r, g), r, g)
<1>2. r.child # "none" => g \in GuestId \ {1} /\ r.child \in Interface
  BY <1>1, SentGives, SendableRequest DEF RefuseRequest, Understood
<1>3. /\ ClientShape(u)
      /\ \A x \in GuestId :
           /\ u[x].st = IF r.child # "none" /\ x = g THEN "live"
                        ELSE IF r.dtor /\ x = s THEN IF s \in ServerGuestId THEN "free" ELSE "dead"
                        ELSE cl[x].st
           /\ u[x].iface = IF r.child # "none" /\ x = g THEN r.child
                           ELSE IF r.dtor /\ x = s /\ s \in ServerGuestId THEN "none" ELSE cl[x].iface
  BY SentGives
<1>4. /\ cl' = IF r.dtor THEN IdsDeleted(u, {s}) ELSE u
      /\ objects' = IF r.dtor THEN remove_guest(rolled, s) ELSE rolled
      /\ ObserveCallbacks(r, g)
  BY DEF RefuseRequest
<1>5. /\ rolled \in ShadowTableType
      /\ rolled.interfaces = IF r.child # "none" THEN [objects.interfaces EXCEPT ![g] = NoInterface]
                             ELSE objects.interfaces
  BY <1>1, <1>2, RolledBackIs DEF TableInv
<1> HIDE DEF u, rolled
<1>6. \A x \in GuestId : cl'[x].st = "live" => u[x].st = "live" /\ cl'[x].iface = u[x].iface
  <2>1. CASE r.dtor
    <3>1. \A x \in GuestId :
            /\ cl'[x].st = IF x \in {y \in {s} : u[y].st = "dead"} THEN "free" ELSE u[x].st
            /\ cl'[x].iface = IF x \in {y \in {s} : u[y].st = "dead"} THEN "none" ELSE u[x].iface
      BY <1>3, <1>4, <2>1, IdsDeletedIs
    <3>. QED BY <3>1
  <2>2. CASE ~r.dtor
    BY <1>4, <2>2
  <2>. QED BY <2>1, <2>2
<1>7. \A x \in GuestId : objects'.interfaces[x] = "wl_callback" =>
        objects.interfaces[x] = "wl_callback" /\ ~(r.child # "none" /\ x = g)
  <2>1. \A x \in GuestId : rolled.interfaces[x] = "wl_callback" =>
          objects.interfaces[x] = "wl_callback" /\ ~(r.child # "none" /\ x = g)
    BY <1>1, <1>5 DEF ShadowTableType, NoInterface
  <2>2. CASE r.dtor
    <3>1. s \in GuestId
      BY DEF Sendable
    <3>2. objects'.interfaces = [rolled.interfaces EXCEPT ![s] = NoInterface]
      BY <1>4, <1>5, <2>2, <3>1, RemoveInterfaces
    <3>3. \A x \in GuestId : objects'.interfaces[x] = "wl_callback" => rolled.interfaces[x] = "wl_callback"
      BY <1>5, <3>2 DEF ShadowTableType, NoInterface
    <3>. QED BY <2>1, <3>3
  <2>3. CASE ~r.dtor
    BY <1>4, <2>1, <2>3
  <2>. QED BY <2>2, <2>3
<1>8. pending_frames \subseteq pending_frames'
  BY <1>4 DEF ObserveCallbacks, on_frame_requested, on_sync_requested
<1>. QED BY <1>3, <1>6, <1>7, <1>8, TrackedKept

\* A callback that is passed on is on the list.
LEMMA TrackedPassed ==
  ASSUME RInv, PromisesTracked, NEW r, NEW s, NEW a, NEW v, NEW g, Sendable(r, s, a, v, g),
         PassRequest(r, s, a, v, g)
  PROVE  PromisesTracked'
<1>1. Control /\ TableInv(objects) /\ objects \in ShadowTableType
  BY RInvIs DEF TableInv
<1>2. r.child # "none" => g \in GuestId \ {1} /\ r.child \in Interface
  BY <1>1, SentGives, SendableRequest DEF PassRequest, Understood
<1>3. /\ \A x \in GuestId :
           /\ cl'[x].st = IF r.child # "none" /\ x = g THEN "live"
                          ELSE IF r.dtor /\ x = s THEN IF s \in ServerGuestId THEN "free" ELSE "dead"
                          ELSE cl[x].st
           /\ cl'[x].iface = IF r.child # "none" /\ x = g THEN r.child
                             ELSE IF r.dtor /\ x = s /\ s \in ServerGuestId THEN "none" ELSE cl[x].iface
  BY SentGives DEF PassRequest
<1>4. objects' = WithNewId(r, g) /\ ObserveCallbacks(r, g)
  BY DEF PassRequest
<1>5. objects'.interfaces = IF r.child # "none" THEN [objects.interfaces EXCEPT ![g] = r.child]
                            ELSE objects.interfaces
  BY <1>1, <1>2, <1>4, WithNewIdIs
<1>6. \A x \in GuestId : objects'.interfaces[x] = IF r.child # "none" /\ x = g THEN r.child
                                                  ELSE objects.interfaces[x]
  BY <1>1, <1>5 DEF ShadowTableType
<1>7. r.child = "wl_callback" <=> r.name \in {"frame", "sync"}
  BY <1>1, SendableRequest
<1>8. pending_frames \subseteq pending_frames' /\ (r.child = "wl_callback" => g \in pending_frames')
  BY <1>4, <1>7 DEF ObserveCallbacks, on_frame_requested, on_sync_requested
<1>. QED BY <1>3, <1>6, <1>8, TrackedKept

\* Whatever the client sends.
LEMMA TrackedRequest ==
  ASSUME RInv, PromisesTracked, Request, ~RefusesFrame, ~UnseenCallback
  PROVE  PromisesTracked'
<1>1. Control
  BY RInvIs
<1>2. PICK r \in IF boot < Len(Played.startup) THEN {Played.startup[boot + 1]} ELSE Played.requests :
        \E s \in Senders(r), a \in ArgsFor(r), v \in ValuesFor(r) :
          \E g \in NewIdsFor(r, s, a) : Relayed(r, s, a, v, g) /\ Booted
  BY DEF Request, Sends
<1>3. PICK s \in Senders(r), a \in ArgsFor(r), v \in ValuesFor(r) :
          \E g \in NewIdsFor(r, s, a) : Relayed(r, s, a, v, g) /\ Booted
  BY <1>2
<1>4. PICK g \in NewIdsFor(r, s, a) : Relayed(r, s, a, v, g) /\ Booted
  BY <1>3
<1>5. Sendable(r, s, a, v, g)
  BY <1>1, <1>4, SendableIs
<1>6. CASE DropRequest(r, s, a, v, g)
  <2>1. r.child # "wl_callback"
    BY <1>2, <1>3, <1>4, <1>6 DEF UnseenCallback, Sends, CallbackUnseen
  <2>. QED BY <1>5, <1>6, <2>1, TrackedAlone DEF DropRequest, proxyVars
<1>7. CASE RefuseRequest(r, s, a, v, g)
  <2>1. r.name # "frame"
    BY <1>2, <1>3, <1>4, <1>7 DEF RefusesFrame, Sends, RefuseFrame
  <2>. QED BY <1>5, <1>7, <2>1, TrackedRefused
<1>8. CASE PassRequest(r, s, a, v, g)
  BY <1>5, <1>8, TrackedPassed
<1>. QED BY <1>4, <1>6, <1>7, <1>8 DEF Relayed

\* done takes from the list what it answers; delete_id takes from the table.
LEMMA TrackedAnswered ==
  ASSUME RInv, PromisesTracked, NEW h \in HostId, HostDone(h) \/ HostDeletesId(h)
  PROVE  PromisesTracked'
<1>1. ClientShape(cl) /\ Alive(cl) /\ objects \in ShadowTableType /\ TInv
  BY RInvIs DEF TableInv, RInv
<1>2. CASE HostDone(h)
  <2>1. PICK g \in Hears(h) : pending_frames' = on_done_received(pending_frames, g) /\ cl' = CallbackDone(cl, g)
    BY <1>2 DEF HostDone
  <2>2. g \in GuestId /\ objects' = objects
    BY <1>1, <1>2, HearsIs DEF HostDone
  <2>3. ~cl[g].gone
    BY <1>1, <2>2 DEF Alive
  <2>4. \A x \in GuestId :
          /\ cl'[x].st = IF cl[g].st = "live" /\ cl[g].iface = "wl_callback" /\ x = g THEN "dead" ELSE cl[x].st
          /\ cl'[x].iface = cl[x].iface
    BY <1>1, <2>1, <2>2, <2>3, CallbackDoneIs
  <2>5. pending_frames' = pending_frames \ {g}
    BY <2>1 DEF on_done_received
  <2>. QED BY <2>2, <2>4, <2>5, TrackedKept
<1>3. ASSUME HostDeletesId(h), NEW g \in guest_id(objects, h), objects' = remove_guest(objects, g),
             cl' = IdsDeleted(cl, {g})
      PROVE  PromisesTracked'
  <2>1. g \in GuestId
    BY <1>1, GuestIdIs
  <2>2. objects'.interfaces = [objects.interfaces EXCEPT ![g] = NoInterface]
    BY <1>1, <1>3, <2>1, RemoveInterfaces
  <2>3. \A x \in GuestId : objects'.interfaces[x] = "wl_callback" => objects.interfaces[x] = "wl_callback"
    BY <1>1, <2>2 DEF ShadowTableType, NoInterface
  <2>4. \A x \in GuestId :
          /\ cl'[x].st = IF x \in {y \in {g} : cl[y].st = "dead"} THEN "free" ELSE cl[x].st
          /\ cl'[x].iface = IF x \in {y \in {g} : cl[y].st = "dead"} THEN "none" ELSE cl[x].iface
    BY <1>1, <1>3, IdsDeletedIs
  <2>5. pending_frames' = pending_frames
    BY <1>3 DEF HostDeletesId
  <2>. QED BY <2>3, <2>4, <2>5, TrackedKept
<1>4. CASE HostDeletesId(h) /\ guest_id(objects, h) = {}
  BY <1>4, TrackedQuiet DEF HostDeletesId
<1>. QED BY <1>2, <1>3, <1>4 DEF HostDeletesId

\* A splice allocates ids and maps none.
LEMMA TrackedSerial ==
  ASSUME RInv, PromisesTracked, NEW k, WithSerial(k), pending_frames' = pending_frames,
         \A x \in GuestId : cl'[x].st = cl[x].st /\ cl'[x].iface = cl[x].iface
  PROVE  PromisesTracked'
<1>1. objects \in ShadowTableType
  BY RInvIs DEF TableInv
<1>2. objects'.interfaces = objects.interfaces
  <2>1. CASE objects' = objects
    BY <2>1
  <2>2. CASE attempt_clipboard_splice(k)
    <3>1. PICK ids \in 0..3 : objects' = allocate_host_ids(objects, ids)
      BY <2>2 DEF attempt_clipboard_splice
    <3>2. ids \in Nat
      OBVIOUS
    <3>. QED BY <1>1, <3>1, <3>2, AllocateInterfaces
  <2>. QED BY <2>1, <2>2 DEF WithSerial
<1>. QED BY <1>2, TrackedQuiet

\* Whatever the compositor sends.
LEMMA TrackedEvent ==
  ASSUME RInv, PromisesTracked, Event
  PROVE  PromisesTracked'
<1>1. ClientShape(cl) /\ objects \in ShadowTableType /\ TableInv(objects)
  BY RInvIs DEF TableInv
<1>2. ASSUME NEW h \in HostId, HostDone(h) \/ HostDeletesId(h) PROVE PromisesTracked'
  BY <1>2, TrackedAnswered
<1>3. ASSUME NEW h \in HostId, HostReleases(h) PROVE PromisesTracked'
  <2>1. PICK g : cl' = BuffersReleased(cl, {g})
    BY <1>3 DEF HostReleases
  <2>2. \A x \in GuestId : cl'[x].st = cl[x].st /\ cl'[x].iface = cl[x].iface
    BY <1>1, <2>1, BuffersReleasedIs
  <2>. QED BY <1>3, <2>2, TrackedQuiet DEF HostReleases
<1>4. ASSUME NEW h \in HostId, HostForgets(h) \/ HostCancelsSource PROVE PromisesTracked'
  BY <1>4, TrackedQuiet DEF HostForgets, HostCancelsSource, proxyVars
<1>5. ASSUME NEW h \in HostId, HostLeaves(h) PROVE PromisesTracked'
  <2>1. PICK g : cl' = ClientFocused(g, 0)
    BY <1>5 DEF HostLeaves, ClientFocused
  <2>2. WithSerial([host EXCEPT ![h].focus = 0]) /\ pending_frames' = pending_frames
    BY <1>5 DEF HostLeaves
  <2>. QED BY <2>1, <2>2, OnlyFocusSet, TrackedSerial
<1>6. ASSUME NEW h \in HostId, HostKeyOrTouch(h) PROVE PromisesTracked'
  BY <1>6, TrackedSerial DEF HostKeyOrTouch
<1>7. ASSUME NEW h \in HostId, NEW s \in HostId, HostEnters(h, s) PROVE PromisesTracked'
  <2>1. PICK g, t : cl' = ClientFocused(g, t)
    BY <1>7 DEF HostEnters, ClientFocused
  <2>2. WithSerial([host EXCEPT ![h].focus = s]) /\ pending_frames' = pending_frames
    BY <1>7 DEF HostEnters
  <2>. QED BY <2>1, <2>2, OnlyFocusSet, TrackedSerial
<1>8. ASSUME NEW h \in HostId, NEW b \in Buttons, HostButton(h, b) PROVE PromisesTracked'
  <2>1. PICK g, p : cl' = ClientPressed(g, p)
    BY <1>8 DEF HostButton, ClientPressed
  <2>2. PICK k : WithSerial(k) /\ pending_frames' = pending_frames
    BY <1>8 DEF HostButton
  <2>. QED BY <2>1, <2>2, OnlyFocusSet, TrackedSerial, ZenonT(60)
<1>9. ASSUME NEW h \in HostId, NEW n \in HostId, HostOffers(h, n) PROVE PromisesTracked'
  <2> DEFINE g == objects.next_guest_server_id
             t == allocate_guest_server_id(objects)
  <2>1. PICK d : /\ objects' = map(t, g, n, "wl_data_offer")
                 /\ cl' = [cl EXCEPT ![g] = ClientObject("wl_data_offer", d, 0, NoAttr)]
    BY <1>9 DEF HostOffers
  <2>2. g \in GuestId /\ n \in Nat /\ pending_frames' = pending_frames
    BY <1>9, IdRanges DEF HostOffers, GuestId
  <2>3. t \in ShadowTableType /\ t.interfaces = objects.interfaces
    BY <1>1, AllocateServerKeeps, OtherInterfaces DEF TableInv
  <2>4. objects'.interfaces = [t.interfaces EXCEPT ![g] = "wl_data_offer"]
    <3> HIDE DEF t, g
    <3>. QED BY <2>1, <2>2, <2>3, MapInterfaces, OfferAssumption
  <2> HIDE DEF t
  <2>5. \A x \in GuestId : objects'.interfaces[x] = "wl_callback" => objects.interfaces[x] = "wl_callback" /\ x # g
    BY <1>1, <2>3, <2>4 DEF ShadowTableType
  <2>6. \A x \in GuestId : x # g => cl'[x] = cl[x]
    BY <1>1, <2>1 DEF ClientShape
  <2>. QED BY <2>2, <2>5, <2>6, TrackedKept
<1>. QED BY <1>2, <1>3, <1>4, <1>5, <1>6, <1>7, <1>8, <1>9, IdRanges DEF Event

\* Where recovery ends, the table knows no callback that is not answered.
LEMMA TrackedFinish ==
  ASSUME RInv, PromisesTracked, FinishRecovery
  PROVE  PromisesTracked'
<1>1. ClientShape(cl) /\ Alive(cl)
  BY RInvIs
<1>2. cl' = GrabsReleased(Answered(BuffersReleased(cl, Releasable))) /\ objects' = objects
  BY DEF FinishRecovery, synthesize_grab_releases
<1> DEFINE b == BuffersReleased(cl, Releasable)
           u == Answered(b)
<1>3. ClientShape(b) /\ \A g \in GuestId : b[g].st = cl[g].st /\ b[g].iface = cl[g].iface /\ ~b[g].gone
  BY <1>1, BuffersReleasedIs DEF Alive
<1> HIDE DEF b
<1>4. ClientShape(u)
  BY <1>3, AnsweredIs
<1>5. \A g \in GuestId \ Answerable : u[g].st = b[g].st /\ u[g].iface = b[g].iface
  BY <1>3, AnsweredIs
<1>6. \A g \in GuestId \cap Answerable :
        /\ objects.interfaces[g] = "wl_callback"
        /\ b[g].st = "live" /\ b[g].iface = "wl_callback" /\ ~b[g].gone
        => u[g].st = "free"
  BY <1>3, AnsweredIs
<1>7. cl' = GrabsReleased(u)
  BY <1>2 DEF b
<1> HIDE DEF u
<1>8. \A g \in GuestId : cl'[g].st = u[g].st /\ cl'[g].iface = u[g].iface
  BY <1>4, <1>7, GrabsReleasedIs
<1>9. \A g \in GuestId :
         cl[g].st = "live" /\ cl[g].iface = "wl_callback" /\ objects.interfaces[g] = "wl_callback" =>
           g \in Answerable
  BY DEF PromisesTracked, Known, Live, Answerable, NoInterface
<1>10. \A g \in Answerable : cl[g].st = "live" /\ cl[g].iface = "wl_callback"
  <2>1. Waiting(pending_frames, cl)
    BY RInvIs
  <2>. QED BY <2>1 DEF Waiting, Answerable
<1>11. \A x \in GuestId :
         ~(cl'[x].st = "live" /\ cl'[x].iface = "wl_callback" /\ objects'.interfaces[x] = "wl_callback")
  BY <1>2, <1>3, <1>5, <1>6, <1>8, <1>9, <1>10
<1>. QED BY <1>11, TrackedKept

\* Recovery brings no callback into the table.
LEMMA TrackedRecover ==
  ASSUME RInv, PromisesTracked, Recover, ~UnseenCallback
  PROVE  PromisesTracked'
<1>1. ClientShape(cl) /\ objects \in ShadowTableType /\ TableInv(objects) /\ Control /\ TInv
      /\ graph \in Seq(Standing(cl))
  BY RInvIs DEF TableInv, RInv
<1>2. ASSUME UNCHANGED <<objects, pending_frames, cl>> PROVE PromisesTracked'
  BY <1>2, TrackedQuiet
<1>3. ASSUME UNCHANGED <<pending_frames, cl>>, NEW n \in Nat, objects' = allocate_host_ids(objects, n)
      PROVE  PromisesTracked'
  <2>1. objects'.interfaces = objects.interfaces
    BY <1>1, <1>3, AllocateInterfaces
  <2>. QED BY <1>3, <2>1, TrackedQuiet
<1>4. ASSUME UNCHANGED <<pending_frames, cl>>, NEW g \in GuestId, NEW i \in Interface, i # "wl_callback",
             objects'.interfaces = [objects.interfaces EXCEPT ![g] = i]
      PROVE  PromisesTracked'
  <2>1. \A x \in GuestId : objects'.interfaces[x] = "wl_callback" => objects.interfaces[x] = "wl_callback"
    BY <1>1, <1>4 DEF ShadowTableType
  <2>. QED BY <1>4, <2>1, TrackedQuiet
<1>5. CASE SeeEof \/ ReplaySkips \/ HostConfigures \/ ConfigureFails \/ ClientAcks \/ AckTimesOut \/ LoseEvent
  BY <1>2, <1>5 DEF SeeEof, ReplaySkips, HostConfigures, ConfigureFails, ClientAcks, AckTimesOut, LoseEvent,
                    Waits, proxyVars
<1>6. CASE Reconnect
  <2>1. objects'.interfaces = [objects.interfaces EXCEPT ![1] = "wl_display"] /\ UNCHANGED <<pending_frames, cl>>
    BY <1>1, <1>6, OtherInterfaces DEF Reconnect, trackers
  <2>. QED BY <1>4, <2>1, IdRanges, InterfaceAssumption
<1>7. CASE RecoverNothing
  <2>1. cl' = GrabsReleased(cl) /\ UNCHANGED <<objects, pending_frames>>
    BY <1>7 DEF RecoverNothing, synthesize_grab_releases
  <2>2. \A g \in GuestId : cl'[g].st = cl[g].st /\ cl'[g].iface = cl[g].iface
    BY <1>1, <2>1, GrabsReleasedIs
  <2>. QED BY <2>1, <2>2, TrackedQuiet
<1>8. CASE FetchRegistry
  <2>1. PICK g \in GuestId \ {1} :
          /\ "wl_registry" \in Interface
          /\ objects' = map(allocate_host_ids(objects, 2), g, objects.next_host_id, "wl_registry")
    BY <1>1, <1>8, FetchRegistryIs
  <2>2. UNCHANGED <<pending_frames, cl>>
    BY <1>8 DEF FetchRegistry, trackers
  <2> DEFINE t == allocate_host_ids(objects, 2)
  <2>3. t \in ShadowTableType /\ t.interfaces = objects.interfaces /\ objects.next_host_id \in Nat
    BY <1>1, AllocateIs, AllocateInterfaces, RInvIs
  <2>4. objects'.interfaces = [objects.interfaces EXCEPT ![g] = "wl_registry"]
    <3>1. objects' = map(t, g, objects.next_host_id, "wl_registry")
      BY <2>1
    <3> HIDE DEF t
    <3>. QED BY <2>1, <2>3, <3>1, MapInterfaces
  <2>. QED BY <1>4, <2>1, <2>2, <2>4
<1>9. CASE FetchFails
  BY <1>3, <1>9 DEF FetchFails, trackers
<1>10. CASE ReplayFails
  <2>1. PICK n \in 1..2 : objects' = allocate_host_ids(objects, n)
    BY <1>10 DEF ReplayFails
  <2>2. n \in Nat /\ UNCHANGED <<pending_frames, cl>>
    BY <1>10 DEF ReplayFails, trackers
  <2>. QED BY <1>3, <2>1, <2>2
<1>11. CASE ReplayMaps
  <2>1. PICK private \in {0, 1} : \E made : Replays(private, made)
    BY <1>1, <1>11, ReplayMapsIs
  <2>2. Recipe \in Standing(cl)
    <3>1. at \in 1..Len(graph)
      BY <1>1, <1>11, ReplayMapsIs
    <3>. QED BY <1>1, <3>1 DEF Recipe
  <2>3. Recipe.id \in GuestId /\ Recipe.interface \in Interface /\ Recipe.interface # "wl_callback"
    BY <2>2 DEF Standing, Recipes, GuestId
  <2>4. UNCHANGED <<pending_frames, cl>> /\ objects.next_host_id \in Nat
    BY <1>11, RInvIs DEF ReplayMaps, trackers
  <2>5. PICK n \in Nat :
          objects' = map(allocate_host_ids(objects, n), Recipe.id, objects.next_host_id + private, Recipe.interface)
    BY <2>1 DEF Replays, Creation
  <2>6. allocate_host_ids(objects, n) \in ShadowTableType
        /\ allocate_host_ids(objects, n).interfaces = objects.interfaces
    BY <1>1, AllocateIs, AllocateInterfaces
  <2> DEFINE t == allocate_host_ids(objects, n)
             h == objects.next_host_id + private
             g == Recipe.id
             i == Recipe.interface
  <2>7. t \in ShadowTableType /\ t.interfaces = objects.interfaces /\ h \in Nat /\ g \in GuestId /\ i \in Interface
        /\ objects' = map(t, g, h, i) /\ i # "wl_callback"
    BY <2>3, <2>4, <2>5, <2>6
  <2> HIDE DEF t, h, g, i
  <2>8. objects'.interfaces = [objects.interfaces EXCEPT ![g] = i]
    BY <2>7, MapInterfaces
  <2>. QED BY <1>4, <2>4, <2>7, <2>8
<1>12. CASE LoseRequest
  <2>1. PICK r \in IF boot < Len(Played.startup) THEN {Played.startup[boot + 1]} ELSE Played.requests :
          \E s \in Senders(r), a \in ArgsFor(r), v \in ValuesFor(r) :
            \E g \in NewIdsFor(r, s, a) : Lost(r, s, a, v, g) /\ Booted
    BY <1>12 DEF LoseRequest, Sends
  <2>2. PICK s \in Senders(r), a \in ArgsFor(r), v \in ValuesFor(r) :
            \E g \in NewIdsFor(r, s, a) : Lost(r, s, a, v, g) /\ Booted
    BY <2>1
  <2>3. PICK g \in NewIdsFor(r, s, a) : Lost(r, s, a, v, g) /\ Booted
    BY <2>2
  <2>4. Sendable(r, s, a, v, g)
    BY <1>1, <2>3, SendableIs
  <2>5. pc = "ack" /\ UNCHANGED <<objects, pending_frames>>
    BY <1>12 DEF LoseRequest, proxyVars
  <2>6. r.child # "wl_callback"
    BY <2>1, <2>2, <2>3, <2>5 DEF UnseenCallback, Sends, CallbackUnseen
  <2>. QED BY <2>3, <2>4, <2>5, <2>6, TrackedAlone DEF Lost
<1>. QED BY <1>5, <1>6, <1>7, <1>8, <1>9, <1>10, <1>11, <1>12, TrackedFinish DEF Recover

\* Every step keeps callbacks on the list.
LEMMA TrackedStep ==
  ASSUME RInv, PromisesTracked, [Next]_vars, [~RefusesFrame]_vars, [~UnseenCallback]_vars
  PROVE  PromisesTracked'
<1>1. CASE UNCHANGED vars
  BY <1>1, TrackedQuiet DEF vars, proxyVars
<1>2. CASE HostDies
  BY <1>2, TrackedQuiet DEF HostDies, proxyVars
<1>3. CASE (Request \/ Event \/ Recover) /\ ~UNCHANGED vars
  BY <1>3, TrackedRequest, TrackedEvent, TrackedRecover
<1>. QED BY <1>1, <1>2, <1>3 DEF Next

\* At first there is no callback.
LEMMA TrackedInit ==
  ASSUME Init
  PROVE  PromisesTracked
<1>1. \A g \in GuestId : cl[g] = IF g = 1 THEN ClientObject("wl_display", 0, 0, NoAttr) ELSE Blank("new")
  BY DEF Init
<1>. QED BY <1>1, BlankIs, ClientObjectIs DEF PromisesTracked, Known, Live

\* The executions in which every request for a callback reaches the table.
NoUnseenCallback == NoRefusedFrame /\ [][~UnseenCallback]_vars

(***************************************************************************)
(* Every callback the table knows is on the list recovery answers from     *)
(* (PendingFrameTracker), until the compositor or the recovery answers it: *)
(* no event, crash, or partial recovery takes it off unanswered.           *)
(***************************************************************************)
THEOREM CallbacksStayTracked == NoUnseenCallback => []PromisesTracked
<1>1. RInv /\ PromisesTracked /\ [Next]_vars /\ [~RefusesFrame]_vars /\ [~UnseenCallback]_vars => PromisesTracked'
  BY TrackedStep
<1>2. Init => PromisesTracked
  BY TrackedInit
<1>. QED BY <1>1, <1>2, RInvHolds, PTL DEF NoUnseenCallback, NoRefusedFrame, Spec
==============================================================================
