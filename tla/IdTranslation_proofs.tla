------------------------- MODULE IdTranslation_proofs -------------------------
(***************************************************************************)
(* Proofs about IdTranslation: for every set of ids, every number of       *)
(* reconnects and every interleaving, type correctness and the four safety *)
(* invariants of that module.                                              *)
(***************************************************************************)
EXTENDS IdTranslation, ShadowTable_proofs

(***************************************************************************)
(* The promises of IdTranslation in terms of Maps: a tracked id the client *)
(* holds reaches its own object, the proxy's objects have no guest id, and *)
(* the ids the client may use next are not mapped.                         *)
(***************************************************************************)
Sound(t, u, o, us) ==
  u => \A g \in us, h \in Nat \ {NoId} : Maps(t, g, h) => h \in HostId /\ o[h] = g
Private(t, u, o) ==
  u => \A g \in GuestId, h \in HostId : Maps(t, g, h) => o[h] # Proxy
Free(t, us) == \A g \in ClientGuestId \ us, h \in Nat \ {NoId} : ~Maps(t, g, h)

(***************************************************************************)
(* The inductive invariant.  The properties alone are not inductive: that  *)
(* an id of the proxy's own is untracked depends on no current mapping     *)
(* reaching next_host_id, and a delete_id frees one guest id only because  *)
(* the mapping is injective.                                               *)
(***************************************************************************)
IInv ==
  /\ TypeOK
  /\ TableInv(objects)
  /\ 1 \in used
  /\ Gapless
  /\ Sound(objects, up, owner, used)
  /\ Private(objects, up, owner)
  /\ Free(objects, used)

-----------------------------------------------------------------------------
\* The steps.

\* The invariant holds at first.
LEMMA InitStep == Init => IInv
<1> SUFFICES ASSUME Init PROVE IInv
  OBVIOUS
<1>1. TypeOK
  BY NewTable, IdRanges DEF Init, TypeOK, TableInv, FreshHost, GuestId, Nothing
<1>2. Sound(objects, up, owner, used) /\ Private(objects, up, owner) /\ Free(objects, used)
  BY NewTable, IdRanges DEF Init, Sound, Private, Free, FreshHost, Proxy, NoId, GuestId
<1>. QED BY <1>1, <1>2, NewTable DEF IInv, Init, Gapless

\* n ids are taken and announced, and the one of number h is mapped to g.
LEMMA MappedStep ==
  ASSUME IInv, NEW n \in Nat, NEW g \in GuestId \ {1}, NEW i \in Interface,
         NEW h \in objects.next_host_id..(objects.next_host_id + n - 1),
         RoomFor(n), Announce(n, h, g), up' = up, used' \in {used, used \cup {g}}, g \in used',
         objects' = map(allocate_host_ids(objects, n), g, h, i)
  PROVE  IInv'
<1> DEFINE next == objects.next_host_id
           own == next..(next + n - 1)
           a == allocate_host_ids(objects, n)
<1>1. /\ next \in Nat /\ next >= 2 /\ h \in Nat /\ next <= h /\ h < next + n
      /\ own \subseteq ClientHostId /\ h \in own
  BY DEF IInv, TableInv, ShadowTableType, RoomFor
<1>2. /\ TableInv(a) /\ a \in ShadowTableType /\ a.next_host_id = next + n
      /\ \A x, y : Maps(a, x, y) <=> Maps(objects, x, y)
  <2>1. TableInv(objects) /\ objects \in ShadowTableType
    BY DEF IInv, TableInv
  <2>2. TableInv(a) /\ \A x, y : Maps(a, x, y) <=> Maps(objects, x, y)
    BY <2>1, AllocateKeeps
  <2>3. a \in ShadowTableType /\ a.next_host_id = next + n
    BY <2>1, AllocateIs
  <2>. QED BY <2>2, <2>3
<1>3. /\ TableInv(objects') /\ objects'.next_host_id = next + n
      /\ \A x \in GuestId, y \in Nat \ {NoId} :
           Maps(objects', x, y) <=> IF x = g THEN y = h ELSE Maps(objects, x, y) /\ y # h
  <2> HIDE DEF a
  <2>1. objects' = map(a, g, h, i) /\ h >= 2 /\ h < a.next_host_id
    BY <1>1, <1>2 DEF a
  <2>2. TableInv(objects')
    BY <1>1, <1>2, <2>1, MapKeeps
  <2>3. \A x \in GuestId, y \in Nat \ {NoId} :
          Maps(objects', x, y) <=> IF x = g THEN y = h ELSE Maps(a, x, y) /\ y # h
    BY <1>1, <1>2, <2>1, MapKeeps
  <2>4. objects'.next_host_id = next + n
    BY <1>1, <1>2, <2>1, MapKeeps
  <2>. QED BY <1>2, <2>2, <2>3, <2>4
<1>4. /\ up => \A y \in HostId : owner'[y] = IF y \in own THEN IF y = h THEN g ELSE Proxy ELSE owner[y]
      /\ ~up => owner' = owner
  BY DEF Announce
<1> HIDE DEF own, a
<1>5. \A x \in GuestId, y \in own : ~Maps(objects, x, y)
  <2>1. \A x \in GuestId, y \in own : Maps(objects, x, y) => y < next
    BY <1>1 DEF IInv, TableInv
  <2>. QED BY <1>1, <2>1 DEF own
<1>6. TypeOK'
  BY <1>1, <1>3, <1>4 DEF IInv, TypeOK, TableInv, Announce, Proxy
<1>7. Gapless'
  BY <1>1, <1>3 DEF IInv, Gapless, Announce
<1>8. Sound(objects', up', owner', used')
  <2> SUFFICES ASSUME up, NEW x \in used', NEW y \in Nat \ {NoId}, Maps(objects', x, y)
               PROVE  y \in HostId /\ owner'[y] = x
    BY DEF Sound
  <2>1. x \in GuestId
    BY DEF IInv, TypeOK
  <2>2. CASE x = g
    BY <1>1, <1>3, <1>4, <2>1, <2>2 DEF HostId
  <2>3. CASE x # g
    BY <1>3, <1>4, <1>5, <2>1, <2>3 DEF IInv, Sound
  <2>. QED BY <2>2, <2>3
<1>9. Private(objects', up', owner')
  <2> SUFFICES ASSUME up, NEW x \in GuestId, NEW y \in HostId, Maps(objects', x, y)
               PROVE  owner'[y] # Proxy
    BY DEF Private
  <2>1. y \in Nat \ {NoId}
    BY IdRanges DEF NoId
  <2>2. CASE x = g
    BY <1>1, <1>3, <1>4, <2>1, <2>2, IdRanges DEF Proxy
  <2>3. CASE x # g
    BY <1>3, <1>4, <1>5, <2>1, <2>3 DEF IInv, Private
  <2>. QED BY <2>2, <2>3
<1>10. Free(objects', used')
  BY <1>3 DEF IInv, Free, GuestId
<1>. QED BY <1>3, <1>6, <1>7, <1>8, <1>9, <1>10 DEF IInv

\* A request with a new_id that is passed on.
LEMMA CreateStep ==
  ASSUME IInv, NEW g \in ClientGuestId, NEW i \in Interface, Create(g, i)
  PROVE  IInv'
<1>1. g \in GuestId \ {1}
  BY DEF IInv, Create, GuestId
<1>2. /\ allocate_host_id(objects) = allocate_host_ids(objects, 1)
      /\ objects.next_host_id \in objects.next_host_id..(objects.next_host_id + 1 - 1)
  BY DEF allocate_host_id, IInv, TableInv, ShadowTableType
<1>. QED BY <1>1, <1>2, MappedStep DEF Create

\* Recovery maps an id the client holds to its new host id.
LEMMA RecreateStep ==
  ASSUME IInv, NEW g \in ClientGuestId, NEW i \in Interface, NEW before \in 0..1, NEW after \in 0..1,
         Recreate(g, i, before, after)
  PROVE  IInv'
<1> DEFINE n == before + 1 + after
           h == objects.next_host_id + before
<1>1. g \in GuestId \ {1} /\ g \in used
  BY DEF Recreate, GuestId
<1>2. n \in Nat /\ h \in objects.next_host_id..(objects.next_host_id + n - 1)
  BY DEF IInv, TableInv, ShadowTableType
<1>3. /\ RoomFor(n) /\ Announce(n, h, g) /\ up' = up /\ used' = used
      /\ objects' = map(allocate_host_ids(objects, n), g, h, i)
  BY DEF Recreate
<1> HIDE DEF n, h
<1>. QED BY <1>1, <1>2, <1>3, MappedStep

\* The table only loses mappings, the compositor's side stays.
LEMMA RejectedStep ==
  ASSUME IInv, NEW g \in ClientGuestId, NEW i \in Interface, NEW keeps \in BOOLEAN,
         CreateRejected(g, i, keeps)
  PROVE  IInv'
<1>1. g \in GuestId \ {1} /\ g \notin used /\ TableInv(objects)
  BY DEF IInv, CreateRejected, GuestId
<1>2. /\ TableInv(objects') /\ objects'.next_host_id = objects.next_host_id
      /\ \A x \in GuestId, y \in Nat \ {NoId} : Maps(objects', x, y) => x # g /\ Maps(objects, x, y)
  BY <1>1, RejectKeeps DEF CreateRejected
<1>3. up' = up /\ owner' = owner /\ expected' = expected /\ used \subseteq used' /\ used' \subseteq used \cup {g}
  BY DEF CreateRejected
<1>4. TypeOK'
  BY <1>1, <1>2, <1>3 DEF IInv, TypeOK, TableInv
<1>5. Sound(objects', up', owner', used')
  <2> SUFFICES ASSUME up, NEW x \in used', NEW y \in Nat \ {NoId}, Maps(objects', x, y)
               PROVE  y \in HostId /\ owner[y] = x
    BY <1>3 DEF Sound
  <2>1. x \in GuestId
    BY <1>1, <1>3 DEF IInv, TypeOK
  <2>2. x \in used /\ Maps(objects, x, y)
    BY <1>2, <1>3, <2>1
  <2>. QED BY <2>2 DEF IInv, Sound
<1>6. Private(objects', up', owner')
  BY <1>2, <1>3, IdRanges DEF IInv, Private, NoId
<1>7. Free(objects', used')
  BY <1>2, <1>3 DEF IInv, Free, GuestId
<1>. QED BY <1>2, <1>3, <1>4, <1>5, <1>6, <1>7 DEF IInv, Gapless

\* A request dropped before its new_id was looked at.
LEMMA DroppedStep ==
  ASSUME IInv, NEW g \in ClientGuestId, CreateDropped(g)
  PROVE  IInv'
<1>1. g \in GuestId /\ \A y \in Nat \ {NoId} : ~Maps(objects, g, y)
  BY DEF IInv, Free, CreateDropped, GuestId
<1>2. used' = used \cup {g} /\ UNCHANGED <<objects, up, owner, expected>>
  BY DEF CreateDropped
<1>. QED BY <1>1, <1>2 DEF IInv, TypeOK, Sound, Private, Free, Gapless

\* Objects of the proxy's own: ids taken, nothing mapped.
LEMMA PrivateStep ==
  ASSUME IInv, NEW n \in 1..3, CreatePrivate(n)
  PROVE  IInv'
<1> DEFINE next == objects.next_host_id
           own == next..(next + n - 1)
<1>1. /\ next \in Nat /\ next >= 2 /\ n \in Nat /\ own \subseteq ClientHostId
      /\ TableInv(objects) /\ objects \in ShadowTableType
  BY DEF IInv, TableInv, ShadowTableType, RoomFor, CreatePrivate
<1>2. TableInv(objects') /\ \A x, y : Maps(objects', x, y) <=> Maps(objects, x, y)
  BY <1>1, AllocateKeeps DEF CreatePrivate
<1>3. objects'.next_host_id = next + n
  BY <1>1, AllocateIs DEF CreatePrivate
<1>4. /\ up' = up /\ used' = used /\ expected' = IF up THEN expected + n ELSE expected
      /\ up => \A y \in HostId : owner'[y] = IF y \in own THEN Proxy ELSE owner[y]
      /\ ~up => owner' = owner
  BY <1>1 DEF CreatePrivate, Announce, Nothing
<1>5. \A x \in GuestId, y \in own : ~Maps(objects, x, y)
  BY <1>1 DEF TableInv
<1>6. TypeOK'
  BY <1>1, <1>2, <1>4 DEF IInv, TypeOK, TableInv, CreatePrivate, Announce, Proxy, Nothing
<1> HIDE DEF own
<1>7. Gapless'
  BY <1>3, <1>4 DEF IInv, Gapless
<1>8. Sound(objects', up', owner', used')
  BY <1>2, <1>4, <1>5 DEF IInv, TypeOK, Sound
<1>9. Private(objects', up', owner')
  BY <1>2, <1>4, <1>5 DEF IInv, Private
<1>10. Free(objects', used')
  BY <1>2, <1>4 DEF IInv, Free
<1>. QED BY <1>2, <1>4, <1>6, <1>7, <1>8, <1>9, <1>10 DEF IInv

\* An event with a new_id: a guest id that was never used is mapped.
LEMMA ServerCreateStep ==
  ASSUME IInv, NEW h \in ServerHostId, NEW i \in Interface, ServerCreate(h, i)
  PROVE  IInv'
<1> DEFINE g == objects.next_guest_server_id
           a == allocate_guest_server_id(objects)
<1>1. g \in ServerGuestId /\ g \in GuestId \ {1} /\ h \in HostId /\ h \in Nat /\ h >= 2 /\ h \notin ClientHostId
  BY ServerGuestIdAssumption, ServerHostIdAssumption, ServerBaseAssumption, IdRanges
     DEF ServerCreate, GuestId, HostId
<1>2. /\ TableInv(a) /\ a \in ShadowTableType /\ a.next_host_id = objects.next_host_id
      /\ \A x, y : Maps(a, x, y) <=> Maps(objects, x, y)
  BY AllocateServerKeeps DEF IInv, TableInv
<1>3. objects' = map(a, g, h, i)
  BY DEF ServerCreate
<1>4. /\ up' = up /\ expected' = expected /\ used' = used \cup {g}
      /\ owner' = [owner EXCEPT ![h] = g] /\ owner[h] = Nothing
  BY DEF ServerCreate
<1> HIDE DEF a, g
<1>5. /\ TableInv(objects')
      /\ \A x \in GuestId, y \in Nat \ {NoId} :
           Maps(objects', x, y) <=> IF x = g THEN y = h ELSE Maps(a, x, y) /\ y # h
  BY <1>1, <1>2, <1>3, MapKeeps
<1>6. objects'.next_host_id = objects.next_host_id
  BY <1>1, <1>2, <1>3, MapKeeps
<1>7. \A y \in HostId : owner'[y] = IF y = h THEN g ELSE owner[y]
  BY <1>1, <1>4 DEF IInv, TypeOK
<1>8. TypeOK'
  BY <1>1, <1>4, <1>5 DEF IInv, TypeOK, TableInv
<1>9. Sound(objects', up', owner', used')
  <2> SUFFICES ASSUME up, NEW x \in used', NEW y \in Nat \ {NoId}, Maps(objects', x, y)
               PROVE  y \in HostId /\ owner'[y] = x
    BY <1>4 DEF Sound
  <2>1. x \in GuestId
    BY <1>1, <1>4 DEF IInv, TypeOK
  <2>2. CASE x = g
    BY <1>1, <1>5, <1>7, <2>1, <2>2
  <2>3. CASE x # g
    BY <1>2, <1>4, <1>5, <1>7, <2>1, <2>3 DEF IInv, Sound
  <2>. QED BY <2>2, <2>3
<1>10. Private(objects', up', owner')
  <2> SUFFICES ASSUME up, NEW x \in GuestId, NEW y \in HostId, Maps(objects', x, y)
               PROVE  owner'[y] # Proxy
    BY <1>4 DEF Private
  <2>1. y \in Nat \ {NoId}
    BY IdRanges DEF NoId
  <2>2. CASE y = h
    BY <1>1, <1>7, <2>2, IdRanges DEF Proxy
  <2>3. CASE y # h
    BY <1>2, <1>5, <1>7, <2>1, <2>3 DEF IInv, Private
  <2>. QED BY <2>2, <2>3
<1>11. Free(objects', used')
  <2> SUFFICES ASSUME NEW x \in ClientGuestId \ used', NEW y \in Nat \ {NoId}, Maps(objects', x, y)
               PROVE  FALSE
    BY DEF Free
  <2>1. x \in GuestId /\ x # g /\ x \notin used
    BY <1>4 DEF GuestId
  <2>. QED BY <1>2, <1>5, <2>1 DEF IInv, Free
<1>12. Gapless'
  BY <1>4, <1>6 DEF IInv, Gapless
<1>. QED BY <1>4, <1>5, <1>8, <1>9, <1>10, <1>11, <1>12 DEF IInv

\* delete_id frees the one guest id the host id stands for, if any.
LEMMA DeleteIdStep ==
  ASSUME IInv, NEW h \in ClientHostId \ {1}, DeleteId(h)
  PROVE  IInv'
<1>1. /\ h \in HostId /\ h \in Nat \ {NoId} /\ up' = up /\ expected' = expected
      /\ owner' = [owner EXCEPT ![h] = Nothing] /\ TableInv(objects) /\ objects \in ShadowTableType
  BY IdRanges DEF DeleteId, HostId, NoId, IInv, TableInv
<1>2. \A y \in HostId : owner'[y] = IF y = h THEN Nothing ELSE owner[y]
  BY <1>1 DEF IInv, TypeOK
<1>3. owner' \in [HostId -> GuestId \cup {Nothing, Proxy, Orphan}] /\ expected' \in Nat
  BY <1>1 DEF IInv, TypeOK
<1>4. CASE guest_id(objects, h) = {} /\ UNCHANGED <<objects, used>>
  <2>1. \A x \in GuestId : ~Maps(objects, x, h)
    BY <1>1, <1>4, GuestIdIs
  <2>2. Sound(objects', up', owner', used')
    BY <1>1, <1>2, <1>4, <2>1 DEF IInv, TypeOK, Sound
  <2>3. Private(objects', up', owner')
    BY <1>1, <1>2, <1>4, <2>1 DEF IInv, Private
  <2>. QED BY <1>1, <1>3, <1>4, <2>2, <2>3 DEF IInv, TypeOK, Gapless, Free
<1>5. ASSUME NEW g \in guest_id(objects, h), objects' = remove_guest(objects, g), used' = used \ {g}
      PROVE  IInv'
  <2>1. g \in GuestId /\ Maps(objects, g, h)
    BY <1>1, <1>5, GuestIdIs
  <2>2. g # 1
    BY <1>1, <2>1 DEF TableInv, Maps
  <2>3. /\ TableInv(objects')
        /\ \A x \in GuestId, y \in Nat \ {NoId} : Maps(objects', x, y) <=> x # g /\ Maps(objects, x, y)
    BY <1>1, <1>5, <2>1, <2>2, RemoveKeeps
  <2>4. objects'.next_host_id = objects.next_host_id
    BY <1>1, <1>5, <2>1, RemoveIs
  <2>5. \A x \in GuestId : Maps(objects, x, h) => x = g
    BY <1>1, <2>1 DEF TableInv, Maps
  <2>6. TypeOK'
    BY <1>1, <1>3, <1>5, <2>3 DEF IInv, TypeOK, TableInv
  <2>7. Sound(objects', up', owner', used')
    <3> SUFFICES ASSUME up, NEW x \in used', NEW y \in Nat \ {NoId}, Maps(objects', x, y)
                 PROVE  y \in HostId /\ owner'[y] = x
      BY <1>1 DEF Sound
    <3>1. x \in GuestId /\ x \in used /\ Maps(objects, x, y) /\ y # h
      BY <1>5, <2>3, <2>5 DEF IInv, TypeOK
    <3>. QED BY <1>2, <3>1 DEF IInv, Sound
  <2>8. Private(objects', up', owner')
    <3> SUFFICES ASSUME up, NEW x \in GuestId, NEW y \in HostId, Maps(objects', x, y)
                 PROVE  owner'[y] # Proxy
      BY <1>1 DEF Private
    <3>1. Maps(objects, x, y) /\ y # h
      BY <2>3, <2>5, IdRanges DEF NoId
    <3>. QED BY <1>2, <3>1 DEF IInv, Private
  <2>9. Free(objects', used')
    <3> SUFFICES ASSUME NEW x \in ClientGuestId \ used', NEW y \in Nat \ {NoId}, Maps(objects', x, y)
                 PROVE  FALSE
      BY DEF Free
    <3>1. x \in GuestId /\ x # g /\ Maps(objects, x, y)
      BY <2>3 DEF GuestId
    <3>. QED BY <1>5, <3>1 DEF IInv, Free
  <2>10. 1 \in used' /\ Gapless'
    BY <1>1, <1>5, <2>2, <2>4 DEF IInv, Gapless
  <2>. QED BY <2>3, <2>6, <2>7, <2>8, <2>9, <2>10 DEF IInv
<1>. QED BY <1>4, <1>5 DEF DeleteId

\* The proxy answers the destructor of a stale object itself.
LEMMA SynthesizeStep ==
  ASSUME IInv, NEW g \in GuestId, SynthesizeDeleteId(g)
  PROVE  IInv'
<1>1. /\ g \in used \ {1} /\ g # 1 /\ TableInv(objects) /\ objects \in ShadowTableType
      /\ up' = up /\ expected' = expected /\ used' = used \ {g}
      /\ objects' = remove_guest(objects, g)
  BY DEF SynthesizeDeleteId, IInv, TableInv
<1>2. /\ TableInv(objects')
      /\ \A x \in GuestId, y \in Nat \ {NoId} : Maps(objects', x, y) <=> x # g /\ Maps(objects, x, y)
  BY <1>1, RemoveKeeps
<1>3. objects'.next_host_id = objects.next_host_id
  BY <1>1, RemoveIs
<1>4. \A y \in HostId : owner'[y] = IF owner[y] = g THEN Orphan ELSE owner[y]
  BY DEF SynthesizeDeleteId, GiveUp
<1>5. TypeOK'
  BY <1>1, <1>2 DEF IInv, TypeOK, TableInv, SynthesizeDeleteId, GiveUp
<1>6. Sound(objects', up', owner', used')
  <2> SUFFICES ASSUME up, NEW x \in used', NEW y \in Nat \ {NoId}, Maps(objects', x, y)
               PROVE  y \in HostId /\ owner'[y] = x
    BY <1>1 DEF Sound
  <2>1. x \in GuestId /\ x \in used /\ x # g /\ Maps(objects, x, y)
    BY <1>1, <1>2 DEF IInv, TypeOK
  <2>. QED BY <1>4, <2>1 DEF IInv, Sound
<1>7. Private(objects', up', owner')
  <2> SUFFICES ASSUME up, NEW x \in GuestId, NEW y \in HostId, Maps(objects', x, y)
               PROVE  owner'[y] # Proxy
    BY <1>1 DEF Private
  <2>1. Maps(objects, x, y)
    BY <1>2, IdRanges DEF NoId
  <2>. QED BY <1>4, <2>1 DEF IInv, Private, Orphan, Proxy
<1>8. Free(objects', used')
  <2> SUFFICES ASSUME NEW x \in ClientGuestId \ used', NEW y \in Nat \ {NoId}, Maps(objects', x, y)
               PROVE  FALSE
    BY DEF Free
  <2>1. x \in GuestId /\ x # g /\ Maps(objects, x, y)
    BY <1>2 DEF GuestId
  <2>. QED BY <1>1, <2>1 DEF IInv, Free
<1>. QED BY <1>1, <1>2, <1>3, <1>5, <1>6, <1>7, <1>8 DEF IInv, Gapless

\* The client gives up ids that are stale or server-allocated.
LEMMA ClientFreesStep ==
  ASSUME IInv, NEW S \in SUBSET used, ClientFrees(S)
  PROVE  IInv'
<1>1. /\ S \subseteq used \ {1} /\ used' = used \ S /\ S \subseteq GuestId /\ objects \in ShadowTableType
      /\ objects' = objects /\ up' = up /\ expected' = expected
      /\ \A g \in S : host_id(objects, g) = {} \/ g \in ServerGuestId
  BY DEF ClientFrees, IInv, TypeOK
<1>2. \A y \in HostId : owner'[y] = IF owner[y] \in S THEN Orphan ELSE owner[y]
  BY DEF ClientFrees, GiveUp
<1>3. TypeOK'
  BY <1>1 DEF IInv, TypeOK, ClientFrees, GiveUp
<1>4. Sound(objects', up', owner', used')
  BY <1>1, <1>2 DEF IInv, Sound
<1>5. Private(objects', up', owner')
  BY <1>1, <1>2 DEF IInv, Private, Orphan, Proxy
<1>6. Free(objects', used')
  <2> SUFFICES ASSUME NEW x \in ClientGuestId \ used', NEW y \in Nat \ {NoId}, Maps(objects, x, y)
               PROVE  FALSE
    BY <1>1 DEF Free
  <2>1. x \in GuestId /\ y \in host_id(objects, x)
    BY <1>1, HostIdIs DEF GuestId
  <2>. QED BY <1>1, <2>1, IdRanges DEF IInv, Free
<1>. QED BY <1>1, <1>3, <1>4, <1>5, <1>6 DEF IInv, Gapless

\* A server-range number becomes free on the compositor.
LEMMA ServerForgetsStep ==
  ASSUME IInv, NEW h \in ServerHostId, ServerForgets(h)
  PROVE  IInv'
<1>1. /\ owner[h] = Orphan /\ owner' = [owner EXCEPT ![h] = Nothing]
      /\ UNCHANGED <<objects, up, expected, used>>
  BY DEF ServerForgets
<1>2. \A y \in HostId : owner'[y] = IF y = h THEN Nothing ELSE owner[y]
  BY <1>1 DEF IInv, TypeOK
<1>3. TypeOK'
  BY <1>1 DEF IInv, TypeOK
<1>4. Sound(objects', up', owner', used')
  <2> SUFFICES ASSUME up, NEW x \in used, NEW y \in Nat \ {NoId}, Maps(objects, x, y)
               PROVE  y \in HostId /\ owner'[y] = x
    BY <1>1 DEF Sound
  <2>1. y \in HostId /\ owner[y] = x /\ x \in Nat
    BY IdRanges DEF IInv, Sound, TypeOK
  <2>. QED BY <1>1, <1>2, <2>1 DEF Orphan
<1>5. Private(objects', up', owner')
  BY <1>1, <1>2 DEF IInv, Private, Nothing, Proxy
<1>. QED BY <1>1, <1>3, <1>4, <1>5 DEF IInv, Gapless, Free

\* With the compositor dead, its side of the invariant says nothing.
LEMMA HostDiesStep == IInv /\ HostDies => IInv'
<1> SUFFICES ASSUME IInv, HostDies PROVE IInv'
  OBVIOUS
<1>1. up' = FALSE /\ UNCHANGED <<objects, owner, expected, used>>
  BY DEF HostDies
<1>2. TypeOK'
  BY <1>1 DEF IInv, TypeOK
<1>3. Gapless' /\ Sound(objects', up', owner', used') /\ Private(objects', up', owner')
  BY <1>1 DEF Gapless, Sound, Private
<1>. QED BY <1>1, <1>2, <1>3 DEF IInv, Free

\* bump_generation makes every earlier mapping stale.
LEMMA ReconnectStep ==
  ASSUME IInv, Reconnect
  PROVE  IInv'
<1>1. objects' = bump_generation(objects) /\ up' = TRUE /\ owner' = FreshHost /\ expected' = 2 /\ used' = used
  BY DEF Reconnect
<1>2. /\ TableInv(objects') /\ objects'.next_host_id = 2
      /\ \A x \in GuestId, y \in Nat : Maps(objects', x, y) => x = 1 /\ y = 1
  BY <1>1, BumpKeeps DEF IInv
<1>3. TypeOK'
  BY <1>1, <1>2, IdRanges DEF IInv, TypeOK, TableInv, FreshHost, Nothing
<1>4. Sound(objects', up', owner', used')
  BY <1>1, <1>2, IdRanges DEF IInv, TypeOK, Sound, FreshHost
<1>5. Private(objects', up', owner')
  BY <1>1, <1>2, IdRanges DEF Private, FreshHost, Proxy
<1>6. Free(objects', used')
  BY <1>1, <1>2 DEF IInv, Free, GuestId
<1>. QED BY <1>1, <1>2, <1>3, <1>4, <1>5, <1>6 DEF IInv, Gapless

\* Steps that change nothing.
LEMMA StutterStep == IInv /\ UNCHANGED vars => IInv'
BY DEF vars, IInv, TypeOK, Gapless, Sound, Private, Free

\* Every step keeps the invariant: one case per action.
LEMMA NextStep == IInv /\ [Next]_vars => IInv'
<1> SUFFICES ASSUME IInv, Next PROVE IInv'
  BY StutterStep
<1>1. CASE \E g \in ClientGuestId, i \in Interface : Create(g, i)
  BY <1>1, CreateStep
<1>2. CASE \E g \in ClientGuestId, i \in Interface : \E keeps \in BOOLEAN : CreateRejected(g, i, keeps)
  BY <1>2, RejectedStep
<1>3. CASE \E g \in ClientGuestId, i \in Interface : \E before, after \in 0..1 : Recreate(g, i, before, after)
  BY <1>3, RecreateStep
<1>4. CASE \E g \in ClientGuestId : CreateDropped(g)
  BY <1>4, DroppedStep
<1>5. CASE \E n \in 1..3 : CreatePrivate(n)
  BY <1>5, PrivateStep
<1>6. CASE \E h \in ServerHostId, i \in Interface : ServerCreate(h, i)
  BY <1>6, ServerCreateStep
<1>7. CASE \E h \in ClientHostId \ {1} : DeleteId(h)
  BY <1>7, DeleteIdStep
<1>8. CASE \E g \in GuestId : SynthesizeDeleteId(g)
  BY <1>8, SynthesizeStep
<1>9. CASE \E S \in SUBSET used : ClientFrees(S)
  BY <1>9, ClientFreesStep
<1>10. CASE \E h \in ServerHostId : ServerForgets(h)
  BY <1>10, ServerForgetsStep
<1>11. CASE HostDies
  BY <1>11, HostDiesStep
<1>12. CASE Reconnect
  BY <1>12, ReconnectStep
<1>. QED BY <1>1, <1>2, <1>3, <1>4, <1>5, <1>6, <1>7, <1>8, <1>9, <1>10, <1>11, <1>12 DEF Next

-----------------------------------------------------------------------------
\* What the invariant means.

\* The invariant implies the properties it was made for.
LEMMA Meaning == IInv => TranslationSound /\ PrivateUntracked /\ FreeIdsUntranslatable
<1> SUFFICES ASSUME IInv PROVE TranslationSound /\ PrivateUntracked /\ FreeIdsUntranslatable
  OBVIOUS
<1>1. objects \in ShadowTableType /\ used \subseteq GuestId
  BY DEF IInv, TypeOK
<1>2. \A g \in GuestId : \A h \in host_id(objects, g) : h \in Nat \ {NoId} /\ Maps(objects, g, h)
  BY <1>1, HostIdIs DEF Maps, ShadowTableType, NoId
<1>3. TranslationSound
  BY <1>1, <1>2 DEF IInv, Sound, TranslationSound
<1>4. PrivateUntracked
  BY <1>1, GuestIdIs DEF IInv, Private, PrivateUntracked
<1>5. FreeIdsUntranslatable
  <2> SUFFICES ASSUME NEW g \in ClientGuestId \ used, NEW h \in host_id(objects, g) PROVE FALSE
    BY DEF FreeIdsUntranslatable
  <2>. QED BY <1>2 DEF IInv, Free, GuestId
<1>. QED BY <1>3, <1>4, <1>5

(***************************************************************************)
(* The invariant holds of every connection.                                *)
(***************************************************************************)
THEOREM Invariance == Spec => []IInv
BY InitStep, NextStep, PTL DEF Spec

(***************************************************************************)
(* The shadow table and the ids it knows keep their types.                 *)
(***************************************************************************)
THEOREM TypeCorrect == Spec => []TypeOK
<1>1. IInv => TypeOK
  BY DEF IInv
<1>. QED BY <1>1, Invariance, PTL

(***************************************************************************)
(* Whatever host_id (src/shadow_table.rs) translates is, on the current    *)
(* connection, the object the client means.                                *)
(***************************************************************************)
THEOREM TranslationIsSound == Spec => []TranslationSound
BY Meaning, Invariance, PTL

(***************************************************************************)
(* allocate_host_id never leaves a gap the compositor would object to.     *)
(***************************************************************************)
THEOREM NeverAGap == Spec => []Gapless
<1>1. IInv => Gapless
  BY DEF IInv
<1>. QED BY <1>1, Invariance, PTL

(***************************************************************************)
(* Events of the objects the proxy makes for itself are dropped: guest_id  *)
(* finds nothing for them.                                                 *)
(***************************************************************************)
THEOREM OwnObjectsAreUntracked == Spec => []PrivateUntracked
BY Meaning, Invariance, PTL

(***************************************************************************)
(* After delete_id, real or synthesized, remove_guest has left nothing     *)
(* under which the id's next object could be taken for the last one.       *)
(***************************************************************************)
THEOREM FreedIdsAreForgotten == Spec => []FreeIdsUntranslatable
BY Meaning, Invariance, PTL
=============================================================================
