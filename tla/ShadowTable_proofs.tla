------------------------- MODULE ShadowTable_proofs -------------------------
(***************************************************************************)
(* What the operations of the shadow table do to any table the proxy can   *)
(* have: the lemmas the proofs about IdTranslation and Connection share.   *)
(***************************************************************************)
EXTENDS ShadowTable, TLAPS

\* A mapping that host_id would use.
Maps(t, g, h) == t.guest_to_host[g] = h /\ t.mapped_in_generation[g] = t.generation

(***************************************************************************)
(* What is true of every table the proxy has, whoever is at the other end. *)
(***************************************************************************)
TableInv(t) ==
  /\ t \in ShadowTableType
  /\ t.next_host_id >= 2
  /\ t.guest_to_host[1] = 1
  /\ \A x, y \in GuestId : t.guest_to_host[x] = t.guest_to_host[y] /\ t.guest_to_host[x] # NoId => x = y
  /\ \A x \in GuestId : t.mapped_in_generation[x] <= t.generation
  /\ \A x \in GuestId, h \in ClientHostId : Maps(t, x, h) => h < t.next_host_id

-----------------------------------------------------------------------------
\* Ids.

\* Ids are positive naturals, 1 is one of them, and the two ranges are disjoint.
LEMMA IdRanges ==
  /\ 1 \in GuestId /\ \A g \in GuestId : g \in Nat /\ g # 0
  /\ 1 \in HostId /\ \A h \in HostId : h \in Nat /\ h # 0
  /\ ClientGuestId \cap ServerGuestId = {}
  /\ ClientHostId \cap ServerHostId = {}
<1>1. 1 \in GuestId /\ \A g \in GuestId : g \in Nat /\ g # 0
  <2>1. \A g \in ClientGuestId : g \in 1..(ServerBase - 1)
    BY ClientGuestIdAssumption
  <2>. QED BY <2>1, ServerBaseAssumption, ClientGuestIdAssumption, ServerGuestIdAssumption DEF GuestId
<1>2. 1 \in HostId /\ \A h \in HostId : h \in Nat /\ h # 0
  <2>1. \A h \in ClientHostId : h \in 1..(ServerBase - 1)
    BY ClientHostIdAssumption
  <2>. QED BY <2>1, ServerBaseAssumption, ClientHostIdAssumption, ServerHostIdAssumption DEF HostId
<1>3. ClientGuestId \cap ServerGuestId = {}
  BY ServerBaseAssumption, ClientGuestIdAssumption, ServerGuestIdAssumption
<1>4. ClientHostId \cap ServerHostId = {}
  BY ServerBaseAssumption, ClientHostIdAssumption, ServerHostIdAssumption
<1>. QED BY <1>1, <1>2, <1>3, <1>4

\* host_id (src/shadow_table.rs) finds exactly the current mappings of an id.
LEMMA HostIdIs ==
  ASSUME NEW t \in ShadowTableType, NEW g \in GuestId
  PROVE  \A h : h \in host_id(t, g) <=> Maps(t, g, h) /\ h # NoId
BY IdRanges DEF host_id, is_current_generation, Maps, NoId

\* guest_id finds the ids whose current mapping is the host id asked for.
LEMMA GuestIdIs ==
  ASSUME NEW t \in ShadowTableType, NEW h \in HostId
  PROVE  \A g : g \in guest_id(t, h) <=> g \in GuestId /\ Maps(t, g, h)
BY IdRanges DEF guest_id, is_current_generation, Maps

-----------------------------------------------------------------------------
\* What the operations of the table do to it.

\* map changes three fields and keeps the counters.
LEMMA MapIs ==
  ASSUME NEW t \in ShadowTableType, NEW g \in GuestId, NEW h \in Nat, NEW i \in Interface
  PROVE  /\ map(t, g, h, i) \in ShadowTableType
         /\ map(t, g, h, i).generation = t.generation
         /\ map(t, g, h, i).next_host_id = t.next_host_id
         /\ map(t, g, h, i).guest_to_host = BiMapInsert(t.guest_to_host, g, h)
         /\ map(t, g, h, i).mapped_in_generation = [t.mapped_in_generation EXCEPT ![g] = t.generation]
BY DEF map, BiMapInsert, ShadowTableType, NoId

\* allocate_host_id moves one counter and nothing else.
LEMMA AllocateIs ==
  ASSUME NEW t \in ShadowTableType, NEW n \in Nat
  PROVE  /\ allocate_host_ids(t, n) \in ShadowTableType
         /\ allocate_host_ids(t, n).generation = t.generation
         /\ allocate_host_ids(t, n).next_host_id = t.next_host_id + n
         /\ allocate_host_ids(t, n).guest_to_host = t.guest_to_host
         /\ allocate_host_ids(t, n).mapped_in_generation = t.mapped_in_generation
BY DEF allocate_host_ids, ShadowTableType

\* remove_guest clears the three entries of one id.
LEMMA RemoveIs ==
  ASSUME NEW t \in ShadowTableType, NEW g \in GuestId
  PROVE  /\ remove_guest(t, g) \in ShadowTableType
         /\ remove_guest(t, g).generation = t.generation
         /\ remove_guest(t, g).next_host_id = t.next_host_id
         /\ remove_guest(t, g).guest_to_host = [t.guest_to_host EXCEPT ![g] = NoId]
         /\ remove_guest(t, g).mapped_in_generation = [t.mapped_in_generation EXCEPT ![g] = NoGeneration]
BY DEF remove_guest, ShadowTableType, NoId, NoInterface, NoGeneration

\* What the operations do to the interfaces.
LEMMA MapInterfaces ==
  ASSUME NEW t \in ShadowTableType, NEW g \in GuestId, NEW h \in Nat, NEW i \in Interface
  PROVE  map(t, g, h, i).interfaces = [t.interfaces EXCEPT ![g] = i]
BY DEF map, ShadowTableType

LEMMA RemoveInterfaces ==
  ASSUME NEW t \in ShadowTableType, NEW g \in GuestId
  PROVE  remove_guest(t, g).interfaces = [t.interfaces EXCEPT ![g] = NoInterface]
BY DEF remove_guest, ShadowTableType

LEMMA AllocateInterfaces ==
  ASSUME NEW t \in ShadowTableType, NEW n \in Nat
  PROVE  allocate_host_ids(t, n).interfaces = t.interfaces
BY DEF allocate_host_ids, ShadowTableType

LEMMA OtherInterfaces ==
  ASSUME NEW t \in ShadowTableType
  PROVE  /\ allocate_guest_server_id(t).interfaces = t.interfaces
         /\ bump_generation(t).interfaces = [t.interfaces EXCEPT ![1] = "wl_display"]
         /\ \A h \in Nat : unallocate_host_id(t, h).interfaces = t.interfaces
BY DEF allocate_guest_server_id, bump_generation, unallocate_host_id, map, ShadowTableType

\* map adds one current mapping and evicts the others of the same host id.
LEMMA MapKeeps ==
  ASSUME NEW t, TableInv(t), NEW g \in GuestId \ {1}, NEW h \in Nat, NEW i \in Interface,
         h >= 2, h \in ClientHostId => h < t.next_host_id
  PROVE  /\ TableInv(map(t, g, h, i))
         /\ map(t, g, h, i).next_host_id = t.next_host_id
         /\ \A x \in GuestId, y \in Nat \ {NoId} :
              Maps(map(t, g, h, i), x, y) <=> IF x = g THEN y = h ELSE Maps(t, x, y) /\ y # h
<1> DEFINE u == map(t, g, h, i)
<1>1. t \in ShadowTableType
  BY DEF TableInv
<1>2. /\ u \in ShadowTableType /\ u.generation = t.generation /\ u.next_host_id = t.next_host_id
      /\ u.guest_to_host = BiMapInsert(t.guest_to_host, g, h)
      /\ u.mapped_in_generation = [t.mapped_in_generation EXCEPT ![g] = t.generation]
  BY <1>1, MapIs
<1>3. \A x \in GuestId :
        /\ u.guest_to_host[x] = IF x = g THEN h ELSE IF t.guest_to_host[x] = h THEN NoId ELSE t.guest_to_host[x]
        /\ u.mapped_in_generation[x] = IF x = g THEN t.generation ELSE t.mapped_in_generation[x]
  BY <1>1, <1>2 DEF BiMapInsert, ShadowTableType
<1> HIDE DEF u
<1>4. \A x \in GuestId, y \in Nat \ {NoId} :
        Maps(u, x, y) <=> IF x = g THEN y = h ELSE Maps(t, x, y) /\ y # h
  BY <1>2, <1>3 DEF Maps, NoId
<1>5. \A x \in GuestId, y \in ClientHostId : Maps(u, x, y) => y < u.next_host_id
  BY <1>2, <1>4, IdRanges DEF TableInv, HostId, NoId
<1>6. \A x, y \in GuestId : u.guest_to_host[x] = u.guest_to_host[y] /\ u.guest_to_host[x] # NoId => x = y
  BY <1>3 DEF TableInv
<1>7. u.guest_to_host[1] = 1 /\ \A x \in GuestId : u.mapped_in_generation[x] <= u.generation
  BY <1>1, <1>2, <1>3, IdRanges DEF TableInv, ShadowTableType
<1>8. TableInv(u)
  BY <1>2, <1>5, <1>6, <1>7 DEF TableInv
<1>. QED BY <1>2, <1>4, <1>8 DEF u

\* Allocating host ids leaves every mapping as it is.
LEMMA AllocateKeeps ==
  ASSUME NEW t, TableInv(t), NEW n \in Nat
  PROVE  /\ TableInv(allocate_host_ids(t, n))
         /\ \A x, y : Maps(allocate_host_ids(t, n), x, y) <=> Maps(t, x, y)
<1> DEFINE u == allocate_host_ids(t, n)
<1>1. t \in ShadowTableType /\ t.next_host_id \in Nat
  BY DEF TableInv, ShadowTableType
<1>2. /\ u \in ShadowTableType /\ u.generation = t.generation /\ u.next_host_id = t.next_host_id + n
      /\ u.guest_to_host = t.guest_to_host /\ u.mapped_in_generation = t.mapped_in_generation
  BY <1>1, AllocateIs
<1> HIDE DEF u
<1>3. \A x, y : Maps(u, x, y) <=> Maps(t, x, y)
  BY <1>2 DEF Maps
<1>4. \A x \in GuestId, y \in ClientHostId : Maps(u, x, y) => y < u.next_host_id
  BY <1>1, <1>2, <1>3, IdRanges DEF TableInv, HostId
<1>5. TableInv(u)
  BY <1>1, <1>2, <1>4 DEF TableInv
<1>. QED BY <1>3, <1>5 DEF u

\* Allocating a server-range guest id leaves every mapping as it is.
LEMMA AllocateServerKeeps ==
  ASSUME NEW t, TableInv(t)
  PROVE  /\ TableInv(allocate_guest_server_id(t))
         /\ allocate_guest_server_id(t).next_host_id = t.next_host_id
         /\ \A x, y : Maps(allocate_guest_server_id(t), x, y) <=> Maps(t, x, y)
<1> DEFINE u == allocate_guest_server_id(t)
<1>1. t \in ShadowTableType
  BY DEF TableInv
<1>2. /\ u \in ShadowTableType /\ u.generation = t.generation /\ u.next_host_id = t.next_host_id
      /\ u.guest_to_host = t.guest_to_host /\ u.mapped_in_generation = t.mapped_in_generation
  BY <1>1 DEF allocate_guest_server_id, ShadowTableType
<1> HIDE DEF u
<1>3. \A x, y : Maps(u, x, y) <=> Maps(t, x, y)
  BY <1>2 DEF Maps
<1>4. TableInv(u)
  BY <1>2, <1>3 DEF TableInv
<1>. QED BY <1>2, <1>3, <1>4 DEF u

\* remove_guest loses the mappings of one id and no other.
LEMMA RemoveKeeps ==
  ASSUME NEW t, TableInv(t), NEW g \in GuestId \ {1}
  PROVE  /\ TableInv(remove_guest(t, g))
         /\ \A x \in GuestId, y \in Nat \ {NoId} :
              Maps(remove_guest(t, g), x, y) <=> x # g /\ Maps(t, x, y)
<1> DEFINE u == remove_guest(t, g)
<1>1. t \in ShadowTableType
  BY DEF TableInv
<1>2. /\ u \in ShadowTableType /\ u.generation = t.generation /\ u.next_host_id = t.next_host_id
      /\ u.guest_to_host = [t.guest_to_host EXCEPT ![g] = NoId]
      /\ u.mapped_in_generation = [t.mapped_in_generation EXCEPT ![g] = NoGeneration]
  BY <1>1, RemoveIs
<1>3. \A x \in GuestId :
        /\ u.guest_to_host[x] = IF x = g THEN NoId ELSE t.guest_to_host[x]
        /\ u.mapped_in_generation[x] = IF x = g THEN NoGeneration ELSE t.mapped_in_generation[x]
  BY <1>1, <1>2 DEF ShadowTableType
<1> HIDE DEF u
<1>4. \A x \in GuestId, y \in Nat \ {NoId} : Maps(u, x, y) <=> x # g /\ Maps(t, x, y)
  BY <1>2, <1>3 DEF Maps, NoId
<1>5. \A x \in GuestId, y \in ClientHostId : Maps(u, x, y) => y < u.next_host_id
  BY <1>2, <1>4, IdRanges DEF TableInv, HostId, NoId
<1>6. \A x, y \in GuestId : u.guest_to_host[x] = u.guest_to_host[y] /\ u.guest_to_host[x] # NoId => x = y
  BY <1>3 DEF TableInv
<1>7. u.guest_to_host[1] = 1 /\ \A x \in GuestId : u.mapped_in_generation[x] <= u.generation
  BY <1>1, <1>2, <1>3, IdRanges DEF TableInv, ShadowTableType, NoGeneration
<1>8. TableInv(u)
  BY <1>2, <1>5, <1>6, <1>7 DEF TableInv
<1>. QED BY <1>4, <1>8 DEF u

\* A refused new_id: mapped, then unmapped and its host id given back.
LEMMA RejectKeeps ==
  ASSUME NEW t, TableInv(t), NEW g \in GuestId \ {1}, NEW i \in Interface
  PROVE  LET h == t.next_host_id
             r == remove_guest(unallocate_host_id(map(allocate_host_id(t), g, h, i), h), g)
         IN /\ TableInv(r)
            /\ r.next_host_id = h
            /\ \A x \in GuestId, y \in Nat \ {NoId} : Maps(r, x, y) => x # g /\ Maps(t, x, y)
<1> DEFINE h == t.next_host_id
           a == allocate_host_id(t)
           m == map(a, g, h, i)
           f == unallocate_host_id(m, h)
           r == remove_guest(f, g)
<1>1. t \in ShadowTableType /\ h \in Nat /\ h >= 2
  BY DEF TableInv, ShadowTableType
<1>2. /\ a \in ShadowTableType /\ a.generation = t.generation /\ a.next_host_id = h + 1
      /\ a.guest_to_host = t.guest_to_host /\ a.mapped_in_generation = t.mapped_in_generation
  BY <1>1, AllocateIs DEF allocate_host_id
<1> HIDE DEF a
<1>3. /\ m \in ShadowTableType /\ m.generation = t.generation /\ m.next_host_id = h + 1
      /\ m.guest_to_host = BiMapInsert(t.guest_to_host, g, h)
      /\ m.mapped_in_generation = [t.mapped_in_generation EXCEPT ![g] = t.generation]
  BY <1>1, <1>2, MapIs
<1> HIDE DEF m
<1>4. /\ f \in ShadowTableType /\ f.generation = t.generation /\ f.next_host_id = h
      /\ f.guest_to_host = m.guest_to_host /\ f.mapped_in_generation = m.mapped_in_generation
  BY <1>1, <1>3 DEF unallocate_host_id, ShadowTableType
<1> HIDE DEF f
<1>5. /\ r \in ShadowTableType /\ r.generation = t.generation /\ r.next_host_id = h
      /\ r.guest_to_host = [f.guest_to_host EXCEPT ![g] = NoId]
      /\ r.mapped_in_generation = [f.mapped_in_generation EXCEPT ![g] = NoGeneration]
  BY <1>4, RemoveIs
<1> HIDE DEF r
<1>6. \A x \in GuestId :
        /\ r.guest_to_host[x] = IF x = g \/ t.guest_to_host[x] = h THEN NoId ELSE t.guest_to_host[x]
        /\ r.mapped_in_generation[x] = IF x = g THEN NoGeneration ELSE t.mapped_in_generation[x]
  BY <1>1, <1>3, <1>4, <1>5 DEF BiMapInsert, ShadowTableType
<1>7. \A x \in GuestId, y \in Nat \ {NoId} : Maps(r, x, y) => x # g /\ Maps(t, x, y)
  BY <1>5, <1>6 DEF Maps, NoId
<1>8. \A x \in GuestId, y \in ClientHostId : Maps(r, x, y) => y < r.next_host_id
  BY <1>5, <1>7, IdRanges DEF TableInv, HostId, NoId
<1>9. \A x, y \in GuestId : r.guest_to_host[x] = r.guest_to_host[y] /\ r.guest_to_host[x] # NoId => x = y
  BY <1>6 DEF TableInv
<1>10. r.guest_to_host[1] = 1 /\ \A x \in GuestId : r.mapped_in_generation[x] <= r.generation
  BY <1>1, <1>5, <1>6, IdRanges DEF TableInv, ShadowTableType, NoGeneration
<1>11. TableInv(r)
  BY <1>1, <1>5, <1>8, <1>9, <1>10 DEF TableInv
<1>. QED BY <1>5, <1>7, <1>11 DEF r, f, m, a

\* The table of a fresh connection knows the display and nothing else.
LEMMA BumpKeeps ==
  ASSUME NEW t, TableInv(t)
  PROVE  /\ TableInv(bump_generation(t))
         /\ bump_generation(t).next_host_id = 2
         /\ bump_generation(t).generation = t.generation + 1
         /\ \A x \in GuestId, y \in Nat : Maps(bump_generation(t), x, y) => x = 1 /\ y = 1
<1> DEFINE b == [t EXCEPT !.generation = @ + 1, !.next_host_id = 2]
           u == map(b, 1, 1, "wl_display")
<1>1. t \in ShadowTableType /\ t.generation \in Nat
  BY DEF TableInv, ShadowTableType
<1>2. /\ b \in ShadowTableType /\ b.generation = t.generation + 1 /\ b.next_host_id = 2
      /\ b.guest_to_host = t.guest_to_host /\ b.mapped_in_generation = t.mapped_in_generation
  <2> DEFINE c == [t EXCEPT !.generation = t.generation + 1]
  <2>1. c \in ShadowTableType /\ c.generation = t.generation + 1
    BY <1>1 DEF ShadowTableType
  <2>2. c.guest_to_host = t.guest_to_host /\ c.mapped_in_generation = t.mapped_in_generation
    BY <1>1 DEF ShadowTableType
  <2>3. b = [c EXCEPT !.next_host_id = 2]
    OBVIOUS
  <2> HIDE DEF b, c
  <2>. QED BY <2>1, <2>2, <2>3 DEF ShadowTableType
<1> HIDE DEF b
<1>3. /\ u \in ShadowTableType /\ u.generation = t.generation + 1 /\ u.next_host_id = 2
      /\ u.guest_to_host = BiMapInsert(t.guest_to_host, 1, 1)
      /\ u.mapped_in_generation = [t.mapped_in_generation EXCEPT ![1] = t.generation + 1]
  BY <1>2, MapIs, IdRanges, InterfaceAssumption
<1>4. \A x \in GuestId :
        /\ u.guest_to_host[x] = IF x = 1 THEN 1 ELSE IF t.guest_to_host[x] = 1 THEN NoId ELSE t.guest_to_host[x]
        /\ u.mapped_in_generation[x] = IF x = 1 THEN t.generation + 1 ELSE t.mapped_in_generation[x]
  BY <1>1, <1>3 DEF BiMapInsert, ShadowTableType
<1> HIDE DEF u
<1>5. \A x \in GuestId : t.mapped_in_generation[x] <= t.generation /\ t.mapped_in_generation[x] \in Int
  BY <1>1 DEF TableInv, ShadowTableType, NoGeneration
<1>6. \A x \in GuestId, y \in Nat : Maps(u, x, y) => x = 1 /\ y = 1
  BY <1>1, <1>3, <1>4, <1>5 DEF Maps
<1>7. \A x, y \in GuestId : u.guest_to_host[x] = u.guest_to_host[y] /\ u.guest_to_host[x] # NoId => x = y
  BY <1>4 DEF TableInv
<1>8. u.guest_to_host[1] = 1 /\ \A x \in GuestId : u.mapped_in_generation[x] <= u.generation
  BY <1>1, <1>3, <1>4, <1>5, IdRanges
<1>9. \A x \in GuestId, y \in ClientHostId : Maps(u, x, y) => y < u.next_host_id
  BY <1>3, <1>6, IdRanges DEF HostId
<1>10. TableInv(u)
  BY <1>3, <1>7, <1>8, <1>9 DEF TableInv
<1>11. bump_generation(t) = u
  BY DEF bump_generation, u, b
<1>. QED BY <1>3, <1>6, <1>10, <1>11

\* The first table knows the display and nothing else.
LEMMA NewTable ==
  /\ TableInv(new_table)
  /\ new_table.next_host_id = 2
  /\ \A x \in GuestId, y \in Nat \ {NoId} : Maps(new_table, x, y) => x = 1 /\ y = 1
<1> DEFINE e == [ guest_to_host        |-> [g \in GuestId |-> NoId],
                  interfaces           |-> [g \in GuestId |-> NoInterface],
                  mapped_in_generation |-> [g \in GuestId |-> NoGeneration],
                  generation           |-> 0,
                  next_host_id         |-> 2,
                  next_guest_server_id |-> ServerBase ]
           u == map(e, 1, 1, "wl_display")
<1>1. e \in ShadowTableType
  BY ServerBaseAssumption DEF ShadowTableType, NoId, NoInterface, NoGeneration
<1>2. /\ u \in ShadowTableType /\ u.generation = 0 /\ u.next_host_id = 2
      /\ u.guest_to_host = BiMapInsert(e.guest_to_host, 1, 1)
      /\ u.mapped_in_generation = [e.mapped_in_generation EXCEPT ![1] = 0]
  BY <1>1, MapIs, IdRanges, InterfaceAssumption
<1>3. \A x \in GuestId :
        /\ u.guest_to_host[x] = IF x = 1 THEN 1 ELSE NoId
        /\ u.mapped_in_generation[x] = IF x = 1 THEN 0 ELSE NoGeneration
  BY <1>2 DEF BiMapInsert, NoId
<1>4. new_table = u
  BY DEF new_table
<1> HIDE DEF u
<1>5. \A x \in GuestId, y \in Nat \ {NoId} : Maps(u, x, y) => x = 1 /\ y = 1
  BY <1>3 DEF Maps, NoId
<1>6. \A x, y \in GuestId : u.guest_to_host[x] = u.guest_to_host[y] /\ u.guest_to_host[x] # NoId => x = y
  BY <1>3
<1>7. u.guest_to_host[1] = 1 /\ \A x \in GuestId : u.mapped_in_generation[x] <= u.generation
  BY <1>2, <1>3, IdRanges DEF NoGeneration
<1>8. \A x \in GuestId, y \in ClientHostId : Maps(u, x, y) => y < u.next_host_id
  BY <1>2, <1>5, IdRanges DEF HostId, NoId
<1>9. TableInv(u)
  BY <1>2, <1>6, <1>7, <1>8 DEF TableInv
<1>. QED BY <1>2, <1>4, <1>5, <1>9
=============================================================================
