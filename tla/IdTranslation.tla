--------------------------- MODULE IdTranslation ---------------------------
(***************************************************************************)
(* What the proxy promises about ids, stripped of everything else: every   *)
(* way a message, a crash, a reconnect or a replayed recipe changes the    *)
(* shadow table, next to what the compositor at the other end of the       *)
(* current connection really holds and to the ids the client is using.     *)
(* The module Connection is a refinement of this one.                      *)
(*                                                                         *)
(* A message to the compositor has an effect there only while up holds.    *)
(* ClientHostId bounds the ids one connection can hand out: an action that *)
(* would allocate past it is disabled.                                     *)
(***************************************************************************)
EXTENDS ShadowTable

CONSTANT
  MaxGeneration  \* bound on the number of reconnects

ASSUME MaxGenerationAssumption == MaxGeneration \in Nat

VARIABLES
  objects,   \* the proxy's shadow table
  up,        \* the compositor of the current connection is still processing
  owner,     \* owner[h]: whom the compositor's object h was created for
  expected,  \* the next client-range id the compositor accepts
  used       \* the guest ids the client holds (not yet told they are free)

vars == <<objects, up, owner, expected, used>>

Nothing == 0    \* the compositor has no object of this number
Proxy == -1     \* created by the proxy for itself, never shown to the client
Orphan == -2    \* created for a guest id the client has since given up

FreshHost == [h \in HostId |-> IF h = 1 THEN 1 ELSE Nothing]

Init ==
  /\ objects = new_table
  /\ up = TRUE
  /\ owner = FreshHost
  /\ expected = 2
  /\ used = {1}

-----------------------------------------------------------------------------
RoomFor(n) == objects.next_host_id..(objects.next_host_id + n - 1) \subseteq ClientHostId

\* The compositor processes n new_ids starting at next_host_id; the one of
\* number h is for guest g, the others are the proxy's own.
Announce(n, h, g) ==
  /\ owner' = IF up
              THEN [x \in HostId |->
                      IF x \in objects.next_host_id..(objects.next_host_id + n - 1)
                      THEN IF x = h THEN g ELSE Proxy
                      ELSE owner[x]]
              ELSE owner
  /\ expected' = IF up THEN expected + n ELSE expected

GiveUp(S) == owner' = [h \in HostId |-> IF owner[h] \in S THEN Orphan ELSE owner[h]]

-----------------------------------------------------------------------------
\* A request with a new_id that the proxy tracks and passes on.
Create(g, iface) ==
  /\ UNCHANGED up
  /\ g \notin used
  /\ used' = used \cup {g}
  /\ RoomFor(1)
  /\ objects' = map(allocate_host_id(objects), g, objects.next_host_id, iface)
  /\ Announce(1, objects.next_host_id, g)

\* A request with a new_id that is dropped because its own sender is stale:
\* the mapping made for the new_id is rolled back.  keeps says whether the
\* client is left holding the id or was told at once that it is free.
CreateRejected(g, iface, keeps) ==
  LET h == objects.next_host_id
      mapped == map(allocate_host_id(objects), g, h, iface)
  IN /\ g \notin used
     /\ used' = IF keeps THEN used \cup {g} ELSE used
     /\ UNCHANGED <<up, owner, expected>>
     /\ objects' = remove_guest(unallocate_host_id(mapped, h), g)

\* A request with a new_id that is dropped before the new_id is looked at.
CreateDropped(g) ==
  /\ g \notin used
  /\ used' = used \cup {g}
  /\ UNCHANGED <<objects, up, owner, expected>>

\* Recovery recreates an object the client still holds, using before ids of
\* its own first and after ids of its own afterwards.
Recreate(g, iface, before, after) ==
  LET h == objects.next_host_id + before
      n == before + 1 + after
  IN /\ g \in used \ {1}
     /\ UNCHANGED <<up, used>>
     /\ RoomFor(n)
     /\ objects' = map(allocate_host_ids(objects, n), g, h, iface)
     /\ Announce(n, h, g)

\* The proxy creates n objects of its own, or fails to on a dead connection.
CreatePrivate(n) ==
  /\ RoomFor(n)
  /\ objects' = allocate_host_ids(objects, n)
  /\ Announce(n, Nothing, Nothing)
  /\ UNCHANGED <<up, used>>

\* An event with a new_id: the compositor created object h.
ServerCreate(h, iface) ==
  LET g == objects.next_guest_server_id
  IN /\ owner[h] = Nothing
     /\ g \in ServerGuestId
     /\ objects' = map(allocate_guest_server_id(objects), g, h, iface)
     /\ owner' = [owner EXCEPT ![h] = g]
     /\ used' = used \cup {g}
     /\ UNCHANGED <<up, expected>>

\* wl_display.delete_id: relayed when the id is tracked, dropped otherwise.
DeleteId(h) ==
  /\ owner[h] # Nothing
  /\ owner' = [owner EXCEPT ![h] = Nothing]
  /\ \/ /\ guest_id(objects, h) = {}
        /\ UNCHANGED <<objects, used>>
     \/ \E g \in guest_id(objects, h) :
          /\ objects' = remove_guest(objects, g)
          /\ used' = used \ {g}
  /\ UNCHANGED <<up, expected>>

\* A destructor on a stale object: the proxy answers with its own delete_id.
SynthesizeDeleteId(g) ==
  /\ g \in used \ {1}
  /\ host_id(objects, g) = {}
  /\ objects' = remove_guest(objects, g)
  /\ used' = used \ {g}
  /\ GiveUp({g})
  /\ UNCHANGED <<up, expected>>

\* The client gives up ids whose table entries stay behind: callbacks answered
\* by recovery, and server-created objects (which get no delete_id).
ClientFrees(S) ==
  /\ S \subseteq used \ {1}
  /\ used' = used \ S
  /\ UNCHANGED <<objects, up, expected>>
  /\ \A g \in S : host_id(objects, g) = {} \/ g \in ServerGuestId
  /\ GiveUp(S)

\* The compositor forgets a server-created object the client has destroyed.
ServerForgets(h) ==
  /\ owner[h] = Orphan
  /\ owner' = [owner EXCEPT ![h] = Nothing]
  /\ UNCHANGED <<objects, up, expected, used>>

HostDies ==
  /\ up
  /\ up' = FALSE
  /\ UNCHANGED <<objects, owner, expected, used>>

Reconnect ==
  /\ ~up
  /\ objects.generation < MaxGeneration
  /\ objects' = bump_generation(objects)
  /\ up' = TRUE
  /\ owner' = FreshHost
  /\ expected' = 2
  /\ UNCHANGED used

Next ==
  \/ /\ UNCHANGED <<objects, up, expected>>
     /\ \E S \in SUBSET used : ClientFrees(S)
  \/ HostDies
  \/ Reconnect
  \/ \E h \in ClientHostId \ {1} : DeleteId(h)
  \/ \E h \in ServerHostId : ServerForgets(h)
  \/ \E h \in ServerHostId, i \in Interface : ServerCreate(h, i)
  \/ \E n \in 1..3 : CreatePrivate(n)
  \/ \E g \in GuestId : SynthesizeDeleteId(g)
  \/ \E g \in ClientGuestId : CreateDropped(g)
  \/ \E g \in ClientGuestId, i \in Interface :
       \/ Create(g, i)
       \/ \E keeps \in BOOLEAN : CreateRejected(g, i, keeps)
       \/ \E before, after \in 0..1 : Recreate(g, i, before, after)

Spec == Init /\ [][Next]_vars

-----------------------------------------------------------------------------
(***************************************************************************)
(* The table's maps (src/shadow_table.rs) only ever hold ids, interfaces   *)
(* and generations, and the compositor's objects have known owners.        *)
(***************************************************************************)
TypeOK ==
  /\ objects \in ShadowTableType
  /\ up \in BOOLEAN
  /\ owner \in [HostId -> GuestId \cup {Nothing, Proxy, Orphan}]
  /\ expected \in Nat
  /\ used \subseteq GuestId

(***************************************************************************)
(* Every id the proxy puts in a message names the object that was meant:   *)
(* whenever host_id translates an id the client holds, the compositor's    *)
(* object of that number was created for that id in its present life.      *)
(* This is what the generation check of host_id and guest_id is for.       *)
(***************************************************************************)
TranslationSound ==
  up => \A g \in used : \A h \in host_id(objects, g) : h \in HostId /\ owner[h] = g

(***************************************************************************)
(* The next id the proxy allocates is the one the compositor expects: a    *)
(* real compositor kills the connection on the first gap (the reason       *)
(* unallocate_host_id exists, and for the reset in bump_generation).       *)
(***************************************************************************)
Gapless == up => objects.next_host_id = expected

(***************************************************************************)
(* An object the proxy created for itself never translates to a guest id,  *)
(* so neither its events nor its delete_id can reach the client.           *)
(***************************************************************************)
PrivateUntracked ==
  up => \A h \in HostId : owner[h] = Proxy => guest_id(objects, h) = {}

(***************************************************************************)
(* An id the client may allocate next is not translatable: whatever the    *)
(* client creates under it cannot inherit an earlier object's identity.    *)
(***************************************************************************)
FreeIdsUntranslatable == \A g \in ClientGuestId \ used : host_id(objects, g) = {}
=============================================================================
