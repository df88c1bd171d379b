---------------------------- MODULE ShadowTable ----------------------------
(***************************************************************************)
(* The shadow table (src/shadow_table.rs): the translation between the ids *)
(* the client uses ("guest") and the ids the compositor uses ("host").     *)
(*                                                                         *)
(* A table is a record with the fields of the Rust struct.  An entry that  *)
(* is missing from a Rust map is NoId, NoInterface or NoGeneration here,   *)
(* so that every field is a total function on GuestId.  An Option is a set *)
(* with at most one element.  unresolvable_interfaces only feeds log lines *)
(* and is left out.                                                        *)
(*                                                                         *)
(* The operators marked "Wrong:", here and in the other modules, are bugs  *)
(* the code could have: with one of them in the place of the definition    *)
(* after it, a property must fail.                                         *)
(***************************************************************************)
EXTENDS Integers

CONSTANTS
  ClientGuestId,  \* ids the client allocates itself; 1 is its wl_display
  ServerGuestId,  \* ids the proxy hands the client for server-created objects
  ServerBase,     \* the first id of the server range, 0xff000000 on the wire
  ClientHostId,   \* host ids allocated by the client side, i.e. by the proxy
  ServerHostId,   \* host ids the compositor allocates itself
  Interface       \* names of the interfaces a table entry can have

ASSUME ServerBaseAssumption == ServerBase \in Nat /\ ServerBase > 2
ASSUME ClientGuestIdAssumption ==
  ClientGuestId \subseteq 1..(ServerBase - 1) /\ 1 \in ClientGuestId
ASSUME ServerGuestIdAssumption ==
  \A g \in ServerGuestId : g \in Nat /\ g >= ServerBase
ASSUME ClientHostIdAssumption ==
  ClientHostId \subseteq 1..(ServerBase - 1) /\ 1 \in ClientHostId
ASSUME ServerHostIdAssumption ==
  \A h \in ServerHostId : h \in Nat /\ h >= ServerBase
ASSUME InterfaceAssumption == "wl_display" \in Interface /\ "none" \notin Interface

GuestId == ClientGuestId \cup ServerGuestId
HostId == ClientHostId \cup ServerHostId
NoId == 0
NoInterface == "none"
NoGeneration == -1

ShadowTableType ==
  [ guest_to_host        : [GuestId -> Nat],
    interfaces           : [GuestId -> Interface \cup {NoInterface}],
    mapped_in_generation : [GuestId -> Nat \cup {NoGeneration}],
    generation           : Nat,
    next_host_id         : Nat,
    next_guest_server_id : Nat ]

\* Wrong: the evicted guest's slot goes with its pair.
BiMapShrinks(pairs, g, h) ==
  [x \in {y \in GuestId : y = g \/ pairs[y] # h} |-> IF x = g THEN h ELSE pairs[x]]

\* BiMap::insert: a pair that shares either side with the new one is evicted.
BiMapInsert(pairs, g, h) ==
  [x \in GuestId |-> IF x = g THEN h ELSE IF pairs[x] = h THEN NoId ELSE pairs[x]]

map(t, g, h, iface) ==
  [t EXCEPT !.guest_to_host = BiMapInsert(t.guest_to_host, g, h),
            !.interfaces[g] = iface,
            !.mapped_in_generation[g] = t.generation]

new_table ==
  map([ guest_to_host        |-> [g \in GuestId |-> NoId],
        interfaces           |-> [g \in GuestId |-> NoInterface],
        mapped_in_generation |-> [g \in GuestId |-> NoGeneration],
        generation           |-> 0,
        next_host_id         |-> 2,
        next_guest_server_id |-> ServerBase ], 1, 1, "wl_display")

\* Wrong: allocation goes on where the dead connection was.
BumpKeepsHostIds(t) == map([t EXCEPT !.generation = @ + 1], 1, 1, "wl_display")

bump_generation(t) ==
  map([t EXCEPT !.generation = @ + 1, !.next_host_id = 2], 1, 1, "wl_display")

\* Wrong: any mapping counts, whichever connection it was made on.
AnyGeneration(t, g) == TRUE

is_current_generation(t, g) == t.mapped_in_generation[g] = t.generation

\* The id handed out is next_host_id as it was; these are what is left behind.
allocate_host_ids(t, n) == [t EXCEPT !.next_host_id = @ + n]
allocate_host_id(t) == allocate_host_ids(t, 1)
unallocate_host_id(t, h) ==
  IF h = t.next_host_id - 1 THEN [t EXCEPT !.next_host_id = @ - 1] ELSE t
allocate_guest_server_id(t) == [t EXCEPT !.next_guest_server_id = @ + 1]

\* Wrong: no generation check.
HostIdOfAnyGeneration(t, g) ==
  IF g = 0 THEN {0} ELSE {h \in {t.guest_to_host[g]} : h # NoId}

\* Option<u32>: {} when the id was never mapped or is of an older generation.
host_id(t, g) ==
  IF g = 0 THEN {0}
  ELSE IF is_current_generation(t, g) /\ t.guest_to_host[g] # NoId
       THEN {t.guest_to_host[g]} ELSE {}

\* Wrong: no generation check.
GuestIdOfAnyGeneration(t, h) ==
  IF h = 0 THEN {0} ELSE {g \in GuestId : t.guest_to_host[g] = h}

guest_id(t, h) ==
  IF h = 0 THEN {0}
  ELSE {g \in GuestId : t.guest_to_host[g] = h /\ is_current_generation(t, g)}

\* Wrong: what was mapped on an earlier connection is not found.
FindsCurrentOnly(t, name) == {g \in GuestId : t.interfaces[g] = name /\ is_current_generation(t, g)}

\* HashMap iteration order is unspecified: any of these may be the one found.
find_guest_id_by_interface_name(t, name) == {g \in GuestId : t.interfaces[g] = name}

\* Wrong: one of the maps is forgotten.
RemoveKeepsMapping(t, g) == [t EXCEPT !.interfaces[g] = NoInterface]
RemoveKeepsInterface(t, g) ==
  [t EXCEPT !.guest_to_host[g] = NoId, !.mapped_in_generation[g] = NoGeneration]

remove_guest(t, g) ==
  [t EXCEPT !.guest_to_host[g] = NoId,
            !.interfaces[g] = NoInterface,
            !.mapped_in_generation[g] = NoGeneration]
=============================================================================
