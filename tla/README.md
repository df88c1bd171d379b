# A TLA+ model of wayland-proxy (wl-resprox)

wayland-proxy sits between Wayland clients and a compositor. When the compositor
dies the clients stay connected; when a new one appears, the proxy recreates the
clients' objects on it and goes on relaying. This directory models the logic that
makes this work, checks it with TLC and proves what it rests on with TLAPS.

All paths below are relative to `src/` in the crate unless they say otherwise.

## 1. The system

### Components, their state and their operations

| Component | Source | State | Operations |
|---|---|---|---|
| Shadow table | `shadow_table.rs` | guest id <-> host id pairs (a BiMap), interface and generation of each guest id, current generation, two id allocators | map, remove_guest, host_id, guest_id, allocate, unallocate, bump_generation |
| Recreation graph | `recreation.rs` | recipes in the order they were recorded | record, remove, recipe_for, four in-place updates |
| Buffer flow tracker | `buffer_flow.rs` | buffer pending per surface, buffers in flight | on_attach, on_commit, on_release, drain |
| Pending frame tracker | `pending_frames.rs` | callbacks awaiting `done` | on_frame/sync_requested, on_done_received, drain |
| Grab tracker | `grab_state.rs` | focus and pressed buttons per device | enter, leave, button, clear |
| Relay | `lib.rs`, `relay_ready_messages` | all of the above, planes of unfinished dmabuf buffers, `ReclaimState` | one message in either direction: resolve, translate, observe, forward or refuse |
| Recovery | `lib.rs`, `recover_state_after_reconnect`, `synthesize_grab_releases` | all of the above | re-fetch the registry, replay the recipes, two waits per toplevel, answer the dead compositor's promises |
| Connection loop | `lib.rs`, `run_connection` | `frozen` | three select arms: client readable, compositor readable, reconnect while frozen |
| Clipboard splice | `attempt_clipboard_splice`, `handle_synthetic_clipboard_event` | `ReclaimState` per connection | offers what is cached on the first input after a reconnect, serves it, gives it up |
| Clipboard cache | `clipboard.rs` | one cache per process | start_tee, pump (one task per transfer), store |
| Byte and fd queues | `Conn` in `lib.rs`, `fdsocket.rs`, `wire.rs` | read buffer and fd queue of either side | fill, write_message, next_message; build_message, parse, walk_signature |
| Listener | `main.rs` | the public socket | accept (one task per client), re-bind on SIGUSR1 |
| Socket handoff | `bin/socket-handoff.rs`, gnome-shell's session wrapper in `packaging/` | two socket names, a stopped compositor | remove the stale name, freeze, rename, resume, tell the proxy |
| App id index | `desktop_apps.rs` | installed .desktop files | has_id, resolve_by_binary |
| Interface tables, notifier, recorder, command line | `interfaces.rs`, `notify.rs`, `recorder.rs`, `cli.rs` | none that matters | |

### How they interact

`run_connection` owns everything of one client and is a single task: it reads one
side, passes every complete message to the relay, and awaits recovery in the
reconnect arm, so nothing is relayed while recovery runs. The trackers and the
graph never call each other; they stay consistent only because the relay observes
every message in the right place and because recovery drains them in the right
order. The only state that several connections share is the clipboard cache, which
tasks of their own fill.

Around the connections there is the session: a compositor that binds the public
name itself, a helper that freezes it there and moves its socket to the private
name, and the proxy, which binds the public name anew whenever it is told.

### What is hard

- **Crashes.** The compositor may die between any two messages and between any two
  writes of a recovery. A failed write is only a warning, so recovery goes on.
- **Two address spaces and a time axis.** Ids are reused by the client, and start
  again at 2 on every connection. A table entry of an earlier connection may have
  the number of a different, living object.
- **Requests that are half accepted.** A new_id is mapped, noted in the graph and in
  the trackers before the sender is known to be translatable; then all of it must be
  undone, without a gap in the compositor's id sequence.
- **Promises of the dead.** Callbacks, buffer releases and focus that the dead
  compositor owed the client have to be settled exactly once.
- **Waits inside recovery.** Two waits per toplevel throw other traffic away. They also
  leave messages in a read buffer, and their timeouts cut whatever they are doing.
- **Two queues for one stream.** Bytes and fds arrive separately, in pieces; which fd belongs
  to which message follows from the signatures, for messages that are dropped too. Reads and
  writes are partial, and while the one task writes it reads nothing.
- **Tasks that outlive what started them.** A copy may take longer than the connection or
  the compositor it was for, and another one may overtake it.
- **Names that change hands.** Three processes remove, bind and rename the same two names,
  each of which may fail or die in between.

### What makes each component correct

- Table: a translated id names the object that was meant (`TranslationSound`), ids are
  allocated without a gap (`Gapless`), the proxy's own objects have no client id
  (`PrivateUntracked`), and a freed id carries nothing over (`FreeIdsUntranslatable`).
- Graph and recovery: what is recreated has the client's shape (`SameShape`) and values
  (`SameAttributes`), it is complete (`NothingLeftBehind`), no request is decoded by
  another object's signature (`SameSignature`), and recovery ends unless a living compositor never
  answers its request for the registry (`RecoveryEnds`).
- Trackers: no promise is missing from the lists (`PromisesTracked`, `BusyTracked`), and
  every one is kept (`CallbacksAnswered`, `LostBuffersReleased`); no delete_id hits a live
  object (`DeletedIdsAreDead`); client and compositor agree on grabs (`SameGrabs`).
- Clipboard splice: the id whose events are intercepted is the proxy's (`SourceIsOwn`).
- Queues: a receiver is given whole messages, in the order they were sent (`Faithful`), each
  with its own fds (`FdsFollow`); fds are neither lost nor taken by a message that declares none
  (`FdsAccounted`); no complete message is left lying (`LeftOnlyByWaits`), and everything
  is taken in the end (`AllTaken`). What is encoded is what is walked (`EncodedIsWalked`).
- Clipboard cache: a copy is whole (`CachedIsWhole`), an older one does not replace a newer one
  that began after it had ended (`NotOlder`), and the reader gets what was written whether or not it is cached
  (`AllForwarded`).
- Handoff and listener: nobody reaches a shell past the proxy (`NoBypass`), the proxy never finds
  itself behind the private name (`PrivateIsShells`), the shell is never left stopped
  (`NothingLeftStopped`), and both names come back after every crash (`PublicComesBack`).

## 2. The modules

    ShadowTable   RecreationGraph   BufferFlow  PendingFrames  GrabState
        |     \          |               \           |           /
        |      \    WaylandPeers          \          |          /
        |       \        |      WaylandProtocol      |         /
    IdTranslation \______|___________|_______________|________/
        |    \                     Relay
        |     \                      |
        |      \                  Recovery
        |       \                    |
        |        `--- refined by - Connection ---- MCConnection + .cfg files
        |
        +--- MCIdTranslation

    Wire --- Channel --- MCChannel + .cfg files

    Handoff   Clipboard --- Clipboard_proofs
         \     /                  |
         Session ------- Session_proofs
            |
        MCSession

The proofs that are not in the picture:

    ShadowTable --- ShadowTable_proofs
                        |         \
    IdTranslation --- IdTranslation_proofs   Connection_proofs --- Connection
                               \             /
                 (instantiated) Refinement_proofs --- Agreement_proofs

    Channel --- Channel_proofs

- **ShadowTable, RecreationGraph, BufferFlow, PendingFrames, GrabState**: one operator per
  method, named as in the source, from the old value of the struct to the new one.
  An entry a Rust map lacks is a null value, an `Option` is a set of at most one
  element, and `HashMap` iteration order is a nondeterministic choice.
- **IdTranslation**: the abstract specification of everything that is ever done to the
  table, next to what the compositor really holds (`owner`, `expected`) and what the
  client holds (`used`). It knows nothing of recipes, trackers or interfaces' meaning.
- **WaylandProtocol, WaylandPeers**: external. The part of the protocol tables the code
  distinguishes, and the client (libwayland-client: when an id may be reused, what a
  delete_id does) and the compositor (libwayland-server: ids without gaps, delete_id
  after a destructor).
- **Relay**: `relay_ready_messages`. A request of the client is dropped before anything is
  noted (`DropRequest`), refused because its sender is stale (`RefuseRequest`: answers and
  rollback included), or passed on (`PassRequest`: to nobody while frozen). Each is the
  whole handler. Events have one action per kind of event (`HostDone`,
  `HostDeletesId`, ...), the clipboard splice is part of the events that trigger it.
- **Recovery**: from the end of file to the moment relaying resumes, one step per write or
  wait. The variable `pc` is the program counter, `at` the recipe in hand; `frozen` in the
  code is `pc # "run"`.
- **Connection**: the crash of the compositor, the fairness and all properties of the
  whole connection, and the refinement `TranslatesIds == Ids!Spec`.

- **Wire**: the format, by what it does: `build_message` and `parse` with their 16-bit length,
  `take_message`, `walk_signature` (a recursive function over the types).
- **Channel**: one connection below the level of objects: the kernel's queues, `read_buf` and `read_fds`
  of both sides, one `WriteSome` per `write`, the framing half of `relay_ready_messages`, and the waits
  of recovery with `next_message`. `pc` says where the task is and `todo` what it has still to write
  before it goes on, so every await inside a write is a place where others may step.
- **Clipboard**: a task per transfer, one action per read, write and end of `pump`, with a client and a
  reader that may close at any time; `store` into the one cache.
- **Handoff**: the helper (both `run_ptrace` and `run_sigstop`; the method is part of the `plan`), the
  wrapper that starts it, and what the shell does meanwhile: bind other sockets, bind the public one,
  listen, die. Names lead to numbered sockets, so that an old shell's file is not a new one's.
- **Session**: `main.rs` composed with both: `ProxyBinds` at the start and on SIGUSR1, clients that connect,
  are accepted and relayed or let go, and transfers that belong to relayed clients only.

Operators marked `Wrong:` are bugs the code could have. Each stands next to the definition it
would replace, and each makes one property fail under the configuration of a run.
They play no part in the specifications.

### What the models abstract from

In Connection and its parts:

- A message is sent, carried and handled in one step. The proxy is one task and each
  direction is a FIFO, but a message already in a socket buffer when the other side changes
  is not modelled, except one case that matters: after the compositor has died (`~up`)
  its events may still be read until the end of file is seen, and requests may still
  be sent to it, without effect.
- Payloads are small sets (`Value`), a plane of a dmabuf buffer is only counted, a
  retained fd is part of its recipe. Text, wire layout and logging are left out.
- The client is a legal one: it destroys children before parents where the protocol
  demands it, binds only what the current compositor advertises, reuses freed ids first,
  and destroys a callback when it fires. It does not disconnect.
- Server-created objects are data offers only.

Channel, on the other hand, is about just those queues. There

- a word of four bytes is the unit, and a text or array counts the words its length needs;
- an id either translates or does not: guest id `g` is host id `g + Shift`, and `current` says
  which translate. What the table does is IdTranslation's subject;
- a peer flushes some messages of its script at once, their fds riding with the first bytes, as
  libwayland does;
- the five requests of the splice count as one, and `replay` is a list of requests.

In Clipboard the bytes of a transfer are told apart by their number only: a copy of `n` bytes is the first
`n` that were written. In Handoff the single-stepping of ptrace counts only where a bind() returns.

### Scenarios

`Relay` takes a constant `Scenarios`: for each name the requests the client starts with,
the requests it makes then in any order, how many objects of each kind it keeps, the
ids of both sides, and the sets of globals compositors may advertise. The variable
`scenario` is chosen at the start and never changes. This keeps the state spaces of unrelated
objects apart: windows and dmabuf planes do not interact, and their product would
only hide what is checked. A scenario restricts what the client does, never what the
proxy does.

## 3. The runs

Deadlock checking is off in every run: ids, reconnects, scripts and shells are bounded, so a behaviour may use
them up and stop. `MaxGeneration = 2` (one in MCPools) allows two crashes and two recoveries. The
second is what shows leftovers of the first; a third meets the same table, graph and trackers as
the second. The ids of a scenario suffice for every object it keeps plus one that is created
after a recovery, or, where less, for one that is created while another id still waits for its
delete_id. The host ids of the buffers in MCPromises are enough for both of them to be recreated, or for one of them and
a new one, on each connection.

| Run | Scenarios | Shows |
|---|---|---|
| MCIdTranslation | 3 client ids, 2 server ids, 4 host ids | the five invariants of IdTranslation by itself |
| MCWindows | windows made and destroyed in any order, with xdg_wm_base vanishing; titles, app_ids, viewports; pools resized and destroyed; pointer, keyboard, touch, fractional scale, splice. Compositor dies anywhere | TypeOK, SameShape, NothingLeftBehind, SameAttributes, SameGrabs, SourceIsOwn |
| MCObjects | surfaces and callbacks that reuse ids; binds of an unknown interface and requests on it; data offers; dmabuf buffers of 1 and 2 planes; a toplevel and a keyboard, destroyed or not while recovery waits, with traffic during the waits. Compositor dies anywhere | SameSignature, DeletedIdsAreDead, SameShape, SameAttributes, NothingLeftBehind; Connection refines IdTranslation (TranslatesIds); RecoveryEnds |
| MCPromises | frame and sync callbacks; two buffers attached, committed and destroyed. Compositor dies while relaying | PromisesTracked, BusyTracked, CallbacksAnswered, LostBuffersReleased |
| MCChannel | six conversations: no crash; a stale object; an ack and more in one flush; keymaps during and after a wait; a reclaimed clipboard; a compositor that dies in recovery. Every division of reads and writes | TypeOK, Faithful, FdsFollow, FdsAccounted, LeftOnlyByWaits, EncodedIsWalked, AllTaken |
| MCSession | two clients; three shells with ptrace; three with sigstop; two shells and a short copy; one shell and two copies, one of them too long to cache | TypeOK, NoBypass, PrivateIsShells, NothingLeftStopped, CachedIsWhole, NotOlder, PublicComesBack, AllForwarded |

Runs that are expected to fail, each a disagreement between what the code says of itself and what it
does (`PROJECT.json`, findings, has the quotations):

| Run | Property | What happens |
|---|---|---|
| MCGhosts | NoGhosts | recipes go with delete_id only; an object destroyed under a dead compositor is recreated by the next one |
| MCPools | LostBuffersReleased | a buffer whose pool was destroyed is not recreated and its release is forgotten, so the client waits for ever |
| MCEarlySync | CallbacksAnswered | recovery returns early without a registry, before it answers a sync |
| MCClosedSurface | LeavesNameHeldSurfaces | a leave is synthesized for a surface id the client has freed |
| MCStaleFrame | DeletedIdsAreDead | a frame callback answered at once stays on the list; after its id is reused a later recovery deletes a live object |
| MCStrayFds | FdsAreOwn | the fd of a request that is dropped stays queued and goes out with the next request that declares one |

The scenarios of the passing runs stay clear of the first five: buffers keep their pool (MCPromises), no surface is
destroyed while it is entered (the seat scenario of MCWindows keeps its surface), wl_compositor
does not vanish where frame requests are made, and a registry exists before the first sync. MCChannel does run
into the sixth. Its properties except a direction only for what has happened to it (`marks`):
"stray", an fd was dropped unread; "tee", no substitute fd could be made; "cut", a timeout ended a write in the middle;
"left", a wait of recovery ended with messages in the buffer. Before any of these the full
promise is checked, and `steady` can reach its end without one.

**Bounds of MCChannel.** A kernel queue holds three words towards a peer: less than a message of `create_pool`,
so that writes block in the middle, and more than a header, so that they can be cut in any place. A
conversation has one to three requests, and up to three compositors. Two messages with fds in one batch, the smallest case in which an
fd can go to the wrong one, occur in both directions.

**Bounds of MCSession.** A third shell is started after a name, a listener and a signal of each of its
predecessors has been left behind. A chunk is two bytes, as is the cache's limit, so a copy of one fits
and one of four takes several reads, is dropped from the cache in the middle and forwarded to its end.

### Fairness

Of a connection, `ProxySpec` assumes weak fairness of `Proxies`: the select loop gets to an arm that is
ready, reconnects, and a recovery goes on; two of its waits end because of their 5 s timeouts
(`ConfigureFails`, `AckTimesOut`), which is why these are in and the compositor's configure and the client's ack
are not. The third wait, for the globals and the done of recovery's own sync (`lib.rs:1378`), has no timeout: only the compositor's
answer (`FetchRegistry`) or its death (`FetchFails`) ends it, and only the second is in `Proxies`. So `RecoveryEnds`, which MCObjects checks under
`ProxySpec`, excepts a compositor that lives and never answers (`AwaitsRegistry`); nothing else is asked of a compositor. Writes of recovery do
not block here; Channel has those that do. `FairSpec`, for `CallbacksAnswered` and `LostBuffersReleased`, adds `Answers`:
a compositor that lives sends the done, that of recovery's sync included, and the delete_id it owes. Nothing is
assumed of the client or of buffer releases. A compositor that dies is followed by another
(`HostDies` needs `generation < MaxGeneration`); without that, a frozen client waits for ever by design.

Channel: the task goes on while it can (`Proxy`: an executor polls what is ready, timeouts pass), and both
peers keep reading their sockets, also while one of their own writes waits (`PeerReads`); a peer that
stops reading blocks the task, as the code has it. Nothing is assumed of what peers send: a compositor that never
answers recovery's own get_registry and sync, the one wait without a timeout, is excepted in `AllTaken`.

Session: the helper and the wrapper go on, the helper's deadline passes (`Fails` is weakly fair by itself, so no state of
the helper is held for ever), the proxy handles signals and accepts, a tee's task runs. The shell may stop anywhere and clients
need do nothing. One assumption of timing: the proxy has bound its listener and handled the last SIGUSR1
before the next shell is started (`ProxySettled`); the wrapper takes a second and more between shells.
Without it a late rebind could take the public name of a shell that is being handed over.

## 4. The proofs

Eight modules hold theorems. Nothing in them depends on the bounds of a run: they hold for every value of the
constants that meets the assumptions. These are: the two ranges of client-side ids are sets of numbers, disjoint, on either side
of the server base, and do not contain 0 (`ClientGuestIdAssumption`, `ServerGuestIdAssumption`, `ServerBaseAssumption`); so are
the compositor's (`ClientHostIdAssumption`, `ServerHostIdAssumption`); "none" is no interface (`InterfaceAssumption`); the
requests a scenario offers are requests with the fields and kinds Relay handles, and its initial requests too
(`OfferAssumption`, `RequestsAssumption`), and attach, set and create on the interfaces the protocol has them on, destructors without an object argument (`ProtocolAssumption`); the bounds are numbers. TLC evaluates them in every run.

### Tables and graphs

`ShadowTable_proofs` says what each table operation does (`MapIs`, `RemoveIs`, ...) and that it keeps `TableInv`
(`MapKeeps`, `BumpKeeps`, ...). The first lemmas of `Connection_proofs` do the same for the graph: where the recipes of the new graph come from after
`record`, an update (`RecipeUpdated`) and `remove` (`Removed`). `remove` is a recursive function over the positions of the graph; that
it is defined at all follows from the existence of a function on `0..n` for the least `n` that lacks one (`Least`), without
the library's induction theorems.

### The translation of ids

`IdTranslation_proofs` proves for every set of ids, every set of interfaces and any number of reconnects:

- `Invariance`: `Spec => []IInv`
- `TypeCorrect`, `TranslationIsSound`, `NeverAGap`, `OwnObjectsAreUntracked`,
  `FreedIdsAreForgotten`: the five invariants MCIdTranslation checks.

The properties are not inductive. `IInv` adds what they rest on: the BiMap is injective (or a
delete_id could free two ids), no current mapping in the client range reaches `next_host_id` (or a new id could evict a living
object), generations of entries never exceed the current one (or an entry would become current
again after a bump), and `wl_display` stays mapped to 1. The argument: an entry is current only if
it was made on this connection; on this connection numbers are handed out once, in step with the compositor (`Gapless`);
so a current entry's number has exactly the owner it was mapped for.

### The connection

`Connection_proofs` is about every step of Relay, Recovery and the crash, without exception:

- `ConnectionTypesHold`: `Spec => []TypeOK`;
- `SourceStaysOwn`: `Spec => []SourceIsOwn`. Between a reclaim and its end, the id whose events the proxy
  answers itself has an object that is nobody else's.

`TInv` is its invariant. For the source it adds that no id of the client's is mapped to it, that it lies below `next_host_id` (or an object
created later would get its number) and that its object is neither destroyed nor replaced; and that the reclaim state is idle while
recovery starts, since the number means nothing to the next compositor. `wl_display` is at id 1 of both sides, so that
no request on the display is ever refused.

`Refinement_proofs` shows that the whole connection keeps the promises of IdTranslation:

- `ConnectionTranslatesIds`: `NoRefusedFrame => TranslatesIds`, the refinement itself;
- `ConnectionKeepsIdPromises`: with it, the four promises IdTranslation_proofs proves hold of the connection's table,
  of the compositor's objects and of the ids its client holds;
- `SignaturesStay`: `NoRefusedFrame => []SameSignature`, no request is decoded by another object's signature;
- `DeletedStayDead`: `NoRefusedFrame => []DeletedIdsAreDead`, no delete_id reaches the client for an object that lives;
- `CallbacksStayTracked`: `NoUnseenCallback => []PromisesTracked`, every callback the table knows is on the list that recovery answers
  from.

`NoRefusedFrame` is `Spec /\ [][~RefusesFrame]_vars`: executions in which no frame request is made on a surface the table holds to be of
an earlier connection. Without that premise the statements are false, as MCStaleFrame shows with an
execution of three compositors: the answer to such a request frees the callback and leaves it on the list that recovery answers
from. The premise is about this one request; surfaces may go stale, every other request on them may be refused,
and the compositor may die anywhere. MCObjects has no refused frame request in its scenarios, and checks the same properties on executions that
meet the premise.

`NoUnseenCallback` adds that every request for a callback reaches the table: it is not dropped because its sender or argument is not
understood, and not read and thrown away while recovery waits for ack_configure. Where one is, and the id had an earlier callback
that recovery answered, the table still says "wl_callback" of the id, while the list never hears of the new callback
and the client is never answered. MCPromises has no toplevel, so recovery never waits there. The argument on top of `RInv`: a
done takes off the list only what it answers; recovery maps no callback, and `FinishRecovery` empties the list only after
answering all of it that the table has an interface for.

What a connection has beyond IdTranslation decides whether its steps are steps there, and this is `RInv`:

- `Standing`: a recipe is of an id the client holds, and of the interface it has there. A recipe of a freed id would be replayed under
  an id that is in use by then; it is why `remove` runs on delete_id and on every rollback, and why a recipe
  is replaced when an id is recorded again.
- `Waiting`: what is on the list of callbacks is a live callback of the client. Recovery answers each with done *and* delete_id, so a
  leftover would free a live object. This is the part a refused frame request breaks.
- `Alive`: no callback gets its delete_id before it is destroyed; the client can only have been told so by the leftover above.
- `Named`: the interface the table has is the client's, or that of a callback the id had before. The exception is real: answering a frame request at
  the end of recovery does not remove the table's entry, and a new request that is dropped for want of an
  interface leaves the old one in place.
- `Ranges`, `Agree`, `Objects`, `Ahead`: server ids are mapped to server ids; the compositor's object behind a live object is of its interface
  and not destroyed; there is nothing past the last id handed out, so that the next one is new to the compositor.
- `Unanswered`: during recovery no callback is mapped on the new connection, so answering it takes nothing the compositor knows of.

The lemmas from `Creates` to `Stutters` each turn one shape of step into a step of IdTranslation, and one lemma per action of Relay and
Recovery shows that it has that shape:

| Step of the connection | Step of IdTranslation |
|---|---|
| a request with a new id that is passed on, or swallowed while frozen | Create |
| one that is refused: mapped, then rolled back and freed | Reject |
| one that is dropped before it is mapped | Drop |
| a recipe that is replayed | Recreate |
| recovery's own registry and sync; the five requests of the splice | MakeOwn |
| data_offer | ServerCreates |
| delete_id of a mapped object, alone or behind a done | Delete |
| a callback answered at the end of recovery | Synthesize |
| a destroyed server object; an offer that is replaced | Free, Forget |
| the crash, the reconnect | Die, Reconnect |
| everything else | a stutter |

`RoomFor` guards every step that uses up host ids, the failing ones of recovery included, since those advance the allocator
as well. It is a bound of the model, and stands for the 2^32 ids a connection has.

### What client and compositor agree on

`Agreement_proofs` is about what the client's objects say, next to what the proxy has noted. Its first lemmas (`SentSays`,
`DestroyedSays`, `AnsweredSays`, ...) give, for every handler, the fields of every object afterwards.

- `BusyStaysTracked`: `NoLostBuffer => []BusyTracked`. Every buffer the client believes busy is on the list recovery releases from.
- `GrabsStayTheSame`: `NoLostFocus => []SameGrabs`. Client and compositor have the same surface in focus and the same buttons held.

`BInv` is its invariant on top of `RInv`: besides the busy buffers, what the client has attached and not committed is what the tracker has
attached, for every surface. Without that part a commit, which names no buffer, would put another buffer on the list than the one
that becomes busy. Destroying a surface leaves the tracker's entry behind, which is why the invariant runs from the client to the tracker only.

`NoLostBuffer` is `NoRefusedFrame` and two conditions, each of which excludes what is known to lose a release. No attach of a buffer, and no
commit of one, is dropped or thrown away: it is dropped when the buffer cannot be translated, and thrown away when recovery waits for
ack_configure (`UnseenBuffer`). And no recovery ends without a release for a buffer that is busy (`LeavesBusy`):
`drain_in_flight` forgets the buffers that were not recreated, which MCPools shows. Everything else may happen: commits while
frozen, requests refused on stale surfaces, compositors that die during recovery, ids used again.

`GInv` is the invariant of the second theorem. `SameGrabs` speaks of a connection that runs; what carries it across a crash is about the
tracker and the table:

- `Noted`: the tracker has an entered surface for every device of the client that has a focus, and all its buttons, and the table knows
  the device by its interface. So `synthesize_grab_releases`, which goes by tracker and table only, leaves no device in a grab;
- `InTable`: the table's interface of a living mapped id is the client's, so an enter or a button is noted for the right kind of device;
- `Idle`: a new compositor has no focus and no button as long as recovery runs, so that both sides start from nothing;
- `Focused`: the compositor's focus is on a surface that exists. When a surface goes, compositor and client drop the focus together;
- `Seeing`: the agreement itself, in terms of the table's mappings instead of the sets `SameGrabs` builds.

Its premise `NoLostFocus` is `NoRefusedFrame` and that recovery throws no enter away (`LoseEvent`): the compositor may send one while recovery
waits for configure, and the loop there forgets every event it does not wait for. The client then never hears of a focus the compositor has.

### The queues

`Channel_proofs` proves for any conversation, any capacity of the kernel's queues and any division of reads and writes:

- `OnlyWaitsLeaveMessages`: `Spec => []LeftOnlyByWaits`. While the relay waits in `select` there is no complete message in a read buffer
  unless a wait of recovery has left it there;
- `FdsStayAccounted`: `Spec => []FdsAccounted`. The fds that have arrived are those of the messages still to be taken, in their
  order, behind those of messages that were dropped unread;
- `ChannelTypesHold`: `Spec => []TypeOK`. No write goes past its message, only the first message is ever begun, and no queue
  exceeds its capacity;
- `ReceiversAreFaithful`: `Spec => []Faithful`. A receiver is given whole messages that were said, in the order they were said and with
  their ids translated, the proxy's own ones in between, and of the next one what was written so far;
- `MessagesBringTheirFds`: `Spec => []FdsFollow`. What a receiver is given between two messages are the fds of those messages, a copied
  selection with the tee's.

The last two say so of executions as the properties do: `Faithful` ends, for one direction, when a timeout has cut a write to it, and
`FdsFollow` also when a message with fds was dropped unread (MCStrayFds shows what happens then) or a tee could not be set up.
A message may be said any number of times: what is claimed is that there are places, in increasing order, where the messages given were said, and
for `FdsFollow` that the fds are those said at these places.

What is assumed of the constants is what libwayland and the code make true of a conversation (`ScenariosAssumption`): the values of a message
have the types of its signature, its opcode and its length fit into 16 bits each, and of the events of a data source only `send` carries an fd,
which is what `handle_synthetic_clipboard_event` relies on; a message creates at most one object, and the proxy's own requests bring no fds; the
proxy's source has an id (`SourceIdAssumption`). Without the first assumption the second theorem is false: a walk by the wrong
signature takes another number of fds than were sent. Two more are facts of the protocol's tables that the code relies on silently: the
messages recovery's waits pass on name no objects, so that translating their sender is enough (`AwaitedAssumption`), and `send` is a
mime type and one fd (`SendAssumption`), so that the fd `start_tee` replaces is the message's only one.

The invariant of the first theorem (`LInv`) says of each point of the task which buffer is known to hold no complete message
(`relay_ready_messages` only returns on one that it finds incomplete). That of the next two is `QInv`. Its core is, for each direction,

- `Accounts`: there is a `k` such that the words in buffer and kernel are those of the messages after the `k`-th, and the fds are
  theirs behind some that nobody took, none if nothing was dropped unread;
- `Follows`: behind any word of the kernel's queue are the fds of all messages from some one on. So fds come no later than their message, and a
  message that is complete has all of its fds in `read_fds`. Without it a message could be taken whose fds are still in
  the kernel, and `PopFds` would take fewer than the walk has counted.

`Outgoing` bounds what is written, `Queues` and `Setting` give the types. The argument for a message that is taken: by `TakeIs` and
`FirstIs` the bytes `take_message` cuts off are those of message `k + 1`; by `WalkCounts` a walk that ends counts as many fds
as the message was encoded with, whatever its texts and arrays; so `PopFds` takes its fds and the next message is `k + 2`.
At the end `MessagesBack` shows that `Messages` splits the words of some messages, and part of another, into just these.

For the last two theorems `DInv` adds what `got` is made of, for each direction whose writes were not cut (`Stands`): the messages `ms` that were
given, and where each was said (`ks`, 0 for the proxy's own).

- `Log`: message `ms[i]` is message `ks[i]` of what was said, and the numbers increase;
- `Given`: the words in `got` are those of `ms` and of what is written of `todo[1]`; the fds are theirs, if none were left behind;
- `Pending`: what is in `todo` are requests of the proxy's own and, only as the last one, the message that was taken last, whose number is above
  all in `ks`. Without the part about the last one, a message could be written after one that was said later;
- `Turns`: nothing is left to be written when the task is back in its `select`, and recovery's fetch writes to the compositor only.
  So a new connection starts with nothing half written, and what the client was given stays complete across a crash.

The step that matters is a message being taken: `NextTranslated` says that overwriting the sender and the words at the offsets of the walk
gives the message in the ids of the other side, byte for byte. It rests on `WalkRewrites`, which follows the walk argument by argument: each
id is found at its offset, and nothing else is touched. `PassedMeant` says the same of the fds. A write then appends to `got`, and
to `ms` when it ends a message; a crash or a failed write takes messages out of `todo` only where nothing of them was written, or where
the receiver is gone.

The operators behind this are recursive functions (`FlattenSeq`, the fold in `walk_signature`, `Messages`). Their recursion is solved up to any
`n` with `AllNaturals`, which is about a set of numbers and follows from the existence of a least one that is not in it; so no induction
theorem with an operator as a parameter is needed.

### The clipboard and the hand-off

`Clipboard_proofs` proves for any number of transfers, of any length, and any limit:

- `CopiesAreBounded`: `ClipboardSpec => []ClipboardTypeOK`, which bounds what a task collects;
- `CopiesAreWhole`: `ClipboardSpec => []CachedIsWhole`;
- `EndedCopiesDoNotReturn`: `ClipboardSpec => []NotOlder`, a copy does not replace one that began after it had ended. Of two transfers
  that overlap the one that ends last stays, also if it began first: the code has no order of its own for them.

The invariant is the arithmetic of `pump` (`Counted`): what was taken, given and collected differ by exactly the part of the
chunk in hand that is still to be written; and a stored copy belongs to a transfer that has ended (`Stored`), so nothing of
it changes afterwards.

`Session_proofs` proves for any number of shells, clients and transfers:

- `SessionTypesHold`: `Spec => []TypeOK`;
- `NobodyBypassesTheProxy`, `ProxyNeverConnectsToItself`, `ShellAlwaysResumed`: the three invariants of the hand-off;
- `SessionsShareAClipboard`: `Spec => ClipboardSpec`, every step of a session is a step of the clipboard or leaves it alone;
- `CopiesOfASessionAreWhole`, `EndedCopiesOfASessionDoNotReturn`: so the theorems about the clipboard hold of every session.

`NoBypass` is about clients that have connected; what makes it inductive is `Caught`, about the name: while the public name leads to a
shell whose hand-off is still due, that shell is dead or stopped on its way out of bind(), before it can listen. That needs
`StoppedByHelper` (only the helper stops a shell, and not in every state), `OldShells` (no name leads to a shell that
is still to come), and `Settled`: from the removal of the stale name to the rename, the proxy does not bind it. The last is where the
assumption `ProxySettled` enters the proof.

### Only model-checked

- Of the connection: `SameShape`, `NothingLeftBehind`, `SameAttributes`. They hold for the scenarios of the runs
  and not for every one, so a theorem needs a premise about what the client asks for and when. What breaks them: a set_title
  or an attach that recovery reads and throws away while it waits for ack_configure; an attach of a stale buffer that is
  dropped, before a commit that is not; a freed parent whose number goes to another object of the same interface; and what MCPools
  and MCClosedSurface show (a buffer whose pool is gone is not recreated, and its release is forgotten).
- Of the queues: `EncodedIsWalked`, about the lists of values MCChannel gives. Most of it is proved of all lists: that the walk counts their fds
  (`WalkCounts`) and where it finds the ids (`WalkRewrites`); what it finds as the interface name of a bind is not.
- All liveness (`RecoveryEnds`, `CallbacksAnswered`, `LostBuffersReleased`, `AllTaken`, `PublicComesBack`, `AllForwarded`):
  liveness under fairness is beyond the prover too.

## 5. What is not modelled

- A client that disconnects: its task ends and drops everything it owns; only the tee tasks live on, which Clipboard has.
- The proxy process itself: a crash or restart of it, SIGTERM, and a SIGUSR1 that comes before the handler is installed (`ProxySettled`
  excludes it).
- A listener that cannot be bound when the proxy starts ends the process; only the rebind on SIGUSR1 may fail in the model (`ProxyBindFails`).
- In Channel, more than one toplevel, and recipes behind it: the code waits for configure and ack once per toplevel, in the middle of the replay;
  the conversations have one at most, as the last thing that is replayed. Recovery has the waits where the code has them.
- The session wrapper of labwc. In the helper, the moment between `exists()` and `rename()` is one step, in which the frozen shell
  can do nothing; other processes that touch the names are left out.
- Clients that had connected to a listener and were not accepted when it was replaced are let go (`"lost"`), as the kernel does;
  what they do then is their affair.
- What a receiver makes of a message that a timeout has cut off: `Faithful` ends there.
- Server-created objects other than data offers; several registries of one client; global events; the dmabuf pair
  `create`/`created`.
- The reader of a reclaimed clipboard: a detached task writes the cached copy to it once.
- The .desktop scan, notifications, recorder, command line, harness, probes and packaging: no
  state of the proxy depends on them beyond `KnownAppIds` and `BinaryAppId`.
- Host ids running out (`ClientHostId` is a bound).
- A compositor that dies during replay in MCPromises: recovery then ends although writes failed, and the
  in-flight buffers that were not recreated are dropped from the list.

`PROJECT.json`, hazards, lists what can go wrong at which line, and which property watches it.

## 6. Plan

Done: the core, the byte and fd queues (Channel), the clipboard cache, the hand-off with the listener, and the refinement of
IdTranslation for all constants (sections 2 to 4). In this order:

1. **More proofs about Connection**: the shapes and attributes of what is recreated (`SameShape`, `SameAttributes`) on top of `RInv`, for
   the executions in which no request is lost.
2. **Registries and server objects**: a second wl_registry, get_registry while frozen, and
   the dmabuf params `create`/`created` pair.
3. **Client disconnect** and several clients over one compositor's crash.
