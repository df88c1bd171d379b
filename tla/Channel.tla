------------------------------ MODULE Channel ------------------------------
(***************************************************************************)
(* Bytes and file descriptors on one connection: Conn and its two buffers, *)
(* the framing side of relay_ready_messages, and the waits of recovery     *)
(* (src/lib.rs, src/fdsocket.rs).                                          *)
(*                                                                         *)
(* Each direction, "request" (client to compositor) and "event", has a     *)
(* kernel queue towards the proxy, the proxy's read_buf and read_fds, and  *)
(* a kernel queue of limited size towards the peer.  The proxy is one      *)
(* task: while it writes it does nothing else.  Reads and writes take any  *)
(* part of what they could.                                                *)
(*                                                                         *)
(* What the table does to ids is the subject of IdTranslation.  Here guest *)
(* id g is host id g + Shift if it translates, and what matters is whether *)
(* it does: current are the guest ids that do on this connection.          *)
(***************************************************************************)
EXTENDS Wire

CONSTANTS
  Scenarios,      \* by name: what client and compositors say, and what the proxy tracks
                  \*   client     the requests, in order
                  \*   hosts      per compositor, its events, in order
                  \*   known      the guest ids that have an interface in the table
                  \*   replay     the requests of recovery that recreate objects
  Signature,      \* Signature[d][opcode]: the argument types
  Opcode,         \* the opcodes that the proxy knows by name
  ProxyId,        \* the ids of objects the proxy looks for by role
  CacheableMime,  \* the mime types that are cached
  Cached,         \* the mime types the clipboard cache holds
  Capacity,       \* words that fit into the kernel queue towards a peer
  TeeMayFail,     \* whether start_tee may fail to make a substitute fd
  WriteMayBeCut   \* whether a timeout may end a wait in the middle of a write

ASSUME CapacityAssumption == Capacity \in Nat \ {0}
ASSUME SwitchesAssumption == {TeeMayFail, WriteMayBeCut} \subseteq BOOLEAN

Direction == {"request", "event"}
Shift == 100
Tee == 1000       \* the fd that stands in for fd f is f + Tee

VARIABLES
  scenario,
  up,          \* the compositor of the current connection lives
  generation,  \* which compositor that is
  sent,        \* how many of its messages each side has sent
  wire,        \* per direction, what the kernel holds for the proxy: words,
               \*   and the fds that come with the first of a batch
  read_buf, read_fds,
  frozen,
  pc,          \* "select", the direction that is relayed, or what recovery waits
               \*   for: "fetch", "configure", "ack"
  todo,        \* the messages the task has still to write before it goes on
  current,
  reclaim,     \* ReclaimState: [pending, source], whether it has a source
  got,         \* per direction, what its receiver was given on this connection
  unread,      \* how many words of that it has not yet taken from the kernel
  marks        \* per direction, what has happened to it that shows later

channel == <<wire, read_buf, read_fds, got, unread>>
vars == <<scenario, up, generation, sent, channel, frozen, pc, todo, current, reclaim, marks>>

Played == Scenarios[scenario]
Script(d) == IF d = "request" THEN Played.client ELSE Played.hosts[generation]

Both(x) == [d \in Direction |-> x]
Other(d) == IF d = "request" THEN "event" ELSE "request"
From(seq, n) == SubSeq(seq, n, Len(seq))

Init ==
  /\ scenario \in DOMAIN Scenarios
  /\ up = TRUE /\ generation = 1
  /\ sent = Both(0)
  /\ wire = Both(<<>>) /\ read_buf = Both(<<>>) /\ read_fds = Both(<<>>)
  /\ got = Both(<<>>) /\ unread = Both(0)
  /\ frozen = FALSE /\ pc = "select" /\ todo = <<>>
  /\ current = Played.known
  /\ reclaim = [pending |-> FALSE, source |-> FALSE]
  /\ marks = Both({})

-----------------------------------------------------------------------------
\* The peers.  A message of a script is [on, opcode, values, after]: it is
\* sent once the sender has read the messages with the opcodes in after.

Words(queue) == [i \in DOMAIN queue |-> queue[i].word]
FdsOf(queue) == FlattenSeq([i \in DOMAIN queue |-> queue[i].fds])

\* The complete messages that words begin with.
Messages(words) ==
  LET Onward[i \in 1..(Len(words) + 1)] ==
        LET n == take_message(SubSeq(words, i, Len(words)))
        IN IF n = 0 THEN <<>> ELSE <<SubSeq(words, i, i + n - 1)>> \o Onward[i + n]
  IN Onward[1]

HasRead(d) ==
  LET words == Words(got[d])
  IN {parse(m).opcode : m \in ToSet(Messages(SubSeq(words, 1, Len(words) - unread[d])))}

\* The ids of requests are the client's, those of events the compositor's.
IdIn(d, id) == IF d = "event" /\ id # 0 THEN id + Shift ELSE id
ValueIn(d, v) == IF v.type \in {"object", "new_id"} THEN [v EXCEPT !.word = IdIn(d, @)] ELSE v

\* A message in the ids of direction d.
Bytes(d, m) ==
  build_message(IdIn(d, m.on), m.opcode,
                FlattenSeq([i \in DOMAIN m.values |-> Encoded(ValueIn(d, m.values[i]))]))

\* The fds of a batch go with its first bytes.
Packet(words, fds) ==
  [i \in DOMAIN words |-> [word |-> words[i], fds |-> IF i = 1 THEN fds ELSE <<>>]]

Batch(d, ms) ==
  Packet(FlattenSeq([i \in DOMAIN ms |-> Bytes(d, ms[i])]),
         FlattenSeq([i \in DOMAIN ms |-> Fds(ms[i].values)]))

\* A message of direction d: its values are of the types its signature has,
\* it creates one object at most, and its length fits into the header.
Proper(d, m) ==
  /\ m.on \in Nat /\ m.opcode \in Nat /\ m.opcode < LengthWidth
  /\ m.values \in Seq([type : STRING, word : Nat, len : Nat])
  /\ Signature[d][m.opcode] = [i \in DOMAIN m.values |-> m.values[i].type]
  /\ \A i, j \in DOMAIN m.values : m.values[i].type = "new_id" /\ m.values[j].type = "new_id" => i = j
  /\ WORD * Len(Bytes(d, m)) < LengthWidth

\* Client and compositors, and the proxy for itself, say proper messages; the
\* proxy sends no fds of its own; of the events of a data source only send has
\* an fd.
ASSUME ScenariosAssumption ==
  \A n \in DOMAIN Scenarios :
    LET s == Scenarios[n]
        own == ToSet(s.fetch) \cup ToSet(s.replay) \cup ToSet(s.splice)
        events == UNION {ToSet(s.hosts[g]) : g \in DOMAIN s.hosts}
    IN /\ s.client \in Seq(ToSet(s.client))
       /\ s.hosts \in Seq(Seq(events)) /\ s.hosts # <<>>
       /\ \A ms \in {s.fetch, s.replay, s.splice} : ms \in Seq(ToSet(ms))
       /\ \A m \in ToSet(s.client) \cup own : Proper("request", m)
       /\ \A m \in own : Fds(m.values) = <<>>
       /\ \A m \in events :
            /\ Proper("event", m)
            /\ m.on = ProxyId.source => Len(Fds(m.values)) = IF m.opcode = Opcode.send THEN 1 ELSE 0

ASSUME SourceIdAssumption == ProxyId.source \in Nat \ {0}

\* The messages that recovery's waits pass on name no objects.
ASSUME AwaitedAssumption ==
  \A signature \in {Signature["event"][Opcode.toplevel_configure], Signature["event"][Opcode.configure],
                     Signature["request"][Opcode.ack_configure]} :
    ToSet(signature) \cap {"object", "new_id"} = {}

ASSUME SendAssumption == Signature["event"][Opcode.send] = <<"str", "fd">>

\* libwayland flushes some messages at once.
PeerFlushes(d) ==
  /\ d = "event" => up
  /\ \E n \in 1..(Len(Script(d)) - sent[d]) :
       LET ms == SubSeq(Script(d), sent[d] + 1, sent[d] + n)
       IN /\ \A m \in ToSet(ms) : m.after \subseteq HasRead(Other(d))
          /\ wire' = [wire EXCEPT ![d] = @ \o Batch(d, ms)]
          /\ sent' = [sent EXCEPT ![d] = @ + n]
  /\ UNCHANGED <<scenario, up, generation, read_buf, read_fds, got, unread, frozen, pc, todo,
                 current, reclaim, marks>>

PeerReads(d) ==
  /\ unread[d] > 0 /\ (d = "request" => up)
  /\ unread' = [unread EXCEPT ![d] = 0]
  /\ UNCHANGED <<scenario, up, generation, sent, wire, read_buf, read_fds, got, frozen, pc, todo,
                 current, reclaim, marks>>

\* A compositor that dies leaves its last events in the kernel; what it had
\* not read is gone with it.
HostDies ==
  /\ up /\ generation < Len(Played.hosts)
  /\ up' = FALSE
  /\ UNCHANGED <<scenario, generation, sent, channel, frozen, pc, todo, current, reclaim, marks>>

-----------------------------------------------------------------------------
\* Conn.

\* fill: one recv takes any number of words, and the fds that are with them.
fill(d) ==
  \E n \in 1..Len(wire[d]) :
    /\ read_buf' = [read_buf EXCEPT ![d] = @ \o Words(SubSeq(wire[d], 1, n))]
    /\ read_fds' = [read_fds EXCEPT ![d] = @ \o FdsOf(SubSeq(wire[d], 1, n))]
    /\ wire' = [wire EXCEPT ![d] = From(@, n + 1)]

Eof(d) == d = "event" /\ ~up /\ wire[d] = <<>>

\* A message to write towards the receivers of d, and the id it creates.
Out(d, words, fds, id) == [to |-> d, words |-> words, fds |-> fds, id |-> id, done |-> 0]

\* The requests the proxy makes for itself.
Own(ms) == [i \in DOMAIN ms |-> Out("request", Bytes("event", ms[i]), <<>>, ms[i].id)]

\* Wrong: a message for a compositor that is gone is tried again.
TriedAgain(d) == TRUE
Writable(d) == d = "event" \/ up

\* Wrong: a partial write counts as the whole message, or for a word too many.
WholeMessage(out, n) == Len(out.words)
OneTooMany(out, n) == out.done + n + 1
Written(out, n) == out.done + n

\* Wrong: every continuation carries the fds again.
EveryTime(out) == out.fds
fds_for_this_call(out) == IF out.done = 0 THEN out.fds ELSE <<>>

\* write_message: one send takes any number of words that there is room for.
WriteSome ==
  /\ todo # <<>> /\ Writable(todo[1].to)
  /\ LET out == todo[1]
         d == out.to
     IN \E n \in 1..(Len(out.words) - out.done) :
          LET done == Written(out, n)
              whole == done = Len(out.words)
              part == SubSeq(out.words, out.done + 1, out.done + n)
          IN /\ unread[d] + n <= Capacity
             /\ got' = [got EXCEPT ![d] = @ \o Packet(part, fds_for_this_call(out))]
             /\ unread' = [unread EXCEPT ![d] = @ + n]
             /\ todo' = IF whole THEN Tail(todo) ELSE [todo EXCEPT ![1].done = done]
             /\ current' = IF whole THEN current \cup ({out.id} \ {0, ProxyId.source}) ELSE current
             /\ reclaim' = IF whole /\ out.id = ProxyId.source THEN [reclaim EXCEPT !.source = TRUE]
                           ELSE reclaim
  /\ UNCHANGED <<scenario, up, generation, sent, wire, read_buf, read_fds, frozen, pc, marks>>

-----------------------------------------------------------------------------
\* The first message in the buffer of direction d.

Complete(d) == take_message(read_buf[d]) > 0
First(d) == SubSeq(read_buf[d], 1, take_message(read_buf[d]))
Header(d) == parse(read_buf[d])
Payload(d) == From(First(d), 3)
Is(d, id, opcode) == Header(d).sender_id = IdIn(d, id) /\ Header(d).opcode = opcode

Drain(d) == read_buf' = [read_buf EXCEPT ![d] = From(@, take_message(@) + 1)]

\* Nobody takes the fds of a message that is drained unread.
Unread(d) ==
  /\ Drain(d)
  /\ marks' = IF "fd" \in ToSet(Signature[d][Header(d).opcode])
              THEN [marks EXCEPT ![d] = @ \cup {"stray"}] ELSE marks
  /\ UNCHANGED <<wire, read_fds>>

PopFds(d, n) == read_fds' = [read_fds EXCEPT ![d] = From(@, n + 1)]

-----------------------------------------------------------------------------
\* relay_ready_messages.

Guest(d, id) == IF d = "event" THEN id - Shift ELSE id
Translates(d, id) == id = 0 \/ Guest(d, id) \in current
Translated(d, id) == IF id = 0 THEN 0 ELSE IF d = "event" THEN id - Shift ELSE id + Shift

Walk(d) == walk_signature(Payload(d), Signature[d][Header(d).opcode])

\* The sender is known, the arguments are walked and all translate.
Understood(d) ==
  /\ Guest(d, Header(d).sender_id) \in Played.known \cup current
  /\ Walk(d).ok
  /\ \A at \in ToSet(Walk(d).objects) : Translates(d, Payload(d)[at + 1])

Passes(d) == Understood(d) /\ Translates(d, Header(d).sender_id)

\* The proxy's own data source, whose events it keeps.
Synthetic(d) == d = "event" /\ reclaim.source /\ Header(d).sender_id = IdIn(d, ProxyId.source)

\* Ids in the first two words of a header and at the offsets of the walk.
Rewritten(d) ==
  LET at == {o + 3 : o \in ToSet(Walk(d).objects) \cup ({Walk(d).new_id} \ {NoOffset})} \cup {1}
  IN [i \in DOMAIN First(d) |-> IF i \in at THEN Translated(d, First(d)[i]) ELSE First(d)[i]]

NewIds(d) ==
  IF Walk(d).new_id = NoOffset THEN {} ELSE {Guest(d, Payload(d)[Walk(d).new_id + 1])}

Tees(d) ==
  /\ d = "event" /\ Header(d).opcode = Opcode.send
  /\ read_str(Payload(d), 0) \subseteq CacheableMime /\ Walk(d).fd_count > 0

\* The fds passed on: start_tee replaces the one of a send, or fails.
FdsPassed(d, teed) ==
  LET fds == SubSeq(read_fds[d], 1, Walk(d).fd_count)
  IN IF ~Tees(d) THEN fds ELSE IF teed THEN [i \in DOMAIN fds |-> fds[i] + Tee] ELSE <<>>

\* attempt_clipboard_splice, on the first serial after a recovery.
Splices(d) == d = "event" /\ reclaim.pending /\ Header(d).opcode \in Opcode.serials

DropMessage(d) ==
  /\ ~Synthetic(d) /\ ~Passes(d)
  /\ Unread(d)
  /\ UNCHANGED <<todo, current, reclaim>>

PassMessage(d) ==
  /\ ~Synthetic(d) /\ Passes(d)
  /\ Drain(d) /\ PopFds(d, Walk(d).fd_count)
  /\ current' = current \cup NewIds(d)
  /\ reclaim' = IF Splices(d) THEN [reclaim EXCEPT !.pending = FALSE] ELSE reclaim
  /\ \E teed \in {TRUE} \cup (IF TeeMayFail /\ Tees(d) THEN {FALSE} ELSE {}) :
       /\ marks' = IF teed THEN marks ELSE [marks EXCEPT ![d] = @ \cup {"tee"}]
       /\ todo' = (IF Splices(d) /\ Cached # {} THEN Own(Played.splice) ELSE <<>>) \o
                  (IF d = "request" /\ frozen THEN <<>>
                   ELSE <<Out(d, Rewritten(d), FdsPassed(d, teed), 0)>>)
  /\ UNCHANGED wire

\* Wrong: a request for what is not cached leaves its fd behind.
ServedFds(d) == IF read_str(Payload(d), 0) \subseteq Cached THEN 1 ELSE 0
\* send takes its fd, whether or not it can be served from the cache.
SyntheticFds(d) == 1

handle_synthetic_clipboard_event(d) ==
  /\ Synthetic(d)
  /\ Drain(d)
  /\ PopFds(d, IF Header(d).opcode = Opcode.send THEN SyntheticFds(d) ELSE 0)
  /\ reclaim' = IF Header(d).opcode = Opcode.cancelled THEN [reclaim EXCEPT !.source = FALSE] ELSE reclaim
  /\ UNCHANGED <<wire, marks, todo, current>>

\* One message of the direction that is relayed.
RelayOne ==
  /\ pc \in Direction /\ todo = <<>> /\ Complete(pc)
  /\ DropMessage(pc) \/ PassMessage(pc) \/ handle_synthetic_clipboard_event(pc)
  /\ UNCHANGED <<scenario, up, generation, sent, got, unread, frozen, pc>>

\* Wrong: one message per read.
AnyTime(d) == TRUE
NothingReady(d) == ~Complete(d)

RelayEnds ==
  /\ pc \in Direction /\ todo = <<>> /\ NothingReady(pc)
  /\ pc' = "select"
  /\ UNCHANGED <<scenario, up, generation, sent, channel, frozen, todo, current, reclaim, marks>>

\* The compositor is gone: a message for it is given up.
RelayWriteFails ==
  /\ pc \in Direction /\ todo # <<>> /\ ~Writable(todo[1].to)
  /\ todo' = Tail(todo)
  /\ UNCHANGED <<scenario, up, generation, sent, channel, frozen, pc, current, reclaim, marks>>

-----------------------------------------------------------------------------
\* The select loop of run_connection.

SelectFills(d) ==
  /\ pc = "select" /\ (d = "event" => ~frozen)
  /\ fill(d)
  /\ pc' = d
  /\ marks' = [marks EXCEPT ![d] = @ \ {"left"}]
  /\ UNCHANGED <<scenario, up, generation, sent, got, unread, frozen, todo, current, reclaim>>

Freeze ==
  /\ pc = "select" /\ ~frozen /\ Eof("event")
  /\ frozen' = TRUE
  /\ UNCHANGED <<scenario, up, generation, sent, channel, pc, todo, current, reclaim, marks>>

\* A new Conn and a new compositor; recovery asks for its registry.
Reconnect ==
  /\ pc = "select" /\ frozen /\ generation < Len(Played.hosts)
  /\ up' = TRUE /\ generation' = generation + 1
  /\ sent' = [sent EXCEPT !["event"] = 0]
  /\ wire' = [wire EXCEPT !["event"] = <<>>]
  /\ read_buf' = [read_buf EXCEPT !["event"] = <<>>]
  /\ read_fds' = [read_fds EXCEPT !["event"] = <<>>]
  /\ got' = [got EXCEPT !["request"] = <<>>]
  /\ unread' = [unread EXCEPT !["request"] = 0]
  /\ marks' = [marks EXCEPT !["request"] = @ \ {"cut"}]
  /\ pc' = "fetch" /\ todo' = Own(Played.fetch)
  /\ current' = {1}
  /\ reclaim' = [reclaim EXCEPT !.source = FALSE]
  /\ UNCHANGED <<scenario, frozen>>

-----------------------------------------------------------------------------
\* next_message in the waits of recovery.

WaitsFor == IF pc = "ack" THEN "request" ELSE "event"
Waits == pc \in {"fetch", "configure", "ack"} /\ todo = <<>>

WaitFills ==
  /\ Waits /\ ~Complete(WaitsFor)
  /\ fill(WaitsFor)
  /\ UNCHANGED <<scenario, up, generation, sent, got, unread, frozen, pc, todo, current, reclaim, marks>>

\* Relaying resumes; what the waits left in the buffers stays there.
Resume ==
  /\ pc' = "select" /\ frozen' = FALSE /\ todo' = <<>>
  /\ reclaim' = [reclaim EXCEPT !.pending = TRUE]

MarkLeft(ms) ==
  [d \in Direction |-> IF Complete(d) THEN ms[d] \cup {"left"} ELSE ms[d]]

\* One message is taken in a wait: passed on if it is awaited, else dropped.
\* A conversation has one toplevel at most, the last thing that is replayed, so
\* the wait for ack_configure is the last one; with more of them the code
\* waits in between, once for each.
WaitTakes ==
  /\ Waits /\ Complete(WaitsFor)
  /\ LET d == WaitsFor
         relayed == <<Out(d, <<Translated(d, First(d)[1])>> \o From(First(d), 2), <<>>, 0)>>
     IN CASE pc = "fetch" /\ Is(d, ProxyId.sync, Opcode.done) ->
               Unread(d) /\ pc' = "configure" /\ todo' = Own(Played.replay)
          [] pc = "configure" /\ Is(d, ProxyId.toplevel, Opcode.toplevel_configure) ->
               Unread(d) /\ pc' = pc /\ todo' = relayed
          [] pc = "configure" /\ Is(d, ProxyId.surface, Opcode.configure) ->
               Unread(d) /\ pc' = "ack" /\ todo' = relayed
          [] pc = "ack" /\ Is(d, ProxyId.surface, Opcode.ack_configure) ->
               Unread(d) /\ pc' = "acked" /\ todo' = relayed
          [] OTHER -> Unread(d) /\ pc' = pc /\ todo' = <<>>
  /\ UNCHANGED <<scenario, up, generation, sent, got, unread, frozen, current, reclaim>>

\* Recovery is done with its waits: ack_configure was forwarded, or the
\* compositor was lost in the wait for configure.
Recovered ==
  /\ todo = <<>>
  /\ pc = "acked" \/ (pc = "configure" /\ ~Complete("event") /\ Eof("event"))
  /\ Resume
  /\ marks' = MarkLeft(marks)
  /\ UNCHANGED <<scenario, up, generation, sent, channel, current>>

\* A wait of 5 s is over, possibly in the middle of a write it makes.
Cuttable == WriteMayBeCut /\ (pc \in {"ack", "acked"} \/ todo[1].to = "event")

WaitTimesOut ==
  /\ pc \in {"configure", "ack", "acked"} /\ (todo = <<>> => pc # "acked")
  /\ todo # <<>> => Cuttable
  /\ Resume
  /\ marks' = MarkLeft(IF todo # <<>> /\ todo[1].done > 0
                       THEN [marks EXCEPT ![todo[1].to] = @ \cup {"cut"}] ELSE marks)
  /\ UNCHANGED <<scenario, up, generation, sent, channel, current>>

\* Without a registry recovery fails, and the connection stays frozen.
FetchFails ==
  /\ pc = "fetch" /\ ~up
  /\ todo # <<>> \/ (~Complete("event") /\ Eof("event"))
  /\ pc' = "select" /\ todo' = <<>>
  /\ UNCHANGED <<scenario, up, generation, sent, channel, frozen, current, reclaim, marks>>

\* Requests that cannot be written recreate nothing; without the last one,
\* the commit, there is no wait.
ReplayFails ==
  /\ pc \in {"configure", "acked"} /\ todo # <<>> /\ ~Writable(todo[1].to)
  /\ Resume
  /\ marks' = MarkLeft(marks)
  /\ UNCHANGED <<scenario, up, generation, sent, channel, current>>

-----------------------------------------------------------------------------
Peers == \E d \in Direction : PeerFlushes(d) \/ PeerReads(d)

Proxy ==
  \/ WriteSome \/ RelayOne \/ RelayEnds \/ RelayWriteFails
  \/ \E d \in Direction : SelectFills(d)
  \/ Freeze \/ Reconnect
  \/ WaitFills \/ WaitTakes \/ Recovered \/ WaitTimesOut \/ FetchFails \/ ReplayFails

Next == Peers \/ HostDies \/ Proxy

(***************************************************************************)
(* Fairness.  The task goes on while it can, and its waits end by          *)
(* themselves.  Both peers keep reading their sockets, also while one of   *)
(* their own writes waits.  Nothing is assumed of what they send.          *)
(***************************************************************************)
Spec == Init /\ [][Next]_vars
FairSpec == Spec /\ WF_vars(Proxy) /\ \A d \in Direction : WF_vars(PeerReads(d))

-----------------------------------------------------------------------------
(***************************************************************************)
(* The state of Conn and of the task: a message that is being written is   *)
(* never written past its end, only the first one is begun, and no queue   *)
(* holds more than it can.                                                 *)
(***************************************************************************)
TypeOK ==
  /\ pc \in Direction \cup {"select", "fetch", "configure", "ack", "acked"}
  /\ frozen = (pc \in {"fetch", "configure", "ack", "acked"}) \/ pc \in Direction \cup {"select"}
  /\ \A i \in DOMAIN todo :
       todo[i].done \in 0..(IF i = 1 THEN Len(todo[i].words) - 1 ELSE 0)
  /\ \A d \in Direction :
       /\ unread[d] \in 0..Capacity /\ unread[d] <= Len(got[d])
       /\ sent[d] \in 0..Len(Script(d))
  /\ reclaim \in [pending : BOOLEAN, source : BOOLEAN]
  /\ \A d \in Direction : marks[d] \subseteq {"stray", "tee", "cut", "left"}

\* Everything the senders of d may have said, on this connection or before.
Said(d) == IF d = "request" THEN Played.client ELSE FlattenSeq(SubSeq(Played.hosts, 1, generation))

\* What the proxy says for itself.
OwnWords(d) ==
  IF d = "request" THEN {Bytes("event", m) : m \in ToSet(Played.fetch \o Played.replay \o Played.splice)}
  ELSE {}
Meant(d, words) == {k \in DOMAIN Said(d) : Bytes(Other(d), Said(d)[k]) = words}
BeingWritten(d) ==
  IF todo # <<>> /\ todo[1].to = d THEN SubSeq(todo[1].words, 1, todo[1].done) ELSE <<>>

\* Where the messages ms may have been said, those of the proxy left out.
Places(d, ms) ==
  LET relayed == {i \in DOMAIN ms : ms[i] \notin OwnWords(d)}
  IN {at \in [relayed -> UNION {Meant(d, ms[i]) : i \in relayed}] :
        /\ \A i \in relayed : at[i] \in Meant(d, ms[i])
        /\ \A i, j \in relayed : i < j => at[i] < at[j]}

(***************************************************************************)
(* Whatever the reads and partial writes, a receiver is given whole        *)
(* messages that were sent, in the order they were sent, with their ids    *)
(* translated, and of the next one only what has been written.  (Not after *)
(* a timeout has ended a write half way.)                                  *)
(***************************************************************************)
Faithful ==
  \A d \in Direction : "cut" \notin marks[d] /\ Writable(d) =>
    LET words == Words(got[d])
        ms == Messages(words)
    IN words = FlattenSeq(ms) \o BeingWritten(d) /\ Places(d, ms) # {}

Replaced(d, m) ==
  d = "event" /\ m.opcode = Opcode.send /\ m.values[1].word \in CacheableMime
FdsMeant(d, m) == [i \in DOMAIN Fds(m.values) |-> Fds(m.values)[i] + IF Replaced(d, m) THEN Tee ELSE 0]
OwnFds(d) ==
  LET ms == Messages(Words(got[d]))
  IN \E at \in Places(d, ms) :
       FdsOf(got[d]) =
         FlattenSeq([i \in DOMAIN ms |-> IF i \in DOMAIN at THEN FdsMeant(d, Said(d)[at[i]]) ELSE <<>>])
BetweenMessages(d) == Writable(d) /\ "cut" \notin marks[d] /\ BeingWritten(d) = <<>>

(***************************************************************************)
(* Every message is delivered with its own file descriptors, no more and   *)
(* no fewer, and a copied selection with the tee's: as long as no message  *)
(* with fds was dropped, and every tee could be set up.                    *)
(***************************************************************************)
FdsFollow ==
  \A d \in Direction : BetweenMessages(d) /\ marks[d] \cap {"stray", "tee"} = {} => OwnFds(d)

\* The messages that were sent and not yet taken, the last Waiting(d) ones.
Waiting(d) == Len(Messages(read_buf[d] \o Words(wire[d])))
FdsWaiting(d) ==
  FlattenSeq([i \in 1..Waiting(d) |-> Fds(Script(d)[sent[d] - Waiting(d) + i].values)])

(***************************************************************************)
(* The fds that have arrived are those of the messages still to be taken,  *)
(* in their order, behind one for each fd that was dropped unread: fds     *)
(* are never lost, and never taken by a message that declares none.        *)
(***************************************************************************)
FdsAccounted ==
  \A d \in Direction :
    LET fds == read_fds[d] \o FdsOf(wire[d])
    IN /\ IsSuffix(FdsWaiting(d), fds)
       /\ "stray" \notin marks[d] => fds = FdsWaiting(d)

(***************************************************************************)
(* The loop goes back to its select only when it has relayed every         *)
(* complete message it has, unless one of recovery's waits left it there:  *)
(* relay_ready_messages is only called after new bytes.                    *)
(***************************************************************************)
LeftOnlyByWaits ==
  pc = "select" =>
    \A d \in Direction : Complete(d) /\ (frozen => d = "request") => "left" \in marks[d]

\* The fetch of the registry is the one wait without a timeout.
AwaitsRegistry == pc = "fetch" /\ todo = <<>> /\ up

(***************************************************************************)
(* Whatever is sent is taken by the proxy in the end, across any number of *)
(* crashes, unless a wait of recovery has left it in the buffer, or a new  *)
(* compositor lives and never answers recovery's get_registry and sync.    *)
(***************************************************************************)
AllTaken ==
  \A d \in Direction :
    []<>((wire[d] = <<>> /\ (Complete(d) => "left" \in marks[d])) \/ AwaitsRegistry)

(***************************************************************************)
(* Every message that is delivered comes with its own file descriptors     *)
(* (src/lib.rs, SignatureWalk: "correctly attribute file descriptors").    *)
(***************************************************************************)
FdsAreOwn == \A d \in Direction : BetweenMessages(d) => OwnFds(d)
=============================================================================
