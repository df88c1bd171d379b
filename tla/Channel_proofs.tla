--------------------------- MODULE Channel_proofs ---------------------------
(***************************************************************************)
(* Proofs about Channel: for every script of client and compositors, every *)
(* kernel queue and every cut into reads and writes,                       *)
(*   - no complete message is left behind in a buffer but by the waits of  *)
(*     recovery;                                                           *)
(*   - the file descriptors that have arrived are those of the messages    *)
(*     that are still to be taken;                                         *)
(*   - no write goes past its message, and no queue past its capacity;     *)
(*   - a receiver is given whole messages that were said, in their order   *)
(*     and with their ids translated, and each with its own fds.           *)
(* In between: FlattenSeq, walk_signature, take_message and Messages, and  *)
(* what they return for messages as they are encoded.                      *)
(***************************************************************************)
EXTENDS Channel, TLAPS, SequenceTheorems, FiniteSetTheorems

\* No complete message waits in direction d that nobody will look at: what
\* comes from a compositor that is gone is not looked at while frozen.
Taken(d) == Complete(d) /\ (frozen => d = "request") => "left" \in marks[d]

(***************************************************************************)
(* The inductive invariant.  That both directions are drained in the       *)
(* select loop is not inductive: while one direction is relayed only the   *)
(* other one is, and recovery's first wait, which can fail back into the   *)
(* select loop, must find the requests drained.                            *)
(***************************************************************************)
Phase ==
  /\ pc \in Direction \cup {"select", "fetch", "configure", "ack", "acked"}
  /\ pc \in {"fetch", "configure", "ack", "acked"} => frozen
  /\ pc = "event" => ~frozen
  /\ frozen \in BOOLEAN

Drained ==
  /\ pc = "select" => \A d \in Direction : Taken(d)
  /\ pc \in Direction => Taken(Other(pc))
  /\ pc = "fetch" => Taken("request")

Buffers == DOMAIN read_buf = Direction /\ DOMAIN marks = Direction

LInv == Phase /\ Drained /\ Buffers

-----------------------------------------------------------------------------
\* Taken depends on the buffer and the marks of its own direction only.
LEMMA TakenKept ==
  ASSUME NEW d \in Direction, Taken(d), frozen => frozen', read_buf'[d] = read_buf[d],
         "left" \in marks[d] => "left" \in marks'[d]
  PROVE  Taken(d)'
BY DEF Taken, Complete

\* fill adds to the buffer of one direction.
LEMMA FillIs ==
  ASSUME Buffers, NEW d \in Direction, fill(d)
  PROVE  /\ DOMAIN read_buf' = Direction
         /\ \A e \in Direction \ {d} : read_buf'[e] = read_buf[e]
BY DEF Buffers, fill

\* A message that is taken shortens the buffer of one direction; what is
\* marked as left stays marked.
LEMMA DrainIs ==
  ASSUME Buffers, NEW d \in Direction, Drain(d)
  PROVE  /\ DOMAIN read_buf' = Direction
         /\ \A e \in Direction \ {d} : read_buf'[e] = read_buf[e]
BY DEF Buffers, Drain

\* A message that is drained unread marks at most that.
LEMMA UnreadIs ==
  ASSUME Buffers, NEW d \in Direction, Unread(d)
  PROVE  /\ Drain(d) /\ DOMAIN marks' = Direction
         /\ \A e \in Direction : "left" \in marks[e] => "left" \in marks'[e]
<1>1. marks' = marks \/ marks' = [marks EXCEPT ![d] = @ \cup {"stray"}]
  BY DEF Unread
<1>. QED BY <1>1 DEF Unread, Buffers

\* Both directions are marked where recovery ends.
LEMMA ResumeIs ==
  ASSUME LInv, NEW ms, DOMAIN ms = Direction, Resume, marks' = MarkLeft(ms), UNCHANGED read_buf
  PROVE  LInv'
<1>1. pc' = "select" /\ frozen' = FALSE /\ DOMAIN marks' = Direction
  BY DEF Resume, MarkLeft
<1>2. \A d \in Direction : Complete(d)' => "left" \in marks'[d]
  BY DEF MarkLeft, Complete
<1>. QED BY <1>1, <1>2 DEF LInv, Phase, Drained, Buffers, Taken, Direction

-----------------------------------------------------------------------------
\* At first there is nothing to take.
LEMMA InitDrained == Init => LInv
<1> SUFFICES ASSUME Init PROVE LInv
  OBVIOUS
<1>1. \A d \in Direction : ~Complete(d)
  BY DEF Init, Both, Complete, take_message, WORD, HEADER_LEN, Direction
<1>. QED BY <1>1 DEF Init, LInv, Phase, Drained, Taken, Buffers, Both, Direction

\* The steps that touch neither buffers nor marks nor where the task is.
LEMMA QuietStep ==
  ASSUME LInv, UNCHANGED <<pc, frozen, read_buf, marks>>
  PROVE  LInv'
BY DEF LInv, Phase, Drained, Taken, Buffers, Complete

\* One message of the direction that is relayed.
LEMMA RelayOneStep == ASSUME LInv, RelayOne PROVE LInv'
<1>1. pc \in Direction /\ pc' = pc /\ frozen' = frozen
  BY DEF RelayOne
<1>2. /\ DOMAIN read_buf' = Direction /\ DOMAIN marks' = Direction
      /\ \A e \in Direction \ {pc} : read_buf'[e] = read_buf[e]
      /\ \A e \in Direction : "left" \in marks[e] => "left" \in marks'[e]
  <2>1. CASE DropMessage(pc)
    BY <1>1, <2>1, UnreadIs, DrainIs DEF LInv, DropMessage
  <2>2. CASE PassMessage(pc)
    <3>1. Drain(pc) /\ (marks' = marks \/ marks' = [marks EXCEPT ![pc] = @ \cup {"tee"}])
      BY <2>2 DEF PassMessage
    <3>. QED BY <1>1, <3>1, DrainIs DEF LInv, Buffers
  <2>3. CASE handle_synthetic_clipboard_event(pc)
    BY <1>1, <2>3, DrainIs DEF LInv, Buffers, handle_synthetic_clipboard_event
  <2>. QED BY <2>1, <2>2, <2>3 DEF RelayOne
<1>3. Other(pc) \in Direction \ {pc}
  BY <1>1 DEF Other, Direction
<1>4. Taken(Other(pc))'
  BY <1>1, <1>2, <1>3, TakenKept DEF LInv, Drained, Phase
<1>. QED BY <1>1, <1>2, <1>4 DEF LInv, Phase, Drained, Buffers, Direction, Other, Taken, Complete

\* Relaying ends when the direction is drained.
LEMMA RelayEndsStep == ASSUME LInv, RelayEnds PROVE LInv'
<1>1. pc \in Direction /\ ~Complete(pc) /\ pc' = "select" /\ UNCHANGED <<frozen, read_buf, marks>>
  BY DEF RelayEnds, NothingReady, channel
<1>2. \A d \in Direction : Taken(d)
  BY <1>1 DEF LInv, Drained, Taken, Direction, Other
<1>. QED BY <1>1, <1>2 DEF LInv, Phase, Drained, Taken, Buffers, Complete, Direction

\* New bytes: the direction they came in is relayed.
LEMMA SelectFillsStep == ASSUME LInv, NEW d \in Direction, SelectFills(d) PROVE LInv'
<1>1. /\ pc = "select" /\ (d = "event" => ~frozen) /\ pc' = d /\ frozen' = frozen
      /\ marks' = [marks EXCEPT ![d] = @ \ {"left"}] /\ fill(d)
  BY DEF SelectFills
<1>2. Other(d) \in Direction \ {d}
  BY DEF Other, Direction
<1>3. /\ DOMAIN read_buf' = Direction /\ read_buf'[Other(d)] = read_buf[Other(d)]
      /\ DOMAIN marks' = Direction /\ marks'[Other(d)] = marks[Other(d)]
  BY <1>1, <1>2, FillIs DEF LInv, Buffers
<1>4. Taken(Other(d))'
  BY <1>1, <1>2, <1>3, TakenKept DEF LInv, Drained, Phase
<1>. QED BY <1>1, <1>3, <1>4 DEF LInv, Phase, Drained, Buffers, Direction, Taken, Complete, Other

\* The end of file: only requests matter from here on.
LEMMA FreezeStep == ASSUME LInv, Freeze PROVE LInv'
<1>1. pc = "select" /\ frozen' = TRUE /\ UNCHANGED <<pc, read_buf, marks>>
  BY DEF Freeze, channel
<1>. QED BY <1>1 DEF LInv, Phase, Drained, Taken, Buffers, Complete, Direction

\* A new Conn has an empty buffer; the client's is kept.
LEMMA ReconnectStep == ASSUME LInv, Reconnect PROVE LInv'
<1>1. /\ pc = "select" /\ pc' = "fetch" /\ frozen /\ frozen' = frozen
      /\ read_buf' = [read_buf EXCEPT !["event"] = <<>>]
      /\ marks' = [marks EXCEPT !["request"] = @ \ {"cut"}]
  BY DEF Reconnect
<1>2. /\ read_buf'["request"] = read_buf["request"]
      /\ "left" \in marks["request"] => "left" \in marks'["request"]
  BY <1>1 DEF LInv, Buffers, Direction
<1>3. Taken("request")'
  BY <1>1, <1>2, TakenKept DEF LInv, Drained, Phase, Direction
<1>. QED BY <1>1, <1>3 DEF LInv, Phase, Drained, Buffers, Direction

\* Recovery's waits read what comes from the compositor or, in the last of
\* them, from the client.
LEMMA WaitFillsStep == ASSUME LInv, WaitFills PROVE LInv'
<1>1. /\ pc \in {"fetch", "configure", "ack"} /\ fill(WaitsFor)
      /\ UNCHANGED <<pc, frozen, marks>>
  BY DEF WaitFills, Waits
<1>2. WaitsFor \in Direction /\ (pc = "fetch" => WaitsFor = "event")
  BY DEF WaitsFor, Direction
<1>3. /\ DOMAIN read_buf' = Direction
      /\ pc = "fetch" => read_buf'["request"] = read_buf["request"]
  BY <1>1, <1>2, FillIs DEF LInv, Direction
<1>4. pc = "fetch" => Taken("request")'
  BY <1>1, <1>3, TakenKept DEF LInv, Drained, Phase, Direction
<1>. QED BY <1>1, <1>3, <1>4 DEF LInv, Phase, Drained, Buffers, Direction

\* What a wait takes shortens the buffer; what it leaves is seen when recovery ends.
LEMMA WaitTakesStep == ASSUME LInv, WaitTakes PROVE LInv'
<1>1. /\ pc \in {"fetch", "configure", "ack"} /\ Unread(WaitsFor) /\ frozen' = frozen
      /\ pc' \in {"configure", "ack", "acked"} \/ pc' = pc
  BY DEF WaitTakes, Waits
<1>2. WaitsFor \in Direction /\ (pc = "fetch" => WaitsFor = "event")
  BY DEF WaitsFor, Direction
<1>3. /\ DOMAIN read_buf' = Direction /\ DOMAIN marks' = Direction
      /\ pc = "fetch" => read_buf'["request"] = read_buf["request"]
      /\ "left" \in marks["request"] => "left" \in marks'["request"]
  BY <1>1, <1>2, UnreadIs, DrainIs DEF LInv, Direction
<1>4. pc' = "fetch" => Taken("request")'
  BY <1>1, <1>3, TakenKept DEF LInv, Drained, Phase, Direction
<1>. QED BY <1>1, <1>3, <1>4 DEF LInv, Phase, Drained, Buffers, Direction

\* Without a registry the connection is frozen as before.
LEMMA FetchFailsStep == ASSUME LInv, FetchFails PROVE LInv'
<1>1. pc = "fetch" /\ pc' = "select" /\ UNCHANGED <<frozen, read_buf, marks>>
  BY DEF FetchFails, channel
<1>. QED BY <1>1 DEF LInv, Phase, Drained, Taken, Buffers, Complete, Direction

\* The ends of recovery mark what they leave.
LEMMA RecoveryEndsStep == ASSUME LInv, Recovered \/ WaitTimesOut \/ ReplayFails PROVE LInv'
<1>1. CASE Recovered
  BY <1>1, ResumeIs DEF Recovered, channel, LInv, Buffers
<1>2. CASE ReplayFails
  BY <1>2, ResumeIs DEF ReplayFails, channel, LInv, Buffers
<1>3. CASE WaitTimesOut
  <2> DEFINE ms == IF todo # <<>> /\ todo[1].done > 0
                   THEN [marks EXCEPT ![todo[1].to] = @ \cup {"cut"}] ELSE marks
  <2>1. DOMAIN ms = Direction
    BY DEF LInv, Buffers
  <2>2. Resume /\ marks' = MarkLeft(ms) /\ UNCHANGED read_buf
    BY <1>3 DEF WaitTimesOut, channel
  <2> HIDE DEF ms
  <2>. QED BY <2>1, <2>2, ResumeIs
<1>. QED BY <1>1, <1>2, <1>3

\* Every step keeps the invariant.
LEMMA DrainedStep == LInv /\ [Next]_vars => LInv'
<1> SUFFICES ASSUME LInv, [Next]_vars PROVE LInv'
  OBVIOUS
<1>1. CASE Peers \/ HostDies \/ WriteSome \/ RelayWriteFails \/ UNCHANGED vars
  <2>1. UNCHANGED <<pc, frozen, read_buf, marks>>
    BY <1>1 DEF Peers, PeerFlushes, PeerReads, HostDies, WriteSome, RelayWriteFails, vars, channel
  <2>. QED BY <2>1, QuietStep
<1>2. CASE \E d \in Direction : SelectFills(d)
  BY <1>2, SelectFillsStep
<1>. QED BY <1>1, <1>2, RelayOneStep, RelayEndsStep, FreezeStep, ReconnectStep, WaitFillsStep,
            WaitTakesStep, FetchFailsStep, RecoveryEndsStep DEF Next, Proxy

(***************************************************************************)
(* run_connection goes back to its select with a complete message in hand  *)
(* only if one of recovery's waits had left it there.                      *)
(***************************************************************************)
THEOREM OnlyWaitsLeaveMessages == Spec => []LeftOnlyByWaits
<1>1. LInv => LeftOnlyByWaits
  BY DEF LInv, Drained, Taken, LeftOnlyByWaits
<1>. QED BY <1>1, InitDrained, DrainedStep, PTL DEF Spec

-----------------------------------------------------------------------------
\* A set of naturals has a least element.
LEMMA Least ==
  ASSUME NEW T \in SUBSET Nat, T # {}
  PROVE  \E m \in T : \A n \in T : m <= n
<1> DEFINE Below == {0..n : n \in T}
<1>1. \A n \in Nat : IsFiniteSet(0..n)
  BY FS_Interval
<1>2. Below \subseteq FiniteSubsetsOf(Nat)
  BY <1>1 DEF FiniteSubsetsOf
<1>3. PICK x \in Below : \A y \in Below : ~ (<<y, x>> \in StrictSubsetOrdering(Nat))
  <2>1. Below # {}
    OBVIOUS
  <2> HIDE DEF Below
  <2>. QED BY <1>2, <2>1, FS_StrictSubsetOrderingWellFounded, WFMin
<1>4. PICK m \in T : x = 0..m
  OBVIOUS
<1>5. ASSUME NEW n \in T, n < m PROVE FALSE
  <2>1. 0..n \in Below
    OBVIOUS
  <2>2. 0..n \subseteq x /\ 0..n # x /\ x \subseteq Nat
    BY <1>4, <1>5
  <2>3. <<0..n, x>> \in StrictSubsetOrdering(Nat)
    BY <2>2 DEF StrictSubsetOrdering
  <2>. QED BY <1>3, <2>1, <2>3
<1>. QED BY <1>5

\* Induction, over a set.
LEMMA AllNaturals ==
  ASSUME NEW Good, 0 \in Good, \A k \in Nat : k \in Good => k + 1 \in Good
  PROVE  \A k \in Nat : k \in Good
<1> DEFINE Bad == {k \in Nat : k \notin Good}
<1>1. SUFFICES ASSUME Bad # {} PROVE FALSE
  OBVIOUS
<1>2. PICK m \in Bad : \A k \in Bad : m <= k
  <2> HIDE DEF Bad
  <2>1. Bad \in SUBSET Nat
    BY DEF Bad
  <2>. QED BY <1>1, <2>1, Least
<1>3. m # 0 /\ m - 1 \in Nat /\ ~(m <= m - 1)
  BY <1>2
<1>4. m - 1 \in Good
  BY <1>2, <1>3
<1>. QED BY <1>2, <1>3, <1>4

\* One more than a beginning.
LEMMA SubSeqAppend ==
  ASSUME NEW S, NEW s \in Seq(S), NEW k \in Nat, k + 1 <= Len(s)
  PROVE  /\ s[k + 1] \in S /\ SubSeq(s, 1, k) \in Seq(S)
         /\ SubSeq(s, 1, k + 1) = Append(SubSeq(s, 1, k), s[k + 1])
<1>1. k + 1 \in 1..Len(s) /\ (k + 1) - 1 = k
  OBVIOUS
<1>2. SubSeq(s, 1, k) \in Seq(S)
  OBVIOUS
<1>3. SubSeq(s, 1, k + 1) = SubSeq(s, 1, k) \o <<s[k + 1]>>
  BY <1>1, SubSeqRecursiveSecond
<1>. QED BY <1>1, <1>2, <1>3, AppendIsConcat, ElementOfSeq

-----------------------------------------------------------------------------
\* FlattenSeq.

\* f solves the recursion of FlattenSeq for the first n of s.
Flattens(f, s, n) == \A i \in 1..n : f[i] = IF i = 1 THEN s[i] ELSE f[i - 1] \o s[i]

\* The recursion of FlattenSeq has a solution, up to any position.
LEMMA FlatSolution ==
  ASSUME NEW s, NEW n \in Nat
  PROVE  \E f : f = [i \in 1..n |-> IF i = 1 THEN s[i] ELSE f[i - 1] \o s[i]]
<1> DEFINE Step(f, i) == IF i = 1 THEN s[i] ELSE f[i - 1] \o s[i]
<1> DEFINE Solved == {k \in Nat : \E f : f = [i \in 1..k |-> Step(f, i)]}
<1>1. 0 \in Solved
  <2>1. \E f : f = [i \in 1..0 |-> Step(f, i)]
    <3>1. [i \in 1..0 |-> 0] = [i \in 1..0 |-> Step([j \in 1..0 |-> 0], i)]
      OBVIOUS
    <3>. QED BY <3>1
  <2>. QED BY <2>1
<1>2. ASSUME NEW k \in Nat, k \in Solved PROVE k + 1 \in Solved
  <2>1. PICK f : f = [i \in 1..k |-> Step(f, i)]
    BY <1>2
  <2> DEFINE g == [i \in 1..(k + 1) |-> IF i = k + 1 THEN Step(f, i) ELSE f[i]]
  <2>2. \A i \in 1..(k + 1) : Step(g, i) = Step(f, i)
    OBVIOUS
  <2>3. \A i \in 1..k : f[i] = Step(f, i)
    BY <2>1
  <2>4. \A i \in 1..(k + 1) : g[i] = Step(f, i)
    <3> HIDE DEF Step
    <3>. QED BY <2>3
  <2>5. g = [i \in 1..(k + 1) |-> Step(g, i)]
    <3> HIDE DEF Step
    <3>. QED BY <2>2, <2>4
  <2>6. \E h : h = [i \in 1..(k + 1) |-> Step(h, i)]
    <3> HIDE DEF g, Step
    <3>. QED BY <2>5
  <2> HIDE DEF g, Step
  <2>. QED BY <2>6
<1>3. n \in Solved
  <2> HIDE DEF Solved
  <2>. QED BY <1>1, <1>2, AllNaturals
<1>. QED BY <1>3

\* FlattenSeq is what its recursion ends in.
LEMMA FlatBy ==
  ASSUME NEW T, NEW s \in Seq(T), s # <<>>
  PROVE  \E f : Flattens(f, s, Len(s)) /\ FlattenSeq(s) = f[Len(s)]
<1> DEFINE Step(f, i) == IF i = 1 THEN s[i] ELSE f[i - 1] \o s[i]
<1> DEFINE flatten == CHOOSE f : f = [i \in 1..Len(s) |-> Step(f, i)]
<1>1. Len(s) \in Nat /\ Len(s) # 0
  OBVIOUS
<1>2. FlattenSeq(s) = flatten[Len(s)]
  BY <1>1 DEF FlattenSeq
<1>3. \E f : f = [i \in 1..Len(s) |-> Step(f, i)]
  BY <1>1, FlatSolution
<1>4. flatten = [i \in 1..Len(s) |-> Step(flatten, i)]
  <2> HIDE DEF Step
  <2>. QED BY <1>3
<1> HIDE DEF flatten
<1>5. \A i \in 1..Len(s) : flatten[i] = Step(flatten, i)
  <2> HIDE DEF Step
  <2>. QED BY <1>4
<1>6. Flattens(flatten, s, Len(s))
  BY <1>5 DEF Flattens
<1>. QED BY <1>2, <1>6

\* s and t are the same in their first n.
Agree(s, t, n) == \A i \in 1..n : s[i] = t[i]

\* Two solutions agree as far as their sequences do.
LEMMA FlatAgree ==
  ASSUME NEW s, NEW t, NEW f, NEW g, NEW n \in Nat,
         Agree(s, t, n), Flattens(f, s, n), Flattens(g, t, n)
  PROVE  Agree(f, g, n)
<1> DEFINE Same == {k \in Nat : k \in 1..n => f[k] = g[k]}
<1>1. 0 \in Same
  OBVIOUS
<1>2. ASSUME NEW k \in Nat, k \in Same PROVE k + 1 \in Same
  <2>1. SUFFICES ASSUME k + 1 \in 1..n PROVE f[k + 1] = g[k + 1]
    OBVIOUS
  <2>2. CASE k = 0
    BY <2>1, <2>2 DEF Flattens, Agree
  <2>3. CASE k # 0
    <3>1. f[k] = g[k] /\ (k + 1) - 1 = k /\ k + 1 # 1
      BY <1>2, <2>1, <2>3
    <3>. QED BY <2>1, <3>1 DEF Flattens, Agree
  <2>. QED BY <2>2, <2>3
<1>3. \A k \in Nat : k \in Same
  <2> HIDE DEF Same
  <2>. QED BY <1>1, <1>2, AllNaturals
<1>. QED BY <1>3 DEF Agree

\* Of nothing, and of one.
LEMMA FlatNone == FlattenSeq(<<>>) = <<>>
BY DEF FlattenSeq

\* FlattenSeq of one sequence is that sequence.
LEMMA FlatOne ==
  ASSUME NEW S, NEW x \in Seq(S)
  PROVE  FlattenSeq(<<x>>) = x
<1>1. <<x>> \in Seq(Seq(S)) /\ <<x>> # <<>> /\ Len(<<x>>) = 1 /\ <<x>>[1] = x
  OBVIOUS
<1>2. PICK f : Flattens(f, <<x>>, Len(<<x>>)) /\ FlattenSeq(<<x>>) = f[Len(<<x>>)]
  BY <1>1, FlatBy
<1>3. f[1] = <<x>>[1]
  BY <1>1, <1>2 DEF Flattens
<1>. QED BY <1>1, <1>2, <1>3

\* The last one goes behind the others.
LEMMA FlatAppend ==
  ASSUME NEW S, NEW s \in Seq(Seq(S)), NEW x \in Seq(S)
  PROVE  FlattenSeq(Append(s, x)) = FlattenSeq(s) \o x
<1>1. CASE s = <<>>
  <2>1. Append(s, x) = <<x>>
    BY <1>1
  <2>. QED BY <1>1, <2>1, FlatOne, FlatNone
<1>2. CASE s # <<>>
  <2>1. PICK t : t = Append(s, x)
    OBVIOUS
  <2>2. /\ t \in Seq(Seq(S)) /\ t # <<>> /\ Len(t) = Len(s) + 1
        /\ \A i \in 1..Len(s) : s[i] = t[i]
        /\ t[Len(t)] = x
    BY <2>1, AppendProperties
  <2>3. Len(s) \in Nat /\ Len(s) # 0
    BY <1>2
  <2>4. PICK f : Flattens(f, s, Len(s)) /\ FlattenSeq(s) = f[Len(s)]
    BY <1>2, FlatBy
  <2>5. PICK g : Flattens(g, t, Len(t)) /\ FlattenSeq(t) = g[Len(t)]
    BY <2>2, FlatBy
  <2>6. Flattens(g, t, Len(s))
    BY <2>2, <2>3, <2>5 DEF Flattens
  <2>7. f[Len(s)] = g[Len(s)]
    <3>1. Len(s) \in Nat /\ Agree(s, t, Len(s))
      BY <2>2, <2>3 DEF Agree
    <3>2. Agree(f, g, Len(s))
      BY <2>4, <2>6, <3>1, FlatAgree
    <3>. QED BY <2>3, <3>2 DEF Agree
  <2>8. g[Len(t)] = g[Len(s)] \o x
    <3>1. Len(t) \in 1..Len(t) /\ Len(t) # 1 /\ Len(t) - 1 = Len(s)
      BY <2>2, <2>3
    <3>. QED BY <2>2, <2>5, <3>1 DEF Flattens
  <2>. QED BY <2>1, <2>4, <2>5, <2>7, <2>8
<1>. QED BY <1>1, <1>2

\* What holds of every sequence's beginnings holds of it.
LEMMA FlatIsSeq ==
  ASSUME NEW S, NEW s \in Seq(Seq(S))
  PROVE  FlattenSeq(s) \in Seq(S)
<1> DEFINE Good == {k \in Nat : k <= Len(s) => FlattenSeq(SubSeq(s, 1, k)) \in Seq(S)}
<1>1. 0 \in Good
  <2>1. SubSeq(s, 1, 0) = <<>>
    BY SubSeqEmpty
  <2>. QED BY <2>1, FlatNone, EmptySeq
<1>2. ASSUME NEW k \in Nat, k \in Good PROVE k + 1 \in Good
  <2>1. SUFFICES ASSUME k + 1 <= Len(s) PROVE FlattenSeq(SubSeq(s, 1, k + 1)) \in Seq(S)
    OBVIOUS
  <2>2. /\ s[k + 1] \in Seq(S) /\ SubSeq(s, 1, k) \in Seq(Seq(S))
        /\ SubSeq(s, 1, k + 1) = Append(SubSeq(s, 1, k), s[k + 1])
    BY <2>1, SubSeqAppend
  <2>3. FlattenSeq(SubSeq(s, 1, k)) \in Seq(S)
    BY <1>2, <2>1
  <2>4. FlattenSeq(Append(SubSeq(s, 1, k), s[k + 1])) = FlattenSeq(SubSeq(s, 1, k)) \o s[k + 1]
    BY <2>2, FlatAppend
  <2>. QED BY <2>2, <2>3, <2>4, ConcatProperties
<1>3. Len(s) \in Good
  <2>1. Len(s) \in Nat
    OBVIOUS
  <2> HIDE DEF Good
  <2>. QED BY <2>1, <1>1, <1>2, AllNaturals
<1>4. FlattenSeq(SubSeq(s, 1, Len(s))) \in Seq(S)
  BY <1>3
<1> HIDE DEF Good
<1>5. SubSeq(s, 1, Len(s)) = s
  BY SubSeqFull
<1>. QED BY <1>4, <1>5

\* What is flattened in two parts is flattened in one.
LEMMA FlatConcat ==
  ASSUME NEW S, NEW s \in Seq(Seq(S)), NEW t \in Seq(Seq(S))
  PROVE  FlattenSeq(s \o t) = FlattenSeq(s) \o FlattenSeq(t)
<1> DEFINE Good == {k \in Nat : k <= Len(t) =>
                      FlattenSeq(s \o SubSeq(t, 1, k)) = FlattenSeq(s) \o FlattenSeq(SubSeq(t, 1, k))}
<1>1. 0 \in Good
  <2>1. SubSeq(t, 1, 0) = <<>>
    BY SubSeqEmpty
  <2>2. FlattenSeq(s) \in Seq(S)
    BY FlatIsSeq
  <2>. QED BY <2>1, <2>2, FlatNone, ConcatEmptySeq
<1>2. ASSUME NEW k \in Nat, k \in Good PROVE k + 1 \in Good
  <2> DEFINE u == SubSeq(t, 1, k)
  <2>1. SUFFICES ASSUME k + 1 <= Len(t)
                 PROVE  FlattenSeq(s \o SubSeq(t, 1, k + 1)) = FlattenSeq(s) \o FlattenSeq(SubSeq(t, 1, k + 1))
    OBVIOUS
  <2>2. /\ t[k + 1] \in Seq(S) /\ u \in Seq(Seq(S))
        /\ SubSeq(t, 1, k + 1) = Append(u, t[k + 1])
    BY <2>1, SubSeqAppend
  <2>3. FlattenSeq(s \o u) = FlattenSeq(s) \o FlattenSeq(u)
    BY <1>2, <2>1
  <2> HIDE DEF u
  <2>4. s \o Append(u, t[k + 1]) = Append(s \o u, t[k + 1]) /\ s \o u \in Seq(Seq(S))
    BY <2>2, SMTT(60)
  <2>5. FlattenSeq(s \o Append(u, t[k + 1])) = (FlattenSeq(s) \o FlattenSeq(u)) \o t[k + 1]
    BY <2>2, <2>3, <2>4, FlatAppend, ZenonT(60)
  <2>6. FlattenSeq(Append(u, t[k + 1])) = FlattenSeq(u) \o t[k + 1]
    BY <2>2, FlatAppend
  <2>7. FlattenSeq(s) \in Seq(S) /\ FlattenSeq(u) \in Seq(S)
    BY <2>2, FlatIsSeq
  <2>8. \A x, y, z \in Seq(S) : (x \o y) \o z = x \o (y \o z)
    BY ConcatAssociative
  <2>9. (FlattenSeq(s) \o FlattenSeq(u)) \o t[k + 1] = FlattenSeq(s) \o (FlattenSeq(u) \o t[k + 1])
    BY <2>2, <2>7, <2>8, Zenon
  <2>. QED BY <2>2, <2>5, <2>6, <2>9
<1>3. Len(t) \in Good
  <2>1. Len(t) \in Nat
    OBVIOUS
  <2> HIDE DEF Good
  <2>. QED BY <2>1, <1>1, <1>2, AllNaturals
<1>4. FlattenSeq(s \o SubSeq(t, 1, Len(t))) = FlattenSeq(s) \o FlattenSeq(SubSeq(t, 1, Len(t)))
  BY <1>3
<1> HIDE DEF Good
<1>5. SubSeq(t, 1, Len(t)) = t
  BY SubSeqFull
<1>. QED BY <1>4, <1>5
-----------------------------------------------------------------------------
\* The walk over a message's arguments.

Argument == [type : STRING, word : Nat, len : Nat]

\* Before the first argument.
Unwalked == [ok |-> TRUE, at |-> 0, objects |-> <<>>, new_id |-> NoOffset, fd_count |-> 0, name |-> NoName]

\* The walk as far as the arguments in t, given those of every smaller set.
WalkStep(payload, signature, f, t) ==
  IF t = {} THEN Unwalked ELSE WalkArgument(payload, f[t \ {Max(t)}], signature[Max(t)])

\* f has the walk of the first n arguments, in any part.
Walks(f, payload, signature, n) == f = [t \in SUBSET (1..n) |-> WalkStep(payload, signature, f, t)]

\* walk_signature is a fold: its value is that of any solution of the recursion.
LEMMA WalkBy ==
  ASSUME NEW payload, NEW signature
  PROVE  walk_signature(payload, signature) =
           LET walked == CHOOSE f : f = [t \in SUBSET DOMAIN signature |->
                                           WalkStep(payload, signature, f, t)]
           IN walked[DOMAIN signature]
BY DEF walk_signature, FoldLeft, MapThenFoldSet, Unwalked, WalkStep

\* The greatest number of a set of the first k + 1, if k + 1 is one of them.
LEMMA MaxOfInterval ==
  ASSUME NEW k \in Nat, NEW t \in SUBSET (1..(k + 1)), k + 1 \in t
  PROVE  Max(t) = k + 1
<1>1. \A y \in t : k + 1 >= y
  OBVIOUS
<1>2. PICK x : x = Max(t)
  OBVIOUS
<1>3. x \in t /\ \A y \in t : x >= y
  BY <1>1, <1>2 DEF Max
<1>4. x >= k + 1 /\ k + 1 >= x /\ x \in 1..(k + 1)
  BY <1>1, <1>3
<1>. QED BY <1>2, <1>4

\* The recursion of the fold has a solution over all positions.
LEMMA WalkSolution ==
  ASSUME NEW payload, NEW signature, NEW n \in Nat
  PROVE  \E f : Walks(f, payload, signature, n)
<1> DEFINE Solved == {k \in Nat : \E f : f = [t \in SUBSET (1..k) |-> WalkStep(payload, signature, f, t)]}
<1>1. 0 \in Solved
  <2>1. [t \in SUBSET (1..0) |-> Unwalked] =
          [t \in SUBSET (1..0) |-> WalkStep(payload, signature, [u \in SUBSET (1..0) |-> Unwalked], t)]
    BY DEF WalkStep
  <2>2. \E f : f = [t \in SUBSET (1..0) |-> WalkStep(payload, signature, f, t)]
    BY <2>1
  <2>. QED BY <2>2
<1>2. ASSUME NEW k \in Nat, k \in Solved PROVE k + 1 \in Solved
  <2>1. PICK f : f = [t \in SUBSET (1..k) |-> WalkStep(payload, signature, f, t)]
    BY <1>2
  <2>2. PICK g : g = [t \in SUBSET (1..(k + 1)) |->
                        IF k + 1 \in t THEN WalkStep(payload, signature, f, t) ELSE f[t]]
    OBVIOUS
  <2>3. \A t \in SUBSET (1..k) : t \in SUBSET (1..(k + 1)) /\ k + 1 \notin t
    OBVIOUS
  <2>4. \A t \in SUBSET (1..k) : g[t] = f[t]
    BY <2>2, <2>3
  <2>5. ASSUME NEW t \in SUBSET (1..(k + 1))
        PROVE  WalkStep(payload, signature, g, t) = WalkStep(payload, signature, f, t)
    <3>1. CASE k + 1 \in t
      <4>1. Max(t) = k + 1 /\ t \ {k + 1} \in SUBSET (1..k)
        BY <3>1, MaxOfInterval
      <4>. QED BY <2>4, <4>1 DEF WalkStep
    <3>2. CASE k + 1 \notin t
      <4>1. t \in SUBSET (1..k)
        BY <3>2
      <4>2. t \ {Max(t)} \in SUBSET (1..k)
        BY <4>1
      <4>. QED BY <2>4, <4>2 DEF WalkStep
    <3>. QED BY <3>1, <3>2
  <2>6. ASSUME NEW t \in SUBSET (1..(k + 1))
        PROVE  g[t] = WalkStep(payload, signature, f, t)
    <3>1. CASE k + 1 \in t
      BY <2>2, <3>1
    <3>2. CASE k + 1 \notin t
      <4>1. t \in SUBSET (1..k) /\ g[t] = f[t]
        BY <2>2, <3>2
      <4>. QED BY <2>1, <4>1
    <3>. QED BY <3>1, <3>2
  <2>7. g = [t \in SUBSET (1..(k + 1)) |-> WalkStep(payload, signature, g, t)]
    BY <2>2, <2>5, <2>6
  <2>. QED BY <2>7
<1>3. n \in Solved
  <2> HIDE DEF Solved
  <2>. QED BY <1>1, <1>2, AllNaturals
<1>. QED BY <1>3 DEF Walks

\* One argument counts for one fd, if it is one.
LEMMA WalkArgumentIs ==
  ASSUME NEW payload, NEW walk, NEW type, DOMAIN walk = DOMAIN Unwalked,
         NEW w, w = WalkArgument(payload, walk, type)
  PROVE  /\ DOMAIN w = DOMAIN Unwalked
         /\ w.ok => walk.ok /\ w.fd_count = IF type = "fd" THEN walk.fd_count + 1 ELSE walk.fd_count
<1>1. DOMAIN walk = {"ok", "at", "objects", "new_id", "fd_count", "name"}
  BY DEF Unwalked
<1>. QED BY <1>1 DEF WalkArgument, Unwalked

\* As far as a walk gets, it counts the fds that the message brings.
LEMMA WalkCounts ==
  ASSUME NEW payload, NEW values \in Seq(Argument), NEW signature,
         signature = [i \in DOMAIN values |-> values[i].type],
         walk_signature(payload, signature).ok
  PROVE  walk_signature(payload, signature).fd_count = Len(Fds(values))
<1>1. PICK n \in Nat : n = Len(values)
  OBVIOUS
<1>2. DOMAIN values = 1..n /\ DOMAIN signature = 1..n /\ \A i \in 1..n : values[i] \in Argument
  BY <1>1
<1>3. PICK walked : walked = CHOOSE f : Walks(f, payload, signature, n)
  OBVIOUS
<1>4. walked = [t \in SUBSET (1..n) |-> WalkStep(payload, signature, walked, t)]
  <2>1. Walks(walked, payload, signature, n)
    BY <1>3, WalkSolution
  <2>. QED BY <2>1 DEF Walks
<1>5. walk_signature(payload, signature) = walked[1..n]
  BY <1>2, <1>3, WalkBy DEF Walks
<1>6. PICK given : given = [i \in DOMAIN values |-> FdOf(values[i])]
  OBVIOUS
<1>7. given \in Seq(Seq(Nat)) /\ Len(given) = n /\ \A i \in 1..n : given[i] = FdOf(values[i])
  <2>1. \A i \in 1..n : FdOf(values[i]) \in Seq(Nat)
    BY <1>2 DEF FdOf, Argument
  <2>. QED BY <1>2, <1>6, <2>1, IsASeq
<1> DEFINE Counted(k) ==
      LET w == walked[1..k]
      IN /\ DOMAIN w = DOMAIN Unwalked
         /\ w.ok => w.fd_count = Len(FlattenSeq(SubSeq(given, 1, k)))
<1> DEFINE Good == {k \in Nat : k <= n => Counted(k)}
<1>8. 0 \in Good
  <2>1. 1..0 = {} /\ 1..0 \in SUBSET (1..n)
    OBVIOUS
  <2>2. walked[1..0] = Unwalked
    BY <1>4, <2>1 DEF WalkStep
  <2>3. SubSeq(given, 1, 0) = <<>>
    BY SubSeqEmpty
  <2>4. Unwalked.fd_count = 0
    BY DEF Unwalked
  <2>5. Len(FlattenSeq(SubSeq(given, 1, 0))) = 0
    <3>1. FlattenSeq(SubSeq(given, 1, 0)) = <<>>
      BY <2>3, FlatNone, Zenon
    <3>. QED BY <3>1
  <2>6. Counted(0)
    BY <2>2, <2>4, <2>5
  <2>. QED BY <2>6
<1>9. ASSUME NEW k \in Nat, k \in Good PROVE k + 1 \in Good
  <2>1. SUFFICES ASSUME k + 1 <= n PROVE Counted(k + 1)
    OBVIOUS
  <2>2. Counted(k)
    BY <1>9, <2>1
  <2>3. /\ 1..(k + 1) \in SUBSET (1..n) /\ 1..(k + 1) # {} /\ k + 1 \in 1..(k + 1)
        /\ (1..(k + 1)) \ {k + 1} = 1..k
    BY <2>1
  <2>4. Max(1..(k + 1)) = k + 1
    BY <2>3, MaxOfInterval
  <2>5. walked[1..(k + 1)] = WalkArgument(payload, walked[1..k], signature[k + 1])
    <3>1. walked[1..(k + 1)] = WalkStep(payload, signature, walked, 1..(k + 1))
      BY <1>4, <2>3
    <3>. QED BY <2>3, <2>4, <3>1 DEF WalkStep
  <2>6. /\ given[k + 1] \in Seq(Nat) /\ SubSeq(given, 1, k) \in Seq(Seq(Nat))
        /\ SubSeq(given, 1, k + 1) = Append(SubSeq(given, 1, k), given[k + 1])
    BY <1>1, <1>7, <2>1, SubSeqAppend
  <2>7. FlattenSeq(SubSeq(given, 1, k + 1)) = FlattenSeq(SubSeq(given, 1, k)) \o given[k + 1]
    BY <2>6, FlatAppend
  <2>8. FlattenSeq(SubSeq(given, 1, k)) \in Seq(Nat)
    BY <2>6, FlatIsSeq
  <2>9. Len(FlattenSeq(SubSeq(given, 1, k + 1))) = Len(FlattenSeq(SubSeq(given, 1, k))) + Len(given[k + 1])
    BY <2>6, <2>7, <2>8, ConcatProperties, ZenonT(120)
  <2>10. Len(given[k + 1]) = IF signature[k + 1] = "fd" THEN 1 ELSE 0
    <3>1. k + 1 \in 1..n
      BY <2>1
    <3>2. signature[k + 1] = values[k + 1].type /\ given[k + 1] = FdOf(values[k + 1])
      BY <1>2, <1>7, <3>1
    <3>. QED BY <3>2 DEF FdOf
  <2>. QED BY <2>2, <2>5, <2>8, <2>9, <2>10, WalkArgumentIs
<1>10. n \in Good
  <2> HIDE DEF Good
  <2>. QED BY <1>8, <1>9, AllNaturals
<1>11. Counted(n)
  BY <1>10
<1>12. SubSeq(given, 1, n) = given
  BY <1>7, SubSeqFull
<1>. QED BY <1>5, <1>6, <1>11, <1>12 DEF Fds

-----------------------------------------------------------------------------
\* One message.

\* The arguments of a message, as words.
PayloadOf(d, m) == FlattenSeq([i \in DOMAIN m.values |-> Encoded(ValueIn(d, m.values[i]))])

\* A value is encoded as words.
LEMMA EncodedIs ==
  ASSUME NEW d \in Direction, NEW v \in Argument
  PROVE  Encoded(ValueIn(d, v)) \in Seq(Int)
<1>1. PICK w : w = ValueIn(d, v)
  OBVIOUS
<1>2. w \in [type : STRING, word : Int, len : Nat]
  BY <1>1 DEF ValueIn, IdIn, Shift, Argument
<1>3. WordsFor(w.len) \in Nat /\ WordsFor(w.len + 1) \in Nat /\ w.len + 1 \in Int /\ w.len \in Int /\ w.word \in Int
  BY <1>2 DEF WordsFor, WORD
<1>4. [i \in 1..WordsFor(w.len) |-> w.word] \in Seq(Int) /\ [i \in 1..WordsFor(w.len + 1) |-> w.word] \in Seq(Int)
  BY <1>3, IsASeq
<1>5. <<w.len>> \in Seq(Int) /\ <<w.len + 1>> \in Seq(Int)
  BY <1>3
<1>6. put_str(w) \in Seq(Int) /\ put_array(w) \in Seq(Int)
  BY <1>4, <1>5, ConcatProperties DEF put_str, put_array
<1>7. <<w.word>> \in Seq(Int) /\ <<>> \in Seq(Int)
  BY <1>3
<1>. QED BY <1>1, <1>6, <1>7 DEF Encoded

\* What is said of messages: typed values, and an opcode of 16 bits.
Typed(m) ==
  m.on \in Nat /\ m.opcode \in Nat /\ m.opcode < LengthWidth /\ m.values \in Seq(Argument)

\* The length of the message fits into its header.
Fits(d, m) == WORD * Len(Bytes(d, m)) < LengthWidth

\* A typed message is encoded as two words of header and its payload, and the header parses back.
LEMMA BytesAre ==
  ASSUME NEW d \in Direction, NEW m, Typed(m)
  PROVE  /\ PayloadOf(d, m) \in Seq(Int)
         /\ Bytes(d, m) \in Seq(Int) /\ Len(Bytes(d, m)) = 2 + Len(PayloadOf(d, m))
         /\ Bytes(d, m)[1] = IdIn(d, m.on)
         /\ Bytes(d, m)[2] = ((HEADER_LEN + WORD * Len(PayloadOf(d, m))) % LengthWidth) * LengthWidth + m.opcode
         /\ From(Bytes(d, m), 3) = PayloadOf(d, m)
<1>1. PayloadOf(d, m) \in Seq(Int)
  <2>1. PICK vs \in Seq(Argument) : vs = m.values
    BY DEF Typed
  <2>2. [i \in DOMAIN vs |-> Encoded(ValueIn(d, vs[i]))] \in Seq(Seq(Int))
    <3>1. DOMAIN vs = 1..Len(vs) /\ Len(vs) \in Nat /\ \A i \in 1..Len(vs) : vs[i] \in Argument
      OBVIOUS
    <3>2. \A i \in 1..Len(vs) : Encoded(ValueIn(d, vs[i])) \in Seq(Int)
      BY <3>1, EncodedIs
    <3>. QED BY <3>1, <3>2, IsASeq
  <2>. QED BY <2>1, <2>2, FlatIsSeq DEF PayloadOf
<1>2. PICK p \in Seq(Int) : p = PayloadOf(d, m)
  BY <1>1
<1>3. PICK x : x = ((HEADER_LEN + WORD * Len(p)) % LengthWidth) * LengthWidth + m.opcode
  OBVIOUS
<1>4. Len(p) \in Nat /\ x \in Int /\ IdIn(d, m.on) \in Int
  <2>1. PICK n \in Nat : n = Len(p)
    OBVIOUS
  <2>2. m.opcode \in Int /\ m.on \in Int
    BY DEF Typed, LengthWidth
  <2>3. (8 + 4 * n) % 65536 \in Int
    OBVIOUS
  <2>4. x = ((8 + 4 * n) % 65536) * 65536 + m.opcode
    BY <1>3, <2>1 DEF HEADER_LEN, WORD, LengthWidth
  <2>. QED BY <2>1, <2>2, <2>3, <2>4 DEF IdIn, Shift
<1>5. Bytes(d, m) = <<IdIn(d, m.on), x>> \o p
  BY <1>2, <1>3 DEF Bytes, build_message, PayloadOf
<1>6. PICK h : h = <<IdIn(d, m.on), x>>
  OBVIOUS
<1>7. h \in Seq(Int) /\ Len(h) = 2 /\ h[1] = IdIn(d, m.on) /\ h[2] = x
  BY <1>4, <1>6
<1>8. /\ h \o p \in Seq(Int) /\ Len(h \o p) = 2 + Len(p)
      /\ (h \o p)[1] = IdIn(d, m.on) /\ (h \o p)[2] = x
      /\ \A i \in 1..Len(p) : (h \o p)[i + 2] = p[i]
  <2>1. /\ h \o p \in Seq(Int) /\ Len(h \o p) = Len(h) + Len(p)
        /\ \A i \in 1..Len(h) + Len(p) : (h \o p)[i] = IF i <= Len(h) THEN h[i] ELSE p[i - Len(h)]
    BY <1>7, ConcatProperties
  <2>. QED BY <1>4, <1>7, <2>1
<1>9. From(h \o p, 3) = p
  <2>1. PICK b \in Seq(Int) : b = h \o p
    BY <1>8
  <2>2. /\ SubSeq(b, 3, Len(b)) \in Seq(Int) /\ Len(SubSeq(b, 3, Len(b))) = Len(p)
        /\ \A i \in 1..Len(p) : SubSeq(b, 3, Len(b))[i] = p[i]
    BY <1>4, <1>8, <2>1, SMTT(60)
  <2>. QED BY <2>1, <2>2, SeqEqual DEF From
<1>. QED BY <1>1, <1>2, <1>3, <1>5, <1>6, <1>8, <1>9

\* The two halves of a word.
LEMMA Halves ==
  ASSUME NEW y \in Nat, NEW o \in Nat, o < LengthWidth
  PROVE  (y * LengthWidth + o) % LengthWidth = o /\ (y * LengthWidth + o) \div LengthWidth = y
<1>1. (y * LengthWidth + o) % LengthWidth = o
  BY DEF LengthWidth
<1>2. (y * LengthWidth + o) \div LengthWidth = y
  BY DEF LengthWidth
<1>. QED BY <1>1, <1>2

\* A buffer that begins like a proper message is taken that far.
LEMMA TakeIs ==
  ASSUME NEW d \in Direction, NEW m, Typed(m), Fits(d, m),
         NEW buf \in Seq(Int), Len(buf) >= 2, buf[1] = Bytes(d, m)[1], buf[2] = Bytes(d, m)[2]
  PROVE  /\ parse(buf).sender_id = IdIn(d, m.on) /\ parse(buf).opcode = m.opcode
         /\ take_message(buf) = IF Len(buf) < Len(Bytes(d, m)) THEN 0 ELSE Len(Bytes(d, m))
<1>1. PICK n \in Nat : n = Len(PayloadOf(d, m))
  BY BytesAre
<1>2. PICK b \in Nat : b = Len(buf)
  OBVIOUS
<1>3. Len(Bytes(d, m)) = 2 + n
  BY <1>1, BytesAre
<1>4. PICK y \in Nat : y = 8 + 4 * n
  OBVIOUS
<1>5. y < LengthWidth
  BY <1>3, <1>4 DEF Fits, WORD
<1>6. buf[2] = y * LengthWidth + m.opcode
  <2>1. buf[2] = (y % LengthWidth) * LengthWidth + m.opcode
    BY <1>1, <1>4, BytesAre DEF WORD, HEADER_LEN
  <2>2. y % LengthWidth = y
    BY <1>5 DEF LengthWidth
  <2>. QED BY <2>1, <2>2, Zenon
<1>7. parse(buf).sender_id = IdIn(d, m.on) /\ parse(buf).opcode = m.opcode /\ parse(buf).length = 8 + 4 * n
  <2>1. m.opcode \in Nat /\ m.opcode < LengthWidth
    BY DEF Typed
  <2>2. buf[2] % LengthWidth = m.opcode /\ buf[2] \div LengthWidth = y
    BY <1>6, <2>1, Halves, Zenon
  <2>. QED BY <1>4, <2>2, BytesAre DEF parse
<1>8. WordsFor(8 + 4 * n) = 2 + n
  BY DEF WordsFor, WORD
<1>9. take_message(buf) = IF 4 * b < 8 + 4 * n THEN 0 ELSE 2 + n
  BY <1>2, <1>7, <1>8 DEF take_message, WORD, HEADER_LEN
<1>. QED BY <1>2, <1>3, <1>7, <1>9

-----------------------------------------------------------------------------
\* Several messages, and what is queued of them.

\* The words and the fds of some messages.
WordsIn(d, ms) == FlattenSeq([i \in DOMAIN ms |-> Bytes(d, ms[i])])
FdsIn(ms) == FlattenSeq([i \in DOMAIN ms |-> Fds(ms[i].values)])

AllTyped(T) == \A m \in T : Typed(m)

\* The fds of a list of values.
LEMMA FdsAre ==
  ASSUME NEW values \in Seq(Argument)
  PROVE  Fds(values) \in Seq(Nat)
<1>1. DOMAIN values = 1..Len(values) /\ Len(values) \in Nat /\ \A i \in 1..Len(values) : values[i] \in Argument
  OBVIOUS
<1>2. \A i \in 1..Len(values) : FdOf(values[i]) \in Seq(Nat)
  BY <1>1 DEF FdOf, Argument
<1>3. [i \in DOMAIN values |-> FdOf(values[i])] \in Seq(Seq(Nat))
  BY <1>1, <1>2, IsASeq
<1>. QED BY <1>3, FlatIsSeq DEF Fds

\* The words and fds of each message of a list.
LEMMA EachMessage ==
  ASSUME NEW d \in Direction, NEW T, AllTyped(T), NEW ms \in Seq(T)
  PROVE  /\ [i \in DOMAIN ms |-> Bytes(d, ms[i])] \in Seq(Seq(Int))
         /\ [i \in DOMAIN ms |-> Fds(ms[i].values)] \in Seq(Seq(Nat))
<1>1. DOMAIN ms = 1..Len(ms) /\ Len(ms) \in Nat /\ \A i \in 1..Len(ms) : ms[i] \in T
  OBVIOUS
<1>2. \A m \in T : Bytes(d, m) \in Seq(Int) /\ Fds(m.values) \in Seq(Nat)
  BY BytesAre, FdsAre DEF AllTyped, Typed
<1>3. \A i \in 1..Len(ms) : Bytes(d, ms[i]) \in Seq(Int)
  BY <1>1, <1>2
<1>4. \A i \in 1..Len(ms) : Fds(ms[i].values) \in Seq(Nat)
  BY <1>1, <1>2
<1>5. [i \in 1..Len(ms) |-> Bytes(d, ms[i])] \in Seq(Seq(Int))
  BY <1>1, <1>3, IsASeq
<1>6. [i \in 1..Len(ms) |-> Fds(ms[i].values)] \in Seq(Seq(Nat))
  BY <1>1, <1>4, IsASeq
<1>. QED BY <1>1, <1>5, <1>6

\* The words and fds of a list of messages.
LEMMA MessagesAre ==
  ASSUME NEW d \in Direction, NEW T, AllTyped(T), NEW ms \in Seq(T)
  PROVE  WordsIn(d, ms) \in Seq(Int) /\ FdsIn(ms) \in Seq(Nat)
BY EachMessage, FlatIsSeq DEF WordsIn, FdsIn

\* Two lists said one after the other.
LEMMA MessagesConcat ==
  ASSUME NEW d \in Direction, NEW T, AllTyped(T), NEW ms \in Seq(T), NEW ns \in Seq(T)
  PROVE  /\ WordsIn(d, ms \o ns) = WordsIn(d, ms) \o WordsIn(d, ns)
         /\ FdsIn(ms \o ns) = FdsIn(ms) \o FdsIn(ns)
<1>1. PICK m, n \in Nat : m = Len(ms) /\ n = Len(ns)
  OBVIOUS
<1>2. /\ DOMAIN ms = 1..m /\ DOMAIN ns = 1..n /\ DOMAIN (ms \o ns) = 1..(m + n)
      /\ \A i \in 1..(m + n) : (ms \o ns)[i] = IF i <= m THEN ms[i] ELSE ns[i - m]
  BY <1>1
<1>3. PICK a, b, c : /\ a = [i \in DOMAIN ms |-> Bytes(d, ms[i])]
                     /\ b = [i \in DOMAIN ns |-> Bytes(d, ns[i])]
                     /\ c = [i \in DOMAIN (ms \o ns) |-> Bytes(d, (ms \o ns)[i])]
  OBVIOUS
<1>4. PICK x, y, z : /\ x = [i \in DOMAIN ms |-> Fds(ms[i].values)]
                     /\ y = [i \in DOMAIN ns |-> Fds(ns[i].values)]
                     /\ z = [i \in DOMAIN (ms \o ns) |-> Fds((ms \o ns)[i].values)]
  OBVIOUS
<1>5. ms \o ns \in Seq(T)
  BY ConcatProperties
<1>6. a \in Seq(Seq(Int)) /\ b \in Seq(Seq(Int)) /\ c \in Seq(Seq(Int))
  BY <1>3, <1>5, EachMessage
<1>7. x \in Seq(Seq(Nat)) /\ y \in Seq(Seq(Nat)) /\ z \in Seq(Seq(Nat))
  BY <1>4, <1>5, EachMessage
<1>8. Len(a) = m /\ Len(b) = n /\ Len(c) = m + n
  BY <1>2, <1>3, <1>6
<1>9. Len(x) = m /\ Len(y) = n /\ Len(z) = m + n
  BY <1>2, <1>4, <1>7
<1>10. c = a \o b
  <2>1. /\ a \o b \in Seq(Seq(Int)) /\ Len(a \o b) = m + n
        /\ \A i \in 1..(m + n) : (a \o b)[i] = IF i <= m THEN a[i] ELSE b[i - m]
    BY <1>6, <1>8, ConcatProperties
  <2>2. \A i \in 1..(m + n) : c[i] = (a \o b)[i]
    BY <1>2, <1>3, <2>1
  <2>. QED BY <1>6, <1>8, <2>1, <2>2, SeqEqual
<1>11. z = x \o y
  <2>1. /\ x \o y \in Seq(Seq(Nat)) /\ Len(x \o y) = m + n
        /\ \A i \in 1..(m + n) : (x \o y)[i] = IF i <= m THEN x[i] ELSE y[i - m]
    BY <1>7, <1>9, ConcatProperties
  <2>2. \A i \in 1..(m + n) : z[i] = (x \o y)[i]
    BY <1>2, <1>4, <2>1
  <2>. QED BY <1>7, <1>9, <2>1, <2>2, SeqEqual
<1>12. FlattenSeq(a \o b) = FlattenSeq(a) \o FlattenSeq(b) /\ FlattenSeq(x \o y) = FlattenSeq(x) \o FlattenSeq(y)
  BY <1>6, <1>7, FlatConcat
<1>. QED BY <1>3, <1>4, <1>10, <1>11, <1>12 DEF WordsIn, FdsIn

\* A list of one message.
LEMMA OneMessage ==
  ASSUME NEW d \in Direction, NEW m, Typed(m)
  PROVE  WordsIn(d, <<m>>) = Bytes(d, m) /\ FdsIn(<<m>>) = Fds(m.values)
<1>1. Bytes(d, m) \in Seq(Int) /\ Fds(m.values) \in Seq(Nat)
  BY BytesAre, FdsAre DEF Typed
<1>2. [i \in DOMAIN <<m>> |-> Bytes(d, <<m>>[i])] = <<Bytes(d, m)>>
  OBVIOUS
<1>3. [i \in DOMAIN <<m>> |-> Fds(<<m>>[i].values)] = <<Fds(m.values)>>
  OBVIOUS
<1>. QED BY <1>1, <1>2, <1>3, FlatOne DEF WordsIn, FdsIn

\* No message.
LEMMA NoMessage ==
  ASSUME NEW d
  PROVE  WordsIn(d, <<>>) = <<>> /\ FdsIn(<<>>) = <<>>
<1>1. [i \in DOMAIN <<>> |-> Bytes(d, <<>>[i])] = <<>> /\ [i \in DOMAIN <<>> |-> Fds(<<>>[i].values)] = <<>>
  OBVIOUS
<1>. QED BY <1>1, FlatNone DEF WordsIn, FdsIn

\* What the kernel holds of a word.
Item == [word : Int, fds : Seq(Nat)]

\* The words and fds of a queue.
LEMMA QueueIs ==
  ASSUME NEW q \in Seq(Item)
  PROVE  /\ Words(q) \in Seq(Int) /\ Len(Words(q)) = Len(q)
         /\ \A i \in 1..Len(q) : Words(q)[i] = q[i].word
         /\ [i \in DOMAIN q |-> q[i].fds] \in Seq(Seq(Nat))
         /\ FdsOf(q) \in Seq(Nat)
<1>1. DOMAIN q = 1..Len(q) /\ Len(q) \in Nat /\ \A i \in 1..Len(q) : q[i] \in Item
  OBVIOUS
<1>2. \A i \in 1..Len(q) : q[i].word \in Int /\ q[i].fds \in Seq(Nat)
  BY <1>1 DEF Item
<1>3. PICK w : w = [i \in 1..Len(q) |-> q[i].word]
  OBVIOUS
<1>4. w \in Seq(Int) /\ Len(w) = Len(q) /\ \A i \in 1..Len(q) : w[i] = q[i].word
  BY <1>1, <1>2, <1>3, IsASeq
<1>5. [i \in 1..Len(q) |-> q[i].fds] \in Seq(Seq(Nat))
  BY <1>1, <1>2, IsASeq
<1>. QED BY <1>1, <1>3, <1>4, <1>5, FlatIsSeq DEF Words, FdsOf

\* A queue behind another.
LEMMA QueueConcat ==
  ASSUME NEW q \in Seq(Item), NEW r \in Seq(Item)
  PROVE  Words(q \o r) = Words(q) \o Words(r) /\ FdsOf(q \o r) = FdsOf(q) \o FdsOf(r)
<1>1. PICK m, n \in Nat : m = Len(q) /\ n = Len(r)
  OBVIOUS
<1>2. /\ DOMAIN q = 1..m /\ DOMAIN r = 1..n /\ DOMAIN (q \o r) = 1..(m + n) /\ Len(q \o r) = m + n
      /\ \A i \in 1..(m + n) : (q \o r)[i] = IF i <= m THEN q[i] ELSE r[i - m]
  BY <1>1
<1>3. PICK t \in Seq(Item) : t = q \o r
  BY ConcatProperties
<1>4. Words(t) = Words(q) \o Words(r)
  <2>1. Words(q) \in Seq(Int) /\ Words(r) \in Seq(Int) /\ Words(t) \in Seq(Int)
    BY QueueIs
  <2>2. Len(Words(q)) = m /\ Len(Words(r)) = n /\ Len(Words(t)) = m + n
    BY <1>1, <1>2, <1>3, QueueIs
  <2>3. /\ Words(q) \o Words(r) \in Seq(Int) /\ Len(Words(q) \o Words(r)) = m + n
        /\ \A i \in 1..(m + n) : (Words(q) \o Words(r))[i] = IF i <= m THEN Words(q)[i] ELSE Words(r)[i - m]
    BY <2>1, <2>2, ConcatProperties
  <2>4. \A i \in 1..(m + n) : Words(t)[i] = (Words(q) \o Words(r))[i]
    BY <1>1, <1>2, <1>3, <2>3 DEF Words
  <2>. QED BY <2>1, <2>2, <2>3, <2>4, SeqEqual
<1>5. PICK x, y, z : x = [i \in DOMAIN q |-> q[i].fds] /\ y = [i \in DOMAIN r |-> r[i].fds] /\ z = [i \in DOMAIN t |-> t[i].fds]
  OBVIOUS
<1>6. x \in Seq(Seq(Nat)) /\ y \in Seq(Seq(Nat)) /\ z \in Seq(Seq(Nat))
  BY <1>5, QueueIs
<1>7. Len(x) = m /\ Len(y) = n /\ Len(z) = m + n
  BY <1>2, <1>3, <1>5, <1>6
<1>8. z = x \o y
  <2>1. /\ x \o y \in Seq(Seq(Nat)) /\ Len(x \o y) = m + n
        /\ \A i \in 1..(m + n) : (x \o y)[i] = IF i <= m THEN x[i] ELSE y[i - m]
    BY <1>6, <1>7, ConcatProperties
  <2>2. \A i \in 1..(m + n) : z[i] = (x \o y)[i]
    BY <1>2, <1>3, <1>5, <2>1
  <2>. QED BY <1>6, <1>7, <2>1, <2>2, SeqEqual
<1>9. FlattenSeq(x \o y) = FlattenSeq(x) \o FlattenSeq(y)
  BY <1>6, FlatConcat
<1>. QED BY <1>3, <1>4, <1>5, <1>8, <1>9 DEF FdsOf

\* A queue, cut in two.
LEMMA Cut ==
  ASSUME NEW S, NEW s \in Seq(S), NEW n \in 0..Len(s)
  PROVE  /\ SubSeq(s, 1, n) \in Seq(S) /\ Len(SubSeq(s, 1, n)) = n
         /\ From(s, n + 1) \in Seq(S) /\ Len(From(s, n + 1)) = Len(s) - n
         /\ \A i \in 1..(Len(s) - n) : From(s, n + 1)[i] = s[i + n]
         /\ s = SubSeq(s, 1, n) \o From(s, n + 1)
<1>1. PICK a, b : a = SubSeq(s, 1, n) /\ b = From(s, n + 1)
  OBVIOUS
<1>2. a \in Seq(S) /\ Len(a) = n /\ \A i \in 1..n : a[i] = s[i]
  BY <1>1
<1>3. b \in Seq(S) /\ Len(b) = Len(s) - n /\ \A i \in 1..(Len(s) - n) : b[i] = s[i + n]
  BY <1>1 DEF From
<1>4. /\ a \o b \in Seq(S) /\ Len(a \o b) = Len(s)
      /\ \A i \in 1..Len(s) : (a \o b)[i] = IF i <= n THEN a[i] ELSE b[i - n]
  BY <1>2, <1>3, ConcatProperties
<1>5. \A i \in 1..Len(s) : (a \o b)[i] = s[i]
  BY <1>2, <1>3, <1>4
<1>6. a \o b = s
  BY <1>4, <1>5, SeqEqual
<1>. QED BY <1>1, <1>2, <1>3, <1>6

\* The beginnings of a concatenation, and what is behind the first part.
LEMMA FromConcat ==
  ASSUME NEW S, NEW s \in Seq(S), NEW t \in Seq(S), NEW n \in 0..Len(s)
  PROVE  From(s \o t, n + 1) = From(s, n + 1) \o t
<1>1. PICK u \in Seq(S) : u = s \o t
  BY ConcatProperties
<1>2. /\ Len(u) = Len(s) + Len(t) /\ Len(s) \in Nat /\ Len(t) \in Nat
      /\ \A i \in 1..Len(u) : u[i] = IF i <= Len(s) THEN s[i] ELSE t[i - Len(s)]
  BY <1>1, ConcatProperties
<1>3. n \in 0..Len(u) /\ n \in Nat
  BY <1>2
<1>4. /\ From(u, n + 1) \in Seq(S) /\ Len(From(u, n + 1)) = Len(u) - n
      /\ \A i \in 1..(Len(u) - n) : From(u, n + 1)[i] = u[i + n]
  BY <1>3, Cut
<1>5. PICK b : b = From(s, n + 1)
  OBVIOUS
<1>6. b \in Seq(S) /\ Len(b) = Len(s) - n /\ \A i \in 1..(Len(s) - n) : b[i] = s[i + n]
  BY <1>5, Cut
<1>7. /\ b \o t \in Seq(S) /\ Len(b \o t) = Len(u) - n
      /\ \A i \in 1..(Len(u) - n) : (b \o t)[i] = IF i <= Len(s) - n THEN b[i] ELSE t[i - (Len(s) - n)]
  <2>1. /\ b \o t \in Seq(S) /\ Len(b \o t) = Len(b) + Len(t)
        /\ \A i \in 1..Len(b) + Len(t) : (b \o t)[i] = IF i <= Len(b) THEN b[i] ELSE t[i - Len(b)]
    BY <1>6, ConcatProperties
  <2>2. Len(b) + Len(t) = Len(u) - n
    BY <1>2, <1>3, <1>6
  <2>. QED BY <1>6, <2>1, <2>2
<1>8. ASSUME NEW i \in 1..(Len(u) - n) PROVE From(u, n + 1)[i] = (b \o t)[i]
  <2>1. i + n \in 1..Len(u) /\ From(u, n + 1)[i] = u[i + n]
    BY <1>2, <1>3, <1>4
  <2>2. CASE i <= Len(s) - n
    <3>1. i \in 1..(Len(s) - n) /\ i + n <= Len(s)
      BY <1>2, <1>3, <2>2
    <3>. QED BY <1>2, <1>6, <1>7, <2>1, <2>2, <3>1
  <2>3. CASE ~(i <= Len(s) - n)
    <3>1. ~(i + n <= Len(s)) /\ i - (Len(s) - n) = i + n - Len(s)
      BY <1>2, <1>3, <2>3
    <3>. QED BY <1>2, <1>7, <2>1, <2>3, <3>1
  <2>. QED BY <2>2, <2>3
<1>. QED BY <1>1, <1>4, <1>5, <1>7, <1>8, SeqEqual

\* Nothing but empty parts.
LEMMA FlatEmpties ==
  ASSUME NEW s \in Seq({<<>>})
  PROVE  FlattenSeq(s) = <<>>
<1>1. {<<>>} \subseteq Seq({})
  OBVIOUS
<1>2. s \in Seq(Seq({}))
  BY <1>1, SeqMonotonic
<1>3. FlattenSeq(s) \in Seq({})
  BY <1>2, FlatIsSeq
<1>. QED BY <1>3

\* A batch, whole and from behind its first word.
LEMMA PacketIs ==
  ASSUME NEW words \in Seq(Int), NEW fds \in Seq(Nat), words # <<>>
  PROVE  /\ Packet(words, fds) \in Seq(Item) /\ Len(Packet(words, fds)) = Len(words)
         /\ Words(Packet(words, fds)) = words /\ FdsOf(Packet(words, fds)) = fds
         /\ \A n \in 1..Len(words) : FdsOf(From(Packet(words, fds), n + 1)) = <<>>
<1>1. PICK k \in Nat : k = Len(words) /\ k # 0
  OBVIOUS
<1>2. PICK p : p = Packet(words, fds)
  OBVIOUS
<1>3. DOMAIN words = 1..k /\ \A i \in 1..k : words[i] \in Int
  BY <1>1
<1>4. p = [i \in 1..k |-> [word |-> words[i], fds |-> IF i = 1 THEN fds ELSE <<>>]]
  BY <1>2, <1>3 DEF Packet
<1>5. p \in Seq(Item)
  <2>1. \A i \in 1..k : [word |-> words[i], fds |-> IF i = 1 THEN fds ELSE <<>>] \in Item
    BY <1>3, EmptySeq DEF Item
  <2>. QED BY <1>4, <2>1, IsASeq
<1>6. Len(p) = k
  BY <1>4, <1>5
<1>7. Words(p) = words
  <2>1. Words(p) \in Seq(Int) /\ Len(Words(p)) = k /\ \A i \in 1..k : Words(p)[i] = words[i]
    BY <1>4, <1>5, <1>6, QueueIs
  <2>. QED BY <1>1, <2>1, SeqEqual
<1>8. ASSUME NEW n \in 1..k PROVE FdsOf(From(p, n + 1)) = <<>>
  <2>1. PICK q : q = From(p, n + 1)
    OBVIOUS
  <2>2. n \in 0..Len(p)
    BY <1>6
  <2>3. q \in Seq(Item) /\ Len(q) = k - n /\ \A i \in 1..(k - n) : q[i] = p[i + n]
    BY <1>5, <1>6, <2>1, <2>2, Cut
  <2>4. ASSUME NEW i \in 1..(k - n) PROVE q[i].fds = <<>>
    <3>1. i + n \in 1..k /\ i + n # 1
      OBVIOUS
    <3>2. q[i] = p[i + n]
      BY <2>3
    <3>3. p[i + n].fds = IF i + n = 1 THEN fds ELSE <<>>
      BY <1>4, <3>1
    <3>. QED BY <3>1, <3>2, <3>3
  <2>5. DOMAIN q = 1..(k - n) /\ k - n \in Nat
    BY <2>3
  <2>6. \A i \in 1..(k - n) : q[i].fds \in {<<>>}
    BY <2>4
  <2>7. [i \in 1..(k - n) |-> q[i].fds] \in Seq({<<>>})
    BY <2>5, <2>6, IsASeq
  <2>. QED BY <2>1, <2>5, <2>7, FlatEmpties DEF FdsOf
<1>9. FdsOf(p) = fds
  <2>1. PICK one \in 0..Len(p) : one = 1
    BY <1>1, <1>6
  <2>2. PICK a, q : a = SubSeq(p, 1, one) /\ q = From(p, one + 1)
    OBVIOUS
  <2>3. a \in Seq(Item) /\ Len(a) = 1 /\ q \in Seq(Item) /\ p = a \o q
    <3>1. /\ SubSeq(p, 1, one) \in Seq(Item) /\ Len(SubSeq(p, 1, one)) = one
          /\ From(p, one + 1) \in Seq(Item) /\ p = SubSeq(p, 1, one) \o From(p, one + 1)
      BY <1>5, Cut
    <3>. QED BY <2>1, <2>2, <3>1
  <2>4. a[1] = p[1]
    BY <1>1, <1>5, <1>6, <2>1, <2>2
  <2>5. a[1].fds = fds
    BY <1>1, <1>4, <2>4
  <2>6. [i \in DOMAIN a |-> a[i].fds] = <<fds>>
    <3>1. DOMAIN a = 1..1
      BY <2>3
    <3>. QED BY <2>5, <3>1
  <2>7. FdsOf(a) = fds
    BY <2>6, FlatOne DEF FdsOf
  <2>8. FdsOf(q) = <<>>
    BY <1>1, <1>8, <2>1, <2>2
  <2>9. FdsOf(a \o q) = FdsOf(a) \o FdsOf(q)
    BY <2>3, QueueConcat
  <2>10. fds \o <<>> = fds
    BY ConcatEmptySeq
  <2>. QED BY <2>3, <2>7, <2>8, <2>9, <2>10
<1>. QED BY <1>1, <1>2, <1>5, <1>6, <1>7, <1>8, <1>9

-----------------------------------------------------------------------------
\* What a sender has said, from some message on.
Rest(script, k, n) == SubSeq(script, k + 1, n)

AllProper(d, T) == \A m \in T : Typed(m) /\ Fits(d, m)

\* The messages k + 1 to n of a script.
LEMMA RestIs ==
  ASSUME NEW T, NEW script \in Seq(T), NEW n \in 0..Len(script), NEW k \in 0..n
  PROVE  /\ Rest(script, k, n) \in Seq(T) /\ Len(Rest(script, k, n)) = n - k
         /\ \A i \in 1..(n - k) : Rest(script, k, n)[i] = script[k + i]
         /\ k = n => Rest(script, k, n) = <<>>
<1>1. \A i \in (k + 1)..n : script[i] \in T
  OBVIOUS
<1>2. k + 1 \in Int /\ n \in Int
  OBVIOUS
<1>3. PICK r : r = Rest(script, k, n)
  OBVIOUS
<1>4. /\ r \in Seq(T) /\ Len(r) = IF k + 1 <= n THEN n - (k + 1) + 1 ELSE 0
      /\ \A i \in 1..(n - (k + 1) + 1) : r[i] = script[k + 1 + i - 1]
  BY <1>1, <1>2, <1>3, SubSeqProperties DEF Rest
<1>5. Len(r) = n - k /\ n - (k + 1) + 1 = n - k /\ \A i \in Int : k + 1 + i - 1 = k + i
  BY <1>4
<1>6. ASSUME NEW i \in 1..(n - k) PROVE r[i] = script[k + i]
  <2>1. i \in 1..(n - (k + 1) + 1) /\ k + 1 + i - 1 = k + i
    OBVIOUS
  <2>. QED BY <1>4, <2>1
<1>7. k = n => r = <<>>
  BY <1>4, <1>5
<1>. QED BY <1>3, <1>4, <1>5, <1>6, <1>7

\* They may be split anywhere.
LEMMA RestSplit ==
  ASSUME NEW T, NEW script \in Seq(T), NEW n \in 0..Len(script), NEW j \in 0..n, NEW k \in 0..j
  PROVE  Rest(script, k, n) = Rest(script, k, j) \o Rest(script, j, n)
<1>1. PICK a, b, c : a = Rest(script, k, j) /\ b = Rest(script, j, n) /\ c = Rest(script, k, n)
  OBVIOUS
<1>2. j \in 0..Len(script) /\ k \in 0..n
  OBVIOUS
<1>3. /\ a \in Seq(T) /\ Len(a) = j - k /\ \A i \in 1..(j - k) : a[i] = script[k + i]
  BY <1>1, <1>2, RestIs
<1>4. /\ b \in Seq(T) /\ Len(b) = n - j /\ \A i \in 1..(n - j) : b[i] = script[j + i]
  BY <1>1, RestIs
<1>5. /\ c \in Seq(T) /\ Len(c) = n - k /\ \A i \in 1..(n - k) : c[i] = script[k + i]
  BY <1>1, <1>2, RestIs
<1>6. /\ a \o b \in Seq(T) /\ Len(a \o b) = Len(a) + Len(b)
      /\ \A i \in 1..Len(a) + Len(b) : (a \o b)[i] = IF i <= Len(a) THEN a[i] ELSE b[i - Len(a)]
  BY <1>3, <1>4, ConcatProperties
<1>7. Len(a \o b) = Len(c)
  BY <1>3, <1>4, <1>5, <1>6
<1>8. ASSUME NEW i \in 1..Len(c) PROVE (a \o b)[i] = c[i]
  <2>1. c[i] = script[k + i]
    BY <1>5
  <2>2. CASE i <= j - k
    <3>1. i \in 1..(j - k) /\ i \in 1..Len(a) + Len(b) /\ i <= Len(a)
      BY <1>3, <1>4, <1>5, <2>2
    <3>. QED BY <1>3, <1>6, <2>1, <3>1
  <2>3. CASE ~(i <= j - k)
    <3>1. i - (j - k) \in 1..(n - j) /\ j + (i - (j - k)) = k + i /\ i \in 1..Len(a) + Len(b) /\ ~(i <= Len(a))
      BY <1>3, <1>4, <1>5, <2>3
    <3>2. b[i - (j - k)] = script[k + i]
      BY <1>4, <3>1
    <3>. QED BY <1>3, <1>6, <2>1, <3>1, <3>2
  <2>. QED BY <2>2, <2>3
<1>. QED BY <1>1, <1>5, <1>6, <1>7, <1>8, SeqEqual

\* From message k + 1 on: that message, and what is behind it.
LEMMA RestFirst ==
  ASSUME NEW T, NEW script \in Seq(T), NEW n \in 0..Len(script), NEW k \in 0..n, k < n
  PROVE  script[k + 1] \in T /\ Rest(script, k, n) = <<script[k + 1]>> \o Rest(script, k + 1, n)
<1>1. k + 1 \in 0..n /\ k \in 0..(k + 1) /\ k + 1 \in 0..Len(script)
  OBVIOUS
<1>2. PICK a : a = Rest(script, k, k + 1)
  OBVIOUS
<1>3. a \in Seq(T) /\ Len(a) = (k + 1) - k /\ \A i \in 1..((k + 1) - k) : a[i] = script[k + i]
  BY <1>1, <1>2, RestIs
<1>4. a = <<script[k + 1]>>
  BY <1>3
<1>5. script[k + 1] \in T
  OBVIOUS
<1>. QED BY <1>1, <1>2, <1>4, <1>5, RestSplit

\* Messages that fit are typed.
LEMMA TypedAll ==
  ASSUME NEW d, NEW T, AllProper(d, T)
  PROVE  AllTyped(T)
BY DEF AllProper, AllTyped

\* The words and the fds of it, from any message on.
LEMMA RestWords ==
  ASSUME NEW d \in Direction, NEW T, AllTyped(T), NEW script \in Seq(T),
         NEW n \in 0..Len(script), NEW j \in 0..n, NEW k \in 0..j
  PROVE  /\ WordsIn(d, Rest(script, k, n)) \in Seq(Int) /\ FdsIn(Rest(script, k, n)) \in Seq(Nat)
         /\ WordsIn(d, Rest(script, k, n)) = WordsIn(d, Rest(script, k, j)) \o WordsIn(d, Rest(script, j, n))
         /\ FdsIn(Rest(script, k, n)) = FdsIn(Rest(script, k, j)) \o FdsIn(Rest(script, j, n))
<1>1. j \in 0..Len(script) /\ k \in 0..n
  OBVIOUS
<1>2. Rest(script, k, n) \in Seq(T) /\ Rest(script, k, j) \in Seq(T) /\ Rest(script, j, n) \in Seq(T)
  BY <1>1, RestIs
<1>3. Rest(script, k, n) = Rest(script, k, j) \o Rest(script, j, n)
  BY RestSplit
<1>4. \A ms \in Seq(T) : WordsIn(d, ms) \in Seq(Int) /\ FdsIn(ms) \in Seq(Nat)
  BY MessagesAre
<1>5. \A ms, ns \in Seq(T) : /\ WordsIn(d, ms \o ns) = WordsIn(d, ms) \o WordsIn(d, ns)
                             /\ FdsIn(ms \o ns) = FdsIn(ms) \o FdsIn(ns)
  BY MessagesConcat
<1>. QED BY <1>2, <1>3, <1>4, <1>5, ZenonT(60)

Begins(d, script, k, n, m) ==
  /\ m = script[k + 1]
  /\ WordsIn(d, Rest(script, k, n)) = Bytes(d, m) \o WordsIn(d, Rest(script, k + 1, n))
  /\ FdsIn(Rest(script, k, n)) = Fds(m.values) \o FdsIn(Rest(script, k + 1, n))
  /\ WordsIn(d, Rest(script, k + 1, n)) \in Seq(Int) /\ FdsIn(Rest(script, k + 1, n)) \in Seq(Nat)
  /\ Bytes(d, m) \in Seq(Int) /\ Fds(m.values) \in Seq(Nat) /\ Len(Bytes(d, m)) >= 2

\* The rest begins with the words and fds of its first message.
LEMMA RestFirstWords ==
  ASSUME NEW d \in Direction, NEW T, AllTyped(T), NEW script \in Seq(T),
         NEW n \in 0..Len(script), NEW k \in 0..n, k < n
  PROVE  \E m \in T : Begins(d, script, k, n, m)
<1> DEFINE m == script[k + 1]
<1>1. k + 1 \in 0..n
  OBVIOUS
<1>2. m \in T /\ Rest(script, k, n) = <<m>> \o Rest(script, k + 1, n)
  BY RestFirst
<1>3. Rest(script, k + 1, n) \in Seq(T) /\ <<m>> \in Seq(T)
  BY <1>1, <1>2, RestIs
<1>4. Typed(m)
  BY <1>2 DEF AllTyped
<1>5. WordsIn(d, <<m>>) = Bytes(d, m) /\ FdsIn(<<m>>) = Fds(m.values)
  BY <1>4, OneMessage
<1>6. Bytes(d, m) \in Seq(Int) /\ Fds(m.values) \in Seq(Nat) /\ Len(Bytes(d, m)) >= 2
  <2>1. PayloadOf(d, m) \in Seq(Int) /\ Bytes(d, m) \in Seq(Int) /\ Len(Bytes(d, m)) = 2 + Len(PayloadOf(d, m))
    BY <1>4, BytesAre
  <2>2. PICK l \in Nat : l = Len(PayloadOf(d, m))
    BY <2>1
  <2>3. m.values \in Seq(Argument)
    BY <1>4 DEF Typed
  <2>. QED BY <2>1, <2>2, <2>3, FdsAre
<1>7. \A ms \in Seq(T) : WordsIn(d, ms) \in Seq(Int) /\ FdsIn(ms) \in Seq(Nat)
  BY MessagesAre
<1>8. \A ms, ns \in Seq(T) : /\ WordsIn(d, ms \o ns) = WordsIn(d, ms) \o WordsIn(d, ns)
                             /\ FdsIn(ms \o ns) = FdsIn(ms) \o FdsIn(ns)
  BY MessagesConcat
<1>9. WordsIn(d, <<m>> \o Rest(script, k + 1, n)) = Bytes(d, m) \o WordsIn(d, Rest(script, k + 1, n))
  BY <1>3, <1>5, <1>8, Zenon
<1>10. FdsIn(<<m>> \o Rest(script, k + 1, n)) = Fds(m.values) \o FdsIn(Rest(script, k + 1, n))
  BY <1>3, <1>5, <1>8, Zenon
<1>11. WordsIn(d, Rest(script, k + 1, n)) \in Seq(Int) /\ FdsIn(Rest(script, k + 1, n)) \in Seq(Nat)
  BY <1>3, <1>7
<1>12. m = script[k + 1]
  OBVIOUS
<1> HIDE DEF m
<1>13. Begins(d, script, k, n, m)
  BY <1>2, <1>6, <1>9, <1>10, <1>11, <1>12 DEF Begins
<1>. QED BY <1>2, <1>13

\* The more messages, the more words.
LEMMA RestGrows ==
  ASSUME NEW d \in Direction, NEW T, AllTyped(T), NEW script \in Seq(T),
         NEW n \in 0..Len(script), NEW j \in 0..n, NEW k \in 0..j
  PROVE  /\ Len(WordsIn(d, Rest(script, k, n))) >= Len(WordsIn(d, Rest(script, j, n)))
         /\ k < j => Len(WordsIn(d, Rest(script, k, n))) > Len(WordsIn(d, Rest(script, j, n)))
<1>1. /\ WordsIn(d, Rest(script, k, n)) = WordsIn(d, Rest(script, k, j)) \o WordsIn(d, Rest(script, j, n))
  BY RestWords
<1>2. j \in 0..Len(script) /\ j \in 0..j /\ j \in 0..n
  OBVIOUS
<1>3. WordsIn(d, Rest(script, k, j)) \in Seq(Int) /\ WordsIn(d, Rest(script, j, n)) \in Seq(Int)
  <2>1. WordsIn(d, Rest(script, k, j)) \in Seq(Int)
    BY <1>2, RestIs, MessagesAre
  <2>2. WordsIn(d, Rest(script, j, n)) \in Seq(Int)
    BY <1>2, RestIs, MessagesAre
  <2>. QED BY <2>1, <2>2
<1>4. PICK a, b \in Nat : a = Len(WordsIn(d, Rest(script, k, j))) /\ b = Len(WordsIn(d, Rest(script, j, n)))
  BY <1>3
<1>5. Len(WordsIn(d, Rest(script, k, n))) = a + b
  BY <1>1, <1>3, <1>4, ConcatProperties
<1>6. k < j => a > 0
  <2>1. SUFFICES ASSUME k < j PROVE a > 0
    OBVIOUS
  <2>2. PICK m \in T : Begins(d, script, k, j, m)
    BY <1>2, <2>1, RestFirstWords
  <2>3. /\ WordsIn(d, Rest(script, k, j)) = Bytes(d, m) \o WordsIn(d, Rest(script, k + 1, j))
        /\ WordsIn(d, Rest(script, k + 1, j)) \in Seq(Int)
        /\ Bytes(d, m) \in Seq(Int) /\ Len(Bytes(d, m)) >= 2
    BY <2>2 DEF Begins
  <2>4. PICK c, e \in Nat : c = Len(Bytes(d, m)) /\ e = Len(WordsIn(d, Rest(script, k + 1, j)))
    BY <2>3
  <2>5. a = c + e
    BY <1>4, <2>3, <2>4, ConcatProperties
  <2>. QED BY <2>3, <2>4, <2>5
<1>. QED BY <1>4, <1>5, <1>6

-----------------------------------------------------------------------------
\* Queues and buffers.

\* Concatenation is associative: of words, and of fds.
LEMMA WordsAssociate == \A x, y, z \in Seq(Int) : (x \o y) \o z = x \o (y \o z)
BY ConcatAssociative

LEMMA FdsAssociate == \A x, y, z \in Seq(Nat) : (x \o y) \o z = x \o (y \o z)
BY ConcatAssociative, SMTT(60)

\* Behind a part that is taken is the other one.
LEMMA FromSecond ==
  ASSUME NEW S, NEW s \in Seq(S), NEW t \in Seq(S)
  PROVE  From(s \o t, Len(s) + 1) = t
<1>1. PICK l \in Nat : l = Len(s)
  OBVIOUS
<1>2. l \in 0..Len(s)
  BY <1>1
<1>3. From(s, l + 1) \in Seq(S) /\ Len(From(s, l + 1)) = Len(s) - l
  BY <1>2, Cut
<1>4. From(s, l + 1) = <<>>
  BY <1>1, <1>3
<1>5. From(s \o t, l + 1) = From(s, l + 1) \o t
  BY <1>2, FromConcat
<1>. QED BY <1>1, <1>4, <1>5, ConcatEmptySeq

\* All of a sequence.
LEMMA FromWhole ==
  ASSUME NEW S, NEW s \in Seq(S)
  PROVE  From(s, 0 + 1) = s
BY SubSeqFull DEF From

\* A message is taken out of what there is.
LEMMA TakeBound ==
  ASSUME NEW buf \in Seq(Int)
  PROVE  /\ take_message(buf) \in 0..Len(buf)
         /\ take_message(buf) > 0 => Len(buf) >= 2
<1>1. PICK b \in Nat : b = Len(buf)
  OBVIOUS
<1>2. CASE WORD * Len(buf) < HEADER_LEN
  BY <1>1, <1>2 DEF take_message
<1>3. CASE ~(WORD * Len(buf) < HEADER_LEN)
  <2>1. b >= 2
    BY <1>1, <1>3 DEF WORD, HEADER_LEN
  <2>2. PICK y \in Int : y = buf[2]
    BY <1>1, <2>1
  <2>3. PICK l \in Int : l = parse(buf).length
    BY <2>2 DEF parse, LengthWidth
  <2>4. take_message(buf) = IF l < HEADER_LEN \/ WORD * Len(buf) < l THEN 0 ELSE WordsFor(l)
    BY <1>3, <2>3 DEF take_message
  <2>5. ~(l < 8 \/ 4 * b < l) => (l + 4 - 1) \div 4 \in 0..b
    BY <1>1
  <2>. QED BY <1>1, <2>1, <2>4, <2>5 DEF WORD, HEADER_LEN, WordsFor
<1>. QED BY <1>2, <1>3

\* Fds come from arguments that are fds.
LEMMA NoFds ==
  ASSUME NEW values \in Seq(Argument),
         "fd" \notin ToSet([i \in DOMAIN values |-> values[i].type])
  PROVE  Fds(values) = <<>>
<1>1. DOMAIN values = 1..Len(values) /\ Len(values) \in Nat
  OBVIOUS
<1>2. \A i \in 1..Len(values) : values[i].type # "fd"
  BY <1>1 DEF ToSet
<1>3. \A i \in 1..Len(values) : FdOf(values[i]) \in {<<>>}
  BY <1>2 DEF FdOf
<1>4. [i \in 1..Len(values) |-> FdOf(values[i])] \in Seq({<<>>})
  BY <1>1, <1>3, IsASeq
<1>. QED BY <1>1, <1>4, FlatEmpties DEF Fds

(***************************************************************************)
(* Fds never come later than what they belong to: behind any word of the   *)
(* kernel queue are the fds of all messages from some one on, and at least *)
(* the words of these.                                                     *)
(***************************************************************************)
Follows(d, script, n, queue) ==
  \A c \in 0..Len(queue) : \E j \in 0..n :
    /\ FdsOf(From(queue, c + 1)) = FdsIn(Rest(script, j, n))
    /\ Len(WordsIn(d, Rest(script, j, n))) <= Len(queue) - c

\* The words from message k + 1 on.
AtFront(d, script, k, n, buf, queue) == k \in 0..n /\ buf \o Words(queue) = WordsIn(d, Rest(script, k, n))

\* That is m, and t words long; behind it is message k + 2.
Leads(d, script, k, n, buf, fds, queue, stray, t, m) ==
  /\ AtFront(d, script, k, n, buf, queue) /\ AtFront(d, script, k + 1, n, From(buf, t + 1), queue)
  /\ m = script[k + 1] /\ SubSeq(buf, 1, t) = Bytes(d, m)
  /\ ~stray => SubSeq(fds, 1, Len(Fds(m.values))) = Fds(m.values)

\* Words and fds from one message on, behind fds that were dropped unread.
Accounts(d, script, n, buf, fds, queue, stray) ==
  \E k \in 0..n, pre \in Seq(Nat) :
    /\ buf \o Words(queue) = WordsIn(d, Rest(script, k, n))
    /\ fds \o FdsOf(queue) = pre \o FdsIn(Rest(script, k, n))
    /\ ~stray => pre = <<>>

\* Nothing is there of no messages.
LEMMA NothingSent ==
  ASSUME NEW d \in Direction, NEW T, NEW script \in Seq(T), NEW stray
  PROVE  Follows(d, script, 0, <<>>) /\ Accounts(d, script, 0, <<>>, <<>>, <<>>, stray)
<1>1. Rest(script, 0, 0) = <<>>
  BY DEF Rest
<1>2. WordsIn(d, Rest(script, 0, 0)) = <<>> /\ FdsIn(Rest(script, 0, 0)) = <<>>
  BY <1>1, NoMessage
<1>3. From(<<>>, 0 + 1) = <<>>
  BY FromWhole, EmptySeq
<1>4. Words(<<>>) = <<>> /\ FdsOf(<<>>) = <<>>
  <2>1. [i \in DOMAIN <<>> |-> <<>>[i].word] = <<>> /\ [i \in DOMAIN <<>> |-> <<>>[i].fds] = <<>>
    OBVIOUS
  <2>. QED BY <2>1, FlatNone DEF Words, FdsOf
<1>5. <<>> \o <<>> = <<>> /\ <<>> \in Seq(Nat) /\ Len(<<>>) = 0
  OBVIOUS
<1>6. Follows(d, script, 0, <<>>)
  <2>1. SUFFICES ASSUME NEW c \in 0..0
                 PROVE  /\ FdsOf(From(<<>>, c + 1)) = FdsIn(Rest(script, 0, 0))
                        /\ Len(WordsIn(d, Rest(script, 0, 0))) <= 0 - c
    BY <1>5 DEF Follows
  <2>2. c = 0
    OBVIOUS
  <2>. QED BY <1>2, <1>3, <1>4, <1>5, <2>2
<1>7. Accounts(d, script, 0, <<>>, <<>>, <<>>, stray)
  <2>1. <<>> \o Words(<<>>) = WordsIn(d, Rest(script, 0, 0)) /\ <<>> \o FdsOf(<<>>) = <<>> \o FdsIn(Rest(script, 0, 0))
    BY <1>2, <1>4, <1>5
  <2>2. 0 \in 0..0
    OBVIOUS
  <2>. QED BY <1>5, <2>1, <2>2 DEF Accounts
<1>. QED BY <1>6, <1>7

\* What a flush adds are the words and fds of its messages.
LEMMA MorePackets ==
  ASSUME NEW d \in Direction, NEW T, AllTyped(T), NEW script \in Seq(T),
         NEW n \in 0..Len(script), NEW l \in 0..Len(script), n < l,
         NEW queue \in Seq(Item), NEW batch, batch = Batch(d, Rest(script, n, l))
  PROVE  /\ batch \in Seq(Item)
         /\ Words(queue \o batch) = Words(queue) \o WordsIn(d, Rest(script, n, l))
         /\ FdsOf(queue \o batch) = FdsOf(queue) \o FdsIn(Rest(script, n, l))
         /\ \A c \in 1..Len(batch) : FdsOf(From(batch, c + 1)) = <<>>
         /\ Len(batch) = Len(WordsIn(d, Rest(script, n, l))) /\ Len(batch) >= 1
<1>1. n \in 0..l /\ n \in 0..n /\ l \in 0..l
  OBVIOUS
<1>2. PICK ws, fs : ws = WordsIn(d, Rest(script, n, l)) /\ fs = FdsIn(Rest(script, n, l))
  OBVIOUS
<1>3. ws \in Seq(Int) /\ fs \in Seq(Nat)
  BY <1>1, <1>2, RestIs, MessagesAre
<1>4. batch = Packet(ws, fs)
  BY <1>2 DEF Batch, WordsIn, FdsIn
<1>5. Len(ws) > 0
  <2>1. Len(WordsIn(d, Rest(script, n, l))) > Len(WordsIn(d, Rest(script, l, l)))
    BY <1>1, RestGrows
  <2>2. WordsIn(d, Rest(script, l, l)) \in Seq(Int)
    BY <1>1, RestIs, MessagesAre
  <2>. QED BY <1>2, <1>3, <2>1, <2>2
<1>6. ws # <<>>
  BY <1>5
<1>7. /\ Packet(ws, fs) \in Seq(Item) /\ Len(Packet(ws, fs)) = Len(ws)
      /\ Words(Packet(ws, fs)) = ws /\ FdsOf(Packet(ws, fs)) = fs
      /\ \A c \in 1..Len(ws) : FdsOf(From(Packet(ws, fs), c + 1)) = <<>>
  BY <1>3, <1>6, PacketIs
<1>8. batch \in Seq(Item)
  BY <1>4, <1>7
<1>9. Words(queue \o batch) = Words(queue) \o Words(batch) /\ FdsOf(queue \o batch) = FdsOf(queue) \o FdsOf(batch)
  BY <1>8, QueueConcat
<1>10. Len(batch) >= 1
  BY <1>3, <1>4, <1>5, <1>7
<1>. QED BY <1>2, <1>4, <1>7, <1>8, <1>9, <1>10

\* A flush adds messages behind the others.
LEMMA FlushAccounts ==
  ASSUME NEW d \in Direction, NEW T, AllTyped(T), NEW script \in Seq(T),
         NEW n \in 0..Len(script), NEW l \in 0..Len(script), n < l,
         NEW queue \in Seq(Item), NEW buf \in Seq(Int), NEW fds \in Seq(Nat), NEW stray,
         Accounts(d, script, n, buf, fds, queue, stray)
  PROVE  Accounts(d, script, l, buf, fds, queue \o Batch(d, Rest(script, n, l)), stray)
<1>1. PICK k \in 0..n, pre \in Seq(Nat) :
        /\ buf \o Words(queue) = WordsIn(d, Rest(script, k, n))
        /\ fds \o FdsOf(queue) = pre \o FdsIn(Rest(script, k, n))
        /\ ~stray => pre = <<>>
  BY DEF Accounts
<1>2. PICK batch : batch = Batch(d, Rest(script, n, l))
  OBVIOUS
<1>3. /\ Words(queue \o batch) = Words(queue) \o WordsIn(d, Rest(script, n, l))
      /\ FdsOf(queue \o batch) = FdsOf(queue) \o FdsIn(Rest(script, n, l))
  BY <1>2, MorePackets, ZenonT(120)
<1>4. n \in 0..l /\ k \in 0..l /\ k \in 0..n
  OBVIOUS
<1>5. /\ WordsIn(d, Rest(script, k, l)) = WordsIn(d, Rest(script, k, n)) \o WordsIn(d, Rest(script, n, l))
      /\ FdsIn(Rest(script, k, l)) = FdsIn(Rest(script, k, n)) \o FdsIn(Rest(script, n, l))
  BY <1>4, RestWords
<1>6. /\ WordsIn(d, Rest(script, n, l)) \in Seq(Int) /\ FdsIn(Rest(script, n, l)) \in Seq(Nat)
      /\ FdsIn(Rest(script, k, n)) \in Seq(Nat)
  BY <1>4, RestIs, MessagesAre
<1>7. Words(queue) \in Seq(Int) /\ FdsOf(queue) \in Seq(Nat)
  BY QueueIs
<1>8. (buf \o Words(queue)) \o WordsIn(d, Rest(script, n, l)) = buf \o (Words(queue) \o WordsIn(d, Rest(script, n, l)))
  BY <1>6, <1>7, WordsAssociate, Zenon
<1>9. (fds \o FdsOf(queue)) \o FdsIn(Rest(script, n, l)) = fds \o (FdsOf(queue) \o FdsIn(Rest(script, n, l)))
  BY <1>6, <1>7, FdsAssociate, Zenon
<1>10. (pre \o FdsIn(Rest(script, k, n))) \o FdsIn(Rest(script, n, l)) = pre \o (FdsIn(Rest(script, k, n)) \o FdsIn(Rest(script, n, l)))
  BY <1>6, FdsAssociate, Zenon
<1>11. buf \o Words(queue \o batch) = WordsIn(d, Rest(script, k, l))
  BY <1>1, <1>3, <1>5, <1>8, Zenon
<1>12. fds \o FdsOf(queue \o batch) = pre \o FdsIn(Rest(script, k, l))
  BY <1>1, <1>3, <1>5, <1>9, <1>10, Zenon
<1>. QED BY <1>1, <1>2, <1>4, <1>11, <1>12 DEF Accounts

\* The fds of a batch come with its first word, ...
LEMMA FlushFollows ==
  ASSUME NEW d \in Direction, NEW T, AllTyped(T), NEW script \in Seq(T),
         NEW n \in 0..Len(script), NEW l \in 0..Len(script), n < l,
         NEW queue \in Seq(Item), Follows(d, script, n, queue)
  PROVE  Follows(d, script, l, queue \o Batch(d, Rest(script, n, l)))
<1>1. PICK batch : batch = Batch(d, Rest(script, n, l))
  OBVIOUS
<1>2. /\ batch \in Seq(Item)
      /\ \A c \in 1..Len(batch) : FdsOf(From(batch, c + 1)) = <<>>
      /\ FdsOf(queue \o batch) = FdsOf(queue) \o FdsIn(Rest(script, n, l))
      /\ Len(batch) = Len(WordsIn(d, Rest(script, n, l))) /\ Len(batch) >= 1
  BY <1>1, MorePackets, SMTT(60)
<1>3. PICK a, b \in Nat : a = Len(queue) /\ b = Len(batch)
  BY <1>2
<1>4. Len(queue \o batch) = a + b
  <2>1. Len(queue \o batch) = Len(queue) + Len(batch)
    BY <1>2, ConcatProperties
  <2>. QED BY <1>3, <2>1
<1>5. SUFFICES ASSUME NEW c \in 0..(a + b)
               PROVE  \E j \in 0..l :
                        /\ FdsOf(From(queue \o batch, c + 1)) = FdsIn(Rest(script, j, l))
                        /\ Len(WordsIn(d, Rest(script, j, l))) <= (a + b) - c
  BY <1>1, <1>4 DEF Follows
<1>6. CASE c <= a
  <2>1. c \in 0..Len(queue)
    BY <1>3, <1>6
  <2>2. PICK j \in 0..n : /\ FdsOf(From(queue, c + 1)) = FdsIn(Rest(script, j, n))
                          /\ Len(WordsIn(d, Rest(script, j, n))) <= Len(queue) - c
    BY <2>1 DEF Follows
  <2>3. n \in 0..l /\ j \in 0..l /\ j \in 0..n
    OBVIOUS
  <2>4. /\ WordsIn(d, Rest(script, j, l)) = WordsIn(d, Rest(script, j, n)) \o WordsIn(d, Rest(script, n, l))
        /\ FdsIn(Rest(script, j, l)) = FdsIn(Rest(script, j, n)) \o FdsIn(Rest(script, n, l))
    BY <2>3, RestWords
  <2>5. /\ WordsIn(d, Rest(script, n, l)) \in Seq(Int) /\ WordsIn(d, Rest(script, j, n)) \in Seq(Int)
    BY <2>3, RestIs, MessagesAre
  <2>6. PICK e \in Nat : e = Len(WordsIn(d, Rest(script, j, n)))
    BY <2>5
  <2>7. Len(WordsIn(d, Rest(script, j, l))) = e + b
    BY <1>2, <1>3, <2>4, <2>5, <2>6, ConcatProperties
  <2>8. From(queue \o batch, c + 1) = From(queue, c + 1) \o batch /\ From(queue, c + 1) \in Seq(Item)
    BY <1>2, <2>1, FromConcat, Cut
  <2>9. FdsOf(From(queue, c + 1) \o batch) = FdsOf(From(queue, c + 1)) \o FdsOf(batch)
    BY <1>2, <2>8, QueueConcat
  <2>10. FdsOf(batch) = FdsIn(Rest(script, n, l))
    <3>1. FdsOf(queue \o batch) = FdsOf(queue) \o FdsOf(batch)
      BY <1>2, QueueConcat
    <3>2. FdsOf(queue) \in Seq(Nat) /\ FdsOf(batch) \in Seq(Nat) /\ FdsIn(Rest(script, n, l)) \in Seq(Nat)
      BY <1>2, <2>3, QueueIs, RestIs, MessagesAre
    <3>3. \A x, y, z \in Seq(Nat) : x \o y = x \o z => y = z
      BY ConcatSimplifications
    <3>4. FdsOf(queue) \o FdsOf(batch) = FdsOf(queue) \o FdsIn(Rest(script, n, l))
      BY <1>2, <3>1
    <3>. QED BY <3>2, <3>3, <3>4, Zenon
  <2>11. FdsOf(From(queue \o batch, c + 1)) = FdsIn(Rest(script, j, l))
    BY <2>2, <2>4, <2>8, <2>9, <2>10
  <2>12. e + b <= (a + b) - c
    BY <1>3, <2>2, <2>6
  <2>. QED BY <2>3, <2>7, <2>11, <2>12
<1>7. CASE ~(c <= a)
  <2>1. PICK e \in 1..b : e = c - a
    BY <1>7
  <2>2. FdsOf(From(batch, e + 1)) = <<>>
    BY <1>2, <1>3
  <2>3. From(queue \o batch, c + 1) = From(batch, e + 1)
    <3>1. PICK u, v : u = From(queue \o batch, c + 1) /\ v = From(batch, e + 1)
      OBVIOUS
    <3>2. /\ queue \o batch \in Seq(Item)
          /\ \A i \in 1..(a + b) : (queue \o batch)[i] = IF i <= a THEN queue[i] ELSE batch[i - a]
      BY <1>2, <1>3, ConcatProperties
    <3>3. c \in 0..Len(queue \o batch) /\ e \in 0..Len(batch)
      BY <1>3, <1>4
    <3>4. /\ u \in Seq(Item) /\ Len(u) = (a + b) - c
          /\ \A i \in 1..((a + b) - c) : u[i] = (queue \o batch)[i + c]
      BY <1>4, <3>1, <3>2, <3>3, Cut, ZenonT(120)
    <3>5. v \in Seq(Item) /\ Len(v) = b - e /\ \A i \in 1..(b - e) : v[i] = batch[i + e]
      BY <1>2, <1>3, <3>1, <3>3, Cut
    <3>6. Len(u) = Len(v)
      BY <2>1, <3>4, <3>5
    <3>7. ASSUME NEW i \in 1..Len(u) PROVE u[i] = v[i]
      <4>1. i + c \in 1..(a + b) /\ ~(i + c <= a) /\ i + c - a = i + e /\ i \in 1..(b - e) /\ i \in 1..((a + b) - c)
        BY <1>7, <2>1, <3>4
      <4>2. u[i] = (queue \o batch)[i + c] /\ v[i] = batch[i + e]
        BY <3>4, <3>5, <4>1
      <4>3. PICK o : o = i + c
        OBVIOUS
      <4>4. o \in 1..(a + b) /\ ~(o <= a) /\ o - a = i + e
        BY <4>1, <4>3
      <4>5. (queue \o batch)[o] = batch[o - a]
        <5>1. (queue \o batch)[o] = IF o <= a THEN queue[o] ELSE batch[o - a]
          BY <3>2, <4>4, Zenon
        <5>. QED BY <4>4, <5>1
      <4>. QED BY <4>2, <4>3, <4>4, <4>5
    <3>. QED BY <3>1, <3>4, <3>5, <3>6, <3>7, SeqEqual
  <2>4. Rest(script, l, l) = <<>> /\ l \in 0..l
    BY RestIs
  <2>5. FdsIn(Rest(script, l, l)) = <<>> /\ Len(WordsIn(d, Rest(script, l, l))) = 0
    BY <2>4, NoMessage
  <2>. QED BY <2>2, <2>3, <2>4, <2>5
<1>. QED BY <1>6, <1>7

\* A read moves words, and the fds that are with them, into the buffers.
LEMMA FillAccounts ==
  ASSUME NEW d \in Direction, NEW script, NEW n \in Nat,
         NEW a \in Seq(Item), NEW b \in Seq(Item),
         NEW buf \in Seq(Int), NEW fds \in Seq(Nat), NEW stray,
         Accounts(d, script, n, buf, fds, a \o b, stray)
  PROVE  /\ Accounts(d, script, n, buf \o Words(a), fds \o FdsOf(a), b, stray)
         /\ buf \o Words(a) \in Seq(Int) /\ fds \o FdsOf(a) \in Seq(Nat)
<1>1. Words(a \o b) = Words(a) \o Words(b) /\ FdsOf(a \o b) = FdsOf(a) \o FdsOf(b)
  BY QueueConcat
<1>2. Words(a) \in Seq(Int) /\ FdsOf(a) \in Seq(Nat) /\ Words(b) \in Seq(Int) /\ FdsOf(b) \in Seq(Nat)
  BY QueueIs
<1>3. (buf \o Words(a)) \o Words(b) = buf \o (Words(a) \o Words(b))
  BY <1>2, WordsAssociate, Zenon
<1>4. (fds \o FdsOf(a)) \o FdsOf(b) = fds \o (FdsOf(a) \o FdsOf(b))
  BY <1>2, FdsAssociate, Zenon
<1>5. (buf \o Words(a)) \o Words(b) = buf \o Words(a \o b)
  BY <1>1, <1>3
<1>6. (fds \o FdsOf(a)) \o FdsOf(b) = fds \o FdsOf(a \o b)
  BY <1>1, <1>4
<1>7. Accounts(d, script, n, buf \o Words(a), fds \o FdsOf(a), b, stray)
  BY <1>5, <1>6 DEF Accounts
<1>. QED BY <1>2, <1>7, ConcatProperties

\* ... and a fill takes from the front.
LEMMA FillFollows ==
  ASSUME NEW d, NEW script, NEW n \in Nat, NEW queue \in Seq(Item),
         NEW c \in 0..Len(queue), Follows(d, script, n, queue)
  PROVE  Follows(d, script, n, From(queue, c + 1))
<1>1. PICK b : b = From(queue, c + 1)
  OBVIOUS
<1>2. b \in Seq(Item) /\ Len(b) = Len(queue) - c /\ \A i \in 1..(Len(queue) - c) : b[i] = queue[i + c]
  BY <1>1, Cut
<1>3. PICK l \in Nat : l = Len(queue)
  OBVIOUS
<1>4. ASSUME NEW e \in 0..(l - c) PROVE From(b, e + 1) = From(queue, (c + e) + 1)
  <2>1. PICK u, v : u = From(b, e + 1) /\ v = From(queue, (c + e) + 1)
    OBVIOUS
  <2>2. c + e \in 0..Len(queue) /\ e \in 0..Len(b)
    BY <1>2, <1>3
  <2>3. u \in Seq(Item) /\ Len(u) = Len(b) - e /\ \A i \in 1..(Len(b) - e) : u[i] = b[i + e]
    BY <1>2, <2>1, <2>2, Cut
  <2>4. v \in Seq(Item) /\ Len(v) = Len(queue) - (c + e) /\ \A i \in 1..(Len(queue) - (c + e)) : v[i] = queue[i + (c + e)]
    BY <2>1, <2>2, Cut
  <2>5. Len(u) = Len(v)
    BY <1>2, <1>3, <2>3, <2>4
  <2>6. ASSUME NEW i \in 1..Len(u) PROVE u[i] = v[i]
    <3>1. i \in 1..(Len(b) - e) /\ i \in 1..(Len(queue) - (c + e)) /\ i + e \in 1..(Len(queue) - c) /\ (i + e) + c = i + (c + e)
      BY <1>2, <1>3, <2>3
    <3>2. u[i] = b[i + e] /\ b[i + e] = queue[(i + e) + c] /\ v[i] = queue[i + (c + e)]
      BY <1>2, <2>3, <2>4, <3>1
    <3>. QED BY <3>1, <3>2
  <2>. QED BY <2>1, <2>3, <2>4, <2>5, <2>6, SeqEqual
<1>5. SUFFICES ASSUME NEW e \in 0..(l - c)
               PROVE  \E j \in 0..n : /\ FdsOf(From(b, e + 1)) = FdsIn(Rest(script, j, n))
                                      /\ Len(WordsIn(d, Rest(script, j, n))) <= (l - c) - e
  BY <1>1, <1>2, <1>3 DEF Follows
<1>6. c + e \in 0..Len(queue)
  BY <1>3
<1>7. PICK j \in 0..n : /\ FdsOf(From(queue, (c + e) + 1)) = FdsIn(Rest(script, j, n))
                        /\ Len(WordsIn(d, Rest(script, j, n))) <= Len(queue) - (c + e)
  BY <1>6 DEF Follows
<1>8. Len(queue) - (c + e) = (l - c) - e
  BY <1>3
<1>. QED BY <1>4, <1>7, <1>8

\* The beginnings of two ways to cut the same words.
LEMMA BeginsAlike ==
  ASSUME NEW a \in Seq(Int), NEW b \in Seq(Int), NEW u \in Seq(Int), NEW v \in Seq(Int),
         a \o b = u \o v
  PROVE  /\ Len(a) + Len(b) = Len(u) + Len(v)
         /\ \A i \in 1..Len(a) : i <= Len(u) => a[i] = u[i]
<1>1. PICK k, l, m, n \in Nat : k = Len(a) /\ l = Len(b) /\ m = Len(u) /\ n = Len(v)
  OBVIOUS
<1>2. Len(a \o b) = Len(a) + Len(b) /\ Len(u \o v) = Len(u) + Len(v)
  BY ConcatProperties
<1>3. \A i \in 1..Len(a) + Len(b) : (a \o b)[i] = IF i <= Len(a) THEN a[i] ELSE b[i - Len(a)]
  BY ConcatProperties
<1>4. \A i \in 1..Len(u) + Len(v) : (u \o v)[i] = IF i <= Len(u) THEN u[i] ELSE v[i - Len(u)]
  BY ConcatProperties
<1>5. k + l = m + n
  BY <1>1, <1>2
<1>6. ASSUME NEW i \in 1..Len(a), i <= Len(u) PROVE a[i] = u[i]
  <2>1. i \in 1..Len(a) + Len(b) /\ i \in 1..Len(u) + Len(v) /\ i <= Len(a)
    BY <1>1, <1>6
  <2>2. (a \o b)[i] = a[i]
    BY <1>3, <2>1
  <2>3. (u \o v)[i] = u[i]
    BY <1>4, <1>6, <2>1
  <2>. QED BY <2>2, <2>3
<1>. QED BY <1>1, <1>5, <1>6

\* m is the first message in a buffer, t words long.
IsFirst(d, script, n, buf, fds, queue, stray, t, m) ==
  \E f \in Nat, k \in Nat :
    /\ Leads(d, script, k, n, buf, fds, queue, stray, t, m)
    /\ parse(buf).sender_id = IdIn(d, m.on) /\ parse(buf).opcode = m.opcode
    /\ f = Len(Fds(m.values)) /\ f <= Len(fds)
    /\ Accounts(d, script, n, From(buf, t + 1), From(fds, f + 1), queue, stray)
    /\ Accounts(d, script, n, From(buf, t + 1), fds, queue, stray \/ Fds(m.values) # <<>>)

(***************************************************************************)
(* The first message in a buffer is the first one not taken, and its fds   *)
(* have arrived with its last word at the latest.  If it is taken with     *)
(* them, or without them, what is left is still accounted for.             *)
(***************************************************************************)
LEMMA FirstIs ==
  ASSUME NEW d \in Direction, NEW T, AllProper(d, T), NEW script \in Seq(T),
         NEW n \in 0..Len(script), NEW queue \in Seq(Item), NEW buf \in Seq(Int),
         NEW fds \in Seq(Nat), NEW stray,
         Accounts(d, script, n, buf, fds, queue, stray), Follows(d, script, n, queue),
         NEW t, t = take_message(buf), t > 0
  PROVE  \E m \in T : IsFirst(d, script, n, buf, fds, queue, stray, t, m)
<1>1. PICK k \in 0..n, pre \in Seq(Nat) :
        /\ buf \o Words(queue) = WordsIn(d, Rest(script, k, n))
        /\ fds \o FdsOf(queue) = pre \o FdsIn(Rest(script, k, n))
        /\ ~stray => pre = <<>>
  BY DEF Accounts
<1>2. AllTyped(T)
  BY TypedAll
<1>3. t \in 0..Len(buf) /\ Len(buf) >= 2
  BY TakeBound
<1>4. /\ Words(queue) \in Seq(Int) /\ Len(Words(queue)) = Len(queue) /\ FdsOf(queue) \in Seq(Nat)
  BY QueueIs
<1>5. PICK lb, lq \in Nat : lb = Len(buf) /\ lq = Len(queue)
  OBVIOUS
<1>6. Len(buf \o Words(queue)) = lb + lq
  <2>1. Len(buf \o Words(queue)) = Len(buf) + Len(Words(queue))
    BY <1>4, ConcatProperties
  <2>. QED BY <1>4, <1>5, <2>1
<1>7. k < n
  <2>1. SUFFICES ASSUME k = n PROVE FALSE
    OBVIOUS
  <2>2. Rest(script, k, n) = <<>>
    BY <2>1, RestIs
  <2>3. WordsIn(d, Rest(script, k, n)) = <<>>
    BY <2>2, NoMessage
  <2>4. lb + lq = 0
    BY <1>1, <1>6, <2>3
  <2>. QED BY <1>3, <1>5, <2>4
<1>8. PICK m \in T : Begins(d, script, k, n, m)
  BY <1>2, <1>7, RestFirstWords
<1>9. PICK b, w, F, R : b = Bytes(d, m) /\ w = WordsIn(d, Rest(script, k + 1, n)) /\ F = Fds(m.values) /\ R = FdsIn(Rest(script, k + 1, n))
  OBVIOUS
<1>10. /\ m \in T
       /\ WordsIn(d, Rest(script, k, n)) = b \o w /\ FdsIn(Rest(script, k, n)) = F \o R
       /\ w \in Seq(Int) /\ R \in Seq(Nat) /\ b \in Seq(Int) /\ F \in Seq(Nat) /\ Len(b) >= 2
  BY <1>8, <1>9 DEF Begins
<1>11. buf \o Words(queue) = b \o w /\ fds \o FdsOf(queue) = pre \o (F \o R)
  BY <1>1, <1>10
<1>12. /\ Len(buf) + Len(Words(queue)) = Len(b) + Len(w)
       /\ \A i \in 1..Len(buf) : i <= Len(b) => buf[i] = b[i]
  BY <1>4, <1>10, <1>11, BeginsAlike
<1>13. buf[1] = b[1] /\ buf[2] = b[2]
  <2>1. PICK lc \in Nat : lc = Len(b)
    BY <1>10
  <2>2. lb >= 2 /\ lc >= 2
    BY <1>3, <1>5, <1>10, <2>1
  <2>3. 1 \in 1..lb /\ 2 \in 1..lb /\ 1 <= lc /\ 2 <= lc
    BY <2>2
  <2>. QED BY <1>5, <1>12, <2>1, <2>3
<1>14. /\ parse(buf).sender_id = IdIn(d, m.on) /\ parse(buf).opcode = m.opcode
       /\ take_message(buf) = IF Len(buf) < Len(b) THEN 0 ELSE Len(b)
  <2>1. Typed(m) /\ Fits(d, m)
    BY <1>10 DEF AllProper
  <2>. QED BY <1>3, <1>9, <1>13, <2>1, TakeIs
<1>15. t = Len(b)
  BY <1>14
<1>16. From(buf, t + 1) \o Words(queue) = w
  <2>1. From(buf \o Words(queue), t + 1) = From(buf, t + 1) \o Words(queue)
    BY <1>3, <1>4, FromConcat
  <2>2. From(b \o w, Len(b) + 1) = w
    BY <1>10, FromSecond
  <2>. QED BY <1>11, <1>15, <2>1, <2>2
<1>17. PICK f \in Nat : f = Len(F)
  BY <1>10
<1>18. PICK P : P = pre \o F
  OBVIOUS
<1>19. P \in Seq(Nat) /\ Len(P) = Len(pre) + Len(F)
  BY <1>10, <1>18, ConcatProperties
<1>20. P \o R = pre \o (F \o R)
  BY <1>10, <1>18, FdsAssociate, Zenon
<1>21. k + 1 \in 0..n
  BY <1>7
<1>22. f <= Len(fds)
  <2>1. PICK j \in 0..n : FdsOf(queue) = FdsIn(Rest(script, j, n)) /\ Len(WordsIn(d, Rest(script, j, n))) <= lq
    <3>1. PICK c \in 0..Len(queue) : c = 0
      BY <1>5
    <3>2. PICK j \in 0..n : FdsOf(From(queue, c + 1)) = FdsIn(Rest(script, j, n)) /\ Len(WordsIn(d, Rest(script, j, n))) <= Len(queue) - c
      BY DEF Follows
    <3>3. From(queue, c + 1) = queue /\ Len(queue) - c = lq
      BY <1>5, <3>1, FromWhole
    <3>. QED BY <3>2, <3>3
  <2>2. lq <= Len(w)
    <3>1. PICK x, y \in Nat : x = Len(b) /\ y = Len(w)
      BY <1>10
    <3>2. lb + lq = x + y /\ x <= lb
      BY <1>3, <1>4, <1>5, <1>12, <1>15, <3>1
    <3>. QED BY <3>1, <3>2
  <2>3. j >= k + 1
    <3>1. SUFFICES ASSUME j < k + 1 PROVE FALSE
      BY <1>21
    <3>2. j \in 0..(k + 1)
      BY <3>1
    <3>3. Len(WordsIn(d, Rest(script, j, n))) > Len(w)
      BY <1>2, <1>9, <1>21, <3>1, <3>2, RestGrows
    <3>4. WordsIn(d, Rest(script, j, n)) \in Seq(Int)
      BY <1>2, RestIs, MessagesAre
    <3>5. PICK x, y \in Nat : x = Len(WordsIn(d, Rest(script, j, n))) /\ y = Len(w)
      BY <1>10, <3>4
    <3>. QED BY <2>1, <2>2, <3>3, <3>5
  <2>4. k + 1 \in 0..j /\ j \in 0..Len(script)
    BY <1>21, <2>3
  <2>5. R = FdsIn(Rest(script, k + 1, j)) \o FdsOf(queue)
    BY <1>2, <1>9, <2>1, <2>4, RestWords
  <2>6. FdsIn(Rest(script, k + 1, j)) \in Seq(Nat)
    BY <1>2, <2>4, RestIs, MessagesAre
  <2>7. PICK x, y, z, p \in Nat : x = Len(FdsIn(Rest(script, k + 1, j))) /\ y = Len(FdsOf(queue)) /\ z = Len(fds) /\ p = Len(pre)
    BY <1>4, <2>6
  <2>8. Len(R) = x + y
    <3>1. Len(R) = Len(FdsIn(Rest(script, k + 1, j))) + Len(FdsOf(queue))
      BY <1>4, <2>5, <2>6, ConcatProperties
    <3>. QED BY <2>7, <3>1
  <2>9. /\ Len(fds \o FdsOf(queue)) = Len(fds) + Len(FdsOf(queue))
        /\ Len(P \o R) = Len(P) + Len(R)
    <3>1. Len(fds \o FdsOf(queue)) = Len(fds) + Len(FdsOf(queue))
      BY <1>4, ConcatProperties
    <3>2. Len(P \o R) = Len(P) + Len(R)
      BY <1>10, <1>19, ConcatProperties, ZenonT(60)
    <3>. QED BY <3>1, <3>2
  <2>10. z + y = (p + f) + (x + y)
    BY <1>11, <1>17, <1>19, <1>20, <2>7, <2>8, <2>9
  <2>. QED BY <2>7, <2>10
<1>23. f \in 0..Len(fds) /\ f \in 0..Len(P)
  BY <1>17, <1>19, <1>22
<1>24. From(fds, f + 1) \o FdsOf(queue) = From(P, f + 1) \o R
  <2>1. From(fds \o FdsOf(queue), f + 1) = From(fds, f + 1) \o FdsOf(queue)
    BY <1>4, <1>23, FromConcat
  <2>2. From(P \o R, f + 1) = From(P, f + 1) \o R
    BY <1>10, <1>19, <1>23, FromConcat
  <2>. QED BY <1>11, <1>20, <2>1, <2>2
<1>25. From(P, f + 1) \in Seq(Nat) /\ (~stray => From(P, f + 1) = <<>>)
  <2>1. From(P, f + 1) \in Seq(Nat) /\ Len(From(P, f + 1)) = Len(P) - f
    BY <1>19, <1>23, Cut
  <2>2. ~stray => Len(P) = f
    BY <1>1, <1>17, <1>19
  <2>3. Len(P) = f => Len(From(P, f + 1)) = 0
    BY <2>1
  <2>4. Len(From(P, f + 1)) = 0 => From(P, f + 1) = <<>>
    BY <2>1
  <2>. QED BY <2>1, <2>2, <2>3, <2>4
<1>26. Accounts(d, script, n, From(buf, t + 1), From(fds, f + 1), queue, stray)
  BY <1>9, <1>16, <1>21, <1>24, <1>25 DEF Accounts
<1>27. Accounts(d, script, n, From(buf, t + 1), fds, queue, stray \/ Fds(m.values) # <<>>)
  <2>1. ~(stray \/ Fds(m.values) # <<>>) => P = <<>>
    BY <1>1, <1>9, <1>18
  <2>2. fds \o FdsOf(queue) = P \o R
    BY <1>11, <1>20
  <2>. QED BY <1>9, <1>16, <1>19, <1>21, <2>1, <2>2 DEF Accounts
<1>28. AtFront(d, script, k, n, buf, queue) /\ AtFront(d, script, k + 1, n, From(buf, t + 1), queue)
  BY <1>1, <1>9, <1>16, <1>21 DEF AtFront
<1>29. SubSeq(buf, 1, t) = b
  <2>1. PICK s : s = SubSeq(buf, 1, t)
    OBVIOUS
  <2>2. s \in Seq(Int) /\ Len(s) = t /\ \A i \in 1..t : s[i] = buf[i]
    BY <1>3, <2>1
  <2>3. \A i \in 1..t : buf[i] = b[i]
    <3>1. \A i \in 1..t : i \in 1..Len(buf) /\ i <= Len(b)
      BY <1>3, <1>15
    <3>. QED BY <1>12, <3>1
  <2>. QED BY <1>10, <1>15, <2>1, <2>2, <2>3, SeqEqual
<1>30. ASSUME ~stray PROVE SubSeq(fds, 1, f) = F
  <2>1. <<>> \o (F \o R) = F \o R
    <3>1. F \o R \in Seq(Nat)
      BY <1>10, ConcatProperties
    <3>. QED BY <3>1, ConcatEmptySeq
  <2>2. fds \o FdsOf(queue) = F \o R
    BY <1>1, <1>11, <1>30, <2>1
  <2>3. \A i \in 1..Len(fds) : i <= Len(F) => fds[i] = F[i]
    <3>1. Seq(Nat) \subseteq Seq(Int)
      <4>1. Nat \subseteq Int
        OBVIOUS
      <4>. QED BY <4>1, SeqMonotonic
    <3>2. fds \in Seq(Int) /\ FdsOf(queue) \in Seq(Int) /\ F \in Seq(Int) /\ R \in Seq(Int)
      BY <1>4, <1>10, <3>1
    <3>. QED BY <2>2, <3>2, BeginsAlike
  <2>4. PICK s : s = SubSeq(fds, 1, f)
    OBVIOUS
  <2>5. s \in Seq(Nat) /\ Len(s) = f /\ \A i \in 1..f : s[i] = fds[i]
    BY <1>23, <2>4, SMTT(60)
  <2>6. \A i \in 1..f : fds[i] = F[i]
    <3>1. \A i \in 1..f : i \in 1..Len(fds) /\ i <= Len(F)
      BY <1>17, <1>23
    <3>. QED BY <2>3, <3>1
  <2>. QED BY <1>10, <1>17, <2>4, <2>5, <2>6, SeqEqual
<1>31. m \in T /\ f \in Nat /\ k \in Nat /\ Leads(d, script, k, n, buf, fds, queue, stray, t, m)
  BY <1>8, <1>9, <1>17, <1>28, <1>29, <1>30 DEF Begins, Leads
<1>. QED BY <1>9, <1>14, <1>17, <1>22, <1>26, <1>27, <1>31 DEF IsFirst

-----------------------------------------------------------------------------
\* How many messages are in words.

NextAt(words, i) == take_message(SubSeq(words, i, Len(words)))
Piece(words, f, i) ==
  IF NextAt(words, i) = 0 THEN <<>>
  ELSE <<SubSeq(words, i, i + NextAt(words, i) - 1)>> \o f[i + NextAt(words, i)]

\* The next message ends within the buffer.
LEMMA NextBound ==
  ASSUME NEW words \in Seq(Int), NEW i \in 1..(Len(words) + 1)
  PROVE  NextAt(words, i) \in 0..(Len(words) - i + 1)
<1>1. PICK l \in Nat : l = Len(words)
  OBVIOUS
<1>2. \A j \in i..l : words[j] \in Int
  BY <1>1
<1>3. PICK s : s = SubSeq(words, i, l)
  OBVIOUS
<1>4. s \in Seq(Int) /\ Len(s) = IF i <= l THEN l - i + 1 ELSE 0
  BY <1>1, <1>2, <1>3, SubSeqProperties
<1>5. Len(s) = l - i + 1
  BY <1>1, <1>4
<1>6. take_message(s) \in 0..Len(s)
  BY <1>4, TakeBound
<1>. QED BY <1>1, <1>3, <1>5, <1>6 DEF NextAt

\* f has the messages from each of the positions in at on.
Reads(f, words, at) == f = [i \in at |-> Piece(words, f, i)]

\* The recursion of Messages has a solution, from the end of the words.
LEMMA ReadSolution ==
  ASSUME NEW words \in Seq(Int)
  PROVE  \E f : Reads(f, words, 1..(Len(words) + 1))
<1>1. PICK l \in Nat : l = Len(words)
  OBVIOUS
<1> DEFINE Good == {k \in Nat : k <= l => \E f : Reads(f, words, (l + 1 - k)..(l + 1))}
<1>2. 0 \in Good
  <2>1. \A i \in (l + 1 - 0)..(l + 1) : i = l + 1
    OBVIOUS
  <2>2. NextAt(words, l + 1) = 0
    <3>1. NextAt(words, l + 1) \in 0..(Len(words) - (l + 1) + 1)
      BY <1>1, NextBound
    <3>. QED BY <1>1, <3>1
  <2>3. PICK g : g = [i \in (l + 1 - 0)..(l + 1) |-> <<>>]
    OBVIOUS
  <2>4. \A i \in (l + 1 - 0)..(l + 1) : Piece(words, g, i) = <<>>
    BY <2>1, <2>2 DEF Piece
  <2>5. g = [i \in (l + 1 - 0)..(l + 1) |-> Piece(words, g, i)]
    BY <2>3, <2>4
  <2>. QED BY <2>5 DEF Reads
<1>3. ASSUME NEW k \in Nat, k \in Good PROVE k + 1 \in Good
  <2>1. SUFFICES ASSUME k + 1 <= l PROVE \E f : Reads(f, words, (l + 1 - (k + 1))..(l + 1))
    OBVIOUS
  <2>2. PICK f : Reads(f, words, (l + 1 - k)..(l + 1))
    BY <1>3, <2>1
  <2>3. PICK o \in Nat : o = l - k
    BY <2>1
  <2>4. l + 1 - (k + 1) = o /\ l + 1 - k = o + 1 /\ o \in 1..l
    BY <2>1, <2>3
  <2>5. PICK g : g = [i \in o..(l + 1) |-> IF i = o THEN Piece(words, f, i) ELSE f[i]]
    OBVIOUS
  <2>6. ASSUME NEW i \in o..(l + 1) PROVE Piece(words, g, i) = Piece(words, f, i)
    <3>1. PICK n : n = NextAt(words, i)
      OBVIOUS
    <3>2. n \in 0..(l - i + 1)
      BY <1>1, <2>4, <3>1, NextBound
    <3>3. n # 0 => i + n \in o..(l + 1) /\ i + n # o
      BY <3>2
    <3>4. n # 0 => g[i + n] = f[i + n]
      BY <2>5, <3>3
    <3>. QED BY <3>1, <3>4 DEF Piece
  <2>7. ASSUME NEW i \in o..(l + 1) PROVE g[i] = Piece(words, f, i)
    <3>1. CASE i = o
      BY <2>5, <3>1
    <3>2. CASE i # o
      <4>1. i \in (o + 1)..(l + 1)
        BY <3>2
      <4>2. f[i] = Piece(words, f, i)
        BY <2>2, <2>4, <4>1 DEF Reads
      <4>. QED BY <2>5, <3>2, <4>2
    <3>. QED BY <3>1, <3>2
  <2>8. g = [i \in o..(l + 1) |-> Piece(words, g, i)]
    BY <2>5, <2>6, <2>7
  <2>. QED BY <2>4, <2>8 DEF Reads
<1>4. l \in Good
  <2> HIDE DEF Good
  <2>. QED BY <1>2, <1>3, AllNaturals
<1>5. l + 1 - l = 1
  OBVIOUS
<1>. QED BY <1>1, <1>4, <1>5

\* Messages is the value of any solution at the first word.
LEMMA MessagesBy ==
  ASSUME NEW words \in Seq(Int)
  PROVE  \E f : /\ \A i \in 1..(Len(words) + 1) : f[i] = Piece(words, f, i)
                /\ Messages(words) = f[1]
<1>1. PICK l \in Nat : l = Len(words)
  OBVIOUS
<1>2. PICK read : read = CHOOSE f : Reads(f, words, 1..(Len(words) + 1))
  OBVIOUS
<1>3. Messages(words) = read[1]
  BY <1>2 DEF Messages, Reads, Piece, NextAt
<1>4. Reads(read, words, 1..(Len(words) + 1))
  BY <1>2, ReadSolution
<1>5. \A i \in 1..(Len(words) + 1) : read[i] = Piece(words, read, i)
  BY <1>4 DEF Reads
<1>. QED BY <1>3, <1>5

\* The part in the middle.
LEMMA Middle ==
  ASSUME NEW u \in Seq(Int), NEW b \in Seq(Int), NEW r \in Seq(Int), Len(b) > 0
  PROVE  SubSeq(u \o (b \o r), Len(u) + 1, Len(u) + Len(b)) = b
<1>1. PICK l, n, o \in Nat : l = Len(u) /\ n = Len(b) /\ o = Len(r)
  OBVIOUS
<1>2. PICK c : c = b \o r
  OBVIOUS
<1>3. c \in Seq(Int) /\ Len(c) = n + o /\ \A i \in 1..(n + o) : c[i] = IF i <= n THEN b[i] ELSE r[i - n]
  BY <1>1, <1>2, ConcatProperties
<1>4. PICK s : s = u \o c
  OBVIOUS
<1>5. s \in Seq(Int) /\ Len(s) = l + (n + o) /\ \A i \in 1..(l + (n + o)) : s[i] = IF i <= l THEN u[i] ELSE c[i - l]
  <2>1. /\ u \o c \in Seq(Int) /\ Len(u \o c) = Len(u) + Len(c)
        /\ \A i \in 1..Len(u) + Len(c) : (u \o c)[i] = IF i <= Len(u) THEN u[i] ELSE c[i - Len(u)]
    BY <1>3, ConcatProperties
  <2>2. PICK len \in Nat : len = Len(c) /\ len = n + o
    BY <1>1, <1>3
  <2>3. /\ s \in Seq(Int) /\ Len(s) = l + len
        /\ \A i \in 1..(l + len) : s[i] = IF i <= l THEN u[i] ELSE c[i - l]
    BY <1>1, <1>4, <2>1, <2>2
  <2>. QED BY <2>2, <2>3
<1>6. PICK t : t = SubSeq(s, l + 1, l + n)
  OBVIOUS
<1>7. t \in Seq(Int) /\ Len(t) = n /\ \A i \in 1..n : t[i] = s[l + i]
  <2>1. \A i \in (l + 1)..(l + n) : s[i] \in Int
    <3>1. ASSUME NEW i \in (l + 1)..(l + n) PROVE i \in 1..Len(s)
      BY <1>5, SMTT(60)
    <3>. QED BY <1>5, <3>1
  <2>2. l + 1 \in Int /\ l + n \in Int
    OBVIOUS
  <2>3. /\ t \in Seq(Int)
        /\ Len(t) = IF l + 1 <= l + n THEN (l + n) - (l + 1) + 1 ELSE 0
        /\ \A i \in 1..((l + n) - (l + 1) + 1) : t[i] = s[(l + 1) + i - 1]
    BY <1>6, <2>1, <2>2, SubSeqProperties
  <2>4. l + 1 <= l + n /\ (l + n) - (l + 1) + 1 = n
    BY <1>1
  <2>5. Len(t) = n
    BY <2>3, <2>4
  <2>6. ASSUME NEW i \in 1..n PROVE t[i] = s[l + i]
    <3>1. (l + 1) + i - 1 = l + i
      OBVIOUS
    <3>. QED BY <2>3, <2>4, <3>1
  <2>. QED BY <2>3, <2>5, <2>6
<1>8. ASSUME NEW i \in 1..n PROVE t[i] = b[i]
  <2>1. l + i \in 1..(l + (n + o)) /\ ~(l + i <= l) /\ (l + i) - l = i
    OBVIOUS
  <2>2. s[l + i] = c[i]
    BY <1>5, <2>1
  <2>3. i \in 1..(n + o) /\ i <= n
    OBVIOUS
  <2>4. c[i] = b[i]
    BY <1>3, <2>3
  <2>. QED BY <1>7, <2>2, <2>4
<1>9. t = b
  BY <1>1, <1>7, <1>8, SeqEqual
<1>. QED BY <1>1, <1>2, <1>4, <1>6, <1>9

\* The bytes of each message.
Each(d, ms) == [i \in DOMAIN ms |-> Bytes(d, ms[i])]

\* What is read from words that are proper messages, and an incomplete one, are these messages.
LEMMA MessagesBack ==
  ASSUME NEW d \in Direction, NEW T, AllProper(d, T), NEW ms \in Seq(T),
         NEW part \in Seq(Int), take_message(part) = 0
  PROVE  Messages(WordsIn(d, ms) \o part) = Each(d, ms)
<1>1. AllTyped(T)
  BY TypedAll
<1>2. PICK N \in Nat : N = Len(ms)
  OBVIOUS
<1>3. PICK words \in Seq(Int) : words = WordsIn(d, ms)
  BY <1>1, MessagesAre
<1>4. PICK L, P \in Nat : L = Len(words) /\ P = Len(part)
  OBVIOUS
<1>12. PICK all : all = words \o part
  OBVIOUS
<1>13. all \in Seq(Int) /\ Len(all) = L + P
  BY <1>4, <1>12, ConcatProperties
<1>5. PICK f : (\A i \in 1..(L + P + 1) : f[i] = Piece(all, f, i)) /\ Messages(all) = f[1]
  <2>1. \E f : (\A i \in 1..(Len(all) + 1) : f[i] = Piece(all, f, i)) /\ Messages(all) = f[1]
    BY <1>13, MessagesBy
  <2>. QED BY <1>13, <2>1
<1> DEFINE At(k) == L - Len(WordsIn(d, Rest(ms, N - k, N))) + 1
<1> HIDE DEF At
<1> DEFINE Found(k) == /\ f[At(k)] \in Seq(Seq(Int)) /\ Len(f[At(k)]) = k
                       /\ \A i \in 1..k : f[At(k)][i] = Bytes(d, ms[(N - k) + i])
<1> DEFINE Good == {k \in Nat : k <= N => Found(k)}
<1>6. N \in 0..Len(ms) /\ 0 \in 0..N /\ Rest(ms, 0, N) = ms
  <2>1. Rest(ms, 0, N) = SubSeq(ms, 1, N)
    BY DEF Rest
  <2>. QED BY <1>2, <2>1, SubSeqFull
<1>7. 0 \in Good
  <2>1. N - 0 = N /\ N \in 0..N
    OBVIOUS
  <2>2. Rest(ms, N, N) = <<>>
    BY <1>6, <2>1, RestIs
  <2>3. WordsIn(d, Rest(ms, N, N)) = <<>>
    BY <2>2, NoMessage
  <2>4. At(0) = L + 1
    BY <2>1, <2>3 DEF At
  <2>5. NextAt(all, L + 1) = 0
    <3>1. From(words \o part, Len(words) + 1) = part
      BY FromSecond
    <3>2. SubSeq(all, L + 1, Len(all)) = part
      BY <1>4, <1>12, <3>1 DEF From
    <3>. QED BY <3>2 DEF NextAt
  <2>6. f[L + 1] = <<>>
    <3>1. f[L + 1] = Piece(all, f, L + 1)
      BY <1>5
    <3>. QED BY <2>5, <3>1 DEF Piece
  <2>7. f[At(0)] = <<>>
    BY <2>4, <2>6
  <2>8. <<>> \in Seq(Seq(Int)) /\ Len(<<>>) = 0
    OBVIOUS
  <2>9. 1..0 = {}
    OBVIOUS
  <2>10. Found(0)
    BY <2>7, <2>8, <2>9
  <2>. QED BY <2>10
<1>8. ASSUME NEW k \in Nat, k \in Good PROVE k + 1 \in Good
  <2>1. SUFFICES ASSUME k + 1 <= N PROVE Found(k + 1)
    OBVIOUS
  <2>2. /\ f[At(k)] \in Seq(Seq(Int)) /\ Len(f[At(k)]) = k
        /\ \A i \in 1..k : f[At(k)][i] = Bytes(d, ms[(N - k) + i])
    BY <1>8, <2>1
  <2>3. PICK p \in 0..N : p = N - (k + 1)
    BY <2>1
  <2>4. p < N /\ p + 1 = N - k /\ 0 \in 0..p
    BY <2>1, <2>3
  <2>5. PICK m \in T : Begins(d, ms, p, N, m)
    BY <1>1, <1>6, <2>4, RestFirstWords
  <2>6. PICK b, w : b = Bytes(d, m) /\ w = WordsIn(d, Rest(ms, p + 1, N))
    OBVIOUS
  <2>7. /\ WordsIn(d, Rest(ms, p, N)) = b \o w /\ w \in Seq(Int) /\ b \in Seq(Int) /\ Len(b) >= 2
        /\ m = ms[p + 1]
    BY <2>5, <2>6 DEF Begins
  <2>8. PICK u : u = WordsIn(d, Rest(ms, 0, p))
    OBVIOUS
  <2>9. words = u \o (b \o w) /\ u \in Seq(Int)
    <3>1. WordsIn(d, Rest(ms, 0, N)) = WordsIn(d, Rest(ms, 0, p)) \o WordsIn(d, Rest(ms, p, N))
      <4>1. N \in 0..Len(ms) /\ p \in 0..N /\ 0 \in 0..p
        BY <1>1, <1>2, <1>6, <2>3, <2>4
      <4>. QED BY <1>1, <4>1, RestWords, SMTT(60), ZenonT(60)
    <3>2. p \in 0..Len(ms)
      BY <1>2
    <3>3. u \in Seq(Int)
      BY <1>1, <2>4, <2>8, <3>2, RestIs, MessagesAre
    <3>. QED BY <1>3, <1>6, <2>7, <2>8, <3>1, <3>3
  <2>10. PICK lu, lb, lw \in Nat : lu = Len(u) /\ lb = Len(b) /\ lw = Len(w)
    BY <2>7, <2>9
  <2>11. b \o w \in Seq(Int) /\ Len(b \o w) = lb + lw
    BY <2>7, <2>10, ConcatProperties
  <2>12. L = lu + (lb + lw)
    <3>1. Len(u \o (b \o w)) = Len(u) + Len(b \o w)
      BY <2>9, <2>11, ConcatProperties
    <3>. QED BY <1>4, <2>9, <2>10, <2>11, <3>1
  <2>13. At(k + 1) = lu + 1
    <3>1. Len(WordsIn(d, Rest(ms, N - (k + 1), N))) = lb + lw
      BY <2>3, <2>7, <2>11
    <3>2. At(k + 1) = L - (lb + lw) + 1
      BY <3>1 DEF At
    <3>. QED BY <2>12, <3>2
  <2>14. At(k) = lu + 1 + lb
    <3>1. Len(WordsIn(d, Rest(ms, N - k, N))) = lw
      BY <2>4, <2>6, <2>10
    <3>2. At(k) = L - lw + 1
      BY <3>1 DEF At
    <3>. QED BY <2>12, <3>2
  <2>24. PICK r \in Seq(Int) : r = w \o part
    BY <2>7, ConcatProperties
  <2>25. all = u \o (b \o r)
    <3>1. (u \o (b \o w)) \o part = u \o ((b \o w) \o part)
      BY <2>9, <2>11, WordsAssociate, ZenonT(60)
    <3>2. (b \o w) \o part = b \o (w \o part)
      BY <2>7, WordsAssociate, Zenon
    <3>. QED BY <1>12, <2>9, <2>24, <3>1, <3>2, Zenon
  <2>26. b \o r \in Seq(Int) /\ Len(b \o r) >= lb
    <3>1. b \o r \in Seq(Int) /\ Len(b \o r) = Len(b) + Len(r)
      BY <2>7, ConcatProperties
    <3>. QED BY <2>10, <3>1
  <2>15. SubSeq(all, lu + 1, Len(all)) = b \o r
    <3>1. From(u \o (b \o r), Len(u) + 1) = b \o r
      BY <2>9, <2>26, FromSecond
    <3>. QED BY <2>10, <2>25, <3>1 DEF From
  <2>16. take_message(b \o r) = lb
    <3>1. Typed(m) /\ Fits(d, m)
      BY DEF AllProper
    <3>2. PICK c : c = b \o r
      OBVIOUS
    <3>3. c \in Seq(Int) /\ Len(c) >= 2 /\ ~(Len(c) < Len(b))
      BY <2>7, <2>10, <2>26, <3>2
    <3>4. c[1] = b[1] /\ c[2] = b[2]
      <4>1. \A i \in 1..Len(b) + Len(r) : (b \o r)[i] = IF i <= Len(b) THEN b[i] ELSE r[i - Len(b)]
        BY <2>7, ConcatProperties
      <4>2. lb >= 2
        BY <2>7, <2>10
      <4>. QED BY <2>10, <3>2, <4>1, <4>2
    <3>5. take_message(c) = IF Len(c) < Len(b) THEN 0 ELSE Len(b)
      BY <2>6, <3>1, <3>3, <3>4, TakeIs
    <3>. QED BY <2>10, <3>2, <3>3, <3>5
  <2>17. NextAt(all, lu + 1) = lb /\ lb # 0
    <3>1. lb # 0
      BY <2>7, <2>10
    <3>2. NextAt(all, lu + 1) = take_message(b \o r)
      BY <2>15 DEF NextAt
    <3>. QED BY <2>16, <3>1, <3>2
  <2>18. f[lu + 1] = <<SubSeq(all, lu + 1, lu + 1 + lb - 1)>> \o f[lu + 1 + lb]
    <3>1. lu + 1 \in 1..(L + P + 1)
      BY <2>12
    <3>2. f[lu + 1] = Piece(all, f, lu + 1)
      BY <1>5, <3>1
    <3>. QED BY <2>17, <3>2 DEF Piece
  <2>19. SubSeq(all, lu + 1, lu + 1 + lb - 1) = b
    <3>1. SubSeq(u \o (b \o r), Len(u) + 1, Len(u) + Len(b)) = b
      <4>1. Len(b) > 0
        BY <2>7
      <4>. QED BY <2>7, <2>9, <4>1, Middle
    <3>2. lu + 1 + lb - 1 = lu + lb
      OBVIOUS
    <3>. QED BY <2>10, <2>25, <3>1, <3>2
  <2>20. PICK x, y : x = <<b>> /\ y = f[lu + 1 + lb]
    OBVIOUS
  <2>21. /\ x \in Seq(Seq(Int)) /\ Len(x) = 1 /\ x[1] = b /\ y \in Seq(Seq(Int)) /\ Len(y) = k
         /\ \A i \in 1..k : y[i] = Bytes(d, ms[(N - k) + i])
    <3>1. x \in Seq(Seq(Int)) /\ Len(x) = 1 /\ x[1] = b
      BY <2>7, <2>20
    <3>2. y = f[At(k)]
      BY <2>14, <2>20
    <3>. QED BY <2>2, <3>1, <3>2
  <2>27. PICK z : z = x \o y
    OBVIOUS
  <2>22. /\ z \in Seq(Seq(Int)) /\ Len(z) = k + 1
         /\ \A i \in 1..(k + 1) : z[i] = IF i <= 1 THEN x[i] ELSE y[i - 1]
    <3>1. /\ x \o y \in Seq(Seq(Int)) /\ Len(x \o y) = Len(x) + Len(y)
          /\ \A i \in 1..Len(x) + Len(y) : (x \o y)[i] = IF i <= Len(x) THEN x[i] ELSE y[i - Len(x)]
      BY <2>21, ConcatProperties
    <3>. QED BY <2>21, <2>27, <3>1, SMTT(60)
  <2>23. f[At(k + 1)] = z
    BY <2>13, <2>18, <2>19, <2>20, <2>27
  <2>28. ASSUME NEW i \in 1..(k + 1) PROVE z[i] = Bytes(d, ms[(N - (k + 1)) + i])
    <3>1. CASE i = 1
      <4>1. z[i] = b
        BY <2>21, <2>22, <3>1
      <4>2. (N - (k + 1)) + i = p + 1
        BY <2>3, <3>1
      <4>. QED BY <2>6, <2>7, <4>1, <4>2
    <3>2. CASE i > 1
      <4>1. PICK j \in 1..k : j = i - 1
        BY <3>2
      <4>2. (N - (k + 1)) + i = (N - k) + j /\ ~(i <= 1)
        BY <3>2, <4>1
      <4>3. z[i] = y[j]
        BY <2>22, <4>1, <4>2
      <4>4. y[j] = Bytes(d, ms[(N - k) + j])
        BY <2>21
      <4>. QED BY <4>2, <4>3, <4>4
    <3>. QED BY <3>1, <3>2
  <2>. QED BY <2>22, <2>23, <2>28
<1>9. N \in Good
  <2> HIDE DEF Good
  <2>. QED BY <1>7, <1>8, AllNaturals
<1>10. Found(N)
  BY <1>9
<1>11. At(N) = 1
  <2>1. N - N = 0
    OBVIOUS
  <2>. QED BY <1>3, <1>4, <1>6, <2>1 DEF At
<1>14. PICK e : e = Each(d, ms)
  OBVIOUS
<1>15. e \in Seq(Seq(Int)) /\ Len(e) = N /\ \A i \in 1..N : e[i] = Bytes(d, ms[i])
  <2>1. DOMAIN ms = 1..N
    BY <1>2
  <2>2. e = [i \in 1..N |-> Bytes(d, ms[i])]
    BY <1>14, <2>1 DEF Each
  <2>3. e \in Seq(Seq(Int))
    BY <1>1, <1>14, EachMessage DEF Each
  <2>. QED BY <2>2, <2>3
<1>16. PICK g : g = f[1]
  OBVIOUS
<1>17. g \in Seq(Seq(Int)) /\ Len(g) = N /\ \A i \in 1..N : g[i] = Bytes(d, ms[i])
  <2>1. g \in Seq(Seq(Int)) /\ Len(g) = N /\ \A i \in 1..N : g[i] = Bytes(d, ms[(N - N) + i])
    BY <1>10, <1>11, <1>16
  <2>2. \A i \in 1..N : (N - N) + i = i
    OBVIOUS
  <2>. QED BY <2>1, <2>2
<1>18. g = e
  BY <1>15, <1>17, SeqEqual
<1>. QED BY <1>3, <1>5, <1>12, <1>14, <1>16, <1>18

\* As many messages as were put into them.
LEMMA MessagesCount ==
  ASSUME NEW d \in Direction, NEW T, AllProper(d, T), NEW ms \in Seq(T)
  PROVE  Len(Messages(WordsIn(d, ms))) = Len(ms)
<1>1. PICK words, none : words = WordsIn(d, ms) /\ none = <<>> /\ none \in Seq(Int) /\ Len(none) = 0
  BY EmptySeq
<1>2. take_message(none) = 0
  <2>1. take_message(none) \in 0..Len(none)
    BY <1>1, TakeBound
  <2>. QED BY <1>1, <2>1
<1>3. Messages(words \o none) = Each(d, ms)
  BY <1>1, <1>2, MessagesBack
<1>4. words \o none = words
  <2>1. words \in Seq(Int)
    BY <1>1, TypedAll, MessagesAre
  <2>. QED BY <1>1, <2>1, ConcatEmptySeq
<1>5. Len(Each(d, ms)) = Len(ms)
  <2>1. Each(d, ms) \in Seq(Seq(Int))
    BY TypedAll, EachMessage DEF Each
  <2>. QED BY <2>1 DEF Each
<1>. QED BY <1>1, <1>3, <1>4, <1>5

-----------------------------------------------------------------------------
\* The state.

\* What the senders of d may say.
Spoken(d) ==
  IF d = "request" THEN ToSet(Played.client)
  ELSE UNION {ToSet(Played.hosts[g]) : g \in DOMAIN Played.hosts}

OwnMessages == ToSet(Played.fetch) \cup ToSet(Played.replay) \cup ToSet(Played.splice)
Output == [to : Direction, words : Seq(Int), fds : Seq(Nat), id : {0} \cup {m.id : m \in OwnMessages}, done : Nat]

Setting == scenario \in DOMAIN Scenarios /\ generation \in 1..Len(Played.hosts)

Queues ==
  /\ sent \in [Direction -> Nat] /\ \A d \in Direction : sent[d] \in 0..Len(Script(d))
  /\ wire \in [Direction -> Seq(Item)]
  /\ read_buf \in [Direction -> Seq(Int)] /\ read_fds \in [Direction -> Seq(Nat)]
  /\ marks \in [Direction -> SUBSET {"stray", "tee", "cut", "left"}]

Balanced(d) ==
  /\ Accounts(d, Script(d), sent[d], read_buf[d], read_fds[d], wire[d], "stray" \in marks[d])
  /\ Follows(d, Script(d), sent[d], wire[d])

\* What is written: whole or part of the first message, nothing of another.
Begun(out, i) == out.done < Len(out.words) /\ (i # 1 => out.done = 0)

Outgoing ==
  /\ todo \in Seq(Output) /\ \A i \in DOMAIN todo : Begun(todo[i], i)
  /\ got \in [Direction -> Seq(Item)] /\ unread \in [Direction -> Nat]
  /\ \A d \in Direction : unread[d] <= Capacity /\ unread[d] <= Len(got[d])
  /\ reclaim \in [pending : BOOLEAN, source : BOOLEAN]

QInv == Setting /\ Queues /\ (\A d \in Direction : Balanced(d)) /\ Outgoing

\* A direction stays balanced while its queues and buffers stay.
LEMMA BalancedKept ==
  ASSUME NEW d \in Direction, Balanced(d), UNCHANGED <<scenario, generation>>,
         sent'[d] = sent[d], wire'[d] = wire[d], read_buf'[d] = read_buf[d], read_fds'[d] = read_fds[d],
         "stray" \in marks[d] => "stray" \in marks'[d]
  PROVE  Balanced(d)'
<1>1. Script(d)' = Script(d)
  BY DEF Script, Played
<1>2. Accounts(d, Script(d), sent[d], read_buf[d], read_fds[d], wire[d], "stray" \in marks'[d])
  BY DEF Balanced, Accounts
<1>. QED BY <1>1, <1>2 DEF Balanced

\* What the assumptions say of the scenario that is played.
Declared(d, m) == Signature[d][m.opcode] = [i \in DOMAIN m.values |-> m.values[i].type]

\* A message creates one object at most.
OneNew(m) == \A i, j \in DOMAIN m.values : m.values[i].type = "new_id" /\ m.values[j].type = "new_id" => i = j

\* A proper message is typed, fits, and has the types of its signature.
LEMMA ProperIs ==
  \A d, m : Proper(d, m) => Typed(m) /\ Fits(d, m) /\ Declared(d, m) /\ OneNew(m)
BY DEF Proper, Typed, Fits, Argument, Declared, OneNew

\* The conversation that is played is one of proper messages.
LEMMA ScenarioIs ==
  ASSUME scenario \in DOMAIN Scenarios
  PROVE  /\ Played.client \in Seq(ToSet(Played.client))
         /\ Played.hosts \in Seq(Seq(Spoken("event"))) /\ Played.hosts # <<>>
         /\ Played.fetch \in Seq(OwnMessages) /\ Played.replay \in Seq(OwnMessages)
         /\ Played.splice \in Seq(OwnMessages)
         /\ \A m \in ToSet(Played.client) : Proper("request", m)
         /\ \A m \in OwnMessages : Proper("request", m) /\ Fds(m.values) = <<>>
         /\ \A m \in Spoken("event") :
              /\ Proper("event", m)
              /\ m.on = ProxyId.source => Len(Fds(m.values)) = IF m.opcode = Opcode.send THEN 1 ELSE 0
<1>1. PICK s : s = Played
  OBVIOUS
<1>2. PICK events : events = UNION {ToSet(s.hosts[g]) : g \in DOMAIN s.hosts}
  OBVIOUS
<1>3. PICK own : own = ToSet(s.fetch) \cup ToSet(s.replay) \cup ToSet(s.splice)
  OBVIOUS
<1>9. events = Spoken("event") /\ own = OwnMessages
  BY <1>1, <1>2, <1>3 DEF Spoken, OwnMessages
<1>4. /\ s.client \in Seq(ToSet(s.client))
      /\ s.hosts \in Seq(Seq(events)) /\ s.hosts # <<>>
      /\ \A ms \in {s.fetch, s.replay, s.splice} : ms \in Seq(ToSet(ms))
      /\ \A m \in ToSet(s.client) \cup own : Proper("request", m)
      /\ \A m \in own : Fds(m.values) = <<>>
      /\ \A m \in events :
           /\ Proper("event", m)
           /\ m.on = ProxyId.source => Len(Fds(m.values)) = IF m.opcode = Opcode.send THEN 1 ELSE 0
  BY <1>1, <1>2, <1>3, ScenariosAssumption, ZenonT(60) DEF Played
<1>5. s.fetch \in Seq(OwnMessages) /\ s.replay \in Seq(OwnMessages) /\ s.splice \in Seq(OwnMessages)
  <2>1. ToSet(s.fetch) \subseteq OwnMessages /\ ToSet(s.replay) \subseteq OwnMessages /\ ToSet(s.splice) \subseteq OwnMessages
    BY <1>1 DEF OwnMessages
  <2>2. \A S, T : S \subseteq T => Seq(S) \subseteq Seq(T)
    BY SeqMonotonic
  <2>. QED BY <1>4, <2>1, <2>2
<1>. QED BY <1>1, <1>9, <1>4, <1>5

\* So is the script of either direction.
LEMMA ScriptIs ==
  ASSUME Setting, NEW d \in Direction
  PROVE  /\ Script(d) \in Seq(Spoken(d)) /\ AllProper(d, Spoken(d)) /\ AllTyped(Spoken(d))
         /\ \A m \in Spoken(d) : Declared(d, m)
<1>1. scenario \in DOMAIN Scenarios /\ generation \in 1..Len(Played.hosts)
  BY DEF Setting
<1>2. \A m \in Spoken(d) : Proper(d, m)
  <2>1. CASE d = "request"
    BY <1>1, <2>1, ScenarioIs DEF Spoken
  <2>2. CASE d = "event"
    BY <1>1, <2>2, ScenarioIs
  <2>. QED BY <2>1, <2>2 DEF Direction
<1>3. Script(d) \in Seq(Spoken(d))
  <2>1. CASE d = "request"
    BY <1>1, <2>1, ScenarioIs DEF Spoken, Script
  <2>2. CASE d = "event"
    <3>1. Played.hosts \in Seq(Seq(Spoken("event")))
      BY <1>1, ScenarioIs
    <3>2. Played.hosts[generation] \in Seq(Spoken("event"))
      BY <1>1, <3>1, ElementOfSeq
    <3>. QED BY <2>2, <3>2 DEF Script
  <2>. QED BY <2>1, <2>2 DEF Direction
<1>4. \A m \in Spoken(d) : Typed(m) /\ Fits(d, m) /\ Declared(d, m)
  BY <1>2, ProperIs
<1>. QED BY <1>3, <1>4 DEF AllProper, AllTyped

\* The setting stays while nobody reconnects.
LEMMA SettingKept == ASSUME Setting, UNCHANGED <<scenario, generation>> PROVE Setting' /\ Played' = Played /\ \A d \in Direction : Script(d)' = Script(d)
BY DEF Setting, Played, Script

\* fill, of one direction.
LEMMA FillStep ==
  ASSUME Setting, Queues, NEW e \in Direction, fill(e),
         \A d \in Direction : Balanced(d), UNCHANGED <<scenario, generation, sent>>,
         marks' \in [Direction -> SUBSET {"stray", "tee", "cut", "left"}],
         \A d \in Direction : "stray" \in marks[d] => "stray" \in marks'[d]
  PROVE  Queues' /\ \A d \in Direction : Balanced(d)'
<1>1. PICK n \in 1..Len(wire[e]) :
        /\ read_buf' = [read_buf EXCEPT ![e] = @ \o Words(SubSeq(wire[e], 1, n))]
        /\ read_fds' = [read_fds EXCEPT ![e] = @ \o FdsOf(SubSeq(wire[e], 1, n))]
        /\ wire' = [wire EXCEPT ![e] = From(@, n + 1)]
  BY DEF fill
<1>2. /\ wire \in [Direction -> Seq(Item)]
      /\ read_buf \in [Direction -> Seq(Int)] /\ read_fds \in [Direction -> Seq(Nat)]
      /\ sent \in [Direction -> Nat] /\ \A d \in Direction : sent[d] \in 0..Len(Script(d))
  BY DEF Queues
<1>3. PICK q, buf, fds : q = wire[e] /\ buf = read_buf[e] /\ fds = read_fds[e]
  OBVIOUS
<1>4. q \in Seq(Item) /\ buf \in Seq(Int) /\ fds \in Seq(Nat)
  BY <1>2, <1>3
<1>5. PICK a, b : a = SubSeq(q, 1, n) /\ b = From(q, n + 1)
  OBVIOUS
<1>6. n \in 0..Len(q)
  BY <1>3
<1>7. a \in Seq(Item) /\ b \in Seq(Item) /\ q = a \o b
  <2>1. SubSeq(q, 1, n) \in Seq(Item) /\ From(q, n + 1) \in Seq(Item) /\ q = SubSeq(q, 1, n) \o From(q, n + 1)
    BY <1>4, <1>6, Cut
  <2>. QED BY <1>5, <2>1
<1>8. /\ wire'[e] = b /\ read_buf'[e] = buf \o Words(a) /\ read_fds'[e] = fds \o FdsOf(a)
      /\ \A d \in Direction \ {e} : wire'[d] = wire[d] /\ read_buf'[d] = read_buf[d] /\ read_fds'[d] = read_fds[d]
  BY <1>1, <1>2, <1>3, <1>5
<1>9. Accounts(e, Script(e), sent[e], buf, fds, q, "stray" \in marks[e]) /\ Follows(e, Script(e), sent[e], q)
  BY <1>3 DEF Balanced
<1>10. sent[e] \in Nat
  BY <1>2
<1>11. /\ Accounts(e, Script(e), sent[e], buf \o Words(a), fds \o FdsOf(a), b, "stray" \in marks[e])
       /\ buf \o Words(a) \in Seq(Int) /\ fds \o FdsOf(a) \in Seq(Nat)
  BY <1>4, <1>7, <1>9, <1>10, FillAccounts
<1>12. Follows(e, Script(e), sent[e], b)
  BY <1>4, <1>5, <1>6, <1>9, <1>10, FillFollows
<1>13. Accounts(e, Script(e), sent[e], buf \o Words(a), fds \o FdsOf(a), b, "stray" \in marks'[e])
  BY <1>11 DEF Accounts
<1>14. \A d \in Direction : Script(d)' = Script(d)
  BY SettingKept
<1>15. Balanced(e)'
  BY <1>8, <1>12, <1>13, <1>14 DEF Balanced
<1>16. \A d \in Direction \ {e} : Balanced(d)'
  BY <1>8, BalancedKept
<1>17. wire' \in [Direction -> Seq(Item)] /\ read_buf' \in [Direction -> Seq(Int)] /\ read_fds' \in [Direction -> Seq(Nat)]
  BY <1>1, <1>2, <1>3, <1>5, <1>7, <1>11
<1>18. Queues'
  BY <1>2, <1>14, <1>17 DEF Queues
<1>. QED BY <1>15, <1>16, <1>18

\* A flush of one sender.
LEMMA FlushStep ==
  ASSUME Setting, Queues, NEW e \in Direction, PeerFlushes(e), \A d \in Direction : Balanced(d)
  PROVE  Queues' /\ \A d \in Direction : Balanced(d)'
<1>1. UNCHANGED <<scenario, generation, read_buf, read_fds, marks>>
  BY DEF PeerFlushes
<1>2. PICK n \in 1..(Len(Script(e)) - sent[e]) :
        /\ wire' = [wire EXCEPT ![e] = @ \o Batch(e, SubSeq(Script(e), sent[e] + 1, sent[e] + n))]
        /\ sent' = [sent EXCEPT ![e] = @ + n]
  BY DEF PeerFlushes
<1>3. /\ wire \in [Direction -> Seq(Item)]
      /\ read_buf \in [Direction -> Seq(Int)] /\ read_fds \in [Direction -> Seq(Nat)]
      /\ sent \in [Direction -> Nat] /\ \A d \in Direction : sent[d] \in 0..Len(Script(d))
  BY DEF Queues
<1>4. PICK script, q, s : script = Script(e) /\ q = wire[e] /\ s = sent[e]
  OBVIOUS
<1>5. script \in Seq(Spoken(e)) /\ AllTyped(Spoken(e))
  BY <1>4, ScriptIs
<1>6. PICK l : l = s + n
  OBVIOUS
<1>7. s \in 0..Len(script) /\ l \in 0..Len(script) /\ s < l /\ q \in Seq(Item)
  <2>1. PICK len \in Nat : len = Len(script)
    BY <1>5
  <2>2. s \in 0..len /\ n \in 1..(len - s)
    BY <1>3, <1>4, <2>1
  <2>3. l \in 0..len /\ s < l
    BY <1>6, <2>2
  <2>. QED BY <1>3, <1>4, <2>1, <2>2, <2>3
<1>8. PICK batch : batch = Batch(e, Rest(script, s, l))
  OBVIOUS
<1>9. wire' = [wire EXCEPT ![e] = q \o batch] /\ sent' = [sent EXCEPT ![e] = l]
  BY <1>2, <1>4, <1>6, <1>8 DEF Rest
<1>10. /\ wire'[e] = q \o batch /\ sent'[e] = l
       /\ \A d \in Direction \ {e} : wire'[d] = wire[d] /\ sent'[d] = sent[d]
  BY <1>3, <1>9
<1>11. /\ Accounts(e, script, s, read_buf[e], read_fds[e], q, "stray" \in marks[e])
       /\ Follows(e, script, s, q)
  BY <1>4 DEF Balanced
<1>12. read_buf[e] \in Seq(Int) /\ read_fds[e] \in Seq(Nat)
  BY <1>3
<1>13. Accounts(e, script, l, read_buf[e], read_fds[e], q \o batch, "stray" \in marks[e])
  BY <1>5, <1>7, <1>8, <1>11, <1>12, FlushAccounts
<1>14. Follows(e, script, l, q \o batch)
  BY <1>5, <1>7, <1>8, <1>11, FlushFollows
<1>15. \A d \in Direction : Script(d)' = Script(d)
  BY <1>1, SettingKept
<1>16. Balanced(e)'
  BY <1>1, <1>4, <1>10, <1>13, <1>14, <1>15 DEF Balanced
<1>17. \A d \in Direction \ {e} : Balanced(d)'
  BY <1>1, <1>10, BalancedKept
<1>18. q \o batch \in Seq(Item)
  <2>1. batch \in Seq(Item)
    BY <1>5, <1>7, <1>8, MorePackets
  <2>. QED BY <1>7, <2>1, ConcatProperties
<1>19. wire' \in [Direction -> Seq(Item)] /\ sent' \in [Direction -> Nat]
  BY <1>3, <1>7, <1>9, <1>18
<1>20. \A d \in Direction : sent'[d] \in 0..Len(Script(d)')
  BY <1>3, <1>4, <1>7, <1>10, <1>15
<1>21. Queues'
  BY <1>1, <1>19, <1>20 DEF Queues
<1>. QED BY <1>16, <1>17, <1>21

\* A new compositor has said nothing, and its queue and buffers are empty.
LEMMA ReconnectQueues ==
  ASSUME Setting, Queues, Reconnect, \A d \in Direction : Balanced(d)
  PROVE  Setting' /\ Queues' /\ \A d \in Direction : Balanced(d)'
<1>1. /\ scenario' = scenario /\ generation' = generation + 1 /\ generation < Len(Played.hosts)
      /\ sent' = [sent EXCEPT !["event"] = 0]
      /\ wire' = [wire EXCEPT !["event"] = <<>>]
      /\ read_buf' = [read_buf EXCEPT !["event"] = <<>>]
      /\ read_fds' = [read_fds EXCEPT !["event"] = <<>>]
      /\ marks' = [marks EXCEPT !["request"] = @ \ {"cut"}]
  BY DEF Reconnect
<1>2. /\ wire \in [Direction -> Seq(Item)]
      /\ read_buf \in [Direction -> Seq(Int)] /\ read_fds \in [Direction -> Seq(Nat)]
      /\ marks \in [Direction -> SUBSET {"stray", "tee", "cut", "left"}]
      /\ sent \in [Direction -> Nat] /\ \A d \in Direction : sent[d] \in 0..Len(Script(d))
  BY DEF Queues
<1>3. Played' = Played
  BY <1>1 DEF Played
<1>4. Setting'
  <2>1. PICK g, l \in Int : g = generation /\ l = Len(Played.hosts)
    <3>1. Played.hosts \in Seq(Seq(Spoken("event")))
      BY ScenarioIs DEF Setting
    <3>. QED BY <3>1 DEF Setting
  <2>2. g + 1 \in 1..l
    BY <1>1, <2>1 DEF Setting
  <2>. QED BY <1>1, <1>3, <2>1, <2>2 DEF Setting
<1>5. /\ sent'["event"] = 0 /\ wire'["event"] = <<>> /\ read_buf'["event"] = <<>> /\ read_fds'["event"] = <<>>
      /\ sent'["request"] = sent["request"] /\ wire'["request"] = wire["request"]
      /\ read_buf'["request"] = read_buf["request"] /\ read_fds'["request"] = read_fds["request"]
      /\ "stray" \in marks["request"] => "stray" \in marks'["request"]
  BY <1>1, <1>2 DEF Direction
<1>6. Script("request")' = Script("request")
  BY <1>3 DEF Script
<1>7. Balanced("request")'
  <2>1. Balanced("request")
    BY DEF Direction
  <2>2. Accounts("request", Script("request"), sent["request"], read_buf["request"], read_fds["request"],
                 wire["request"], "stray" \in marks'["request"])
    BY <1>5, <2>1 DEF Balanced, Accounts
  <2>. QED BY <1>5, <1>6, <2>1, <2>2 DEF Balanced
<1>8. Balanced("event")'
  <2>1. PICK script : script = Script("event")'
    OBVIOUS
  <2>2. script \in Seq(Spoken("event"))
    <3>1. Played.hosts \in Seq(Seq(Spoken("event")))
      BY ScenarioIs DEF Setting
    <3>2. script = Played.hosts[generation']
      BY <1>3, <2>1 DEF Script
    <3>3. generation' \in 1..Len(Played.hosts)
      BY <1>3, <1>4 DEF Setting
    <3>. QED BY <3>1, <3>2, <3>3, ElementOfSeq
  <2>3. "event" \in Direction
    BY DEF Direction
  <2>4. Follows("event", script, 0, <<>>) /\ Accounts("event", script, 0, <<>>, <<>>, <<>>, "stray" \in marks'["event"])
    BY <2>2, <2>3, NothingSent
  <2>. QED BY <1>5, <2>1, <2>4 DEF Balanced
<1>9. /\ wire' \in [Direction -> Seq(Item)]
      /\ read_buf' \in [Direction -> Seq(Int)] /\ read_fds' \in [Direction -> Seq(Nat)]
      /\ marks' \in [Direction -> SUBSET {"stray", "tee", "cut", "left"}]
      /\ sent' \in [Direction -> Nat]
  BY <1>1, <1>2, EmptySeq
<1>10. \A d \in Direction : sent'[d] \in 0..Len(Script(d)')
  <2>1. sent'["request"] \in 0..Len(Script("request")')
    BY <1>2, <1>5, <1>6 DEF Direction
  <2>2. Script("event")' \in Seq(Spoken("event"))
    <3>1. Played.hosts \in Seq(Seq(Spoken("event")))
      BY ScenarioIs DEF Setting
    <3>2. Script("event")' = Played.hosts[generation']
      BY <1>3 DEF Script
    <3>3. generation' \in 1..Len(Played.hosts)
      BY <1>3, <1>4 DEF Setting
    <3>. QED BY <3>1, <3>2, <3>3, ElementOfSeq
  <2>3. sent'["event"] \in 0..Len(Script("event")')
    BY <1>5, <2>2
  <2>. QED BY <2>1, <2>3 DEF Direction
<1>11. Queues'
  BY <1>9, <1>10 DEF Queues
<1>. QED BY <1>4, <1>7, <1>8, <1>11 DEF Direction

\* The words of d that were sent and not taken begin with message k + 1.
Upcoming(d, k) == AtFront(d, Script(d), k, sent[d], read_buf[d], wire[d])

\* That is m, and it is whole; behind it is message k + 2.
Heads(d, k, m) ==
  /\ Upcoming(d, k) /\ m = Script(d)[k + 1] /\ First(d) = Bytes(d, m)
  /\ AtFront(d, Script(d), k + 1, sent[d], From(read_buf[d], take_message(read_buf[d]) + 1), wire[d])
  /\ "stray" \notin marks[d] => SubSeq(read_fds[d], 1, Len(Fds(m.values))) = Fds(m.values)

\* m is the first message in the buffer of d.  It may be taken with its fds
\* or without them.
IsNext(d, m) ==
  /\ m \in Spoken(d) /\ Declared(d, m) /\ Typed(m) /\ \E k \in Nat : Heads(d, k, m)
  /\ Header(d).sender_id = IdIn(d, m.on) /\ Header(d).opcode = m.opcode
  /\ Len(Fds(m.values)) \in Nat /\ Len(Fds(m.values)) <= Len(read_fds[d])
  /\ Accounts(d, Script(d), sent[d], From(read_buf[d], take_message(read_buf[d]) + 1),
              From(read_fds[d], Len(Fds(m.values)) + 1), wire[d], "stray" \in marks[d])
  /\ Accounts(d, Script(d), sent[d], From(read_buf[d], take_message(read_buf[d]) + 1),
              read_fds[d], wire[d], "stray" \in marks[d] \/ Fds(m.values) # <<>>)

\* A complete message is the next one that was sent.
LEMMA NextIs ==
  ASSUME Setting, Queues, NEW d \in Direction, Balanced(d), Complete(d)
  PROVE  \E m : IsNext(d, m)
<1>1. PICK script, T : script = Script(d) /\ T = Spoken(d)
  OBVIOUS
<1>2. PICK n, queue, buf, fds, stray : n = sent[d] /\ queue = wire[d] /\ buf = read_buf[d] /\ fds = read_fds[d] /\ stray = ("stray" \in marks[d])
  OBVIOUS
<1>3. script \in Seq(T) /\ AllProper(d, T) /\ AllTyped(T) /\ \A m \in T : Declared(d, m)
  BY <1>1, ScriptIs
<1>4. n \in 0..Len(script) /\ queue \in Seq(Item) /\ buf \in Seq(Int) /\ fds \in Seq(Nat)
  BY <1>1, <1>2 DEF Queues
<1>5. Accounts(d, script, n, buf, fds, queue, stray) /\ Follows(d, script, n, queue)
  BY <1>1, <1>2 DEF Balanced
<1>6. PICK t : t = take_message(buf)
  OBVIOUS
<1>7. t > 0
  BY <1>2, <1>6 DEF Complete
<1>8. PICK m \in T : IsFirst(d, script, n, buf, fds, queue, stray, t, m)
  BY <1>3, <1>4, <1>5, <1>6, <1>7, FirstIs
<1>9. PICK f \in Nat, k \in Nat :
        /\ Leads(d, script, k, n, buf, fds, queue, stray, t, m)
        /\ parse(buf).sender_id = IdIn(d, m.on) /\ parse(buf).opcode = m.opcode
        /\ f = Len(Fds(m.values)) /\ f <= Len(fds)
        /\ Accounts(d, script, n, From(buf, t + 1), From(fds, f + 1), queue, stray)
        /\ Accounts(d, script, n, From(buf, t + 1), fds, queue, stray \/ Fds(m.values) # <<>>)
  BY <1>8 DEF IsFirst
<1>10. Heads(d, k, m)
  BY <1>1, <1>2, <1>6, <1>9 DEF Heads, Upcoming, First, Leads
<1>11. IsNext(d, m)
  BY <1>1, <1>2, <1>3, <1>6, <1>9, <1>10 DEF IsNext, Header, AllTyped
<1>. QED BY <1>11

\* Its bytes.
LEMMA FirstBytes ==
  ASSUME Queues, NEW d \in Direction, Complete(d)
  PROVE  First(d) \in Seq(Int) /\ Len(First(d)) > 0 /\ From(read_buf[d], take_message(read_buf[d]) + 1) \in Seq(Int)
<1>1. PICK buf \in Seq(Int) : buf = read_buf[d]
  BY DEF Queues
<1>2. PICK t \in 0..Len(buf) : t = take_message(buf)
  BY TakeBound
<1>3. SubSeq(buf, 1, t) \in Seq(Int) /\ Len(SubSeq(buf, 1, t)) = t /\ From(buf, t + 1) \in Seq(Int)
  BY Cut
<1>4. t > 0
  BY <1>1, <1>2 DEF Complete
<1>. QED BY <1>1, <1>2, <1>3, <1>4 DEF First

\* The buffer of d after a message is taken.
LEMMA DrainQueues ==
  ASSUME Setting, Queues, NEW d \in Direction, Complete(d), Drain(d), UNCHANGED <<scenario, generation, sent, wire>>,
         read_fds' \in [Direction -> Seq(Nat)],
         marks' \in [Direction -> SUBSET {"stray", "tee", "cut", "left"}]
  PROVE  /\ Queues' /\ read_buf'[d] = From(read_buf[d], take_message(read_buf[d]) + 1)
         /\ \A e \in Direction \ {d} : read_buf'[e] = read_buf[e]
<1>1. read_buf' = [read_buf EXCEPT ![d] = From(@, take_message(@) + 1)] /\ read_buf \in [Direction -> Seq(Int)]
  BY DEF Drain, Queues
<1>2. read_buf' \in [Direction -> Seq(Int)]
  BY <1>1, FirstBytes
<1>3. \A e \in Direction : Script(e)' = Script(e)
  BY SettingKept
<1>4. Queues'
  BY <1>2, <1>3 DEF Queues
<1>. QED BY <1>1, <1>4

\* A message that is drained unread leaves its fds, if it has some.
LEMMA UnreadStep ==
  ASSUME Setting, Queues, NEW d \in Direction, Complete(d), Unread(d), UNCHANGED <<scenario, generation, sent>>,
         \A e \in Direction : Balanced(e)
  PROVE  Queues' /\ \A e \in Direction : Balanced(e)'
<1>1. Drain(d) /\ UNCHANGED <<wire, read_fds>>
  BY DEF Unread
<1>2. PICK m : IsNext(d, m)
  BY NextIs
<1>3. marks \in [Direction -> SUBSET {"stray", "tee", "cut", "left"}] /\ read_fds \in [Direction -> Seq(Nat)]
  BY DEF Queues
<1>4. /\ marks' \in [Direction -> SUBSET {"stray", "tee", "cut", "left"}]
      /\ \A e \in Direction : "stray" \in marks[e] => "stray" \in marks'[e]
      /\ "fd" \in ToSet(Signature[d][Header(d).opcode]) => "stray" \in marks'[d]
  <2>1. CASE "fd" \in ToSet(Signature[d][Header(d).opcode])
    <3>1. marks' = [marks EXCEPT ![d] = @ \cup {"stray"}]
      BY <2>1 DEF Unread
    <3>. QED BY <1>3, <3>1
  <2>2. CASE "fd" \notin ToSet(Signature[d][Header(d).opcode])
    <3>1. marks' = marks
      BY <2>2 DEF Unread
    <3>. QED BY <1>3, <2>2, <3>1
  <2>. QED BY <2>1, <2>2
<1>5. /\ Queues' /\ read_buf'[d] = From(read_buf[d], take_message(read_buf[d]) + 1)
      /\ \A e \in Direction \ {d} : read_buf'[e] = read_buf[e]
  BY <1>1, <1>3, <1>4, DrainQueues
<1>6. Fds(m.values) # <<>> => "stray" \in marks'[d]
  <2>1. SUFFICES ASSUME "stray" \notin marks'[d] PROVE Fds(m.values) = <<>>
    OBVIOUS
  <2>2. "fd" \notin ToSet(Signature[d][m.opcode])
    BY <1>2, <1>4, <2>1 DEF IsNext
  <2>3. "fd" \notin ToSet([i \in DOMAIN m.values |-> m.values[i].type])
    BY <1>2, <2>2 DEF IsNext, Declared
  <2>4. m.values \in Seq(Argument)
    BY <1>2 DEF IsNext, Typed
  <2>. QED BY <2>3, <2>4, NoFds
<1>7. Accounts(d, Script(d), sent[d], read_buf'[d], read_fds[d], wire[d], "stray" \in marks'[d])
  <2>1. Accounts(d, Script(d), sent[d], read_buf'[d], read_fds[d], wire[d], "stray" \in marks[d] \/ Fds(m.values) # <<>>)
    BY <1>2, <1>5 DEF IsNext
  <2>. QED BY <1>4, <1>6, <2>1 DEF Accounts
<1>8. Balanced(d)'
  <2>1. Script(d)' = Script(d)
    BY SettingKept
  <2>. QED BY <1>1, <1>7, <2>1 DEF Balanced
<1>9. \A e \in Direction \ {d} : Balanced(e)'
  BY <1>1, <1>4, <1>5, BalancedKept
<1>. QED BY <1>5, <1>8, <1>9

\* A message that is taken with its fds.
LEMMA PopStep ==
  ASSUME Setting, Queues, NEW d \in Direction, Drain(d), NEW m, IsNext(d, m), PopFds(d, Len(Fds(m.values))),
         Complete(d), UNCHANGED <<scenario, generation, sent, wire>>, \A e \in Direction : Balanced(e),
         marks' \in [Direction -> SUBSET {"stray", "tee", "cut", "left"}],
         \A e \in Direction : "stray" \in marks[e] => "stray" \in marks'[e]
  PROVE  Queues' /\ \A e \in Direction : Balanced(e)'
<1>1. PICK f : f = Len(Fds(m.values))
  OBVIOUS
<1>2. f \in Nat /\ f <= Len(read_fds[d])
  BY <1>1 DEF IsNext
<1>3. read_fds' = [read_fds EXCEPT ![d] = From(@, f + 1)] /\ read_fds \in [Direction -> Seq(Nat)]
  BY <1>1 DEF PopFds, Queues
<1>4. From(read_fds[d], f + 1) \in Seq(Nat)
  <2>1. PICK fds \in Seq(Nat) : fds = read_fds[d]
    BY <1>3
  <2>2. f \in 0..Len(fds)
    BY <1>2, <2>1
  <2>. QED BY <2>1, <2>2, Cut
<1>5. read_fds' \in [Direction -> Seq(Nat)]
  BY <1>3, <1>4
<1>6. /\ Queues' /\ read_buf'[d] = From(read_buf[d], take_message(read_buf[d]) + 1)
      /\ \A e \in Direction \ {d} : read_buf'[e] = read_buf[e]
  BY <1>5, DrainQueues
<1>7. read_fds'[d] = From(read_fds[d], f + 1) /\ \A e \in Direction \ {d} : read_fds'[e] = read_fds[e]
  BY <1>3
<1>8. Accounts(d, Script(d), sent[d], read_buf'[d], read_fds'[d], wire[d], "stray" \in marks'[d])
  <2>1. Accounts(d, Script(d), sent[d], read_buf'[d], read_fds'[d], wire[d], "stray" \in marks[d])
    BY <1>1, <1>6, <1>7 DEF IsNext
  <2>. QED BY <2>1 DEF Accounts
<1>9. Balanced(d)'
  <2>1. Script(d)' = Script(d)
    BY SettingKept
  <2>. QED BY <1>8, <2>1 DEF Balanced
<1>10. \A e \in Direction \ {d} : Balanced(e)'
  BY <1>6, <1>7, BalancedKept
<1>. QED BY <1>6, <1>9, <1>10

\* Where a message is walked to its end, the walk counts its fds.
LEMMA WalkTakes ==
  ASSUME NEW d, NEW m, IsNext(d, m), Walk(d).ok
  PROVE  Walk(d).fd_count = Len(Fds(m.values))
<1>1. PICK signature : signature = Signature[d][m.opcode]
  OBVIOUS
<1>2. m.values \in Seq(Argument) /\ signature = [i \in DOMAIN m.values |-> m.values[i].type]
  BY <1>1 DEF IsNext, Typed, Declared
<1>3. Walk(d) = walk_signature(Payload(d), signature)
  BY <1>1 DEF IsNext, Walk
<1>4. walk_signature(Payload(d), signature).ok
  BY <1>3
<1>. QED BY <1>2, <1>3, <1>4, WalkCounts

\* Messages that wait to be written, none of them begun.
Fresh(outs) ==
  /\ outs \in Seq(Output)
  /\ \A i \in DOMAIN outs : outs[i].done = 0 /\ Len(outs[i].words) > 0

\* Nothing, ...
LEMMA FreshNone == Fresh(<<>>)
BY EmptySeq DEF Fresh

\* ... one message that is passed on, ...
LEMMA FreshOne ==
  ASSUME NEW d \in Direction, NEW words \in Seq(Int), Len(words) > 0, NEW fds \in Seq(Nat)
  PROVE  Fresh(<<Out(d, words, fds, 0)>>)
<1>1. PICK out : out = Out(d, words, fds, 0)
  OBVIOUS
<1>2. out \in Output /\ out.done = 0 /\ Len(out.words) > 0
  BY <1>1 DEF Out, Output
<1>. QED BY <1>1, <1>2 DEF Fresh

\* ... the requests the proxy makes for itself, ...
LEMMA FreshOwn ==
  ASSUME Setting, NEW ms \in Seq(OwnMessages)
  PROVE  Fresh(Own(ms))
<1>1. DOMAIN ms = 1..Len(ms) /\ Len(ms) \in Nat /\ \A i \in 1..Len(ms) : ms[i] \in OwnMessages
  OBVIOUS
<1>2. PICK out : out = [i \in 1..Len(ms) |-> Out("request", Bytes("event", ms[i]), <<>>, ms[i].id)]
  OBVIOUS
<1>3. ASSUME NEW i \in 1..Len(ms) PROVE out[i] \in Output /\ out[i].done = 0 /\ Len(out[i].words) > 0
  <2>1. ms[i] \in OwnMessages
    BY <1>1
  <2>2. PICK m \in OwnMessages : m = ms[i]
    BY <2>1
  <2>3. Typed(m)
    <3>1. Proper("request", m)
      BY ScenarioIs DEF Setting
    <3>. QED BY <3>1, ProperIs
  <2>4. PICK b : b = Bytes("event", m)
    OBVIOUS
  <2>5. b \in Seq(Int) /\ Len(b) > 0
    <3>1. /\ PayloadOf("event", m) \in Seq(Int) /\ Bytes("event", m) \in Seq(Int)
          /\ Len(Bytes("event", m)) = 2 + Len(PayloadOf("event", m))
      BY <2>3, BytesAre DEF Direction
    <3>2. PICK n \in Nat : n = Len(PayloadOf("event", m))
      BY <3>1
    <3>. QED BY <2>4, <3>1, <3>2
  <2>6. out[i] = [to |-> "request", words |-> b, fds |-> <<>>, id |-> m.id, done |-> 0]
    BY <1>2, <2>2, <2>4 DEF Out
  <2>7. out[i] \in Output
    BY <2>5, <2>6, EmptySeq DEF Output, Direction
  <2>. QED BY <2>5, <2>6, <2>7
<1>4. out \in Seq(Output) /\ DOMAIN out = 1..Len(ms)
  BY <1>1, <1>2, <1>3, IsASeq
<1>5. Own(ms) = out
  BY <1>1, <1>2 DEF Own
<1>. QED BY <1>3, <1>4, <1>5 DEF Fresh

\* ... and one after the other.
LEMMA FreshConcat ==
  ASSUME NEW x, NEW y, Fresh(x), Fresh(y)
  PROVE  Fresh(x \o y)
<1>1. x \in Seq(Output) /\ y \in Seq(Output)
  BY DEF Fresh
<1>2. PICK m, n \in Nat : m = Len(x) /\ n = Len(y)
  BY <1>1
<1>3. PICK z : z = x \o y
  OBVIOUS
<1>4. /\ z \in Seq(Output) /\ Len(z) = Len(x) + Len(y)
      /\ \A i \in 1..Len(x) + Len(y) : z[i] = IF i <= Len(x) THEN x[i] ELSE y[i - Len(x)]
  BY <1>1, <1>3, ConcatProperties
<1>5. DOMAIN x = 1..m /\ DOMAIN y = 1..n /\ DOMAIN z = 1..(m + n)
  BY <1>1, <1>2, <1>4
<1>6. ASSUME NEW i \in 1..(m + n) PROVE z[i].done = 0 /\ Len(z[i].words) > 0
  <2>1. z[i] = IF i <= m THEN x[i] ELSE y[i - m]
    BY <1>2, <1>4
  <2>2. i <= m => i \in 1..m
    OBVIOUS
  <2>3. ~(i <= m) => i - m \in 1..n
    OBVIOUS
  <2>. QED BY <1>5, <2>1, <2>2, <2>3 DEF Fresh
<1>. QED BY <1>3, <1>4, <1>5, <1>6 DEF Fresh

\* What is written next may be replaced by what is not begun, ...
LEMMA FreshOutgoing ==
  ASSUME Outgoing, UNCHANGED <<scenario, got, unread>>, Fresh(todo'),
         reclaim' \in [pending : BOOLEAN, source : BOOLEAN]
  PROVE  Outgoing'
<1>1. Output' = Output
  BY DEF Output, OwnMessages, Played
<1>2. todo' \in Seq(Output) /\ \A i \in DOMAIN todo' : Begun(todo'[i], i)
  <2>1. ASSUME NEW i \in DOMAIN todo' PROVE Begun(todo'[i], i)
    <3>1. todo'[i].done = 0 /\ Len(todo'[i].words) > 0
      BY DEF Fresh
    <3>. QED BY <3>1 DEF Begun
  <2>. QED BY <2>1 DEF Fresh
<1>. QED BY <1>1, <1>2 DEF Outgoing

\* ... or lose its first message.
LEMMA TailBegun ==
  ASSUME Outgoing, todo # <<>>
  PROVE  Tail(todo) \in Seq(Output) /\ \A i \in DOMAIN Tail(todo) : Begun(Tail(todo)[i], i)
<1>1. PICK t \in Seq(Output) : t = todo /\ \A i \in DOMAIN t : Begun(t[i], i)
  BY DEF Outgoing
<1>2. PICK n \in Nat : n = Len(t) /\ n # 0
  BY <1>1
<1>3. PICK r : r = Tail(t)
  OBVIOUS
<1>4. r \in Seq(Output) /\ Len(r) = n - 1 /\ \A i \in 1..(n - 1) : r[i] = t[i + 1]
  BY <1>1, <1>2, <1>3
<1>5. ASSUME NEW i \in DOMAIN r PROVE Begun(r[i], i)
  <2>1. i \in 1..(n - 1)
    BY <1>2, <1>4
  <2>2. i + 1 \in DOMAIN t /\ i + 1 # 1
    BY <1>2, <2>1
  <2>3. r[i] = t[i + 1]
    BY <1>4, <2>1
  <2>4. Begun(t[i + 1], i + 1)
    BY <1>1, <2>2
  <2>5. t[i + 1].done = 0 /\ t[i + 1].done < Len(t[i + 1].words)
    BY <2>2, <2>4 DEF Begun
  <2>. QED BY <2>3, <2>5 DEF Begun
<1>. QED BY <1>1, <1>3, <1>4, <1>5

\* Outgoing does not depend on what comes in.
LEMMA SameOutgoing ==
  ASSUME Outgoing, UNCHANGED <<scenario, todo, got, unread>>,
         reclaim' \in [pending : BOOLEAN, source : BOOLEAN]
  PROVE  Outgoing'
<1>1. Output' = Output
  BY DEF Output, OwnMessages, Played
<1>. QED BY <1>1 DEF Outgoing

\* n words of message out are written, as p.
Writes(out, n, part, fds, p) ==
  /\ n \in Nat /\ n >= 1 /\ out.done + n <= Len(out.words)
  /\ part = SubSeq(out.words, out.done + 1, out.done + n) /\ part \in Seq(Int)
  /\ fds = fds_for_this_call(out) /\ fds \in Seq(Nat)
  /\ p \in Seq(Item) /\ Len(p) = n /\ Words(p) = part /\ FdsOf(p) = fds
  /\ got' = [got EXCEPT ![out.to] = @ \o p]
  /\ unread[out.to] + n <= Capacity /\ unread' = [unread EXCEPT ![out.to] = @ + n]
  /\ todo' = IF out.done + n = Len(out.words) THEN Tail(todo) ELSE [todo EXCEPT ![1].done = out.done + n]
  /\ reclaim' = reclaim \/ reclaim' = [reclaim EXCEPT !.source = TRUE]

\* The first of what is to be written.
Writing(out) ==
  /\ todo # <<>> /\ todo \in Seq(Output) /\ 1 \in DOMAIN todo /\ out = todo[1] /\ out.to \in Direction
  /\ out.words \in Seq(Int) /\ out.done \in Nat /\ out.done < Len(out.words) /\ out.fds \in Seq(Nat)

LEMMA WritingIs ==
  ASSUME Outgoing, todo # <<>>
  PROVE  Writing(todo[1])
<1>1. todo \in Seq(Output) /\ \A i \in DOMAIN todo : Begun(todo[i], i)
  BY DEF Outgoing
<1>2. 1 \in DOMAIN todo /\ todo[1] \in Output
  BY <1>1
<1>3. Begun(todo[1], 1)
  BY <1>1, <1>2
<1>. QED BY <1>1, <1>2, <1>3 DEF Writing, Begun, Output

LEMMA WritesIs ==
  ASSUME Outgoing, WriteSome
  PROVE  \E n, part, fds, p : Writes(todo[1], n, part, fds, p)
<1>1. PICK out : out = todo[1]
  OBVIOUS
<1>2. PICK d : d = out.to
  OBVIOUS
<1>3. PICK n \in 1..(Len(out.words) - out.done) :
        LET done == Written(out, n)
            whole == done = Len(out.words)
            part == SubSeq(out.words, out.done + 1, out.done + n)
        IN /\ unread[d] + n <= Capacity
           /\ got' = [got EXCEPT ![d] = @ \o Packet(part, fds_for_this_call(out))]
           /\ unread' = [unread EXCEPT ![d] = @ + n]
           /\ todo' = IF whole THEN Tail(todo) ELSE [todo EXCEPT ![1].done = done]
           /\ reclaim' = IF whole /\ out.id = ProxyId.source THEN [reclaim EXCEPT !.source = TRUE] ELSE reclaim
  BY <1>1, <1>2 DEF WriteSome
<1>4. Writing(out)
  <2>1. todo # <<>>
    BY DEF WriteSome
  <2>. QED BY <1>1, <2>1, WritingIs
<1>5. PICK words, x, l : words = out.words /\ x = out.done /\ l = Len(words)
  OBVIOUS
<1>6. words \in Seq(Int) /\ x \in Nat /\ l \in Nat /\ x < l /\ out.fds \in Seq(Nat)
  BY <1>4, <1>5 DEF Writing
<1>7. n \in 1..(l - x)
  BY <1>5
<1>8. n \in Nat /\ n >= 1 /\ x + n <= l /\ x + n \in Nat
  BY <1>6, <1>7
<1>9. PICK part : part = SubSeq(words, x + 1, x + n)
  OBVIOUS
<1>10. part \in Seq(Int) /\ Len(part) = n
  <2>1. PICK a, b \in Int : a = x + 1 /\ b = x + n
    BY <1>6, <1>8
  <2>2. \A i \in a..b : words[i] \in Int
    <3>1. ASSUME NEW i \in a..b PROVE words[i] \in Int
      <4>1. i \in 1..l
        BY <1>6, <1>8, <2>1
      <4>. QED BY <1>5, <1>6, <4>1
    <3>. QED BY <3>1
  <2>3. part \in Seq(Int) /\ Len(part) = IF a <= b THEN b - a + 1 ELSE 0
    BY <1>9, <2>1, <2>2, SubSeqProperties
  <2>4. a <= b /\ b - a + 1 = n
    BY <1>6, <1>8, <2>1
  <2>. QED BY <2>3, <2>4
<1>11. PICK fds \in Seq(Nat) : fds = fds_for_this_call(out)
  BY <1>6, EmptySeq DEF fds_for_this_call
<1>12. PICK p : p = Packet(part, fds)
  OBVIOUS
<1>13. p \in Seq(Item) /\ Len(p) = n /\ Words(p) = part /\ FdsOf(p) = fds
  <2>1. part # <<>>
    BY <1>8, <1>10
  <2>. QED BY <1>10, <1>11, <1>12, <2>1, PacketIs
<1>14. Written(out, n) = x + n
  BY <1>5 DEF Written
<1>15. /\ unread[d] + n <= Capacity
       /\ got' = [got EXCEPT ![d] = @ \o p]
       /\ unread' = [unread EXCEPT ![d] = @ + n]
       /\ todo' = IF x + n = l THEN Tail(todo) ELSE [todo EXCEPT ![1].done = x + n]
       /\ reclaim' = reclaim \/ reclaim' = [reclaim EXCEPT !.source = TRUE]
  BY <1>3, <1>5, <1>9, <1>11, <1>12, <1>14
<1>16. Writes(out, n, part, fds, p)
  BY <1>2, <1>5, <1>8, <1>9, <1>10, <1>11, <1>13, <1>15 DEF Writes
<1>. QED BY <1>1, <1>16

\* A write adds what it writes to what the receiver was given.
LEMMA WriteSomeStep ==
  ASSUME Outgoing, WriteSome
  PROVE  Outgoing'
<1>1. PICK out : out = todo[1]
  OBVIOUS
<1>2. PICK n, part, fds, p : Writes(out, n, part, fds, p)
  BY <1>1, WritesIs
<1>3. PICK d, words, x, l : d = out.to /\ words = out.words /\ x = out.done /\ l = Len(words)
  OBVIOUS
<1>4. todo # <<>> /\ scenario' = scenario
  BY DEF WriteSome
<1>5. /\ todo \in Seq(Output) /\ \A i \in DOMAIN todo : Begun(todo[i], i)
      /\ got \in [Direction -> Seq(Item)] /\ unread \in [Direction -> Nat]
      /\ \A e \in Direction : unread[e] <= Capacity /\ unread[e] <= Len(got[e])
      /\ reclaim \in [pending : BOOLEAN, source : BOOLEAN]
  BY DEF Outgoing
<1>6. out \in Output /\ 1 \in DOMAIN todo /\ d \in Direction /\ x \in Nat /\ l \in Nat
  BY <1>1, <1>3, <1>4, WritingIs DEF Writing
<1>7. /\ n \in Nat /\ n >= 1 /\ x + n <= l /\ p \in Seq(Item) /\ Len(p) = n
      /\ unread[d] + n <= Capacity
      /\ got' = [got EXCEPT ![d] = @ \o p]
      /\ unread' = [unread EXCEPT ![d] = @ + n]
      /\ todo' = IF x + n = l THEN Tail(todo) ELSE [todo EXCEPT ![1].done = x + n]
      /\ reclaim' = reclaim \/ reclaim' = [reclaim EXCEPT !.source = TRUE]
  BY <1>2, <1>3 DEF Writes
<1>8. /\ got' \in [Direction -> Seq(Item)] /\ unread' \in [Direction -> Nat]
       /\ \A e \in Direction : unread'[e] <= Capacity /\ unread'[e] <= Len(got'[e])
  <2>1. PICK g, u : g = got[d] /\ u = unread[d]
    OBVIOUS
  <2>2. g \in Seq(Item) /\ u \in Nat /\ u <= Len(g)
    BY <1>5, <1>6, <2>1
  <2>3. g \o p \in Seq(Item) /\ Len(g \o p) = Len(g) + Len(p)
    BY <1>7, <2>2, ConcatProperties
  <2>4. u + n \in Nat /\ u + n <= Len(g \o p)
    BY <1>7, <2>2, <2>3
  <2>5. got' = [got EXCEPT ![d] = g \o p] /\ unread' = [unread EXCEPT ![d] = u + n] /\ u + n <= Capacity
    BY <1>7, <2>1
  <2>6. got' \in [Direction -> Seq(Item)] /\ unread' \in [Direction -> Nat]
    BY <1>5, <2>3, <2>4, <2>5
  <2>7. /\ got'[d] = g \o p /\ unread'[d] = u + n
        /\ \A e \in Direction \ {d} : got'[e] = got[e] /\ unread'[e] = unread[e]
    BY <1>5, <1>6, <2>5
  <2>. QED BY <1>5, <2>4, <2>5, <2>6, <2>7
<1>9. todo' \in Seq(Output) /\ \A i \in DOMAIN todo' : Begun(todo'[i], i)
  <2>1. CASE x + n = l
    BY <1>4, <1>7, <2>1, TailBegun
  <2>2. CASE x + n # l
    <3>1. PICK o : o = [out EXCEPT !.done = x + n]
      OBVIOUS
    <3>2. o \in Output /\ o.done = x + n /\ o.words = words
      <4>1. PICK ids : ids = {0} \cup {m.id : m \in OwnMessages}
        OBVIOUS
      <4>2. Output = [to : Direction, words : Seq(Int), fds : Seq(Nat), id : ids, done : Nat]
        BY <4>1 DEF Output
      <4>3. x + n \in Nat
        BY <1>6, <1>7
      <4>. QED BY <1>6, <1>3, <3>1, <4>2, <4>3
    <3>3. Begun(o, 1)
      <4>1. x + n < l
        BY <1>6, <1>7, <2>2
      <4>. QED BY <1>3, <3>2, <4>1 DEF Begun
    <3>4. todo' = [todo EXCEPT ![1] = o]
      BY <1>1, <1>7, <2>2, <3>1
    <3>5. todo' \in Seq(Output) /\ DOMAIN todo' = DOMAIN todo
      BY <1>5, <1>6, <3>2, <3>4
    <3>6. ASSUME NEW i \in DOMAIN todo PROVE Begun(todo'[i], i)
      BY <1>5, <1>6, <3>3, <3>4
    <3>. QED BY <3>5, <3>6
  <2>. QED BY <2>1, <2>2
<1>10. reclaim' \in [pending : BOOLEAN, source : BOOLEAN]
  BY <1>5, <1>7
<1>11. Output' = Output
  BY <1>4 DEF Output, OwnMessages, Played
<1>. QED BY <1>8, <1>9, <1>10, <1>11 DEF Outgoing

\* A receiver empties its queue.
LEMMA PeerReadsStep ==
  ASSUME Outgoing, NEW d \in Direction, PeerReads(d)
  PROVE  Outgoing'
<1>1. /\ unread' = [unread EXCEPT ![d] = 0] /\ UNCHANGED <<scenario, todo, got, reclaim>>
  BY DEF PeerReads
<1>2. Output' = Output
  BY <1>1 DEF Output, OwnMessages, Played
<1>3. /\ unread \in [Direction -> Nat] /\ got \in [Direction -> Seq(Item)]
      /\ \A e \in Direction : unread[e] <= Capacity /\ unread[e] <= Len(got[e])
  BY DEF Outgoing
<1>4. Capacity >= 0 /\ \A e \in Direction : 0 <= Len(got[e])
  BY <1>3, CapacityAssumption
<1>5. unread' \in [Direction -> Nat] /\ \A e \in Direction : unread'[e] <= Capacity /\ unread'[e] <= Len(got[e])
  BY <1>1, <1>3, <1>4
<1>. QED BY <1>1, <1>2, <1>5 DEF Outgoing

\* On a new connection nothing was given yet, and nothing is unread.
LEMMA ReconnectOutgoing ==
  ASSUME Setting, Outgoing, Reconnect
  PROVE  Outgoing'
<1>1. /\ got' = [got EXCEPT !["request"] = <<>>] /\ unread' = [unread EXCEPT !["request"] = 0]
      /\ todo' = Own(Played.fetch) /\ reclaim' = [reclaim EXCEPT !.source = FALSE] /\ scenario' = scenario
  BY DEF Reconnect
<1>2. Output' = Output
  BY <1>1 DEF Output, OwnMessages, Played
<1>3. /\ unread \in [Direction -> Nat] /\ got \in [Direction -> Seq(Item)]
      /\ \A e \in Direction : unread[e] <= Capacity /\ unread[e] <= Len(got[e])
      /\ reclaim \in [pending : BOOLEAN, source : BOOLEAN]
  BY DEF Outgoing
<1>4. Fresh(Own(Played.fetch))
  <2>1. Played.fetch \in Seq(OwnMessages)
    BY ScenarioIs DEF Setting
  <2>. QED BY <2>1, FreshOwn
<1>5. /\ unread' \in [Direction -> Nat] /\ got' \in [Direction -> Seq(Item)]
      /\ \A e \in Direction : unread'[e] <= Capacity /\ unread'[e] <= Len(got'[e])
  <2>1. /\ got'["request"] = <<>> /\ unread'["request"] = 0
        /\ got'["event"] = got["event"] /\ unread'["event"] = unread["event"]
    BY <1>1, <1>3 DEF Direction
  <2>2. unread' \in [Direction -> Nat] /\ got' \in [Direction -> Seq(Item)]
    BY <1>1, <1>3, EmptySeq
  <2>3. Len(<<>>) = 0 /\ 0 <= Capacity
    BY CapacityAssumption
  <2>4. unread'["request"] <= Capacity /\ unread'["request"] <= Len(got'["request"])
    BY <2>1, <2>3
  <2>5. unread'["event"] <= Capacity /\ unread'["event"] <= Len(got'["event"])
    BY <1>3, <2>1 DEF Direction
  <2>. QED BY <2>2, <2>4, <2>5 DEF Direction
<1>6. todo' \in Seq(Output) /\ \A i \in DOMAIN todo' : Begun(todo'[i], i)
  <2>1. ASSUME NEW i \in DOMAIN todo' PROVE Begun(todo'[i], i)
    <3>1. todo'[i].done = 0 /\ Len(todo'[i].words) > 0
      BY <1>1, <1>4 DEF Fresh
    <3>. QED BY <3>1 DEF Begun
  <2>. QED BY <1>1, <1>4, <2>1 DEF Fresh
<1>7. reclaim' \in [pending : BOOLEAN, source : BOOLEAN]
  BY <1>1, <1>3
<1>. QED BY <1>2, <1>5, <1>6, <1>7 DEF Outgoing

-----------------------------------------------------------------------------
\* One lemma for each step.
LEMMA DropStep ==
  ASSUME QInv, NEW d \in Direction, Complete(d), DropMessage(d),
         UNCHANGED <<scenario, generation, sent, got, unread>>
  PROVE  QInv'
<1>1. Unread(d) /\ UNCHANGED <<todo, reclaim>>
  BY DEF DropMessage
<1>2. Setting /\ Queues /\ Outgoing /\ \A e \in Direction : Balanced(e)
  BY DEF QInv
<1>3. Queues' /\ \A e \in Direction : Balanced(e)'
  BY <1>1, <1>2, UnreadStep
<1>4. Outgoing'
  BY <1>1, <1>2, SameOutgoing DEF Outgoing
<1>5. Setting'
  BY <1>2, SettingKept
<1>. QED BY <1>3, <1>4, <1>5 DEF QInv

\* What is passed on has words, and of the fds as many as there are.
LEMMA RewrittenIs ==
  ASSUME Queues, NEW d \in Direction, Complete(d)
  PROVE  Rewritten(d) \in Seq(Int) /\ Len(Rewritten(d)) > 0
<1>1. PICK words \in Seq(Int) : words = First(d) /\ Len(words) > 0
  BY FirstBytes
<1>2. PICK n \in Nat : n = Len(words)
  OBVIOUS
<1>3. PICK at : Rewritten(d) = [i \in DOMAIN words |-> IF i \in at THEN Translated(d, words[i]) ELSE words[i]]
  <2>1. PICK at : at = {o + 3 : o \in ToSet(Walk(d).objects) \cup ({Walk(d).new_id} \ {NoOffset})} \cup {1}
    OBVIOUS
  <2>. QED BY <1>1, <2>1 DEF Rewritten
<1>4. PICK r : r = Rewritten(d)
  OBVIOUS
<1>5. DOMAIN words = 1..n
  BY <1>2
<1>6. r = [i \in 1..n |-> IF i \in at THEN Translated(d, words[i]) ELSE words[i]]
  BY <1>3, <1>4, <1>5
<1>7. ASSUME NEW i \in 1..n PROVE r[i] \in Int
  <2>1. words[i] \in Int
    BY <1>1, <1>5
  <2>2. Translated(d, words[i]) \in Int
    BY <2>1 DEF Translated, Shift
  <2>. QED BY <1>6, <2>1, <2>2
<1>8. r \in Seq(Int) /\ Len(r) = n
  BY <1>6, <1>7, IsASeq
<1>. QED BY <1>1, <1>2, <1>4, <1>8

\* The fds that go with it are fds.
LEMMA PassedIs ==
  ASSUME Queues, NEW d \in Direction, Walk(d).fd_count \in 0..Len(read_fds[d]), NEW teed \in BOOLEAN
  PROVE  FdsPassed(d, teed) \in Seq(Nat)
<1>1. PICK fds \in Seq(Nat) : fds = read_fds[d]
  BY DEF Queues
<1>2. PICK n \in 0..Len(fds) : n = Walk(d).fd_count
  BY <1>1
<1>3. PICK s : s = SubSeq(fds, 1, n)
  OBVIOUS
<1>4. s \in Seq(Nat)
  BY <1>2, <1>3, Cut
<1>5. [i \in DOMAIN s |-> s[i] + Tee] \in Seq(Nat)
  <2>1. PICK k \in Nat : k = Len(s) /\ DOMAIN s = 1..k /\ \A i \in 1..k : s[i] \in Nat
    BY <1>4, SMTT(60)
  <2>2. PICK r : r = [i \in 1..k |-> s[i] + Tee]
    OBVIOUS
  <2>3. \A i \in 1..k : r[i] \in Nat
    BY <2>1, <2>2 DEF Tee
  <2>4. r \in Seq(Nat)
    BY <2>2, <2>3, IsASeq
  <2>. QED BY <2>1, <2>2, <2>4
<1>6. <<>> \in Seq(Nat)
  BY EmptySeq
<1>. QED BY <1>1, <1>2, <1>3, <1>4, <1>5, <1>6 DEF FdsPassed

\* A message that is passed on takes its own fds.
LEMMA PassStep ==
  ASSUME QInv, NEW d \in Direction, Complete(d), PassMessage(d),
         UNCHANGED <<scenario, generation, sent, got, unread>>
  PROVE  QInv'
<1>1. Setting /\ Queues /\ Outgoing /\ \A e \in Direction : Balanced(e)
  BY DEF QInv
<1>2. PICK m : IsNext(d, m)
  BY <1>1, NextIs
<1>3. Walk(d).fd_count = Len(Fds(m.values))
  <2>1. Walk(d).ok
    BY DEF PassMessage, Passes, Understood
  <2>. QED BY <1>2, <2>1, WalkTakes
<1>4. Drain(d) /\ PopFds(d, Len(Fds(m.values))) /\ wire' = wire
  BY <1>3 DEF PassMessage
<1>5. PICK teed \in BOOLEAN :
        /\ marks' = IF teed THEN marks ELSE [marks EXCEPT ![d] = @ \cup {"tee"}]
        /\ todo' = (IF Splices(d) /\ Cached # {} THEN Own(Played.splice) ELSE <<>>) \o
                   (IF d = "request" /\ frozen THEN <<>>
                    ELSE <<Out(d, Rewritten(d), FdsPassed(d, teed), 0)>>)
  <2>1. \A S : {TRUE} \cup (IF S THEN {FALSE} ELSE {}) \subseteq BOOLEAN
    OBVIOUS
  <2>. QED BY <2>1 DEF PassMessage
<1>6. /\ marks' \in [Direction -> SUBSET {"stray", "tee", "cut", "left"}]
      /\ \A e \in Direction : "stray" \in marks[e] => "stray" \in marks'[e]
  <2>1. marks \in [Direction -> SUBSET {"stray", "tee", "cut", "left"}]
    BY <1>1 DEF Queues
  <2>2. marks' = marks \/ marks' = [marks EXCEPT ![d] = @ \cup {"tee"}]
    BY <1>5
  <2>. QED BY <2>1, <2>2
<1>7. Queues' /\ \A e \in Direction : Balanced(e)'
  BY <1>1, <1>2, <1>4, <1>6, PopStep
<1>8. PICK x, y : /\ x = IF Splices(d) /\ Cached # {} THEN Own(Played.splice) ELSE <<>>
                  /\ y = IF d = "request" /\ frozen THEN <<>>
                         ELSE <<Out(d, Rewritten(d), FdsPassed(d, teed), 0)>>
  OBVIOUS
<1>9. Fresh(x)
  <2>1. Fresh(Own(Played.splice))
    <3>1. Played.splice \in Seq(OwnMessages)
      BY <1>1, ScenarioIs DEF Setting
    <3>. QED BY <1>1, <3>1, FreshOwn
  <2>. QED BY <1>8, <2>1, FreshNone
<1>10. Fresh(y)
  <2>1. Rewritten(d) \in Seq(Int) /\ Len(Rewritten(d)) > 0
    BY <1>1, RewrittenIs
  <2>2. Walk(d).fd_count \in 0..Len(read_fds[d])
    <3>1. read_fds[d] \in Seq(Nat)
      BY <1>1 DEF Queues
    <3>. QED BY <1>2, <1>3, <3>1 DEF IsNext
  <2>3. FdsPassed(d, teed) \in Seq(Nat)
    BY <1>1, <2>2, PassedIs
  <2>4. Fresh(<<Out(d, Rewritten(d), FdsPassed(d, teed), 0)>>)
    BY <2>1, <2>3, FreshOne
  <2>. QED BY <1>8, <2>4, FreshNone
<1>11. Fresh(todo')
  <2>1. Fresh(x \o y)
    BY <1>9, <1>10, FreshConcat
  <2>. QED BY <1>5, <1>8, <2>1
<1>12. reclaim' \in [pending : BOOLEAN, source : BOOLEAN]
  <2>1. reclaim' = reclaim \/ reclaim' = [reclaim EXCEPT !.pending = FALSE]
    BY DEF PassMessage
  <2>. QED BY <1>1, <2>1 DEF Outgoing
<1>13. Outgoing'
  BY <1>1, <1>11, <1>12, FreshOutgoing
<1>14. Setting'
  BY <1>1, SettingKept
<1>. QED BY <1>7, <1>13, <1>14 DEF QInv

\* Of the proxy's own source only send has an fd, and send takes one.
LEMMA SyntheticStep ==
  ASSUME QInv, NEW d \in Direction, Complete(d), handle_synthetic_clipboard_event(d),
         UNCHANGED <<scenario, generation, sent, got, unread>>
  PROVE  QInv'
<1>1. Setting /\ Queues /\ Outgoing /\ \A e \in Direction : Balanced(e)
  BY DEF QInv
<1>2. PICK m : IsNext(d, m)
  BY <1>1, NextIs
<1>3. d = "event" /\ Header(d).sender_id = IdIn(d, ProxyId.source)
  BY DEF handle_synthetic_clipboard_event, Synthetic
<1>4. m.on = ProxyId.source
  <2>1. PICK i, j : i = m.on /\ j = ProxyId.source
    OBVIOUS
  <2>2. i \in Nat /\ j \in Nat /\ j # 0
    BY <1>2, <2>1, SourceIdAssumption DEF IsNext, Typed
  <2>3. IdIn(d, i) = IdIn(d, j)
    BY <1>2, <1>3, <2>1 DEF IsNext
  <2>4. (IF i # 0 THEN i + 100 ELSE i) = j + 100
    BY <1>3, <2>2, <2>3 DEF IdIn, Shift
  <2>5. i = j
    BY <2>2, <2>4
  <2>. QED BY <2>1, <2>5
<1>5. Len(Fds(m.values)) = IF Header(d).opcode = Opcode.send THEN 1 ELSE 0
  <2>1. m \in Spoken("event") /\ Header(d).opcode = m.opcode
    BY <1>2, <1>3 DEF IsNext
  <2>2. Len(Fds(m.values)) = IF m.opcode = Opcode.send THEN 1 ELSE 0
    BY <1>1, <1>4, <2>1, ScenarioIs DEF Setting
  <2>. QED BY <2>1, <2>2
<1>6. Drain(d) /\ PopFds(d, Len(Fds(m.values))) /\ UNCHANGED <<wire, marks, todo>>
  BY <1>5 DEF handle_synthetic_clipboard_event, SyntheticFds
<1>7. Queues' /\ \A e \in Direction : Balanced(e)'
  <2>1. marks' \in [Direction -> SUBSET {"stray", "tee", "cut", "left"}]
    BY <1>1, <1>6 DEF Queues
  <2>. QED BY <1>1, <1>2, <1>6, <2>1, PopStep
<1>8. Outgoing'
  <2>1. reclaim' = reclaim \/ reclaim' = [reclaim EXCEPT !.source = FALSE]
    BY DEF handle_synthetic_clipboard_event
  <2>2. reclaim' \in [pending : BOOLEAN, source : BOOLEAN]
    BY <1>1, <2>1 DEF Outgoing
  <2>. QED BY <1>1, <1>6, <2>2, SameOutgoing
<1>9. Setting'
  BY <1>1, SettingKept
<1>. QED BY <1>7, <1>8, <1>9 DEF QInv

\* One message of the direction that is relayed.
LEMMA RelayStep == ASSUME QInv, RelayOne PROVE QInv'
<1>1. PICK d \in Direction : d = pc
  BY DEF RelayOne
<1>2. Complete(d) /\ UNCHANGED <<scenario, generation, sent, got, unread>>
  BY <1>1 DEF RelayOne
<1>3. DropMessage(d) \/ PassMessage(d) \/ handle_synthetic_clipboard_event(d)
  BY <1>1 DEF RelayOne
<1>. QED BY <1>2, <1>3, DropStep, PassStep, SyntheticStep

\* The steps that change neither queues nor buffers keep the accounts.
LEMMA SameQueues ==
  ASSUME QInv, UNCHANGED <<scenario, generation, sent, wire, read_buf, read_fds>>,
         marks' \in [Direction -> SUBSET {"stray", "tee", "cut", "left"}],
         \A d \in Direction : "stray" \in marks[d] => "stray" \in marks'[d]
  PROVE  Setting' /\ Queues' /\ \A d \in Direction : Balanced(d)'
<1>1. Setting /\ Queues /\ \A d \in Direction : Balanced(d)
  BY DEF QInv
<1>2. Setting' /\ \A d \in Direction : Script(d)' = Script(d)
  BY <1>1, SettingKept
<1>3. Queues'
  BY <1>1, <1>2 DEF Queues
<1>4. ASSUME NEW d \in Direction PROVE Balanced(d)'
  BY <1>1, BalancedKept
<1>. QED BY <1>2, <1>3, <1>4

\* Nor do the steps that keep the marks too.
LEMMA SameMarks ==
  ASSUME QInv, UNCHANGED <<scenario, generation, sent, wire, read_buf, read_fds, marks>>
  PROVE  Setting' /\ Queues' /\ \A d \in Direction : Balanced(d)'
<1>1. marks' \in [Direction -> SUBSET {"stray", "tee", "cut", "left"}]
  BY DEF QInv, Queues
<1>. QED BY <1>1, SameQueues

\* New bytes and fds move from the kernel to the buffers.
LEMMA FillsStep ==
  ASSUME QInv, NEW d \in Direction, SelectFills(d) \/ (WaitFills /\ fill(d))
  PROVE  QInv'
<1>1. Setting /\ Queues /\ Outgoing /\ \A e \in Direction : Balanced(e)
  BY DEF QInv
<1>2. /\ fill(d) /\ UNCHANGED <<scenario, generation, sent, got, unread, todo, reclaim>>
      /\ marks' = marks \/ marks' = [marks EXCEPT ![d] = @ \ {"left"}]
  BY DEF SelectFills, WaitFills
<1>3. /\ marks' \in [Direction -> SUBSET {"stray", "tee", "cut", "left"}]
      /\ \A e \in Direction : "stray" \in marks[e] => "stray" \in marks'[e]
  BY <1>1, <1>2 DEF Queues
<1>4. Queues' /\ \A e \in Direction : Balanced(e)'
  BY <1>1, <1>2, <1>3, FillStep
<1>5. Outgoing'
  BY <1>1, <1>2, SameOutgoing DEF Outgoing
<1>6. Setting'
  BY <1>1, <1>2, SettingKept
<1>. QED BY <1>4, <1>5, <1>6 DEF QInv

\* What a wait takes it drops, or relays without fds.
LEMMA TakesStep == ASSUME QInv, WaitTakes PROVE QInv'
<1>1. Setting /\ Queues /\ Outgoing /\ \A e \in Direction : Balanced(e)
  BY DEF QInv
<1>2. PICK d \in Direction : d = WaitsFor
  BY DEF WaitsFor, Direction
<1>3. Complete(d) /\ UNCHANGED <<scenario, generation, sent, got, unread, reclaim>>
  BY <1>2 DEF WaitTakes
<1>4. PICK words : words = <<Translated(d, First(d)[1])>> \o From(First(d), 2)
  OBVIOUS
<1>5. /\ Unread(d)
      /\ todo' = Own(Played.replay) \/ todo' = <<Out(d, words, <<>>, 0)>> \/ todo' = <<>>
  BY <1>2, <1>4 DEF WaitTakes
<1>6. Queues' /\ \A e \in Direction : Balanced(e)'
  BY <1>1, <1>3, <1>5, UnreadStep
<1>7. words \in Seq(Int) /\ Len(words) > 0
  <2>1. PICK first \in Seq(Int) : first = First(d) /\ Len(first) > 0
    BY <1>1, <1>3, FirstBytes
  <2>2. PICK n \in Nat : n = Len(first)
    OBVIOUS
  <2>3. 1 \in 0..Len(first) /\ first[1] \in Int
    BY <2>1, <2>2
  <2>4. PICK rest : rest = From(first, 2)
    OBVIOUS
  <2>5. rest \in Seq(Int)
    <3>1. From(first, 1 + 1) \in Seq(Int)
      BY <2>3, Cut
    <3>. QED BY <2>4, <3>1
  <2>6. PICK w \in Int : w = Translated(d, first[1])
    BY <2>3 DEF Translated, Shift
  <2>7. <<w>> \in Seq(Int) /\ Len(<<w>>) = 1
    OBVIOUS
  <2>8. <<w>> \o rest \in Seq(Int) /\ Len(<<w>> \o rest) = Len(<<w>>) + Len(rest)
    BY <2>5, <2>7, ConcatProperties
  <2>9. PICK l \in Nat : l = Len(rest)
    BY <2>5
  <2>10. Len(<<w>> \o rest) > 0
    BY <2>7, <2>8, <2>9
  <2>. QED BY <1>4, <2>1, <2>4, <2>6, <2>8, <2>10
<1>8. Fresh(todo')
  <2>1. Fresh(Own(Played.replay))
    <3>1. Played.replay \in Seq(OwnMessages)
      BY <1>1, ScenarioIs DEF Setting
    <3>. QED BY <1>1, <3>1, FreshOwn
  <2>2. Fresh(<<Out(d, words, <<>>, 0)>>)
    <3>1. <<>> \in Seq(Nat)
      BY EmptySeq
    <3>. QED BY <1>7, <3>1, FreshOne
  <2>. QED BY <1>5, <2>1, <2>2, FreshNone
<1>9. Outgoing'
  BY <1>1, <1>3, <1>8, FreshOutgoing DEF Outgoing
<1>10. Setting'
  BY <1>1, <1>3, SettingKept
<1>. QED BY <1>6, <1>9, <1>10 DEF QInv

\* The end of recovery gives up what was still to be written.
LEMMA EndsStep == ASSUME QInv, Recovered \/ WaitTimesOut \/ ReplayFails PROVE QInv'
<1>1. Setting /\ Queues /\ Outgoing
  BY DEF QInv
<1>2. /\ Resume /\ UNCHANGED <<scenario, generation, sent, wire, read_buf, read_fds, got, unread>>
      /\ \/ marks' = MarkLeft(marks)
         \/ marks' = MarkLeft(IF todo # <<>> /\ todo[1].done > 0
                              THEN [marks EXCEPT ![todo[1].to] = @ \cup {"cut"}] ELSE marks)
  BY DEF Recovered, WaitTimesOut, ReplayFails, channel
<1>3. marks \in [Direction -> SUBSET {"stray", "tee", "cut", "left"}]
  BY <1>1 DEF Queues
<1>4. PICK ms : /\ marks' = MarkLeft(ms)
                /\ ms = marks \/ ms = [marks EXCEPT ![todo[1].to] = @ \cup {"cut"}]
  BY <1>2
<1>5. /\ ms \in [Direction -> SUBSET {"stray", "tee", "cut", "left"}]
      /\ \A d \in Direction : "stray" \in marks[d] => "stray" \in ms[d]
  BY <1>3, <1>4
<1>6. /\ marks' \in [Direction -> SUBSET {"stray", "tee", "cut", "left"}]
      /\ \A d \in Direction : "stray" \in marks[d] => "stray" \in marks'[d]
  BY <1>4, <1>5 DEF MarkLeft
<1>7. Setting' /\ Queues' /\ \A d \in Direction : Balanced(d)'
  BY <1>2, <1>6, SameQueues
<1>8. Outgoing'
  <2>1. todo' = <<>> /\ reclaim' = [reclaim EXCEPT !.pending = TRUE]
    BY <1>2 DEF Resume
  <2>2. reclaim' \in [pending : BOOLEAN, source : BOOLEAN]
    BY <1>1, <2>1 DEF Outgoing
  <2>3. Fresh(todo')
    BY <2>1, FreshNone
  <2>. QED BY <1>1, <1>2, <2>2, <2>3, FreshOutgoing
<1>. QED BY <1>7, <1>8 DEF QInv

\* Neither queues nor buffers nor what was given, nothing written.
LEMMA ControlStep == ASSUME QInv, HostDies \/ RelayEnds \/ Freeze PROVE QInv'
<1>1. UNCHANGED <<scenario, generation, sent, wire, read_buf, read_fds, marks, got, unread, todo, reclaim>>
  BY DEF HostDies, RelayEnds, Freeze, channel
<1>2. Setting' /\ Queues' /\ \A d \in Direction : Balanced(d)'
  BY <1>1, SameMarks
<1>3. Outgoing'
  BY <1>1, SameOutgoing DEF QInv, Outgoing
<1>. QED BY <1>2, <1>3 DEF QInv

\* A message that cannot be written is given up, and so is all of recovery
\* without a registry.
LEMMA GivesUpStep == ASSUME QInv, RelayWriteFails \/ FetchFails PROVE QInv'
<1>1. /\ UNCHANGED <<scenario, generation, sent, wire, read_buf, read_fds, marks, got, unread, reclaim>>
      /\ (todo # <<>> /\ todo' = Tail(todo)) \/ todo' = <<>>
  BY DEF RelayWriteFails, FetchFails, channel
<1>2. Setting' /\ Queues' /\ \A d \in Direction : Balanced(d)'
  BY <1>1, SameMarks
<1>3. Outgoing /\ reclaim' \in [pending : BOOLEAN, source : BOOLEAN]
  BY <1>1 DEF QInv, Outgoing
<1>4. CASE todo # <<>> /\ todo' = Tail(todo)
  <2>1. todo' \in Seq(Output) /\ \A i \in DOMAIN todo' : Begun(todo'[i], i)
    BY <1>3, <1>4, TailBegun
  <2>2. Output' = Output
    BY <1>1 DEF Output, OwnMessages, Played
  <2>3. Outgoing'
    BY <1>1, <1>3, <2>1, <2>2 DEF Outgoing
  <2>. QED BY <1>2, <2>3 DEF QInv
<1>5. CASE todo' = <<>>
  <2>1. Fresh(todo')
    BY <1>5, FreshNone
  <2>2. Outgoing'
    BY <1>1, <1>3, <2>1, FreshOutgoing
  <2>. QED BY <1>2, <2>2 DEF QInv
<1>. QED BY <1>1, <1>4, <1>5

\* A write takes nothing from the queues towards the proxy.
LEMMA WritesStep == ASSUME QInv, WriteSome PROVE QInv'
<1>1. UNCHANGED <<scenario, generation, sent, wire, read_buf, read_fds, marks>>
  BY DEF WriteSome
<1>2. Setting' /\ Queues' /\ \A d \in Direction : Balanced(d)'
  BY <1>1, SameMarks
<1>. QED BY <1>2, WriteSomeStep DEF QInv

\* A sender flushes, or a receiver reads.
LEMMA PeersStep == ASSUME QInv, NEW d \in Direction, PeerFlushes(d) \/ PeerReads(d) PROVE QInv'
<1>1. CASE PeerFlushes(d)
  <2>1. UNCHANGED <<scenario, generation, got, unread, todo, reclaim>>
    BY <1>1 DEF PeerFlushes
  <2>2. Queues' /\ \A e \in Direction : Balanced(e)'
    BY <1>1, FlushStep DEF QInv
  <2>3. Outgoing'
    BY <2>1, SameOutgoing DEF QInv, Outgoing
  <2>4. Setting'
    BY <2>1, SettingKept DEF QInv
  <2>. QED BY <2>2, <2>3, <2>4 DEF QInv
<1>2. CASE PeerReads(d)
  <2>1. UNCHANGED <<scenario, generation, sent, wire, read_buf, read_fds, marks>>
    BY <1>2 DEF PeerReads
  <2>2. Setting' /\ Queues' /\ \A e \in Direction : Balanced(e)'
    BY <2>1, SameMarks
  <2>. QED BY <1>2, <2>2, PeerReadsStep DEF QInv
<1>. QED BY <1>1, <1>2

\* A new connection starts with empty queues.
LEMMA ReconnectsStep == ASSUME QInv, Reconnect PROVE QInv'
<1>1. Setting' /\ Queues' /\ \A d \in Direction : Balanced(d)'
  BY ReconnectQueues DEF QInv
<1>. QED BY <1>1, ReconnectOutgoing DEF QInv

-----------------------------------------------------------------------------
\* At first nothing was sent.
LEMMA QueuesInit == Init => QInv
<1> SUFFICES ASSUME Init PROVE QInv
  OBVIOUS
<1>1. scenario \in DOMAIN Scenarios
  BY DEF Init
<1>2. Setting
  <2>1. Played.hosts \in Seq(Seq(Spoken("event"))) /\ Played.hosts # <<>>
    BY <1>1, ScenarioIs
  <2>2. 1 \in 1..Len(Played.hosts)
    BY <2>1
  <2>. QED BY <1>1, <2>2 DEF Init, Setting
<1>3. ASSUME NEW d \in Direction
      PROVE  /\ sent[d] = 0 /\ wire[d] = <<>> /\ read_buf[d] = <<>> /\ read_fds[d] = <<>>
             /\ got[d] = <<>> /\ unread[d] = 0 /\ marks[d] = {}
  BY DEF Init, Both
<1>4. ASSUME NEW d \in Direction PROVE Balanced(d) /\ sent[d] \in 0..Len(Script(d))
  <2>1. Script(d) \in Seq(Spoken(d))
    BY <1>2, ScriptIs
  <2>2. \A stray : Follows(d, Script(d), 0, <<>>) /\ Accounts(d, Script(d), 0, <<>>, <<>>, <<>>, stray)
    BY <2>1, NothingSent
  <2>. QED BY <1>3, <2>1, <2>2 DEF Balanced
<1>5. Queues
  <2>1. /\ sent \in [Direction -> Nat] /\ wire \in [Direction -> Seq(Item)]
        /\ read_buf \in [Direction -> Seq(Int)] /\ read_fds \in [Direction -> Seq(Nat)]
        /\ marks \in [Direction -> SUBSET {"stray", "tee", "cut", "left"}]
    BY EmptySeq DEF Init, Both
  <2>. QED BY <1>4, <2>1 DEF Queues
<1>6. Outgoing
  <2>1. todo \in Seq(Output) /\ \A i \in DOMAIN todo : Begun(todo[i], i)
    <3>1. todo = <<>> /\ DOMAIN todo = {}
      BY DEF Init
    <3>. QED BY <3>1, EmptySeq
  <2>2. got \in [Direction -> Seq(Item)] /\ unread \in [Direction -> Nat]
    BY EmptySeq DEF Init, Both
  <2>3. \A d \in Direction : unread[d] <= Capacity /\ unread[d] <= Len(got[d])
    BY <1>3, CapacityAssumption
  <2>4. reclaim \in [pending : BOOLEAN, source : BOOLEAN]
    BY DEF Init
  <2>. QED BY <2>1, <2>2, <2>3, <2>4 DEF Outgoing
<1>. QED BY <1>2, <1>4, <1>5, <1>6 DEF QInv

\* Every step keeps the invariant.
LEMMA QueuesStep == QInv /\ [Next]_vars => QInv'
<1> SUFFICES ASSUME QInv, [Next]_vars PROVE QInv'
  OBVIOUS
<1>1. ASSUME NEW d \in Direction, PeerFlushes(d) \/ PeerReads(d) PROVE QInv'
  BY <1>1, PeersStep
<1>2. CASE HostDies \/ RelayEnds \/ Freeze
  BY <1>2, ControlStep
<1>3. CASE RelayWriteFails \/ FetchFails
  BY <1>3, GivesUpStep
<1>4. CASE WriteSome
  BY <1>4, WritesStep
<1>5. CASE RelayOne
  BY <1>5, RelayStep
<1>6. ASSUME NEW d \in Direction, SelectFills(d) PROVE QInv'
  BY <1>6, FillsStep
<1>7. CASE WaitFills
  <2>1. PICK d \in Direction : d = WaitsFor
    BY DEF WaitsFor, Direction
  <2>2. fill(d)
    BY <1>7, <2>1 DEF WaitFills
  <2>. QED BY <1>7, <2>2, FillsStep
<1>8. CASE Reconnect
  BY <1>8, ReconnectsStep
<1>9. CASE WaitTakes
  BY <1>9, TakesStep
<1>10. CASE Recovered \/ WaitTimesOut \/ ReplayFails
  BY <1>10, EndsStep
<1>11. CASE UNCHANGED vars
  <2>1. UNCHANGED <<scenario, generation, sent, wire, read_buf, read_fds, marks, got, unread, todo, reclaim>>
    BY <1>11 DEF vars, channel
  <2>2. Setting' /\ Queues' /\ \A d \in Direction : Balanced(d)'
    BY <2>1, SameMarks
  <2>3. Outgoing'
    BY <2>1, SameOutgoing DEF QInv, Outgoing
  <2>. QED BY <2>2, <2>3 DEF QInv
<1>. QED BY <1>1, <1>2, <1>3, <1>4, <1>5, <1>6, <1>7, <1>8, <1>9, <1>10, <1>11
     DEF Next, Peers, Proxy

(***************************************************************************)
(* Conn and the task stay in their types: no queue towards a peer ever     *)
(* holds more than its capacity, a write stops at the end of its message,  *)
(* and only the first of the messages to write is begun (write_message).   *)
(***************************************************************************)
THEOREM ChannelTypesHold == Spec => []TypeOK
<1>1. LInv /\ QInv => TypeOK
  <2> SUFFICES ASSUME LInv, QInv PROVE TypeOK
    OBVIOUS
  <2>1. Phase /\ Queues /\ Outgoing
    BY DEF LInv, QInv
  <2>2. /\ pc \in Direction \cup {"select", "fetch", "configure", "ack", "acked"}
        /\ frozen = (pc \in {"fetch", "configure", "ack", "acked"}) \/ pc \in Direction \cup {"select"}
    BY <2>1 DEF Phase
  <2>3. ASSUME NEW i \in DOMAIN todo
        PROVE  todo[i].done \in 0..(IF i = 1 THEN Len(todo[i].words) - 1 ELSE 0)
    <3>1. PICK out : out = todo[i]
      OBVIOUS
    <3>2. out \in Output /\ Begun(out, i)
      BY <2>1, <3>1 DEF Outgoing
    <3>3. out.done \in Nat /\ out.words \in Seq(Int)
      BY <3>2 DEF Output
    <3>4. PICK l \in Nat : l = Len(out.words)
      BY <3>3
    <3>5. out.done < l /\ (i # 1 => out.done = 0)
      BY <3>2, <3>4 DEF Begun
    <3>6. out.done \in 0..(IF i = 1 THEN l - 1 ELSE 0)
      BY <3>3, <3>5
    <3>. QED BY <3>1, <3>4, <3>6
  <2>4. ASSUME NEW d \in Direction
        PROVE  /\ unread[d] \in 0..Capacity /\ unread[d] <= Len(got[d])
               /\ sent[d] \in 0..Len(Script(d)) /\ marks[d] \subseteq {"stray", "tee", "cut", "left"}
    BY <2>1, CapacityAssumption DEF Outgoing, Queues
  <2>. QED BY <2>1, <2>2, <2>3, <2>4 DEF TypeOK, Outgoing
<1>. QED BY <1>1, InitDrained, DrainedStep, QueuesInit, QueuesStep, PTL DEF Spec

-----------------------------------------------------------------------------
\* What is behind a prefix is a suffix.
LEMMA SuffixIs ==
  ASSUME NEW S, NEW pre \in Seq(S), NEW s \in Seq(S)
  PROVE  IsSuffix(s, pre \o s)
<1>1. PICK m, n \in Nat : m = Len(pre) /\ n = Len(s)
  OBVIOUS
<1>2. PICK t : t = pre \o s
  OBVIOUS
<1>3. /\ t \in Seq(S) /\ Len(t) = m + n
      /\ \A i \in 1..(m + n) : t[i] = IF i <= m THEN pre[i] ELSE s[i - m]
  BY <1>1, <1>2, ConcatProperties
<1>4. PICK r, u : r = [i \in 1..n |-> s[(n - i) + 1]] /\ u = [i \in 1..(m + n) |-> t[(m + n - i) + 1]]
  OBVIOUS
<1>5. Reverse(s) = r /\ Reverse(t) = u
  BY <1>1, <1>3, <1>4 DEF Reverse
<1>6. r \in Seq(S) /\ Len(r) = n
  <2>1. \A i \in 1..n : r[i] \in S
    <3>1. ASSUME NEW i \in 1..n PROVE r[i] \in S
      <4>1. (n - i) + 1 \in 1..n
        OBVIOUS
      <4>. QED BY <1>1, <1>4, <4>1
    <3>. QED BY <3>1
  <2>. QED BY <1>4, <2>1, IsASeq
<1>7. u \in Seq(S) /\ Len(u) = m + n
  <2>1. ASSUME NEW i \in 1..(m + n) PROVE u[i] \in S
    <3>1. (m + n - i) + 1 \in 1..(m + n)
      OBVIOUS
    <3>. QED BY <1>3, <1>4, <3>1
  <2>2. m + n \in Nat
    OBVIOUS
  <2>. QED BY <1>4, <2>1, <2>2, IsASeq
<1>8. ASSUME NEW i \in 1..n PROVE r[i] = u[i]
  <2>1. PICK j : j = (m + n - i) + 1
    OBVIOUS
  <2>2. j \in 1..(m + n) /\ ~(j <= m) /\ j - m = (n - i) + 1 /\ i \in 1..(m + n)
    BY <2>1
  <2>3. u[i] = t[j] /\ t[j] = s[j - m]
    BY <1>3, <1>4, <2>1, <2>2
  <2>. QED BY <1>4, <2>2, <2>3
<1>9. SubSeq(r, 1, n) = SubSeq(u, 1, n)
  <2>1. SubSeq(r, 1, n) = r
    BY <1>6, SubSeqFull
  <2>2. n \in 0..Len(u)
    BY <1>7
  <2>3. PICK v : v = SubSeq(u, 1, n)
    OBVIOUS
  <2>4. v \in Seq(S) /\ Len(v) = n /\ \A i \in 1..n : v[i] = u[i]
    BY <1>7, <2>2, <2>3
  <2>5. v = r
    BY <1>6, <1>8, <2>4, SeqEqual
  <2>. QED BY <2>1, <2>3, <2>5
<1>10. IsPrefix(r, u)
  BY <1>6, <1>7, <1>9 DEF IsPrefix
<1>. QED BY <1>2, <1>5, <1>10 DEF IsSuffix

\* The words that wait are whole messages, and their fds wait with them.
LEMMA WaitingIs ==
  ASSUME Setting, Queues, NEW d \in Direction, Balanced(d)
  PROVE  /\ IsSuffix(FdsWaiting(d), read_fds[d] \o FdsOf(wire[d]))
         /\ "stray" \notin marks[d] => read_fds[d] \o FdsOf(wire[d]) = FdsWaiting(d)
<1>1. PICK script, T, n : script = Script(d) /\ T = Spoken(d) /\ n = sent[d]
  OBVIOUS
<1>2. script \in Seq(T) /\ AllProper(d, T) /\ AllTyped(T)
  BY <1>1, ScriptIs
<1>3. n \in 0..Len(script)
  BY <1>1 DEF Queues
<1>4. PICK k \in 0..n, pre \in Seq(Nat) :
        /\ read_buf[d] \o Words(wire[d]) = WordsIn(d, Rest(script, k, n))
        /\ read_fds[d] \o FdsOf(wire[d]) = pre \o FdsIn(Rest(script, k, n))
        /\ "stray" \notin marks[d] => pre = <<>>
  BY <1>1 DEF Balanced, Accounts
<1>5. PICK rest : rest = Rest(script, k, n)
  OBVIOUS
<1>6. rest \in Seq(T) /\ Len(rest) = n - k /\ \A i \in 1..(n - k) : rest[i] = script[k + i]
  BY <1>2, <1>3, <1>5, RestIs
<1>7. Waiting(d) = n - k
  <2>1. Len(Messages(WordsIn(d, rest))) = Len(rest)
    BY <1>2, <1>6, MessagesCount
  <2>. QED BY <1>4, <1>5, <1>6, <2>1 DEF Waiting
<1>8. FdsWaiting(d) = FdsIn(rest)
  <2>1. DOMAIN rest = 1..(n - k)
    BY <1>6
  <2>2. \A i \in 1..(n - k) : script[n - (n - k) + i] = rest[i]
    <3>1. \A i \in 1..(n - k) : n - (n - k) + i = k + i
      BY <1>3
    <3>. QED BY <1>6, <3>1
  <2>3. [i \in 1..(n - k) |-> Fds(script[n - (n - k) + i].values)] = [i \in DOMAIN rest |-> Fds(rest[i].values)]
    BY <2>1, <2>2
  <2>. QED BY <1>1, <1>7, <2>3 DEF FdsWaiting, FdsIn
<1>9. FdsIn(rest) \in Seq(Nat)
  BY <1>2, <1>6, MessagesAre
<1>10. IsSuffix(FdsIn(rest), pre \o FdsIn(rest))
  BY <1>9, SuffixIs
<1>11. <<>> \o FdsIn(rest) = FdsIn(rest)
  BY <1>9, ConcatEmptySeq
<1>. QED BY <1>4, <1>5, <1>8, <1>10, <1>11

(***************************************************************************)
(* The fds that have arrived are those of the messages still to be taken,  *)
(* in their order, behind one for each fd that was dropped unread, however *)
(* the reads cut the stream (Conn.fill, PopFds, SignatureWalk.fd_count).   *)
(***************************************************************************)
THEOREM FdsStayAccounted == Spec => []FdsAccounted
<1>1. QInv => FdsAccounted
  <2> SUFFICES ASSUME QInv PROVE FdsAccounted
    OBVIOUS
  <2>1. ASSUME NEW d \in Direction
        PROVE  /\ IsSuffix(FdsWaiting(d), read_fds[d] \o FdsOf(wire[d]))
               /\ "stray" \notin marks[d] => read_fds[d] \o FdsOf(wire[d]) = FdsWaiting(d)
    BY WaitingIs DEF QInv
  <2>. QED BY <2>1 DEF FdsAccounted
<1>. QED BY <1>1, QueuesInit, QueuesStep, PTL DEF Spec
-----------------------------------------------------------------------------
\* A message in the ids of the other direction.

\* Where a walk has found ids, and a payload with these translated.
Offsets(walk) == ToSet(walk.objects) \cup ({walk.new_id} \ {NoOffset})
RewriteBy(d, offsets, s) == [i \in DOMAIN s |-> IF i - 1 \in offsets THEN Translated(d, s[i]) ELSE s[i]]

\* An argument is encoded as an id, as nothing, or alike in both directions.
LEMMA EncodedAs ==
  ASSUME NEW d \in Direction, NEW v \in Argument
  PROVE  /\ v.type \in {"object", "new_id"} => Encoded(ValueIn(d, v)) = <<IdIn(d, v.word)>>
         /\ v.type \notin {"object", "new_id"} => Encoded(ValueIn(d, v)) = Encoded(v)
         /\ v.type = "fd" => Encoded(v) = <<>>
         /\ v.type = "str" => /\ Encoded(v) \in Seq(Int) /\ Len(Encoded(v)) = 1 + WordsFor(v.len + 1)
                              /\ Encoded(v)[1] = v.len + 1 /\ Encoded(v)[2] = v.word
         /\ v.type = "array" => /\ Encoded(v) \in Seq(Int) /\ Len(Encoded(v)) = 1 + WordsFor(v.len)
                                /\ Encoded(v)[1] = v.len
         /\ v.type \notin {"str", "array", "fd"} => Encoded(v) = <<v.word>>
<1>1. v.word \in Nat /\ v.len \in Nat /\ v \in [type : STRING, word : Nat, len : Nat]
  BY DEF Argument
<1>2. CASE v.type \in {"object", "new_id"}
  <2>1. ValueIn(d, v) = [v EXCEPT !.word = IdIn(d, @)]
    BY <1>2 DEF ValueIn
  <2>2. ValueIn(d, v).type = v.type /\ ValueIn(d, v).word = IdIn(d, v.word)
    BY <1>1, <2>1
  <2>. QED BY <1>2, <2>2 DEF Encoded
<1>3. CASE v.type \notin {"object", "new_id"}
  <2>1. ValueIn(d, v) = v
    BY <1>3 DEF ValueIn
  <2>2. CASE v.type = "str"
    <3>1. PICK n \in Nat : n = WordsFor(v.len + 1) /\ n >= 1
      BY <1>1 DEF WordsFor, WORD
    <3>2. PICK s : s = [i \in 1..n |-> v.word]
      OBVIOUS
    <3>3. s \in Seq(Int) /\ Len(s) = n /\ s[1] = v.word
      <4>1. \A i \in 1..n : s[i] \in Int
        BY <1>1, <3>2
      <4>. QED BY <3>1, <3>2, <4>1, IsASeq
    <3>4. PICK h : h = <<v.len + 1>>
      OBVIOUS
    <3>5. h \in Seq(Int) /\ Len(h) = 1 /\ h[1] = v.len + 1
      BY <1>1, <3>4
    <3>6. /\ h \o s \in Seq(Int) /\ Len(h \o s) = Len(h) + Len(s)
          /\ \A i \in 1..Len(h) + Len(s) : (h \o s)[i] = IF i <= Len(h) THEN h[i] ELSE s[i - Len(h)]
      BY <3>3, <3>5, ConcatProperties
    <3>7. Len(h \o s) = 1 + n /\ (h \o s)[1] = v.len + 1 /\ (h \o s)[2] = v.word
      BY <3>1, <3>3, <3>5, <3>6
    <3>8. Encoded(v) = h \o s
      BY <2>2, <3>1, <3>2, <3>4 DEF Encoded, put_str
    <3>. QED BY <1>3, <2>1, <2>2, <3>1, <3>6, <3>7, <3>8
  <2>3. CASE v.type = "array"
    <3>1. PICK n \in Nat : n = WordsFor(v.len)
      BY <1>1 DEF WordsFor, WORD
    <3>2. PICK s : s = [i \in 1..n |-> v.word]
      OBVIOUS
    <3>3. s \in Seq(Int) /\ Len(s) = n
      <4>1. \A i \in 1..n : s[i] \in Int
        BY <1>1, <3>2
      <4>. QED BY <3>1, <3>2, <4>1, IsASeq
    <3>4. PICK h : h = <<v.len>>
      OBVIOUS
    <3>5. h \in Seq(Int) /\ Len(h) = 1 /\ h[1] = v.len
      BY <1>1, <3>4
    <3>6. /\ h \o s \in Seq(Int) /\ Len(h \o s) = Len(h) + Len(s)
          /\ \A i \in 1..Len(h) + Len(s) : (h \o s)[i] = IF i <= Len(h) THEN h[i] ELSE s[i - Len(h)]
      BY <3>3, <3>5, ConcatProperties
    <3>7. Len(h \o s) = 1 + n /\ (h \o s)[1] = v.len
      BY <3>1, <3>3, <3>5, <3>6
    <3>8. Encoded(v) = h \o s
      BY <2>3, <3>1, <3>2, <3>4 DEF Encoded, put_array
    <3>. QED BY <1>3, <2>1, <2>3, <3>1, <3>6, <3>7, <3>8
  <2>4. CASE v.type \notin {"str", "array"}
    <3>1. v.type = "fd" => Encoded(v) = <<>>
      BY DEF Encoded
    <3>2. v.type # "fd" => Encoded(v) = <<v.word>>
      BY <2>4 DEF Encoded
    <3>. QED BY <1>3, <2>1, <2>4, <3>1, <3>2
  <2>. QED BY <2>2, <2>3, <2>4
<1>4. v.type \in {"object", "new_id"} => Encoded(v) = <<v.word>>
  BY DEF Encoded
<1>. QED BY <1>2, <1>3, <1>4

\* The walk takes argument v, encoded as e, behind p.
OneArgument(d, v, p, e, r, payload, walk, w) ==
  e = Encoded(ValueIn(d, v)) /\ payload = p \o (e \o r) /\ w = WalkArgument(payload, walk, v.type)

\* It has come as far as offset l, ...
WalkedTo(walk, l) == DOMAIN walk = DOMAIN Unwalked /\ walk.ok = TRUE /\ walk.at = l

\* ... where it notes an id.
Notes(v, l, walk, w) ==
  /\ w.objects = IF v.type = "object" THEN Append(walk.objects, l) ELSE walk.objects
  /\ w.new_id = IF v.type = "new_id" THEN l ELSE walk.new_id

\* It takes exactly what was encoded of it, and notes where ids are.
LEMMA WalkOne ==
  ASSUME NEW d \in Direction, NEW v \in Argument,
         NEW p \in Seq(Int), NEW e \in Seq(Int), NEW r \in Seq(Int), NEW payload, NEW walk, NEW w,
         OneArgument(d, v, p, e, r, payload, walk, w), WalkedTo(walk, Len(p))
  PROVE  WalkedTo(w, Len(p) + Len(e)) /\ Notes(v, Len(p), walk, w)
<1>0. e = Encoded(ValueIn(d, v)) /\ payload = p \o (e \o r) /\ w = WalkArgument(payload, walk, v.type)
  BY DEF OneArgument
<1>11. DOMAIN walk = DOMAIN Unwalked /\ walk.ok = TRUE /\ walk.at = Len(p)
  BY DEF WalkedTo
<1>1. PICK l, n, o \in Nat : l = Len(p) /\ n = Len(e) /\ o = Len(r)
  OBVIOUS
<1>2. e \o r \in Seq(Int) /\ Len(e \o r) = n + o /\ (n > 0 => (e \o r)[1] = e[1])
  <2>1. /\ e \o r \in Seq(Int) /\ Len(e \o r) = Len(e) + Len(r)
        /\ \A i \in 1..Len(e) + Len(r) : (e \o r)[i] = IF i <= Len(e) THEN e[i] ELSE r[i - Len(e)]
    BY ConcatProperties
  <2>. QED BY <1>1, <2>1
<1>3. Len(payload) = l + (n + o) /\ (n > 0 => payload[l + 1] = e[1])
  <2>1. PICK t \in Seq(Int) : t = e \o r
    BY <1>2
  <2>2. /\ Len(p \o t) = Len(p) + Len(t)
        /\ \A i \in 1..Len(p) + Len(t) : (p \o t)[i] = IF i <= Len(p) THEN p[i] ELSE t[i - Len(p)]
    BY ConcatProperties
  <2>3. Len(payload) = l + (n + o)
    BY <1>0, <1>1, <1>2, <2>1, <2>2
  <2>4. ASSUME n > 0 PROVE payload[l + 1] = e[1]
    <3>1. l + 1 \in 1..Len(p) + Len(t) /\ ~(l + 1 <= Len(p)) /\ (l + 1) - Len(p) = 1
      BY <1>1, <1>2, <2>1, <2>4
    <3>2. (p \o t)[l + 1] = t[1]
      BY <2>2, <3>1
    <3>. QED BY <1>0, <1>2, <2>1, <2>4, <3>2
  <2>. QED BY <2>3, <2>4
<1>4. PICK needs : needs = IF v.type = "fd" THEN 0
                           ELSE IF v.type \in {"str", "array"} /\ l < Len(payload)
                                THEN 1 + Padded(payload[l + 1]) ELSE 1
  OBVIOUS
<1>5. needs = n
  <2>1. CASE v.type = "fd"
    <3>1. e = <<>>
      BY <1>0, <2>1, EncodedAs
    <3>. QED BY <1>1, <1>4, <2>1, <3>1
  <2>2. CASE v.type = "str"
    <3>1. n = 1 + WordsFor(v.len + 1) /\ e[1] = v.len + 1
      BY <1>0, <1>1, <2>2, EncodedAs
    <3>2. n > 0
      BY <3>1, <1>1 DEF Argument, WordsFor, WORD
    <3>3. l < Len(payload)
      BY <1>3, <3>2
    <3>4. payload[l + 1] = v.len + 1
      BY <1>3, <3>1, <3>2, Zenon
    <3>. QED BY <1>4, <2>2, <3>1, <3>3, <3>4 DEF Padded
  <2>3. CASE v.type = "array"
    <3>1. n = 1 + WordsFor(v.len) /\ e[1] = v.len
      BY <1>0, <1>1, <2>3, EncodedAs
    <3>2. n > 0
      BY <3>1, <1>1 DEF Argument, WordsFor, WORD
    <3>3. l < Len(payload)
      BY <1>3, <3>2
    <3>4. payload[l + 1] = v.len
      BY <1>3, <3>1, <3>2, Zenon
    <3>. QED BY <1>4, <2>3, <3>1, <3>3, <3>4 DEF Padded
  <2>4. CASE v.type \notin {"fd", "str", "array"}
    <3>1. e = <<v.word>> \/ e = <<IdIn(d, v.word)>>
      BY <1>0, <2>4, EncodedAs
    <3>2. n = 1
      BY <1>1, <3>1
    <3>. QED BY <1>4, <2>4, <3>2
  <2>. QED BY <2>1, <2>2, <2>3, <2>4
<1>6. ~(l + n > Len(payload))
  BY <1>3
<1>7. w = [walk EXCEPT
             !.at = @ + needs,
             !.objects = IF v.type = "object" THEN Append(@, walk.at) ELSE @,
             !.new_id = IF v.type = "new_id" THEN walk.at ELSE @,
             !.fd_count = IF v.type = "fd" THEN @ + 1 ELSE @,
             !.name = IF v.type = "str" /\ walk.name = NoName /\ payload[walk.at + 1] > 0 THEN payload[walk.at + 2] ELSE @]
  BY <1>0, <1>1, <1>4, <1>5, <1>6, <1>11 DEF WalkArgument
<1>8. DOMAIN walk = {"ok", "at", "objects", "new_id", "fd_count", "name"}
  BY <1>11 DEF Unwalked
<1>9. /\ DOMAIN w = DOMAIN walk /\ w.ok = walk.ok /\ w.at = walk.at + needs
      /\ w.objects = IF v.type = "object" THEN Append(walk.objects, walk.at) ELSE walk.objects
      /\ w.new_id = IF v.type = "new_id" THEN walk.at ELSE walk.new_id
  BY <1>7, <1>8
<1>. QED BY <1>1, <1>5, <1>9, <1>11 DEF WalkedTo, Notes

\* What is translated is as long, and is words.
LEMMA RewriteIs ==
  ASSUME NEW d, NEW offsets, NEW s \in Seq(Int), NEW t, t = RewriteBy(d, offsets, s)
  PROVE  /\ t \in Seq(Int) /\ Len(t) = Len(s)
         /\ \A i \in 1..Len(s) : t[i] = IF i - 1 \in offsets THEN Translated(d, s[i]) ELSE s[i]
<1>1. PICK n \in Nat : n = Len(s) /\ DOMAIN s = 1..n
  OBVIOUS
<1>2. t = [i \in 1..n |-> IF i - 1 \in offsets THEN Translated(d, s[i]) ELSE s[i]]
  BY <1>1 DEF RewriteBy
<1>3. ASSUME NEW i \in 1..n PROVE t[i] \in Int
  <2>1. s[i] \in Int
    BY <1>1
  <2>2. Translated(d, s[i]) \in Int
    BY <2>1 DEF Translated, Shift
  <2>. QED BY <1>2, <2>1, <2>2
<1>4. t \in Seq(Int) /\ Len(t) = n
  BY <1>2, <1>3, IsASeq
<1>. QED BY <1>1, <1>2, <1>4

Within(offsets, p) == \A o \in offsets : o \in 0..(Len(p) - 1)

\* One more part, behind p: an id, or words that are alike in both directions.
Added(d, p, e, f, offsets, more) ==
  \/ more = offsets /\ f = e
  \/ more = offsets \cup {Len(p)} /\ \E x \in Int : e = <<x>> /\ f = <<Translated(d, x)>>

Extended(d, p, e, f, offsets, more) ==
  RewriteBy(d, more, p \o e) = RewriteBy(d, offsets, p) \o f /\ Within(more, p \o e)

\* It is translated behind what was translated before.
LEMMA RewriteMore ==
  ASSUME NEW d, NEW p \in Seq(Int), NEW e \in Seq(Int), NEW f \in Seq(Int),
         NEW offsets, NEW more, Within(offsets, p),
         Added(d, p, e, f, offsets, more)
  PROVE  Extended(d, p, e, f, offsets, more)
<1>1. PICK l, n \in Nat : l = Len(p) /\ n = Len(e)
  OBVIOUS
<1>2. PICK s : s = p \o e
  OBVIOUS
<1>3. /\ s \in Seq(Int) /\ Len(s) = l + n
      /\ \A i \in 1..(l + n) : s[i] = IF i <= l THEN p[i] ELSE e[i - l]
  BY <1>1, <1>2, ConcatProperties
<1>4. PICK t : t = RewriteBy(d, more, s)
  OBVIOUS
<1>5. /\ t \in Seq(Int) /\ Len(t) = l + n
      /\ \A i \in 1..(l + n) : t[i] = IF i - 1 \in more THEN Translated(d, s[i]) ELSE s[i]
  <2>1. s \in Seq(Int)
    BY <1>3
  <2>2. /\ t \in Seq(Int) /\ Len(t) = Len(s)
        /\ \A i \in 1..Len(s) : t[i] = IF i - 1 \in more THEN Translated(d, s[i]) ELSE s[i]
    BY <1>4, <2>1, RewriteIs
  <2>. QED BY <1>3, <2>2
<1>6. PICK q : q = RewriteBy(d, offsets, p)
  OBVIOUS
<1>7. /\ q \in Seq(Int) /\ Len(q) = l
      /\ \A i \in 1..l : q[i] = IF i - 1 \in offsets THEN Translated(d, p[i]) ELSE p[i]
  BY <1>1, <1>6, RewriteIs
<1>8. Len(f) = n /\ (more # offsets => n = 1 /\ f[1] = Translated(d, e[1]))
  <2>1. CASE more = offsets /\ f = e
    BY <1>1, <2>1
  <2>2. CASE \E x \in Int : e = <<x>> /\ f = <<Translated(d, x)>>
    <3>1. PICK x \in Int : e = <<x>> /\ f = <<Translated(d, x)>>
      BY <2>2
    <3>2. Len(e) = 1 /\ Len(f) = 1 /\ e[1] = x /\ f[1] = Translated(d, x)
      BY <3>1
    <3>. QED BY <1>1, <3>2
  <2>. QED BY <2>1, <2>2 DEF Added
<1>9. /\ q \o f \in Seq(Int) /\ Len(q \o f) = l + n
      /\ \A i \in 1..(l + n) : (q \o f)[i] = IF i <= l THEN q[i] ELSE f[i - l]
  BY <1>7, <1>8, ConcatProperties, ZenonT(60)
<1>10. \A o \in offsets : o \in 0..(l - 1)
  BY <1>1 DEF Within
<1>11. ASSUME NEW i \in 1..(l + n) PROVE t[i] = (q \o f)[i]
  <2>1. CASE i <= l
    <3>1. i \in 1..l /\ i - 1 # l
      BY <2>1
    <3>2. i - 1 \in more <=> i - 1 \in offsets
      BY <1>1, <3>1 DEF Added
    <3>3. s[i] = p[i] /\ (q \o f)[i] = q[i]
      BY <1>3, <1>9, <2>1
    <3>. QED BY <1>5, <1>7, <3>1, <3>2, <3>3
  <2>2. CASE ~(i <= l)
    <3>1. i - 1 \notin offsets /\ i - l \in 1..n
      BY <1>10, <2>2
    <3>2. s[i] = e[i - l] /\ (q \o f)[i] = f[i - l]
      BY <1>3, <1>9, <2>2
    <3>3. CASE more = offsets /\ f = e
      BY <1>5, <3>1, <3>2, <3>3
    <3>4. CASE more = offsets \cup {Len(p)} /\ \E x \in Int : e = <<x>> /\ f = <<Translated(d, x)>>
      <4>1. n = 1 /\ f[1] = Translated(d, e[1]) /\ l \in more
        BY <1>1, <3>4
      <4>2. i - l = 1 /\ i - 1 = l
        BY <2>2, <3>1, <4>1
      <4>. QED BY <1>5, <3>2, <4>1, <4>2
    <3>. QED BY <3>3, <3>4 DEF Added
  <2>. QED BY <2>1, <2>2
<1>12. t = q \o f
  BY <1>5, <1>9, <1>11, SeqEqual
<1>13. \A o \in more : o \in 0..(Len(s) - 1)
  <2>1. \A o \in offsets : o \in 0..(l + n - 1)
    BY <1>10
  <2>2. more # offsets => l \in 0..(l + n - 1)
    BY <1>8
  <2>4. \A o \in more : o \in offsets \/ (more # offsets /\ o = l)
    BY <1>1 DEF Added
  <2>3. Len(s) - 1 = l + n - 1
    BY <1>3
  <2>. QED BY <2>1, <2>2, <2>3, <2>4
<1>. QED BY <1>2, <1>4, <1>6, <1>12, <1>13 DEF Within, Extended

\* An id, translated out of direction d, is that of the other direction.
LEMMA IdTranslated ==
  ASSUME NEW d \in Direction, NEW id \in Nat
  PROVE  Translated(d, IdIn(d, id)) = IdIn(Other(d), id) /\ IdIn(d, id) \in Int /\ Other(d) \in Direction
<1>1. CASE d = "request"
  BY <1>1 DEF Translated, IdIn, Other, Shift, Direction
<1>2. CASE d = "event"
  <2>1. IdIn(d, id) = IF id # 0 THEN id + 100 ELSE id
    BY <1>2 DEF IdIn, Shift
  <2>2. IdIn(Other(d), id) = id
    BY <1>2 DEF IdIn, Other
  <2>3. Translated(d, IdIn(d, id)) = id
    <3>1. PICK x \in Int : x = IdIn(d, id)
      BY <2>1
    <3>2. Translated(d, x) = IF x = 0 THEN 0 ELSE x - 100
      BY <1>2 DEF Translated, Shift
    <3>. QED BY <2>1, <3>1, <3>2
  <2>. QED BY <1>2, <2>1, <2>2, <2>3 DEF Other, Direction
<1>. QED BY <1>1, <1>2 DEF Direction


\* The ids of what was walked so far are found, and q is p with these translated.
Walked(d, walk, p, q) ==
  /\ WalkedTo(walk, Len(p))
  /\ walk.objects \in Seq(Nat) /\ walk.new_id \in Nat \cup {NoOffset}
  /\ q = RewriteBy(d, Offsets(walk), p) /\ Within(Offsets(walk), p)

\* One argument in both directions, with the first id created.
Translating(d, v, p, e, f, r, payload, walk, w) ==
  /\ OneArgument(d, v, p, e, r, payload, walk, w)
  /\ f = Encoded(ValueIn(Other(d), v))
  /\ v.type = "new_id" => walk.new_id = NoOffset

WalkedOn(d, v, p, q, e, f, walk, w) ==
  Walked(d, w, p \o e, q \o f) /\ (v.type # "new_id" => w.new_id = walk.new_id)

\* So they are after one more argument.
LEMMA WalkMore ==
  ASSUME NEW d \in Direction, NEW v \in Argument,
         NEW p \in Seq(Int), NEW q, NEW e \in Seq(Int), NEW f \in Seq(Int), NEW r \in Seq(Int),
         NEW payload, NEW walk, NEW w, Translating(d, v, p, e, f, r, payload, walk, w), Walked(d, walk, p, q)
  PROVE  WalkedOn(d, v, p, q, e, f, walk, w)
<1>0. /\ OneArgument(d, v, p, e, r, payload, walk, w)
      /\ f = Encoded(ValueIn(Other(d), v))
      /\ v.type = "new_id" => walk.new_id = NoOffset
  BY DEF Translating
<1>1. /\ WalkedTo(walk, Len(p))
      /\ walk.objects \in Seq(Nat) /\ walk.new_id \in Nat \cup {NoOffset}
      /\ q = RewriteBy(d, Offsets(walk), p) /\ Within(Offsets(walk), p)
  BY DEF Walked
<1>8. WalkedTo(w, Len(p) + Len(e)) /\ Notes(v, Len(p), walk, w)
  BY <1>0, <1>1, WalkOne
<1>2. /\ w.objects = IF v.type = "object" THEN Append(walk.objects, Len(p)) ELSE walk.objects
      /\ w.new_id = IF v.type = "new_id" THEN Len(p) ELSE walk.new_id
  BY <1>8 DEF Notes
<1>3. PICK l \in Nat : l = Len(p)
  OBVIOUS
<1>4. w.objects \in Seq(Nat) /\ w.new_id \in Nat \cup {NoOffset}
  <2>1. Append(walk.objects, l) \in Seq(Nat)
    BY <1>1, AppendProperties
  <2>. QED BY <1>1, <1>2, <1>3, <2>1
<1>5. Added(d, p, e, f, Offsets(walk), Offsets(w))
  <2>1. v.word \in Nat
    BY DEF Argument
  <2>2. /\ Translated(d, IdIn(d, v.word)) = IdIn(Other(d), v.word) /\ IdIn(d, v.word) \in Int
        /\ Other(d) \in Direction
    BY <2>1, IdTranslated
  <2>3. CASE v.type \in {"object", "new_id"}
    <3>1. e = <<IdIn(d, v.word)>> /\ f = <<IdIn(Other(d), v.word)>>
      BY <2>2, <2>3, <1>0, EncodedAs DEF OneArgument
    <3>2. \E x \in Int : e = <<x>> /\ f = <<Translated(d, x)>>
      BY <2>2, <3>1
    <3>3. Offsets(w) = Offsets(walk) \cup {l}
      <4>1. CASE v.type = "object"
        <5>1. PICK s \in Seq(Nat) : s = walk.objects
          BY <1>1
        <5>2. PICK t : t = Append(s, l)
          OBVIOUS
        <5>3. Len(t) = Len(s) + 1 /\ \A i \in 1..(Len(s) + 1) : t[i] = IF i <= Len(s) THEN s[i] ELSE l
          BY <5>1, <5>2
        <5>4. DOMAIN t = 1..(Len(s) + 1) /\ DOMAIN s = 1..Len(s) /\ Len(s) \in Nat
          BY <5>1, <5>2
        <5>5. ToSet(t) = ToSet(s) \cup {l}
          <6>1. ToSet(t) \subseteq ToSet(s) \cup {l}
            BY <5>3, <5>4 DEF ToSet
          <6>2. l \in ToSet(t)
            <7>1. Len(s) + 1 \in 1..(Len(s) + 1) /\ ~(Len(s) + 1 <= Len(s))
              BY <5>4
            <7>2. t[Len(s) + 1] = l
              BY <5>3, <7>1
            <7>. QED BY <5>4, <7>1, <7>2 DEF ToSet
          <6>3. ASSUME NEW i \in 1..Len(s) PROVE s[i] \in ToSet(t)
            <7>1. i \in 1..(Len(s) + 1) /\ i <= Len(s)
              BY <5>4
            <7>2. t[i] = s[i]
              BY <5>3, <7>1
            <7>. QED BY <5>4, <7>1, <7>2 DEF ToSet
          <6>4. ToSet(s) \subseteq ToSet(t)
            BY <5>4, <6>3 DEF ToSet
          <6>. QED BY <6>1, <6>2, <6>4
        <5>6. w.new_id = walk.new_id /\ w.objects = t
          BY <1>2, <1>3, <4>1, <5>1, <5>2
        <5>. QED BY <5>1, <5>5, <5>6 DEF Offsets
      <4>2. CASE v.type = "new_id"
        <5>1. w.objects = walk.objects /\ w.new_id = l /\ walk.new_id = NoOffset
          BY <1>0, <1>2, <1>3, <4>2
        <5>2. l # NoOffset
          BY DEF NoOffset
        <5>. QED BY <5>1, <5>2 DEF Offsets
      <4>. QED BY <2>3, <4>1, <4>2
    <3>. QED BY <1>3, <3>2, <3>3 DEF Added
  <2>4. CASE v.type \notin {"object", "new_id"}
    <3>1. e = Encoded(v) /\ f = Encoded(v)
      BY <2>2, <2>4, <1>0, EncodedAs DEF OneArgument
    <3>2. Offsets(w) = Offsets(walk)
      BY <1>2, <2>4 DEF Offsets
    <3>. QED BY <3>1, <3>2 DEF Added
  <2>. QED BY <2>3, <2>4
<1>6. /\ RewriteBy(d, Offsets(w), p \o e) = RewriteBy(d, Offsets(walk), p) \o f
      /\ Within(Offsets(w), p \o e)
  <2>1. PICK offsets, more : offsets = Offsets(walk) /\ more = Offsets(w)
    OBVIOUS
  <2>2. Added(d, p, e, f, offsets, more) /\ Within(offsets, p)
    BY <1>1, <1>5, <2>1
  <2>3. Extended(d, p, e, f, offsets, more)
    BY <2>2, RewriteMore
  <2>. QED BY <2>1, <2>3 DEF Extended
<1>7. Len(p \o e) = Len(p) + Len(e)
  BY ConcatProperties
<1>. QED BY <1>1, <1>2, <1>4, <1>6, <1>7, <1>8 DEF Walked, WalkedOn

\* The whole payload, translated where the walk has found ids.
LEMMA WalkRewrites ==
  ASSUME NEW d \in Direction, NEW values \in Seq(Argument), NEW signature,
         signature = [i \in DOMAIN values |-> values[i].type],
         \A i, j \in DOMAIN values : values[i].type = "new_id" /\ values[j].type = "new_id" => i = j,
         NEW payload, payload = FlattenSeq([i \in DOMAIN values |-> Encoded(ValueIn(d, values[i]))]),
         NEW other, other = FlattenSeq([i \in DOMAIN values |-> Encoded(ValueIn(Other(d), values[i]))])
  PROVE  Walked(d, walk_signature(payload, signature), payload, other)
<1>1. PICK n \in Nat : n = Len(values)
  OBVIOUS
<1>2. DOMAIN values = 1..n /\ DOMAIN signature = 1..n /\ \A i \in 1..n : values[i] \in Argument
  BY <1>1
<1>3. PICK walked : walked = CHOOSE f : Walks(f, payload, signature, n)
  OBVIOUS
<1>4. walked = [t \in SUBSET (1..n) |-> WalkStep(payload, signature, walked, t)]
  <2>1. Walks(walked, payload, signature, n)
    BY <1>3, WalkSolution
  <2>. QED BY <2>1 DEF Walks
<1>5. walk_signature(payload, signature) = walked[1..n]
  BY <1>2, <1>3, WalkBy DEF Walks
<1>6. PICK es, fs : /\ es = [i \in DOMAIN values |-> Encoded(ValueIn(d, values[i]))]
                    /\ fs = [i \in DOMAIN values |-> Encoded(ValueIn(Other(d), values[i]))]
  OBVIOUS
<1>7. Other(d) \in Direction
  BY DEF Other, Direction
<1>8. es \in Seq(Seq(Int)) /\ Len(es) = n /\ \A i \in 1..n : es[i] = Encoded(ValueIn(d, values[i]))
  <2>1. \A i \in 1..n : Encoded(ValueIn(d, values[i])) \in Seq(Int)
    BY <1>2, EncodedIs
  <2>. QED BY <1>2, <1>6, <2>1, IsASeq
<1>9. fs \in Seq(Seq(Int)) /\ Len(fs) = n /\ \A i \in 1..n : fs[i] = Encoded(ValueIn(Other(d), values[i]))
  <2>1. \A i \in 1..n : Encoded(ValueIn(Other(d), values[i])) \in Seq(Int)
    BY <1>2, <1>7, EncodedIs
  <2>. QED BY <1>2, <1>6, <2>1, IsASeq
<1> DEFINE P(k) == FlattenSeq(SubSeq(es, 1, k))
<1> DEFINE Q(k) == FlattenSeq(SubSeq(fs, 1, k))
<1> DEFINE Created(k) == \E j \in 1..k : values[j].type = "new_id"
<1> HIDE DEF P, Q, Created
<1> DEFINE Sofar(k) == /\ Walked(d, walked[1..k], P(k), Q(k)) /\ P(k) \in Seq(Int)
                       /\ walked[1..k].new_id # NoOffset => Created(k)
<1> DEFINE Good == {k \in Nat : k <= n => Sofar(k)}
<1>10. 0 \in Good
  <2>1. 1..0 = {} /\ 1..0 \in SUBSET (1..n)
    OBVIOUS
  <2>2. walked[1..0] = Unwalked
    BY <1>4, <2>1 DEF WalkStep
  <2>3. P(0) = <<>> /\ Q(0) = <<>>
    <3>1. SubSeq(es, 1, 0) = <<>> /\ SubSeq(fs, 1, 0) = <<>>
      BY SubSeqEmpty
    <3>. QED BY <3>1, FlatNone DEF P, Q
  <2>4. PICK none \in Seq(Int) : none = <<>> /\ Len(none) = 0
    BY EmptySeq
  <2>5. /\ Unwalked.ok = TRUE /\ Unwalked.at = 0 /\ Unwalked.objects = <<>> /\ Unwalked.new_id = NoOffset
    BY DEF Unwalked
  <2>6. Offsets(Unwalked) = {}
    <3>1. ToSet(<<>>) = {}
      BY DEF ToSet
    <3>. QED BY <2>5, <3>1 DEF Offsets
  <2>7. RewriteBy(d, {}, none) = none
    <3>1. PICK t : t = RewriteBy(d, {}, none)
      OBVIOUS
    <3>2. t \in Seq(Int) /\ Len(t) = Len(none)
      BY <3>1, RewriteIs
    <3>. QED BY <2>4, <3>1, <3>2
  <2>8. Walked(d, Unwalked, none, none)
    <3>1. <<>> \in Seq(Nat)
      BY EmptySeq
    <3>2. none = RewriteBy(d, Offsets(Unwalked), none)
      BY <2>6, <2>7
    <3>3. WalkedTo(Unwalked, Len(none)) /\ Unwalked.objects \in Seq(Nat) /\ Unwalked.new_id \in Nat \cup {NoOffset}
      BY <2>4, <2>5, <3>1 DEF WalkedTo
    <3>4. Within(Offsets(Unwalked), none)
      BY <2>6 DEF Within
    <3>. QED BY <2>5, <3>2, <3>3, <3>4 DEF Walked
  <2>9. Sofar(0)
    BY <2>2, <2>3, <2>4, <2>5, <2>8
  <2>. QED BY <2>9
<1>11. ASSUME NEW k \in Nat, k \in Good PROVE k + 1 \in Good
  <2>1. SUFFICES ASSUME k + 1 <= n PROVE Sofar(k + 1)
    OBVIOUS
  <2>2. Sofar(k)
    BY <1>11, <2>1
  <2>3. /\ 1..(k + 1) \in SUBSET (1..n) /\ 1..(k + 1) # {} /\ k + 1 \in 1..(k + 1)
        /\ (1..(k + 1)) \ {k + 1} = 1..k /\ k + 1 \in 1..n
    BY <2>1
  <2>4. Max(1..(k + 1)) = k + 1
    BY <2>3, MaxOfInterval
  <2>5. PICK v \in Argument : v = values[k + 1]
    BY <1>2, <2>3
  <2>6. walked[1..(k + 1)] = WalkArgument(payload, walked[1..k], v.type)
    <3>1. walked[1..(k + 1)] = WalkStep(payload, signature, walked, 1..(k + 1))
      BY <1>4, <2>3
    <3>2. signature[k + 1] = v.type
      BY <1>2, <2>3, <2>5
    <3>. QED BY <2>3, <2>4, <3>1, <3>2 DEF WalkStep
  <2>7. PICK p, q, e, f : p = P(k) /\ q = Q(k) /\ e = es[k + 1] /\ f = fs[k + 1]
    OBVIOUS
  <2>8. e = Encoded(ValueIn(d, v)) /\ f = Encoded(ValueIn(Other(d), v))
    BY <1>8, <1>9, <2>3, <2>5, <2>7
  <2>9. P(k + 1) = p \o e /\ p \in Seq(Int) /\ e \in Seq(Int)
    <3>1. /\ es[k + 1] \in Seq(Int) /\ SubSeq(es, 1, k) \in Seq(Seq(Int))
          /\ SubSeq(es, 1, k + 1) = Append(SubSeq(es, 1, k), es[k + 1])
      BY <1>8, <2>1, SubSeqAppend
    <3>2. FlattenSeq(Append(SubSeq(es, 1, k), es[k + 1])) = FlattenSeq(SubSeq(es, 1, k)) \o es[k + 1]
      BY <3>1, FlatAppend
    <3>. QED BY <2>2, <2>7, <3>1, <3>2 DEF P
  <2>10. Q(k + 1) = q \o f /\ f \in Seq(Int)
    <3>1. /\ fs[k + 1] \in Seq(Int) /\ SubSeq(fs, 1, k) \in Seq(Seq(Int))
          /\ SubSeq(fs, 1, k + 1) = Append(SubSeq(fs, 1, k), fs[k + 1])
      BY <1>9, <2>1, SubSeqAppend
    <3>2. FlattenSeq(Append(SubSeq(fs, 1, k), fs[k + 1])) = FlattenSeq(SubSeq(fs, 1, k)) \o fs[k + 1]
      BY <3>1, FlatAppend
    <3>. QED BY <2>7, <3>1, <3>2 DEF Q
  <2>11. \E r \in Seq(Int) : payload = p \o (e \o r)
    <3>2. PICK a, b : a = SubSeq(es, 1, k + 1) /\ b = From(es, (k + 1) + 1)
      OBVIOUS
    <3>3. a \in Seq(Seq(Int)) /\ b \in Seq(Seq(Int)) /\ es = a \o b
      <4>1. k + 1 \in 0..n /\ n = Len(es)
        BY <1>8, <2>1
      <4>2. PICK j \in 0..Len(es) : j = k + 1
        BY <4>1
      <4>3. SubSeq(es, 1, j) \in Seq(Seq(Int)) /\ From(es, j + 1) \in Seq(Seq(Int)) /\ es = SubSeq(es, 1, j) \o From(es, j + 1)
        BY <1>8, Cut
      <4>. QED BY <3>2, <4>2, <4>3
    <3>4. FlattenSeq(a \o b) = FlattenSeq(a) \o FlattenSeq(b) /\ FlattenSeq(b) \in Seq(Int)
      BY <3>3, FlatConcat, FlatIsSeq
    <3>5. FlattenSeq(a) = p \o e
      BY <2>9, <3>2 DEF P
    <3>6. PICK r \in Seq(Int) : r = FlattenSeq(b)
      BY <3>4
    <3>7. (p \o e) \o r = p \o (e \o r)
      BY <2>9, <3>6, WordsAssociate, Zenon
    <3>. QED BY <1>6, <3>3, <3>4, <3>5, <3>6, <3>7
  <2>12. PICK r \in Seq(Int) : payload = p \o (e \o r)
    BY <2>11
  <2>13. PICK walk, w : walk = walked[1..k] /\ w = walked[1..(k + 1)]
    OBVIOUS
  <2>14. Walked(d, walk, p, q) /\ (walk.new_id # NoOffset => Created(k))
    BY <2>2, <2>7, <2>13
  <2>15. v.type = "new_id" => walk.new_id = NoOffset
    <3>1. SUFFICES ASSUME v.type = "new_id", Created(k) PROVE FALSE
      BY <2>14
    <3>2. PICK j \in 1..k : values[j].type = "new_id"
      BY <3>1 DEF Created
    <3>3. j \in DOMAIN values /\ k + 1 \in DOMAIN values /\ j # k + 1
      BY <1>2, <2>3
    <3>. QED BY <2>5, <3>1, <3>2, <3>3
  <2>16. Translating(d, v, p, e, f, r, payload, walk, w)
    BY <2>6, <2>8, <2>12, <2>13, <2>15 DEF OneArgument, Translating
  <2>20. WalkedOn(d, v, p, q, e, f, walk, w)
    BY <2>9, <2>10, <2>14, <2>16, WalkMore
  <2>17. Walked(d, w, p \o e, q \o f) /\ (v.type # "new_id" => w.new_id = walk.new_id)
    BY <2>20 DEF WalkedOn
  <2>18. w.new_id # NoOffset => Created(k + 1)
    <3>1. v.type = "new_id" => Created(k + 1)
      BY <2>3, <2>5 DEF Created
    <3>2. Created(k) => Created(k + 1)
      BY DEF Created
    <3>. QED BY <2>14, <2>17, <3>1, <3>2
  <2>19. p \o e \in Seq(Int)
    BY <2>9, ConcatProperties
  <2>. QED BY <2>9, <2>10, <2>13, <2>17, <2>18, <2>19
<1>12. n \in Good
  <2> HIDE DEF Good
  <2>. QED BY <1>10, <1>11, AllNaturals
<1>13. Sofar(n)
  BY <1>12
<1>14. SubSeq(es, 1, n) = es /\ SubSeq(fs, 1, n) = fs
  BY <1>8, <1>9, SubSeqFull
<1>15. P(n) = payload /\ Q(n) = other
  BY <1>6, <1>14 DEF P, Q
<1>. QED BY <1>5, <1>13, <1>15

\* A message is walked in either direction, and is as long in the other one.
LEMMA BothWays ==
  ASSUME NEW d \in Direction, NEW m, Typed(m), OneNew(m),
         NEW signature, signature = [i \in DOMAIN m.values |-> m.values[i].type]
  PROVE  /\ Walked(d, walk_signature(PayloadOf(d, m), signature), PayloadOf(d, m), PayloadOf(Other(d), m))
         /\ Len(PayloadOf(Other(d), m)) = Len(PayloadOf(d, m))
         /\ Fits(d, m) => Fits(Other(d), m)
<1>1. PICK values \in Seq(Argument) : values = m.values
  BY DEF Typed
<1>2. \A i, j \in DOMAIN values : values[i].type = "new_id" /\ values[j].type = "new_id" => i = j
  BY <1>1 DEF OneNew
<1>3. PICK p, q : p = PayloadOf(d, m) /\ q = PayloadOf(Other(d), m)
  OBVIOUS
<1>4. /\ p = FlattenSeq([i \in DOMAIN values |-> Encoded(ValueIn(d, values[i]))])
      /\ q = FlattenSeq([i \in DOMAIN values |-> Encoded(ValueIn(Other(d), values[i]))])
  BY <1>1, <1>3 DEF PayloadOf
<1>5. signature = [i \in DOMAIN values |-> values[i].type]
  BY <1>1
<1>6. Walked(d, walk_signature(p, signature), p, q)
  BY <1>2, <1>4, <1>5, WalkRewrites
<1>7. PICK offsets : offsets = Offsets(walk_signature(p, signature))
  OBVIOUS
<1>8. q = RewriteBy(d, offsets, p)
  BY <1>6, <1>7 DEF Walked
<1>9. p \in Seq(Int)
  BY <1>3, BytesAre
<1>10. Len(q) = Len(p)
  BY <1>8, <1>9, RewriteIs
<1>11. Other(d) \in Direction
  BY DEF Other, Direction
<1>12. Len(Bytes(d, m)) = 2 + Len(p) /\ Len(Bytes(Other(d), m)) = 2 + Len(q)
  BY <1>3, <1>11, BytesAre
<1>. QED BY <1>3, <1>6, <1>10, <1>12 DEF Fits

\* The positions of ids in a message.
IdsAt(walk) == {o + 3 : o \in Offsets(walk)} \cup {1}

\* Rewritten where its ids are, a message is what it is in the other direction.
LEMMA BytesTranslated ==
  ASSUME NEW d \in Direction, NEW m, Typed(m), OneNew(m),
         NEW signature, signature = [i \in DOMAIN m.values |-> m.values[i].type],
         NEW b, b = Bytes(d, m), NEW walk, walk = walk_signature(From(b, 3), signature)
  PROVE  /\ walk.ok
         /\ Bytes(Other(d), m) = [i \in DOMAIN b |-> IF i \in IdsAt(walk) THEN Translated(d, b[i]) ELSE b[i]]
<1>1. PICK p, q : p = PayloadOf(d, m) /\ q = PayloadOf(Other(d), m)
  OBVIOUS
<1>2. PICK c : c = Bytes(Other(d), m)
  OBVIOUS
<1>3. Other(d) \in Direction /\ m.on \in Nat
  BY DEF Other, Direction, Typed
<1>4. p \in Seq(Int) /\ b \in Seq(Int) /\ Len(b) = 2 + Len(p) /\ b[1] = IdIn(d, m.on) /\ From(b, 3) = p
  BY <1>1, BytesAre
<1>5. q \in Seq(Int) /\ c \in Seq(Int) /\ Len(c) = 2 + Len(q) /\ c[1] = IdIn(Other(d), m.on) /\ From(c, 3) = q
  BY <1>1, <1>2, <1>3, BytesAre
<1>6. Walked(d, walk, p, q) /\ Len(q) = Len(p)
  <2>1. walk = walk_signature(PayloadOf(d, m), signature)
    BY <1>1, <1>4
  <2>. QED BY <1>1, <2>1, BothWays
<1>7. PICK offsets : offsets = Offsets(walk)
  OBVIOUS
<1>8. q = RewriteBy(d, offsets, p) /\ \A o \in offsets : o \in 0..(Len(p) - 1)
  BY <1>6, <1>7 DEF Walked, Within
<1>9. \A i \in 1..Len(p) : q[i] = IF i - 1 \in offsets THEN Translated(d, p[i]) ELSE p[i]
  BY <1>4, <1>8, RewriteIs, SMTT(60)
<1>10. PICK n \in Nat : n = Len(p)
  BY <1>4
<1>11. Len(b) = n + 2 /\ Len(c) = n + 2
  BY <1>4, <1>5, <1>6, <1>10
<1>12. b[2] = c[2]
  <2>1. b[2] = ((HEADER_LEN + WORD * Len(p)) % LengthWidth) * LengthWidth + m.opcode
    BY <1>1, BytesAre
  <2>2. c[2] = ((HEADER_LEN + WORD * Len(q)) % LengthWidth) * LengthWidth + m.opcode
    BY <1>1, <1>2, <1>3, BytesAre
  <2>. QED BY <1>6, <2>1, <2>2
<1>13. c[1] = Translated(d, b[1])
  BY <1>3, <1>4, <1>5, IdTranslated
<1>14. \A i \in 1..n : b[i + 2] = p[i] /\ c[i + 2] = q[i]
  <2>1. ASSUME NEW s \in Seq(Int), Len(s) = n + 2, NEW i \in 1..n PROVE From(s, 3)[i] = s[i + 2]
    <3>1. 2 \in 0..Len(s) /\ i \in 1..(Len(s) - 2)
      BY <2>1
    <3>2. From(s, 2 + 1)[i] = s[i + 2]
      BY <3>1, Cut
    <3>. QED BY <3>2
  <2>. QED BY <1>4, <1>5, <1>11, <2>1
<1>15. PICK at : at = IdsAt(walk)
  OBVIOUS
<1>16. 1 \in at /\ 2 \notin at /\ \A i \in 1..n : i + 2 \in at <=> i - 1 \in offsets
  <2>1. \A o \in offsets : o \in Int /\ o >= 0
    BY <1>8, <1>10
  <2>2. at = {o + 3 : o \in offsets} \cup {1}
    BY <1>7, <1>15 DEF IdsAt
  <2>3. 1 \in at /\ 2 \notin at
    BY <2>1, <2>2
  <2>4. ASSUME NEW i \in 1..n PROVE i + 2 \in at <=> i - 1 \in offsets
    <3>1. ASSUME i + 2 \in at PROVE i - 1 \in offsets
      <4>1. PICK o \in offsets : i + 2 = o + 3
        BY <2>2, <3>1
      <4>2. o = i - 1
        BY <2>1, <4>1
      <4>. QED BY <4>1, <4>2
    <3>2. ASSUME i - 1 \in offsets PROVE i + 2 \in at
      <4>1. i + 2 = (i - 1) + 3
        OBVIOUS
      <4>. QED BY <2>2, <3>2, <4>1
    <3>. QED BY <3>1, <3>2
  <2>. QED BY <2>3, <2>4
<1>17. ASSUME NEW i \in 1..(n + 2) PROVE c[i] = IF i \in at THEN Translated(d, b[i]) ELSE b[i]
  <2>1. CASE i = 1
    BY <1>13, <1>16, <2>1
  <2>2. CASE i = 2
    BY <1>12, <1>16, <2>2
  <2>3. CASE i > 2
    <3>1. PICK j \in 1..n : i = j + 2
      <4>1. i - 2 \in 1..n /\ i = (i - 2) + 2
        BY <2>3
      <4>. QED BY <4>1
    <3>2. c[i] = q[j] /\ b[i] = p[j]
      BY <1>14, <3>1
    <3>3. i \in at <=> j - 1 \in offsets
      BY <1>16, <3>1
    <3>4. q[j] = IF j - 1 \in offsets THEN Translated(d, p[j]) ELSE p[j]
      BY <1>9, <1>10
    <3>. QED BY <3>2, <3>3, <3>4
  <2>. QED BY <2>1, <2>2, <2>3
<1>18. PICK t : t = [i \in DOMAIN b |-> IF i \in at THEN Translated(d, b[i]) ELSE b[i]]
  OBVIOUS
<1>19. DOMAIN b = 1..(n + 2) /\ DOMAIN c = 1..(n + 2)
  BY <1>4, <1>5, <1>11
<1>20. c = t
  <2>1. t = [i \in 1..(n + 2) |-> IF i \in at THEN Translated(d, b[i]) ELSE b[i]]
    BY <1>18, <1>19
  <2>2. c = [i \in 1..(n + 2) |-> c[i]]
    BY <1>5, <1>19
  <2>. QED BY <1>17, <2>1, <2>2
<1>21. walk.ok
  BY <1>6 DEF Walked, WalkedTo
<1>. QED BY <1>2, <1>15, <1>18, <1>20, <1>21

-----------------------------------------------------------------------------
\* What a receiver is given.

\* What may be said in direction d, by the sender or by the proxy.
Sayable(d) == Spoken(d) \cup (IF d = "request" THEN OwnMessages ELSE {})

\* Messages of either are proper, and in the ids of the receiver too.
LEMMA SayableIs ==
  ASSUME Setting, NEW d \in Direction
  PROVE  /\ \A m \in Sayable(d) : Proper(d, m)
         /\ AllProper(Other(d), Sayable(d)) /\ AllTyped(Sayable(d)) /\ Other(d) \in Direction
         /\ Spoken(d) \subseteq Sayable(d)
<1>1. scenario \in DOMAIN Scenarios
  BY DEF Setting
<1>2. \A m \in Sayable(d) : Proper(d, m)
  <2>1. CASE d = "request"
    BY <1>1, <2>1, ScenarioIs DEF Spoken, Sayable
  <2>2. CASE d = "event"
    BY <1>1, <2>2, ScenarioIs DEF Sayable
  <2>. QED BY <2>1, <2>2 DEF Direction
<1>3. Other(d) \in Direction
  BY DEF Other, Direction
<1>4. ASSUME NEW m \in Sayable(d) PROVE Typed(m) /\ Fits(Other(d), m)
  <2>1. Typed(m) /\ Fits(d, m) /\ OneNew(m)
    BY <1>2, ProperIs
  <2>. QED BY <2>1, BothWays
<1>. QED BY <1>2, <1>3, <1>4 DEF AllProper, AllTyped, Sayable

\* The message that is next, translated as its walk says, is that message in the other ids.
LEMMA NextTranslated ==
  ASSUME Setting, Queues, NEW d \in Direction, Complete(d), NEW m, IsNext(d, m)
  PROVE  Rewritten(d) = Bytes(Other(d), m)
<1>1. m \in Spoken(d) /\ Declared(d, m) /\ Typed(m) /\ Header(d).opcode = m.opcode /\ First(d) = Bytes(d, m)
  BY DEF IsNext, Heads
<1>2. OneNew(m)
  <2>1. Proper(d, m)
    BY <1>1, SayableIs
  <2>. QED BY <2>1, ProperIs
<1>3. PICK b, signature, walk : b = First(d) /\ signature = Signature[d][m.opcode] /\ walk = Walk(d)
  OBVIOUS
<1>4. signature = [i \in DOMAIN m.values |-> m.values[i].type]
  BY <1>1, <1>3 DEF Declared
<1>5. walk = walk_signature(From(b, 3), signature)
  BY <1>1, <1>3 DEF Walk, Payload
<1>6. b = Bytes(d, m)
  BY <1>1, <1>3
<1>7. Bytes(Other(d), m) = [i \in DOMAIN b |-> IF i \in IdsAt(walk) THEN Translated(d, b[i]) ELSE b[i]]
  BY <1>1, <1>2, <1>4, <1>5, <1>6, BytesTranslated
<1>8. Rewritten(d) = [i \in DOMAIN b |-> IF i \in IdsAt(walk) THEN Translated(d, b[i]) ELSE b[i]]
  BY <1>3 DEF Rewritten, IdsAt, Offsets
<1>. QED BY <1>7, <1>8

\* A message that names no objects differs in its sender only.
LEMMA NamelessTranslated ==
  ASSUME NEW d \in Direction, NEW m, Typed(m),
         \A i \in DOMAIN m.values : m.values[i].type \notin {"object", "new_id"}, NEW b, b = Bytes(d, m)
  PROVE  Bytes(Other(d), m) = <<Translated(d, b[1])>> \o From(b, 2)
<1>1. Other(d) \in Direction /\ m.on \in Nat
  BY DEF Other, Direction, Typed
<1>2. PayloadOf(Other(d), m) = PayloadOf(d, m)
  <2>1. \A i \in DOMAIN m.values : ValueIn(d, m.values[i]) = ValueIn(Other(d), m.values[i])
    BY DEF ValueIn
  <2>2. [i \in DOMAIN m.values |-> Encoded(ValueIn(d, m.values[i]))]
        = [i \in DOMAIN m.values |-> Encoded(ValueIn(Other(d), m.values[i]))]
    BY <2>1
  <2>. QED BY <2>2 DEF PayloadOf
<1>3. PICK p : p = PayloadOf(d, m)
  OBVIOUS
<1>4. PICK c : c = Bytes(Other(d), m)
  OBVIOUS
<1>5. p \in Seq(Int) /\ b \in Seq(Int) /\ Len(b) = 2 + Len(p) /\ b[1] = IdIn(d, m.on) /\ From(b, 3) = p
  BY <1>3, BytesAre
<1>6. c \in Seq(Int) /\ Len(c) = 2 + Len(p) /\ c[1] = IdIn(Other(d), m.on) /\ From(c, 3) = p
  BY <1>1, <1>2, <1>3, <1>4, BytesAre
<1>7. b[2] = c[2]
  <2>1. b[2] = ((HEADER_LEN + WORD * Len(PayloadOf(d, m))) % LengthWidth) * LengthWidth + m.opcode
    BY BytesAre
  <2>2. c[2] = ((HEADER_LEN + WORD * Len(PayloadOf(Other(d), m))) % LengthWidth) * LengthWidth + m.opcode
    BY <1>1, <1>4, BytesAre
  <2>. QED BY <1>2, <2>1, <2>2
<1>8. PICK n \in Nat : n = Len(p)
  BY <1>5
<1>9. \A i \in 1..n : b[i + 2] = p[i] /\ c[i + 2] = p[i]
  <2>1. ASSUME NEW s \in Seq(Int), Len(s) = n + 2, NEW i \in 1..n PROVE From(s, 3)[i] = s[i + 2]
    <3>1. 2 \in 0..Len(s) /\ i \in 1..(Len(s) - 2)
      BY <2>1
    <3>2. From(s, 2 + 1)[i] = s[i + 2]
      BY <3>1, Cut
    <3>. QED BY <3>2
  <2>2. Len(b) = n + 2 /\ Len(c) = n + 2
    BY <1>5, <1>6, <1>8
  <2>3. \A i \in 1..n : From(b, 3)[i] = b[i + 2] /\ From(c, 3)[i] = c[i + 2]
    BY <1>5, <1>6, <2>1, <2>2
  <2>. QED BY <1>5, <1>6, <2>3, Zenon
<1>10. PICK x \in Int : x = Translated(d, b[1])
  <2>1. b[1] \in Int
    BY <1>5
  <2>. QED BY <2>1 DEF Translated, Shift
<1>11. PICK t : t = From(b, 2)
  OBVIOUS
<1>12. t \in Seq(Int) /\ Len(t) = n + 1 /\ \A i \in 1..(n + 1) : t[i] = b[i + 1]
  <2>1. PICK j \in 0..Len(b) : j = 1
    BY <1>5
  <2>2. From(b, j + 1) \in Seq(Int) /\ Len(From(b, j + 1)) = Len(b) - j
        /\ \A i \in 1..(Len(b) - j) : From(b, j + 1)[i] = b[i + j]
    BY <1>5, Cut, ZenonT(120)
  <2>. QED BY <1>5, <1>8, <1>11, <2>1, <2>2
<1>13. PICK h : h = <<x>>
  OBVIOUS
<1>14. h \in Seq(Int) /\ Len(h) = 1 /\ h[1] = x
  BY <1>13
<1>15. PICK u : u = h \o t
  OBVIOUS
<1>16. u \in Seq(Int) /\ Len(u) = n + 2 /\ u[1] = x /\ \A i \in 1..(n + 1) : u[i + 1] = t[i]
  <2>1. /\ h \o t \in Seq(Int) /\ Len(h \o t) = Len(h) + Len(t)
        /\ \A i \in 1..Len(h) + Len(t) : (h \o t)[i] = IF i <= Len(h) THEN h[i] ELSE t[i - Len(h)]
    BY <1>12, <1>14, ConcatProperties, ZenonT(120)
  <2>2. \A i \in 1..(n + 2) : u[i] = IF i <= 1 THEN h[i] ELSE t[i - 1]
    BY <1>12, <1>14, <1>15, <2>1
  <2>3. ASSUME NEW i \in 1..(n + 1) PROVE u[i + 1] = t[i]
    <3>1. i + 1 \in 1..(n + 2) /\ ~(i + 1 <= 1) /\ (i + 1) - 1 = i
      OBVIOUS
    <3>. QED BY <2>2, <3>1
  <2>4. u[1] = x
    BY <1>14, <2>2
  <2>. QED BY <1>12, <1>14, <1>15, <2>1, <2>3, <2>4
<1>17. c[1] = x
  BY <1>1, <1>5, <1>6, <1>10, IdTranslated
<1>18. ASSUME NEW i \in 1..(n + 1) PROVE c[i + 1] = b[i + 1]
  <2>1. CASE i = 1
    BY <1>7, <2>1
  <2>2. CASE i > 1
    <3>1. PICK j \in 1..n : i + 1 = j + 2
      <4>1. i - 1 \in 1..n /\ i + 1 = (i - 1) + 2
        BY <2>2
      <4>. QED BY <4>1
    <3>. QED BY <1>9, <3>1
  <2>. QED BY <2>1, <2>2
<1>19. \A i \in 1..(n + 2) : c[i] = u[i]
  <2>1. ASSUME NEW i \in 1..(n + 2), i # 1 PROVE \E j \in 1..(n + 1) : i = j + 1
    <3>1. i - 1 \in 1..(n + 1) /\ i = (i - 1) + 1
      BY <2>1
    <3>. QED BY <3>1
  <2>. QED BY <1>12, <1>16, <1>17, <1>18, <2>1, ZenonT(60)
<1>20. c = u
  <2>1. Len(c) = n + 2
    BY <1>6, <1>8
  <2>. QED BY <1>6, <1>16, <1>19, <2>1, SeqEqual
<1>. QED BY <1>4, <1>10, <1>11, <1>13, <1>15, <1>20

\* So are the messages that the waits of recovery relay.
LEMMA AwaitedTranslated ==
  ASSUME Setting, NEW d \in Direction, NEW m, IsNext(d, m),
         ToSet(Signature[d][Header(d).opcode]) \cap {"object", "new_id"} = {}
  PROVE  <<Translated(d, First(d)[1])>> \o From(First(d), 2) = Bytes(Other(d), m)
<1>1. m \in Spoken(d) /\ Declared(d, m) /\ Typed(m) /\ Header(d).opcode = m.opcode /\ First(d) = Bytes(d, m)
  BY DEF IsNext, Heads
<1>2. PICK signature : signature = Signature[d][m.opcode]
  OBVIOUS
<1>3. DOMAIN signature = DOMAIN m.values /\ \A i \in DOMAIN m.values : signature[i] = m.values[i].type
  BY <1>1, <1>2 DEF Declared
<1>4. \A i \in DOMAIN signature : signature[i] \notin {"object", "new_id"}
  BY <1>1, <1>2 DEF ToSet
<1>5. \A i \in DOMAIN m.values : m.values[i].type \notin {"object", "new_id"}
  BY <1>3, <1>4
<1>6. PICK b : b = Bytes(d, m)
  OBVIOUS
<1>7. Bytes(Other(d), m) = <<Translated(d, b[1])>> \o From(b, 2)
  BY <1>1, <1>5, <1>6, NamelessTranslated
<1>. QED BY <1>1, <1>6, <1>7

\* What has a part that is not empty is not empty.
LEMMA FlatSome ==
  ASSUME NEW S, NEW s \in Seq(Seq(S)), NEW i \in 1..Len(s), s[i] # <<>>
  PROVE  FlattenSeq(s) # <<>>
<1>1. PICK j \in 0..Len(s) : i = j + 1 /\ j + 1 <= Len(s)
  <2>1. i - 1 \in 0..Len(s) /\ i = (i - 1) + 1 /\ (i - 1) + 1 <= Len(s)
    OBVIOUS
  <2>. QED BY <2>1
<1>2. /\ s[j + 1] \in Seq(S) /\ SubSeq(s, 1, j) \in Seq(Seq(S))
      /\ SubSeq(s, 1, j + 1) = Append(SubSeq(s, 1, j), s[j + 1])
  BY <1>1, SubSeqAppend
<1>3. PICK a, x, b : a = SubSeq(s, 1, j) /\ x = s[i] /\ b = From(s, i + 1)
  OBVIOUS
<1>4. PICK k \in 0..Len(s) : k = i
  OBVIOUS
<1>5. SubSeq(s, 1, k) \in Seq(Seq(S)) /\ From(s, k + 1) \in Seq(Seq(S)) /\ s = SubSeq(s, 1, k) \o From(s, k + 1)
  BY Cut
<1>6. PICK c : c = SubSeq(s, 1, i)
  OBVIOUS
<1>7. c \in Seq(Seq(S)) /\ b \in Seq(Seq(S)) /\ s = c \o b /\ c = Append(a, x) /\ x \in Seq(S) /\ a \in Seq(Seq(S))
  BY <1>1, <1>2, <1>3, <1>4, <1>5, <1>6
<1>8. FlattenSeq(s) = FlattenSeq(c) \o FlattenSeq(b)
  BY <1>7, FlatConcat
<1>9. FlattenSeq(c) = FlattenSeq(a) \o x
  <2>1. FlattenSeq(Append(a, x)) = FlattenSeq(a) \o x
    BY <1>7, FlatAppend
  <2>. QED BY <1>7, <2>1
<1>10. PICK u, w \in Seq(S) : u = FlattenSeq(a) /\ w = FlattenSeq(b)
  BY <1>7, FlatIsSeq
<1>11. Len(x) > 0
  <2>1. Len(x) # 0
    BY <1>3, <1>7, EmptySeq
  <2>. QED BY <1>7, <2>1
<1>12. u \o x \in Seq(S) /\ Len(u \o x) = Len(u) + Len(x)
  BY <1>7, <1>10, ConcatProperties
<1>13. Len((u \o x) \o w) = Len(u \o x) + Len(w)
  BY <1>10, <1>12, ConcatProperties
<1>14. FlattenSeq(s) = (u \o x) \o w
  BY <1>8, <1>9, <1>10
<1>15. Len((u \o x) \o w) > 0
  BY <1>7, <1>10, <1>11, <1>12, <1>13
<1>. QED BY <1>14, <1>15

\* An argument that is an fd brings one.
LEMMA SomeFds ==
  ASSUME NEW values \in Seq(Argument), NEW i \in DOMAIN values, values[i].type = "fd"
  PROVE  Fds(values) # <<>>
<1>1. PICK s : s = [j \in DOMAIN values |-> FdOf(values[j])]
  OBVIOUS
<1>2. \A j \in 1..Len(values) : FdOf(values[j]) \in Seq(Nat)
  <2>1. ASSUME NEW j \in 1..Len(values) PROVE FdOf(values[j]) \in Seq(Nat)
    <3>1. values[j] \in Argument
      OBVIOUS
    <3>2. values[j].word \in Nat
      BY <3>1 DEF Argument
    <3>. QED BY <3>2, EmptySeq DEF FdOf
  <2>. QED BY <2>1
<1>3. s \in Seq(Seq(Nat)) /\ Len(s) = Len(values)
  BY <1>1, <1>2, IsASeq
<1>4. s[i] # <<>>
  BY <1>1 DEF FdOf
<1>5. i \in 1..Len(s)
  BY <1>3
<1>6. FlattenSeq(s) # <<>>
  BY <1>3, <1>4, <1>5, FlatSome
<1>. QED BY <1>1, <1>6 DEF Fds

\* The text of a send is its mime type, and it has an fd.
LEMMA SendIs ==
  ASSUME NEW d \in Direction, NEW m, Typed(m), [i \in DOMAIN m.values |-> m.values[i].type] = <<"str", "fd">>
  PROVE  read_str(PayloadOf(d, m), 0) = {m.values[1].word} /\ Len(Fds(m.values)) > 0
<1>1. PICK values \in Seq(Argument) : values = m.values
  BY DEF Typed
<1>2. DOMAIN values = {1, 2} /\ values[1].type = "str" /\ values[2].type = "fd"
  <2>1. PICK types : types = [i \in DOMAIN values |-> values[i].type]
    OBVIOUS
  <2>2. types = <<"str", "fd">>
    BY <1>1, <2>1
  <2>3. DOMAIN types = {1, 2} /\ types[1] = "str" /\ types[2] = "fd"
    BY <2>2
  <2>. QED BY <2>1, <2>3
<1>3. PICK v, w \in Argument : v = values[1] /\ w = values[2]
  BY <1>2
<1>4. PICK e, f : e = Encoded(ValueIn(d, v)) /\ f = Encoded(ValueIn(d, w))
  OBVIOUS
<1>5. /\ e \in Seq(Int) /\ Len(e) = 1 + WordsFor(v.len + 1) /\ e[1] = v.len + 1 /\ e[2] = v.word
      /\ f = <<>>
  <2>1. v.type = "str" /\ w.type = "fd"
    BY <1>2, <1>3
  <2>2. e = Encoded(v) /\ f = Encoded(w)
    BY <1>4, <2>1, EncodedAs
  <2>. QED BY <2>1, <2>2, EncodedAs
<1>6. PayloadOf(d, m) = e
  <2>1. PICK s : s = [i \in DOMAIN values |-> Encoded(ValueIn(d, values[i]))]
    OBVIOUS
  <2>2. s = Append(<<e>>, f)
    <3>1. s = [i \in {1, 2} |-> Encoded(ValueIn(d, values[i]))]
      BY <1>2, <2>1
    <3>2. s[1] = e /\ s[2] = f /\ DOMAIN s = 1..2
      BY <1>3, <1>4, <3>1
    <3>3. s = <<e, f>>
      <4>1. s = [i \in 1..2 |-> s[i]]
        BY <3>1, <3>2
      <4>2. PICK t : t = <<e, f>>
        OBVIOUS
      <4>3. t = [i \in 1..2 |-> t[i]] /\ t[1] = e /\ t[2] = f
        BY <4>2
      <4>4. \A i \in 1..2 : s[i] = t[i]
        BY <3>2, <4>3
      <4>. QED BY <4>1, <4>2, <4>3, <4>4
    <3>. QED BY <3>3
  <2>3. <<e>> \in Seq(Seq(Int)) /\ f \in Seq(Int)
    BY <1>5, EmptySeq
  <2>4. FlattenSeq(Append(<<e>>, f)) = FlattenSeq(<<e>>) \o f
    BY <2>3, FlatAppend
  <2>5. FlattenSeq(<<e>>) = e
    BY <1>5, FlatOne
  <2>6. e \o <<>> = e
    BY <1>5, ConcatEmptySeq
  <2>. QED BY <1>1, <1>5, <2>1, <2>2, <2>4, <2>5, <2>6 DEF PayloadOf
<1>7. read_str(e, 0) = {v.word}
  <2>1. PICK n \in Nat : n = WordsFor(v.len + 1) /\ n >= 1
    <3>1. v.len \in Nat
      BY DEF Argument
    <3>. QED BY <3>1 DEF WordsFor, WORD
  <2>2. Len(e) = 1 + n /\ WordsFor(e[1]) = n
    BY <1>5, <2>1
  <2>3. ~(0 >= Len(e)) /\ ~(0 + 1 + n > Len(e))
    BY <2>1, <2>2
  <2>4. read_str(e, 0) = {e[2]}
    BY <2>2, <2>3 DEF read_str
  <2>. QED BY <1>5, <2>4
<1>8. Fds(values) # <<>>
  BY <1>2, SomeFds
<1>9. Fds(values) \in Seq(Nat)
  BY FdsAre
<1>. QED BY <1>1, <1>3, <1>6, <1>7, <1>8, <1>9

\* The message passed on takes its own fds, or the tee's for a copied selection.
LEMMA PassedMeant ==
  ASSUME Setting, NEW d \in Direction, NEW m, IsNext(d, m), Walk(d).ok, "stray" \notin marks[d]
  PROVE  FdsPassed(d, TRUE) = FdsMeant(d, m)
<1>1. /\ m \in Spoken(d) /\ Declared(d, m) /\ Typed(m) /\ Header(d).opcode = m.opcode /\ First(d) = Bytes(d, m)
      /\ SubSeq(read_fds[d], 1, Len(Fds(m.values))) = Fds(m.values)
  BY DEF IsNext, Heads
<1>2. PICK fds : fds = Fds(m.values)
  OBVIOUS
<1>3. fds \in Seq(Nat)
  BY <1>1, <1>2, FdsAre DEF Typed
<1>4. Walk(d).fd_count = Len(fds)
  BY <1>2, WalkTakes
<1>5. SubSeq(read_fds[d], 1, Walk(d).fd_count) = fds
  BY <1>1, <1>2, <1>4
<1>6. Payload(d) = PayloadOf(d, m)
  <2>1. From(Bytes(d, m), 3) = PayloadOf(d, m)
    BY <1>1, BytesAre
  <2>. QED BY <1>1, <2>1 DEF Payload
<1>7. Tees(d) <=> Replaced(d, m)
  <2>1. SUFFICES ASSUME d = "event", m.opcode = Opcode.send
                 PROVE  read_str(Payload(d), 0) \subseteq CacheableMime /\ Walk(d).fd_count > 0
                        <=> m.values[1].word \in CacheableMime
    BY <1>1 DEF Tees, Replaced
  <2>2. [i \in DOMAIN m.values |-> m.values[i].type] = <<"str", "fd">>
    BY <1>1, <2>1, SendAssumption DEF Declared
  <2>3. read_str(PayloadOf(d, m), 0) = {m.values[1].word} /\ Len(Fds(m.values)) > 0
    BY <1>1, <2>2, SendIs
  <2>. QED BY <1>2, <1>4, <1>6, <2>3
<1>8. FdsPassed(d, TRUE) = IF ~Tees(d) THEN fds ELSE [i \in DOMAIN fds |-> fds[i] + Tee]
  BY <1>5 DEF FdsPassed
<1>9. FdsMeant(d, m) = [i \in DOMAIN fds |-> fds[i] + IF Replaced(d, m) THEN Tee ELSE 0]
  BY <1>2 DEF FdsMeant
<1>10. CASE Replaced(d, m)
  BY <1>7, <1>8, <1>9, <1>10
<1>11. CASE ~Replaced(d, m)
  <2>1. [i \in DOMAIN fds |-> fds[i] + 0] = fds
    BY <1>3
  <2>2. FdsMeant(d, m) = [i \in DOMAIN fds |-> fds[i] + 0]
    BY <1>9, <1>11
  <2>. QED BY <1>7, <1>8, <1>11, <2>1, <2>2
<1>. QED BY <1>10, <1>11

\* What is meant to go with a message without fds.
LEMMA NoneMeant ==
  ASSUME NEW d, NEW m, Fds(m.values) = <<>>
  PROVE  FdsMeant(d, m) = <<>>
<1>1. DOMAIN Fds(m.values) = {}
  OBVIOUS
<1>. QED BY <1>1 DEF FdsMeant

\* They are fds.
LEMMA MeantIs ==
  ASSUME NEW d, NEW m, Typed(m)
  PROVE  FdsMeant(d, m) \in Seq(Nat)
<1>1. PICK fds : fds = Fds(m.values)
  OBVIOUS
<1>2. fds \in Seq(Nat)
  BY <1>1, FdsAre DEF Typed
<1>3. PICK x \in Nat : x = IF Replaced(d, m) THEN Tee ELSE 0
  BY DEF Tee
<1>4. FdsMeant(d, m) = [i \in 1..Len(fds) |-> fds[i] + x]
  BY <1>1, <1>2, <1>3 DEF FdsMeant
<1>5. \A i \in 1..Len(fds) : fds[i] + x \in Nat
  BY <1>2
<1>. QED BY <1>2, <1>4, <1>5, IsASeq

\* Only one message can be the first one that is still to be taken.
LEMMA FrontIsOne ==
  ASSUME NEW d \in Direction, NEW T, AllTyped(T), NEW script \in Seq(T), NEW n \in 0..Len(script),
         NEW buf, NEW queue, NEW j, NEW k, AtFront(d, script, j, n, buf, queue), AtFront(d, script, k, n, buf, queue)
  PROVE  j = k
<1>1. /\ j \in 0..n /\ k \in 0..n
      /\ WordsIn(d, Rest(script, j, n)) = WordsIn(d, Rest(script, k, n))
  BY DEF AtFront
<1>2. ASSUME NEW x \in 0..n, NEW y \in 0..n, x < y
      PROVE  WordsIn(d, Rest(script, x, n)) # WordsIn(d, Rest(script, y, n))
  <2>1. x \in 0..y
    BY <1>2
  <2>2. WordsIn(d, Rest(script, x, n)) \in Seq(Int) /\ WordsIn(d, Rest(script, y, n)) \in Seq(Int)
    BY RestIs, MessagesAre
  <2>3. Len(WordsIn(d, Rest(script, x, n))) > Len(WordsIn(d, Rest(script, y, n)))
    BY <1>2, <2>1, RestGrows
  <2>. QED BY <2>2, <2>3
<1>. QED BY <1>1, <1>2

LEMMA UpcomingIsOne ==
  ASSUME Setting, Queues, NEW d \in Direction, NEW j, NEW k, Upcoming(d, j), Upcoming(d, k)
  PROVE  j = k
<1>1. PICK script, n : script = Script(d) /\ n = sent[d]
  OBVIOUS
<1>2. script \in Seq(Spoken(d)) /\ AllTyped(Spoken(d)) /\ n \in 0..Len(script)
  BY <1>1, ScriptIs DEF Queues
<1>3. AtFront(d, script, j, n, read_buf[d], wire[d]) /\ AtFront(d, script, k, n, read_buf[d], wire[d])
  BY <1>1 DEF Upcoming
<1>. QED BY <1>2, <1>3, FrontIsOne

\* It stays that while nothing is sent or taken, ...
LEMMA UpcomingKept ==
  ASSUME NEW d \in Direction, NEW k, Upcoming(d, k), UNCHANGED <<scenario, generation>>,
         sent'[d] = sent[d], wire'[d] = wire[d], read_buf'[d] = read_buf[d]
  PROVE  Upcoming(d, k)'
<1>1. Script(d)' = Script(d)
  BY DEF Script, Played
<1>. QED BY <1>1 DEF Upcoming

\* ... while more is sent, ...
LEMMA FlushFront ==
  ASSUME NEW d \in Direction, NEW T, AllTyped(T), NEW script \in Seq(T),
         NEW n \in 0..Len(script), NEW l \in 0..Len(script), n < l,
         NEW queue \in Seq(Item), NEW buf \in Seq(Int), NEW k, AtFront(d, script, k, n, buf, queue)
  PROVE  AtFront(d, script, k, l, buf, queue \o Batch(d, Rest(script, n, l)))
<1>1. k \in 0..n /\ buf \o Words(queue) = WordsIn(d, Rest(script, k, n))
  BY DEF AtFront
<1>2. PICK batch : batch = Batch(d, Rest(script, n, l))
  OBVIOUS
<1>3. Words(queue \o batch) = Words(queue) \o WordsIn(d, Rest(script, n, l))
  BY <1>2, MorePackets, ZenonT(120)
<1>4. n \in 0..l /\ k \in 0..l /\ k \in 0..n
  BY <1>1
<1>5. WordsIn(d, Rest(script, k, l)) = WordsIn(d, Rest(script, k, n)) \o WordsIn(d, Rest(script, n, l))
  BY <1>4, RestWords
<1>6. WordsIn(d, Rest(script, n, l)) \in Seq(Int) /\ Words(queue) \in Seq(Int)
  BY <1>4, RestIs, MessagesAre, QueueIs
<1>7. (buf \o Words(queue)) \o WordsIn(d, Rest(script, n, l)) = buf \o (Words(queue) \o WordsIn(d, Rest(script, n, l)))
  BY <1>6, WordsAssociate, Zenon
<1>8. buf \o Words(queue \o batch) = WordsIn(d, Rest(script, k, l))
  BY <1>1, <1>3, <1>5, <1>7, Zenon
<1>. QED BY <1>2, <1>4, <1>8 DEF AtFront

LEMMA UpcomingFlushed ==
  ASSUME Setting, Queues, NEW e \in Direction, PeerFlushes(e), NEW d \in Direction, NEW k, Upcoming(d, k)
  PROVE  Upcoming(d, k)'
<1>1. UNCHANGED <<scenario, generation, read_buf, read_fds, marks>>
  BY DEF PeerFlushes
<1>2. PICK n \in 1..(Len(Script(e)) - sent[e]) :
        /\ wire' = [wire EXCEPT ![e] = @ \o Batch(e, SubSeq(Script(e), sent[e] + 1, sent[e] + n))]
        /\ sent' = [sent EXCEPT ![e] = @ + n]
  BY DEF PeerFlushes
<1>3. /\ wire \in [Direction -> Seq(Item)] /\ read_buf \in [Direction -> Seq(Int)]
      /\ sent \in [Direction -> Nat] /\ \A x \in Direction : sent[x] \in 0..Len(Script(x))
  BY DEF Queues
<1>4. PICK script, q, s, buf : script = Script(e) /\ q = wire[e] /\ s = sent[e] /\ buf = read_buf[e]
  OBVIOUS
<1>5. script \in Seq(Spoken(e)) /\ AllTyped(Spoken(e)) /\ buf \in Seq(Int)
  BY <1>3, <1>4, ScriptIs
<1>6. PICK l : l = s + n
  OBVIOUS
<1>7. s \in 0..Len(script) /\ l \in 0..Len(script) /\ s < l /\ q \in Seq(Item)
  <2>1. PICK len \in Nat : len = Len(script)
    BY <1>5
  <2>2. s \in 0..len /\ n \in 1..(len - s)
    BY <1>3, <1>4, <2>1
  <2>3. l \in 0..len /\ s < l
    BY <1>6, <2>2
  <2>. QED BY <1>3, <1>4, <2>1, <2>2, <2>3
<1>8. PICK batch : batch = Batch(e, Rest(script, s, l))
  OBVIOUS
<1>9. wire' = [wire EXCEPT ![e] = q \o batch] /\ sent' = [sent EXCEPT ![e] = l]
  BY <1>2, <1>4, <1>6, <1>8 DEF Rest
<1>10. /\ wire'[e] = q \o batch /\ sent'[e] = l
       /\ \A x \in Direction \ {e} : wire'[x] = wire[x] /\ sent'[x] = sent[x]
  BY <1>3, <1>9
<1>11. Script(e)' = Script(e)
  BY <1>1 DEF Script, Played
<1>12. CASE d = e
  <2>1. AtFront(e, script, k, s, buf, q)
    BY <1>4, <1>12 DEF Upcoming
  <2>2. AtFront(e, script, k, l, buf, q \o batch)
    BY <1>5, <1>7, <1>8, <2>1, FlushFront
  <2>3. read_buf'[e] = buf
    BY <1>1, <1>4
  <2>. QED BY <1>4, <1>10, <1>11, <1>12, <2>2, <2>3 DEF Upcoming
<1>13. CASE d # e
  BY <1>1, <1>10, <1>13, UpcomingKept
<1>. QED BY <1>12, <1>13

\* ... while it is read, ...
LEMMA UpcomingFilled ==
  ASSUME Queues, NEW e \in Direction, fill(e), UNCHANGED <<scenario, generation, sent>>,
         NEW d \in Direction, NEW k, Upcoming(d, k)
  PROVE  Upcoming(d, k)'
<1>1. PICK n \in 1..Len(wire[e]) :
        /\ read_buf' = [read_buf EXCEPT ![e] = @ \o Words(SubSeq(wire[e], 1, n))]
        /\ wire' = [wire EXCEPT ![e] = From(@, n + 1)]
  BY DEF fill
<1>2. wire \in [Direction -> Seq(Item)] /\ read_buf \in [Direction -> Seq(Int)]
  BY DEF Queues
<1>3. PICK q, buf : q = wire[e] /\ buf = read_buf[e]
  OBVIOUS
<1>4. q \in Seq(Item) /\ buf \in Seq(Int)
  BY <1>2, <1>3
<1>5. PICK a, b : a = SubSeq(q, 1, n) /\ b = From(q, n + 1)
  OBVIOUS
<1>6. n \in 0..Len(q)
  BY <1>3
<1>7. a \in Seq(Item) /\ b \in Seq(Item) /\ q = a \o b
  <2>1. SubSeq(q, 1, n) \in Seq(Item) /\ From(q, n + 1) \in Seq(Item) /\ q = SubSeq(q, 1, n) \o From(q, n + 1)
    BY <1>4, <1>6, Cut
  <2>. QED BY <1>5, <2>1
<1>8. /\ wire'[e] = b /\ read_buf'[e] = buf \o Words(a)
      /\ \A x \in Direction \ {e} : wire'[x] = wire[x] /\ read_buf'[x] = read_buf[x]
  BY <1>1, <1>2, <1>3, <1>5
<1>9. Script(e)' = Script(e)
  BY DEF Script, Played
<1>10. CASE d = e
  <2>1. k \in 0..sent[e] /\ buf \o Words(q) = WordsIn(e, Rest(Script(e), k, sent[e]))
    BY <1>3, <1>10 DEF Upcoming, AtFront
  <2>2. Words(q) = Words(a) \o Words(b) /\ Words(a) \in Seq(Int) /\ Words(b) \in Seq(Int)
    BY <1>7, QueueConcat, QueueIs
  <2>3. (buf \o Words(a)) \o Words(b) = buf \o (Words(a) \o Words(b))
    BY <1>4, <2>2, WordsAssociate, Zenon
  <2>4. (buf \o Words(a)) \o Words(b) = WordsIn(e, Rest(Script(e), k, sent[e]))
    BY <2>1, <2>2, <2>3, Zenon
  <2>5. AtFront(e, Script(e), k, sent[e], buf \o Words(a), b)
    BY <2>1, <2>4 DEF AtFront
  <2>. QED BY <1>8, <1>9, <1>10, <2>5 DEF Upcoming
<1>11. CASE d # e
  BY <1>8, <1>11, UpcomingKept
<1>. QED BY <1>10, <1>11

\* ... and then the next one is.
LEMMA UpcomingTaken ==
  ASSUME Setting, Queues, NEW d \in Direction, NEW k, Upcoming(d, k), Complete(d), NEW m, IsNext(d, m), Drain(d),
         UNCHANGED <<scenario, generation, sent, wire>>
  PROVE  /\ Upcoming(d, k + 1)' /\ k \in Nat /\ k + 1 \in 1..Len(Script(d)) /\ m = Script(d)[k + 1]
         /\ \A e \in Direction \ {d} : \A j : Upcoming(e, j) => Upcoming(e, j)'
<1>1. PICK j \in Nat : Heads(d, j, m)
  BY DEF IsNext
<1>2. Upcoming(d, j)
  BY <1>1 DEF Heads
<1>3. j = k
  BY <1>2, UpcomingIsOne
<1>4. /\ m = Script(d)[k + 1]
      /\ AtFront(d, Script(d), k + 1, sent[d], From(read_buf[d], take_message(read_buf[d]) + 1), wire[d])
  BY <1>1, <1>3 DEF Heads
<1>5. read_buf' = [read_buf EXCEPT ![d] = From(@, take_message(@) + 1)] /\ read_buf \in [Direction -> Seq(Int)]
  BY DEF Drain, Queues
<1>6. /\ read_buf'[d] = From(read_buf[d], take_message(read_buf[d]) + 1)
      /\ \A e \in Direction \ {d} : read_buf'[e] = read_buf[e]
  BY <1>5
<1>7. Script(d)' = Script(d)
  BY DEF Script, Played
<1>8. Upcoming(d, k + 1)'
  BY <1>4, <1>6, <1>7 DEF Upcoming
<1>9. k + 1 \in 1..Len(Script(d))
  <2>1. k + 1 \in 0..sent[d]
    BY <1>4 DEF AtFront
  <2>2. sent[d] \in 0..Len(Script(d)) /\ Len(Script(d)) \in Nat
    BY ScriptIs DEF Queues
  <2>. QED BY <1>3, <2>1, <2>2
<1>10. ASSUME NEW e \in Direction \ {d}, NEW i, Upcoming(e, i) PROVE Upcoming(e, i)'
  BY <1>6, <1>10, UpcomingKept
<1>. QED BY <1>3, <1>4, <1>8, <1>9, <1>10

\* A message that is written in part is not read yet.
LEMMA PartIs ==
  ASSUME NEW e \in Direction, NEW m, Typed(m), Fits(e, m),
         NEW words, words = Bytes(e, m), NEW n \in Nat, n < Len(words)
  PROVE  SubSeq(words, 1, n) \in Seq(Int) /\ take_message(SubSeq(words, 1, n)) = 0
<1>1. words \in Seq(Int) /\ Len(words) >= 2
  BY BytesAre
<1>2. PICK t : t = SubSeq(words, 1, n)
  OBVIOUS
<1>3. t \in Seq(Int) /\ Len(t) = n /\ \A i \in 1..n : t[i] = words[i]
  BY <1>1, <1>2
<1>4. CASE n < 2
  <2>1. take_message(t) \in 0..Len(t) /\ (take_message(t) > 0 => Len(t) >= 2)
    BY <1>3, TakeBound
  <2>. QED BY <1>2, <1>3, <1>4, <2>1
<1>5. CASE n >= 2
  <2>1. t[1] = words[1] /\ t[2] = words[2] /\ Len(t) >= 2 /\ Len(t) < Len(words)
    BY <1>3, <1>5
  <2>2. take_message(t) = IF Len(t) < Len(words) THEN 0 ELSE Len(words)
    BY <1>3, <2>1, TakeIs
  <2>. QED BY <1>2, <1>3, <2>1, <2>2
<1>. QED BY <1>4, <1>5

\* What was said of the connections before this one.
Before(d) == IF d = "request" THEN 0 ELSE Len(FlattenSeq(SubSeq(Played.hosts, 1, generation - 1)))

\* list comes behind before.
Continues(T, all, before, list) ==
  /\ all \in Seq(T) /\ before \in Seq(T) /\ list \in Seq(T) /\ Len(all) = Len(before) + Len(list)
  /\ \A j \in 1..Len(before) : all[j] = before[j]
  /\ \A j \in 1..Len(list) : all[Len(before) + j] = list[j]

\* One list more is said behind the others.
LEMMA OneMore ==
  ASSUME NEW T, NEW lists \in Seq(Seq(T)), NEW g \in 1..Len(lists)
  PROVE  Continues(T, FlattenSeq(SubSeq(lists, 1, g)), FlattenSeq(SubSeq(lists, 1, g - 1)), lists[g])
<1>0. PICK all, before : all = FlattenSeq(SubSeq(lists, 1, g)) /\ before = FlattenSeq(SubSeq(lists, 1, g - 1))
  OBVIOUS
<1>1. PICK k \in Nat : k = g - 1 /\ k + 1 = g /\ k + 1 <= Len(lists)
  <2>1. g - 1 \in Nat /\ (g - 1) + 1 = g /\ (g - 1) + 1 <= Len(lists)
    OBVIOUS
  <2>. QED BY <2>1
<1>2. /\ lists[k + 1] \in Seq(T) /\ SubSeq(lists, 1, k) \in Seq(Seq(T))
      /\ SubSeq(lists, 1, k + 1) = Append(SubSeq(lists, 1, k), lists[k + 1])
  BY <1>1, SubSeqAppend
<1>3. PICK x, s : x = lists[k + 1] /\ s = SubSeq(lists, 1, k)
  OBVIOUS
<1>4. x \in Seq(T) /\ s \in Seq(Seq(T)) /\ before = FlattenSeq(s) /\ all = FlattenSeq(Append(s, x)) /\ x = lists[g]
  BY <1>0, <1>1, <1>2, <1>3
<1>5. all = before \o x
  <2>1. FlattenSeq(Append(s, x)) = FlattenSeq(s) \o x
    BY <1>4, FlatAppend
  <2>. QED BY <1>4, <2>1
<1>6. before \in Seq(T)
  BY <1>4, FlatIsSeq
<1>7. PICK l, n \in Nat : l = Len(before) /\ n = Len(x)
  BY <1>4, <1>6
<1>8. /\ all \in Seq(T) /\ Len(all) = l + n
      /\ \A j \in 1..(l + n) : all[j] = IF j <= l THEN before[j] ELSE x[j - l]
  <2>1. /\ before \o x \in Seq(T) /\ Len(before \o x) = Len(before) + Len(x)
        /\ \A j \in 1..Len(before) + Len(x) :
             (before \o x)[j] = IF j <= Len(before) THEN before[j] ELSE x[j - Len(before)]
    BY <1>4, <1>6, ConcatProperties
  <2>. QED BY <1>5, <1>7, <2>1
<1>9. ASSUME NEW j \in 1..l PROVE all[j] = before[j]
  <2>1. j \in 1..(l + n) /\ j <= l
    OBVIOUS
  <2>. QED BY <1>8, <2>1
<1>10. ASSUME NEW j \in 1..n PROVE all[l + j] = x[j]
  <2>1. l + j \in 1..(l + n) /\ ~(l + j <= l) /\ (l + j) - l = j
    OBVIOUS
  <2>. QED BY <1>8, <2>1
<1>. QED BY <1>0, <1>4, <1>6, <1>7, <1>8, <1>9, <1>10 DEF Continues

\* The script of this connection is the end of what was said.
LEMMA SaidIs ==
  ASSUME Setting, NEW d \in Direction
  PROVE  /\ Said(d) \in Seq(Spoken(d)) /\ Before(d) \in Nat /\ Script(d) \in Seq(Spoken(d))
         /\ Len(Said(d)) = Before(d) + Len(Script(d))
         /\ \A j \in 1..Len(Script(d)) : Said(d)[Before(d) + j] = Script(d)[j]
<1>1. Script(d) \in Seq(Spoken(d))
  BY ScriptIs
<1>2. CASE d = "request"
  <2>1. Said(d) = Script(d) /\ Before(d) = 0
    BY <1>2 DEF Said, Script, Before
  <2>2. \A j \in 1..Len(Script(d)) : 0 + j = j
    OBVIOUS
  <2>3. Len(Script(d)) \in Nat
    BY <1>1
  <2>. QED BY <1>1, <2>1, <2>2, <2>3
<1>3. CASE d = "event"
  <2>1. PICK hosts, T : hosts = Played.hosts /\ T = Spoken("event")
    OBVIOUS
  <2>2. hosts \in Seq(Seq(T)) /\ generation \in 1..Len(hosts)
    BY <2>1, ScenarioIs DEF Setting
  <2>3. PICK g \in 1..Len(hosts) : g = generation
    BY <2>2
  <2>4. PICK all, before : /\ all = FlattenSeq(SubSeq(hosts, 1, g)) /\ before = FlattenSeq(SubSeq(hosts, 1, g - 1))
    OBVIOUS
  <2>5. /\ all \in Seq(T) /\ before \in Seq(T) /\ hosts[g] \in Seq(T) /\ Len(all) = Len(before) + Len(hosts[g])
        /\ \A j \in 1..Len(hosts[g]) : all[Len(before) + j] = hosts[g][j]
    <3>1. Continues(T, FlattenSeq(SubSeq(hosts, 1, g)), FlattenSeq(SubSeq(hosts, 1, g - 1)), hosts[g])
      BY <2>2, OneMore
    <3>. QED BY <2>4, <3>1 DEF Continues
  <2>6. Said(d) = all /\ Before(d) = Len(before) /\ Script(d) = hosts[g]
    BY <1>3, <2>1, <2>3, <2>4 DEF Said, Before, Script
  <2>7. Len(before) \in Nat
    BY <2>5
  <2>. QED BY <1>3, <2>1, <2>5, <2>6, <2>7
<1>. QED BY <1>2, <1>3 DEF Direction

\* A new compositor's script is said behind all that was said before.
LEMMA SaidMore ==
  ASSUME Setting, Setting', scenario' = scenario, generation' = generation + 1
  PROVE  /\ Before("event")' = Len(Said("event"))
         /\ \A j \in DOMAIN Said("event") : j \in DOMAIN Said("event")' /\ Said("event")'[j] = Said("event")[j]
         /\ Said("request")' = Said("request") /\ Before("request")' = Before("request")
<1>1. Played' = Played
  BY DEF Played
<1>2. PICK hosts, T : hosts = Played.hosts /\ T = Spoken("event")
  OBVIOUS
<1>3. hosts \in Seq(Seq(T)) /\ generation' \in 1..Len(hosts) /\ generation \in Int
  BY <1>1, <1>2, ScenarioIs DEF Setting
<1>4. PICK g \in 1..Len(hosts) : g = generation'
  BY <1>3
<1>5. g - 1 = generation
  BY <1>3, <1>4
<1>6. PICK all, before : all = FlattenSeq(SubSeq(hosts, 1, g)) /\ before = FlattenSeq(SubSeq(hosts, 1, g - 1))
  OBVIOUS
<1>7. /\ all \in Seq(T) /\ before \in Seq(T) /\ hosts[g] \in Seq(T) /\ Len(all) = Len(before) + Len(hosts[g])
      /\ \A j \in 1..Len(before) : all[j] = before[j]
  <2>1. Continues(T, FlattenSeq(SubSeq(hosts, 1, g)), FlattenSeq(SubSeq(hosts, 1, g - 1)), hosts[g])
    BY <1>3, OneMore
  <2>. QED BY <1>6, <2>1 DEF Continues
<1>8. Said("event")' = all
  BY <1>1, <1>2, <1>4, <1>6 DEF Said
<1>9. Said("event") = before
  BY <1>2, <1>5, <1>6 DEF Said
<1>10. Before("event")' = Len(before)
  BY <1>1, <1>2, <1>4, <1>6 DEF Before
<1>11. ASSUME NEW j \in DOMAIN before PROVE j \in DOMAIN all /\ all[j] = before[j]
  <2>1. j \in 1..Len(before)
    BY <1>7
  <2>2. j \in 1..Len(all)
    BY <1>7, <2>1
  <2>. QED BY <1>7, <2>1, <2>2
<1>12. Said("request")' = Said("request") /\ Before("request")' = Before("request")
  BY <1>1 DEF Said, Before
<1>. QED BY <1>8, <1>9, <1>10, <1>11, <1>12

\* Nothing changes while nobody reconnects.
LEMMA SaidKept ==
  ASSUME UNCHANGED <<scenario, generation>>
  PROVE  /\ Played' = Played /\ OwnMessages' = OwnMessages
         /\ \A d : Said(d)' = Said(d) /\ Before(d)' = Before(d) /\ Sayable(d)' = Sayable(d)
<1>1. Played' = Played
  BY DEF Played
<1>. QED BY <1>1 DEF OwnMessages, Said, Before, Sayable, Spoken

-----------------------------------------------------------------------------
(***************************************************************************)
(* The invariant behind Faithful and FdsFollow.  The receiver of d was     *)
(* given messages ms, and ms[i] is message ks[i] of what was said, or one  *)
(* of the proxy's own if ks[i] is 0.  The task writes its own messages and *)
(* then, as the last one, the message it has taken last.                   *)
(***************************************************************************)
Clean(d) == marks[d] \cap {"stray", "tee"} = {}
IsOwn(d, m) == d = "request" /\ m \in OwnMessages
IsSaid(d, m, x) == x \in DOMAIN Said(d) /\ m = Said(d)[x]

\* Of the first l messages that were said, in their order.
Entry(d, m, x, l) == (x = 0 /\ IsOwn(d, m)) \/ (x \in 1..l /\ IsSaid(d, m, x))
InOrder(ks) == \A i, j \in DOMAIN ks : i < j /\ ks[i] # 0 /\ ks[j] # 0 => ks[i] < ks[j]
Log(d, ms, ks, l) ==
  /\ ms \in Seq(Sayable(d)) /\ ks \in Seq(Nat) /\ Len(ks) = Len(ms)
  /\ \A i \in 1..Len(ms) : Entry(d, ms[i], ks[i], l)
  /\ InOrder(ks)

\* What was given are these messages, and what is written of the next one.
MeantIn(d, ms) == FlattenSeq([i \in DOMAIN ms |-> FdsMeant(d, ms[i])])
FdsBegun(d) == IF todo # <<>> /\ todo[1].to = d /\ todo[1].done > 0 THEN todo[1].fds ELSE <<>>
Given(d, ms) ==
  /\ Words(got[d]) = WordsIn(Other(d), ms) \o BeingWritten(d)
  /\ Clean(d) => FdsOf(got[d]) = MeantIn(d, ms) \o FdsBegun(d)

\* What is still to be written.
Below(ks, l) == \A j \in DOMAIN ks : ks[j] < l
OwnOut(d, out) == \E m : IsOwn(d, m) /\ out.words = Bytes(Other(d), m) /\ out.fds = <<>>
SaidOut(d, l, out) ==
  \E m : IsSaid(d, m, l) /\ out.words = Bytes(Other(d), m) /\ (Clean(d) => out.fds = FdsMeant(d, m))
Pending(d, ks, l) ==
  \A i \in DOMAIN todo : todo[i].to = d =>
    OwnOut(d, todo[i]) \/ (i = Len(todo) /\ SaidOut(d, l, todo[i]) /\ Below(ks, l))

Stands(d, k, ms, ks) ==
  /\ k \in Nat /\ Upcoming(d, k)
  /\ Log(d, ms, ks, Before(d) + k) /\ Given(d, ms) /\ Pending(d, ks, Before(d) + k)

Turns ==
  /\ pc = "select" => todo = <<>>
  /\ pc = "fetch" => \A i \in DOMAIN todo : todo[i].to = "request"

Uncut(d) == Writable(d) /\ "cut" \notin marks[d]
Standing(d) == Uncut(d) => \E k, ms, ks : Stands(d, k, ms, ks)
DInv == QInv /\ Turns /\ \A d \in Direction : Standing(d)

-----------------------------------------------------------------------------
\* The messages given are among those that were said, also when more was said.
LEMMA LogMore ==
  ASSUME NEW d, NEW ms, NEW ks, NEW k \in Nat, NEW l \in Nat, k <= l, Log(d, ms, ks, k)
  PROVE  Log(d, ms, ks, l)
<1>1. ASSUME NEW m, NEW x, Entry(d, m, x, k) PROVE Entry(d, m, x, l)
  <2>1. x \in 1..k => x \in 1..l
    OBVIOUS
  <2>. QED BY <1>1, <2>1 DEF Entry
<1>. QED BY <1>1 DEF Log

\* One message is added to them.
LEMMA LogAppend ==
  ASSUME NEW d, NEW ms, NEW ks, NEW l \in Nat, Log(d, ms, ks, l),
         NEW m \in Sayable(d), NEW x \in Nat, Entry(d, m, x, l), x # 0 => Below(ks, x)
  PROVE  Log(d, Append(ms, m), Append(ks, x), l)
<1>1. ms \in Seq(Sayable(d)) /\ ks \in Seq(Nat) /\ Len(ks) = Len(ms)
  BY DEF Log
<1>2. PICK n \in Nat : n = Len(ms)
  BY <1>1
<1>3. PICK ns, js : ns = Append(ms, m) /\ js = Append(ks, x)
  OBVIOUS
<1>4. ns \in Seq(Sayable(d)) /\ Len(ns) = n + 1 /\ \A i \in 1..(n + 1) : ns[i] = IF i <= n THEN ms[i] ELSE m
  BY <1>1, <1>2, <1>3
<1>5. js \in Seq(Nat) /\ Len(js) = n + 1 /\ \A i \in 1..(n + 1) : js[i] = IF i <= n THEN ks[i] ELSE x
  BY <1>1, <1>2, <1>3
<1>6. ASSUME NEW i \in 1..(n + 1) PROVE Entry(d, ns[i], js[i], l)
  <2>1. CASE i <= n
    <3>1. i \in 1..Len(ms) /\ ns[i] = ms[i] /\ js[i] = ks[i]
      BY <1>2, <1>4, <1>5, <2>1
    <3>. QED BY <3>1 DEF Log
  <2>2. CASE ~(i <= n)
    BY <1>4, <1>5, <2>2
  <2>. QED BY <2>1, <2>2
<1>7. InOrder(js)
  <2>1. DOMAIN js = 1..(n + 1) /\ DOMAIN ks = 1..n
    BY <1>1, <1>2, <1>5
  <2>2. ASSUME NEW i \in 1..(n + 1), NEW j \in 1..(n + 1), i < j, js[i] # 0, js[j] # 0 PROVE js[i] < js[j]
    <3>1. i \in 1..n /\ js[i] = ks[i]
      BY <1>5, <2>2
    <3>2. CASE j <= n
      <4>1. j \in 1..n /\ js[j] = ks[j]
        BY <1>5, <3>2
      <4>2. InOrder(ks)
        BY DEF Log
      <4>. QED BY <2>1, <2>2, <3>1, <4>1, <4>2 DEF InOrder
    <3>3. CASE ~(j <= n)
      <4>1. js[j] = x
        BY <1>5, <3>3
      <4>. QED BY <2>1, <2>2, <3>1, <4>1 DEF Below
    <3>. QED BY <3>2, <3>3
  <2>. QED BY <2>1, <2>2 DEF InOrder
<1>. QED BY <1>3, <1>4, <1>5, <1>6, <1>7 DEF Log

\* The fds that are meant, for each of them.
LEMMA EachMeant ==
  ASSUME NEW d, NEW T, AllTyped(T), NEW ms \in Seq(T)
  PROVE  [i \in DOMAIN ms |-> FdsMeant(d, ms[i])] \in Seq(Seq(Nat)) /\ MeantIn(d, ms) \in Seq(Nat)
<1>1. DOMAIN ms = 1..Len(ms) /\ Len(ms) \in Nat /\ \A i \in 1..Len(ms) : ms[i] \in T
  OBVIOUS
<1>2. \A i \in 1..Len(ms) : FdsMeant(d, ms[i]) \in Seq(Nat)
  BY <1>1, MeantIs DEF AllTyped
<1>3. [i \in DOMAIN ms |-> FdsMeant(d, ms[i])] \in Seq(Seq(Nat))
  BY <1>1, <1>2, IsASeq
<1>. QED BY <1>3, FlatIsSeq DEF MeantIn

\* One more element, as a function.
LEMMA AppendIs ==
  ASSUME NEW S, NEW s \in Seq(S), NEW x \in S, NEW n \in Nat, n = Len(s)
  PROVE  Append(s, x) = [i \in 1..(n + 1) |-> IF i <= n THEN s[i] ELSE x]
<1>1. PICK u : u = Append(s, x)
  OBVIOUS
<1>2. u \in Seq(S) /\ Len(u) = n + 1 /\ \A i \in 1..n : u[i] = s[i]
  BY <1>1, AppendProperties
<1>3. u[n + 1] = x
  BY <1>1, AppendProperties
<1>4. u = [i \in 1..(n + 1) |-> u[i]]
  BY <1>2
<1>5. ASSUME NEW i \in 1..(n + 1) PROVE u[i] = IF i <= n THEN s[i] ELSE x
  BY <1>2, <1>3
<1>. QED BY <1>1, <1>4, <1>5

\* The words and fds of one message come behind those of the others.
LEMMA GivenAppend ==
  ASSUME NEW d, NEW e \in Direction, NEW T, AllTyped(T), NEW ms \in Seq(T), NEW m \in T
  PROVE  /\ WordsIn(e, Append(ms, m)) = WordsIn(e, ms) \o Bytes(e, m)
         /\ MeantIn(d, Append(ms, m)) = MeantIn(d, ms) \o FdsMeant(d, m)
<1>1. PICK n \in Nat : n = Len(ms) /\ DOMAIN ms = 1..n
  OBVIOUS
<1>2. PICK ns : ns = Append(ms, m)
  OBVIOUS
<1>3. DOMAIN ns = 1..(n + 1) /\ \A i \in 1..(n + 1) : ns[i] = IF i <= n THEN ms[i] ELSE m
  BY <1>1, <1>2
<1>4. Typed(m)
  BY DEF AllTyped
<1>5. WordsIn(e, ns) = WordsIn(e, ms) \o Bytes(e, m)
  <2>1. PICK s, x : s = [i \in DOMAIN ms |-> Bytes(e, ms[i])] /\ x = Bytes(e, m)
    OBVIOUS
  <2>2. s \in Seq(Seq(Int)) /\ x \in Seq(Int)
    BY <1>4, <2>1, EachMessage, BytesAre
  <2>3. FlattenSeq(Append(s, x)) = FlattenSeq(s) \o x
    BY <2>2, FlatAppend
  <2>4. [i \in DOMAIN ns |-> Bytes(e, ns[i])] = Append(s, x)
    <3>1. Len(s) = n /\ \A i \in 1..n : s[i] = Bytes(e, ms[i])
      BY <1>1, <2>1, <2>2
    <3>2. PICK t, u : t = [i \in DOMAIN ns |-> Bytes(e, ns[i])] /\ u = Append(s, x)
      OBVIOUS
    <3>3. t = [i \in 1..(n + 1) |-> Bytes(e, ns[i])]
      BY <1>3, <3>2
    <3>4. u = [i \in 1..(n + 1) |-> IF i <= n THEN s[i] ELSE x]
      BY <2>2, <3>1, <3>2, AppendIs
    <3>5. \A i \in 1..(n + 1) : Bytes(e, ns[i]) = IF i <= n THEN s[i] ELSE x
      <4>1. ASSUME NEW i \in 1..(n + 1) PROVE Bytes(e, ns[i]) = IF i <= n THEN s[i] ELSE x
        BY <1>3, <2>1, <3>1
      <4>. QED BY <4>1
    <3>. QED BY <3>2, <3>3, <3>4, <3>5
  <2>. QED BY <2>1, <2>3, <2>4 DEF WordsIn
<1>6. MeantIn(d, ns) = MeantIn(d, ms) \o FdsMeant(d, m)
  <2>1. PICK s, x : s = [i \in DOMAIN ms |-> FdsMeant(d, ms[i])] /\ x = FdsMeant(d, m)
    OBVIOUS
  <2>2. s \in Seq(Seq(Nat)) /\ x \in Seq(Nat)
    BY <1>4, <2>1, EachMeant, MeantIs
  <2>3. FlattenSeq(Append(s, x)) = FlattenSeq(s) \o x
    BY <2>2, FlatAppend
  <2>4. [i \in DOMAIN ns |-> FdsMeant(d, ns[i])] = Append(s, x)
    <3>1. Len(s) = n /\ \A i \in 1..n : s[i] = FdsMeant(d, ms[i])
      BY <1>1, <2>1, <2>2
    <3>2. PICK t, u : t = [i \in DOMAIN ns |-> FdsMeant(d, ns[i])] /\ u = Append(s, x)
      OBVIOUS
    <3>3. t = [i \in 1..(n + 1) |-> FdsMeant(d, ns[i])]
      BY <1>3, <3>2
    <3>4. u = [i \in 1..(n + 1) |-> IF i <= n THEN s[i] ELSE x]
      BY <2>2, <3>1, <3>2, AppendIs
    <3>5. \A i \in 1..(n + 1) : FdsMeant(d, ns[i]) = IF i <= n THEN s[i] ELSE x
      <4>1. ASSUME NEW i \in 1..(n + 1) PROVE FdsMeant(d, ns[i]) = IF i <= n THEN s[i] ELSE x
        BY <1>3, <2>1, <3>1
      <4>. QED BY <4>1
    <3>. QED BY <3>2, <3>3, <3>4, <3>5
  <2>. QED BY <2>1, <2>3, <2>4 DEF MeantIn
<1>. QED BY <1>2, <1>5, <1>6

\* What has been written of outs to d, and the fds that went with it.
Part(d, outs) == IF outs # <<>> /\ outs[1].to = d THEN SubSeq(outs[1].words, 1, outs[1].done) ELSE <<>>
PartFds(d, outs) == IF outs # <<>> /\ outs[1].to = d /\ outs[1].done > 0 THEN outs[1].fds ELSE <<>>
IdleOf(d, outs) == outs = <<>> \/ outs[1].to # d \/ outs[1].done = 0

LEMMA IdleIs ==
  ASSUME NEW d, NEW outs, IdleOf(d, outs)
  PROVE  Part(d, outs) = <<>> /\ PartFds(d, outs) = <<>>
<1>1. \A s : SubSeq(s, 1, 0) = <<>>
  BY SubSeqEmpty
<1>. QED BY <1>1 DEF IdleOf, Part, PartFds

\* What shows later stays marked.
Marked(d) == marks[d] \cap {"stray", "tee", "cut"} \subseteq marks'[d]

LEMMA MarkedIs ==
  ASSUME NEW d, Marked(d), up' => up
  PROVE  (Clean(d)' => Clean(d)) /\ (Uncut(d)' => Uncut(d))
BY DEF Marked, Clean, Uncut, Writable

\* The same messages were given, and those of the first k that are not yet
\* written may be others.
LEMMA StandsOn ==
  ASSUME NEW d, NEW k, NEW ms, NEW ks, Stands(d, k, ms, ks), UNCHANGED <<scenario, generation>>,
         Setting, d \in Direction, got'[d] = got[d], Clean(d)' => Clean(d),
         BeingWritten(d)' = BeingWritten(d), FdsBegun(d)' = FdsBegun(d),
         NEW l \in Nat, k <= l, Upcoming(d, l)', Pending(d, ks, Before(d) + l)'
  PROVE  Stands(d, l, ms, ks)'
<1>1. k \in Nat /\ Log(d, ms, ks, Before(d) + k) /\ Given(d, ms)
  BY DEF Stands
<1>2. Before(d) + k \in Nat /\ Before(d) + l \in Nat /\ Before(d) + k <= Before(d) + l
  BY <1>1, SaidIs
<1>3. Log(d, ms, ks, Before(d) + l)
  <2>1. PICK a, b \in Nat : a = Before(d) + k /\ b = Before(d) + l /\ a <= b
    BY <1>2
  <2>2. Log(d, ms, ks, b)
    BY <1>1, <2>1, LogMore
  <2>. QED BY <2>1, <2>2
<1>4. /\ Played' = Played /\ OwnMessages' = OwnMessages
      /\ Said(d)' = Said(d) /\ Before(d)' = Before(d) /\ Sayable(d)' = Sayable(d)
  BY SaidKept
<1>5. Log(d, ms, ks, Before(d) + l)'
  BY <1>3, <1>4 DEF Log, Entry, IsOwn, IsSaid
<1>6. Given(d, ms)'
  BY <1>1 DEF Given
<1>. QED BY <1>5, <1>6 DEF Stands

\* What is still to be written stays that.
LEMMA PendingSame ==
  ASSUME NEW d, NEW ks, NEW l, Pending(d, ks, l), UNCHANGED <<scenario, generation, todo>>, Clean(d)' => Clean(d)
  PROVE  Pending(d, ks, l)'
<1>1. OwnMessages' = OwnMessages /\ Said(d)' = Said(d)
  BY SaidKept
<1>2. \A out : (OwnOut(d, out) => OwnOut(d, out)') /\ (SaidOut(d, l, out) => SaidOut(d, l, out)')
  BY <1>1 DEF OwnOut, SaidOut, IsOwn, IsSaid
<1>. QED BY <1>2 DEF Pending

\* The steps that do not write.
LEMMA QuietStanding ==
  ASSUME Setting, NEW d \in Direction, Standing(d), UNCHANGED <<scenario, generation, got, todo>>,
         up' => up, Marked(d), \A k : Upcoming(d, k) => Upcoming(d, k)'
  PROVE  Standing(d)'
<1>1. SUFFICES ASSUME Uncut(d)' PROVE \E k, ms, ks : Stands(d, k, ms, ks)'
  BY DEF Standing
<1>2. (Clean(d)' => Clean(d)) /\ Uncut(d)
  BY <1>1, MarkedIs
<1>3. PICK k, ms, ks : Stands(d, k, ms, ks)
  BY <1>2 DEF Standing
<1>4. k \in Nat /\ Upcoming(d, k)' /\ Pending(d, ks, Before(d) + k)
  BY <1>3 DEF Stands
<1>5. Pending(d, ks, Before(d) + k)'
  <2>1. Before(d)' = Before(d)
    BY SaidKept
  <2>2. PICK x : x = Before(d) + k
    OBVIOUS
  <2>3. Pending(d, ks, x)'
    BY <1>2, <1>4, <2>2, PendingSame
  <2>. QED BY <2>1, <2>2, <2>3
<1>6. BeingWritten(d)' = BeingWritten(d) /\ FdsBegun(d)' = FdsBegun(d)
  BY DEF BeingWritten, FdsBegun
<1>7. k <= k
  BY <1>4
<1>8. Stands(d, k, ms, ks)'
  BY <1>2, <1>3, <1>4, <1>5, <1>6, <1>7, StandsOn
<1>. QED BY <1>8

\* All but the first of what is to be written.
LEMMA PendingTail ==
  ASSUME NEW d, NEW ks, NEW l, Pending(d, ks, l), Outgoing, todo # <<>>, todo' = Tail(todo),
         UNCHANGED <<scenario, generation>>, Clean(d)' => Clean(d)
  PROVE  Pending(d, ks, l)' /\ \A e : IdleOf(e, todo')
<1>1. todo \in Seq(Output) /\ \A i \in DOMAIN todo : Begun(todo[i], i)
  BY DEF Outgoing
<1>2. PICK n \in Nat : n = Len(todo) /\ n >= 1
  BY <1>1
<1>3. PICK t : t = Tail(todo)
  OBVIOUS
<1>4. Len(t) = n - 1 /\ DOMAIN t = 1..(n - 1) /\ \A i \in 1..(n - 1) : t[i] = todo[i + 1]
  BY <1>1, <1>2, <1>3
<1>5. OwnMessages' = OwnMessages /\ Said(d)' = Said(d)
  BY SaidKept
<1>6. \A out : (OwnOut(d, out) => OwnOut(d, out)') /\ (SaidOut(d, l, out) => SaidOut(d, l, out)')
  BY <1>5 DEF OwnOut, SaidOut, IsOwn, IsSaid
<1>7. ASSUME NEW i \in 1..(n - 1), t[i].to = d
      PROVE  OwnOut(d, t[i])' \/ (i = n - 1 /\ SaidOut(d, l, t[i])' /\ Below(ks, l))
  <2>1. i + 1 \in DOMAIN todo /\ (i + 1 = Len(todo) <=> i = n - 1)
    BY <1>1, <1>2
  <2>2. PICK out : out = t[i] /\ out = todo[i + 1]
    BY <1>4
  <2>3. OwnOut(d, out) \/ (i + 1 = Len(todo) /\ SaidOut(d, l, out) /\ Below(ks, l))
    BY <1>7, <2>1, <2>2 DEF Pending
  <2>. QED BY <1>6, <2>1, <2>2, <2>3
<1>8. Pending(d, ks, l)'
  BY <1>3, <1>4, <1>7 DEF Pending
<1>9. t # <<>> => t[1].done = 0
  <2>1. SUFFICES ASSUME t # <<>> PROVE t[1].done = 0
    OBVIOUS
  <2>2. n - 1 >= 1
    BY <1>1, <1>2, <1>3, <1>4, <2>1
  <2>3. t[1] = todo[2] /\ 2 \in DOMAIN todo
    BY <1>1, <1>2, <1>4, <2>2
  <2>. QED BY <1>1, <2>3 DEF Begun
<1>. QED BY <1>3, <1>8, <1>9 DEF IdleOf

\* The steps that give up what was to be written, while nothing is half written.
LEMMA GivenUpStanding ==
  ASSUME QInv, NEW d \in Direction, Standing(d), UNCHANGED <<scenario, generation, sent, wire, read_buf, got>>,
         up' => up, Marked(d), Uncut(d)' => IdleOf(d, todo),
         todo' = <<>> \/ (todo # <<>> /\ todo' = Tail(todo))
  PROVE  Standing(d)'
<1>1. SUFFICES ASSUME Uncut(d)' PROVE \E k, ms, ks : Stands(d, k, ms, ks)'
  BY DEF Standing
<1>2. (Clean(d)' => Clean(d)) /\ Uncut(d)
  BY <1>1, MarkedIs
<1>3. PICK k, ms, ks : Stands(d, k, ms, ks)
  BY <1>2 DEF Standing
<1>4. k \in Nat /\ Upcoming(d, k) /\ Pending(d, ks, Before(d) + k) /\ k <= k
  BY <1>3 DEF Stands
<1>5. Upcoming(d, k)'
  BY <1>4, UpcomingKept
<1>6. PICK x : x = Before(d) + k
  OBVIOUS
<1>7. Pending(d, ks, x)' /\ IdleOf(d, todo')
  <2>1. CASE todo' = <<>>
    <3>1. DOMAIN todo' = {}
      BY <2>1
    <3>. QED BY <2>1, <3>1 DEF Pending, IdleOf
  <2>2. CASE todo # <<>> /\ todo' = Tail(todo)
    BY <1>2, <1>4, <1>6, <2>2, PendingTail DEF QInv
  <2>. QED BY <2>1, <2>2
<1>8. Pending(d, ks, Before(d) + k)'
  <2>1. Before(d)' = Before(d)
    BY SaidKept
  <2>. QED BY <1>6, <1>7, <2>1
<1>9. BeingWritten(d)' = BeingWritten(d) /\ FdsBegun(d)' = FdsBegun(d)
  <2>1. IdleOf(d, todo) /\ IdleOf(d, todo')
    BY <1>1, <1>7
  <2>2. Part(d, todo) = <<>> /\ PartFds(d, todo) = <<>> /\ Part(d, todo') = <<>> /\ PartFds(d, todo') = <<>>
    BY <2>1, IdleIs
  <2>3. BeingWritten(d) = Part(d, todo) /\ FdsBegun(d) = PartFds(d, todo)
    BY DEF BeingWritten, FdsBegun, Part, PartFds
  <2>4. BeingWritten(d)' = Part(d, todo') /\ FdsBegun(d)' = PartFds(d, todo')
    BY DEF BeingWritten, FdsBegun, Part, PartFds
  <2>. QED BY <2>2, <2>3, <2>4
<1>10. Stands(d, k, ms, ks)'
  BY <1>2, <1>3, <1>4, <1>5, <1>8, <1>9, StandsOn DEF QInv
<1>. QED BY <1>10

\* To write: requests of the proxy's own, and message m that was taken from d.
Relays(d, m, out, clean) ==
  out.to = d /\ out.words = Bytes(Other(d), m) /\ (clean => out.fds = FdsMeant(d, m))
Goes(d, m, outs, clean) ==
  \A i \in DOMAIN outs :
    outs[i].done = 0 /\ (OwnOut(outs[i].to, outs[i]) \/ (i = Len(outs) /\ Relays(d, m, outs[i], clean)))

\* What was given was said before what is to be given.
LEMMA LogBelow ==
  ASSUME NEW d, NEW ms, NEW ks, NEW l \in Nat, Log(d, ms, ks, l)
  PROVE  Below(ks, l + 1)
<1>1. ks \in Seq(Nat) /\ Len(ks) = Len(ms) /\ \A i \in 1..Len(ms) : Entry(d, ms[i], ks[i], l)
  BY DEF Log
<1>2. ASSUME NEW j \in DOMAIN ks PROVE ks[j] < l + 1
  <2>1. j \in 1..Len(ms)
    BY <1>1
  <2>2. ks[j] = 0 \/ ks[j] \in 1..l
    BY <1>1, <2>1 DEF Entry
  <2>. QED BY <2>2
<1>. QED BY <1>2 DEF Below

\* A message is taken, and is written next, behind some of the proxy's own, or not at all.
LEMMA TakenStanding ==
  ASSUME QInv, todo = <<>>, NEW e \in Direction, Complete(e), NEW m, IsNext(e, m), Drain(e),
         UNCHANGED <<scenario, generation, sent, wire, got, up>>,
         NEW S, todo' \in Seq(S), Goes(e, m, todo', Clean(e)'),
         NEW d \in Direction, Marked(d), Standing(d)
  PROVE  Standing(d)'
<1>1. SUFFICES ASSUME Uncut(d)' PROVE \E k, ms, ks : Stands(d, k, ms, ks)'
  BY DEF Standing
<1>2. (Clean(d)' => Clean(d)) /\ Uncut(d)
  BY <1>1, MarkedIs
<1>3. PICK k, ms, ks : Stands(d, k, ms, ks)
  BY <1>2 DEF Standing
<1>4. k \in Nat /\ Upcoming(d, k) /\ Log(d, ms, ks, Before(d) + k)
  BY <1>3 DEF Stands
<1>5. BeingWritten(d)' = BeingWritten(d) /\ FdsBegun(d)' = FdsBegun(d)
  <2>1. IdleOf(d, todo')
    <3>1. todo' # <<>> => 1 \in DOMAIN todo'
      OBVIOUS
    <3>. QED BY <3>1 DEF Goes, IdleOf
  <2>2. Part(d, todo') = <<>> /\ PartFds(d, todo') = <<>>
    BY <2>1, IdleIs
  <2>3. BeingWritten(d) = <<>> /\ FdsBegun(d) = <<>>
    BY DEF BeingWritten, FdsBegun
  <2>4. BeingWritten(d)' = Part(d, todo') /\ FdsBegun(d)' = PartFds(d, todo')
    BY DEF BeingWritten, FdsBegun, Part, PartFds
  <2>. QED BY <2>2, <2>3, <2>4
<1>6. /\ OwnMessages' = OwnMessages
      /\ Said(d)' = Said(d) /\ Before(d)' = Before(d) /\ Sayable(d)' = Sayable(d)
  BY SaidKept
<1>7. \A out : OwnOut(d, out) <=> OwnOut(d, out)'
  BY <1>6 DEF OwnOut, IsOwn
<1>8. Setting /\ Queues
  BY DEF QInv
<1>9. CASE d = e
  <2>1. /\ Upcoming(d, k + 1)' /\ k + 1 \in 1..Len(Script(d)) /\ m = Script(d)[k + 1]
    BY <1>4, <1>8, <1>9, UpcomingTaken
  <2>2. PICK x \in Nat : x = Before(d) + k
    BY <1>4, <1>8, SaidIs
  <2>3. Before(d) + (k + 1) = x + 1
    BY <1>4, <1>8, <2>2, SaidIs, SMTT(60)
  <2>4. IsSaid(d, m, x + 1)
    <3>1. Said(d)[Before(d) + (k + 1)] = Script(d)[k + 1] /\ Len(Said(d)) = Before(d) + Len(Script(d))
          /\ Said(d) \in Seq(Spoken(d)) /\ Script(d) \in Seq(Spoken(d)) /\ Before(d) \in Nat
      BY <1>8, <2>1, SaidIs
    <3>2. x + 1 \in 1..Len(Said(d))
      BY <2>1, <2>3, <3>1
    <3>. QED BY <2>1, <2>3, <3>1, <3>2 DEF IsSaid
  <2>5. Below(ks, x + 1)
    BY <1>4, <2>2, LogBelow
  <2>6. Pending(d, ks, x + 1)'
    <3>1. ASSUME NEW i \in DOMAIN todo', todo'[i].to = d
          PROVE  OwnOut(d, todo[i])' \/ (i = Len(todo') /\ SaidOut(d, x + 1, todo[i])' /\ Below(ks, x + 1))
      <4>1. OwnOut(d, todo'[i]) \/ (i = Len(todo') /\ Relays(d, m, todo'[i], Clean(d)'))
        BY <1>9, <3>1 DEF Goes
      <4>2. ASSUME Relays(d, m, todo'[i], Clean(d)') PROVE SaidOut(d, x + 1, todo[i])'
        <5>1. IsSaid(d, m, x + 1)'
          BY <1>6, <2>4 DEF IsSaid
        <5>. QED BY <4>2, <5>1 DEF Relays, SaidOut
      <4>. QED BY <1>7, <2>5, <4>1, <4>2
    <3>. QED BY <3>1 DEF Pending
  <2>7. Pending(d, ks, Before(d) + (k + 1))'
    BY <1>6, <2>3, <2>6
  <2>8. k + 1 \in Nat /\ k <= k + 1
    BY <1>4
  <2>9. Stands(d, k + 1, ms, ks)'
    BY <1>2, <1>3, <1>5, <1>8, <2>1, <2>7, <2>8, StandsOn
  <2>. QED BY <2>9
<1>10. CASE d # e
  <2>1. Upcoming(d, k)'
    <3>1. PICK j : Upcoming(e, j)
      BY DEF IsNext, Heads
    <3>. QED BY <1>4, <1>8, <1>10, <3>1, UpcomingTaken
  <2>2. Pending(d, ks, Before(d) + k)'
    <3>1. ASSUME NEW i \in DOMAIN todo', todo'[i].to = d PROVE OwnOut(d, todo[i])'
      <4>1. OwnOut(d, todo'[i]) \/ Relays(e, m, todo'[i], Clean(e)')
        BY <3>1 DEF Goes
      <4>. QED BY <1>7, <1>10, <3>1, <4>1 DEF Relays
    <3>. QED BY <3>1 DEF Pending
  <2>3. k <= k
    BY <1>4
  <2>4. Stands(d, k, ms, ks)'
    BY <1>2, <1>3, <1>4, <1>5, <1>8, <2>1, <2>2, <2>3, StandsOn
  <2>. QED BY <2>4
<1>. QED BY <1>9, <1>10

-----------------------------------------------------------------------------
\* One write.

\* The words of a message that are written, and those that are written next.
LEMMA PartMore ==
  ASSUME NEW words \in Seq(Int), NEW x \in Nat, NEW n \in Nat, x + n <= Len(words)
  PROVE  /\ SubSeq(words, 1, x) \o SubSeq(words, x + 1, x + n) = SubSeq(words, 1, x + n)
         /\ SubSeq(words, 1, x) \in Seq(Int)
         /\ x + n = Len(words) => SubSeq(words, 1, x + n) = words
<1>1. PICK y : y = x + n /\ y \in 0..Len(words) /\ x \in 0..y
  OBVIOUS
<1>2. PICK u, v, w : u = SubSeq(words, 1, x) /\ v = SubSeq(words, x + 1, y) /\ w = SubSeq(words, 1, y)
  OBVIOUS
<1>3. u \in Seq(Int) /\ Len(u) = x /\ \A i \in 1..x : u[i] = words[i]
  BY <1>1, <1>2
<1>4. v \in Seq(Int) /\ Len(v) = n /\ \A i \in 1..n : v[i] = words[x + i]
  BY <1>1, <1>2
<1>5. w \in Seq(Int) /\ Len(w) = y /\ \A i \in 1..y : w[i] = words[i]
  BY <1>1, <1>2
<1>6. PICK c : c = u \o v
  OBVIOUS
<1>7. c \in Seq(Int) /\ Len(c) = Len(u) + Len(v) /\ \A i \in 1..(Len(u) + Len(v)) : c[i] = IF i <= Len(u) THEN u[i] ELSE v[i - Len(u)]
  BY <1>3, <1>4, <1>6, ConcatProperties
<1>8. ASSUME NEW i \in 1..y PROVE c[i] = w[i]
  <2>1. CASE i <= x
    <3>1. i \in 1..(Len(u) + Len(v)) /\ i <= Len(u) /\ i \in 1..x
      BY <1>1, <1>3, <1>4, <2>1
    <3>2. c[i] = u[i]
      BY <1>7, <3>1
    <3>3. u[i] = words[i] /\ w[i] = words[i]
      BY <1>3, <1>5, <3>1
    <3>. QED BY <3>2, <3>3
  <2>2. CASE ~(i <= x)
    <3>1. i - x \in 1..n /\ x + (i - x) = i
      BY <1>1, <2>2
    <3>2. v[i - x] = words[i]
      BY <1>4, <3>1
    <3>3. i \in 1..(Len(u) + Len(v)) /\ i - Len(u) = i - x /\ ~(i <= Len(u))
      BY <1>1, <1>3, <1>4, <2>2
    <3>4. c[i] = v[i - x]
      BY <1>7, <3>3
    <3>5. w[i] = words[i]
      BY <1>5
    <3>. QED BY <3>2, <3>4, <3>5
  <2>. QED BY <2>1, <2>2
<1>9. c = w
  BY <1>1, <1>3, <1>4, <1>5, <1>7, <1>8, SeqEqual
<1>10. y = Len(words) => w = words
  BY <1>2
<1>. QED BY <1>1, <1>2, <1>3, <1>6, <1>9, <1>10

\* What a receiver has after it: its messages, and all that is written of out.
LEMMA WriteGives ==
  ASSUME Outgoing, NEW out, Writing(out), NEW n, NEW part, NEW fds, NEW p, Writes(out, n, part, fds, p),
         NEW ms, AllTyped(Sayable(out.to)), ms \in Seq(Sayable(out.to)), Given(out.to, ms)
  PROVE  /\ Words(got'[out.to]) = WordsIn(Other(out.to), ms) \o SubSeq(out.words, 1, out.done + n)
         /\ Clean(out.to) => FdsOf(got'[out.to]) = MeantIn(out.to, ms) \o out.fds
<1>1. PICK d, words, x : d = out.to /\ words = out.words /\ x = out.done
  OBVIOUS
<1>2. /\ d \in Direction /\ words \in Seq(Int) /\ x \in Nat /\ out.fds \in Seq(Nat) /\ out = todo[1] /\ todo # <<>>
  BY <1>1 DEF Writing
<1>3. /\ n \in Nat /\ x + n <= Len(words) /\ part = SubSeq(words, x + 1, x + n) /\ part \in Seq(Int)
      /\ fds = fds_for_this_call(out) /\ fds \in Seq(Nat) /\ p \in Seq(Item) /\ Words(p) = part /\ FdsOf(p) = fds
      /\ got' = [got EXCEPT ![d] = @ \o p]
  BY <1>1 DEF Writes
<1>4. PICK g : g = got[d] /\ g \in Seq(Item) /\ got'[d] = g \o p
  BY <1>2, <1>3 DEF Outgoing
<1>5. PICK w, f : w = WordsIn(Other(d), ms) /\ f = MeantIn(d, ms)
  OBVIOUS
<1>6. w \in Seq(Int) /\ f \in Seq(Nat)
  <2>1. Other(d) \in Direction
    BY DEF Other, Direction
  <2>. QED BY <1>1, <1>2, <1>5, <2>1, MessagesAre, EachMeant
<1>7. PICK u : u = SubSeq(words, 1, x)
  OBVIOUS
<1>8. u \in Seq(Int) /\ u \o part = SubSeq(words, 1, x + n)
  <2>1. SubSeq(words, 1, x) \o SubSeq(words, x + 1, x + n) = SubSeq(words, 1, x + n) /\ SubSeq(words, 1, x) \in Seq(Int)
    <3>1. words \in Seq(Int) /\ x \in Nat /\ n \in Nat /\ x + n <= Len(words)
      BY <1>2, <1>3
    <3>. QED BY ONLY <3>1, PartMore
  <2>. QED BY <1>3, <1>7, <2>1
<1>9. Words(g) = w \o u
  <2>1. BeingWritten(d) = u
    BY <1>1, <1>2, <1>7 DEF BeingWritten
  <2>. QED BY <1>1, <1>4, <1>5, <2>1 DEF Given
<1>10. Words(g \o p) = (w \o u) \o part /\ FdsOf(g \o p) = FdsOf(g) \o fds
  BY <1>3, <1>4, <1>9, QueueConcat
<1>11. (w \o u) \o part = w \o (u \o part)
  BY <1>3, <1>6, <1>8, WordsAssociate, Zenon
<1>12. Clean(d) => FdsOf(g \o p) = f \o out.fds
  <2>1. SUFFICES ASSUME Clean(d) PROVE FdsOf(g) \o fds = f \o out.fds
    BY <1>10
  <2>2. FdsOf(g) = f \o FdsBegun(d)
    BY <1>1, <1>4, <1>5, <2>1 DEF Given
  <2>3. CASE x = 0
    <3>1. FdsBegun(d) = <<>> /\ fds = out.fds
      BY <1>1, <1>2, <1>3, <2>3 DEF FdsBegun, fds_for_this_call
    <3>2. f \o <<>> = f
      BY <1>6, ConcatEmptySeq
    <3>. QED BY <2>2, <3>1, <3>2
  <2>4. CASE x # 0
    <3>1. x > 0
      BY <1>2, <2>4
    <3>2. FdsBegun(d) = out.fds /\ fds = <<>>
      BY <1>1, <1>2, <1>3, <2>4, <3>1 DEF FdsBegun, fds_for_this_call
    <3>3. PICK h : h = f \o out.fds
      OBVIOUS
    <3>4. h \in Seq(Nat)
      BY <1>2, <1>6, <3>3, ConcatProperties
    <3>5. h \o <<>> = h
      BY <3>4, ConcatEmptySeq
    <3>. QED BY <2>2, <3>2, <3>3, <3>5
  <2>. QED BY <2>3, <2>4
<1>. QED BY <1>1, <1>4, <1>5, <1>8, <1>10, <1>11, <1>12

\* What is still to be written, apart from how much of it is.
LEMMA PendingWritten ==
  ASSUME NEW d, NEW ks, NEW l, Pending(d, ks, l), Outgoing, NEW out, Writing(out), NEW x,
         todo' = [todo EXCEPT ![1].done = x], UNCHANGED <<scenario, generation>>, Clean(d)' => Clean(d)
  PROVE  Pending(d, ks, l)'
<1>1. todo \in Seq(Output) /\ 1 \in DOMAIN todo
  BY DEF Writing
<1>2. DOMAIN todo' = DOMAIN todo /\ Len(todo') = Len(todo)
  BY <1>1
<1>3. OwnMessages' = OwnMessages /\ Said(d)' = Said(d)
  BY SaidKept
<1>4. ASSUME NEW i \in DOMAIN todo
      PROVE  todo'[i].to = todo[i].to /\ todo'[i].words = todo[i].words /\ todo'[i].fds = todo[i].fds
  <2>1. todo[i] \in Output
    BY <1>1
  <2>2. todo' = [todo EXCEPT ![1] = [todo[1] EXCEPT !.done = x]]
    BY <1>1
  <2>3. CASE i = 1
    <3>1. todo'[i] = [todo[1] EXCEPT !.done = x]
      BY <1>1, <2>2, <2>3
    <3>. QED BY <2>1, <2>3, <3>1 DEF Output
  <2>4. CASE i # 1
    BY <1>1, <2>2, <2>4
  <2>. QED BY <2>3, <2>4
<1>5. ASSUME NEW i \in DOMAIN todo', todo'[i].to = d
      PROVE  OwnOut(d, todo[i])' \/ (i = Len(todo') /\ SaidOut(d, l, todo[i])' /\ Below(ks, l))
  <2>1. i \in DOMAIN todo /\ todo[i].to = d /\ (i = Len(todo') <=> i = Len(todo))
    BY <1>2, <1>4, <1>5
  <2>2. PICK o, q : o = todo[i] /\ q = todo'[i] /\ q.to = o.to /\ q.words = o.words /\ q.fds = o.fds
    BY <1>4, <2>1
  <2>3. OwnOut(d, o) \/ (i = Len(todo) /\ SaidOut(d, l, o) /\ Below(ks, l))
    BY <2>1, <2>2 DEF Pending
  <2>4. OwnOut(d, o) => OwnOut(d, todo[i])'
    BY <1>3, <2>2 DEF OwnOut, IsOwn
  <2>5. SaidOut(d, l, o) => SaidOut(d, l, todo[i])'
    BY <1>3, <2>2 DEF SaidOut, IsSaid
  <2>. QED BY <2>1, <2>3, <2>4, <2>5
<1>. QED BY <1>5 DEF Pending

\* What a direction has, where nothing of it is half written.
LEMMA IdleBegun ==
  ASSUME NEW d, IdleOf(d, todo')
  PROVE  BeingWritten(d)' = <<>> /\ FdsBegun(d)' = <<>>
<1>1. Part(d, todo') = <<>> /\ PartFds(d, todo') = <<>>
  BY IdleIs
<1>2. BeingWritten(d)' = Part(d, todo') /\ FdsBegun(d)' = PartFds(d, todo')
  BY DEF BeingWritten, FdsBegun, Part, PartFds
<1>. QED BY <1>1, <1>2

\* A write to the other side.
LEMMA WriteElsewhere ==
  ASSUME QInv, NEW out, Writing(out), NEW n, NEW part, NEW fds, NEW p, Writes(out, n, part, fds, p),
         UNCHANGED <<scenario, generation, sent, wire, read_buf, marks>>,
         NEW d \in Direction, d # out.to, NEW k, NEW ms, NEW ks, Stands(d, k, ms, ks)
  PROVE  Stands(d, k, ms, ks)'
<1>1. /\ got' = [got EXCEPT ![out.to] = @ \o p] /\ out = todo[1] /\ todo # <<>> /\ out.to \in Direction
      /\ todo' = IF out.done + n = Len(out.words) THEN Tail(todo) ELSE [todo EXCEPT ![1].done = out.done + n]
  BY DEF Writes, Writing
<1>2. Setting /\ Outgoing
  BY DEF QInv
<1>3. got'[d] = got[d]
  BY <1>1, <1>2 DEF Outgoing
<1>4. Clean(d)' => Clean(d)
  BY DEF Clean
<1>5. k \in Nat /\ Upcoming(d, k) /\ Pending(d, ks, Before(d) + k) /\ k <= k
  BY DEF Stands
<1>6. Upcoming(d, k)'
  BY <1>5, UpcomingKept
<1>7. PICK l : l = Before(d) + k
  OBVIOUS
<1>8. Pending(d, ks, l)' /\ IdleOf(d, todo')
  <2>1. CASE out.done + n = Len(out.words)
    BY <1>1, <1>2, <1>4, <1>5, <1>7, <2>1, PendingTail
  <2>2. CASE out.done + n # Len(out.words)
    <3>1. PICK x : x = out.done + n
      OBVIOUS
    <3>2. todo' = [todo EXCEPT ![1].done = x]
      BY <1>1, <2>2, <3>1
    <3>3. Pending(d, ks, l)'
      BY <1>2, <1>4, <1>5, <1>7, <3>2, PendingWritten
    <3>4. todo'[1].to = out.to
      <4>1. todo \in Seq(Output) /\ 1 \in DOMAIN todo
        BY DEF Writing
      <4>2. todo[1] \in Output
        BY <4>1
      <4>. QED BY <1>1, <3>2, <4>1, <4>2 DEF Output
    <3>. QED BY <3>3, <3>4 DEF IdleOf
  <2>. QED BY <2>1, <2>2
<1>9. Pending(d, ks, Before(d) + k)'
  <2>1. Before(d)' = Before(d)
    BY SaidKept
  <2>. QED BY <1>7, <1>8, <2>1
<1>10. BeingWritten(d)' = BeingWritten(d) /\ FdsBegun(d)' = FdsBegun(d)
  <2>1. BeingWritten(d) = <<>> /\ FdsBegun(d) = <<>>
    BY <1>1 DEF BeingWritten, FdsBegun
  <2>. QED BY <1>8, <2>1, IdleBegun
<1>. QED BY <1>2, <1>3, <1>4, <1>5, <1>6, <1>9, <1>10, StandsOn

\* A write that ends within its message.
LEMMA WritePart ==
  ASSUME QInv, NEW out, Writing(out), NEW n, NEW part, NEW fds, NEW p, Writes(out, n, part, fds, p),
         out.done + n # Len(out.words),
         UNCHANGED <<scenario, generation, sent, wire, read_buf, marks>>,
         NEW d, d = out.to, NEW k, NEW ms, NEW ks, Stands(d, k, ms, ks)
  PROVE  Stands(d, k, ms, ks)'
<1>1. PICK x : x = out.done + n
  OBVIOUS
<1>2. Setting /\ Outgoing /\ d \in Direction
  BY DEF QInv, Writing
<1>3. todo' = [todo EXCEPT ![1].done = x]
  BY <1>1 DEF Writes
<1>4. k \in Nat /\ Upcoming(d, k) /\ Log(d, ms, ks, Before(d) + k) /\ Given(d, ms) /\ Pending(d, ks, Before(d) + k)
  BY DEF Stands
<1>5. Upcoming(d, k)'
  BY <1>2, <1>4, UpcomingKept
<1>6. /\ Played' = Played /\ OwnMessages' = OwnMessages
      /\ Said(d)' = Said(d) /\ Before(d)' = Before(d) /\ Sayable(d)' = Sayable(d)
  BY SaidKept
<1>7. (Clean(d)' <=> Clean(d))
  BY DEF Clean
<1>8. Pending(d, ks, Before(d) + k)'
  <2>1. PICK l : l = Before(d) + k
    OBVIOUS
  <2>2. Pending(d, ks, l)'
    BY <1>2, <1>3, <1>4, <1>7, <2>1, PendingWritten
  <2>. QED BY <1>6, <2>1, <2>2
<1>9. Log(d, ms, ks, Before(d) + k)'
  BY <1>4, <1>6 DEF Log, Entry, IsOwn, IsSaid
<1>10. Given(d, ms)'
  <2>1. /\ Words(got'[d]) = WordsIn(Other(d), ms) \o SubSeq(out.words, 1, x)
        /\ Clean(d) => FdsOf(got'[d]) = MeantIn(d, ms) \o out.fds
    BY <1>1, <1>2, <1>4, WriteGives, SayableIs DEF Log
  <2>2. PICK o : o = [out EXCEPT !.done = x]
    OBVIOUS
  <2>3. /\ todo \in Seq(Output) /\ 1 \in DOMAIN todo /\ out = todo[1] /\ out \in Output
    BY DEF Writing
  <2>4. todo' # <<>> /\ todo'[1] = o
    BY <1>3, <2>2, <2>3
  <2>5. o.to = d /\ o.words = out.words /\ o.fds = out.fds /\ o.done = x
    BY <2>2, <2>3 DEF Output
  <2>6. x > 0
    BY <1>1 DEF Writes, Writing
  <2>7. BeingWritten(d)' = SubSeq(out.words, 1, x) /\ FdsBegun(d)' = out.fds
    BY <2>4, <2>5, <2>6 DEF BeingWritten, FdsBegun
  <2>. QED BY <1>7, <2>1, <2>7 DEF Given
<1>. QED BY <1>4, <1>5, <1>8, <1>9, <1>10 DEF Stands

\* A write that ends its message m, which is x of what was said, or 0.
LEMMA WriteWhole ==
  ASSUME QInv, NEW out, Writing(out), NEW n, NEW part, NEW fds, NEW p, Writes(out, n, part, fds, p),
         out.done + n = Len(out.words),
         UNCHANGED <<scenario, generation, sent, wire, read_buf, marks>>,
         NEW d, d = out.to, NEW k, NEW ms, NEW ks, Stands(d, k, ms, ks),
         NEW m \in Sayable(d), out.words = Bytes(Other(d), m), Clean(d) => out.fds = FdsMeant(d, m),
         NEW x \in Nat, Entry(d, m, x, Before(d) + k), x # 0 => Below(ks, x),
         Pending(d, Append(ks, x), Before(d) + k)'
  PROVE  Stands(d, k, Append(ms, m), Append(ks, x))'
<1>1. Setting /\ Outgoing /\ d \in Direction /\ todo # <<>>
  BY DEF QInv, Writing
<1>2. k \in Nat /\ Upcoming(d, k) /\ Log(d, ms, ks, Before(d) + k) /\ Given(d, ms) /\ Pending(d, ks, Before(d) + k)
  BY DEF Stands
<1>3. Upcoming(d, k)'
  BY <1>1, <1>2, UpcomingKept
<1>4. /\ Played' = Played /\ OwnMessages' = OwnMessages
      /\ Said(d)' = Said(d) /\ Before(d)' = Before(d) /\ Sayable(d)' = Sayable(d)
  BY SaidKept
<1>5. (Clean(d)' <=> Clean(d))
  BY DEF Clean
<1>6. PICK l \in Nat : l = Before(d) + k
  BY <1>1, <1>2, SaidIs
<1>7. Log(d, Append(ms, m), Append(ks, x), l)
  BY <1>2, <1>6, LogAppend
<1>8. Log(d, Append(ms, m), Append(ks, x), Before(d) + k)'
  BY <1>4, <1>6, <1>7 DEF Log, Entry, IsOwn, IsSaid
<1>9. Given(d, Append(ms, m))'
  <2>1. AllTyped(Sayable(d)) /\ Other(d) \in Direction /\ ms \in Seq(Sayable(d))
    BY <1>1, <1>2, SayableIs DEF Log
  <2>2. /\ Words(got'[d]) = WordsIn(Other(d), ms) \o SubSeq(out.words, 1, out.done + n)
        /\ Clean(d) => FdsOf(got'[d]) = MeantIn(d, ms) \o out.fds
    BY <1>1, <1>2, <2>1, WriteGives
  <2>3. SubSeq(out.words, 1, out.done + n) = out.words
    BY DEF Writing
  <2>4. /\ WordsIn(Other(d), Append(ms, m)) = WordsIn(Other(d), ms) \o Bytes(Other(d), m)
        /\ MeantIn(d, Append(ms, m)) = MeantIn(d, ms) \o FdsMeant(d, m)
    <3>1. PICK e, T : e = Other(d) /\ T = Sayable(d)
      OBVIOUS
    <3>2. e \in Direction /\ AllTyped(T) /\ ms \in Seq(T) /\ m \in T
      BY <2>1, <3>1
    <3>3. /\ WordsIn(e, Append(ms, m)) = WordsIn(e, ms) \o Bytes(e, m)
          /\ MeantIn(d, Append(ms, m)) = MeantIn(d, ms) \o FdsMeant(d, m)
      BY ONLY <3>2, GivenAppend
    <3>. QED BY <3>1, <3>3
  <2>5. BeingWritten(d)' = <<>> /\ FdsBegun(d)' = <<>>
    <3>1. todo' = Tail(todo)
      BY DEF Writes
    <3>2. IdleOf(d, todo')
      BY <1>1, <1>2, <1>5, <1>6, <3>1, PendingTail
    <3>. QED BY <3>2, IdleBegun
  <2>6. PICK ns : ns = Append(ms, m)
    OBVIOUS
  <2>7. ns \in Seq(Sayable(d))
    BY <2>1, <2>6, AppendProperties
  <2>8. PICK w, f : w = WordsIn(Other(d), ns) /\ f = MeantIn(d, ns)
    OBVIOUS
  <2>9. w \in Seq(Int) /\ f \in Seq(Nat)
    BY <2>1, <2>7, <2>8, MessagesAre, EachMeant
  <2>10. w \o <<>> = w /\ f \o <<>> = f
    BY <2>9, ConcatEmptySeq
  <2>11. Words(got'[d]) = w /\ (Clean(d) => FdsOf(got'[d]) = f)
    BY <2>2, <2>3, <2>4, <2>6, <2>8
  <2>12. Words(got'[d]) = WordsIn(Other(d), ns) \o BeingWritten(d)'
    BY <2>5, <2>8, <2>10, <2>11
  <2>13. Clean(d)' => FdsOf(got'[d]) = MeantIn(d, ns) \o FdsBegun(d)'
    BY <1>5, <2>5, <2>8, <2>10, <2>11
  <2>. QED BY <2>6, <2>12, <2>13 DEF Given
<1>. QED BY <1>2, <1>3, <1>8, <1>9 DEF Stands

\* The proxy's own messages are said, and bring no fds.
LEMMA OwnIs ==
  ASSUME Setting, NEW d \in Direction, NEW m, IsOwn(d, m)
  PROVE  m \in Sayable(d) /\ FdsMeant(d, m) = <<>>
<1>1. scenario \in DOMAIN Scenarios /\ m \in OwnMessages /\ d = "request"
  BY DEF Setting, IsOwn
<1>2. Fds(m.values) = <<>>
  BY <1>1, ScenarioIs
<1>. QED BY <1>1, <1>2, NoneMeant DEF Sayable

\* Whatever a write ends, the messages given are those that were said.
LEMMA WriteEnds ==
  ASSUME QInv, NEW out, Writing(out), NEW n, NEW part, NEW fds, NEW p, Writes(out, n, part, fds, p),
         out.done + n = Len(out.words),
         UNCHANGED <<scenario, generation, sent, wire, read_buf, marks>>,
         NEW d, d = out.to, NEW k, NEW ms, NEW ks, Stands(d, k, ms, ks)
  PROVE  \E js, ns : Stands(d, k, js, ns)'
<1>1. /\ Setting /\ Outgoing /\ d \in Direction /\ todo # <<>> /\ todo' = Tail(todo) /\ todo \in Seq(Output)
      /\ out = todo[1] /\ 1 \in DOMAIN todo
  BY DEF QInv, Writing, Writes
<1>2. k \in Nat /\ Log(d, ms, ks, Before(d) + k) /\ Pending(d, ks, Before(d) + k)
  BY DEF Stands
<1>3. PICK l \in Nat : l = Before(d) + k
  BY <1>1, <1>2, SaidIs
<1>4. Before(d)' = Before(d)
  BY SaidKept
<1>5. Said(d) \in Seq(Spoken(d)) /\ Spoken(d) \subseteq Sayable(d)
  BY <1>1, SaidIs, SayableIs
<1>6. Pending(d, ks, l)'
  <2>1. Clean(d)' => Clean(d)
    BY DEF Clean
  <2>. QED BY <1>1, <1>2, <1>3, <2>1, PendingTail
<1>7. ks \in Seq(Nat)
  BY <1>2 DEF Log
<1>8. OwnOut(d, out) \/ (1 = Len(todo) /\ SaidOut(d, l, out) /\ Below(ks, l))
  BY <1>1, <1>2, <1>3 DEF Pending
<1>9. CASE OwnOut(d, out)
  <2>1. PICK m : IsOwn(d, m) /\ out.words = Bytes(Other(d), m) /\ out.fds = <<>>
    BY <1>9 DEF OwnOut
  <2>2. m \in Sayable(d) /\ out.fds = FdsMeant(d, m)
    BY <1>1, <2>1, OwnIs
  <2>3. PICK x \in Nat : x = 0
    OBVIOUS
  <2>4. Entry(d, m, x, Before(d) + k) /\ (x # 0 => Below(ks, x))
    BY <2>1, <2>3 DEF Entry
  <2>5. ASSUME Below(ks, l), l >= 1 PROVE Below(Append(ks, x), l)
    <3>1. PICK j \in Nat : j = Len(ks)
      BY <1>7
    <3>2. DOMAIN Append(ks, x) = 1..(j + 1) /\ \A i \in 1..(j + 1) : Append(ks, x)[i] = IF i <= j THEN ks[i] ELSE x
      BY <1>7, <3>1, AppendIs
    <3>3. DOMAIN ks = 1..j
      BY <1>7, <3>1
    <3>4. ASSUME NEW i \in 1..(j + 1) PROVE Append(ks, x)[i] < l
      <4>1. CASE i <= j
        BY <2>5, <3>2, <3>3, <4>1 DEF Below
      <4>2. CASE ~(i <= j)
        BY <2>3, <2>5, <3>2, <4>2
      <4>. QED BY <4>1, <4>2
    <3>. QED BY <3>2, <3>4 DEF Below
  <2>6. Pending(d, Append(ks, x), l)'
    <3>1. \A o : SaidOut(d, l, o)' => l >= 1
      <4>1. Said(d)' = Said(d)
        BY SaidKept
      <4>. QED BY <1>5, <4>1 DEF SaidOut, IsSaid
    <3>2. ASSUME NEW i \in DOMAIN todo', todo'[i].to = d
          PROVE  OwnOut(d, todo[i])' \/ (i = Len(todo') /\ SaidOut(d, l, todo[i])' /\ Below(Append(ks, x), l))
      <4>1. OwnOut(d, todo[i])' \/ (i = Len(todo') /\ SaidOut(d, l, todo[i])' /\ Below(ks, l))
        BY <1>6, <3>2 DEF Pending
      <4>. QED BY <2>5, <3>1, <4>1
    <3>. QED BY <3>2 DEF Pending
  <2>7. Pending(d, Append(ks, x), Before(d) + k)'
    BY <1>3, <1>4, <2>6
  <2>8. Stands(d, k, Append(ms, m), Append(ks, x))'
    BY <2>1, <2>2, <2>4, <2>7, WriteWhole
  <2>. QED BY <2>8
<1>10. CASE 1 = Len(todo) /\ SaidOut(d, l, out) /\ Below(ks, l)
  <2>1. PICK m : IsSaid(d, m, l) /\ out.words = Bytes(Other(d), m) /\ (Clean(d) => out.fds = FdsMeant(d, m))
    BY <1>10 DEF SaidOut
  <2>2. m \in Sayable(d) /\ l \in 1..Len(Said(d))
    BY <1>5, <2>1 DEF IsSaid
  <2>3. Entry(d, m, l, Before(d) + k)
    <3>1. l \in 1..l
      BY <2>2
    <3>. QED BY <1>3, <2>1, <3>1 DEF Entry
  <2>4. Pending(d, Append(ks, l), Before(d) + k)'
    <3>1. todo' = <<>>
      BY <1>1, <1>10
    <3>2. DOMAIN todo' = {}
      BY <3>1
    <3>. QED BY <3>2 DEF Pending
  <2>5. Stands(d, k, Append(ms, m), Append(ks, l))'
    BY <1>10, <2>1, <2>2, <2>3, <2>4, WriteWhole
  <2>. QED BY <2>5
<1>. QED BY <1>8, <1>9, <1>10

\* write_message.
LEMMA WriteStanding ==
  ASSUME QInv, WriteSome, NEW d \in Direction, Standing(d)
  PROVE  Standing(d)'
<1>1. SUFFICES ASSUME Uncut(d)' PROVE \E k, ms, ks : Stands(d, k, ms, ks)'
  BY DEF Standing
<1>2. todo # <<>> /\ UNCHANGED <<scenario, up, generation, sent, wire, read_buf, marks>>
  BY DEF WriteSome
<1>3. Uncut(d)
  BY <1>1, <1>2 DEF Uncut, Writable
<1>4. PICK k, ms, ks : Stands(d, k, ms, ks)
  BY <1>3 DEF Standing
<1>5. PICK out : out = todo[1]
  OBVIOUS
<1>6. Writing(out)
  BY <1>2, <1>5, WritingIs DEF QInv
<1>7. PICK n, part, fds, p : Writes(out, n, part, fds, p)
  BY <1>5, WritesIs DEF QInv
<1>8. CASE d # out.to
  BY <1>2, <1>4, <1>6, <1>7, <1>8, WriteElsewhere
<1>9. CASE d = out.to /\ out.done + n # Len(out.words)
  BY <1>2, <1>4, <1>6, <1>7, <1>9, WritePart
<1>10. CASE d = out.to /\ out.done + n = Len(out.words)
  <2>1. \E js, ns : Stands(d, k, js, ns)'
    BY <1>2, <1>4, <1>6, <1>7, <1>10, WriteEnds
  <2>. QED BY <2>1
<1>. QED BY <1>8, <1>9, <1>10

-----------------------------------------------------------------------------
\* What is to be written next.

\* Requests of the proxy's own.
AllOwn(outs) == \A i \in DOMAIN outs : outs[i].done = 0 /\ outs[i].to = "request" /\ OwnOut("request", outs[i])

LEMMA OwnAll ==
  ASSUME Setting, NEW ms \in Seq(OwnMessages)
  PROVE  AllOwn(Own(ms)) /\ Own(ms) \in Seq(Output)
<1>1. ASSUME NEW i \in DOMAIN ms PROVE IsOwn("request", ms[i]) /\ Fds(ms[i].values) = <<>>
  <2>1. ms[i] \in OwnMessages /\ scenario \in DOMAIN Scenarios
    BY DEF Setting
  <2>. QED BY <2>1, ScenarioIs DEF IsOwn
<1>2. Other("request") = "event"
  BY DEF Other
<1>3. AllOwn(Own(ms))
  BY <1>1, <1>2 DEF AllOwn, Own, Out, OwnOut
<1>. QED BY <1>3, FreshOwn DEF Fresh

LEMMA NothingGoes ==
  ASSUME NEW d, NEW m, NEW clean
  PROVE  Goes(d, m, <<>>, clean) /\ AllOwn(<<>>) /\ <<>> \in Seq({})
BY EmptySeq DEF Goes, AllOwn

\* They go first.
LEMMA GoesBehind ==
  ASSUME NEW d, NEW m, NEW clean, NEW T, NEW x \in Seq(T), NEW y \in Seq(T), AllOwn(x), Goes(d, m, y, clean)
  PROVE  Goes(d, m, x \o y, clean)
<1>1. PICK a, b \in Nat : a = Len(x) /\ b = Len(y)
  OBVIOUS
<1>2. PICK z : z = x \o y
  OBVIOUS
<1>3. z \in Seq(T) /\ Len(z) = a + b /\ \A i \in 1..(a + b) : z[i] = IF i <= a THEN x[i] ELSE y[i - a]
  <2>1. /\ x \o y \in Seq(T) /\ Len(x \o y) = Len(x) + Len(y)
        /\ \A i \in 1..Len(x) + Len(y) : (x \o y)[i] = IF i <= Len(x) THEN x[i] ELSE y[i - Len(x)]
    BY ConcatProperties
  <2>. QED BY <1>1, <1>2, <2>1
<1>4. DOMAIN x = 1..a /\ DOMAIN y = 1..b /\ DOMAIN z = 1..(a + b)
  BY <1>1, <1>3
<1>5. ASSUME NEW i \in 1..(a + b)
      PROVE  z[i].done = 0 /\ (OwnOut(z[i].to, z[i]) \/ (i = a + b /\ Relays(d, m, z[i], clean)))
  <2>1. CASE i <= a
    <3>1. i \in 1..a /\ z[i] = x[i]
      BY <1>3, <2>1
    <3>. QED BY <1>4, <3>1 DEF AllOwn
  <2>2. CASE ~(i <= a)
    <3>1. PICK j : j = i - a /\ j \in 1..b /\ z[i] = y[j] /\ (j = b <=> i = a + b)
      BY <1>3, <2>2
    <3>2. y[j].done = 0 /\ (OwnOut(y[j].to, y[j]) \/ (j = b /\ Relays(d, m, y[j], clean)))
      BY <1>1, <1>4, <3>1 DEF Goes
    <3>. QED BY <3>1, <3>2
  <2>. QED BY <2>1, <2>2
<1>. QED BY <1>2, <1>3, <1>4, <1>5 DEF Goes

LEMMA OwnGoes ==
  ASSUME NEW d, NEW m, NEW clean, NEW x, AllOwn(x)
  PROVE  Goes(d, m, x, clean)
BY DEF AllOwn, Goes

LEMMA OneGoes ==
  ASSUME NEW d, NEW m, NEW clean, NEW words, NEW fds, NEW id, words = Bytes(Other(d), m), clean => fds = FdsMeant(d, m)
  PROVE  Goes(d, m, <<Out(d, words, fds, id)>>, clean)
BY DEF Goes, Relays, Out

\* What is taken unread leaves its mark, if it had fds.
LEMMA UnreadMarked ==
  ASSUME Queues, NEW e \in Direction, Unread(e), NEW m, IsNext(e, m)
  PROVE  /\ \A d \in Direction : Marked(d)
         /\ Clean(e)' => FdsMeant(e, m) = <<>>
<1>1. marks \in [Direction -> SUBSET {"stray", "tee", "cut", "left"}]
  BY DEF Queues
<1>2. PICK signature : signature = Signature[e][Header(e).opcode]
  OBVIOUS
<1>3. marks' = IF "fd" \in ToSet(signature) THEN [marks EXCEPT ![e] = @ \cup {"stray"}] ELSE marks
  BY <1>2 DEF Unread
<1>4. \A d \in Direction : Marked(d)
  BY <1>1, <1>3 DEF Marked
<1>5. ASSUME Clean(e)' PROVE FdsMeant(e, m) = <<>>
  <2>1. "fd" \notin ToSet(signature)
    BY <1>1, <1>3, <1>5 DEF Clean
  <2>2. signature = [i \in DOMAIN m.values |-> m.values[i].type] /\ m.values \in Seq(Argument)
    BY <1>2 DEF IsNext, Declared, Typed
  <2>3. Fds(m.values) = <<>>
    BY <2>1, <2>2, NoFds
  <2>. QED BY <2>3, NoneMeant
<1>. QED BY <1>4, <1>5

\* Drain.
LEMMA DropStanding ==
  ASSUME QInv, todo = <<>>, NEW e \in Direction, Complete(e), DropMessage(e) \/ handle_synthetic_clipboard_event(e),
         UNCHANGED <<scenario, up, generation, sent, got>>, NEW d \in Direction, Standing(d)
  PROVE  Standing(d)'
<1>1. PICK m : IsNext(e, m)
  BY NextIs DEF QInv
<1>2. Drain(e) /\ wire' = wire /\ todo' = <<>> /\ Marked(d)
  <2>1. CASE DropMessage(e)
    BY <1>1, <2>1, UnreadMarked DEF DropMessage, QInv, Unread
  <2>2. CASE handle_synthetic_clipboard_event(e)
    BY <2>2 DEF handle_synthetic_clipboard_event, Marked
  <2>. QED BY <2>1, <2>2
<1>3. PICK S : S = {}
  OBVIOUS
<1>4. todo' \in Seq(S) /\ Goes(e, m, todo', Clean(e)')
  BY <1>2, <1>3, NothingGoes
<1>. QED BY <1>1, <1>2, <1>4, TakenStanding

\* A message that is passed on.
LEMMA PassStanding ==
  ASSUME QInv, todo = <<>>, NEW e \in Direction, Complete(e), PassMessage(e),
         UNCHANGED <<scenario, up, generation, sent, got>>, NEW d \in Direction, Standing(d)
  PROVE  Standing(d)'
<1>1. PICK m : IsNext(e, m)
  BY NextIs DEF QInv
<1>2. Drain(e) /\ wire' = wire /\ Walk(e).ok
  BY DEF PassMessage, Passes, Understood
<1>3. PICK teed \in BOOLEAN :
        /\ marks' = IF teed THEN marks ELSE [marks EXCEPT ![e] = @ \cup {"tee"}]
        /\ todo' = (IF Splices(e) /\ Cached # {} THEN Own(Played.splice) ELSE <<>>) \o
                   (IF e = "request" /\ frozen THEN <<>>
                    ELSE <<Out(e, Rewritten(e), FdsPassed(e, teed), 0)>>)
  BY DEF PassMessage
<1>4. marks \in [Direction -> SUBSET {"stray", "tee", "cut", "left"}] /\ Setting /\ Queues
  BY DEF QInv, Queues
<1>5. Marked(d)
  BY <1>3, <1>4 DEF Marked
<1>6. Clean(e)' => teed = TRUE /\ "stray" \notin marks[e]
  BY <1>3, <1>4 DEF Clean
<1>7. Rewritten(e) = Bytes(Other(e), m)
  BY <1>1, <1>4, NextTranslated
<1>8. Clean(e)' => FdsPassed(e, teed) = FdsMeant(e, m)
  BY <1>1, <1>2, <1>4, <1>6, PassedMeant
<1>9. PICK x : x = IF Splices(e) /\ Cached # {} THEN Own(Played.splice) ELSE <<>>
  OBVIOUS
<1>10. AllOwn(x) /\ x \in Seq(Output)
  <2>1. Played.splice \in Seq(OwnMessages)
    BY <1>4, ScenarioIs DEF Setting
  <2>. QED BY <1>4, <1>9, <2>1, OwnAll, NothingGoes, EmptySeq
<1>11. PICK y : y = IF e = "request" /\ frozen THEN <<>> ELSE <<Out(e, Rewritten(e), FdsPassed(e, teed), 0)>>
  OBVIOUS
<1>12. Goes(e, m, y, Clean(e)')
  BY <1>7, <1>8, <1>11, OneGoes, NothingGoes
<1>13. PICK out : y = <<>> \/ y = <<out>>
  BY <1>11
<1>14. PICK T : T = Output \cup {out}
  OBVIOUS
<1>15. x \in Seq(T) /\ y \in Seq(T)
  <2>1. \A A, B, s : s \in Seq(A) /\ A \subseteq B => s \in Seq(B)
    <3>1. ASSUME NEW A, NEW B, NEW s \in Seq(A), A \subseteq B PROVE s \in Seq(B)
      BY <3>1
    <3>. QED BY <3>1
  <2>2. x \in Seq(T)
    BY <1>10, <1>14, <2>1
  <2>3. <<out>> \in Seq(T) /\ <<>> \in Seq(T)
    BY <1>14
  <2>. QED BY <1>13, <2>2, <2>3
<1>16. todo' = x \o y
  BY <1>3, <1>9, <1>11
<1>17. Goes(e, m, todo', Clean(e)')
  <2>1. Goes(e, m, x \o y, Clean(e)')
    BY <1>10, <1>12, <1>15, GoesBehind
  <2>. QED BY <1>16, <2>1
<1>18. todo' \in Seq(T)
  BY <1>15, <1>16, ConcatProperties
<1>. QED BY <1>1, <1>2, <1>5, <1>17, <1>18, TakenStanding

\* relay_ready_messages.
LEMMA RelayStanding ==
  ASSUME QInv, RelayOne, NEW d \in Direction, Standing(d)
  PROVE  Standing(d)'
<1>1. PICK e \in Direction :
        /\ todo = <<>> /\ Complete(e) /\ UNCHANGED <<scenario, up, generation, sent, got>>
        /\ DropMessage(e) \/ PassMessage(e) \/ handle_synthetic_clipboard_event(e)
  BY DEF RelayOne
<1>. QED BY <1>1, DropStanding, PassStanding

\* What a wait passes on.
LEMMA AwaitedGoes ==
  ASSUME Setting, NEW e \in Direction, NEW m, IsNext(e, m),
         ToSet(Signature[e][Header(e).opcode]) \cap {"object", "new_id"} = {},
         NEW clean, clean => FdsMeant(e, m) = <<>>
  PROVE  Goes(e, m, <<Out(e, <<Translated(e, First(e)[1])>> \o From(First(e), 2), <<>>, 0)>>, clean)
<1>1. PICK words : words = <<Translated(e, First(e)[1])>> \o From(First(e), 2)
  OBVIOUS
<1>2. words = Bytes(Other(e), m)
  BY <1>1, AwaitedTranslated
<1>. QED BY <1>1, <1>2, OneGoes

\* The waits of recovery.
LEMMA WaitStanding ==
  ASSUME QInv, WaitTakes, NEW d \in Direction, Standing(d)
  PROVE  Standing(d)'
<1>1. PICK e, m : e \in Direction /\ e = WaitsFor /\ IsNext(e, m)
  <2>1. WaitsFor \in Direction
    BY DEF WaitsFor, Direction
  <2>. QED BY <2>1, NextIs DEF QInv, WaitTakes
<1>2. PICK relayed : relayed = <<Out(e, <<Translated(e, First(e)[1])>> \o From(First(e), 2), <<>>, 0)>>
  OBVIOUS
<1>3. /\ todo = <<>> /\ Complete(e) /\ UNCHANGED <<scenario, up, generation, sent, got>>
      /\ CASE pc = "fetch" /\ Is(e, ProxyId.sync, Opcode.done) ->
                Unread(e) /\ pc' = "configure" /\ todo' = Own(Played.replay)
           [] pc = "configure" /\ Is(e, ProxyId.toplevel, Opcode.toplevel_configure) ->
                Unread(e) /\ pc' = pc /\ todo' = relayed
           [] pc = "configure" /\ Is(e, ProxyId.surface, Opcode.configure) ->
                Unread(e) /\ pc' = "ack" /\ todo' = relayed
           [] pc = "ack" /\ Is(e, ProxyId.surface, Opcode.ack_configure) ->
                Unread(e) /\ pc' = "acked" /\ todo' = relayed
           [] OTHER -> Unread(e) /\ pc' = pc /\ todo' = <<>>
  BY <1>1, <1>2 DEF WaitTakes, Waits
<1>4. /\ Unread(e)
      /\ \/ todo' = Own(Played.replay) \/ todo' = <<>>
         \/ todo' = relayed /\ pc = "configure" /\ Header(e).opcode \in {Opcode.toplevel_configure, Opcode.configure}
         \/ todo' = relayed /\ pc = "ack" /\ Header(e).opcode = Opcode.ack_configure
  BY <1>3 DEF Is
<1>5. Setting /\ Queues
  BY DEF QInv
<1>6. Drain(e) /\ wire' = wire
  BY <1>4 DEF Unread
<1>7. Marked(d) /\ (Clean(e)' => FdsMeant(e, m) = <<>>)
  BY <1>1, <1>4, <1>5, UnreadMarked
<1>8. \E S : todo' \in Seq(S) /\ Goes(e, m, todo', Clean(e)')
  <2>1. CASE todo' = Own(Played.replay)
    <3>1. Played.replay \in Seq(OwnMessages)
      BY <1>5, ScenarioIs DEF Setting
    <3>. QED BY <1>5, <2>1, <3>1, OwnAll, OwnGoes
  <2>2. CASE todo' = <<>>
    BY <2>2, NothingGoes
  <2>3. ASSUME todo' = relayed, ToSet(Signature[e][Header(e).opcode]) \cap {"object", "new_id"} = {}
        PROVE  \E S : todo' \in Seq(S) /\ Goes(e, m, todo', Clean(e)')
    <3>1. PICK out : out = Out(e, <<Translated(e, First(e)[1])>> \o From(First(e), 2), <<>>, 0)
      OBVIOUS
    <3>2. Goes(e, m, relayed, Clean(e)')
      BY <1>1, <1>2, <1>5, <1>7, <2>3, AwaitedGoes
    <3>3. relayed \in Seq({out})
      BY <1>2, <3>1
    <3>. QED BY <2>3, <3>2, <3>3
  <2>4. CASE todo' = relayed /\ pc = "configure" /\ Header(e).opcode \in {Opcode.toplevel_configure, Opcode.configure}
    <3>1. e = "event"
      BY <1>1, <2>4 DEF WaitsFor
    <3>2. ToSet(Signature[e][Header(e).opcode]) \cap {"object", "new_id"} = {}
      BY <2>4, <3>1, AwaitedAssumption
    <3>. QED BY <2>3, <2>4, <3>2
  <2>5. CASE todo' = relayed /\ pc = "ack" /\ Header(e).opcode = Opcode.ack_configure
    <3>1. e = "request"
      BY <1>1, <2>5 DEF WaitsFor
    <3>2. ToSet(Signature[e][Header(e).opcode]) \cap {"object", "new_id"} = {}
      BY <2>5, <3>1, AwaitedAssumption
    <3>. QED BY <2>3, <2>5, <3>2
  <2>. QED BY <1>4, <2>1, <2>2, <2>4, <2>5
<1>. QED BY <1>1, <1>3, <1>6, <1>7, <1>8, TakenStanding

\* What comes in, and what only changes where the task is.
LEMMA IncomingStanding ==
  ASSUME QInv, NEW d \in Direction, Standing(d),
         \/ \E e \in Direction : PeerFlushes(e) \/ PeerReads(e) \/ SelectFills(e)
         \/ WaitFills \/ Freeze \/ RelayEnds \/ HostDies
  PROVE  Standing(d)'
<1>1. Setting /\ Queues
  BY DEF QInv
<1>2. CASE \E e \in Direction : PeerFlushes(e)
  <2>1. PICK e \in Direction : PeerFlushes(e)
    BY <1>2
  <2>2. UNCHANGED <<scenario, generation, got, todo, up>> /\ Marked(d)
    BY <2>1 DEF PeerFlushes, Marked
  <2>3. \A k : Upcoming(d, k) => Upcoming(d, k)'
    BY <1>1, <2>1, UpcomingFlushed
  <2>. QED BY <1>1, <2>2, <2>3, QuietStanding
<1>3. ASSUME NEW e \in Direction, fill(e), UNCHANGED <<scenario, generation, sent, got, todo, up>>, Marked(d)
      PROVE  Standing(d)'
  <2>1. \A k : Upcoming(d, k) => Upcoming(d, k)'
    BY <1>1, <1>3, UpcomingFilled
  <2>. QED BY <1>1, <1>3, <2>1, QuietStanding
<1>4. CASE \E e \in Direction : SelectFills(e)
  <2>1. PICK e \in Direction : SelectFills(e)
    BY <1>4
  <2>2. Marked(d)
    BY <1>1, <2>1 DEF SelectFills, Marked, Queues
  <2>. QED BY <1>3, <2>1, <2>2 DEF SelectFills
<1>5. CASE WaitFills
  <2>1. WaitsFor \in Direction
    BY DEF WaitsFor, Direction
  <2>2. Marked(d)
    BY <1>5 DEF WaitFills, Marked
  <2>. QED BY <1>3, <1>5, <2>1, <2>2 DEF WaitFills
<1>6. CASE (\E e \in Direction : PeerReads(e)) \/ Freeze \/ RelayEnds \/ HostDies
  <2>1. UNCHANGED <<scenario, generation, sent, got, todo, wire, read_buf, marks>> /\ (up' => up)
    BY <1>6 DEF PeerReads, Freeze, RelayEnds, HostDies, channel
  <2>2. \A k : Upcoming(d, k) => Upcoming(d, k)'
    BY <2>1, UpcomingKept
  <2>3. Marked(d)
    BY <2>1 DEF Marked
  <2>. QED BY <1>1, <2>1, <2>2, <2>3, QuietStanding
<1>. QED BY <1>2, <1>4, <1>5, <1>6

\* A message for a compositor that is gone is given up.
LEMMA FailedIdle ==
  ASSUME NEW d \in Direction, todo # <<>> => ~Writable(todo[1].to), up' = up, Uncut(d)'
  PROVE  IdleOf(d, todo)
BY DEF IdleOf, Uncut, Writable

LEMMA GivingUpStanding ==
  ASSUME QInv, Turns, NEW d \in Direction, Standing(d),
         RelayWriteFails \/ Recovered \/ WaitTimesOut \/ FetchFails \/ ReplayFails
  PROVE  Standing(d)'
<1>1. UNCHANGED <<scenario, generation, sent, wire, read_buf, got, up>>
  BY DEF RelayWriteFails, Recovered, WaitTimesOut, FetchFails, ReplayFails, channel
<1>2. todo' = <<>> \/ (todo # <<>> /\ todo' = Tail(todo))
  BY DEF RelayWriteFails, Recovered, WaitTimesOut, FetchFails, ReplayFails, Resume
<1>3. marks \in [Direction -> SUBSET {"stray", "tee", "cut", "left"}]
  BY DEF QInv, Queues
<1>4. Marked(d) /\ (Uncut(d)' => IdleOf(d, todo))
  <2>1. CASE RelayWriteFails \/ FetchFails
    <3>1. Marked(d)
      BY <2>1 DEF RelayWriteFails, FetchFails, Marked
    <3>2. todo # <<>> => ~Writable(todo[1].to)
      <4>1. CASE RelayWriteFails
        BY <4>1 DEF RelayWriteFails
      <4>2. CASE FetchFails /\ todo # <<>>
        <5>1. 1 \in DOMAIN todo /\ pc = "fetch" /\ ~up
          <6>1. todo \in Seq(Output)
            BY DEF QInv, Outgoing
          <6>. QED BY <4>2, <6>1 DEF FetchFails
        <5>. QED BY <5>1 DEF Turns, Writable
      <4>. QED BY <2>1, <4>1, <4>2
    <3>. QED BY <1>1, <3>1, <3>2, FailedIdle
  <2>2. CASE Recovered \/ ReplayFails
    <3>1. Marked(d)
      BY <1>3, <2>2 DEF Recovered, ReplayFails, Marked, MarkLeft
    <3>2. todo # <<>> => ~Writable(todo[1].to)
      BY <2>2 DEF Recovered, ReplayFails
    <3>. QED BY <1>1, <3>1, <3>2, FailedIdle
  <2>3. CASE WaitTimesOut
    <3>1. marks' = MarkLeft(IF todo # <<>> /\ todo[1].done > 0
                            THEN [marks EXCEPT ![todo[1].to] = @ \cup {"cut"}] ELSE marks)
      BY <2>3 DEF WaitTimesOut
    <3>2. Marked(d)
      BY <1>3, <3>1 DEF Marked, MarkLeft
    <3>3. ASSUME ~IdleOf(d, todo) PROVE "cut" \in marks'[d]
      <4>1. todo # <<>> /\ todo[1].to = d /\ todo[1].done # 0
        BY <3>3 DEF IdleOf
      <4>2. Writing(todo[1])
        BY <4>1, WritingIs DEF QInv
      <4>3. todo[1].done > 0
        BY <4>1, <4>2 DEF Writing
      <4>. QED BY <1>3, <3>1, <4>1, <4>3 DEF MarkLeft
    <3>. QED BY <3>2, <3>3 DEF Uncut
  <2>. QED BY <2>1, <2>2, <2>3
<1>. QED BY <1>1, <1>2, <1>4, GivenUpStanding

-----------------------------------------------------------------------------
\* A connection on which nothing was given.
LEMMA NothingGiven ==
  ASSUME NEW d, NEW e
  PROVE  /\ Words(<<>>) = <<>> /\ FdsOf(<<>>) = <<>>
         /\ WordsIn(e, <<>>) = <<>> /\ MeantIn(d, <<>>) = <<>>
         /\ \A T : <<>> \in Seq(T)
         /\ <<>> \o <<>> = <<>> /\ InOrder(<<>>) /\ Len(<<>>) = 0
<1>1. <<>> \in Seq(Item) /\ \A T : <<>> \in Seq(T)
  BY EmptySeq
<1>2. Words(<<>>) = <<>> /\ FdsOf(<<>>) = <<>>
  <2>1. [i \in DOMAIN <<>> |-> <<>>[i].word] = <<>> /\ [i \in DOMAIN <<>> |-> <<>>[i].fds] = <<>>
    OBVIOUS
  <2>. QED BY <2>1, FlatNone DEF Words, FdsOf
<1>3. MeantIn(d, <<>>) = <<>>
  <2>1. [i \in DOMAIN <<>> |-> FdsMeant(d, <<>>[i])] = <<>>
    OBVIOUS
  <2>. QED BY <2>1, FlatNone DEF MeantIn
<1>4. <<>> \o <<>> = <<>>
  BY ConcatEmptySeq, <1>1
<1>. QED BY <1>1, <1>2, <1>3, <1>4, NoMessage DEF InOrder

\* There is a first message that was not taken.
LEMMA FrontOf ==
  ASSUME NEW d, NEW script, NEW n \in Nat, NEW buf, NEW fds, NEW queue, NEW stray,
         Accounts(d, script, n, buf, fds, queue, stray)
  PROVE  \E k \in 0..n : AtFront(d, script, k, n, buf, queue)
BY DEF Accounts, AtFront

\* At first.
LEMMA StandingInit == Init => DInv
<1> SUFFICES ASSUME Init PROVE DInv
  OBVIOUS
<1>1. QInv
  BY QueuesInit
<1>2. todo = <<>> /\ pc = "select" /\ \A d \in Direction : got[d] = <<>> /\ sent[d] = 0
  BY DEF Init, Both
<1>3. Turns
  BY <1>2 DEF Turns
<1>4. ASSUME NEW d \in Direction PROVE \E k, ms, ks : Stands(d, k, ms, ks)
  <2>1. PICK k \in 0..sent[d] : Upcoming(d, k)
    <3>1. Accounts(d, Script(d), sent[d], read_buf[d], read_fds[d], wire[d], "stray" \in marks[d])
      BY <1>1 DEF QInv, Balanced
    <3>2. sent[d] \in Nat
      BY <1>2
    <3>. QED BY <3>1, <3>2, FrontOf DEF Upcoming
  <2>2. Log(d, <<>>, <<>>, Before(d) + k)
    BY NothingGiven DEF Log
  <2>3. Given(d, <<>>)
    <3>1. BeingWritten(d) = <<>> /\ FdsBegun(d) = <<>>
      BY <1>2 DEF BeingWritten, FdsBegun
    <3>. QED BY <1>2, <3>1, NothingGiven DEF Given
  <2>4. Pending(d, <<>>, Before(d) + k)
    BY <1>2 DEF Pending
  <2>5. k \in Nat
    BY <1>2
  <2>6. Stands(d, k, <<>>, <<>>)
    BY <2>1, <2>2, <2>3, <2>4, <2>5 DEF Stands
  <2>. QED BY <2>6
<1>. QED BY <1>1, <1>3, <1>4 DEF DInv, Standing

\* A new connection, towards the compositor: only recovery's first requests are to be written.
LEMMA ReconnectRequests ==
  ASSUME DInv, Reconnect
  PROVE  Standing("request")'
<1>1. QInv /\ Setting /\ QInv' /\ "request" \in Direction
  BY ReconnectsStep DEF DInv, QInv, Direction
<1>2. /\ scenario' = scenario /\ got'["request"] = <<>> /\ todo' = Own(Played.fetch)
  BY <1>1 DEF Reconnect, QInv, Outgoing
<1>3. AllOwn(Own(Played.fetch)) /\ Own(Played.fetch) \in Seq(Output)
  <2>1. Played.fetch \in Seq(OwnMessages)
    BY <1>1, ScenarioIs DEF Setting
  <2>. QED BY <1>1, <2>1, OwnAll
<1>4. PICK k \in Nat : Upcoming("request", k)'
  <2>1. PICK script, n, buf, fds, queue, stray :
          /\ script = Script("request")' /\ n = sent'["request"] /\ buf = read_buf'["request"]
          /\ fds = read_fds'["request"] /\ queue = wire'["request"] /\ stray = ("stray" \in marks'["request"])
    OBVIOUS
  <2>2. Accounts("request", script, n, buf, fds, queue, stray) /\ n \in Nat
    BY <1>1, <2>1 DEF QInv, Balanced, Queues
  <2>3. PICK k \in 0..n : AtFront("request", script, k, n, buf, queue)
    BY <2>2, FrontOf
  <2>. QED BY <2>1, <2>2, <2>3 DEF Upcoming
<1>5. IdleOf("request", todo')
  <2>1. todo' # <<>> => 1 \in DOMAIN todo'
    BY <1>2, <1>3
  <2>. QED BY <1>2, <1>3, <2>1 DEF AllOwn, IdleOf
<1>6. Log("request", <<>>, <<>>, Before("request") + k)'
  BY NothingGiven DEF Log
<1>7. Given("request", <<>>)'
  <2>1. BeingWritten("request")' = <<>> /\ FdsBegun("request")' = <<>>
    BY <1>5, IdleBegun
  <2>. QED BY <1>2, <2>1, NothingGiven DEF Given
<1>8. Pending("request", <<>>, Before("request") + k)'
  <2>1. OwnMessages' = OwnMessages
    BY <1>2 DEF OwnMessages, Played
  <2>2. \A out : OwnOut("request", out) => OwnOut("request", out)'
    BY <2>1 DEF OwnOut, IsOwn
  <2>3. \A i \in DOMAIN todo' : OwnOut("request", todo'[i])
    BY <1>2, <1>3 DEF AllOwn
  <2>4. \A i \in DOMAIN todo' : OwnOut("request", todo[i])'
    BY <2>2, <2>3
  <2>. QED BY <2>4 DEF Pending
<1>9. Stands("request", k, <<>>, <<>>)'
  BY <1>4, <1>6, <1>7, <1>8 DEF Stands
<1>. QED BY <1>9 DEF Standing

\* Towards the client: a new compositor has said nothing, and whatever the last one said stays said.
LEMMA ReconnectEvents ==
  ASSUME DInv, Reconnect
  PROVE  Standing("event")'
<1>1. QInv /\ Setting /\ QInv' /\ Setting' /\ "event" \in Direction
  BY ReconnectsStep DEF DInv, QInv, Direction
<1>2. /\ scenario' = scenario /\ generation' = generation + 1 /\ todo' = Own(Played.fetch) /\ todo = <<>>
      /\ got'["event"] = got["event"] /\ marks'["event"] = marks["event"] /\ sent'["event"] = 0
  BY <1>1 DEF Reconnect, QInv, Queues, Outgoing, DInv, Turns
<1>3. SUFFICES ASSUME Uncut("event")' PROVE \E k, ms, ks : Stands("event", k, ms, ks)'
  BY DEF Standing
<1>4. Uncut("event") /\ (Clean("event")' <=> Clean("event"))
  BY <1>2, <1>3 DEF Uncut, Writable, Clean
<1>5. PICK k, ms, ks : Stands("event", k, ms, ks)
  BY <1>1, <1>4 DEF DInv, Standing
<1>6. k \in Nat /\ Upcoming("event", k) /\ Log("event", ms, ks, Before("event") + k) /\ Given("event", ms)
  BY <1>5 DEF Stands
<1>7. PICK b, l \in Nat : b = Before("event") + k /\ l = Len(Said("event")) /\ b <= l
  <2>1. k \in 0..sent["event"] /\ sent["event"] \in 0..Len(Script("event")) /\ sent["event"] \in Nat
    BY <1>1, <1>6 DEF Upcoming, AtFront, QInv, Queues
  <2>2. Before("event") \in Nat /\ Len(Said("event")) = Before("event") + Len(Script("event"))
        /\ Script("event") \in Seq(Spoken("event"))
    BY <1>1, SaidIs
  <2>3. PICK c \in Nat : c = Len(Script("event"))
    BY <2>2
  <2>4. PICK a \in Nat : a = Before("event")
    BY <2>2
  <2>. QED BY <1>6, <2>1, <2>2, <2>3, <2>4
<1>8. Log("event", ms, ks, l)
  BY <1>6, <1>7, LogMore
<1>9. /\ Before("event")' = l
      /\ \A j \in DOMAIN Said("event") : j \in DOMAIN Said("event")' /\ Said("event")'[j] = Said("event")[j]
  BY <1>1, <1>2, <1>7, SaidMore
<1>10. Log("event", ms, ks, Before("event") + 0)'
  <2>1. Sayable("event")' = Sayable("event")
    BY <1>2 DEF Sayable, Spoken, Played
  <2>2. ASSUME NEW m, NEW x, Entry("event", m, x, l) PROVE Entry("event", m, x, l)'
    <3>1. ~IsOwn("event", m)
      BY DEF IsOwn
    <3>2. x \in 1..l /\ IsSaid("event", m, x)
      BY <2>2, <3>1 DEF Entry
    <3>3. IsSaid("event", m, x)'
      BY <1>9, <3>2 DEF IsSaid
    <3>. QED BY <3>2, <3>3 DEF Entry
  <2>3. Log("event", ms, ks, l)'
    BY <1>8, <2>1, <2>2 DEF Log
  <2>4. l + 0 = l
    OBVIOUS
  <2>. QED BY <1>9, <2>3, <2>4
<1>11. AllOwn(Own(Played.fetch)) /\ Own(Played.fetch) \in Seq(Output)
  <2>1. Played.fetch \in Seq(OwnMessages)
    BY <1>1, ScenarioIs DEF Setting
  <2>. QED BY <1>1, <2>1, OwnAll
<1>12. \A i \in DOMAIN todo' : todo'[i].to # "event"
  BY <1>2, <1>11 DEF AllOwn
<1>13. Given("event", ms)'
  <2>1. IdleOf("event", todo')
    <3>1. todo' # <<>> => 1 \in DOMAIN todo'
      BY <1>2, <1>11
    <3>. QED BY <1>12, <3>1 DEF IdleOf
  <2>2. BeingWritten("event")' = <<>> /\ FdsBegun("event")' = <<>>
    BY <2>1, IdleBegun
  <2>3. BeingWritten("event") = <<>> /\ FdsBegun("event") = <<>>
    BY <1>2 DEF BeingWritten, FdsBegun
  <2>. QED BY <1>2, <1>4, <1>6, <2>2, <2>3 DEF Given
<1>14. Pending("event", ks, Before("event") + 0)'
  BY <1>12 DEF Pending
<1>15. Upcoming("event", 0)'
  <2>1. PICK script, buf, fds, queue, stray :
          /\ script = Script("event")' /\ buf = read_buf'["event"]
          /\ fds = read_fds'["event"] /\ queue = wire'["event"] /\ stray = ("stray" \in marks'["event"])
    OBVIOUS
  <2>2. Accounts("event", script, 0, buf, fds, queue, stray)
    BY <1>1, <1>2, <2>1 DEF QInv, Balanced
  <2>3. AtFront("event", script, 0, 0, buf, queue)
    BY <2>2, FrontOf
  <2>. QED BY <1>2, <2>1, <2>3 DEF Upcoming
<1>16. Stands("event", 0, ms, ks)'
  BY <1>10, <1>13, <1>14, <1>15 DEF Stands
<1>. QED BY <1>16

\* What the task has to write, by where it is.
LEMMA TurnsStep == ASSUME DInv, [Next]_vars PROVE Turns'
<1>1. Turns /\ Outgoing /\ Setting /\ todo \in Seq(Output)
  BY DEF DInv, QInv, Outgoing
<1>2. CASE WriteSome
  <2>1. pc' = pc /\ todo # <<>>
    BY <1>2 DEF WriteSome
  <2>2. pc # "select"
    BY <1>1, <2>1 DEF Turns
  <2>3. ASSUME pc = "fetch", NEW i \in DOMAIN todo' PROVE todo'[i].to = "request"
    <3>1. PICK out : out = todo[1] /\ Writing(out)
      BY <1>1, <2>1, WritingIs
    <3>2. PICK n, part, fds, p : Writes(out, n, part, fds, p)
      BY <1>1, <1>2, <3>1, WritesIs
    <3>3. todo' = Tail(todo) \/ \E x : todo' = [todo EXCEPT ![1].done = x]
      BY <3>2 DEF Writes
    <3>4. \A j \in DOMAIN todo : todo[j].to = "request" /\ todo[j] \in Output
      BY <1>1, <2>3 DEF Turns
    <3>5. CASE todo' = Tail(todo)
      <4>1. i + 1 \in DOMAIN todo /\ todo'[i] = todo[i + 1]
        BY <1>1, <2>1, <2>3, <3>5
      <4>. QED BY <3>4, <4>1
    <3>6. CASE \E x : todo' = [todo EXCEPT ![1].done = x]
      <4>1. PICK x : todo' = [todo EXCEPT ![1] = [todo[1] EXCEPT !.done = x]]
        BY <1>1, <3>6
      <4>2. i \in DOMAIN todo
        BY <1>1, <2>3, <4>1
      <4>3. CASE i = 1
        <5>1. todo'[1] = [todo[1] EXCEPT !.done = x]
          BY <4>1, <4>2, <4>3
        <5>. QED BY <3>4, <4>2, <4>3, <5>1 DEF Output
      <4>4. CASE i # 1
        BY <3>4, <4>1, <4>2, <4>4
      <4>. QED BY <4>3, <4>4
    <3>. QED BY <3>3, <3>5, <3>6
  <2>. QED BY <2>1, <2>2, <2>3 DEF Turns
<1>3. CASE Reconnect
  <2>1. Played.fetch \in Seq(OwnMessages)
    BY <1>1, ScenarioIs DEF Setting
  <2>2. AllOwn(Own(Played.fetch))
    BY <1>1, <2>1, OwnAll
  <2>. QED BY <1>3, <2>2 DEF Reconnect, AllOwn, Turns
<1>4. CASE RelayOne \/ RelayWriteFails
  <2>1. pc' \notin {"select", "fetch"}
    BY <1>4 DEF RelayOne, RelayWriteFails, Direction
  <2>. QED BY <2>1 DEF Turns
<1>5. CASE \E d \in Direction : SelectFills(d)
  <2>1. pc' \notin {"select", "fetch"}
    BY <1>5 DEF SelectFills, Direction
  <2>. QED BY <2>1 DEF Turns
<1>6. CASE WaitTakes
  <2>1. pc' # "select" /\ (pc' = "fetch" => todo' = <<>>)
    BY <1>6 DEF WaitTakes, Waits
  <2>. QED BY <2>1 DEF Turns
<1>7. CASE RelayEnds \/ Recovered \/ WaitTimesOut \/ FetchFails \/ ReplayFails
  <2>1. todo' = <<>>
    BY <1>7 DEF RelayEnds, Recovered, WaitTimesOut, FetchFails, ReplayFails, Resume
  <2>. QED BY <2>1 DEF Turns
<1>8. CASE (\E d \in Direction : PeerFlushes(d) \/ PeerReads(d)) \/ HostDies \/ Freeze \/ WaitFills \/ UNCHANGED vars
  <2>1. pc' = pc /\ todo' = todo
    BY <1>8 DEF PeerFlushes, PeerReads, HostDies, Freeze, WaitFills, vars
  <2>. QED BY <1>1, <2>1 DEF Turns
<1>. QED BY <1>2, <1>3, <1>4, <1>5, <1>6, <1>7, <1>8 DEF Next, Peers, Proxy

\* Every step keeps the invariant.
LEMMA StandingStep == DInv /\ [Next]_vars => DInv'
<1> SUFFICES ASSUME DInv, [Next]_vars PROVE DInv'
  OBVIOUS
<1>1. QInv /\ Turns /\ QInv' /\ Turns'
  BY QueuesStep, TurnsStep DEF DInv
<1>2. ASSUME NEW d \in Direction PROVE Standing(d)'
  <2>1. Standing(d)
    BY DEF DInv
  <2>2. CASE WriteSome
    BY <1>1, <2>1, <2>2, WriteStanding
  <2>3. CASE RelayOne
    BY <1>1, <2>1, <2>3, RelayStanding
  <2>4. CASE WaitTakes
    BY <1>1, <2>1, <2>4, WaitStanding
  <2>5. CASE Reconnect
    BY <2>5, ReconnectRequests, ReconnectEvents DEF Direction
  <2>6. CASE RelayWriteFails \/ Recovered \/ WaitTimesOut \/ FetchFails \/ ReplayFails
    BY <1>1, <2>1, <2>6, GivingUpStanding
  <2>7. CASE \/ \E e \in Direction : PeerFlushes(e) \/ PeerReads(e) \/ SelectFills(e)
             \/ WaitFills \/ Freeze \/ RelayEnds \/ HostDies
    BY <1>1, <2>1, <2>7, IncomingStanding
  <2>8. CASE UNCHANGED vars
    <3>1. UNCHANGED <<scenario, generation, sent, got, todo, wire, read_buf, marks, up>>
      BY <2>8 DEF vars, channel
    <3>2. \A k : Upcoming(d, k) => Upcoming(d, k)'
      BY <3>1, UpcomingKept
    <3>. QED BY <1>1, <2>1, <3>1, <3>2, QuietStanding DEF QInv, Marked
  <2>. QED BY <2>2, <2>3, <2>4, <2>5, <2>6, <2>7, <2>8 DEF Next, Peers, Proxy
<1>. QED BY <1>1, <1>2 DEF DInv

-----------------------------------------------------------------------------
\* What the invariant says of the messages that a receiver has.

\* The elements of two sequences.
LEMMA ToSetConcat ==
  ASSUME NEW T, NEW a \in Seq(T), NEW b \in Seq(T)
  PROVE  a \o b \in Seq(T) /\ ToSet(a \o b) = ToSet(a) \cup ToSet(b)
<1>1. PICK m, n \in Nat : m = Len(a) /\ n = Len(b)
  OBVIOUS
<1>2. PICK c : c = a \o b
  OBVIOUS
<1>3. c \in Seq(T) /\ Len(c) = m + n /\ \A i \in 1..(m + n) : c[i] = IF i <= m THEN a[i] ELSE b[i - m]
  <2>1. /\ a \o b \in Seq(T) /\ Len(a \o b) = Len(a) + Len(b)
        /\ \A i \in 1..Len(a) + Len(b) : (a \o b)[i] = IF i <= Len(a) THEN a[i] ELSE b[i - Len(a)]
    BY ConcatProperties
  <2>. QED BY <1>1, <1>2, <2>1
<1>4. DOMAIN a = 1..m /\ DOMAIN b = 1..n /\ DOMAIN c = 1..(m + n)
  BY <1>1, <1>3
<1>5. ASSUME NEW i \in 1..m PROVE i \in 1..(m + n) /\ c[i] = a[i]
  BY <1>3
<1>6. ASSUME NEW i \in 1..n PROVE m + i \in 1..(m + n) /\ c[m + i] = b[i]
  <2>1. PICK j : j = m + i /\ j \in 1..(m + n) /\ ~(j <= m) /\ j - m = i
    OBVIOUS
  <2>2. c[j] = b[j - m]
    BY <1>3, <2>1
  <2>. QED BY <2>1, <2>2
<1>7. ASSUME NEW i \in 1..(m + n) PROVE (\E j \in 1..m : c[i] = a[j]) \/ (\E j \in 1..n : c[i] = b[j])
  <2>1. CASE i <= m
    <3>1. i \in 1..m
      BY <2>1
    <3>. QED BY <1>5, <3>1
  <2>2. CASE ~(i <= m)
    <3>1. i - m \in 1..n /\ c[i] = b[i - m]
      BY <1>3, <2>2
    <3>. QED BY <3>1
  <2>. QED BY <2>1, <2>2
<1>8. ToSet(c) = ToSet(a) \cup ToSet(b)
  <2>1. ASSUME NEW x \in ToSet(c) PROVE x \in ToSet(a) \cup ToSet(b)
    BY <1>4, <1>7 DEF ToSet
  <2>2. ASSUME NEW x \in ToSet(a) PROVE x \in ToSet(c)
    BY <1>4, <1>5 DEF ToSet
  <2>3. ASSUME NEW x \in ToSet(b) PROVE x \in ToSet(c)
    BY <1>4, <1>6 DEF ToSet
  <2>. QED BY <2>1, <2>2, <2>3
<1>. QED BY <1>2, <1>3, <1>8

\* What the proxy says for itself.
LEMMA OwnWordsAre ==
  ASSUME Setting, NEW d \in Direction
  PROVE  OwnWords(d) = {Bytes(Other(d), m) : m \in {m \in OwnMessages : IsOwn(d, m)}}
<1>1. /\ Played.fetch \in Seq(OwnMessages) /\ Played.replay \in Seq(OwnMessages) /\ Played.splice \in Seq(OwnMessages)
  BY ScenarioIs DEF Setting
<1>2. PICK a, b, c, T : a = Played.fetch /\ b = Played.replay /\ c = Played.splice /\ T = OwnMessages
  OBVIOUS
<1>3. a \o b \in Seq(T) /\ ToSet(a \o b) = ToSet(a) \cup ToSet(b)
  BY <1>1, <1>2, ToSetConcat
<1>4. PICK x : x = a \o b
  OBVIOUS
<1>5. ToSet(x \o c) = ToSet(x) \cup ToSet(c)
  <2>1. x \in Seq(T) /\ c \in Seq(T)
    BY <1>1, <1>2, <1>3, <1>4
  <2>. QED BY <2>1, ToSetConcat
<1>6. ToSet(Played.fetch \o Played.replay \o Played.splice) = OwnMessages
  BY <1>2, <1>3, <1>4, <1>5 DEF OwnMessages
<1>7. CASE d = "request"
  BY <1>6, <1>7 DEF OwnWords, Other, IsOwn
<1>8. CASE d # "request"
  BY <1>8 DEF OwnWords, IsOwn
<1>. QED BY <1>7, <1>8

\* Nothing is half written of a whole number of messages, or less than one is.
LEMMA PartBegun ==
  ASSUME QInv, NEW d \in Direction, NEW ks, NEW l, Pending(d, ks, l)
  PROVE  /\ BeingWritten(d) \in Seq(Int) /\ take_message(BeingWritten(d)) = 0
         /\ BeingWritten(d) = <<>> => FdsBegun(d) = <<>>
<1>1. Setting /\ Outgoing
  BY DEF QInv
<1>2. CASE todo # <<>> /\ todo[1].to = d
  <2>1. PICK out : out = todo[1] /\ Writing(out)
    BY <1>1, <1>2, WritingIs
  <2>2. PICK x, words : x = out.done /\ words = out.words
    OBVIOUS
  <2>3. x \in Nat /\ words \in Seq(Int) /\ x < Len(words)
    BY <2>1, <2>2 DEF Writing
  <2>4. \E m \in Sayable(d) : words = Bytes(Other(d), m)
    <3>1. OwnOut(d, out) \/ SaidOut(d, l, out)
      BY <1>2, <2>1 DEF Pending, Writing
    <3>2. Said(d) \in Seq(Spoken(d)) /\ Spoken(d) \subseteq Sayable(d)
      BY <1>1, SaidIs, SayableIs
    <3>3. CASE OwnOut(d, out)
      BY <1>1, <2>2, <3>3, OwnIs DEF OwnOut
    <3>4. CASE SaidOut(d, l, out)
      BY <2>2, <3>2, <3>4 DEF SaidOut, IsSaid
    <3>. QED BY <3>1, <3>3, <3>4
  <2>5. PICK m, e : m \in Sayable(d) /\ e = Other(d) /\ words = Bytes(e, m)
    BY <2>4
  <2>6. e \in Direction /\ Typed(m) /\ Fits(e, m)
    BY <1>1, <2>5, SayableIs DEF AllProper
  <2>7. PICK begun : begun = SubSeq(words, 1, x)
    OBVIOUS
  <2>8. begun \in Seq(Int) /\ take_message(begun) = 0
    BY <2>3, <2>5, <2>6, <2>7, PartIs
  <2>9. BeingWritten(d) = begun
    BY <1>2, <2>1, <2>2, <2>7 DEF BeingWritten
  <2>10. Len(begun) = x
    BY <2>3, <2>7
  <2>11. begun = <<>> => x = 0
    BY <2>10
  <2>. QED BY <1>2, <2>1, <2>2, <2>8, <2>9, <2>11 DEF FdsBegun
<1>3. CASE ~(todo # <<>> /\ todo[1].to = d)
  <2>1. BeingWritten(d) = <<>> /\ FdsBegun(d) = <<>>
    BY <1>3 DEF BeingWritten, FdsBegun
  <2>2. PICK none : none = <<>> /\ none \in Seq(Int) /\ Len(none) = 0
    BY EmptySeq
  <2>3. take_message(none) = 0
    <3>1. take_message(none) \in 0..Len(none)
      BY <2>2, TakeBound
    <3>. QED BY <2>2, <3>1
  <2>. QED BY <2>1, <2>2, <2>3
<1>. QED BY <1>2, <1>3

\* Messages of the same bytes have the same arguments, so that both have fds or none.
LEMMA SameBytes ==
  ASSUME Setting, NEW d \in Direction, NEW m \in Sayable(d), NEW n \in Sayable(d),
         Bytes(Other(d), m) = Bytes(Other(d), n), Fds(n.values) = <<>>
  PROVE  Fds(m.values) = <<>>
<1>1. PICK e, b : e = Other(d) /\ b = Bytes(e, m) /\ b = Bytes(e, n)
  OBVIOUS
<1>2. e \in Direction /\ Typed(m) /\ Typed(n) /\ Fits(e, m) /\ Fits(e, n) /\ Declared(d, m) /\ Declared(d, n)
  <2>1. e \in Direction /\ AllProper(e, Sayable(d)) /\ Proper(d, m) /\ Proper(d, n)
    BY <1>1, SayableIs
  <2>. QED BY <2>1, ProperIs DEF AllProper
<1>3. b \in Seq(Int) /\ Len(b) >= 2
  <2>1. PayloadOf(e, m) \in Seq(Int) /\ b \in Seq(Int) /\ Len(b) = 2 + Len(PayloadOf(e, m))
    BY <1>1, <1>2, BytesAre
  <2>2. PICK l \in Nat : l = Len(PayloadOf(e, m))
    BY <2>1
  <2>. QED BY <2>1, <2>2
<1>4. parse(b).opcode = m.opcode
  BY <1>1, <1>2, <1>3, TakeIs
<1>5. parse(b).opcode = n.opcode
  BY <1>1, <1>2, <1>3, TakeIs
<1>6. PICK types : types = [i \in DOMAIN m.values |-> m.values[i].type] /\ types = [i \in DOMAIN n.values |-> n.values[i].type]
  BY <1>2, <1>4, <1>5 DEF Declared
<1>7. m.values \in Seq(Argument) /\ n.values \in Seq(Argument)
  BY <1>2 DEF Typed
<1>8. "fd" \notin ToSet(types)
  <2>1. ASSUME NEW i \in DOMAIN types, types[i] = "fd" PROVE FALSE
    <3>1. i \in DOMAIN n.values /\ n.values[i].type = "fd"
      BY <1>6, <2>1
    <3>. QED BY <1>7, <3>1, SomeFds
  <2>. QED BY <2>1 DEF ToSet
<1>. QED BY <1>6, <1>7, <1>8, NoFds

\* Where the messages given were said; what was not said is the proxy's own, and meant without fds.
LEMMA PlacedIs ==
  ASSUME Setting, NEW d \in Direction, NEW l \in Nat, NEW ms, NEW ks, Log(d, ms, ks, l),
         NEW each, each = Each(Other(d), ms),
         NEW relayed, relayed = {i \in DOMAIN each : each[i] \notin OwnWords(d)}
  PROVE  /\ DOMAIN each = DOMAIN ms /\ [i \in relayed |-> ks[i]] \in Places(d, each)
         /\ \A i \in relayed : Said(d)[ks[i]] = ms[i]
         /\ \A i \in DOMAIN ms \ relayed : FdsMeant(d, ms[i]) = <<>>
<1>1. /\ ms \in Seq(Sayable(d)) /\ ks \in Seq(Nat) /\ Len(ks) = Len(ms) /\ InOrder(ks)
      /\ \A i \in 1..Len(ms) : Entry(d, ms[i], ks[i], l)
  BY DEF Log
<1>2. PICK n \in Nat : n = Len(ms)
  BY <1>1
<1>3. DOMAIN ms = 1..n /\ DOMAIN ks = 1..n /\ DOMAIN each = 1..n
      /\ \A i \in 1..n : each[i] = Bytes(Other(d), ms[i]) /\ ms[i] \in Sayable(d) /\ ks[i] \in Nat
  BY <1>1, <1>2 DEF Each
<1>4. OwnWords(d) = {Bytes(Other(d), m) : m \in {m \in OwnMessages : IsOwn(d, m)}}
  BY OwnWordsAre
<1>5. relayed \subseteq 1..n
  BY <1>3
<1>6. ASSUME NEW i \in relayed
      PROVE  ks[i] # 0 /\ ks[i] \in DOMAIN Said(d) /\ Said(d)[ks[i]] = ms[i] /\ ks[i] \in Meant(d, each[i])
  <2>1. i \in 1..n /\ each[i] \notin OwnWords(d) /\ Entry(d, ms[i], ks[i], l)
    BY <1>1, <1>2, <1>5
  <2>2. ~IsOwn(d, ms[i])
    BY <1>3, <1>4, <2>1 DEF IsOwn
  <2>3. ks[i] \in 1..l /\ IsSaid(d, ms[i], ks[i])
    BY <2>1, <2>2 DEF Entry
  <2>. QED BY <1>3, <2>1, <2>3 DEF IsSaid, Meant
<1>7. PICK at : at = [i \in relayed |-> ks[i]]
  OBVIOUS
<1>8. at \in Places(d, each)
  <2>1. at \in [relayed -> UNION {Meant(d, each[i]) : i \in relayed}]
    BY <1>6, <1>7
  <2>2. \A i \in relayed : at[i] \in Meant(d, each[i])
    BY <1>6, <1>7
  <2>3. ASSUME NEW i \in relayed, NEW j \in relayed, i < j PROVE at[i] < at[j]
    <3>1. i \in DOMAIN ks /\ j \in DOMAIN ks /\ ks[i] # 0 /\ ks[j] # 0
      BY <1>3, <1>5, <1>6
    <3>2. ks[i] < ks[j]
      BY <1>1, <2>3, <3>1 DEF InOrder
    <3>. QED BY <1>7, <3>2
  <2>. QED BY <2>1, <2>2, <2>3 DEF Places
<1>9. ASSUME NEW i \in DOMAIN ms \ relayed PROVE FdsMeant(d, ms[i]) = <<>>
  <2>1. i \in 1..n /\ each[i] \in OwnWords(d)
    BY <1>3
  <2>2. PICK m : IsOwn(d, m) /\ each[i] = Bytes(Other(d), m)
    BY <1>4, <2>1
  <2>3. m \in Sayable(d) /\ Fds(m.values) = <<>>
    <3>1. m \in OwnMessages /\ scenario \in DOMAIN Scenarios
      BY <2>2 DEF IsOwn, Setting
    <3>. QED BY <2>2, <3>1, OwnIs, ScenarioIs
  <2>4. Fds(ms[i].values) = <<>>
    <3>1. ms[i] \in Sayable(d) /\ Bytes(Other(d), ms[i]) = Bytes(Other(d), m)
      BY <1>3, <2>1, <2>2
    <3>. QED BY <2>3, <3>1, SameBytes
  <2>. QED BY <2>4, NoneMeant
<1>. QED BY <1>3, <1>6, <1>7, <1>8, <1>9

\* What a receiver has are whole messages that were said, and part of the next.
LEMMA StandsFaithful ==
  ASSUME QInv, NEW d \in Direction, NEW k, NEW ms, NEW ks, Stands(d, k, ms, ks), NEW each, each = Each(Other(d), ms)
  PROVE  /\ Messages(Words(got[d])) = each /\ Words(got[d]) = FlattenSeq(each) \o BeingWritten(d)
<1>1. Setting /\ Given(d, ms) /\ ms \in Seq(Sayable(d)) /\ Pending(d, ks, Before(d) + k)
  BY DEF QInv, Stands, Log
<1>2. PICK e, T, part : e = Other(d) /\ T = Sayable(d) /\ part = BeingWritten(d)
  OBVIOUS
<1>3. e \in Direction /\ AllProper(e, T) /\ ms \in Seq(T)
  BY <1>1, <1>2, SayableIs
<1>4. part \in Seq(Int) /\ take_message(part) = 0
  <2>1. PICK l : l = Before(d) + k
    OBVIOUS
  <2>. QED BY <1>1, <1>2, <2>1, PartBegun
<1>5. Messages(WordsIn(e, ms) \o part) = Each(e, ms)
  BY <1>3, <1>4, MessagesBack
<1>6. Words(got[d]) = WordsIn(e, ms) \o part
  BY <1>1, <1>2 DEF Given
<1>7. WordsIn(e, ms) = FlattenSeq(Each(e, ms))
  BY DEF WordsIn, Each
<1>. QED BY <1>2, <1>5, <1>6, <1>7

\* The numbers of messages said.
LEMMA LimitIs ==
  ASSUME Setting, NEW d \in Direction, NEW k, NEW ms, NEW ks, Stands(d, k, ms, ks)
  PROVE  \E l \in Nat : l = Before(d) + k /\ Log(d, ms, ks, l)
<1>1. k \in Nat /\ Before(d) \in Nat /\ Log(d, ms, ks, Before(d) + k)
  BY SaidIs DEF Stands
<1>2. PICK l : l = Before(d) + k
  OBVIOUS
<1>3. l \in Nat
  BY <1>1, <1>2
<1>. QED BY <1>1, <1>2, <1>3

(***************************************************************************)
(* Whatever the reads and partial writes, and whichever compositors die, a *)
(* receiver is given whole messages that were sent, in the order they were *)
(* sent, with their ids translated, and of the next one only what          *)
(* write_message has written.  (Not after a timeout has ended a write half *)
(* way.)                                                                   *)
(***************************************************************************)
THEOREM ReceiversAreFaithful == Spec => []Faithful
<1>1. DInv => Faithful
  <2> SUFFICES ASSUME DInv, NEW d \in Direction, "cut" \notin marks[d], Writable(d)
               PROVE  LET words == Words(got[d])
                          ms == Messages(words)
                      IN words = FlattenSeq(ms) \o BeingWritten(d) /\ Places(d, ms) # {}
    BY DEF Faithful
  <2>1. QInv /\ Setting /\ Uncut(d)
    BY DEF DInv, QInv, Uncut
  <2>2. PICK k, ms, ks : Stands(d, k, ms, ks)
    BY <2>1 DEF DInv, Standing
  <2>3. PICK each : each = Each(Other(d), ms)
    OBVIOUS
  <2>4. Messages(Words(got[d])) = each /\ Words(got[d]) = FlattenSeq(each) \o BeingWritten(d)
    BY <2>1, <2>2, <2>3, StandsFaithful
  <2>5. PICK relayed : relayed = {i \in DOMAIN each : each[i] \notin OwnWords(d)}
    OBVIOUS
  <2>6. PICK l \in Nat : Log(d, ms, ks, l)
    BY <2>1, <2>2, LimitIs
  <2>7. [i \in relayed |-> ks[i]] \in Places(d, each)
    BY <2>1, <2>3, <2>5, <2>6, PlacedIs
  <2>. QED BY <2>4, <2>7
<1>. QED BY <1>1, StandingInit, StandingStep, PTL DEF Spec

(***************************************************************************)
(* Every message is delivered with its own file descriptors, no more and   *)
(* no fewer, and a copied selection with those of start_tee, as long as no *)
(* message with fds was dropped and every tee could be set up: at the      *)
(* place where each message was said, its fds were said too.               *)
(***************************************************************************)
THEOREM MessagesBringTheirFds == Spec => []FdsFollow
<1>1. DInv => FdsFollow
  <2> SUFFICES ASSUME DInv, NEW d \in Direction, BetweenMessages(d), marks[d] \cap {"stray", "tee"} = {}
               PROVE  OwnFds(d)
    BY DEF FdsFollow
  <2>1. QInv /\ Setting /\ Uncut(d) /\ Clean(d) /\ BeingWritten(d) = <<>>
    BY DEF DInv, QInv, Uncut, Clean, BetweenMessages
  <2>2. PICK k, ms, ks : Stands(d, k, ms, ks)
    BY <2>1 DEF DInv, Standing
  <2>3. PICK each : each = Each(Other(d), ms)
    OBVIOUS
  <2>4. Messages(Words(got[d])) = each
    BY <2>1, <2>2, <2>3, StandsFaithful
  <2>5. PICK relayed, at : relayed = {i \in DOMAIN each : each[i] \notin OwnWords(d)} /\ at = [i \in relayed |-> ks[i]]
    OBVIOUS
  <2>6. PICK l \in Nat : l = Before(d) + k /\ Log(d, ms, ks, l)
    BY <2>1, <2>2, LimitIs
  <2>7. /\ DOMAIN each = DOMAIN ms /\ at \in Places(d, each)
        /\ \A i \in relayed : Said(d)[ks[i]] = ms[i]
        /\ \A i \in DOMAIN ms \ relayed : FdsMeant(d, ms[i]) = <<>>
    BY <2>1, <2>3, <2>5, <2>6, PlacedIs
  <2>8. [i \in DOMAIN each |-> IF i \in DOMAIN at THEN FdsMeant(d, Said(d)[at[i]]) ELSE <<>>]
          = [i \in DOMAIN ms |-> FdsMeant(d, ms[i])]
    <3>1. ASSUME NEW i \in DOMAIN ms
          PROVE  (IF i \in DOMAIN at THEN FdsMeant(d, Said(d)[at[i]]) ELSE <<>>) = FdsMeant(d, ms[i])
      <4>1. CASE i \in relayed
        <5>1. i \in DOMAIN at /\ Said(d)[at[i]] = ms[i]
          BY <2>5, <2>7, <4>1
        <5>. QED BY <5>1
      <4>2. CASE i \notin relayed
        <5>1. i \notin DOMAIN at /\ FdsMeant(d, ms[i]) = <<>>
          BY <2>5, <2>7, <4>2
        <5>. QED BY <5>1
      <4>. QED BY <4>1, <4>2
    <3>. QED BY <2>7, <3>1
  <2>9. FdsOf(got[d]) = MeantIn(d, ms)
    <3>1. Given(d, ms) /\ Pending(d, ks, l) /\ ms \in Seq(Sayable(d))
      BY <2>2, <2>6 DEF Stands, Log
    <3>2. FdsBegun(d) = <<>>
      BY <2>1, <3>1, PartBegun
    <3>3. MeantIn(d, ms) \in Seq(Nat)
      <4>1. AllTyped(Sayable(d))
        BY <2>1, SayableIs
      <4>. QED BY <3>1, <4>1, EachMeant
    <3>4. MeantIn(d, ms) \o <<>> = MeantIn(d, ms)
      BY <3>3, ConcatEmptySeq
    <3>. QED BY <2>1, <3>1, <3>2, <3>4 DEF Given
  <2>10. FdsOf(got[d]) =
           FlattenSeq([i \in DOMAIN each |-> IF i \in DOMAIN at THEN FdsMeant(d, Said(d)[at[i]]) ELSE <<>>])
    BY <2>8, <2>9 DEF MeantIn
  <2>. QED BY <2>4, <2>7, <2>10 DEF OwnFds
<1>. QED BY <1>1, StandingInit, StandingStep, PTL DEF Spec
=============================================================================
