-------------------------- MODULE Clipboard_proofs --------------------------
(***************************************************************************)
(* The safety of the clipboard cache, for any number of transfers of any   *)
(* length: every copy is whole, and none is replaced by an older one.  The *)
(* pump's own arithmetic carries the first: what it has taken, what it has *)
(* given and what it has collected differ exactly by the chunk it is in    *)
(* the middle of (Counted).  For the second, what is not collected was too *)
(* long (CopyKept), and what had ended never stores again (BeforeEnded).   *)
(***************************************************************************)
EXTENDS Clipboard, TLAPS

\* Where the pump is, and how its three lengths relate there.
Counted ==
  \A t \in Transfer :
    /\ taken[t] <= said[t]
    /\ pump_at[t] = "none" => said[t] = 0 /\ taken[t] = 0 /\ given[t] = 0 /\ closed[t] = {}
    /\ pump_at[t] \in {"read", "done"} =>
         /\ given[t] = taken[t]
         /\ \A b \in collected[t] : b = given[t]
    /\ pump_at[t] = "write" =>
         /\ wrote[t] < chunk[t]
         /\ given[t] + chunk[t] = taken[t] + wrote[t]
         /\ \A b \in collected[t] : b + wrote[t] = given[t]
    /\ pump_at[t] = "done" => "client" \in closed[t] /\ taken[t] = said[t]

\* A copy was stored by a transfer that has ended, so that nothing of it changes.
Stored ==
  \A m \in Mime : \A copy \in cache[m] :
    /\ mime_of[copy.of] = m
    /\ pump_at[copy.of] = "done"
    /\ copy.bytes = given[copy.of]
    /\ copy.bytes \in 1..MAX_CACHED_BYTES

ClipboardInv == ClipboardTypeOK /\ Counted /\ Stored

LEMMA InitiallyCounted == ClipboardInit => ClipboardInv
<1>1. 0 \in 0..MAX_CACHED_BYTES  BY ClipboardAssumption
<1>2. QED
  BY <1>1, ClipboardAssumption
     DEF ClipboardInit, ForAll, ClipboardInv, ClipboardTypeOK, Counted, Stored

-----------------------------------------------------------------------------
\* The peers: they change only the ends of the pipes.

LEMMA PeersPreserve ==
  ASSUME ClipboardInv, NEW t \in Transfer, ClientWrites(t) \/ ClientCloses(t) \/ ReaderCloses(t)
  PROVE  ClipboardInv'
<1>1. CASE ClientWrites(t)
  <2>1. PICK n \in 1..(Length[t] - said[t]) : said' = [said EXCEPT ![t] = @ + n]
    BY <1>1 DEF ClientWrites
  <2>2. n \in Nat  BY <2>1, ClipboardAssumption DEF ClipboardInv, ClipboardTypeOK
  <2>3. pump_at[t] \in {"read", "write"} /\ "client" \notin closed[t]
    BY <1>1 DEF ClientWrites, ClientGone
  <2>4. UNCHANGED <<tee, taken, given, closed, cache, before>>  BY <1>1 DEF ClientWrites
  <2>5. ClipboardTypeOK'
    BY <2>1, <2>2, <2>4 DEF ClipboardInv, ClipboardTypeOK, tee
  <2>6. Counted'
    BY <2>1, <2>2, <2>3, <2>4 DEF ClipboardInv, ClipboardTypeOK, Counted, tee
  <2>7. Stored'  BY <2>4 DEF ClipboardInv, Stored, tee
  <2>8. QED  BY <2>5, <2>6, <2>7 DEF ClipboardInv
<1>2. CASE ClientCloses(t) \/ ReaderCloses(t)
  <2>1. /\ pump_at[t] # "none" /\ UNCHANGED <<tee, said, taken, given, cache, before>>
        /\ \E end \in {"client", "reader"} : closed' = [closed EXCEPT ![t] = @ \cup {end}]
    BY <1>2 DEF ClientCloses, ReaderCloses
  <2>2. ClipboardTypeOK'  BY <2>1 DEF ClipboardInv, ClipboardTypeOK, tee
  <2>3. Counted'  BY <2>1 DEF ClipboardInv, ClipboardTypeOK, Counted, tee
  <2>4. Stored'  BY <2>1 DEF ClipboardInv, Stored, tee
  <2>5. QED  BY <2>2, <2>3, <2>4 DEF ClipboardInv
<1>3. QED  BY <1>1, <1>2

-----------------------------------------------------------------------------
\* The tee.

LEMMA StartPreserves ==
  ASSUME ClipboardInv, NEW t \in Transfer, start_tee(t)
  PROVE  ClipboardInv'
<1>1. 0 \in 0..MAX_CACHED_BYTES  BY ClipboardAssumption
<1>2. /\ pump_at[t] = "none" /\ pump_at' = [pump_at EXCEPT ![t] = "read"]
      /\ collected' = [collected EXCEPT ![t] = {0}]
      /\ UNCHANGED <<chunk, wrote, pipe, cache>>
  BY DEF start_tee
<1>3. ClipboardTypeOK'
  BY <1>1, <1>2 DEF ClipboardInv, ClipboardTypeOK, pipe
<1>4. Counted'
  BY <1>2 DEF ClipboardInv, ClipboardTypeOK, Counted, pipe
<1>5. Stored'
  BY <1>2 DEF ClipboardInv, ClipboardTypeOK, Stored, pipe
<1>6. QED  BY <1>3, <1>4, <1>5 DEF ClipboardInv

LEMMA ReadPreserves ==
  ASSUME ClipboardInv, NEW t \in Transfer, PumpReads(t)
  PROVE  ClipboardInv'
<1>1. PICK n \in 1..BufferLen :
        /\ taken[t] + n <= said[t]
        /\ taken' = [taken EXCEPT ![t] = @ + n]
        /\ chunk' = [chunk EXCEPT ![t] = n]
  BY DEF PumpReads
<1>2. n \in Nat /\ n > 0  BY ClipboardAssumption
<1>3. /\ pump_at[t] = "read" /\ pump_at' = [pump_at EXCEPT ![t] = "write"]
      /\ wrote' = [wrote EXCEPT ![t] = 0]
      /\ UNCHANGED <<collected, said, given, closed, cache, before>>
  BY DEF PumpReads
<1>4. ClipboardTypeOK'
  BY <1>1, <1>2, <1>3 DEF ClipboardInv, ClipboardTypeOK
<1>5. Counted'
  BY <1>1, <1>2, <1>3 DEF ClipboardInv, ClipboardTypeOK, Counted
<1>6. Stored'
  BY <1>3 DEF ClipboardInv, ClipboardTypeOK, Stored
<1>7. QED  BY <1>4, <1>5, <1>6 DEF ClipboardInv

LEMMA WriteSomePreserves ==
  ASSUME ClipboardInv, NEW t \in Transfer, PumpWritesSome(t)
  PROVE  ClipboardInv'
<1>1. PICK n \in 1..(chunk[t] - wrote[t] - 1) :
        given' = [given EXCEPT ![t] = @ + n] /\ wrote' = [wrote EXCEPT ![t] = @ + n]
  BY DEF PumpWritesSome
<1>2. pump_at[t] = "write" /\ UNCHANGED <<pump_at, chunk, collected, said, taken, closed, cache>>
  BY DEF PumpWritesSome
<1>3. n \in Nat /\ n > 0 /\ wrote[t] + n < chunk[t]
  BY <1>1 DEF ClipboardInv, ClipboardTypeOK
<1>4. ClipboardTypeOK'
  BY <1>1, <1>2, <1>3 DEF ClipboardInv, ClipboardTypeOK
<1>5. Counted'
  BY <1>1, <1>2, <1>3 DEF ClipboardInv, ClipboardTypeOK, Counted
<1>6. Stored'
  BY <1>1, <1>2 DEF ClipboardInv, ClipboardTypeOK, Stored
<1>7. QED  BY <1>4, <1>5, <1>6 DEF ClipboardInv

LEMMA WriteRestPreserves ==
  ASSUME ClipboardInv, NEW t \in Transfer, PumpWritesRest(t)
  PROVE  ClipboardInv'
<1> DEFINE copy == Collected(collected[t], chunk[t])
<1>1. /\ given' = [given EXCEPT ![t] = @ + (chunk[t] - wrote[t])]
      /\ wrote' = [wrote EXCEPT ![t] = chunk[t]]
      /\ collected' = [collected EXCEPT ![t] = copy]
      /\ pump_at' = [pump_at EXCEPT ![t] = "read"]
      /\ pump_at[t] = "write" /\ UNCHANGED <<chunk, said, taken, closed, cache>>
  BY DEF PumpWritesRest, GoesOn
<1>2. wrote[t] < chunk[t] /\ wrote[t] \in Nat /\ chunk[t] \in Nat
  BY <1>1 DEF ClipboardInv, ClipboardTypeOK, Counted
<1>3. /\ copy \in SUBSET (0..MAX_CACHED_BYTES)
      /\ \A b \in copy : \E c \in collected[t] : b = c + chunk[t]
  BY <1>2, ClipboardAssumption DEF ClipboardInv, ClipboardTypeOK, Collected
<1> HIDE DEF copy
<1>4. ClipboardTypeOK'
  BY <1>1, <1>2, <1>3 DEF ClipboardInv, ClipboardTypeOK
<1>5. Counted'
  BY <1>1, <1>2, <1>3 DEF ClipboardInv, ClipboardTypeOK, Counted
<1>6. Stored'
  BY <1>1 DEF ClipboardInv, ClipboardTypeOK, Stored
<1>7. QED  BY <1>4, <1>5, <1>6 DEF ClipboardInv

LEMMA FailurePreserves ==
  ASSUME ClipboardInv, NEW t \in Transfer, PumpReadFails(t) \/ PumpWriteFails(t)
  PROVE  ClipboardInv'
<1>1. /\ UNCHANGED <<chunk, wrote, collected, pipe, cache>>
      /\ pump_at[t] \in {"read", "write"}
      /\ \E at \in {"unread", "unwritten"} : pump_at' = [pump_at EXCEPT ![t] = at]
  BY DEF PumpReadFails, PumpWriteFails, CacheAfterFailure
<1>2. ClipboardTypeOK'  BY <1>1 DEF ClipboardInv, ClipboardTypeOK, pipe
<1>3. Counted'  BY <1>1 DEF ClipboardInv, ClipboardTypeOK, Counted, pipe
<1>4. Stored'  BY <1>1 DEF ClipboardInv, ClipboardTypeOK, Stored, pipe
<1>5. QED  BY <1>2, <1>3, <1>4 DEF ClipboardInv

\* The one step that stores: what the pump has collected is all that it gave.
LEMMA EndPreserves ==
  ASSUME ClipboardInv, NEW t \in Transfer, PumpEnds(t)
  PROVE  ClipboardInv'
<1>1. /\ pump_at[t] = "read" /\ "client" \in closed[t] /\ taken[t] = said[t]
      /\ pump_at' = [pump_at EXCEPT ![t] = "done"]
      /\ UNCHANGED <<chunk, wrote, collected, pipe>>
  BY DEF PumpEnds, ClientGone
<1> DEFINE stored == CHOOSE b \in collected[t] : TRUE
<1> DEFINE m == mime_of[t]
<1>2. m \in Mime  BY ClipboardAssumption
<1>3. \/ cache' = cache
      \/ /\ \E b \in collected[t] : b > 0
         /\ cache' = [cache EXCEPT ![m] = {[of |-> t, bytes |-> stored]}]
  <2>1. CASE \E b \in collected[t] : b > 0
    BY <2>1 DEF PumpEnds, CacheWith, store
  <2>2. CASE ~ \E b \in collected[t] : b > 0
    <3>1. cache' = [cache EXCEPT ![m] = cache[m]]
      BY <2>2 DEF PumpEnds, CacheWith
    <3>2. QED  BY <3>1 DEF ClipboardInv, ClipboardTypeOK
  <2>3. QED  BY <2>1, <2>2
<1>4. (\E b \in collected[t] : b > 0) =>
        stored \in 1..MAX_CACHED_BYTES /\ stored = given[t]
  <2>1. SUFFICES ASSUME NEW b \in collected[t], b > 0
                 PROVE  stored \in 1..MAX_CACHED_BYTES /\ stored = given[t]
    OBVIOUS
  <2>2. stored \in collected[t]  BY <2>1
  <2> HIDE DEF stored
  <2>3. b = given[t] /\ stored = given[t]
    BY <1>1, <2>1, <2>2 DEF ClipboardInv, Counted
  <2>4. b \in 0..MAX_CACHED_BYTES  BY <2>1 DEF ClipboardInv, ClipboardTypeOK
  <2>5. QED  BY <2>1, <2>3, <2>4, ClipboardAssumption
<1> HIDE DEF stored
<1>5. ClipboardTypeOK'
  BY <1>1, <1>2, <1>3, <1>4, ClipboardAssumption DEF ClipboardInv, ClipboardTypeOK, pipe
<1>6. Counted'
  BY <1>1 DEF ClipboardInv, ClipboardTypeOK, Counted, pipe
<1>7. Stored'
  <2>1. SUFFICES ASSUME NEW k \in Mime, NEW copy \in cache'[k]
                 PROVE  /\ mime_of[copy.of] = k
                        /\ pump_at'[copy.of] = "done"
                        /\ copy.bytes = given'[copy.of]
                        /\ copy.bytes \in 1..MAX_CACHED_BYTES
    BY DEF Stored
  <2>2. CASE copy \in cache[k]
    BY <1>1, <2>1, <2>2 DEF ClipboardInv, ClipboardTypeOK, Stored, pipe
  <2>3. CASE copy \notin cache[k]
    <3>1. k = m /\ copy = [of |-> t, bytes |-> stored] /\ \E b \in collected[t] : b > 0
      BY <1>2, <1>3, <2>1, <2>3 DEF ClipboardInv, ClipboardTypeOK
    <3>2. pump_at'[t] = "done"  BY <1>1 DEF ClipboardInv, ClipboardTypeOK
    <3>3. QED  BY <1>1, <1>4, <3>1, <3>2 DEF pipe
  <2>4. QED  BY <2>2, <2>3
<1>8. QED  BY <1>5, <1>6, <1>7 DEF ClipboardInv

-----------------------------------------------------------------------------
LEMMA ClipboardStep == ClipboardInv /\ [ClipboardNext]_clipboard => ClipboardInv'
<1> SUFFICES ASSUME ClipboardInv, [ClipboardNext]_clipboard
             PROVE  ClipboardInv'
  OBVIOUS
<1>1. CASE UNCHANGED clipboard
  BY <1>1 DEF clipboard, tee, pipe, ClipboardInv, ClipboardTypeOK, Counted, Stored
<1>2. CASE \E t \in Transfer : start_tee(t)
  BY <1>2, StartPreserves
<1>3. CASE TeeNext
  <2>1. PICK t \in Transfer : ClientWrites(t) \/ ClientCloses(t) \/ ReaderCloses(t) \/ pump(t)
    BY <1>3 DEF TeeNext
  <2>2. CASE ClientWrites(t) \/ ClientCloses(t) \/ ReaderCloses(t)
    BY <2>2, PeersPreserve
  <2>3. CASE pump(t)
    BY <2>3, ReadPreserves, WriteSomePreserves, WriteRestPreserves, FailurePreserves,
       EndPreserves DEF pump
  <2>4. QED  BY <2>1, <2>2, <2>3
<1>4. QED  BY <1>1, <1>2, <1>3 DEF ClipboardNext

LEMMA InvIsEnough == ClipboardInv => CachedIsWhole
<1> SUFFICES ASSUME ClipboardInv, NEW m \in Mime, NEW copy \in cache[m]
             PROVE  /\ mime_of[copy.of] = m
                    /\ ClientGone(copy.of)
                    /\ copy.bytes = said[copy.of] /\ copy.bytes = given[copy.of]
                    /\ copy.bytes \in 1..MAX_CACHED_BYTES
  BY DEF CachedIsWhole
<1>1. copy.of \in Transfer  BY DEF ClipboardInv, ClipboardTypeOK
<1>2. QED  BY <1>1 DEF ClipboardInv, Stored, Counted, ClientGone

\* No task holds more than the limit, for any number of transfers of any
\* length (pump, src/clipboard.rs: MAX_CACHED_BYTES).
THEOREM CopiesAreBounded == ClipboardSpec => []ClipboardTypeOK
<1>1. ClipboardInv => ClipboardTypeOK  BY DEF ClipboardInv
<1>2. QED  BY <1>1, InitiallyCounted, ClipboardStep, PTL DEF ClipboardSpec

\* What is cached is a whole transfer, passed on to the last byte (pump and
\* ClipboardCache::store, src/clipboard.rs), however tasks interleave.
THEOREM CopiesAreWhole == ClipboardSpec => []CachedIsWhole
BY InitiallyCounted, ClipboardStep, InvIsEnough, PTL DEF ClipboardSpec
-----------------------------------------------------------------------------
\* Which copy is in the cache.

\* A task has the copy of all it gave, as long as that is within the limit.
CopyKept ==
  \A t \in Transfer :
    /\ pump_at[t] \in {"read", "done"} /\ given[t] <= MAX_CACHED_BYTES => given[t] \in collected[t]
    /\ pump_at[t] = "write" /\ given[t] - wrote[t] <= MAX_CACHED_BYTES =>
         given[t] - wrote[t] \in collected[t]

\* Those that had ended when t began have, so they store nothing any more.
BeforeEnded ==
  /\ before \in [Transfer -> SUBSET Transfer]
  /\ \A t \in Transfer : t \notin before[t] /\ \A u \in before[t] : Ended(u)

OrderInv == ClipboardInv /\ CopyKept /\ BeforeEnded /\ NotOlder

LEMMA InitiallyInOrder == ClipboardInit => OrderInv
<1> SUFFICES ASSUME ClipboardInit PROVE CopyKept /\ BeforeEnded /\ NotOlder
  BY InitiallyCounted DEF OrderInv
<1>1. QED  BY DEF ClipboardInit, ForAll, CopyKept, BeforeEnded, NotOlder

LEMMA CopyKeptStep ==
  ASSUME ClipboardInv, CopyKept, NEW t \in Transfer,
         ClientWrites(t) \/ ClientCloses(t) \/ ReaderCloses(t) \/ pump(t) \/ start_tee(t)
  PROVE  CopyKept'
<1> USE DEF ClipboardInv, ClipboardTypeOK, CopyKept
<1>1. CASE ClientWrites(t) \/ ClientCloses(t) \/ ReaderCloses(t)
  BY <1>1 DEF ClientWrites, ClientCloses, ReaderCloses, tee
<1>2. CASE start_tee(t)  BY <1>2 DEF start_tee, pipe, Counted
<1>3. CASE PumpReads(t)  BY <1>3, ClipboardAssumption DEF PumpReads, Counted
<1>4. CASE PumpReadFails(t) \/ PumpWriteFails(t)
  BY <1>4 DEF PumpReadFails, PumpWriteFails, pipe
<1>5. CASE PumpWritesSome(t)  BY <1>5 DEF PumpWritesSome
<1>6. CASE PumpWritesRest(t)
  <2>1. /\ given' = [given EXCEPT ![t] = @ + (chunk[t] - wrote[t])]
        /\ wrote' = [wrote EXCEPT ![t] = chunk[t]]
        /\ collected' = [collected EXCEPT ![t] = Collected(collected[t], chunk[t])]
        /\ pump_at' = [pump_at EXCEPT ![t] = "read"]
        /\ pump_at[t] = "write"
    BY <1>6 DEF PumpWritesRest, GoesOn
  <2>2. wrote[t] < chunk[t]  BY <2>1 DEF Counted
  <2>3. given'[t] <= MAX_CACHED_BYTES => given'[t] \in collected'[t]
    <3>1. given'[t] = (given[t] - wrote[t]) + chunk[t]  BY <2>1
    <3>2. given'[t] <= MAX_CACHED_BYTES => given[t] - wrote[t] \in collected[t]
      BY <2>1, <2>2, <3>1, ClipboardAssumption
    <3>3. QED  BY <2>1, <3>1, <3>2 DEF Collected
  <2>4. QED  BY <2>1, <2>3
<1>7. CASE PumpEnds(t)  BY <1>7 DEF PumpEnds, pipe
<1>8. QED  BY <1>1, <1>2, <1>3, <1>4, <1>5, <1>6, <1>7 DEF pump

LEMMA BeforeEndedStep ==
  ASSUME ClipboardInv, BeforeEnded, NEW t \in Transfer,
         ClientWrites(t) \/ ClientCloses(t) \/ ReaderCloses(t) \/ pump(t) \/ start_tee(t)
  PROVE  BeforeEnded'
<1> USE DEF ClipboardInv, ClipboardTypeOK, BeforeEnded, Ended
<1>1. CASE start_tee(t)  BY <1>1 DEF start_tee
<1>2. CASE ~start_tee(t)
  <2>1. before' = before /\ \A u \in Transfer : Ended(u) => pump_at'[u] = pump_at[u]
    BY <1>2 DEF ClientWrites, ClientCloses, ReaderCloses, pump, PumpReads, PumpReadFails,
                PumpWritesSome, PumpWritesRest, PumpEnds, PumpWriteFails, GoesOn, tee
  <2>2. QED  BY <2>1
<1>3. QED  BY <1>1, <1>2

\* A step other than the end of a transfer changes nothing that NotOlder is about.
LEMMA NotOlderStep ==
  ASSUME OrderInv, NEW t \in Transfer,
         ClientWrites(t) \/ ClientCloses(t) \/ ReaderCloses(t) \/ pump(t) \/ start_tee(t)
  PROVE  NotOlder'
<1> USE DEF OrderInv, ClipboardInv, ClipboardTypeOK
<1>1. CASE PumpEnds(t)
  <2>1. /\ pump_at[t] = "read" /\ taken[t] = said[t]
        /\ pump_at' = [pump_at EXCEPT ![t] = "done"]
        /\ cache' = CacheWith(t, collected[t])
        /\ said' = said /\ before' = before /\ mime_of[t] \in Mime
    BY <1>1, ClipboardAssumption DEF PumpEnds, pipe
  <2>2. given[t] = said[t]  BY <2>1 DEF Counted
  <2>3. CASE \E b \in collected[t] : b > 0
    <3>1. \E k : cache' = [cache EXCEPT ![mime_of[t]] = {[of |-> t, bytes |-> k]}]
      BY <2>1, <2>3 DEF CacheWith, store
    <3>2. SUFFICES ASSUME NEW u \in Transfer, pump_at'[u] = "done", said[u] \in 1..MAX_CACHED_BYTES
                   PROVE  cache'[mime_of[u]] # {} /\ \A copy \in cache'[mime_of[u]] : copy.of \notin before[u]
      BY <2>1 DEF NotOlder
    <3>3. t \notin before[u]  BY <2>1 DEF BeforeEnded, Ended
    <3>4. CASE mime_of[u] = mime_of[t]
      <4>1. \E k : cache'[mime_of[u]] = {[of |-> t, bytes |-> k]}
        BY <2>1, <3>1, <3>4
      <4>2. QED  BY <3>3, <4>1
    <3>5. CASE mime_of[u] # mime_of[t]
      <4>1. u # t /\ mime_of[u] \in Mime  BY <3>5, ClipboardAssumption
      <4>2. QED  BY <2>1, <3>1, <3>2, <3>5, <4>1 DEF NotOlder
    <3>6. QED  BY <3>4, <3>5
  <2>4. CASE ~ \E b \in collected[t] : b > 0
    <3>1. cache' = [cache EXCEPT ![mime_of[t]] = cache[mime_of[t]]]
      BY <2>1, <2>4 DEF CacheWith
    <3>2. cache' = cache  BY <3>1
    <3>3. said[t] \notin 1..MAX_CACHED_BYTES
      BY <2>1, <2>2, <2>4, ClipboardAssumption DEF CopyKept
    <3>4. QED  BY <2>1, <3>2, <3>3 DEF NotOlder
  <2>5. QED  BY <2>3, <2>4
<1>2. CASE ~PumpEnds(t)
  <2>1. /\ cache' = cache
        /\ \A u \in Transfer : pump_at'[u] = "done" =>
             pump_at[u] = "done" /\ said'[u] = said[u] /\ before'[u] = before[u]
    BY <1>2 DEF ClientWrites, ClientCloses, ReaderCloses, pump, PumpReads, PumpReadFails,
                PumpWritesSome, PumpWritesRest, PumpWriteFails, CacheAfterFailure, GoesOn,
                start_tee, tee, pipe, BeforeEnded
  <2>2. QED  BY <2>1 DEF NotOlder
<1>3. QED  BY <1>1, <1>2

LEMMA OrderStep == OrderInv /\ [ClipboardNext]_clipboard => OrderInv'
<1> SUFFICES ASSUME OrderInv, [ClipboardNext]_clipboard
             PROVE  OrderInv'
  OBVIOUS
<1>1. ClipboardInv'  BY ClipboardStep DEF OrderInv
<1>2. CASE UNCHANGED clipboard
  BY <1>1, <1>2 DEF clipboard, tee, pipe, OrderInv, CopyKept, BeforeEnded, NotOlder, Ended
<1>3. CASE ClipboardNext
  <2>1. PICK t \in Transfer :
          ClientWrites(t) \/ ClientCloses(t) \/ ReaderCloses(t) \/ pump(t) \/ start_tee(t)
    BY <1>3 DEF ClipboardNext, TeeNext
  <2>2. QED  BY <1>1, <2>1, CopyKeptStep, BeforeEndedStep, NotOlderStep DEF OrderInv
<1>4. QED  BY <1>2, <1>3

\* A finished transfer that fits is in the cache or has been replaced by one
\* that was not over when it began (pump and ClipboardCache::store,
\* src/clipboard.rs).  Of two that overlap the one that ends last stays, be it
\* the one that began first.
THEOREM EndedCopiesDoNotReturn == ClipboardSpec => []NotOlder
<1>1. OrderInv => NotOlder  BY DEF OrderInv
<1>2. QED  BY <1>1, InitiallyInOrder, OrderStep, PTL DEF ClipboardSpec
=============================================================================
