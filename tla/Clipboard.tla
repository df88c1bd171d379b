----------------------------- MODULE Clipboard -----------------------------
(***************************************************************************)
(* The clipboard cache and the tee tasks that fill it (src/clipboard.rs).  *)
(*                                                                         *)
(* A transfer is one wl_data_source.send: its client writes bytes into the *)
(* pipe of start_tee, a task of its own, pump, reads them in chunks,       *)
(* writes each to the real pipe, and at the end of the file stores the     *)
(* copy it has collected.  Any number of tasks share the one cache of the  *)
(* process.  The bytes of a transfer are told apart by their number only:  *)
(* n stands for the first n bytes that its client wrote.                   *)
(***************************************************************************)
EXTENDS Integers

CONSTANTS
  Transfer,
  Mime,               \* the mime types that are cached (is_cacheable_mime)
  mime_of,            \* the mime type of each transfer
  Length,             \* how many bytes its client has to write
  BufferLen,          \* how many bytes one read takes at most
  MAX_CACHED_BYTES

ASSUME ClipboardAssumption ==
  /\ mime_of \in [Transfer -> Mime]
  /\ Length \in [Transfer -> Nat]
  /\ BufferLen \in Nat /\ MAX_CACHED_BYTES \in Nat

VARIABLES
  pump_at,     \* where the pump of each transfer is
  chunk,       \* the chunk it has read last,
  wrote,       \*   and how much of that it has written
  collected,   \* the length of its copy, none once that is too long
  said,        \* the bytes that the client has written,
  taken,       \*   that the pump has read
  given,       \*   and that the reader has been given
  closed,      \* the ends of its pipes that are closed
  cache,       \* per mime type, the copy that is stored, if any
  before       \* per transfer, those of its mime type that had ended when it began

tee == <<pump_at, chunk, wrote, collected>>
pipe == <<said, taken, given, closed>>
clipboard == <<tee, pipe, cache, before>>

ForAll(x) == [t \in Transfer |-> x]

ClipboardInit ==
  /\ pump_at = ForAll("none") /\ chunk = ForAll(0) /\ wrote = ForAll(0) /\ collected = ForAll({})
  /\ said = ForAll(0) /\ taken = ForAll(0) /\ given = ForAll(0) /\ closed = ForAll({})
  /\ cache = [m \in Mime |-> {}]
  /\ before = ForAll({})

ClientGone(t) == "client" \in closed[t]
ReaderGone(t) == "reader" \in closed[t]
Ended(t) == pump_at[t] \in {"done", "unread", "unwritten"}

-----------------------------------------------------------------------------
\* The client and the reader of the selection.

ClientWrites(t) ==
  /\ pump_at[t] \in {"read", "write"} /\ ~ClientGone(t)
  /\ \E n \in 1..(Length[t] - said[t]) : said' = [said EXCEPT ![t] = @ + n]
  /\ UNCHANGED <<tee, taken, given, closed, cache, before>>

\* It has written all, or it quits: the pump sees the end of the file.
ClientCloses(t) ==
  /\ pump_at[t] # "none" /\ ~ClientGone(t)
  /\ closed' = [closed EXCEPT ![t] = @ \cup {"client"}]
  /\ UNCHANGED <<tee, said, taken, given, cache, before>>

ReaderCloses(t) ==
  /\ pump_at[t] # "none" /\ ~ReaderGone(t)
  /\ closed' = [closed EXCEPT ![t] = @ \cup {"reader"}]
  /\ UNCHANGED <<tee, said, taken, given, cache, before>>

-----------------------------------------------------------------------------
\* The tee.

start_tee(t) ==
  /\ pump_at[t] = "none"
  /\ pump_at' = [pump_at EXCEPT ![t] = "read"]
  /\ collected' = [collected EXCEPT ![t] = {0}]
  /\ before' = [before EXCEPT ![t] = {u \in Transfer : mime_of[u] = mime_of[t] /\ Ended(u)}]
  /\ UNCHANGED <<chunk, wrote, pipe, cache>>

PumpReads(t) ==
  /\ pump_at[t] = "read"
  /\ \E n \in 1..BufferLen :
       /\ taken[t] + n <= said[t]
       /\ taken' = [taken EXCEPT ![t] = @ + n]
       /\ chunk' = [chunk EXCEPT ![t] = n]
  /\ wrote' = [wrote EXCEPT ![t] = 0]
  /\ pump_at' = [pump_at EXCEPT ![t] = "write"]
  /\ UNCHANGED <<collected, said, given, closed, cache, before>>

PumpReadFails(t) ==
  /\ pump_at[t] = "read"
  /\ pump_at' = [pump_at EXCEPT ![t] = "unread"]
  /\ UNCHANGED <<chunk, wrote, collected, pipe, cache, before>>

\* Wrong: the copy grows without a limit.
Unlimited(lengths, n) == {b + n : b \in lengths}
Collected(lengths, n) == {b + n : b \in {c \in lengths : c + n <= MAX_CACHED_BYTES}}

\* Wrong: a transfer that is too long to be cached is not forwarded either.
GivenUp(copy) == IF copy = {} THEN "unwritten" ELSE "read"
\* The pump is done with a chunk, and goes on to the next.
GoesOn(copy) == "read"

\* write_all: a write takes any number of bytes.
PumpWritesSome(t) ==
  /\ pump_at[t] = "write" /\ ~ReaderGone(t)
  /\ \E n \in 1..(chunk[t] - wrote[t] - 1) :
       /\ given' = [given EXCEPT ![t] = @ + n]
       /\ wrote' = [wrote EXCEPT ![t] = @ + n]
  /\ UNCHANGED <<pump_at, chunk, collected, said, taken, closed, cache, before>>

PumpWritesRest(t) ==
  /\ pump_at[t] = "write" /\ ~ReaderGone(t)
  /\ given' = [given EXCEPT ![t] = @ + (chunk[t] - wrote[t])]
  /\ wrote' = [wrote EXCEPT ![t] = chunk[t]]
  /\ collected' = [collected EXCEPT ![t] = Collected(@, chunk[t])]
  /\ pump_at' = [pump_at EXCEPT ![t] = GoesOn(collected'[t])]
  /\ UNCHANGED <<chunk, said, taken, closed, cache, before>>

\* Wrong: the first copy stays.
KeptFirst(t, old, bytes) == IF old = {} THEN {[of |-> t, bytes |-> bytes]} ELSE old
store(t, old, bytes) == {[of |-> t, bytes |-> bytes]}

\* What is cached when the pump of t ends with a copy of these lengths.
CacheWith(t, lengths) ==
  [cache EXCEPT ![mime_of[t]] =
     IF \E b \in lengths : b > 0 THEN store(t, @, CHOOSE b \in lengths : TRUE) ELSE @]

PumpEnds(t) ==
  /\ pump_at[t] = "read" /\ ClientGone(t) /\ taken[t] = said[t]
  /\ pump_at' = [pump_at EXCEPT ![t] = "done"]
  /\ cache' = CacheWith(t, collected[t])
  /\ UNCHANGED <<chunk, wrote, collected, pipe, before>>

\* Wrong: what was collected before a write failed is cached.
AlsoCached(t) == CacheWith(t, collected[t])
CacheAfterFailure(t) == cache

PumpWriteFails(t) ==
  /\ pump_at[t] = "write" /\ ReaderGone(t)
  /\ pump_at' = [pump_at EXCEPT ![t] = "unwritten"]
  /\ cache' = CacheAfterFailure(t)
  /\ UNCHANGED <<chunk, wrote, collected, pipe, before>>

-----------------------------------------------------------------------------
pump(t) ==
  \/ PumpReads(t) \/ PumpReadFails(t)
  \/ PumpWritesSome(t) \/ PumpWritesRest(t) \/ PumpWriteFails(t)
  \/ PumpEnds(t)

TeeNext ==
  \E t \in Transfer : ClientWrites(t) \/ ClientCloses(t) \/ ReaderCloses(t) \/ pump(t)

ClipboardNext == TeeNext \/ \E t \in Transfer : start_tee(t)

\* A task runs while it can; the reader reads, or closes its end.
ClipboardFairness == \A t \in Transfer : WF_clipboard(pump(t))
ClipboardSpec == ClipboardInit /\ [][ClipboardNext]_clipboard

-----------------------------------------------------------------------------
(***************************************************************************)
(* The tasks and the cache are of their types; no task ever holds a copy   *)
(* of more than the limit, however long the transfer is.                   *)
(***************************************************************************)
ClipboardTypeOK ==
  /\ pump_at \in [Transfer -> {"none", "read", "write", "done", "unread", "unwritten"}]
  /\ chunk \in [Transfer -> Nat] /\ wrote \in [Transfer -> Nat]
  /\ collected \in [Transfer -> SUBSET (0..MAX_CACHED_BYTES)]
  /\ said \in [Transfer -> Nat] /\ taken \in [Transfer -> Nat] /\ given \in [Transfer -> Nat]
  /\ closed \in [Transfer -> SUBSET {"client", "reader"}]
  /\ cache \in [Mime -> SUBSET [of : Transfer, bytes : Nat]]

(***************************************************************************)
(* What is cached is one transfer of that mime type: all the bytes that    *)
(* its client wrote until it closed its end, every one of which has been   *)
(* passed on, not empty and not longer than the limit.  A transfer that    *)
(* failed on the way, or is on its way, is never cached in part.           *)
(***************************************************************************)
CachedIsWhole ==
  \A m \in Mime : \A copy \in cache[m] :
    /\ mime_of[copy.of] = m
    /\ ClientGone(copy.of)
    /\ copy.bytes = said[copy.of] /\ copy.bytes = given[copy.of]
    /\ copy.bytes \in 1..MAX_CACHED_BYTES

(***************************************************************************)
(* A copy that could be cached is, and an older one never takes its place, *)
(* unless the two tasks were running at the same time: then the one that   *)
(* finishes last stays, the older copy too.                                *)
(***************************************************************************)
NotOlder ==
  \A t \in Transfer : pump_at[t] = "done" /\ said[t] \in 1..MAX_CACHED_BYTES =>
    cache[mime_of[t]] # {} /\ \A copy \in cache[mime_of[t]] : copy.of \notin before[t]

(***************************************************************************)
(* Whatever its length, what a client wrote before it closed its end       *)
(* reaches the reader, unless the reader closes or the pipe breaks.        *)
(***************************************************************************)
AllForwarded ==
  \A t \in Transfer :
    (pump_at[t] # "none" /\ ClientGone(t)) ~>
      (given[t] = said[t] \/ ReaderGone(t) \/ pump_at[t] = "unread")
=============================================================================
