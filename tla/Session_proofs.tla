--------------------------- MODULE Session_proofs ---------------------------
(***************************************************************************)
(* The safety of the hand-off, for any number of shells, clients and       *)
(* transfers.  The argument is about the public name: while it leads to a  *)
(* shell whose hand-off is still to be done, that shell is stopped on its  *)
(* way out of bind() (Caught); and from the moment the helper removes the  *)
(* stale name until it renames the new one the proxy does not bind it      *)
(* (Settled).                                                              *)
(***************************************************************************)
EXTENDS Session, Clipboard_proofs

Sockets == [by : {"nobody", "shell", "proxy"}, no : Nat]
Helpers == { "off", "stale", "attach", "traced", "watching", "frozen", "renamed", "unrenamed",
             "done", "failed" }

HandoffTypes ==
  /\ plan \in Plans
  /\ names \in [public : Sockets, private : Sockets]
  /\ shell \in [no : Nat, state : {"dead", "young", "bound", "listening"},
                stopped : {"no", "bind", "signal"}]
  /\ helper \in Helpers
  /\ wrapper \in {"start", "handoff", "tell", "wait"}
  /\ proxy \in [state : {"off", "launched", "running"}, listener : Nat, signal : BOOLEAN]
  /\ clients \in [Client -> [at : {"new", "queued", "accepted", "relayed", "lost", "direct"}, no : Nat]]

\* No name leads to a shell that is still to come.
OldShells == names.public.by = "shell" => names.public.no <= shell.no

Caught ==
  names.public = ShellSocket /\ shell.no \notin untraced \cup failed =>
    \/ shell.state = "dead"
    \/ shell.state = "bound" /\ shell.stopped = "bind" /\ helper = "traced"

\* Only the helper stops the shell, and not in every state.
StoppedByHelper ==
  shell.stopped # "no" => helper \in {"traced", "frozen", "renamed", "unrenamed"}

Settled ==
  /\ helper # "off" => wrapper = "handoff"
  /\ wrapper = "handoff" => ProxySettled
  /\ helper \in {"attach", "traced", "watching", "frozen"} => names.public.by # "proxy"

HandoffInv ==
  /\ HandoffTypes /\ OldShells /\ Caught /\ StoppedByHelper /\ Settled
  /\ NoBypass /\ PrivateIsShells

LEMMA InitiallySafe == Init => HandoffInv
BY DEF Init, HandoffInit, HandoffInv, HandoffTypes, Sockets, Helpers, OldShells, Caught,
       StoppedByHelper, Settled, ProxySettled, NoBypass, PrivateIsShells, Socket, Nobody,
       ShellSocket

-----------------------------------------------------------------------------
\* The shell.

LEMMA ShellPreserves ==
  ASSUME HandoffInv, Shell, UNCHANGED clients
  PROVE  HandoffInv'
<1> USE DEF HandoffInv, HandoffTypes, OldShells, Caught, StoppedByHelper, Settled, ProxySettled,
            NoBypass, PrivateIsShells, ShellSocket, Socket, Runs, Alive, Traced
<1>1. CASE ShellBindsOther  BY <1>1 DEF ShellBindsOther
<1>2. CASE ShellBinds
  <2>1. names'.private = names.private /\ names'.public = [by |-> "shell", no |-> shell.no]
    BY <1>2 DEF ShellBinds, PublicLeadsTo
  <2>2. shell'.no = shell.no /\ shell'.state = "bound"
    BY <1>2 DEF ShellBinds
  <2>3. HandoffTypes'  BY <1>2 DEF ShellBinds, PublicLeadsTo, Sockets
  <2>4. Caught' /\ OldShells'
    BY <1>2, <2>1, <2>2 DEF ShellBinds
  <2>5. StoppedByHelper' /\ Settled' /\ NoBypass' /\ PrivateIsShells'
    BY <1>2, <2>1, <2>2 DEF ShellBinds
  <2>6. QED  BY <2>3, <2>4, <2>5
<1>3. CASE ShellListens  BY <1>3 DEF ShellListens
<1>4. CASE ShellDies  BY <1>4 DEF ShellDies
<1>5. QED  BY <1>1, <1>2, <1>3, <1>4 DEF Shell

\* The wrapper.
LEMMA WrapperPreserves ==
  ASSUME HandoffInv, Wrapper, UNCHANGED clients
  PROVE  HandoffInv'
<1> USE DEF HandoffInv, HandoffTypes, OldShells, Caught, StoppedByHelper, Settled, ProxySettled,
            NoBypass, PrivateIsShells, ShellSocket, Socket
<1>1. CASE StartsShell  BY <1>1 DEF StartsShell, Sockets, Helpers
<1>2. CASE HelperReturns  BY <1>2 DEF HelperReturns, Helpers
<1>3. CASE TellsProxy  BY <1>3 DEF TellsProxy, Told
<1>4. CASE ShellReaped  BY <1>4 DEF ShellReaped, Alive
<1>5. QED  BY <1>1, <1>2, <1>3, <1>4 DEF Wrapper

\* The helper.
LEMMA RenamesPreserves ==
  ASSUME HandoffInv, Renames, UNCHANGED clients
  PROVE  HandoffInv'
<1>1. /\ helper \in {"traced", "frozen"} /\ helper' \in {"renamed", "unrenamed"}
      /\ UNCHANGED <<plan, shell, wrapper, proxy, untraced, clients>>
  BY DEF Renames, Traced
<1>2. \/ names' = [private |-> names.public, public |-> Nobody] /\ failed' = failed
      \/ names' = names /\ failed' = failed \cup {shell.no}
  BY DEF Renames
<1> USE <1>1, <1>2 DEF HandoffInv, HandoffTypes
<1>3. HandoffTypes'  BY DEF Sockets, Helpers, Nobody, Socket
<1>4. OldShells'  BY DEF OldShells, Nobody, Socket
<1>5. Caught'  BY DEF Caught, ShellSocket, Nobody, Socket
<1>6. StoppedByHelper'  BY DEF StoppedByHelper
<1>7. Settled' /\ PrivateIsShells'
  BY DEF Settled, ProxySettled, PrivateIsShells, Nobody, Socket
<1>8. NoBypass'  BY DEF NoBypass
<1>9. QED  BY <1>3, <1>4, <1>5, <1>6, <1>7, <1>8

LEMMA HelperPreserves ==
  ASSUME HandoffInv, Helper, UNCHANGED clients
  PROVE  HandoffInv'
<1> USE DEF HandoffInv, HandoffTypes, OldShells, Caught, StoppedByHelper, Settled, ProxySettled,
            NoBypass, PrivateIsShells, ShellSocket, Socket, Nobody, Helpers
<1>1. CASE RemovesStale  BY <1>1 DEF RemovesStale, WithoutStale, Sockets
<1>2. CASE Attaches  BY <1>2 DEF Attaches
<1>3. CASE TraceGoesOn  BY <1>3 DEF TraceGoesOn, TargetExists, Traced
<1>4. CASE Freezes  BY <1>4 DEF Freezes
<1>5. CASE Renames  BY <1>5, RenamesPreserves
<1>6. CASE Resumes  BY <1>6 DEF Resumes, Resumed
<1>7. CASE Fails  BY <1>7 DEF Fails
<1>8. QED  BY <1>1, <1>2, <1>3, <1>4, <1>5, <1>6, <1>7 DEF Helper

-----------------------------------------------------------------------------
\* The proxy and its clients.

LEMMA ProxyBindsPreserves ==
  ASSUME HandoffInv, ProxyBinds
  PROVE  HandoffInv'
<1>1. /\ ~ProxySettled
      /\ names' = [names EXCEPT !.public = Socket("proxy", proxy.listener + 1)]
      /\ proxy' = [state |-> "running", listener |-> proxy.listener + 1, signal |-> FALSE]
      /\ UNCHANGED <<plan, shell, helper, wrapper, untraced, failed>>
  BY DEF ProxyBinds, PublicLeadsTo, ProxySettled
<1>2. clients' = [c \in Client |-> IF clients[c].at = "queued" THEN [clients[c] EXCEPT !.at = "lost"]
                                  ELSE clients[c]]
  BY DEF ProxyBinds
<1>3. /\ clients' \in [Client -> [at : {"new", "queued", "accepted", "relayed", "lost", "direct"},
                                  no : Nat]]
      /\ \A c \in Client : clients'[c].at = "direct" => clients'[c] = clients[c]
  BY <1>2 DEF HandoffInv, HandoffTypes
<1> USE <1>1 DEF HandoffInv, HandoffTypes
<1>4. HandoffTypes'  BY <1>3 DEF Sockets, Socket
<1>5. OldShells' /\ PrivateIsShells'  BY DEF OldShells, PrivateIsShells, Socket
<1>6. Caught'  BY DEF Caught, ShellSocket, Socket
<1>7. StoppedByHelper'  BY DEF StoppedByHelper
<1>8. Settled'  BY DEF Settled, ProxySettled
<1>9. NoBypass'  BY <1>3 DEF NoBypass
<1>10. QED  BY <1>4, <1>5, <1>6, <1>7, <1>8, <1>9

LEMMA BindFailurePreserves ==
  ASSUME HandoffInv, ProxyBindFails
  PROVE  HandoffInv'
<1>1. /\ ~ProxySettled
      /\ names' = names \/ names' = [names EXCEPT !.public = Nobody]
      /\ failed' = failed \cup {shell.no} /\ proxy' = [proxy EXCEPT !.signal = FALSE]
      /\ UNCHANGED <<plan, shell, helper, wrapper, untraced, clients>>
  BY DEF ProxyBindFails, ProxySettled
<1> USE <1>1 DEF HandoffInv, HandoffTypes
<1>2. HandoffTypes'
  <2>1. names' \in [public : Sockets, private : Sockets]  BY DEF Sockets, Nobody, Socket
  <2>2. proxy' \in [state : {"off", "launched", "running"}, listener : Nat, signal : BOOLEAN]
    OBVIOUS
  <2>3. QED  BY <2>1, <2>2
<1>3. OldShells' /\ PrivateIsShells'  BY DEF OldShells, PrivateIsShells, Nobody, Socket
<1>4. Caught'  BY DEF Caught, ShellSocket, Socket
<1>5. StoppedByHelper'  BY DEF StoppedByHelper
<1>6. Settled'  BY DEF Settled, ProxySettled
<1>7. NoBypass'  BY DEF NoBypass
<1>8. QED  BY <1>2, <1>3, <1>4, <1>5, <1>6, <1>7

LEMMA ProxyPreserves ==
  ASSUME HandoffInv, Proxy
  PROVE  HandoffInv'
<1> USE DEF HandoffInv, HandoffTypes, OldShells, Caught, StoppedByHelper, Settled, ProxySettled,
            NoBypass, PrivateIsShells, ShellSocket, Socket
<1>1. CASE ProxyBinds  BY <1>1, ProxyBindsPreserves
<1>2. CASE ProxyBindFails  BY <1>2, BindFailurePreserves
<1>3. CASE \E c \in Client : Accepts(c)  BY <1>3 DEF Accepts, handoff
<1>4. CASE \E c \in Client : Relays(c)  BY <1>4 DEF Relays, handoff
<1>5. QED  BY <1>1, <1>2, <1>3, <1>4 DEF Proxy

LEMMA ConnectingPreserves ==
  ASSUME HandoffInv, NEW c \in Client, ClientConnects(c)
  PROVE  HandoffInv'
BY DEF ClientConnects, ProxySocket, handoff, HandoffInv, HandoffTypes, OldShells, Caught,
       StoppedByHelper, Settled, ProxySettled, NoBypass, PrivateIsShells, ShellSocket, Socket

LEMMA HandoffStep == HandoffInv /\ [Next]_vars => HandoffInv'
<1> SUFFICES ASSUME HandoffInv, [Next]_vars
             PROVE  HandoffInv'
  OBVIOUS
<1>1. CASE UNCHANGED <<handoff, clients>>
  BY <1>1 DEF handoff, HandoffInv, HandoffTypes, OldShells, Caught, StoppedByHelper, Settled,
              ProxySettled, NoBypass, PrivateIsShells, ShellSocket
<1>2. CASE HandoffSteps
  BY <1>2, ShellPreserves, HelperPreserves, WrapperPreserves DEF HandoffSteps
<1>3. CASE Proxy  BY <1>3, ProxyPreserves
<1>4. CASE \E c \in Client : ClientConnects(c)  BY <1>4, ConnectingPreserves
<1>5. CASE (\E t \in Transfer : Copies(t)) \/ (TeeNext /\ UNCHANGED <<handoff, clients>>)
  BY <1>1, <1>5 DEF Copies
<1>6. CASE UNCHANGED vars  BY <1>1, <1>6 DEF vars
<1>7. QED  BY <1>2, <1>3, <1>4, <1>5, <1>6 DEF Next

\* A shell that was traced when it bound its socket is never reached directly,
\* unless its hand-off failed (run_ptrace, src/bin/socket-handoff.rs).
THEOREM NobodyBypassesTheProxy == Spec => []NoBypass
<1>1. HandoffInv => NoBypass  BY DEF HandoffInv
<1>2. QED  BY <1>1, InitiallySafe, HandoffStep, PTL DEF Spec

\* The proxy never finds itself behind the private name (main and run_ptrace,
\* src/bin/socket-handoff.rs, with main, src/main.rs).
THEOREM ProxyNeverConnectsToItself == Spec => []PrivateIsShells
<1>1. HandoffInv => PrivateIsShells  BY DEF HandoffInv
<1>2. QED  BY <1>1, InitiallySafe, HandoffStep, PTL DEF Spec

\* Whichever way the helper ends, it has resumed the shell (PtraceGuard and
\* run_sigstop, src/bin/socket-handoff.rs).
THEOREM ShellAlwaysResumed == Spec => []NothingLeftStopped
<1>1. HandoffInv => NothingLeftStopped
  BY DEF HandoffInv, HandoffTypes, StoppedByHelper, NothingLeftStopped
<1>2. QED  BY <1>1, InitiallySafe, HandoffStep, PTL DEF Spec

-----------------------------------------------------------------------------
\* Whatever shells, clients and the hand-off do, the clipboard of a session is
\* the clipboard of the module Clipboard (start_tee is called by connections
\* only, src/lib.rs).
THEOREM SessionsShareAClipboard == Spec => ClipboardSpec
<1>1. Init => ClipboardInit  BY DEF Init
<1>2. [Next]_vars => [ClipboardNext]_clipboard
  <2> SUFFICES ASSUME Next PROVE [ClipboardNext]_clipboard
    BY DEF vars
  <2>1. CASE HandoffSteps  BY <2>1 DEF HandoffSteps
  <2>2. CASE Proxy  BY <2>2 DEF Proxy, ProxyBinds, ProxyBindFails, Accepts, Relays
  <2>3. CASE \E c \in Client : ClientConnects(c)  BY <2>3 DEF ClientConnects
  <2>4. CASE \E t \in Transfer : Copies(t)  BY <2>4 DEF Copies, ClipboardNext
  <2>5. CASE TeeNext  BY <2>5 DEF ClipboardNext
  <2>6. QED  BY <2>1, <2>2, <2>3, <2>4, <2>5 DEF Next
<1>3. QED  BY <1>1, <1>2, PTL DEF Spec, ClipboardSpec

\* So every copy in the cache of a session is whole (pump and
\* ClipboardCache::store, src/clipboard.rs).
THEOREM CopiesOfASessionAreWhole == Spec => []CachedIsWhole
BY SessionsShareAClipboard, CopiesAreWhole
\* And none is replaced by one that was over when it began, across restarts of
\* the shell; of transfers that overlap the last to end stays.
THEOREM EndedCopiesOfASessionDoNotReturn == Spec => []NotOlder
BY SessionsShareAClipboard, EndedCopiesDoNotReturn

-----------------------------------------------------------------------------
\* A shell is numbered by how often it was started, and only those fail.
ShellsNumbered ==
  /\ shell.no <= plan.shells /\ untraced \cup failed \subseteq 1..plan.shells
  /\ shell.no = 0 => wrapper = "start" /\ helper = "off" /\ shell.state = "dead" /\ ~proxy.signal

LEMMA NumberedStep == HandoffInv /\ ShellsNumbered /\ [Next]_vars => ShellsNumbered'
<1> SUFFICES ASSUME HandoffInv, ShellsNumbered, [Next]_vars
             PROVE  ShellsNumbered'
  OBVIOUS
<1> USE DEF ShellsNumbered, HandoffInv, HandoffTypes
<1>1. plan.shells \in Nat  BY HandoffAssumption
<1>2. CASE Shell \/ Wrapper
  <2>1. CASE ShellBindsOther \/ ShellListens \/ ShellDies
    BY <2>1 DEF ShellBindsOther, ShellListens, ShellDies, Alive, Runs
  <2>2. CASE ShellBinds
    BY <1>1, <2>2 DEF ShellBinds, Alive, Runs
  <2>3. CASE StartsShell  BY <1>1, <2>3 DEF StartsShell
  <2>4. CASE HelperReturns \/ TellsProxy \/ ShellReaped
    BY <2>4 DEF HelperReturns, TellsProxy, ShellReaped
  <2>5. QED  BY <1>2, <2>1, <2>2, <2>3, <2>4 DEF Shell, Wrapper
<1>3. CASE Helper
  BY <1>1, <1>3 DEF Helper, RemovesStale, Attaches, TraceGoesOn, Freezes, Renames, Resumes,
     Resumed, Fails, Traced
<1>4. CASE ProxyBinds \/ UNCHANGED handoff  BY <1>4 DEF ProxyBinds, handoff
<1>5. CASE ProxyBindFails
  <2>1. shell.no > 0  BY <1>5 DEF ProxyBindFails
  <2>2. QED  BY <1>1, <1>5, <2>1 DEF ProxyBindFails
<1>6. QED
  BY <1>2, <1>3, <1>4, <1>5
     DEF Next, vars, HandoffSteps, Proxy, ClientConnects, Accepts, Relays, Copies

\* The parts of a session are of their types, however often its shell is
\* started, and the tasks of the clipboard keep within their limit.
THEOREM SessionTypesHold == Spec => []TypeOK
<1>1. Init => ShellsNumbered
  BY HandoffAssumption DEF Init, HandoffInit, ShellsNumbered
<1>2. Spec => []ClipboardTypeOK  BY SessionsShareAClipboard, CopiesAreBounded
<1>3. ClipboardTypeOK /\ HandoffInv /\ ShellsNumbered => TypeOK
  BY DEF TypeOK, HandoffInv, HandoffTypes, Sockets, ShellsNumbered
<1>4. QED  BY <1>1, <1>2, <1>3, InitiallySafe, HandoffStep, NumberedStep, PTL DEF Spec
=============================================================================
