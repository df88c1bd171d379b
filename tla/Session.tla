------------------------------ MODULE Session ------------------------------
(***************************************************************************)
(* The proxy process of a session (src/main.rs): its listener on the       *)
(* public name, which it binds anew on SIGUSR1, a task for each client,    *)
(* and the clipboard cache that all of them share.  With Handoff, which    *)
(* gives and takes the names, and Clipboard, whose transfers belong to     *)
(* clients that the proxy relays.                                          *)
(***************************************************************************)
EXTENDS Handoff, Clipboard

CONSTANTS
  Client,
  owner      \* the client that a transfer copies from

ASSUME OwnerAssumption == owner \in [Transfer -> Client]

VARIABLE
  clients    \* per client: where it is, and which listener or shell it reached

vars == <<handoff, clipboard, clients>>

ProxySocket == Socket("proxy", proxy.listener)

Init ==
  /\ HandoffInit /\ ClipboardInit
  /\ clients = [c \in Client |-> [at |-> "new", no |-> 0]]

-----------------------------------------------------------------------------
\* main.

\* bind_listener, at the start and on SIGUSR1: whoever has the name loses it.
ProxyBinds ==
  /\ proxy.state = "launched" \/ proxy.signal
  /\ proxy' = [state |-> "running", listener |-> proxy.listener + 1, signal |-> FALSE]
  /\ PublicLeadsTo(Socket("proxy", proxy.listener + 1))
  /\ clients' = [c \in Client |-> IF clients[c].at = "queued" THEN [clients[c] EXCEPT !.at = "lost"]
                                  ELSE clients[c]]
  /\ UNCHANGED <<plan, shell, helper, wrapper, untraced, failed, clipboard>>

\* On SIGUSR1 the old listener, which has no name by now, stays if that fails.
\* (The first bind_listener of all is fatal instead: there is no proxy then.)
ProxyBindFails ==
  /\ proxy.signal
  /\ proxy' = [proxy EXCEPT !.signal = FALSE]
  /\ names' \in {names, [names EXCEPT !.public = Nobody]}
  /\ failed' = failed \cup {shell.no}
  /\ UNCHANGED <<plan, shell, helper, created, wrapper, untraced, clipboard, clients>>

\* A client connects to the public name.
ClientConnects(c) ==
  /\ clients[c].at = "new"
  /\ \/ /\ names.public = ShellSocket /\ shell.state = "listening"
        /\ clients' = [clients EXCEPT ![c] = [at |-> "direct", no |-> shell.no]]
     \/ /\ names.public = ProxySocket
        /\ clients' = [clients EXCEPT ![c] = [at |-> "queued", no |-> proxy.listener]]
  /\ UNCHANGED <<handoff, clipboard>>

Accepts(c) ==
  /\ proxy.state = "running" /\ clients[c].at = "queued"
  /\ clients' = [clients EXCEPT ![c].at = "accepted"]
  /\ UNCHANGED <<handoff, clipboard>>

\* The task of a connection, up to run_connection: without a compositor the
\* client is let go.
Relays(c) ==
  /\ clients[c].at = "accepted"
  /\ clients' = [clients EXCEPT ![c] =
       IF names.private = ShellSocket /\ shell.state = "listening"
       THEN [at |-> "relayed", no |-> shell.no] ELSE [@ EXCEPT !.at = "lost"]]
  /\ UNCHANGED <<handoff, clipboard>>

\* The compositor asks a client for its selection.
Copies(t) ==
  /\ t \in plan.copies /\ clients[owner[t]].at = "relayed" /\ Runs
  /\ start_tee(t)
  /\ UNCHANGED <<handoff, clients>>

-----------------------------------------------------------------------------
Proxy == ProxyBinds \/ ProxyBindFails \/ \E c \in Client : Accepts(c) \/ Relays(c)

HandoffSteps == (Shell \/ Helper \/ Wrapper) /\ UNCHANGED <<clipboard, clients>>

Next ==
  \/ HandoffSteps
  \/ Proxy
  \/ \E c \in Client : ClientConnects(c)
  \/ \E t \in Transfer : Copies(t)
  \/ TeeNext /\ UNCHANGED <<handoff, clients>>

(***************************************************************************)
(* Fairness.  The helper, the wrapper and the tasks of the proxy go on     *)
(* while they can, and the helper's deadline passes.  The shell may stop   *)
(* anywhere, and nobody has to connect or to copy anything.                *)
(***************************************************************************)
Spec == Init /\ [][Next]_vars
FairSpec ==
  /\ Spec
  /\ WF_vars((Helper \/ Wrapper) /\ UNCHANGED <<clipboard, clients>>)
  /\ WF_vars(Fails /\ UNCHANGED <<clipboard, clients>>)
  /\ WF_vars(Proxy)
  /\ ClipboardFairness

-----------------------------------------------------------------------------
(***************************************************************************)
(* The parts are of their types, the tasks of the clipboard keep within    *)
(* their limit, and what failed was a shell of this session.               *)
(***************************************************************************)
TypeOK ==
  /\ ClipboardTypeOK
  /\ \A name \in {"public", "private"} : names[name].by \in {"nobody", "shell", "proxy"}
  /\ shell.state \in {"dead", "young", "bound", "listening"}
  /\ shell.stopped \in {"no", "bind", "signal"}
  /\ proxy.state \in {"off", "launched", "running"}
  /\ untraced \cup failed \subseteq 1..plan.shells
  /\ \A c \in Client : clients[c].at \in {"new", "queued", "accepted", "relayed", "lost", "direct"}

(***************************************************************************)
(* No client reaches a shell directly that bound its socket while it was   *)
(* traced and whose hand-off did not fail: the rename is done before the   *)
(* shell can listen, or start a child.                                     *)
(***************************************************************************)
NoBypass ==
  \A c \in Client : clients[c].at = "direct" => clients[c].no \in untraced \cup failed

(***************************************************************************)
(* The private name, where the proxy looks for the compositor, never       *)
(* leads to the proxy's own listener.                                      *)
(***************************************************************************)
PrivateIsShells == names.private.by # "proxy"

(***************************************************************************)
(* However the helper ends, the shell is not left stopped by it: "a        *)
(* permanently frozen compositor is worse than a failed handoff".          *)
(***************************************************************************)
NothingLeftStopped == helper \in {"off", "done", "failed"} => shell.stopped = "no"

(***************************************************************************)
(* Across any number of crashes of the shell: in the end, if it listens    *)
(* and its hand-off did not fail, the private name leads to it and the     *)
(* public name to the listener the proxy has now.                          *)
(***************************************************************************)
PublicComesBack ==
  <>[](shell.state = "listening" /\ shell.no \notin failed =>
         names.private = ShellSocket /\ names.public = ProxySocket /\ proxy.state = "running")
=============================================================================
