------------------------------ MODULE Handoff ------------------------------
(***************************************************************************)
(* How a compositor that binds the public socket name is moved to the      *)
(* private one: gnome-shell, the wrapper that restarts it                  *)
(* (packaging/wl-res-gnome-shell-direct-session-wrapper.sh) and the helper *)
(* that takes its socket over (src/bin/socket-handoff.rs).                 *)
(*                                                                         *)
(* A name leads to the listening socket that was bound there last.  Who    *)
(* binds a name takes it from whoever had it: the proxy removes the file   *)
(* first, and so does the compositor, which checks no listener's life.     *)
(***************************************************************************)
EXTENDS Integers

CONSTANTS
  Plans        \* what a behaviour is limited to: [method, shells, copies], the way to
               \*   freeze the shell, how often it is started, and (in Session)
               \*   what is copied

ASSUME HandoffAssumption ==
  \A p \in Plans : p.method \in {"ptrace", "sigstop"} /\ p.shells \in Nat \ {0}

VARIABLES
  plan,
  names,       \* per name, the socket that it leads to
  shell,       \* the compositor: its number, its state, and by what it is stopped
  helper,      \* where socket-handoff is, and how it ended
  created,     \* inotify has an event for the public name
  wrapper,     \* what the wrapper does next
  proxy,       \* the proxy's state, its listener, and whether SIGUSR1 is pending
  untraced,    \* the shells that bound their socket while they were not traced
  failed       \* the shells whose hand-off failed somewhere on the way

handoff == <<plan, names, shell, helper, created, wrapper, proxy, untraced, failed>>

Socket(by, no) == [by |-> by, no |-> no]
Nobody == Socket("nobody", 0)
ShellSocket == Socket("shell", shell.no)

HandoffInit ==
  /\ plan \in Plans
  /\ names = [public |-> Nobody, private |-> Nobody]
  /\ shell = [no |-> 0, state |-> "dead", stopped |-> "no"]
  /\ helper = "off" /\ created = FALSE
  /\ wrapper = "start"
  /\ proxy = [state |-> "off", listener |-> 0, signal |-> FALSE]
  /\ untraced = {} /\ failed = {}

Alive == shell.state # "dead"
Runs == Alive /\ shell.stopped = "no"
Traced == helper = "traced"

\* A file of the public name is made: the watch notices.
PublicLeadsTo(socket) ==
  /\ names' = [names EXCEPT !.public = socket]
  /\ created' = (created \/ helper = "watching")

-----------------------------------------------------------------------------
\* gnome-shell.  While it is traced, each bind() stops it on its way out.

ShellBindsOther ==
  /\ Runs /\ Traced
  /\ shell' = [shell EXCEPT !.stopped = "bind"]
  /\ UNCHANGED <<plan, names, helper, created, wrapper, proxy, untraced, failed>>

ShellBinds ==
  /\ Runs /\ shell.state = "young"
  /\ shell' = [shell EXCEPT !.state = "bound", !.stopped = IF Traced THEN "bind" ELSE @]
  /\ PublicLeadsTo(ShellSocket)
  /\ untraced' = IF Traced THEN untraced ELSE untraced \cup {shell.no}
  /\ UNCHANGED <<plan, helper, wrapper, proxy, failed>>

ShellListens ==
  /\ Runs /\ shell.state = "bound"
  /\ shell' = [shell EXCEPT !.state = "listening"]
  /\ UNCHANGED <<plan, names, helper, created, wrapper, proxy, untraced, failed>>

\* Its socket file stays.
ShellDies ==
  /\ Alive /\ shell.no < plan.shells
  /\ shell' = [shell EXCEPT !.state = "dead", !.stopped = "no"]
  /\ UNCHANGED <<plan, names, helper, created, wrapper, proxy, untraced, failed>>

-----------------------------------------------------------------------------
\* The wrapper.

\* The proxy has bound its listener, and handled the last signal.
ProxySettled == proxy.state # "launched" /\ ~proxy.signal

\* A restart takes a second and more: the proxy is assumed to be done by then.
StartsShell ==
  /\ wrapper = "start" /\ shell.no < plan.shells /\ ProxySettled
  /\ shell' = [no |-> shell.no + 1, state |-> "young", stopped |-> "no"]
  /\ helper' = "stale" /\ created' = FALSE
  /\ wrapper' = "handoff"
  /\ UNCHANGED <<plan, names, proxy, untraced, failed>>

HelperReturns ==
  /\ wrapper = "handoff" /\ helper \in {"done", "failed"}
  /\ helper' = "off"
  /\ wrapper' = IF helper = "done" THEN "tell" ELSE "wait"
  /\ UNCHANGED <<plan, names, shell, created, proxy, untraced, failed>>

\* Wrong: start, whether or not the proxy runs, does nothing if it does.
StartedOnly == IF proxy.state = "off" THEN [proxy EXCEPT !.state = "launched"] ELSE proxy
Told ==
  IF proxy.state = "off" THEN [proxy EXCEPT !.state = "launched"]
  ELSE [proxy EXCEPT !.signal = TRUE]

TellsProxy ==
  /\ wrapper = "tell"
  /\ proxy' = Told
  /\ wrapper' = "wait"
  /\ UNCHANGED <<plan, names, shell, helper, created, untraced, failed>>

ShellReaped ==
  /\ wrapper = "wait" /\ ~Alive
  /\ wrapper' = "start"
  /\ UNCHANGED <<plan, names, shell, helper, created, proxy, untraced, failed>>

-----------------------------------------------------------------------------
\* socket-handoff.

\* Wrong: a stale file stays, since only new ones are noticed.
WithStale == names
WithoutStale == [names EXCEPT !.public = Nobody]

RemovesStale ==
  /\ helper = "stale"
  /\ names' = WithoutStale
  /\ helper' = "attach"
  /\ UNCHANGED <<plan, shell, created, wrapper, proxy, untraced, failed>>

\* PTRACE_SEIZE, or the watch of inotify.
Attaches ==
  /\ helper = "attach" /\ (plan.method = "ptrace" => Alive)
  /\ helper' = IF plan.method = "ptrace" THEN "traced" ELSE "watching"
  /\ UNCHANGED <<plan, names, shell, created, wrapper, proxy, untraced, failed>>

\* Every way out by an error detaches: no permission, the target gone, the deadline.
Fails ==
  /\ helper \in {"stale", "attach", "traced", "watching"}
  /\ helper' = "failed"
  /\ shell' = [shell EXCEPT !.stopped = "no"]
  /\ failed' = failed \cup {shell.no}
  /\ UNCHANGED <<plan, names, created, wrapper, proxy, untraced>>

\* Wrong: the helper waits until the socket can be connected to.
Connectable == names.public # Nobody /\ shell.state = "listening"
\* target_path.exists()
TargetExists == names.public # Nobody

\* A bind() that was not the awaited one.
TraceGoesOn ==
  /\ Traced /\ shell.stopped = "bind" /\ ~TargetExists
  /\ shell' = [shell EXCEPT !.stopped = "no"]
  /\ UNCHANGED <<plan, names, helper, created, wrapper, proxy, untraced, failed>>

\* An event for the public name, some time after the fact.
Freezes ==
  /\ helper = "watching" /\ created
  /\ shell' = [shell EXCEPT !.stopped = IF Alive THEN "signal" ELSE @]
  /\ helper' = "frozen"
  /\ UNCHANGED <<plan, names, created, wrapper, proxy, untraced, failed>>

\* The rename, if it can be done, of whatever has the public name by now.
Renames ==
  /\ \/ Traced /\ shell.stopped = "bind" /\ TargetExists
     \/ helper = "frozen"
  /\ \/ /\ names.public # Nobody
        /\ names' = [private |-> names.public, public |-> Nobody]
        /\ helper' = "renamed" /\ failed' = failed
     \/ /\ helper' = "unrenamed" /\ failed' = failed \cup {shell.no}
        /\ names' = names
  /\ UNCHANGED <<plan, shell, created, wrapper, proxy, untraced>>

\* Wrong: a failed rename is returned before the target is resumed.
ResumedOnSuccess == IF helper = "renamed" THEN [shell EXCEPT !.stopped = "no"] ELSE shell
Resumed == [shell EXCEPT !.stopped = "no"]

\* SIGCONT or PTRACE_DETACH, whatever became of the rename.
Resumes ==
  /\ helper \in {"renamed", "unrenamed"}
  /\ shell' = Resumed
  /\ helper' = IF helper = "renamed" THEN "done" ELSE "failed"
  /\ UNCHANGED <<plan, names, created, wrapper, proxy, untraced, failed>>

-----------------------------------------------------------------------------
Shell == ShellBindsOther \/ ShellBinds \/ ShellListens \/ ShellDies
Helper ==
  \/ RemovesStale \/ Attaches \/ TraceGoesOn \/ Freezes \/ Renames \/ Resumes
  \/ Fails
Wrapper == StartsShell \/ HelperReturns \/ TellsProxy \/ ShellReaped
=============================================================================
