----------------------------- MODULE MCSession -----------------------------
(***************************************************************************)
(* An instance of Session for TLC: two clients, and two copies by the same *)
(* one, of which the second is too long to be cached.  The shell crashes   *)
(* twice, or once while one selection is copied, or not at all while both  *)
(* are.                                                                    *)
(***************************************************************************)
EXTENDS Session

CONSTANTS Short, Long, Text, c1, c2

MCClient == {c1, c2}
MCTransfer == {Short, Long}
MCMime == {Text}
MCMimeOf == [t \in MCTransfer |-> Text]
MCOwner == [t \in MCTransfer |-> c1]
MCLength == [t \in MCTransfer |-> IF t = Short THEN 1 ELSE 4]
MCPlans == { [method |-> "ptrace", shells |-> 3, copies |-> {}],
             [method |-> "sigstop", shells |-> 3, copies |-> {}],
             [method |-> "ptrace", shells |-> 2, copies |-> {Short}],
             [method |-> "ptrace", shells |-> 1, copies |-> MCTransfer] }
=============================================================================
