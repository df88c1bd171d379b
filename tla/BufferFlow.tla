----------------------------- MODULE BufferFlow -----------------------------
(* The in-flight buffers (src/buffer_flow.rs).  pending_attach[s] is 0 both  *)
(* for a null attach and for a surface that never attached: on_commit treats *)
(* the two alike.                                                            *)
new_buffer_flow(ids) == [pending_attach |-> [s \in ids |-> 0], in_flight |-> {}]

on_attach(t, surface, buffer) == [t EXCEPT !.pending_attach[surface] = buffer]

\* Wrong: only the buffer committed last is remembered.
OnlyLastCommit(t, surface) ==
  [t EXCEPT !.in_flight = {t.pending_attach[surface]} \ {0}]

on_commit(t, surface) ==
  [t EXCEPT !.in_flight = @ \cup ({t.pending_attach[surface]} \ {0})]

on_release(t, buffer) == [t EXCEPT !.in_flight = @ \ {buffer}]

drain_in_flight(t) == [t EXCEPT !.in_flight = {}]
=============================================================================
