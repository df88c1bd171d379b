--------------------------- MODULE PendingFrames ---------------------------
(* The callbacks that still await their done event (src/pending_frames.rs),  *)
(* as the set awaiting_done.                                                 *)
new_pending_frames == {}
on_frame_requested(awaiting_done, callback) == awaiting_done \cup {callback}

\* Wrong: only frame callbacks are taken for promises.
SyncIgnored(awaiting_done, callback) == awaiting_done

on_sync_requested(awaiting_done, callback) == awaiting_done \cup {callback}

\* Wrong: an answered callback stays on the list.
DoneIgnored(awaiting_done, callback) == awaiting_done

on_done_received(awaiting_done, callback) == awaiting_done \ {callback}
drain_awaiting_done(awaiting_done) == {}
=============================================================================
