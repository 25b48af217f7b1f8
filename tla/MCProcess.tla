----------------------------- MODULE MCProcess -----------------------------
(***************************************************************************)
(* Model checking the scheduler.                                           *)
(***************************************************************************)
EXTENDS ProcessRefinement

\* Two states that differ only in data no action reads are one state: the saved
\* frame of the process that is running (process_unload overwrites it before
\* anybody looks at it), and the contents of freed records.
Seen(f, p, blank) == IF p = Idle \/ p \in Live THEN f[p] ELSE blank
View ==
    <<process_next_pid, ready_queue, current_process, round_robin, cpu, asleep,
      panicked, aligned, fate, parent,
      [p \in Pids |-> IF p = current_process THEN cpu ELSE Seen(regs, p, cpu)],
      [p \in Pids |-> Seen(state, p, "NEW")],
      [p \in Pids |-> Seen(suspended, p, FALSE)],
      [p \in Pids |-> Seen(waitpid, p, 0)],
      [p \in Pids |-> Seen(signal, p, 0)],
      [p \in Pids |-> Seen(sig_handle, p, FALSE)],
      [p \in Pids |-> Seen(wstatus, p, "none")]>>
=============================================================================
