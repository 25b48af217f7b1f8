------------------------- MODULE ProcessRefinement -------------------------
(***************************************************************************)
(* The scheduler implements independent processes.  A process's registers  *)
(* are in the CPU while it is current, and in its saved frame otherwise;   *)
(* the queue, the marks READY and RUNNING, the idle process and the timer  *)
(* are invisible.                                                          *)
(***************************************************************************)
EXTENDS Process

Registers == [p \in Procs |-> IF p = current_process THEN cpu ELSE regs[p]]

Abstract == INSTANCE Independent WITH
    Points  <- PCs,
    alive   <- Live,
    born    <- 1 .. process_next_pid - 1,
    ctx     <- Registers,
    waiting <- [p \in Procs |-> waitpid[p]],
    status  <- [p \in Procs |-> wstatus[p]]

\* The process that is switched to may find itself in its signal handler.
Entered == {p \in {current_process'} : Registers'[p] = Goto(Registers[p], HandlerPC)}

\* The scheduler switches from one process, or idle, to another process: nobody
\* else's registers change.
Switch == current_process' \notin {current_process, Idle} /\ asleep = None
SwitchKeeps == Abstract!Touches(Entered)

\* A switch inside a network answer: the process that was running loses its
\* registers to the frame of the handler that is left.
Abandoned ==
    /\ current_process # Idle
    /\ Registers'[current_process].pc = KernelPC
    /\ Abstract!Touches({current_process} \cup Entered)
    /\ UNCHANGED <<Live, process_next_pid, waitpid, wstatus>>

\* Every run of the scheduler is a run of independent processes: no context
\* switch, device wait, signal, exit, kill or fault changes, loses or mixes up
\* the registers of a process that did not ask for it, and the results of fork
\* and waitpid reach exactly the process that is due them (process_unload,
\* process_switch, process_reload, process_notify_waitpid and the stubs).  The
\* one exception is a timer tick inside the handler of a network interrupt that
\* answers, with interrupts enabled (e1000.c:348): it costs the process that was
\* interrupted its registers, and no other.
ProcessesAreIndependent ==
    /\ Abstract!Start
    /\ [][Abstract!Act \/ Abandoned]_(Abstract!avars)
    /\ [][Switch => SwitchKeeps \/ Abandoned]_vars
=============================================================================
