---------------------------- MODULE Independent ----------------------------
(***************************************************************************)
(* What the kernel promises to user programs: processes that run           *)
(* independently of each other, each on a CPU of its own.  There is no     *)
(* scheduler, no queue and no saved frame here: every process owns its     *)
(* registers ctx[p], and only its own steps and the listed events change   *)
(* them.                                                                   *)
(***************************************************************************)
EXTENDS Integers

CONSTANTS Procs, None,
    Points     \* the points of a program

VARIABLES
    alive,     \* the processes that exist
    born,      \* the pids that were ever used
    ctx,       \* the registers [pc, eax] of each process
    waiting,   \* the process it waits for, or None
    status     \* the kind of status its last wait reported

avars == <<alive, born, ctx, waiting, status>>

Start ==
    /\ alive = {1}
    /\ born = {1}
    /\ ctx = [p \in Procs |-> [pc |-> 0, eax |-> 0]]
    /\ waiting = [p \in Procs |-> None]
    /\ status = [p \in Procs |-> "none"]

Running(p) == p \in alive /\ waiting[p] = None

\* Registers after an event: those in S changed by the event, no others.
Touches(S) == ctx' = [p \in Procs |-> IF p \in S THEN ctx'[p] ELSE ctx[p]]

\* The end of t, or a signal to it, resumes the processes that wait for it:
\* each finds t in eax and the status.
Told(t) == {q \in alive : waiting[q] = t}
Tell(t, what) ==
    /\ \A q \in Told(t) : ctx'[q] = [ctx[q] EXCEPT !.eax = t]
    /\ waiting' = [q \in Procs |-> IF q \in Told(t) THEN None ELSE waiting[q]]
    /\ status' = [q \in Procs |-> IF q \in Told(t) THEN what ELSE status[q]]

\* p computes, makes a system call that concerns only itself, or is given the
\* signal it handles.
Step(p) ==
    /\ Running(p)
    /\ Touches({p})
    /\ ctx'[p].pc \in Points
    /\ UNCHANGED <<alive, born, waiting, status>>

\* fork: the new process is a copy of p that sees 0 where p sees the new pid.
Fork(p, c) ==
    /\ Running(p)
    /\ c \notin born
    /\ alive' = alive \cup {c}
    /\ born' = born \cup {c}
    /\ ctx' = [ctx EXCEPT ![p].eax = c, ![c] = [ctx[p] EXCEPT !.eax = 0]]
    /\ UNCHANGED <<waiting, status>>

\* waitpid: p stops until t has ended.
Wait(p, t) ==
    /\ Running(p)
    /\ t \in alive
    /\ Touches({p})
    /\ ctx'[p].pc = ctx[p].pc
    /\ waiting' = [waiting EXCEPT ![p] = t]
    /\ UNCHANGED <<alive, born, status>>

\* t ends, by its own exit, by a page fault or by p's kill; those who wait for it
\* are told.
End(p, t) ==
    /\ Running(p)
    /\ t \in alive
    /\ alive' = alive \ {t}
    /\ Touches({p, t} \cup Told(t))
    /\ \/ (Tell(t, "exit") \/ Tell(t, "fault")) /\ p = t
       \/ Tell(t, "signal")
    /\ UNCHANGED born

\* Another fault ends p, and nobody is told.
Crash(p) ==
    /\ Running(p)
    /\ alive' = alive \ {p}
    /\ Touches({p})
    /\ UNCHANGED <<born, waiting, status>>

\* p sends t a signal: those who wait for t are told.
Raise(p, t) ==
    /\ Running(p)
    /\ t \in alive
    /\ Touches({p} \cup Told(t))
    /\ Tell(t, "signal")
    /\ UNCHANGED <<alive, born>>

Act ==
    \/ \E p \in Procs : Step(p) \/ Crash(p)
    \/ \E p, t \in Procs : Fork(p, t) \/ Wait(p, t) \/ End(p, t) \/ Raise(p, t)

Contract == Start /\ [][Act]_avars
=============================================================================
