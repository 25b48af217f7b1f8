--------------------------- MODULE ProcessProofs ---------------------------
(***************************************************************************)
(* Type correctness and the safety of the scheduler, for every number of   *)
(* processes and every set of calls the programs make.                     *)
(***************************************************************************)
EXTENDS ProcessRefinement, TLAPS

-----------------------------------------------------------------------------
(* Unlinking a node (process_remove_ready_queue).                          *)

Elems(q) == {q[k] : k \in 1 .. Len(q)}

Increasing(q) == \A i, j \in 1 .. Len(q) : i < j => q[i] < q[j]

\* What is left after unlinking is again a queue of processes.
LEMMA UnlinkType ==
    ASSUME NEW q \in Seq(Procs), NEW p
    PROVE  Unlink(q, p) \in Seq(Procs)
<1> DEFINE i == CHOOSE k \in 1 .. Len(q) : q[k] = p
<1>1. CASE Len(q) = 0
  <2>1. Unlink(q, p) = << >>
    BY <1>1 DEF Unlink
  <2> QED BY <2>1
<1>2. CASE Len(q) # 0
  <2>1. Len(q) - 1 \in Nat
    BY <1>2
  <2>2. \A k \in 1 .. Len(q) - 1 : q[k] \in Procs /\ q[k + 1] \in Procs
    BY <2>1
  <2>3. Unlink(q, p) = [k \in 1 .. Len(q) - 1 |-> IF k < i THEN q[k] ELSE q[k + 1]]
    BY DEF Unlink
  <2>4. Unlink(q, p) \in [1 .. Len(q) - 1 -> Procs]
    BY <2>2, <2>3
  <2> QED BY <2>1, <2>4
<1> QED BY <1>1, <1>2

\* Unlinking p from an increasing queue removes p, nothing else, and keeps the
\* order.
LEMMA UnlinkQueue ==
    ASSUME NEW q \in Seq(Procs), Increasing(q), NEW p, NEW m \in 1 .. Len(q), q[m] = p
    PROVE  /\ Increasing(Unlink(q, p))
           /\ Elems(Unlink(q, p)) = Elems(q) \ {p}
<1> DEFINE i == CHOOSE k \in 1 .. Len(q) : q[k] = p
           u == Unlink(q, p)
<1>1. i \in 1 .. Len(q) /\ q[i] = p
  OBVIOUS
<1>2. Len(q) - 1 \in Nat /\ Len(q) \in Nat
  OBVIOUS
<1>3. u = [k \in 1 .. Len(q) - 1 |-> IF k < i THEN q[k] ELSE q[k + 1]]
  BY DEF Unlink
<1>4. u \in Seq(Procs)
  BY UnlinkType
<1>5. Len(u) = Len(q) - 1
  BY <1>2, <1>3, <1>4
<1> HIDE DEF i, u
<1>6. \A k \in 1 .. Len(u) : u[k] = IF k < i THEN q[k] ELSE q[k + 1]
  BY <1>3, <1>5
<1>7. \A k \in 1 .. Len(q) : q[k] \in Procs /\ q[k] \in Int
  BY MaxPidAssumption DEF Procs
<1>8. ASSUME NEW a \in 1 .. Len(q), NEW b \in 1 .. Len(q), a < b
      PROVE  q[a] < q[b]
  BY <1>8 DEF Increasing
<1>9. Increasing(u)
  <2> SUFFICES ASSUME NEW a \in 1 .. Len(q) - 1, NEW b \in 1 .. Len(q) - 1, a < b
               PROVE  u[a] < u[b]
    BY <1>5 DEF Increasing
  <2>1. u[a] \in {q[a], q[a + 1]} /\ (u[a] = q[a + 1] \/ a < i)
    BY <1>5, <1>6
  <2>2. (u[b] = q[b] /\ b < i) \/ u[b] = q[b + 1]
    BY <1>5, <1>6
  <2>3. a + 1 \in 1 .. Len(q) /\ b + 1 \in 1 .. Len(q) /\ a \in 1 .. Len(q) /\ b \in 1 .. Len(q)
    BY <1>2
  <2>4. CASE a < i
    <3>1. u[a] = q[a]
      BY <2>4, <1>5, <1>6
    <3> QED BY <3>1, <2>2, <2>3, <1>8
  <2>5. CASE ~(a < i)
    <3>1. u[a] = q[a + 1] /\ u[b] = q[b + 1]
      BY <2>5, <1>1, <1>5, <1>6
    <3> QED BY <3>1, <2>3, <1>8
  <2> QED BY <2>4, <2>5
<1>10. ASSUME NEW a \in 1 .. Len(q), a # i
       PROVE  q[a] # p
  <2>1. q[a] \in Int /\ q[i] \in Int
    BY <1>1, <1>7
  <2>2. a < i => q[a] < q[i]
    BY <1>1, <1>8
  <2>3. i < a => q[i] < q[a]
    BY <1>1, <1>8
  <2>4. a < i \/ i < a
    BY <1>1, <1>2, <1>10
  <2> QED BY <2>1, <2>2, <2>3, <2>4, <1>1
<1>11. \A k \in 1 .. Len(u) : \E n \in 1 .. Len(q) : u[k] = q[n] /\ q[n] # p
  <2> SUFFICES ASSUME NEW k \in 1 .. Len(q) - 1
               PROVE  \E n \in 1 .. Len(q) : u[k] = q[n] /\ q[n] # p
    BY <1>5
  <2>1. k \in 1 .. Len(q) /\ k + 1 \in 1 .. Len(q)
    BY <1>2
  <2>2. CASE k < i
    <3>1. u[k] = q[k] /\ k # i
      BY <2>2, <1>5, <1>6, <1>1
    <3> QED BY <3>1, <2>1, <1>10
  <2>3. CASE ~(k < i)
    <3>1. u[k] = q[k + 1] /\ k + 1 # i
      BY <2>3, <1>5, <1>6, <1>1
    <3> QED BY <3>1, <2>1, <1>10
  <2> QED BY <2>2, <2>3
<1>12. \A n \in 1 .. Len(q) : q[n] # p => \E k \in 1 .. Len(u) : u[k] = q[n]
  <2> SUFFICES ASSUME NEW n \in 1 .. Len(q), q[n] # p
               PROVE  \E k \in 1 .. Len(u) : u[k] = q[n]
    OBVIOUS
  <2>1. CASE n < i
    <3>1. n \in 1 .. Len(u) /\ u[n] = q[n]
      BY <2>1, <1>1, <1>2, <1>5, <1>6
    <3> QED BY <3>1
  <2>2. CASE n > i
    <3>1. n - 1 \in 1 .. Len(u) /\ u[n - 1] = q[n]
      BY <2>2, <1>1, <1>2, <1>5, <1>6
    <3> QED BY <3>1
  <2>3. n # i
    BY <1>1
  <2> QED BY <2>1, <2>2, <2>3, <1>1, <1>2
<1>13. {u[k] : k \in 1 .. Len(u)} = {q[k] : k \in 1 .. Len(q)} \ {p}
  <2>1. ASSUME NEW x \in {u[k] : k \in 1 .. Len(u)}
        PROVE  x \in {q[k] : k \in 1 .. Len(q)} \ {p}
    BY <1>11
  <2>2. ASSUME NEW x \in {q[k] : k \in 1 .. Len(q)} \ {p}
        PROVE  x \in {u[k] : k \in 1 .. Len(u)}
    BY <1>12
  <2> QED BY <2>1, <2>2
<1> QED BY <1>9, <1>13 DEF u, Elems

-----------------------------------------------------------------------------
(* Type correctness.                                                       *)

\* The pieces of the handlers build frames out of frames.
LEMMA FrameTypes ==
    ASSUME TypeOK
    PROVE  /\ Trap \in Frames
           /\ \A r \in Frames, p \in Pids : Deliver(r, p) \in Frames
           /\ \A r \in Frames, x \in Int : Result(r, x) \in Frames
           /\ \A r \in Frames, x \in PCs \cup {KernelPC} : Goto(r, x) \in Frames
           /\ \A S : \A f \in [Pids -> Frames], p \in Pids : Notified(f, S, p) \in [Pids -> Frames]
           /\ Pids \subseteq Int
<1>1. \A r \in Frames, x \in Int : Result(r, x) \in Frames
  BY DEF Frames, Result
<1>2. \A r \in Frames, x \in PCs \cup {KernelPC} : Goto(r, x) \in Frames
  BY DEF Frames, Goto
<1>3. Trap \in Frames
  BY <1>1 DEF Trap, CallNo, TypeOK
<1>4. \A r \in Frames, p \in Pids : Deliver(r, p) \in Frames
  BY <1>2 DEF Deliver, PCs
<1>5. Pids \subseteq Int
  BY MaxPidAssumption DEF Pids
<1>6. \A S : \A f \in [Pids -> Frames], p \in Pids : Notified(f, S, p) \in [Pids -> Frames]
  BY <1>1, <1>5 DEF Notified
<1> QED BY <1>1, <1>2, <1>3, <1>4, <1>5, <1>6

\* At boot every variable has its type.
LEMMA InitType == Init => TypeOK
<1> SUFFICES ASSUME Init PROVE TypeOK
  OBVIOUS
<1>1. 1 \in Procs /\ 1 \in Pids /\ 0 \in Pids /\ 2 \in 2 .. MaxPid + 1
  BY MaxPidAssumption DEF Procs, Pids
<1>2. ready_queue \in Seq(Procs)
  BY <1>1 DEF Init
<1>3. [pc |-> 0, eax |-> 0] \in Frames
  BY DEF Frames, PCs
<1> QED BY <1>1, <1>2, <1>3 DEF Init, TypeOK, States, Fates, None, Idle

\* Every action keeps the types.
LEMMA NextType == TypeOK /\ [Next]_vars => TypeOK'
<1> SUFFICES ASSUME TypeOK, [Next]_vars PROVE TypeOK'
  OBVIOUS
<1> USE DEF States, Fates, None, Idle
<1>0. /\ 0 \in Pids /\ 1 \in Pids /\ Procs \subseteq Pids
      /\ process_next_pid \in Int
      /\ \A S, p : Notify(S, p, "exit") \/ Notify(S, p, "signal") \/ Notify(S, p, "fault") =>
            /\ waitpid' \in [Pids -> Pids]
            /\ suspended' \in [Pids -> BOOLEAN]
            /\ wstatus' \in [Pids -> {"none", "exit", "signal", "fault"}]
      /\ \A p \in Pids, how \in Fates : Destroy(p, how) =>
            /\ ready_queue' \in Seq(Procs)
            /\ parent' \in [Pids -> Pids]
            /\ fate' \in [Pids -> Fates]
  <2>1. 0 \in Pids /\ 1 \in Pids /\ Procs \subseteq Pids /\ process_next_pid \in Int
    BY MaxPidAssumption DEF Pids, Procs, TypeOK
  <2>2. ASSUME NEW S, NEW p, NEW what \in {"exit", "signal", "fault"}, Notify(S, p, what)
        PROVE  /\ waitpid' \in [Pids -> Pids]
               /\ suspended' \in [Pids -> BOOLEAN]
               /\ wstatus' \in [Pids -> {"none", "exit", "signal", "fault"}]
    BY <2>1, <2>2 DEF Notify, TypeOK
  <2>3. ASSUME NEW p \in Pids, NEW how \in Fates, Destroy(p, how)
        PROVE  /\ ready_queue' \in Seq(Procs)
               /\ parent' \in [Pids -> Pids]
               /\ fate' \in [Pids -> Fates]
    <3>1. ready_queue' \in Seq(Procs)
      BY <2>3, UnlinkType DEF Destroy, TypeOK
    <3> QED BY <2>3, <3>1 DEF Destroy, TypeOK
  <2> QED BY <2>1, <2>2, <2>3
<1>F. cpu \in Frames /\ regs \in [Pids -> Frames] /\ current_process \in Pids
  BY DEF TypeOK
<1>S. Save(Trap) \in [Pids -> Frames] /\ Save(cpu) \in [Pids -> Frames]
  BY <1>F, FrameTypes DEF Save
<1>N. ASSUME NEW t, NoSuchProcess(t) PROVE TypeOK'
  <2>1. cpu' = Result(cpu, ESRCH) /\ ESRCH \in Int
    BY <1>N DEF NoSuchProcess, Return, ESRCH
  <2>2. cpu' \in Frames
    BY <2>1, <1>F, FrameTypes
  <2>3. regs' \in [Pids -> Frames] /\ state' \in [Pids -> States]
    BY <1>N, <1>F, <1>S, FrameTypes DEF NoSuchProcess, Return, TypeOK
  <2> QED BY <1>N, <2>2, <2>3 DEF NoSuchProcess, Return, TypeOK
<1>1. CASE Compute
  <2>1. PICK v \in {0, 1} : cpu' = Goto(cpu, v)
    BY <1>1 DEF Compute
  <2>2. cpu' \in Frames
    BY <2>1, FrameTypes DEF PCs, TypeOK
  <2> QED BY <1>1, <2>2 DEF Compute, TypeOK
<1>2. CASE SysGetppid
  <2>1. cpu' \in Frames /\ regs' \in [Pids -> Frames]
    BY <1>2, <1>0, <1>S, FrameTypes DEF SysGetppid, Return, TypeOK
  <2> QED BY <1>2, <1>0, <2>1 DEF SysGetppid, Return, TypeOK
<1>3. CASE SysFork
  <2> DEFINE c == process_next_pid
             p == current_process
  <2>1. c \in Procs /\ c \in Pids /\ c + 1 \in 2 .. MaxPid + 1 /\ p \in Pids /\ c \in Int
    BY <1>3, MaxPidAssumption DEF SysFork, TypeOK, Pids, Procs
  <2>2. cpu' \in Frames
    BY <1>3, <1>F, <2>1, FrameTypes DEF SysFork
  <2>3. regs' = [Save(Trap) EXCEPT ![c] = Result(Trap, 0)] /\ Trap \in Frames
    BY <1>3, <1>S, FrameTypes DEF SysFork
  <2>4. Result(Trap, 0) \in Frames
    BY <2>3, FrameTypes
  <2>5. ready_queue' \in Seq(Procs)
    BY <1>3, <2>1 DEF SysFork, TypeOK, Link
  <2> HIDE DEF c, p
  <2>6. regs' \in [Pids -> Frames]
    BY <1>S, <2>1, <2>3, <2>4
  <2>7. parent' \in [Pids -> Pids] /\ state' \in [Pids -> States]
    BY <1>3, <2>1 DEF SysFork, TypeOK, c, p
  <2> QED BY <1>3, <2>1, <2>2, <2>5, <2>6, <2>7 DEF SysFork, TypeOK, c
<1>4. CASE SysExit
  <2>1. PICK code \in ExitCodes : ReturnToIdle(code)
    BY <1>4 DEF SysExit
  <2>2. code \in Int
    BY DEF ExitCodes
  <2>3. cpu' \in Frames
    BY <2>1, <2>2, <1>0, <1>F, FrameTypes DEF ReturnToIdle
  <2>4. regs' \in [Pids -> Frames]
    BY <1>4, <1>F, <1>S, FrameTypes DEF SysExit
  <2> QED BY <1>4, <1>0, <2>1, <2>3, <2>4 DEF SysExit, ReturnToIdle, TypeOK
<1>5. CASE Fault
  <2>1. cpu' \in Frames /\ regs' \in [Pids -> Frames]
    BY <1>5, <1>0, <1>S, FrameTypes DEF Fault, TypeOK
  <2> QED BY <1>5, <1>0, <2>1 DEF Fault, TypeOK
<1>18. CASE PageFault
  <2>1. cpu' \in Frames /\ regs' \in [Pids -> Frames]
    BY <1>18, <1>0, <1>S, FrameTypes DEF PageFault, TypeOK
  <2> QED BY <1>18, <1>0, <2>1 DEF PageFault, TypeOK
<1>6. ASSUME NEW t \in Pids, SysWaitpid(t) PROVE TypeOK'
  <2>1. ASSUME WaitFor(t) PROVE TypeOK'
    <3>1. cpu' \in Frames
      BY <2>1, <1>0, <1>F, FrameTypes DEF WaitFor, ReturnToIdle
    <3>2. regs' \in [Pids -> Frames]
      BY <2>1, <1>F, <1>S, FrameTypes DEF WaitFor
    <3>3. waitpid' \in [Pids -> Pids]
      BY <2>1, <1>F DEF WaitFor, TypeOK
    <3>4. suspended' \in [Pids -> BOOLEAN]
      BY <2>1, <1>F DEF WaitFor, TypeOK
    <3>5. state' \in [Pids -> States]
      BY <2>1, <1>0, <1>F DEF WaitFor, TypeOK
    <3> QED BY <2>1, <1>0, <3>1, <3>2, <3>3, <3>4, <3>5 DEF WaitFor, ReturnToIdle, TypeOK
  <2> QED BY <1>6, <1>N, <2>1 DEF SysWaitpid
<1>7. ASSUME NEW t \in Pids, SysKill(t) PROVE TypeOK'
  <2>0. Target(t) \in Pids
    BY <1>F DEF Target
  <2>1. ASSUME NEW u \in Pids, KillTarget(u)
        PROVE  /\ regs' \in [Pids -> Frames]
               /\ ready_queue' \in Seq(Procs) /\ parent' \in [Pids -> Pids]
               /\ fate' \in [Pids -> Fates] /\ waitpid' \in [Pids -> Pids]
               /\ suspended' \in [Pids -> BOOLEAN]
               /\ wstatus' \in [Pids -> {"none", "exit", "signal", "fault"}]
               /\ UNCHANGED <<process_next_pid, signal, sig_handle, aligned>>
    <3>2. regs' \in [Pids -> Frames]
      BY <2>1, <1>S, FrameTypes DEF KillTarget
    <3>3. \E how \in Fates : Destroy(u, how)
      BY <2>1 DEF KillTarget
    <3>4. Notify(Live, u, "signal")
      BY <2>1 DEF KillTarget
    <3> QED BY <2>1, <1>0, <3>2, <3>3, <3>4 DEF KillTarget
  <2>2. ASSUME NEW u \in Pids, KillSelf(u) PROVE TypeOK'
    <3>1. cpu' \in Frames
      BY <2>2, <1>0, <1>F, FrameTypes DEF KillSelf, ReturnToIdle
    <3>2. state' \in [Pids -> States]
      BY <2>2, <1>0 DEF KillSelf, TypeOK
    <3> QED BY <2>1, <2>2, <1>0, <3>1, <3>2 DEF KillSelf, ReturnToIdle, TypeOK
  <2>3. ASSUME NEW u \in Pids, KillOther(u) PROVE TypeOK'
    <3>1. cpu' \in Frames
      BY <2>3, <1>F, FrameTypes DEF KillOther
    <3>2. state' \in [Pids -> States]
      BY <2>3, <1>F DEF KillOther, TypeOK
    <3> QED BY <2>1, <2>3, <3>1, <3>2 DEF KillOther, TypeOK
  <2>4. ASSUME NEW u \in Pids, KillInit(u) PROVE TypeOK'
    <3>1. state' \in [Pids -> States]
      BY <2>4, <1>F DEF KillInit, TypeOK, States
    <3> QED BY <2>1, <2>4, <1>0, <3>1 DEF KillInit, TypeOK
  <2> QED BY <1>7, <1>N, <2>0, <2>2, <2>3, <2>4 DEF SysKill
<1>8. ASSUME NEW t \in Pids, SysRaise(t) PROVE TypeOK'
  <2>0. Target(t) \in Pids
    BY <1>F DEF Target
  <2>1. ASSUME NEW u \in Pids, RaiseSignal(u) PROVE TypeOK'
    <3>1. cpu' = Result(cpu, EBUSY) \/ cpu' = Result(cpu, 0)
      BY <2>1 DEF RaiseSignal, Return
    <3>2. EBUSY \in Int
      BY DEF EBUSY
    <3>3. cpu' \in Frames
      BY <3>1, <3>2, <1>F, FrameTypes
    <3>5. regs' \in [Pids -> Frames]
      BY <2>1, <1>S, FrameTypes DEF RaiseSignal
    <3>6. state' \in [Pids -> States] /\ signal' \in [Pids -> {0, 1}]
      BY <2>1, <1>F DEF RaiseSignal, Return, TypeOK
    <3>7. Notify(Live, u, "signal")
      BY <2>1 DEF RaiseSignal
    <3> QED BY <2>1, <1>0, <3>3, <3>5, <3>6, <3>7 DEF RaiseSignal, Return, TypeOK
  <2> QED BY <1>8, <1>N, <2>0, <2>1 DEF SysRaise
<1>9. ASSUME NEW h \in BOOLEAN, SysSignal(h) PROVE TypeOK'
  <2>1. cpu' \in Frames /\ regs' \in [Pids -> Frames]
    <3>1. cpu' = Result(cpu, HandlerPC) \/ cpu' = Result(cpu, 0)
      BY <1>9 DEF SysSignal, Return
    <3>2. HandlerPC \in Int
      BY DEF HandlerPC
    <3>3. regs' = Save(Trap)
      BY <1>9 DEF SysSignal
    <3> QED BY <1>F, <1>S, <3>1, <3>2, <3>3, FrameTypes
  <2> QED BY <1>9, <2>1 DEF SysSignal, Return, TypeOK
<1>10. CASE SysPause
  <2>1. cpu' \in Frames /\ regs' \in [Pids -> Frames]
    BY <1>10, <1>0, <1>F, <1>S, FrameTypes DEF SysPause, ReturnToIdle
  <2> QED BY <1>10, <1>0, <2>1 DEF SysPause, ReturnToIdle, TypeOK
<1>11. CASE SleepProc
  <2>1. cpu' \in Frames /\ regs' \in [Pids -> Frames]
    BY <1>11, <1>0, <1>S, FrameTypes DEF SleepProc, TypeOK
  <2> QED BY <1>11, <1>0, <2>1 DEF SleepProc, TypeOK
<1>12. CASE WakeProc
  <2>1. cpu' \in Frames /\ regs' \in [Pids -> Frames]
    BY <1>12, <1>0, FrameTypes DEF WakeProc, Wake, TypeOK, ENOENT
  <2> QED BY <1>12, <1>0, <2>1 DEF WakeProc, Wake, TypeOK
<1>13. CASE ExecProc
  <2>1. cpu' \in Frames /\ regs' \in [Pids -> Frames]
    BY <1>13, <1>0, FrameTypes DEF ExecProc, Wake, TypeOK, PCs
  <2> QED BY <1>13, <1>0, <2>1 DEF ExecProc, Wake, TypeOK
<1>14. ASSUME NEW p \in Procs, NEW found \in Frames, Tick(p, found) PROVE TypeOK'
  <2>1. p \in Pids /\ regs[p] \in Frames /\ current_process \in Pids /\ Save(found) \in [Pids -> Frames]
    BY <1>0, <1>F DEF Save
  <2>2. Deliver(regs[p], p) \in Frames
    BY <2>1, FrameTypes
  <2>3. cpu' \in Frames
    BY <1>14, <2>2 DEF Tick
  <2>4. regs' \in [Pids -> Frames]
    BY <1>14, <2>1, <2>2 DEF Tick
  <2> QED BY <1>14, <2>1, <2>3, <2>4 DEF Tick, TypeOK
<1>19. CASE Timer
  BY <1>14, <1>19, <1>F DEF Timer, TimerTick
<1>20. ASSUME NEW p \in Procs, AnswerTick(p) PROVE TypeOK'
  <2>1. Goto(cpu, KernelPC) \in Frames
    BY <1>F, FrameTypes
  <2> QED BY <1>14, <1>20, <2>1 DEF AnswerTick
<1>21. CASE TicksOverflow
  BY <1>21 DEF TicksOverflow, TypeOK
<1>15. CASE IdleLookup
  <2>1. cpu' \in Frames /\ regs' \in [Pids -> Frames]
    BY <1>15, <1>0, FrameTypes DEF IdleLookup, TypeOK, Frames, PCs
  <2> QED BY <1>15, <1>0, <2>1 DEF IdleLookup, TypeOK
<1>16. CASE IdleTest
  <2>0. Goto(cpu, 0) \in Frames
    BY <1>F, FrameTypes DEF PCs
  <2>1. cpu' \in Frames /\ regs' \in [Pids -> Frames]
    BY <1>16, <1>F, <2>0 DEF IdleTest
  <2> QED BY <1>16, <1>0, <2>1 DEF IdleTest, TypeOK
<1>17. CASE Halted \/ UNCHANGED vars
  BY <1>17 DEF Halted, vars, TypeOK
<1> QED BY <1>1, <1>2, <1>3, <1>4, <1>5, <1>6, <1>7, <1>8, <1>9, <1>10, <1>11,
           <1>12, <1>13, <1>15, <1>16, <1>17, <1>18, <1>19, <1>20, <1>21 DEF Next

\* No sequence of calls, faults and interrupts takes a field of the process table
\* or a register frame out of its type.
THEOREM TypeCorrect == Spec => []TypeOK
  BY InitType, NextType, PTL DEF Spec

-----------------------------------------------------------------------------
(* Safety.  The four invariants need each other: exit and kill keep the    *)
(* queue because the victim is in it (OneRunning), and a new process has a *)
(* fresh record because pids are never reused (Unborn).                    *)

Unborn == \A p \in Procs : p >= process_next_pid => ~suspended[p] /\ waitpid[p] = None

Safety == QueueOrdered /\ OneRunning /\ SuspendedHasWaker /\ ParentsLive

\* A process that waits for a device was interrupted in its own program.
SleepsInUser == asleep # None => regs[asleep].pc \in PCs

IInv == TypeOK /\ Unborn /\ Safety /\ SleepsInUser

\* The live processes are processes that fork has created, and not idle.
LEMMA LiveBorn ==
    ASSUME TypeOK, QueueOrdered
    PROVE  /\ Live \subseteq Procs
           /\ \A p \in Live : p \in Pids /\ p # Idle /\ p < process_next_pid
<1>1. ASSUME NEW p \in Live PROVE p \in Procs /\ p < process_next_pid
  <2>1. PICK k \in 1 .. Len(ready_queue) : p = ready_queue[k]
    BY DEF Live
  <2>2. ready_queue \in Seq(Procs)
    BY DEF TypeOK
  <2> QED BY <2>1, <2>2 DEF QueueOrdered
<1>2. \A p \in Procs : p \in Pids /\ p # Idle
  BY MaxPidAssumption DEF Procs, Pids, Idle
<1> QED BY <1>1, <1>2

\* process_create: the new process goes to the end of the queue.
LEMMA AppendQueue ==
    ASSUME TypeOK, QueueOrdered, process_next_pid \in Procs,
           ready_queue' = Append(ready_queue, process_next_pid),
           process_next_pid' = process_next_pid + 1
    PROVE  Live' = Live \cup {process_next_pid} /\ QueueOrdered'
<1> DEFINE q == ready_queue
           c == process_next_pid
           n == Len(q)
<1>1. q \in Seq(Procs) /\ n \in Nat /\ c \in Int
  BY DEF TypeOK
<1>2. \A k \in 1 .. n : q[k] \in Int /\ q[k] < c
  BY <1>1, MaxPidAssumption DEF QueueOrdered, Procs
<1>3. Len(q') = n + 1 /\ q'[n + 1] = c /\ \A k \in 1 .. n : q'[k] = q[k]
  BY <1>1
<1>4. Live' = {q'[k] : k \in 1 .. n + 1} /\ Live = {q[k] : k \in 1 .. n}
  BY <1>3 DEF Live
<1>5. QueueOrdered'
  <2>1. \A k \in 1 .. n + 1 : q'[k] < c + 1
    BY <1>1, <1>2, <1>3
  <2>2. ASSUME NEW a \in 1 .. n + 1, NEW b \in 1 .. n + 1, a < b PROVE q'[a] < q'[b]
    <3>1. a \in 1 .. n /\ q'[a] = q[a]
      BY <1>1, <1>3, <2>2
    <3>2. CASE b = n + 1
      BY <1>2, <1>3, <3>1, <3>2
    <3>3. CASE b \in 1 .. n
      BY <1>3, <2>2, <3>1, <3>3 DEF QueueOrdered
    <3> QED BY <1>1, <3>2, <3>3
  <2> QED BY <1>3, <2>1, <2>2 DEF QueueOrdered
<1> HIDE DEF q, n
<1>6. ASSUME NEW x \in Live' PROVE x \in Live \cup {c}
  <2>1. PICK k \in 1 .. n + 1 : x = q'[k]
    BY <1>4
  <2>2. k = n + 1 \/ k \in 1 .. n
    BY <1>1
  <2> QED BY <1>3, <1>4, <2>1, <2>2
<1>7. ASSUME NEW x \in Live \cup {c} PROVE x \in Live'
  <2>1. CASE x = c
    BY <1>1, <1>3, <1>4, <2>1
  <2>2. CASE x \in Live
    <3>1. PICK k \in 1 .. n : x = q[k]
      BY <1>4, <2>2
    <3>2. k \in 1 .. n + 1 /\ x = q'[k]
      BY <1>1, <1>3, <3>1
    <3> QED BY <1>4, <3>2
  <2> QED BY <2>1, <2>2
<1> QED BY <1>5, <1>6, <1>7

\* process_destroy: exactly p leaves the queue.
LEMMA DestroyQueue ==
    ASSUME TypeOK, QueueOrdered, NEW p \in Live, NEW how, Destroy(p, how),
           process_next_pid' = process_next_pid
    PROVE  Live' = Live \ {p} /\ QueueOrdered'
<1> DEFINE q == ready_queue
<1>1. q \in Seq(Procs) /\ Increasing(q) /\ q' = Unlink(q, p)
  BY DEF TypeOK, QueueOrdered, Increasing, Destroy
<1>2. PICK m \in 1 .. Len(q) : q[m] = p
  BY DEF Live
<1> HIDE DEF q
<1>3. Increasing(Unlink(q, p)) /\ Elems(Unlink(q, p)) = Elems(q) \ {p}
  BY <1>1, <1>2, UnlinkQueue
<1> USE DEF q
<1>4. Live' = Live \ {p}
  BY <1>1, <1>3 DEF Live, Elems
<1>5. \A k \in 1 .. Len(q') : q'[k] \in Live'
  BY DEF Live
<1>6. \A x \in Live' : x < process_next_pid
  BY <1>4, LiveBorn
<1> QED BY <1>1, <1>3, <1>4, <1>5, <1>6 DEF QueueOrdered, Increasing

-----------------------------------------------------------------------------
(* The inductive step, by what an action leaves alone.                     *)

\* An action that neither creates nor ends a process keeps the queue and the
\* forest of parents.
LEMMA SameProcesses ==
    ASSUME IInv, UNCHANGED <<process_next_pid, ready_queue, parent>>
    PROVE  Live' = Live /\ QueueOrdered' /\ ParentsLive'
<1>1. Live' = Live
  BY DEF Live
<1>2. QueueOrdered'
  BY DEF QueueOrdered, IInv, Safety
<1> QED BY <1>1, <1>2 DEF ParentsLive, IInv, Safety

\* An action that suspends and resumes nobody keeps the reasons for waiting.
LEMMA SameWaits ==
    ASSUME IInv, Live' = Live,
           UNCHANGED <<process_next_pid, suspended, waitpid, asleep, fate>>
    PROVE  SuspendedHasWaker' /\ Unborn'
  BY DEF SuspendedHasWaker, Unborn, IInv, Safety

\* What holds of the current process when a system call begins.
LEMMA Caller ==
    ASSUME IInv, panicked = "no", asleep = None, current_process # Idle
    PROVE  /\ current_process \in Live /\ current_process \in Pids
           /\ ~suspended[current_process]
           /\ waitpid[current_process] = None
           /\ round_robin
<1>1. current_process \in Live /\ ~suspended[current_process]
  BY DEF IInv, Safety, OneRunning
<1>2. waitpid[current_process] = None
  BY <1>1 DEF IInv, Safety, SuspendedHasWaker
<1>3. round_robin
  BY DEF IInv, Safety, OneRunning
<1> QED BY <1>1, <1>2, <1>3 DEF IInv, TypeOK

\* The idle process takes the CPU from the current one: the marks are right if
\* the live processes that are not resumed READY are others, with their old mark.
LEMMA SwitchToIdle ==
    ASSUME IInv, current_process' = Idle, Live' \subseteq Live,
           \A q \in Live' : state'[q] = "READY" \/ (q # current_process /\ state'[q] = state[q]),
           asleep' = None \/ asleep' \in Live',
           panicked' = "no" => round_robin' = (asleep' = None)
    PROVE  OneRunning'
<1>1. \A q \in Live' : state'[q] = "READY"
  BY DEF IInv, Safety, OneRunning
<1> QED BY <1>1 DEF OneRunning

\* The current process goes on after its call.
LEMMA GoOn ==
    ASSUME IInv, current_process' = current_process, Live' \subseteq Live,
           current_process = Idle \/ (current_process \in Live' /\ ~suspended'[current_process]),
           \A q \in Live' : q # current_process => state'[q] = state[q],
           current_process \in Live' => state'[current_process] \in {"READY", "RUNNING"},
           asleep = None, asleep' = None,
           panicked' = "no" => round_robin'
    PROVE  OneRunning'
<1>1. \A q \in Live' : state'[q] \in {"READY", "RUNNING"}
  BY DEF IInv, Safety, OneRunning
<1>2. \A q \in Live' : state'[q] = "RUNNING" => q = current_process
  BY DEF IInv, Safety, OneRunning
<1> QED BY <1>1, <1>2 DEF OneRunning

\* process_notify_waitpid: a waiter of p is resumed and no longer waits, nobody
\* else is touched.
LEMMA Told ==
    ASSUME TypeOK, NEW S, NEW p, NEW what, Notify(S, p, what)
    PROVE  \A q \in Pids :
              IF q \in S /\ waitpid[q] = p
              THEN waitpid'[q] = None /\ ~suspended'[q]
              ELSE waitpid'[q] = waitpid[q] /\ suspended'[q] = suspended[q]
<1>1. waitpid' = [q \in Pids |-> IF q \in Waiters(S, p) THEN None ELSE waitpid[q]]
  BY DEF Notify
<1>2. suspended' = [q \in Pids |-> IF q \in Waiters(S, p) THEN FALSE ELSE suspended[q]]
  BY DEF Notify
<1> QED BY <1>1, <1>2 DEF Waiters

\* process_destroy: the children of p go to an older process that is not p.
LEMMA DestroyParents ==
    ASSUME IInv, NEW p \in Live, NEW how, Destroy(p, how), Live' = Live \ {p}
    PROVE  ParentsLive'
<1>1. /\ \A q \in Live : q \in Pids /\ q \in Int
      /\ p \in Pids /\ parent \in [Pids -> Pids]
      /\ \A q \in Pids : q \in Int
  <2>1. \A q \in Pids : q \in Int
    BY MaxPidAssumption DEF Pids
  <2>2. \A q \in Live : q \in Pids
    BY LiveBorn DEF IInv, Safety
  <2>3. parent \in [Pids -> Pids]
    BY DEF IInv, TypeOK
  <2> QED BY <2>1, <2>2, <2>3
<1>2. \A q \in Live : parent[q] # None => parent[q] \in Live /\ parent[q] < q
  BY DEF IInv, Safety, ParentsLive
<1> SUFFICES ASSUME NEW q \in Live', parent'[q] # None
             PROVE  parent'[q] \in Live' /\ parent'[q] < q
  BY DEF ParentsLive
<1>3. q \in Live /\ q # p
  OBVIOUS
<1>4. parent'[q] = IF parent[q] = p THEN parent[p] ELSE parent[q]
  BY <1>1, <1>3 DEF Destroy
<1>5. CASE parent[q] = p
  <2>1. p # None /\ p < q
    BY <1>2, <1>3, <1>5, LiveBorn DEF IInv, Safety, Idle, None
  <2>2. parent'[q] \in Live /\ parent'[q] < p
    BY <1>2, <1>4, <1>5
  <2> QED BY <1>1, <2>1, <2>2
<1>6. CASE parent[q] # p
  BY <1>2, <1>3, <1>4, <1>6
<1> QED BY <1>5, <1>6

\* A process ends and everybody who waits for it is told.
LEMMA EndWaits ==
    ASSUME IInv, NEW p \in Live, NEW S, NEW what, NEW how, asleep = None, asleep' = None,
           Live \ {p} \subseteq S, Notify(S, p, what), Destroy(p, how),
           Live' = Live \ {p}, process_next_pid' = process_next_pid
    PROVE  SuspendedHasWaker' /\ Unborn'
<1>1. p \in Pids /\ p # None /\ fate \in [Pids -> Fates] /\ waitpid \in [Pids -> Pids]
  BY LiveBorn DEF IInv, Safety, Idle, None, TypeOK
<1>2. \A q \in Pids : IF q \in S /\ waitpid[q] = p
                     THEN waitpid'[q] = None /\ ~suspended'[q]
                     ELSE waitpid'[q] = waitpid[q] /\ suspended'[q] = suspended[q]
  BY Told DEF IInv
<1>3. \A q \in Pids : q # p => fate'[q] = fate[q]
  BY <1>1 DEF Destroy
<1>4. Unborn'
  <2> SUFFICES ASSUME NEW q \in Procs, q >= process_next_pid
               PROVE  ~suspended'[q] /\ waitpid'[q] = None
    BY DEF Unborn
  <2>1. q \in Pids
    BY MaxPidAssumption DEF Procs, Pids
  <2>2. ~suspended[q] /\ waitpid[q] = None
    BY DEF IInv, Unborn
  <2> QED BY <1>2, <2>1, <2>2
<1>5. SuspendedHasWaker'
  <2> SUFFICES ASSUME NEW q \in Live'
               PROVE  /\ suspended'[q] <=> waitpid'[q] # None
                      /\ waitpid'[q] # None => waitpid'[q] \in Live' \/ fate'[waitpid'[q]] = "faulted"
    <3>1. \A q \in Live' : asleep' # q
      BY LiveBorn DEF IInv, Safety, Idle, None
    <3> QED BY <3>1 DEF SuspendedHasWaker
  <2>1. q \in Live /\ q \in S /\ q \in Pids /\ q # None
    BY LiveBorn DEF IInv, Safety, Idle, None
  <2>2. /\ suspended[q] <=> waitpid[q] # None
        /\ waitpid[q] # None => waitpid[q] \in Live \/ fate[waitpid[q]] = "faulted"
    BY <2>1 DEF IInv, Safety, SuspendedHasWaker
  <2>3. CASE waitpid[q] = p
    BY <1>2, <2>1, <2>3
  <2>4. CASE waitpid[q] # p
    <3>1. waitpid'[q] = waitpid[q] /\ suspended'[q] = suspended[q]
      BY <1>2, <2>1, <2>4
    <3>2. waitpid[q] \in Pids /\ fate'[waitpid[q]] = fate[waitpid[q]]
      BY <1>1, <1>3, <2>1, <2>4
    <3> QED BY <2>2, <2>4, <3>1, <3>2
  <2> QED BY <2>3, <2>4
<1> QED BY <1>4, <1>5

-----------------------------------------------------------------------------
(* The invariant holds at boot and is kept by every action.                *)

\* At boot, with init as the only process.
LEMMA InitInv == Init => IInv
<1> SUFFICES ASSUME Init PROVE IInv
  OBVIOUS
<1>1. TypeOK
  BY InitType
<1>2. Len(ready_queue) = 1 /\ ready_queue[1] = 1 /\ process_next_pid = 2
  BY DEF Init
<1>3. Live = {1} /\ 1 \in Pids /\ Procs \subseteq Pids
  <2>1. Live = {ready_queue[i] : i \in {1}}
    BY <1>2 DEF Live
  <2> QED BY <1>2, <2>1, MaxPidAssumption DEF Pids, Procs
<1>4. QueueOrdered
  BY <1>2 DEF QueueOrdered
<1>5. ~suspended[1] /\ waitpid[1] = None /\ parent[1] = None /\ state[1] = "READY"
  BY <1>3 DEF Init, Idle
<1>6. OneRunning
  BY <1>3, <1>5 DEF Init, OneRunning
<1>7. SuspendedHasWaker
  BY <1>3, <1>5 DEF Init, SuspendedHasWaker, None
<1>8. ParentsLive
  BY <1>3, <1>5 DEF ParentsLive
<1>9. Unborn /\ SleepsInUser
  BY <1>3 DEF Init, Unborn, SleepsInUser
<1> QED BY <1>1, <1>4, <1>6, <1>7, <1>8, <1>9 DEF IInv, Safety

\* A call that changes no process but the result of the caller.
LEMMA QuietStep ==
    ASSUME IInv, TypeOK', asleep = None, panicked = "no",
           current_process # Idle,
           UNCHANGED <<process_next_pid, ready_queue, parent, suspended, waitpid, asleep,
                       fate, current_process, panicked, round_robin>>,
           state' = [state EXCEPT ![current_process] = "RUNNING"]
    PROVE  IInv'
<1>1. Live' = Live /\ QueueOrdered' /\ ParentsLive'
  BY SameProcesses
<1>2. SuspendedHasWaker' /\ Unborn'
  BY <1>1, SameWaits
<1>3. state \in [Pids -> States] /\ \A q \in Live : q \in Pids
  BY LiveBorn DEF IInv, Safety, TypeOK
<1>4. current_process \in Live /\ ~suspended[current_process] /\ round_robin
  BY Caller
<1>5. OneRunning'
  <2>1. \A q \in Live' : q # current_process => state'[q] = state[q]
    BY <1>1, <1>3
  <2>2. state'[current_process] = "RUNNING"
    BY <1>3, <1>4
  <2> QED BY <1>1, <1>4, <2>1, <2>2, GoOn
<1> QED BY <1>1, <1>2, <1>5 DEF IInv, Safety, SleepsInUser

\* A call that suspends its caller (by a device wait, or by waitpid for t) or,
\* like pause, only gives up the CPU.
LEMMA LeaveStep ==
    ASSUME IInv, TypeOK', asleep = None, panicked = "no", current_process # Idle,
           UNCHANGED <<process_next_pid, ready_queue, parent, fate, panicked>>,
           state' = [state EXCEPT ![current_process] = "READY", ![Idle] = "RUNNING"],
           current_process' = Idle,
           \/ /\ UNCHANGED <<suspended, waitpid, asleep, round_robin>>
           \/ /\ suspended' = [suspended EXCEPT ![current_process] = TRUE]
              /\ \E t \in Live : waitpid' = [waitpid EXCEPT ![current_process] = t]
              /\ UNCHANGED <<asleep, round_robin>>
           \/ /\ suspended' = [suspended EXCEPT ![current_process] = TRUE]
              /\ asleep' = current_process
              /\ round_robin' = FALSE
              /\ UNCHANGED waitpid
              /\ regs'[current_process].pc \in PCs
    PROVE  IInv'
<1> DEFINE p == current_process
<1>1. Live' = Live /\ QueueOrdered' /\ ParentsLive'
  BY SameProcesses
<1>2. /\ state \in [Pids -> States] /\ suspended \in [Pids -> BOOLEAN]
      /\ waitpid \in [Pids -> Pids] /\ p \in Pids /\ Idle \in Pids
  BY MaxPidAssumption DEF IInv, TypeOK, Idle, Pids
<1>3. /\ \A q \in Live : q \in Pids /\ q # Idle /\ q < process_next_pid
      /\ p \in Live /\ ~suspended[p] /\ waitpid[p] = None /\ round_robin
  BY Caller, LiveBorn DEF IInv, Safety
<1>4. OneRunning'
  <2>1. \A q \in Live' : state'[q] = "READY" \/ (q # p /\ state'[q] = state[q])
    <3>1. state'[p] = "READY" /\ \A q \in Pids : q # p /\ q # Idle => state'[q] = state[q]
      BY <1>2, <1>3
    <3>2. \A q \in Live' : q \in Pids /\ q # Idle
      BY <1>1, <1>3
    <3> HIDE DEF p
    <3> QED BY <3>1, <3>2
  <2>2. asleep' = None \/ asleep' \in Live'
    BY <1>1, <1>3
  <2>3. round_robin' = (asleep' = None)
    BY <1>3 DEF Idle, None
  <2> QED BY <1>1, <2>1, <2>2, <2>3, SwitchToIdle
<1>5. CASE UNCHANGED <<suspended, waitpid, asleep, round_robin>>
  <2>1. SuspendedHasWaker' /\ Unborn'
    BY <1>1, <1>5, SameWaits
  <2> QED BY <1>1, <1>4, <1>5, <2>1 DEF IInv, Safety, SleepsInUser
<1>6. CASE suspended' = [suspended EXCEPT ![p] = TRUE]
  <2>1. suspended'[p] = TRUE /\ \A q \in Pids : q # p => suspended'[q] = suspended[q] /\ waitpid'[q] = waitpid[q]
    BY <1>2, <1>6
  <2>2. \/ waitpid'[p] \in Live /\ asleep' = None
        \/ waitpid'[p] = None /\ asleep' = p /\ regs'[p].pc \in PCs
    <3>1. suspended' # suspended
      BY <1>3, <2>1
    <3>2. CASE asleep' = p /\ UNCHANGED waitpid /\ regs'[p].pc \in PCs
      BY <1>3, <3>2
    <3>3. ASSUME NEW t \in Live, waitpid' = [waitpid EXCEPT ![p] = t], asleep' = asleep
          PROVE  waitpid'[p] \in Live /\ asleep' = None
      BY <1>2, <3>3
    <3> QED BY <3>1, <3>2, <3>3
  <2> HIDE DEF p
  <2>3. Unborn'
    <3> SUFFICES ASSUME NEW q \in Procs, q >= process_next_pid
                 PROVE  ~suspended'[q] /\ waitpid'[q] = None
      BY DEF Unborn
    <3>1. q \in Pids /\ q # p /\ ~suspended[q] /\ waitpid[q] = None
      <4>1. q \in Pids /\ process_next_pid \in Int /\ q \in Int
        BY MaxPidAssumption DEF Procs, Pids, IInv, TypeOK
      <4>2. q # p
        BY <1>3, <4>1
      <4> QED BY <4>1, <4>2 DEF IInv, Unborn
    <3> QED BY <2>1, <3>1
  <2>4. SuspendedHasWaker'
    <3> SUFFICES ASSUME NEW q \in Live
                 PROVE  /\ suspended'[q] <=> (asleep' = q \/ waitpid'[q] # None)
                        /\ asleep' = q => waitpid'[q] = None
                        /\ waitpid'[q] # None => waitpid'[q] \in Live \/ fate[waitpid'[q]] = "faulted"
      BY <1>1 DEF SuspendedHasWaker
    <3>1. q \in Pids /\ q # None /\ p # None
      BY <1>3 DEF None, Idle
    <3>2. CASE q = p
      BY <1>3, <2>1, <2>2, <3>1, <3>2 DEF None, Idle
    <3>3. CASE q # p
      <4>1. suspended'[q] = suspended[q] /\ waitpid'[q] = waitpid[q] /\ asleep' # q /\ asleep # q
        BY <2>1, <2>2, <3>1, <3>3
      <4> QED BY <4>1 DEF IInv, Safety, SuspendedHasWaker
    <3> QED BY <3>2, <3>3
  <2>5. SleepsInUser'
    BY <2>2 DEF SleepsInUser
  <2> QED BY <1>1, <1>4, <2>3, <2>4, <2>5 DEF IInv, Safety
<1> QED BY <1>5, <1>6

\* User instructions and the idle loop change registers only.
LEMMA StillStep ==
    ASSUME IInv, TypeOK',
           UNCHANGED <<process_next_pid, ready_queue, parent, suspended, waitpid, asleep,
                       fate, current_process, state, regs>>,
           panicked' = "no" => round_robin' = (asleep' = None)
    PROVE  IInv'
<1>1. Live' = Live /\ QueueOrdered' /\ ParentsLive'
  BY SameProcesses
<1>2. SuspendedHasWaker' /\ Unborn'
  BY <1>1, SameWaits
<1>3. OneRunning'
  BY <1>1 DEF IInv, Safety, OneRunning
<1> QED BY <1>1, <1>2, <1>3 DEF IInv, Safety, SleepsInUser

\* fork: nobody waits for the new process yet, and it waits for nobody.
LEMMA ForkStep ==
    ASSUME IInv, TypeOK', SysFork
    PROVE  IInv'
<1> DEFINE p == current_process
           c == process_next_pid
<1>1. /\ asleep = None /\ panicked = "no" /\ p # Idle
      /\ UNCHANGED <<current_process, round_robin, suspended, waitpid, asleep, panicked, fate>>
      /\ parent' = [parent EXCEPT ![c] = p]
      /\ state' = [state EXCEPT ![p] = "RUNNING", ![c] = "READY"]
      /\ ready_queue' = Append(ready_queue, c) /\ c' = c + 1 /\ c <= MaxPid
  BY DEF SysFork, InUser, Link
<1>2. c \in Procs /\ c \in Pids /\ c \in Int /\ Procs \subseteq Pids /\ c # None
  <2>1. c \in 2 .. MaxPid + 1 /\ c <= MaxPid
    BY <1>1 DEF IInv, TypeOK
  <2> QED BY <2>1, MaxPidAssumption DEF Procs, Pids, None
<1>3. p \in Live /\ p \in Pids /\ ~suspended[p] /\ waitpid[p] = None /\ round_robin
  BY <1>1, Caller
<1>4. TypeOK /\ QueueOrdered
  BY DEF IInv, Safety
<1>5. Live' = Live \cup {c} /\ QueueOrdered'
  BY <1>1, <1>2, <1>4, AppendQueue
<1>6. \A q \in Live : q \in Pids /\ q < c /\ q # c /\ q # None
  BY <1>2, <1>4, LiveBorn DEF Idle, None
<1>7. ~suspended[c] /\ waitpid[c] = None
  BY <1>2 DEF IInv, Unborn
<1>8. /\ parent \in [Pids -> Pids] /\ state \in [Pids -> States]
  BY DEF IInv, TypeOK
<1>9. ParentsLive'
  <2>1. parent'[c] = p /\ \A q \in Live : parent'[q] = parent[q]
    BY <1>1, <1>2, <1>6, <1>8
  <2>2. \A q \in Live : parent[q] # None => parent[q] \in Live /\ parent[q] < q
    BY DEF IInv, Safety, ParentsLive
  <2> HIDE DEF p, c
  <2> QED BY <1>3, <1>5, <1>6, <2>1, <2>2 DEF ParentsLive
<1>10. OneRunning'
  <2>1. /\ state'[c] = "READY" /\ state'[p] = "RUNNING"
        /\ \A q \in Live : q # p => state'[q] = state[q]
    BY <1>1, <1>2, <1>3, <1>6, <1>8
  <2>2. \A q \in Live : q # p => state[q] = "READY"
    BY DEF IInv, Safety, OneRunning
  <2>3. \A q \in Live' : state'[q] \in {"READY", "RUNNING"} /\ (state'[q] = "RUNNING" => q = p)
    BY <1>5, <2>1, <2>2
  <2> QED BY <1>1, <1>3, <1>5, <2>3 DEF OneRunning
<1>11. SuspendedHasWaker'
  <2>1. \A q \in Live : /\ suspended[q] <=> (asleep = q \/ waitpid[q] # None)
                        /\ waitpid[q] # None => waitpid[q] \in Live \/ fate[waitpid[q]] = "faulted"
    BY DEF IInv, Safety, SuspendedHasWaker
  <2> HIDE DEF c
  <2> QED BY <1>1, <1>2, <1>5, <1>6, <1>7, <2>1 DEF SuspendedHasWaker
<1>12. Unborn'
  <2>1. \A q \in Procs : q >= c + 1 => q >= c
    BY <1>2, MaxPidAssumption DEF Procs
  <2> QED BY <1>1, <2>1 DEF IInv, Unborn
<1> QED BY <1>1, <1>5, <1>9, <1>10, <1>11, <1>12 DEF IInv, Safety, SleepsInUser

\* A signal that can be handled: the waiters of t are resumed.
LEMMA RaiseStep ==
    ASSUME IInv, TypeOK', asleep = None, panicked = "no", current_process # Idle,
           NEW t \in Live, RaiseSignal(t)
    PROVE  IInv'
<1> DEFINE p == current_process
<1>1. /\ UNCHANGED <<process_next_pid, ready_queue, parent, fate, current_process, panicked,
                      round_robin, asleep>>
      /\ state' = [state EXCEPT ![p] = "RUNNING"]
      /\ Notify(Live, t, "signal")
  BY DEF RaiseSignal, Return
<1>2. Live' = Live /\ QueueOrdered' /\ ParentsLive'
  BY <1>1, SameProcesses
<1>3. \A q \in Pids : IF q \in Live /\ waitpid[q] = t
                     THEN waitpid'[q] = None /\ ~suspended'[q]
                     ELSE waitpid'[q] = waitpid[q] /\ suspended'[q] = suspended[q]
  BY <1>1, Told DEF IInv
<1>4. p \in Live /\ p \in Pids /\ ~suspended[p] /\ round_robin
  BY Caller
<1>5. \A q \in Live : q \in Pids /\ q # None
  BY LiveBorn DEF IInv, Safety, Idle, None
<1>6. OneRunning'
  <2>0. state \in [Pids -> States]
    BY DEF IInv, TypeOK
  <2>1. state'[p] = "RUNNING" /\ \A q \in Live' : q # p => state'[q] = state[q]
    BY <1>1, <1>2, <1>4, <1>5, <2>0
  <2>2. ~suspended'[p]
    BY <1>3, <1>4
  <2> QED BY <1>1, <1>2, <1>4, <2>1, <2>2, GoOn
<1>7. Unborn'
  <2> SUFFICES ASSUME NEW q \in Procs, q >= process_next_pid
               PROVE  ~suspended'[q] /\ waitpid'[q] = None
    BY <1>1 DEF Unborn
  <2>1. q \in Pids /\ ~suspended[q] /\ waitpid[q] = None
    BY MaxPidAssumption DEF IInv, Unborn, Procs, Pids
  <2> QED BY <1>3, <2>1
<1>8. SuspendedHasWaker'
  <2>1. \A q \in Live : /\ suspended[q] <=> (asleep = q \/ waitpid[q] # None)
                        /\ waitpid[q] # None => waitpid[q] \in Live \/ fate[waitpid[q]] = "faulted"
    BY DEF IInv, Safety, SuspendedHasWaker
  <2> QED BY <1>1, <1>2, <1>3, <1>5, <2>1 DEF SuspendedHasWaker
<1> QED BY <1>1, <1>2, <1>6, <1>7, <1>8 DEF IInv, Safety, SleepsInUser

\* A process ends: by exit, or by a SIGKILL of its own or of another process.
LEMMA EndStep ==
    ASSUME IInv, TypeOK', asleep = None, panicked = "no", current_process # Idle,
           NEW t \in Live, NEW S, NEW what, NEW how,
           Live \ {t} \subseteq S, Notify(S, t, what), Destroy(t, how),
           UNCHANGED <<process_next_pid, asleep>>,
           \/ /\ t = current_process
              /\ current_process' = Idle
              /\ round_robin' = round_robin
              /\ state' = [state EXCEPT ![t] = "ZOMBIE", ![Idle] = "RUNNING"]
           \/ /\ t # current_process
              /\ current_process' = current_process
              /\ round_robin' = round_robin
              /\ state' = [state EXCEPT ![t] = "ZOMBIE", ![current_process] = "RUNNING"]
           \/ /\ panicked' # "no"
              /\ current_process' = Idle
              /\ state' = [state EXCEPT ![current_process] = "READY", ![t] = "ZOMBIE"]
    PROVE  IInv'
<1> DEFINE p == current_process
<1>1. Live' = Live \ {t} /\ QueueOrdered'
  BY DestroyQueue DEF IInv, Safety
<1>2. ParentsLive'
  BY <1>1, DestroyParents
<1>3. SuspendedHasWaker' /\ Unborn'
  BY <1>1, EndWaits
<1>4. p \in Live /\ p \in Pids /\ ~suspended[p] /\ round_robin
  BY Caller
<1>5. (\A q \in Live : q \in Pids /\ q # Idle) /\ t \in Pids
  BY LiveBorn DEF IInv, Safety
<1>6. state \in [Pids -> States]
  BY DEF IInv, TypeOK
<1>7. CASE /\ t = p /\ current_process' = Idle /\ round_robin' = round_robin
           /\ state' = [state EXCEPT ![t] = "ZOMBIE", ![Idle] = "RUNNING"]
  <2>1. \A q \in Live' : q # p /\ state'[q] = state[q]
    BY <1>1, <1>5, <1>6, <1>7
  <2>2. OneRunning'
    BY <1>1, <1>4, <1>7, <2>1, SwitchToIdle
  <2> QED BY <1>1, <1>2, <1>3, <2>2 DEF IInv, Safety, SleepsInUser
<1>8. CASE /\ t # p /\ current_process' = p /\ round_robin' = round_robin
           /\ state' = [state EXCEPT ![t] = "ZOMBIE", ![p] = "RUNNING"]
  <2>1. state'[p] = "RUNNING" /\ \A q \in Live' : q # p => state'[q] = state[q]
    BY <1>1, <1>4, <1>5, <1>6, <1>8
  <2>2. ~suspended'[p]
    BY <1>4, Told DEF IInv
  <2>3. OneRunning'
    BY <1>1, <1>4, <1>8, <2>1, <2>2, GoOn
  <2> QED BY <1>1, <1>2, <1>3, <2>3 DEF IInv, Safety, SleepsInUser
<1>9. CASE /\ panicked' # "no" /\ current_process' = Idle
           /\ state' = [state EXCEPT ![p] = "READY", ![t] = "ZOMBIE"]
  <2>1. \A q \in Live' : state'[q] = IF q = p THEN "READY" ELSE state[q]
    BY <1>1, <1>4, <1>5, <1>6, <1>9
  <2>2. OneRunning'
    BY <1>1, <1>9, <2>1, SwitchToIdle
  <2> QED BY <1>1, <1>2, <1>3, <2>2 DEF IInv, Safety, SleepsInUser
<1> QED BY <1>7, <1>8, <1>9

\* A fault: nobody is told, those who wait go on waiting for a faulted process.
LEMMA FaultStep ==
    ASSUME IInv, TypeOK', Fault
    PROVE  IInv'
<1> DEFINE p == current_process
<1>1. /\ asleep = None /\ panicked = "no" /\ p # Idle /\ Destroy(p, "faulted")
      /\ UNCHANGED <<process_next_pid, round_robin, suspended, waitpid, asleep, panicked>>
      /\ current_process' = Idle
      /\ state' = [state EXCEPT ![p] = "ZOMBIE", ![Idle] = "RUNNING"]
      /\ fate' = [fate EXCEPT ![p] = "faulted"]
  BY DEF Fault, InUser, Destroy
<1>2. p \in Live /\ p \in Pids /\ ~suspended[p] /\ round_robin
  BY <1>1, Caller
<1>3. Live' = Live \ {p} /\ QueueOrdered'
  BY <1>1, <1>2, DestroyQueue DEF IInv, Safety
<1>4. ParentsLive'
  BY <1>1, <1>2, <1>3, DestroyParents
<1>5. /\ state \in [Pids -> States] /\ fate \in [Pids -> Fates]
      /\ waitpid \in [Pids -> Pids] /\ \A q \in Live : q \in Pids /\ q # Idle
  BY LiveBorn DEF IInv, Safety, TypeOK
<1>6. OneRunning'
  <2>1. \A q \in Live' : q # p /\ state'[q] = state[q]
    BY <1>1, <1>3, <1>5
  <2> QED BY <1>1, <1>2, <1>3, <2>1, SwitchToIdle
<1>7. SuspendedHasWaker'
  <2>1. \A q \in Live : /\ suspended[q] <=> (asleep = q \/ waitpid[q] # None)
                        /\ asleep = q => waitpid[q] = None
                        /\ waitpid[q] # None => waitpid[q] \in Live \/ fate[waitpid[q]] = "faulted"
    BY DEF IInv, Safety, SuspendedHasWaker
  <2>2. \A x \in Pids : fate'[x] = IF x = p THEN "faulted" ELSE fate[x]
    BY <1>1, <1>5
  <2>3. \A q \in Live : waitpid[q] \in Pids
    BY <1>5
  <2> HIDE DEF p
  <2> QED BY <1>1, <1>3, <2>1, <2>2, <2>3 DEF SuspendedHasWaker
<1>8. Unborn'
  BY <1>1 DEF IInv, Unborn
<1> QED BY <1>1, <1>3, <1>4, <1>6, <1>7, <1>8 DEF IInv, Safety, SleepsInUser

\* syscall_wake_proc: the process that was asleep is current again.
LEMMA WakeStep ==
    ASSUME IInv, TypeOK', NEW frame, NEW ret, Wake(frame, ret)
    PROVE  IInv'
<1> DEFINE p == asleep
<1>1. /\ panicked = "no" /\ p # None /\ round_robin' = TRUE /\ current_process' = p
      /\ state' = [state EXCEPT ![p] = "RUNNING", ![Idle] = "READY"]
      /\ suspended' = [suspended EXCEPT ![p] = FALSE]
      /\ asleep' = None
      /\ UNCHANGED <<process_next_pid, ready_queue, waitpid, parent, panicked, fate>>
  BY DEF Wake
<1>2. Live' = Live /\ QueueOrdered' /\ ParentsLive'
  BY <1>1, SameProcesses
<1>3. p \in Live /\ current_process = Idle
  BY <1>1 DEF IInv, Safety, OneRunning
<1>4. /\ state \in [Pids -> States] /\ suspended \in [Pids -> BOOLEAN]
      /\ p \in Pids /\ \A q \in Live : q \in Pids /\ q # Idle
  BY <1>3, LiveBorn DEF IInv, Safety, TypeOK
<1>5. waitpid[p] = None
  BY <1>3 DEF IInv, Safety, SuspendedHasWaker
<1>6. ~suspended'[p] /\ \A q \in Pids : q # p => suspended'[q] = suspended[q]
  BY <1>1, <1>4
<1>7. OneRunning'
  <2>1. \A q \in Live : state[q] = "READY"
    BY <1>3, <1>4 DEF IInv, Safety, OneRunning
  <2>2. \A q \in Live : state'[q] = IF q = p THEN "RUNNING" ELSE "READY"
    BY <1>1, <1>4, <2>1
  <2>3. \A q \in Live' : /\ state'[q] \in {"READY", "RUNNING"}
                         /\ state'[q] = "RUNNING" => q = current_process'
    <3>1. current_process' = p /\ Live' = Live
      BY <1>1, <1>2
    <3> HIDE DEF p
    <3> QED BY <2>2, <3>1
  <2>4. current_process' \in Live' /\ ~suspended'[current_process']
    BY <1>1, <1>2, <1>3, <1>6
  <2>5. asleep' = None /\ round_robin' = (asleep' = None)
    BY <1>1
  <2> QED BY <2>3, <2>4, <2>5 DEF OneRunning
<1>8. SuspendedHasWaker'
  <2>1. \A q \in Live : /\ suspended[q] <=> (asleep = q \/ waitpid[q] # None)
                        /\ waitpid[q] # None => waitpid[q] \in Live \/ fate[waitpid[q]] = "faulted"
    BY DEF IInv, Safety, SuspendedHasWaker
  <2> QED BY <1>1, <1>2, <1>4, <1>5, <1>6, <2>1 DEF SuspendedHasWaker, None, Idle
<1>9. Unborn'
  <2> SUFFICES ASSUME NEW q \in Procs, q >= process_next_pid
               PROVE  ~suspended'[q] /\ waitpid[q] = None
    BY <1>1 DEF Unborn
  <2>1. q \in Pids /\ ~suspended[q] /\ waitpid[q] = None
    BY MaxPidAssumption DEF IInv, Unborn, Procs, Pids
  <2> QED BY <1>6, <2>1
<1> QED BY <1>1, <1>2, <1>7, <1>8, <1>9 DEF IInv, Safety, SleepsInUser

\* process_round_robin: the old process is READY again, the new one can run.
LEMMA TickStep ==
    ASSUME IInv, TypeOK', NEW p \in Procs, NEW found, Tick(p, found)
    PROVE  IInv'
<1> DEFINE old == current_process
<1>1. /\ panicked = "no" /\ round_robin /\ current_process' = p
      /\ state' = [state EXCEPT ![old] = "READY", ![p] = "RUNNING"]
      /\ UNCHANGED <<process_next_pid, ready_queue, round_robin, suspended, waitpid,
                      parent, asleep, panicked, fate>>
      /\ p \in Live /\ ~suspended[p]
  BY DEF Tick, NextToRun, Runnable
<1>2. Live' = Live /\ QueueOrdered' /\ ParentsLive'
  BY <1>1, SameProcesses
<1>3. SuspendedHasWaker' /\ Unborn'
  BY <1>1, <1>2, SameWaits
<1>4. asleep = None
  BY <1>1 DEF IInv, Safety, OneRunning
<1>5. /\ state \in [Pids -> States] /\ old \in Pids /\ p \in Pids
      /\ \A q \in Live : q \in Pids
  BY <1>1, LiveBorn DEF IInv, Safety, TypeOK
<1>6. \A q \in Live : q # old => state[q] = "READY"
  BY DEF IInv, Safety, OneRunning
<1>7. \A q \in Live : state'[q] = IF q = p THEN "RUNNING" ELSE "READY"
  BY <1>1, <1>5, <1>6
<1>8. OneRunning'
  <2>1. \A q \in Live' : /\ state'[q] \in {"READY", "RUNNING"}
                         /\ state'[q] = "RUNNING" => q = p
    BY <1>2, <1>7
  <2>2. p \in Live' /\ ~suspended'[p]
    BY <1>1, <1>2
  <2>3. current_process' = p /\ asleep' = None /\ round_robin' = (asleep' = None)
    BY <1>1, <1>4 DEF IInv, Safety, OneRunning
  <2> QED BY <2>1, <2>2, <2>3 DEF OneRunning
<1> QED BY <1>1, <1>2, <1>3, <1>4, <1>8 DEF IInv, Safety, SleepsInUser

\* One case per system call, fault and interrupt.
LEMMA NextInv == IInv /\ [Next]_vars => IInv'
<1> SUFFICES ASSUME IInv, [Next]_vars PROVE IInv'
  OBVIOUS
<1>0. TypeOK'
  BY NextType DEF IInv
<1>R. panicked = "no" => round_robin = (asleep = None)
  BY DEF IInv, Safety, OneRunning
<1>N. ASSUME NEW t, NEW c, InUser(c), NoSuchProcess(t) PROVE IInv'
  <2>1. /\ asleep = None /\ panicked = "no" /\ current_process # Idle
        /\ UNCHANGED <<process_next_pid, ready_queue, parent, suspended, waitpid, asleep,
                       fate, current_process, panicked, round_robin>>
        /\ state' = [state EXCEPT ![current_process] = "RUNNING"]
    BY <1>N DEF InUser, NoSuchProcess, Return
  <2> QED BY <1>0, <2>1, QuietStep
<1>1. CASE Compute
  BY <1>0, <1>1, <1>R, StillStep DEF Compute
<1>2. CASE SysGetppid
  <2>1. /\ asleep = None /\ panicked = "no" /\ current_process # Idle
        /\ UNCHANGED <<process_next_pid, ready_queue, parent, suspended, waitpid, asleep,
                       fate, current_process, panicked, round_robin>>
        /\ state' = [state EXCEPT ![current_process] = "RUNNING"]
    BY <1>2 DEF SysGetppid, InUser, Return
  <2> QED BY <1>0, <2>1, QuietStep
<1>3. CASE SysFork
  BY <1>0, <1>3, ForkStep
<1>4. CASE SysExit
  <2> DEFINE p == current_process
             told == IF Waiters(Live \ {p}, p) = {} THEN "unreported" ELSE "reported"
  <2>1. /\ asleep = None /\ panicked = "no" /\ p # Idle
        /\ Notify(Live \ {p}, p, "exit") /\ Destroy(p, told)
        /\ UNCHANGED <<process_next_pid, asleep, round_robin>>
        /\ current_process' = Idle
        /\ state' = [state EXCEPT ![p] = "ZOMBIE", ![Idle] = "RUNNING"]
    BY <1>4 DEF SysExit, InUser, ReturnToIdle
  <2>2. p \in Live
    BY <2>1, Caller
  <2> HIDE DEF told
  <2> QED BY <1>0, <2>1, <2>2, EndStep
<1>5. CASE Fault
  BY <1>0, <1>5, FaultStep
<1>18. CASE PageFault
  <2> DEFINE p == current_process
             told == IF Waiters(Live \ {p}, p) = {} THEN "unreported" ELSE "reported"
  <2>1. /\ asleep = None /\ panicked = "no" /\ p # Idle
        /\ Notify(Live \ {p}, p, "fault") /\ Destroy(p, told)
        /\ UNCHANGED <<process_next_pid, asleep, round_robin>>
        /\ current_process' = Idle
        /\ state' = [state EXCEPT ![p] = "ZOMBIE", ![Idle] = "RUNNING"]
    BY <1>18 DEF PageFault, InUser
  <2>2. p \in Live
    BY <2>1, Caller
  <2> HIDE DEF told
  <2> QED BY <1>0, <2>1, <2>2, EndStep
<1>6. ASSUME NEW t \in Pids, SysWaitpid(t) PROVE IInv'
  <2>1. ASSUME InUser("waitpid"), WaitFor(t) PROVE IInv'
    <3>1. /\ asleep = None /\ panicked = "no" /\ current_process # Idle
          /\ UNCHANGED <<process_next_pid, ready_queue, parent, fate, panicked>>
          /\ state' = [state EXCEPT ![current_process] = "READY", ![Idle] = "RUNNING"]
          /\ current_process' = Idle
          /\ suspended' = [suspended EXCEPT ![current_process] = TRUE]
          /\ t \in Live /\ waitpid' = [waitpid EXCEPT ![current_process] = t]
          /\ UNCHANGED <<asleep, round_robin>>
      BY <2>1 DEF InUser, WaitFor, ReturnToIdle
    <3> QED BY <1>0, <3>1, LeaveStep
  <2> QED BY <1>6, <1>N, <2>1 DEF SysWaitpid
<1>7. ASSUME NEW t \in Pids, SysKill(t) PROVE IInv'
  <2> DEFINE how(u) == IF Waiters(Live \ {u}, u) = {} THEN "unreported" ELSE "reported"
  <2>1. ASSUME NEW u, KillTarget(u)
        PROVE  /\ u \in Live /\ Live \ {u} \subseteq Live
               /\ Notify(Live, u, "signal") /\ Destroy(u, how(u))
               /\ UNCHANGED process_next_pid
    BY <2>1 DEF KillTarget
  <2>2. InUser("kill") => asleep = None /\ panicked = "no" /\ current_process # Idle
    BY DEF InUser
  <2> HIDE DEF how
  <2>3. ASSUME NEW u, InUser("kill"), KillSelf(u) PROVE IInv'
    <3>1. /\ u = current_process /\ current_process' = Idle /\ KillTarget(u)
          /\ state' = [state EXCEPT ![u] = "ZOMBIE", ![Idle] = "RUNNING"]
          /\ UNCHANGED <<asleep, round_robin>>
      BY <2>3 DEF KillSelf, ReturnToIdle
    <3> QED BY <1>0, <2>1, <2>2, <2>3, <3>1, EndStep
  <2>4. ASSUME NEW u, InUser("kill"), KillOther(u) PROVE IInv'
    <3>1. /\ u # current_process /\ current_process' = current_process /\ KillTarget(u)
          /\ state' = [state EXCEPT ![u] = "ZOMBIE", ![current_process] = "RUNNING"]
          /\ UNCHANGED <<asleep, round_robin>>
      BY <2>4 DEF KillOther
    <3> QED BY <1>0, <2>1, <2>2, <2>4, <3>1, EndStep
  <2>5. ASSUME NEW u, InUser("kill"), KillInit(u) PROVE IInv'
    <3>1. /\ panicked' # "no" /\ current_process' = Idle /\ KillTarget(u)
          /\ state' = [state EXCEPT ![current_process] = "READY", ![u] = "ZOMBIE"]
          /\ UNCHANGED asleep
      BY <2>5 DEF KillInit
    <3> QED BY <1>0, <2>1, <2>2, <2>5, <3>1, EndStep
  <2> QED BY <1>7, <1>N, <2>3, <2>4, <2>5 DEF SysKill
<1>8. ASSUME NEW t \in Pids, SysRaise(t) PROVE IInv'
  <2>1. ASSUME NEW u, InUser("raise"), RaiseSignal(u) PROVE IInv'
    BY <1>0, <2>1, RaiseStep DEF InUser, RaiseSignal
  <2> QED BY <1>8, <1>N, <2>1 DEF SysRaise
<1>9. ASSUME NEW h \in BOOLEAN, SysSignal(h) PROVE IInv'
  <2>1. /\ asleep = None /\ panicked = "no" /\ current_process # Idle
        /\ UNCHANGED <<process_next_pid, ready_queue, parent, suspended, waitpid, asleep,
                       fate, current_process, panicked, round_robin>>
        /\ state' = [state EXCEPT ![current_process] = "RUNNING"]
    BY <1>9 DEF SysSignal, InUser, Return
  <2> QED BY <1>0, <2>1, QuietStep
<1>10. CASE SysPause
  <2>1. /\ asleep = None /\ panicked = "no" /\ current_process # Idle
        /\ UNCHANGED <<process_next_pid, ready_queue, parent, fate, panicked>>
        /\ state' = [state EXCEPT ![current_process] = "READY", ![Idle] = "RUNNING"]
        /\ current_process' = Idle
        /\ UNCHANGED <<suspended, waitpid, asleep, round_robin>>
    BY <1>10 DEF SysPause, InUser, ReturnToIdle
  <2> QED BY <1>0, <2>1, LeaveStep
<1>11. CASE SleepProc
  <2>1. /\ asleep = None /\ panicked = "no" /\ current_process # Idle
        /\ UNCHANGED <<process_next_pid, ready_queue, parent, fate, panicked>>
        /\ state' = [state EXCEPT ![current_process] = "READY", ![Idle] = "RUNNING"]
        /\ current_process' = Idle
        /\ suspended' = [suspended EXCEPT ![current_process] = TRUE]
        /\ asleep' = current_process /\ round_robin' = FALSE /\ UNCHANGED waitpid
        /\ cpu.pc # KernelPC /\ regs' = Save(Trap)
    BY <1>11 DEF SleepProc, InUser, Lost
  <2>2. regs'[current_process].pc \in PCs
    BY <2>1 DEF IInv, TypeOK, Save, Trap, Result, Frames
  <2> QED BY <1>0, <2>1, <2>2, LeaveStep
<1>12. CASE WakeProc
  BY <1>0, <1>12, WakeStep DEF WakeProc
<1>13. CASE ExecProc
  BY <1>0, <1>13, WakeStep DEF ExecProc
<1>14. CASE Timer \/ \E p \in Procs : AnswerTick(p)
  BY <1>0, <1>14, TickStep DEF Timer, TimerTick, AnswerTick
<1>19. CASE TicksOverflow
  BY <1>0, <1>19, <1>R, StillStep DEF TicksOverflow
<1>15. CASE IdleLookup
  BY <1>0, <1>15, <1>R, StillStep DEF IdleLookup
<1>16. CASE IdleTest
  <2>1. panicked' = "no" => round_robin' = (asleep' = None)
    BY <1>16, <1>R DEF IdleTest
  <2> QED BY <1>0, <1>16, <2>1, StillStep DEF IdleTest
<1>17. CASE Halted \/ UNCHANGED vars
  BY <1>0, <1>17, <1>R, StillStep DEF Halted, vars
<1> QED BY <1>1, <1>2, <1>3, <1>4, <1>5, <1>6, <1>7, <1>8, <1>9, <1>10, <1>11,
           <1>12, <1>13, <1>14, <1>15, <1>16, <1>17, <1>18, <1>19 DEF Next

\* The inductive invariant holds in every state the kernel reaches.
THEOREM Invariant == Spec => []IInv
  BY InitInv, NextInv, PTL DEF Spec

\* However many processes are created and ended, in whatever order, the ready
\* queue lists each live process once, oldest first (process_add_ready_queue,
\* process_remove_ready_queue).
THEOREM QueueStaysOrdered == Spec => []QueueOrdered
<1>1. IInv => QueueOrdered
  BY DEF IInv, Safety
<1> QED BY <1>1, Invariant, PTL

\* The CPU belongs to idle or to one live process that is not suspended, and
\* nobody else carries the mark RUNNING (process_unload, process_switch).
THEOREM OneProcessRuns == Spec => []OneRunning
<1>1. IInv => OneRunning
  BY DEF IInv, Safety
<1> QED BY <1>1, Invariant, PTL

\* Whoever is suspended sleeps in a device wait of its own or waits for a process
\* that is alive or faulted (syscall_sleep_proc, syscall_waitpid,
\* process_notify_waitpid).
THEOREM WakersExist == Spec => []SuspendedHasWaker
<1>1. IInv => SuspendedHasWaker
  BY DEF IInv, Safety
<1> QED BY <1>1, Invariant, PTL

\* No live process has a parent pointer to a freed record (process_destroy).
THEOREM NoDanglingParent == Spec => []ParentsLive
<1>1. IInv => ParentsLive
  BY DEF IInv, Safety
<1> QED BY <1>1, Invariant, PTL

-----------------------------------------------------------------------------
(* The refinement: every step of the kernel is a step of processes that do *)
(* not know of each other, or invisible.                                   *)

\* What a process finds in its registers when it runs next.
Reg(q) == IF q = current_process THEN cpu ELSE regs[q]

\* A step of p alone: nobody else's registers change.
LEMMA MapsToStep ==
    ASSUME NEW p \in Procs, p \in Live, waitpid[p] = None,
           \A q \in Procs \ {p} : Reg(q)' = Reg(q), (Reg(p)').pc \in PCs,
           Live' = Live, UNCHANGED <<process_next_pid, waitpid, wstatus>>
    PROVE  Abstract!Act
<1>1. Abstract!Running(p)
  BY DEF Abstract!Running
<1>2. Abstract!Touches({p})
  BY DEF Abstract!Touches, Registers, Reg
<1>3. (Registers')[p].pc \in PCs
  BY DEF Registers, Reg
<1>4. Abstract!Step(p)
  BY <1>1, <1>2, <1>3 DEF Abstract!Step
<1> QED BY <1>4 DEF Abstract!Act

\* waitpid: p alone, and it stops at the same place.
LEMMA MapsToWait ==
    ASSUME NEW p \in Procs, p \in Live, waitpid[p] = None, NEW t \in Procs, t \in Live,
           TypeOK, \A q \in Procs \ {p} : Reg(q)' = Reg(q), (Reg(p)').pc = Reg(p).pc,
           waitpid' = [waitpid EXCEPT ![p] = t],
           Live' = Live, UNCHANGED <<process_next_pid, wstatus>>
    PROVE  Abstract!Act
<1>1. Abstract!Running(p)
  BY DEF Abstract!Running
<1>2. Abstract!Touches({p})
  BY DEF Abstract!Touches, Registers, Reg
<1>3. (Registers')[p].pc = Registers[p].pc
  BY DEF Registers, Reg
<1>4. [q \in Procs |-> waitpid[q]]' = [[q \in Procs |-> waitpid[q]] EXCEPT ![p] = t]
  <2>1. Procs \subseteq Pids
    BY MaxPidAssumption DEF Procs, Pids
  <2> QED BY <2>1 DEF TypeOK
<1>5. Abstract!Wait(p, t)
  BY <1>1, <1>2, <1>3, <1>4 DEF Abstract!Wait
<1> QED BY <1>5 DEF Abstract!Act

\* fork.
LEMMA MapsToFork ==
    ASSUME NEW p \in Procs, p \in Live, waitpid[p] = None, NEW c \in Procs, c = process_next_pid,
           \A q \in Procs \ {p, c} : Reg(q)' = Reg(q), p # c,
           Reg(p)' = Result(Reg(p), c), Reg(c)' = Result(Reg(p), 0),
           Live' = Live \cup {c}, process_next_pid' = c + 1, UNCHANGED <<waitpid, wstatus>>
    PROVE  Abstract!Act
<1>1. Abstract!Running(p)
  BY DEF Abstract!Running
<1>2. c \in Nat /\ c > 0
  BY MaxPidAssumption DEF Procs
<1>3. c \notin 1 .. process_next_pid - 1
  BY <1>2
<1>4. (1 .. process_next_pid - 1)' = (1 .. process_next_pid - 1) \cup {c}
  BY <1>2
<1>5. Registers' = [Registers EXCEPT ![p].eax = c, ![c] = [Registers[p] EXCEPT !.eax = 0]]
  <2> DEFINE R == Registers
             U == [R EXCEPT ![p].eax = c, ![c] = [R[p] EXCEPT !.eax = 0]]
  <2>1. R = [q \in Procs |-> Reg(q)] /\ R' = [q \in Procs |-> Reg(q)']
    BY DEF Registers, Reg
  <2> HIDE DEF R
  <2>2. U = [q \in Procs |-> IF q = c THEN [R[p] EXCEPT !.eax = 0]
                             ELSE IF q = p THEN [R[p] EXCEPT !.eax = c] ELSE R[q]]
    BY <2>1
  <2>3. \A q \in Procs : R'[q] = U[q]
    BY <2>1, <2>2 DEF Result
  <2>4. R' = U
    BY <2>1, <2>2, <2>3
  <2> QED BY <2>4 DEF R
<1>6. Abstract!Fork(p, c)
  BY <1>1, <1>3, <1>4, <1>5 DEF Abstract!Fork
<1> QED BY <1>6 DEF Abstract!Act

\* Those who wait for t are told: the registers, waits and statuses change as
\* the contract says.
WaitingFor(t) == {q \in Live : waitpid[q] = t}
LEMMA MapsToTell ==
    ASSUME TypeOK, Live \subseteq Procs, NEW t \in Procs, NEW S, S \subseteq Live, Live \ {t} \subseteq S,
           waitpid[t] # t \/ t \in S, NEW what, Notify(S, t, what),
           \A q \in WaitingFor(t) : Reg(q)' = Result(Reg(q), t)
    PROVE  Abstract!Tell(t, what)
<1>1. Abstract!Told(t) = WaitingFor(t)
  BY DEF Abstract!Told, WaitingFor
<1>2. Waiters(S, t) = WaitingFor(t)
  BY DEF Waiters, WaitingFor
<1>3. Procs \subseteq Pids
  BY MaxPidAssumption DEF Procs, Pids
<1>4. \A q \in WaitingFor(t) : (Registers')[q] = [Registers[q] EXCEPT !.eax = t]
  BY DEF Registers, Reg, WaitingFor, Result
<1>5. /\ [q \in Procs |-> waitpid[q]]' = [q \in Procs |-> IF q \in WaitingFor(t) THEN None ELSE waitpid[q]]
      /\ [q \in Procs |-> wstatus[q]]' = [q \in Procs |-> IF q \in WaitingFor(t) THEN what ELSE wstatus[q]]
  BY <1>2, <1>3 DEF Notify
<1> QED BY <1>1, <1>4, <1>5 DEF Abstract!Tell

\* A process ends by its own doing or by p's kill, and the waiters are told.
LEMMA MapsToEnd ==
    ASSUME Live \subseteq Procs, NEW p \in Procs, p \in Live, waitpid[p] = None, NEW t \in Procs, t \in Live,
           Abstract!Tell(t, "signal") \/ (p = t /\ (Abstract!Tell(t, "exit") \/ Abstract!Tell(t, "fault"))),
           \A q \in Procs \ ({p, t} \cup WaitingFor(t)) : Reg(q)' = Reg(q),
           Live' = Live \ {t}, UNCHANGED process_next_pid
    PROVE  Abstract!Act
<1>1. Abstract!Running(p)
  BY DEF Abstract!Running
<1>2. Abstract!Told(t) = WaitingFor(t)
  BY DEF Abstract!Told, WaitingFor
<1>3. Abstract!Touches({p, t} \cup Abstract!Told(t))
  BY <1>2 DEF Abstract!Touches, Registers, Reg
<1>4. Abstract!End(p, t)
  BY <1>1, <1>3 DEF Abstract!End
<1> QED BY <1>4 DEF Abstract!Act

\* A signal is sent, and the waiters are told.
LEMMA MapsToRaise ==
    ASSUME Live \subseteq Procs, NEW p \in Procs, p \in Live, waitpid[p] = None, NEW t \in Procs, t \in Live,
           Abstract!Tell(t, "signal"),
           \A q \in Procs \ ({p} \cup WaitingFor(t)) : Reg(q)' = Reg(q),
           Live' = Live, UNCHANGED process_next_pid
    PROVE  Abstract!Act
<1>1. Abstract!Running(p)
  BY DEF Abstract!Running
<1>2. Abstract!Told(t) = WaitingFor(t)
  BY DEF Abstract!Told, WaitingFor
<1>3. Abstract!Touches({p} \cup Abstract!Told(t))
  BY <1>2 DEF Abstract!Touches, Registers, Reg
<1>4. Abstract!Raise(p, t)
  BY <1>1, <1>3 DEF Abstract!Raise
<1> QED BY <1>4 DEF Abstract!Act

\* A fault that tells nobody.
LEMMA MapsToCrash ==
    ASSUME NEW p \in Procs, p \in Live, waitpid[p] = None,
           \A q \in Procs \ {p} : Reg(q)' = Reg(q),
           Live' = Live \ {p}, UNCHANGED <<process_next_pid, waitpid, wstatus>>
    PROVE  Abstract!Act
<1>1. Abstract!Running(p)
  BY DEF Abstract!Running
<1>2. Abstract!Touches({p})
  BY DEF Abstract!Touches, Registers, Reg
<1>3. Abstract!Crash(p)
  BY <1>1, <1>2 DEF Abstract!Crash
<1> QED BY <1>3 DEF Abstract!Act

\* What the handlers do to the frames: only the named ones change.
LEMMA Frames1 ==
    ASSUME TypeOK
    PROVE  /\ Procs \subseteq Pids /\ Idle \notin Procs /\ regs \in [Pids -> Frames] /\ cpu \in Frames
           /\ current_process \in Pids
           /\ \A r : Save(r) = [q \in Pids |-> IF q = current_process THEN r ELSE regs[q]]
           /\ \A f, S, t : \A q \in Pids : Notified(f, S, t)[q] = IF q \in Waiters(S, t) THEN Result(f[q], t) ELSE f[q]
<1>1. Procs \subseteq Pids /\ Idle \notin Procs
  BY MaxPidAssumption DEF Procs, Pids, Idle
<1>2. regs \in [Pids -> Frames] /\ cpu \in Frames /\ current_process \in Pids
  BY DEF TypeOK
<1> QED BY <1>1, <1>2 DEF Save, Notified

LEMMA CallerRuns ==
    ASSUME IInv, NEW c, InUser(c)
    PROVE  /\ current_process \in Procs /\ current_process \in Live
           /\ waitpid[current_process] = None /\ TypeOK /\ QueueOrdered /\ Live \subseteq Procs
<1>1. panicked = "no" /\ asleep = None /\ current_process # Idle
  BY DEF InUser
<1> QED BY <1>1, Caller, LiveBorn DEF IInv, Safety

\* A program that makes a call is not in the middle of a handler.
LEMMA UserFrame ==
    ASSUME TypeOK, NEW c, InUser(c)
    PROVE  /\ cpu.pc \in PCs /\ Trap.pc \in PCs
           /\ \A x : Result(cpu, x).pc \in PCs
  BY DEF InUser, Lost, TypeOK, Frames, Trap, Result

\* A call of p that concerns p alone and lets it go on or leaves the CPU to idle.
LEMMA OwnStep ==
    ASSUME IInv, NEW c, InUser(c),
           \/ /\ current_process' = current_process /\ cpu'.pc \in PCs
              /\ regs' = regs \/ \E r : regs' = Save(r)
           \/ current_process' = Idle /\ regs' = Save(Trap),
           UNCHANGED <<process_next_pid, ready_queue, waitpid, wstatus>>
    PROVE  Abstract!Act
<1> PICK p : p = current_process
  OBVIOUS
<1>1. p \in Procs /\ p \in Live /\ waitpid[p] = None /\ TypeOK
  BY CallerRuns
<1>2. Live' = Live
  BY DEF Live
<1>3. \A q \in Procs \ {p} : Reg(q)' = Reg(q)
  BY <1>1, Frames1 DEF Reg
<1>4. (Reg(p)').pc \in PCs
  <2>1. CASE current_process' = current_process /\ cpu'.pc \in PCs
    BY <2>1 DEF Reg
  <2>2. CASE current_process' = Idle /\ regs' = Save(Trap)
    <3>1. Reg(p)' = regs'[p] /\ p \in Pids
      BY <1>1, <2>2, Frames1 DEF Reg
    <3>2. regs'[p] = Trap
      BY <1>1, <2>2, <3>1, Frames1
    <3> QED BY <1>1, <3>1, <3>2, UserFrame
  <2> QED BY <2>1, <2>2
<1> QED BY <1>1, <1>2, <1>3, <1>4, MapsToStep

\* A process ends: p's own exit or page fault, or p's kill of t.
LEMMA EndingStep ==
    ASSUME IInv, NEW c, InUser(c), NEW t \in Live, NEW S, S \in {Live, Live \ {t}},
           \/ Notify(S, t, "signal")
           \/ t = current_process /\ (Notify(S, t, "exit") \/ Notify(S, t, "fault")),
           NEW r, regs' = Notified(Save(r), S, t),
           S = Live \/ t = current_process,
           NEW how, Destroy(t, how), UNCHANGED process_next_pid,
           current_process' \in {current_process, Idle}
    PROVE  Abstract!Act
<1> DEFINE p == current_process
<1>1. p \in Procs /\ p \in Live /\ waitpid[p] = None /\ TypeOK /\ QueueOrdered /\ Live \subseteq Procs
  BY CallerRuns
<1>2. Live' = Live \ {t}
  BY <1>1, DestroyQueue
<1>3. t \in Procs /\ t # None
  BY <1>1, Frames1 DEF Idle, None
<1>4. Waiters(S, t) = WaitingFor(t) /\ p \notin WaitingFor(t)
  BY <1>1, <1>3 DEF Waiters, WaitingFor
<1>5. \A q \in WaitingFor(t) : Reg(q)' = Result(Reg(q), t)
  BY <1>1, <1>4, Frames1 DEF Reg, WaitingFor
<1>6. \A q \in Procs \ ({p, t} \cup WaitingFor(t)) : Reg(q)' = Reg(q)
  BY <1>1, <1>4, Frames1 DEF Reg
<1>7. \/ Abstract!Tell(t, "signal")
      \/ p = t /\ (Abstract!Tell(t, "exit") \/ Abstract!Tell(t, "fault"))
  <2>1. /\ Notify(S, t, "signal") => Abstract!Tell(t, "signal")
        /\ Notify(S, t, "exit") => Abstract!Tell(t, "exit")
        /\ Notify(S, t, "fault") => Abstract!Tell(t, "fault")
    BY <1>1, <1>3, <1>5, MapsToTell
  <2> QED BY <2>1
<1> QED BY <1>1, <1>2, <1>3, <1>6, <1>7, MapsToEnd

\* An action of idle, or of nobody: no process sees it.
LEMMA Invisible ==
    ASSUME TypeOK, current_process' = current_process, current_process = Idle \/ cpu' = cpu,
           UNCHANGED <<process_next_pid, ready_queue, waitpid, wstatus, regs>>
    PROVE  UNCHANGED Abstract!avars
<1>1. Live' = Live
  BY DEF Live
<1>2. Registers' = Registers
  BY Frames1 DEF Registers
<1> QED BY <1>1, <1>2 DEF Abstract!avars

\* A switch changes nobody's registers but those of a process that enters its
\* signal handler and, inside a network answer, of the process that is left.
LEMMA TickTouches ==
    ASSUME IInv, NEW p \in Procs, NEW found, Tick(p, found)
    PROVE  /\ p \in Live /\ p # current_process /\ waitpid[p] = None
           /\ Live' = Live /\ UNCHANGED <<process_next_pid, waitpid, wstatus>>
           /\ current_process' = p
           /\ \A q \in Procs \ {p, current_process} : Reg(q)' = Reg(q)
           /\ \A q \in Procs : q = current_process => Reg(q)' = found
           /\ \/ Reg(p)' = Reg(p)
              \/ Reg(p)' = Goto(Reg(p), HandlerPC) /\ (Reg(p)').pc \in PCs
<1> PICK old : old = current_process
  OBVIOUS
<1> DEFINE r == Deliver(regs[p], p)
<1>0. TypeOK
  BY DEF IInv
<1>1. /\ Runnable(p) /\ regs' = [Save(found) EXCEPT ![p] = r] /\ current_process' = p /\ cpu' = r
      /\ UNCHANGED <<process_next_pid, ready_queue, waitpid, wstatus>>
  BY DEF Tick, NextToRun
<1>2. p \in Live /\ p # current_process /\ ~suspended[p]
  BY <1>1 DEF Runnable
<1>3. waitpid[p] = None
  BY <1>2 DEF IInv, Safety, SuspendedHasWaker
<1>4. Live' = Live
  BY <1>1 DEF Live
<1>5. p \in Pids /\ regs[p] \in Frames /\ Reg(p) = regs[p]
  BY <1>0, <1>2, Frames1 DEF Reg
<1>6. r = regs[p] \/ (r = Goto(regs[p], HandlerPC) /\ r.pc \in PCs)
  BY <1>5 DEF Deliver, Goto, PCs, Frames
<1> HIDE DEF r
<1>7. \A q \in Procs \ {p, old} : Reg(q)' = Reg(q)
  BY <1>0, <1>1, Frames1 DEF Reg
<1>8. old \in Procs => Reg(old)' = found
  BY <1>0, <1>1, <1>2, Frames1 DEF Reg
<1>9. Reg(p)' = r
  BY <1>1 DEF Reg
<1> QED BY <1>1, <1>2, <1>3, <1>4, <1>5, <1>6, <1>7, <1>8, <1>9

\* The registers that a switch may change, in the terms of the contract.
LEMMA TickEnters ==
    ASSUME IInv, NEW p \in Procs, NEW found, Tick(p, found)
    PROVE  /\ Abstract!Touches({current_process} \cup Entered)
           /\ current_process = Idle \/ found = cpu => SwitchKeeps
           /\ current_process # Idle => (Registers')[current_process] = found
<1> PICK old : old = current_process
  OBVIOUS
<1>1. Registers = [q \in Procs |-> Reg(q)] /\ Registers' = [q \in Procs |-> Reg(q)']
  BY DEF Registers, Reg
<1>2. /\ current_process' = p /\ p # old
      /\ \A q \in Procs \ {p, old} : Reg(q)' = Reg(q)
      /\ old \in Procs => Reg(old)' = found
      /\ Reg(p)' = Reg(p) \/ Reg(p)' = Goto(Reg(p), HandlerPC)
  BY TickTouches
<1>3. p \notin Entered => Reg(p)' = Reg(p)
  BY <1>1, <1>2 DEF Entered
<1>4. \A S : (\A q \in Procs \ S : Reg(q)' = Reg(q)) => Abstract!Touches(S)
  BY <1>1 DEF Abstract!Touches
<1>5. Abstract!Touches({old} \cup Entered)
  <2>1. \A q \in Procs \ ({old} \cup Entered) : Reg(q)' = Reg(q)
    BY <1>2, <1>3
  <2> QED BY <1>4, <2>1
<1>6. ASSUME old = Idle \/ found = cpu PROVE SwitchKeeps
  <2>1. Idle \notin Procs
    BY MaxPidAssumption DEF Procs, Idle
  <2>2. old \in Procs => Reg(old)' = Reg(old)
    BY <1>2, <1>6, <2>1 DEF Reg
  <2>3. \A q \in Procs \ Entered : Reg(q)' = Reg(q)
    BY <1>2, <1>3, <2>2
  <2> QED BY <1>4, <2>3 DEF SwitchKeeps
<1>7. old # Idle => (Registers')[old] = found
  <2>1. old # Idle => old \in Procs
    BY LiveBorn DEF IInv, Safety, OneRunning
  <2> QED BY <1>1, <1>2, <2>1
<1> QED BY <1>5, <1>6, <1>7

\* In the contract a switch is invisible, the delivery of a signal, or the loss of
\* the registers inside a network answer.
LEMMA TickMaps ==
    ASSUME IInv, NEW p \in Procs, NEW found, Tick(p, found)
    PROVE  /\ found = cpu => Abstract!Act \/ UNCHANGED Abstract!avars
           /\ found = Goto(cpu, KernelPC) => Abstract!Act \/ Abandoned \/ UNCHANGED Abstract!avars
<1> PICK old : old = current_process
  OBVIOUS
<1>1. /\ p \in Live /\ p # old /\ waitpid[p] = None
      /\ Live' = Live /\ UNCHANGED <<process_next_pid, waitpid, wstatus>>
      /\ \A q \in Procs \ {p, old} : Reg(q)' = Reg(q)
      /\ old \in Procs => Reg(old)' = found
      /\ Reg(p)' = Reg(p) \/ (Reg(p)').pc \in PCs
  BY TickTouches
<1>2. ASSUME old = Idle \/ found = cpu PROVE Abstract!Act \/ UNCHANGED Abstract!avars
  <2>0. Idle \notin Procs
    BY MaxPidAssumption DEF Procs, Idle
  <2>1. old \in Procs => Reg(old)' = Reg(old)
    BY <1>1, <1>2, <2>0 DEF Reg
  <2>2. \A q \in Procs \ {p} : Reg(q)' = Reg(q)
    BY <1>1, <2>1
  <2>3. CASE Reg(p)' = Reg(p)
    <3>1. Registers' = Registers
      <4>1. \A q \in Procs : Reg(q)' = Reg(q)
        BY <2>2, <2>3
      <4>2. Registers = [q \in Procs |-> Reg(q)] /\ Registers' = [q \in Procs |-> Reg(q)']
        BY DEF Registers, Reg
      <4> QED BY <4>1, <4>2
    <3> QED BY <1>1, <3>1 DEF Abstract!avars
  <2>4. CASE (Reg(p)').pc \in PCs
    BY <1>1, <2>2, <2>4, MapsToStep
  <2> QED BY <1>1, <2>3, <2>4
<1>3. ASSUME old # Idle, found = Goto(cpu, KernelPC) PROVE Abandoned
  <2>1. Abstract!Touches({current_process} \cup Entered) /\ (Registers')[current_process] = found
    BY <1>3, TickEnters
  <2>2. found.pc = KernelPC
    BY <1>3 DEF IInv, TypeOK, Goto, Frames
  <2> QED BY <1>1, <1>3, <2>1, <2>2 DEF Abandoned
<1> QED BY <1>2, <1>3

\* One case per system call, fault and interrupt.
LEMMA StepMaps == IInv /\ [Next]_vars => [Abstract!Act \/ Abandoned]_(Abstract!avars)
<1> SUFFICES ASSUME IInv, [Next]_vars PROVE Abstract!Act \/ Abandoned \/ UNCHANGED Abstract!avars
  OBVIOUS
<1>0. TypeOK
  BY DEF IInv
<1>N. ASSUME NEW t, NEW c, InUser(c), NoSuchProcess(t) PROVE Abstract!Act
  BY <1>0, <1>N, OwnStep, UserFrame DEF NoSuchProcess, Return
<1>1. CASE Compute
  <2>1. cpu'.pc \in PCs
    BY <1>0, <1>1 DEF Compute, Goto, PCs, TypeOK, Frames
  <2> QED BY <1>1, <2>1, OwnStep DEF Compute
<1>2. CASE SysGetppid
  BY <1>0, <1>2, OwnStep, UserFrame DEF SysGetppid, Return
<1>3. CASE SysFork
  <2> PICK p, c : p = current_process /\ c = process_next_pid
    OBVIOUS
  <2>1. /\ InUser("fork") /\ c <= MaxPid /\ process_next_pid' = c + 1 /\ ready_queue' = Append(ready_queue, c)
        /\ regs' = [Save(Trap) EXCEPT ![c] = Result(Trap, 0)] /\ cpu' = Result(cpu, c)
        /\ UNCHANGED <<current_process, waitpid, wstatus>>
    BY <1>3 DEF SysFork, Link
  <2>2. p \in Procs /\ p \in Live /\ waitpid[p] = None /\ TypeOK /\ QueueOrdered
    BY <2>1, CallerRuns
  <2>3. c \in Procs /\ c \in Pids
    BY <2>1, <2>2, MaxPidAssumption DEF TypeOK, Procs, Pids
  <2>4. p # c
    BY <2>2, <2>3, LiveBorn, MaxPidAssumption DEF Procs
  <2>5. Live' = Live \cup {c}
    BY <2>1, <2>2, <2>3, AppendQueue
  <2>6. Result(Trap, 0) = Result(cpu, 0)
    BY <2>2 DEF Trap, Result, TypeOK, Frames
  <2>7. /\ \A q \in Procs \ {p, c} : regs'[q] = regs[q]
        /\ regs'[c] = Result(cpu, 0)
    BY <2>1, <2>2, <2>3, <2>4, <2>6, Frames1
  <2>8. /\ \A q \in Procs \ {p, c} : Reg(q)' = Reg(q)
        /\ Reg(p)' = Result(Reg(p), c) /\ Reg(c)' = Result(Reg(p), 0)
    BY <2>1, <2>3, <2>4, <2>7 DEF Reg
  <2> QED BY <2>1, <2>2, <2>3, <2>4, <2>5, <2>8, MapsToFork
<1>4. CASE SysExit
  <2> DEFINE p == current_process
             told == IF Waiters(Live \ {p}, p) = {} THEN "unreported" ELSE "reported"
  <2>1. /\ InUser("exit") /\ Notify(Live \ {p}, p, "exit") /\ Destroy(p, told)
        /\ regs' = Notified(Save(Trap), Live \ {p}, p)
        /\ current_process' = Idle /\ UNCHANGED process_next_pid
    BY <1>4 DEF SysExit, ReturnToIdle
  <2>2. p \in Live
    BY <2>1, CallerRuns
  <2> HIDE DEF told
  <2> QED BY <2>1, <2>2, EndingStep
<1>5. CASE PageFault
  <2> DEFINE p == current_process
             told == IF Waiters(Live \ {p}, p) = {} THEN "unreported" ELSE "reported"
  <2>1. /\ InUser("fault") /\ Notify(Live \ {p}, p, "fault") /\ Destroy(p, told)
        /\ regs' = Notified(Save(cpu), Live \ {p}, p)
        /\ current_process' = Idle /\ UNCHANGED process_next_pid
    BY <1>5 DEF PageFault
  <2>2. p \in Live
    BY <2>1, CallerRuns
  <2> HIDE DEF told
  <2> QED BY <2>1, <2>2, EndingStep
<1>6. CASE Fault
  <2> DEFINE p == current_process
  <2>1. /\ InUser("fault") /\ Destroy(p, "faulted") /\ regs' = Save(cpu) /\ current_process' = Idle
        /\ UNCHANGED <<process_next_pid, waitpid, wstatus>>
    BY <1>6 DEF Fault
  <2>2. p \in Procs /\ p \in Live /\ waitpid[p] = None /\ QueueOrdered
    BY <2>1, CallerRuns
  <2>3. Live' = Live \ {p}
    BY <1>0, <2>1, <2>2, DestroyQueue
  <2>4. \A q \in Procs \ {p} : Reg(q)' = Reg(q)
    BY <1>0, <2>1, Frames1 DEF Reg
  <2> QED BY <2>1, <2>2, <2>3, <2>4, MapsToCrash
<1>7. ASSUME NEW t \in Pids, SysWaitpid(t) PROVE Abstract!Act
  <2>1. ASSUME InUser("waitpid"), WaitFor(t) PROVE Abstract!Act
    <3> PICK p : p = current_process
      OBVIOUS
    <3>1. /\ t \in Live /\ regs' = Save(Trap) /\ waitpid' = [waitpid EXCEPT ![p] = t]
          /\ current_process' = Idle /\ UNCHANGED <<process_next_pid, ready_queue, wstatus>>
      BY <2>1 DEF WaitFor, ReturnToIdle
    <3>2. p \in Procs /\ p \in Live /\ waitpid[p] = None /\ t \in Procs
      BY <2>1, <3>1, CallerRuns
    <3>3. Live' = Live
      BY <3>1 DEF Live
    <3>4. \A q \in Procs \ {p} : Reg(q)' = Reg(q)
      BY <1>0, <3>1, Frames1 DEF Reg
    <3>5. Reg(p)' = Trap
      BY <1>0, <3>1, <3>2, Frames1 DEF Reg
    <3>6. Trap.pc = cpu.pc
      BY <1>0 DEF Trap, Result, TypeOK, Frames
    <3>7. (Reg(p)').pc = Reg(p).pc
      BY <3>5, <3>6 DEF Reg
    <3> QED BY <1>0, <3>1, <3>2, <3>3, <3>4, <3>7, MapsToWait
  <2> QED BY <1>7, <1>N, <2>1 DEF SysWaitpid
<1>8. ASSUME NEW t \in Pids, SysKill(t) PROVE Abstract!Act
  <2> DEFINE how(u) == IF Waiters(Live \ {u}, u) = {} THEN "unreported" ELSE "reported"
  <2>1. ASSUME NEW u, InUser("kill"), KillTarget(u), current_process' \in {current_process, Idle}
        PROVE  Abstract!Act
    <3>1. /\ u \in Live /\ Notify(Live, u, "signal") /\ Destroy(u, how(u))
          /\ regs' = Notified(Save(Trap), Live, u) /\ UNCHANGED process_next_pid
      BY <2>1 DEF KillTarget
    <3> HIDE DEF how
    <3> QED BY <2>1, <3>1, EndingStep
  <2>2. ASSUME NEW u, InUser("kill"), KillSelf(u) \/ KillOther(u) \/ KillInit(u) PROVE Abstract!Act
    BY <2>1, <2>2 DEF KillSelf, KillOther, KillInit, ReturnToIdle
  <2> QED BY <1>8, <1>N, <2>2 DEF SysKill
<1>9. ASSUME NEW t \in Pids, SysRaise(t) PROVE Abstract!Act
  <2>1. ASSUME NEW u, InUser("raise"), RaiseSignal(u) PROVE Abstract!Act
    <3> DEFINE p == current_process
    <3>1. /\ u \in Live /\ Notify(Live, u, "signal") /\ regs' = Notified(Save(Trap), Live, u)
          /\ UNCHANGED <<process_next_pid, ready_queue, current_process>>
      BY <2>1 DEF RaiseSignal, Return
    <3>2. p \in Procs /\ p \in Live /\ waitpid[p] = None /\ Live \subseteq Procs
      BY <2>1, CallerRuns
    <3>3. Live' = Live
      BY <3>1 DEF Live
    <3>4. u \in Procs /\ u # None
      BY <1>0, <3>1, <3>2, Frames1 DEF Idle, None
    <3>5. Waiters(Live, u) = WaitingFor(u) /\ p \notin WaitingFor(u)
      BY <3>2, <3>4 DEF Waiters, WaitingFor
    <3>6. \A q \in WaitingFor(u) : Reg(q)' = Result(Reg(q), u)
      BY <1>0, <3>1, <3>2, <3>5, Frames1 DEF Reg, WaitingFor
    <3>7. \A q \in Procs \ ({p} \cup WaitingFor(u)) : Reg(q)' = Reg(q)
      BY <1>0, <3>1, <3>5, Frames1 DEF Reg
    <3>8. Abstract!Tell(u, "signal")
      BY <1>0, <3>1, <3>2, <3>4, <3>6, MapsToTell
    <3> QED BY <3>1, <3>2, <3>3, <3>4, <3>7, <3>8, MapsToRaise
  <2> QED BY <1>9, <1>N, <2>1 DEF SysRaise
<1>10. ASSUME NEW h \in BOOLEAN, SysSignal(h) PROVE Abstract!Act
  BY <1>0, <1>10, OwnStep, UserFrame DEF SysSignal, Return
<1>11. CASE SysPause
  BY <1>11, OwnStep DEF SysPause, ReturnToIdle
<1>12. CASE SleepProc
  BY <1>12, OwnStep DEF SleepProc
<1>13. ASSUME NEW frame \in Frames, frame.pc \in PCs, NEW ret, Wake(frame, ret) PROVE Abstract!Act
  <2> PICK p : p = asleep
    OBVIOUS
  <2> DEFINE r == Deliver(frame, p)
  <2>1. /\ p # None /\ current_process' = p /\ regs' = [regs EXCEPT ![p] = r]
        /\ cpu' = Result(r, ret)
        /\ UNCHANGED <<process_next_pid, ready_queue, waitpid, wstatus>>
    BY <1>13 DEF Wake
  <2>2. p \in Live /\ waitpid[p] = None /\ current_process = Idle
    BY <2>1 DEF IInv, Safety, OneRunning, SuspendedHasWaker
  <2>3. p \in Procs
    BY <2>2, LiveBorn DEF IInv, Safety
  <2>4. Live' = Live
    BY <2>1 DEF Live
  <2>5. r.pc \in PCs /\ r \in Frames
    <3>1. CASE r = frame
      BY <1>13, <3>1
    <3>2. CASE r = Goto(frame, HandlerPC)
      BY <3>2 DEF Goto, PCs, Frames
    <3> QED BY <3>1, <3>2 DEF Deliver
  <2> HIDE DEF r
  <2>6. \A q \in Procs \ {p} : Reg(q)' = Reg(q)
    BY <1>0, <2>1, <2>2, Frames1 DEF Reg
  <2>7. (Reg(p)').pc \in PCs
    BY <2>1, <2>5 DEF Reg, Result, Frames
  <2> QED BY <2>1, <2>2, <2>3, <2>4, <2>6, <2>7, MapsToStep
<1>14. ASSUME NEW p \in Procs, TimerTick(p) PROVE Abstract!Act \/ UNCHANGED Abstract!avars
  BY <1>14, TickMaps DEF TimerTick
<1>18. ASSUME NEW p \in Procs, AnswerTick(p)
       PROVE  Abstract!Act \/ Abandoned \/ UNCHANGED Abstract!avars
  BY <1>18, TickMaps DEF AnswerTick
<1>19. CASE TicksOverflow
  BY <1>0, <1>19, Invisible DEF TicksOverflow
<1>20. WakeProc \/ ExecProc => \E frame \in Frames : \E ret : frame.pc \in PCs /\ Wake(frame, ret)
  <2> SUFFICES ASSUME asleep # None
               PROVE  /\ regs[asleep] \in Frames /\ regs[asleep].pc \in PCs
                      /\ Goto(regs[asleep], 0) \in Frames /\ Goto(regs[asleep], 0).pc \in PCs
    BY DEF WakeProc, ExecProc, Wake
  <2>1. regs[asleep] \in Frames /\ regs[asleep].pc \in PCs
    BY DEF IInv, SleepsInUser, TypeOK
  <2> QED BY <2>1 DEF Goto, PCs, Frames
<1>15. CASE IdleLookup
  BY <1>0, <1>15, Invisible DEF IdleLookup, InIdle
<1>16. CASE IdleTest
  BY <1>0, <1>16, Invisible DEF IdleTest, InIdle
<1>17. CASE Halted \/ UNCHANGED vars
  BY <1>0, <1>17, Invisible DEF Halted, vars
<1> QED BY <1>1, <1>2, <1>3, <1>4, <1>5, <1>6, <1>7, <1>8, <1>9, <1>10, <1>11, <1>12, <1>13, <1>14,
           <1>15, <1>16, <1>17, <1>18, <1>19, <1>20 DEF Next, Timer

\* Only the timer switches from one process to another outside a device wait, and
\* it keeps the registers.
LEMMA SwitchMaps == IInv /\ [Next]_vars => [Switch => SwitchKeeps \/ Abandoned]_vars
<1> SUFFICES ASSUME IInv, [Next]_vars, Switch PROVE SwitchKeeps \/ Abandoned
  OBVIOUS
<1> USE DEF Switch
<1>N. ASSUME NEW t, NoSuchProcess(t) PROVE FALSE
  BY <1>N DEF NoSuchProcess, Return
<1>1. CASE Timer
  <2> PICK p \in Procs : Tick(p, cpu)
    BY <1>1 DEF Timer, TimerTick
  <2> QED BY TickEnters
<1>2. ASSUME NEW p \in Procs, AnswerTick(p) PROVE SwitchKeeps \/ Abandoned
  <2> DEFINE found == Goto(cpu, KernelPC)
  <2>1. Tick(p, found) /\ found.pc = KernelPC
    BY <1>2 DEF AnswerTick, IInv, TypeOK, Goto, Frames
  <2> HIDE DEF found
  <2>2. CASE current_process = Idle
    BY <2>1, <2>2, TickEnters
  <2>3. CASE current_process # Idle
    <3>1. Abstract!Touches({current_process} \cup Entered) /\ (Registers')[current_process] = found
      BY <2>1, <2>3, TickEnters
    <3>2. Live' = Live /\ UNCHANGED <<process_next_pid, waitpid, wstatus>>
      BY <2>1, TickTouches
    <3> QED BY <2>1, <2>3, <3>1, <3>2 DEF Abandoned
  <2> QED BY <2>2, <2>3
<1>3. ~ (\/ Compute \/ SysGetppid \/ SysFork \/ SysExit \/ Fault \/ PageFault
         \/ SysPause \/ SleepProc \/ WakeProc \/ ExecProc
         \/ TicksOverflow \/ IdleLookup \/ IdleTest \/ Halted \/ UNCHANGED vars)
  BY DEF Compute, SysGetppid, SysFork, SysExit, Fault, PageFault, SysPause, SleepProc, WakeProc,
         ExecProc, Wake, TicksOverflow, IdleLookup, IdleTest, Halted, vars, Return, ReturnToIdle
<1>4. ASSUME NEW t, SysWaitpid(t) \/ SysKill(t) \/ SysRaise(t) PROVE FALSE
  BY <1>4, <1>N DEF SysWaitpid, SysKill, SysRaise, WaitFor, KillSelf, KillOther, KillInit,
                    RaiseSignal, Return, ReturnToIdle
<1>5. ASSUME NEW h, SysSignal(h) PROVE FALSE
  BY <1>5 DEF SysSignal, Return
<1> QED BY <1>1, <1>2, <1>3, <1>4, <1>5 DEF Next

\* The scheduler implements independent processes: whatever is interleaved, a
\* process's registers are changed by its own steps and by what it is due, but
\* for a tick inside the handler of a network interrupt that answers, which costs
\* the interrupted process its registers and nobody else.
THEOREM SchedulerIsInvisible == Spec => ProcessesAreIndependent
<1>1. Init => Abstract!Start
  <2> SUFFICES ASSUME Init PROVE Abstract!Start
    OBVIOUS
  <2>1. Len(ready_queue) = 1 /\ ready_queue[1] = 1 /\ process_next_pid = 2
    BY DEF Init
  <2>2. Live = {1} /\ 1 .. process_next_pid - 1 = {1}
    BY <2>1 DEF Live
  <2>3. Procs \subseteq Pids
    BY MaxPidAssumption DEF Procs, Pids
  <2> QED BY <2>2, <2>3 DEF Abstract!Start, Init, Registers
<1> QED BY <1>1, StepMaps, SwitchMaps, Invariant, PTL DEF Spec, ProcessesAreIndependent
=============================================================================
