------------------------------ MODULE Process ------------------------------
(***************************************************************************)
(* The process table and the scheduler of the kernel: modules/process.c,   *)
(* the process-related system calls of cpu/syscall.c, the three interrupt  *)
(* stubs (cpu/syscall.asm, cpu/irq.asm, cpu/isr.asm) that save and restore *)
(* the register frame around every handler, and the idle loop              *)
(* kernel_int_wait of kernel.c.                                            *)
(*                                                                         *)
(* There is one CPU and the stubs run with interrupts disabled, so a       *)
(* handler is one atomic action, with two exceptions.  The system calls    *)
(* that wait for a device give the CPU to the idle process, turn the       *)
(* scheduler off and enable interrupts until the device has answered; they *)
(* are the two actions SleepProc and WakeProc (or ExecProc).  And the      *)
(* network's handler enables interrupts when it has sent an answer         *)
(* (e1000.c:348): a tick inside it is the action AnswerTick.               *)
(*                                                                         *)
(* A register frame is abstracted to [pc, eax].  pc tells apart two points *)
(* of a program (0 is its entry) and its signal handler; eax carries the   *)
(* results of system calls.                                                *)
(***************************************************************************)
EXTENDS Integers, Sequences

CONSTANTS
    MaxPid,   \* bound: process_next_pid stops here (the code has no bound)
    Calls     \* the events that programs, the network and time cause in this instance

AllCalls == {"compute", "getppid", "fork", "exit", "waitpid", "kill", "raise",
             "signal", "pause", "sleep", "exec", "fault", "answer", "overflow"}

ASSUME MaxPidAssumption == MaxPid \in Nat \ {0}
ASSUME CallsAssumption == Calls \subseteq AllCalls

Idle  == 0                  \* kernel_idle_process, pid 0, never in the queue
Procs == 1 .. MaxPid
Pids  == 0 .. MaxPid
None  == 0                  \* NULL parent, no waitpid, no sleeping process

HandlerPC == 2              \* entry of the user's signal handler
PCs       == {0, 1, HandlerPC}
KernelPC  == 3              \* the middle of a kernel handler
ESRCH == -3
EBUSY == -16
ENOENT == -2
ExitCodes == {0, 1}         \* success and failure
CallNo == 1000              \* a system call number, still in eax of the frame
Frames == [pc : PCs \cup {KernelPC}, eax : Int]

Result(r, x) == [r EXCEPT !.eax = x]    \* the frame r with x in eax
Goto(r, v)   == [r EXCEPT !.pc = v]     \* the frame r, resumed at v

VARIABLES
    process_next_pid,
    ready_queue,        \* the list of every live process except idle
    current_process,
    round_robin,        \* the scheduler is on
    state, suspended, waitpid, signal, sig_handle, parent,  \* process_t fields
    regs,               \* process_t.r, the saved frame
    wstatus,            \* what kind of status the last waitpid stored for it
    cpu,                \* the frame the CPU runs (or will restore by iret)
    asleep,             \* whose system call is waiting for a device, or None
    panicked,           \* "no", or the message of panic()
    aligned,            \* timer_ticks still meets the multiples of 1000
    fate                \* history: how a process ended, and who knows of it

vars == <<process_next_pid, ready_queue, current_process, round_robin, state,
          suspended, waitpid, signal, sig_handle, parent, regs, wstatus, cpu,
          asleep, panicked, aligned, fate>>

-----------------------------------------------------------------------------
(* The state of the queue.                                                 *)

Live == {ready_queue[i] : i \in 1 .. Len(ready_queue)}

\* process_add_ready_queue: link p in after the last node.
LinkAtHead(q, p) == <<p>> \o q
Link(q, p) == Append(q, p)

\* process_remove_ready_queue: unlink the node of p.
Unlink(q, p) ==
    LET i == CHOOSE k \in 1 .. Len(q) : q[k] = p
    IN  [k \in 1 .. Len(q) - 1 |-> IF k < i THEN q[k] ELSE q[k + 1]]

\* process_round_robin passes over nodes that are suspended or not READY.
RunnableIfReady(p) == p \in Live /\ p # current_process /\ state[p] = "READY"
Runnable(p) == p \in Live /\ p # current_process /\ ~suspended[p] /\ state[p] = "READY"

\* process_round_robin scans from the node after the current one to the end,
\* then from the head up to the current one; from the head if idle is current.
Position(p) == CHOOSE i \in 1 .. Len(ready_queue) : ready_queue[i] = p
ScanFromHead(p) == Position(p)
ScanOrder(p) ==
    IF current_process = Idle \/ Position(p) < Position(current_process)
    THEN Len(ready_queue) + Position(p)
    ELSE Position(p)

\* The first process the scan meets.
NextToRun(p) ==
    /\ Runnable(p)
    /\ \A q \in Live : Runnable(q) => ScanOrder(p) <= ScanOrder(q)

-----------------------------------------------------------------------------
(* The pieces the handlers are made of.                                    *)

\* The frame that the system call stub pushes: eax holds the call's number.
Trap == Result(cpu, CallNo)

\* The stubs' save_curr_state: the frame r of the current process is kept.
SaveNothing(r) == regs
Save(r) == [regs EXCEPT ![current_process] = r]

\* The CPU has been given a frame from the middle of a handler that was left
\* by a switch.  It goes on there on whatever stack it has; what it does is
\* not followed further.
Lost == asleep = None /\ cpu.pc = KernelPC

\* A user process runs and causes event c.
InUser(c) ==
    /\ panicked = "no" /\ ~Lost
    /\ asleep = None
    /\ current_process # Idle
    /\ c \in Calls

\* process_switch: a pending signal with a user handler enters the handler.
\* (With a kernel frame only the address changes, not the kernel's segments:
\* the frame is as lost as before.)
Deliver(r, p) ==
    IF signal[p] # 0 /\ sig_handle[p] /\ r.pc # KernelPC THEN Goto(r, HandlerPC) ELSE r

\* The stub saves p's frame, the handler does not switch, process_reload
\* restores the frame, and the stub puts the result into eax.
Return(p, ret) ==
    /\ cpu' = Result(cpu, ret)
    /\ state' = [state EXCEPT ![p] = "RUNNING"]
    /\ UNCHANGED <<current_process, round_robin, asleep>>

\* The handler has switched to the idle process by process_idle; the stub puts
\* the result of the system call into the eax of the process it returns to.
ReturnToIdle(ret) ==
    /\ current_process' = Idle
    /\ cpu' = Result(regs[Idle], ret)
    /\ UNCHANGED <<round_robin, asleep>>

\* process_notify_waitpid: the processes of S that wait for p are resumed and
\* find p in eax and the status where they asked for it.
FirstWaiter(S, p) == {q \in S : waitpid[q] = p /\ \A r \in S : waitpid[r] = p => q <= r}
Waiters(S, p) == {q \in S : waitpid[q] = p}
Notified(f, S, p) ==
    [q \in Pids |-> IF q \in Waiters(S, p) THEN Result(f[q], p) ELSE f[q]]
NotifyMinusOne(S, p, status) ==
    /\ waitpid' = [q \in Pids |-> IF q \in Waiters(S, p) THEN -1 ELSE waitpid[q]]
    /\ suspended' = [q \in Pids |-> IF q \in Waiters(S, p) THEN FALSE ELSE suspended[q]]
    /\ wstatus' = [q \in Pids |-> IF q \in Waiters(S, p) THEN status ELSE wstatus[q]]
Notify(S, p, status) ==
    /\ waitpid' = [q \in Pids |-> IF q \in Waiters(S, p) THEN None ELSE waitpid[q]]
    /\ suspended' = [q \in Pids |-> IF q \in Waiters(S, p) THEN FALSE ELSE suspended[q]]
    /\ wstatus' = [q \in Pids |-> IF q \in Waiters(S, p) THEN status ELSE wstatus[q]]

\* process_destroy: the children found in the queue go to p's parent, and p
\* leaves the queue.  Its record is freed; nothing reads it again but
\* syscall_exit and syscall_kill, which take the pid from it.
DestroyOrphaning(p, how) ==
    /\ ready_queue' = Unlink(ready_queue, p)
    /\ parent' = parent
    /\ fate' = [fate EXCEPT ![p] = how]
Destroy(p, how) ==
    /\ ready_queue' = Unlink(ready_queue, p)
    /\ parent' = [q \in Pids |->
                    IF q \in Live /\ parent[q] = p THEN parent[p] ELSE parent[q]]
    /\ fate' = [fate EXCEPT ![p] = how]

-----------------------------------------------------------------------------
(* Boot: system() creates init and switch_ring3 enters it.  Init is not    *)
(* marked RUNNING and idle still is: process_init set it.                  *)

Init ==
    /\ process_next_pid = 2
    /\ ready_queue = <<1>>
    /\ current_process = 1
    /\ round_robin = TRUE
    /\ state = [p \in Pids |-> IF p = Idle THEN "RUNNING"
                               ELSE IF p = 1 THEN "READY" ELSE "NEW"]
    /\ suspended = [p \in Pids |-> FALSE]
    /\ waitpid = [p \in Pids |-> None]
    /\ signal = [p \in Pids |-> 0]
    /\ sig_handle = [p \in Pids |-> FALSE]
    /\ parent = [p \in Pids |-> None]
    /\ regs = [p \in Pids |-> [pc |-> 0, eax |-> 0]]
    /\ wstatus = [p \in Pids |-> "none"]
    /\ cpu = [pc |-> 0, eax |-> 0]
    /\ asleep = None
    /\ panicked = "no"
    /\ aligned = TRUE
    /\ fate = [p \in Pids |-> "alive"]

-----------------------------------------------------------------------------
(* What a user process does.  p is always current_process.                 *)

\* The program goes on: a user instruction, or the return from its handler.
Compute ==
    /\ InUser("compute")
    /\ \E v \in {0, 1} \ {cpu.pc} : cpu' = Goto(cpu, v)
    /\ UNCHANGED <<process_next_pid, aligned, ready_queue, current_process, round_robin, state,
                   suspended, waitpid, signal, sig_handle, parent, regs, wstatus,
                   asleep, panicked, fate>>

\* getppid, and with it the calls that only return a field of the process.
SysGetppid ==
    LET p == current_process IN
    /\ InUser("getppid")
    /\ regs' = Save(Trap)
    /\ Return(p, parent[p])
    /\ UNCHANGED <<process_next_pid, aligned, ready_queue, suspended, waitpid, signal,
                   sig_handle, parent, wstatus, panicked, fate>>

\* fork: the child's frame is the parent's saved one with eax 0; it has no
\* pending signal, the default handlers, and goes to the end of the queue.
SysFork ==
    LET p == current_process
        c == process_next_pid
    IN
    /\ InUser("fork")
    /\ c <= MaxPid
    /\ process_next_pid' = c + 1
    /\ ready_queue' = Link(ready_queue, c)
    /\ parent' = [parent EXCEPT ![c] = p]
    /\ regs' = [Save(Trap) EXCEPT ![c] = Result(Trap, 0)]
    /\ cpu' = Result(cpu, c)
    /\ state' = [state EXCEPT ![p] = "RUNNING", ![c] = "READY"]
    /\ UNCHANGED <<current_process, round_robin, suspended, waitpid, signal, sig_handle,
                   wstatus, asleep, panicked, aligned, fate>>

\* exit: p is destroyed, the idle process is resumed, the waiters are told; the
\* exit code is the call's result, which the stub leaves in idle's eax.
SysExit ==
    LET p == current_process
        rest == Live \ {p}
        told == IF Waiters(rest, p) = {} THEN "unreported" ELSE "reported"
    IN
    /\ InUser("exit")
    /\ Destroy(p, told)
    /\ state' = [state EXCEPT ![p] = "ZOMBIE", ![Idle] = "RUNNING"]
    /\ Notify(rest, p, "exit")
    /\ regs' = Notified(Save(Trap), rest, p)
    /\ \E exit_code \in ExitCodes : ReturnToIdle(exit_code)
    /\ UNCHANGED <<process_next_pid, aligned, signal, sig_handle, panicked>>

\* A fault in user mode, other than a page fault: process_handle_int destroys p and
\* resumes idle; the waiters are not told.
Fault ==
    LET p == current_process IN
    /\ InUser("fault")
    /\ Destroy(p, "faulted")
    /\ state' = [state EXCEPT ![p] = "ZOMBIE", ![Idle] = "RUNNING"]
    /\ regs' = Save(cpu)
    /\ current_process' = Idle
    /\ cpu' = regs[Idle]
    /\ UNCHANGED <<process_next_pid, aligned, round_robin, suspended, waitpid, signal, sig_handle,
                   wstatus, asleep, panicked>>

\* A page fault in user mode has a handler of its own, whose panic_handler destroys
\* p, tells the waiters and resumes idle.
PageFault ==
    LET p == current_process
        rest == Live \ {p}
        told == IF Waiters(rest, p) = {} THEN "unreported" ELSE "reported"
    IN
    /\ InUser("fault")
    /\ Destroy(p, told)
    /\ state' = [state EXCEPT ![p] = "ZOMBIE", ![Idle] = "RUNNING"]
    /\ Notify(rest, p, "fault")
    /\ regs' = Notified(Save(cpu), rest, p)
    /\ current_process' = Idle
    /\ cpu' = regs[Idle]
    /\ UNCHANGED <<process_next_pid, aligned, round_robin, signal, sig_handle, asleep, panicked>>

\* process_by_pid finds no process t: waitpid and kill return -ESRCH.
NoSuchProcess(t) ==
    LET p == current_process IN
    /\ t \notin Live
    /\ regs' = Save(Trap)
    /\ Return(p, ESRCH)
    /\ UNCHANGED <<process_next_pid, aligned, ready_queue, suspended, waitpid, signal, sig_handle,
                   parent, wstatus, panicked, fate>>

\* p is suspended until t ends, and the idle process is resumed.
WaitFor(t) ==
    LET p == current_process IN
    /\ t \in Live
    /\ regs' = Save(Trap)
    /\ waitpid' = [waitpid EXCEPT ![p] = t]
    /\ suspended' = [suspended EXCEPT ![p] = TRUE]
    /\ state' = [state EXCEPT ![p] = "READY", ![Idle] = "RUNNING"]
    /\ ReturnToIdle(0)
    /\ UNCHANGED <<process_next_pid, aligned, ready_queue, signal, sig_handle, parent, wstatus,
                   panicked, fate>>

\* waitpid: any live process may be waited for, by anyone.  The branch for a
\* zombie is never taken: a destroyed process is not in the queue.
SysWaitpid(t) == InUser("waitpid") /\ (NoSuchProcess(t) \/ WaitFor(t))

\* kill with pid 0 means the caller.
Target(arg) == IF arg = 0 THEN current_process ELSE arg

\* SIGKILL: the waiters are told, then t is destroyed.
KillTarget(t) ==
    /\ t \in Live
    /\ Notify(Live, t, "signal")
    /\ regs' = Notified(Save(Trap), Live, t)
    /\ Destroy(t, IF Waiters(Live \ {t}, t) = {} THEN "unreported" ELSE "reported")
    /\ UNCHANGED <<process_next_pid, aligned, signal, sig_handle>>

\* A process that kills itself leaves the CPU to idle.
KillSelf(t) ==
    /\ t = current_process
    /\ t # 1
    /\ KillTarget(t)
    /\ state' = [state EXCEPT ![t] = "ZOMBIE", ![Idle] = "RUNNING"]
    /\ ReturnToIdle(0)
    /\ UNCHANGED panicked

KillOther(t) ==
    /\ t # current_process
    /\ t # 1
    /\ KillTarget(t)
    /\ state' = [state EXCEPT ![t] = "ZOMBIE", ![current_process] = "RUNNING"]
    /\ cpu' = Result(cpu, 0)
    /\ UNCHANGED <<current_process, round_robin, asleep, panicked>>

\* Killing init panics: process_disable makes idle current and turns the scheduler
\* off; panic does not return.
KillInit(t) ==
    /\ t = 1
    /\ KillTarget(t)
    /\ panicked' = "init_killed"
    /\ state' = [state EXCEPT ![current_process] = "READY", ![t] = "ZOMBIE"]
    /\ current_process' = Idle
    /\ round_robin' = FALSE
    /\ UNCHANGED <<cpu, asleep>>

\* kill(arg, SIGKILL).
SysKill(arg) ==
    LET t == Target(arg) IN
    InUser("kill") /\ (NoSuchProcess(t) \/ KillSelf(t) \/ KillOther(t) \/ KillInit(t))

\* A signal that can be handled: the waiters are told all the same, then the
\* signal becomes pending unless one is already.  (1 is the only number a pending
\* signal has here, so a refused one leaves it as it is.)
RaiseSignal(t) ==
    LET p == current_process IN
    /\ t \in Live
    /\ Notify(Live, t, "signal")
    /\ regs' = Notified(Save(Trap), Live, t)
    /\ signal' = [signal EXCEPT ![t] = 1]
    /\ Return(p, IF signal[t] # 0 THEN EBUSY ELSE 0)
    /\ UNCHANGED <<process_next_pid, aligned, ready_queue, sig_handle, parent, panicked, fate>>

\* kill(arg, sig) for any signal but SIGKILL.
SysRaise(arg) ==
    LET t == Target(arg) IN
    InUser("raise") /\ (NoSuchProcess(t) \/ RaiseSignal(t))

\* signal(): install a handler or the default action.  The new handler is
\* also the result; the address is abstracted to HandlerPC.
SysSignal(handler) ==
    LET p == current_process IN
    /\ InUser("signal")
    /\ sig_handle' = [sig_handle EXCEPT ![p] = handler]
    /\ regs' = Save(Trap)
    /\ Return(p, IF handler THEN HandlerPC ELSE 0)
    /\ UNCHANGED <<process_next_pid, aligned, ready_queue, suspended, waitpid, signal, parent,
                   wstatus, panicked, fate>>

\* pause: the idle process is resumed but p is not suspended.
SysPause ==
    LET p == current_process IN
    /\ InUser("pause")
    /\ regs' = Save(Trap)
    /\ state' = [state EXCEPT ![p] = "READY", ![Idle] = "RUNNING"]
    /\ ReturnToIdle(-1)
    /\ UNCHANGED <<process_next_pid, aligned, ready_queue, suspended, waitpid, signal, sig_handle,
                   parent, wstatus, panicked, fate>>

-----------------------------------------------------------------------------
(* read, write, open, stat, lstat, execve and chdir wait for a device.     *)

\* syscall_sleep_proc: idle becomes current, the scheduler goes off.
SleepProc ==
    LET p == current_process IN
    /\ InUser("sleep")
    /\ regs' = Save(Trap)
    /\ state' = [state EXCEPT ![p] = "READY", ![Idle] = "RUNNING"]
    /\ current_process' = Idle
    /\ cpu' = regs[Idle]
    /\ suspended' = [suspended EXCEPT ![p] = TRUE]
    /\ round_robin' = FALSE
    /\ asleep' = p
    /\ UNCHANGED <<process_next_pid, aligned, ready_queue, waitpid, signal, sig_handle, parent,
                   wstatus, panicked, fate>>

\* syscall_wake_proc, after the call has set p's saved frame to frame: the
\* scheduler goes on, p becomes current again (a pending signal is delivered).
Wake(frame, ret) ==
    LET p == asleep
        r == Deliver(frame, p)
    IN
    /\ panicked = "no"
    /\ asleep # None
    /\ round_robin' = TRUE
    /\ current_process' = p
    /\ regs' = [regs EXCEPT ![p] = r]
    /\ cpu' = Result(r, ret)
    /\ state' = [state EXCEPT ![p] = "RUNNING", ![Idle] = "READY"]
    /\ suspended' = [suspended EXCEPT ![p] = FALSE]
    /\ asleep' = None
    /\ UNCHANGED <<process_next_pid, aligned, ready_queue, waitpid, signal, sig_handle, parent,
                   wstatus, panicked, fate>>

\* The call returns; ENOENT stands for any result.
WakeProc == Wake(regs[asleep], ENOENT)

\* A successful execve has replaced the program: p starts at its entry.
ExecProc ==
    /\ "exec" \in Calls
    /\ Wake(Goto(regs[asleep], 0), 0)

-----------------------------------------------------------------------------
(* The timer, and the idle loop.                                           *)

\* The timer interrupt of every tenth tick: the stub saves the frame it finds,
\* process_round_robin switches to p.  (When no process can be switched to,
\* and while the scheduler is off, the interrupt restores what it saved.)
Tick(p, found) ==
    LET old == current_process
        r == Deliver(regs[p], p)
    IN
    /\ panicked = "no" /\ ~Lost
    /\ round_robin
    /\ aligned
    /\ NextToRun(p)
    /\ regs' = [Save(found) EXCEPT ![p] = r]
    /\ cpu' = r
    /\ current_process' = p
    /\ state' = [state EXCEPT ![old] = "READY", ![p] = "RUNNING"]
    /\ UNCHANGED <<process_next_pid, aligned, ready_queue, round_robin, suspended, waitpid, signal,
                   sig_handle, parent, wstatus, asleep, panicked, fate>>

TimerTick(p) == Tick(p, cpu)
Timer == \E p \in Procs : TimerTick(p)

\* The tick comes inside the handler of a network interrupt, which has enabled
\* interrupts again: the stub finds the handler's frame and saves it as the
\* frame of the process that was interrupted.  The handler is left with the
\* process's own frame on its stack.  (Without a switch the handler goes on
\* and restores that frame.)
AnswerTick(p) == "answer" \in Calls /\ Tick(p, Goto(cpu, KernelPC))

\* timer_ticks, an int that grows by 100, overflows after 2^31 / 100 ticks.  It
\* is then 4 more than a multiple of 100, so no tick is a multiple of 1000 any
\* more until the counter has gone round 25 times; that is not modelled.
TicksOverflow ==
    /\ panicked = "no"
    /\ "overflow" \in Calls
    /\ aligned' = FALSE
    /\ UNCHANGED <<process_next_pid, ready_queue, current_process, round_robin, state,
                   suspended, waitpid, signal, sig_handle, parent, regs, wstatus, cpu,
                   asleep, panicked, fate>>

\* kernel_int_wait runs, being the current process with the scheduler on.
InIdle == panicked = "no" /\ asleep = None /\ current_process = Idle

\* process_by_pid(1) returns: its result is in eax.
IdleLookup ==
    /\ InIdle
    /\ cpu.pc = 0
    /\ cpu' = [pc |-> 1, eax |-> IF 1 \in Live THEN 1 ELSE 0]
    /\ UNCHANGED <<process_next_pid, aligned, ready_queue, current_process, round_robin, state,
                   suspended, waitpid, signal, sig_handle, parent, regs, wstatus,
                   asleep, panicked, fate>>

\* The result is tested: panic without init, else halt until an interrupt.
IdleTest ==
    /\ InIdle
    /\ cpu.pc = 1
    /\ \/ /\ cpu.eax = 0
          /\ round_robin' = FALSE
          /\ panicked' = "init_died"
          /\ UNCHANGED cpu
       \/ /\ cpu.eax # 0
          /\ cpu' = Goto(cpu, 0)
          /\ UNCHANGED <<round_robin, panicked>>
    /\ UNCHANGED <<process_next_pid, aligned, ready_queue, current_process, state, suspended,
                   waitpid, signal, sig_handle, parent, regs, wstatus, asleep, fate>>

\* After a panic the machine is halted, and a lost CPU is not followed.
Halted == (panicked # "no" \/ Lost) /\ UNCHANGED vars

Next ==
    \/ Compute \/ SysGetppid \/ SysFork \/ SysExit \/ Fault \/ PageFault
    \/ \E t \in Pids : SysWaitpid(t) \/ SysKill(t) \/ SysRaise(t)
    \/ \E h \in BOOLEAN : SysSignal(h)
    \/ SysPause \/ SleepProc \/ WakeProc \/ ExecProc
    \/ Timer \/ TicksOverflow
    \/ \E p \in Procs : AnswerTick(p)
    \/ IdleLookup \/ IdleTest \/ Halted

Spec == Init /\ [][Next]_vars

\* The PIT keeps interrupting, whatever runs.
FairSpec == Spec /\ WF_vars(Timer)

-----------------------------------------------------------------------------
(* Properties.                                                             *)

States == {"NEW", "READY", "RUNNING", "ZOMBIE"}
Fates  == {"alive", "reported", "unreported", "faulted"}

\* Every variable has its type.
TypeOK ==
    /\ process_next_pid \in 2 .. MaxPid + 1
    /\ ready_queue \in Seq(Procs)
    /\ current_process \in Pids
    /\ round_robin \in BOOLEAN
    /\ state \in [Pids -> States]
    /\ suspended \in [Pids -> BOOLEAN]
    /\ waitpid \in [Pids -> Pids]
    /\ signal \in [Pids -> {0, 1}]
    /\ sig_handle \in [Pids -> BOOLEAN]
    /\ parent \in [Pids -> Pids]
    /\ regs \in [Pids -> Frames]
    /\ wstatus \in [Pids -> {"none", "exit", "signal", "fault"}]
    /\ cpu \in Frames
    /\ asleep \in Pids
    /\ panicked \in {"no", "init_died", "init_killed"}
    /\ aligned \in BOOLEAN
    /\ fate \in [Pids -> Fates]

\* The ready queue lists each process once, in the order of creation, however
\* fork, exit, kill and faults are interleaved (process_add_ready_queue,
\* process_remove_ready_queue): a round visits everybody exactly once.
QueueOrdered ==
    /\ \A i, j \in 1 .. Len(ready_queue) : i < j => ready_queue[i] < ready_queue[j]
    /\ \A i \in 1 .. Len(ready_queue) : ready_queue[i] < process_next_pid

\* The current process is idle or a live process that is not suspended, and no
\* other live process is marked RUNNING: process_unload, process_switch and
\* process_reload leave no stale mark that would hide a process from
\* process_round_robin or let two processes own the CPU.
OneRunning ==
    /\ \/ current_process = Idle
       \/ current_process \in Live /\ ~suspended[current_process]
    /\ \A p \in Live : state[p] \in {"READY", "RUNNING"}
                     /\ (state[p] = "RUNNING" => p = current_process)
    /\ asleep # None => current_process = Idle /\ asleep \in Live
    /\ panicked = "no" => round_robin = (asleep = None)

\* A live process is suspended for exactly one reason, and the event that
\* resumes it can still come: its own device wait, or the end of a process that
\* is alive, or that process_handle_int ended, which tells nobody.
SuspendedHasWaker ==
    \A p \in Live :
        /\ suspended[p] <=> (asleep = p \/ waitpid[p] # None)
        /\ asleep = p => waitpid[p] = None
        /\ waitpid[p] # None =>
              waitpid[p] \in Live \/ fate[waitpid[p]] = "faulted"

\* The parent pointers of live processes form a forest of live, older processes
\* after any order of exits, kills and faults: process_destroy re-parents every
\* child before the record is freed, so getppid never follows a freed record.
ParentsLive ==
    \A p \in Live : parent[p] # None => parent[p] \in Live /\ parent[p] < p

\* A process that can run gets the CPU, ends, or is suspended again by its own
\* call, whatever the others do, as long as nobody calls pause, raises signals
\* or keeps the scheduler off, timer_ticks has not overflowed and no tick came
\* inside a network answer: the scan of process_round_robin skips nobody.
NoStarvation ==
    \A p \in Procs :
        (p \in Live /\ ~suspended[p]) ~>
            (current_process = p \/ p \notin Live \/ panicked # "no" \/ ~aligned \/ Lost)

-----------------------------------------------------------------------------
(* What comments and messages of the repository say and the code does not do. *)

\* init.c: a parent that waits for its child is resumed when the child is gone,
\* also when process_handle_int ended it.
WaiterOfDeadIsResumed ==
    \A p \in Live : waitpid[p] # None => waitpid[p] \in Live

\* kernel_int_wait panics with "init process died" only if init is dead.
PanicIsTrue == panicked = "init_died" => 1 \notin Live

=============================================================================
