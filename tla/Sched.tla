------------------------------- MODULE Sched -------------------------------
(***************************************************************************)
(* Processes of the Glenda kernel: the process table, the runnable bitmap, *)
(* the scheduler loop, fork / exit / wait / sleep and the timer tick.      *)
(*                                                                         *)
(* Only hart 0 ever runs the scheduler (main.rs); a trap from user mode    *)
(* enters the kernel with SIE = 0 and nothing on the trap path sets it, so *)
(* the kernel runs from one switch_context to the next without being       *)
(* interrupted.  The scheduler opens interrupts only when it idles.  Hence *)
(* one action per stretch of kernel code between two such points.          *)
(*                                                                         *)
(* Addresses of table entries are slot numbers, None is the null pointer   *)
(* (and sleep_chan = 0), TICKS is the address of SYS_TICKS.  A program     *)
(* counter is represented by the pid of the process whose code it is in.   *)
(***************************************************************************)
EXTENDS Naturals

CONSTANTS
  NPROC,      \* entries of PROC_TABLE
  MaxPid,     \* bound: pids handed out by the model
  MaxSleep,   \* bound: longest sleep, in ticks
  Codes,      \* exit codes
  Reentrant   \* does a hart that holds a spin::Mutex get it a second time?
              \* FALSE for spin 0.10, which the kernel links.  TRUE only to
              \* reach the code behind the two second acquisitions.

ASSUME SchedAssumption ==
  /\ NPROC \in Nat \ {0}
  /\ MaxPid \in Nat \ {0}
  /\ MaxSleep \in Nat
  /\ 0 \in Codes
  /\ Reentrant \in BOOLEAN

Slots == 0 .. NPROC - 1
None == NPROC
TICKS == NPROC + 1
KernelPc == 0
ProcState == {"Unused", "Zombie", "Dying", "Sleeping", "Runnable", "Running"}

VARIABLES
  state, parent, pid, chan, code,   \* the Process fields, by slot
  epc,      \* trapframe.kernel_epc, by slot
  cont,     \* where Process.context resumes: after a yield, in a wait or
            \* sleep loop, or (first run) straight to user mode
  left,     \* ticks until timer::wait's target is reached, 0 once it is
  bitmap,   \* RUNNABLE_BITMAP
  nextPid,  \* GLOBAL_PID
  proc,     \* hart.proc of hart 0
  mode,     \* what hart 0 executes
  sepc      \* its sepc register

vars == <<state, parent, pid, chan, code, epc, cont, left, bitmap, nextPid,
          proc, mode, sepc>>

(***************************************************************************)
(* Modes of hart 0: the scheduler loop ("sched"), the scheduler after      *)
(* switch_context came back ("swtch"), user code of proc ("user"), the     *)
(* loops of wait and timer::wait on behalf of proc ("wait", "sleep"),      *)
(* spinning on a lock it holds itself ("hung"), halted ("panic").          *)
(***************************************************************************)
Modes == {"sched", "swtch", "user", "wait", "sleep", "hung", "panic"}

TypeOK ==
  /\ state \in [Slots -> ProcState]
  /\ parent \in [Slots -> Slots \cup {None}]
  /\ pid \in [Slots -> Nat]
  /\ chan \in [Slots -> Slots \cup {None, TICKS}]
  /\ code \in [Slots -> Codes]
  /\ epc \in [Slots -> Nat]
  /\ cont \in [Slots -> {"user", "yield", "wait", "sleep"}]
  /\ left \in [Slots -> 0 .. MaxSleep]
  /\ bitmap \in SUBSET Slots
  /\ nextPid \in Nat \ {0}
  /\ proc \in Slots \cup {None}
  /\ mode \in Modes
  /\ sepc \in Nat

\* Boot: create() has put the first process into slot 0 of an empty table.
Init ==
  /\ state = [s \in Slots |-> IF s = 0 THEN "Runnable" ELSE "Unused"]
  /\ parent = [s \in Slots |-> None]
  /\ pid = [s \in Slots |-> IF s = 0 THEN 1 ELSE 0]
  /\ chan = [s \in Slots |-> None]
  /\ code = [s \in Slots |-> 0]
  /\ epc = [s \in Slots |-> IF s = 0 THEN 1 ELSE 0]
  /\ cont = [s \in Slots |-> "user"]
  /\ left = [s \in Slots |-> 0]
  /\ bitmap = {0}
  /\ nextPid = 2
  /\ proc = None
  /\ mode = "sched"
  /\ sepc = KernelPc

-----------------------------------------------------------------------------
(* Runnable queue. *)

(***************************************************************************)
(* Definitions whose names start with Bug are never used: each is a change *)
(* a maintainer might make to the definition below it, kept to see that    *)
(* the properties notice it.                                               *)
(***************************************************************************)

BugFindHighest(i) == i \in bitmap /\ \A j \in bitmap : i >= j

\* find_runnable: trailing_zeros, the lowest set bit.
FindRunnable(i) == i \in bitmap /\ \A j \in bitmap : i <= j

\* clear_runnable_bit.
ClearRunnableBit(i) == bitmap \ {i}

\* alloc scans the table from slot 0 for an Unused entry.
FirstUnused(c) ==
  /\ c \in Slots /\ state[c] = "Unused"
  /\ \A j \in Slots : state[j] = "Unused" => c <= j

BugWakeFirst(ch) ==
  LET all == {s \in Slots : state[s] = "Sleeping" /\ chan[s] = ch}
  IN  {s \in all : \A t \in all : s <= t}

\* The processes wakeup(ch) makes Runnable.
Woken(ch) == {s \in Slots : state[s] = "Sleeping" /\ chan[s] = ch}

BugWakeAnyChannel(ch) ==
  [s \in Slots |-> IF state[s] = "Sleeping" THEN "Runnable" ELSE state[s]]

\* The state and channel fields after wakeup(ch).
StateAfterWakeup(ch) ==
  [s \in Slots |-> IF s \in Woken(ch) THEN "Runnable" ELSE state[s]]
ChanAfterWakeup(ch) ==
  [s \in Slots |-> IF s \in Woken(ch) THEN None ELSE chan[s]]

-----------------------------------------------------------------------------
(* The scheduler loop on hart 0. *)

\* The process switched to continues where its context was saved: a new
\* process and one back from a yield leave for user mode, the others go on
\* with the loop they slept in.  The end of trap_user_handler reloads
\* kernel_epc from sepc before trap_user_return writes sepc from kernel_epc.
Resume(i) ==
  \/ /\ cont[i] = "user"
     /\ mode' = "user" /\ sepc' = epc[i]
     /\ UNCHANGED epc
  \/ /\ cont[i] = "yield"
     /\ mode' = "user" /\ epc' = [epc EXCEPT ![i] = sepc]
     /\ UNCHANGED sepc
  \/ /\ cont[i] \in {"wait", "sleep"}
     /\ mode' = cont[i]
     /\ UNCHANGED <<epc, sepc>>

\* scheduler: pick the first runnable bit, double-check the state, switch.
Dispatch ==
  /\ mode = "sched"
  /\ \E i \in Slots :
       /\ FindRunnable(i)
       /\ bitmap' = ClearRunnableBit(i)
       /\ IF state[i] = "Runnable"
            THEN /\ state' = [state EXCEPT ![i] = "Running"]
                 /\ proc' = i
                 /\ Resume(i)
            ELSE UNCHANGED <<state, proc, mode, epc, sepc>>
  /\ UNCHANGED <<parent, pid, chan, code, cont, left, nextPid>>

\* scheduler, after switch_context has come back from slot proc.
AfterSwitch ==
  /\ mode = "swtch"
  /\ state' = IF state[proc] = "Dying"
                THEN [state EXCEPT ![proc] = "Zombie"] ELSE state
  /\ bitmap' = IF state[proc] = "Runnable"
                 THEN bitmap \cup {proc} ELSE bitmap
  /\ proc' = None
  /\ mode' = "sched"
  /\ UNCHANGED <<parent, pid, chan, code, epc, cont, left, nextPid, sepc>>

\* timer::update: SYS_TICKS + 1 brings every target one tick nearer.
Elapse == left' = [s \in Slots |-> IF left[s] > 0 THEN left[s] - 1 ELSE 0]

\* scheduler, nothing runnable: set_sie, wfi, and the tick taken there.  The
\* trap comes from S-mode, so timer_handler_stip does not yield.
IdleTick ==
  /\ mode = "sched" /\ bitmap = {}
  /\ Elapse
  /\ state' = StateAfterWakeup(TICKS)
  /\ chan' = ChanAfterWakeup(TICKS)
  /\ bitmap' = Woken(TICKS)
  /\ sepc' = KernelPc
  /\ UNCHANGED <<parent, pid, code, epc, cont, nextPid, proc, mode>>

-----------------------------------------------------------------------------
(* Traps from user mode.  trap_user_handler saves sepc in kernel_epc. *)

SaveEpc == epc' = [epc EXCEPT ![proc] = sepc]

\* A system call returns: exception_handler sets sepc to the epc it read on
\* entry plus 4, which is again a pc of the caller.
ReturnToUser == mode' = "user" /\ sepc' = epc[proc]

\* yield_proc makes the process it takes off the hart Runnable again.
Yield(st) == [st EXCEPT ![proc] = "Runnable"]

\* The tick in user mode: timer::update, then yield_proc.
Preempt ==
  /\ mode = "user"
  /\ SaveEpc
  /\ Elapse
  /\ state' = Yield(StateAfterWakeup(TICKS))
  /\ chan' = ChanAfterWakeup(TICKS)
  /\ bitmap' = bitmap \cup Woken(TICKS) \cup {proc}
  /\ cont' = [cont EXCEPT ![proc] = "yield"]
  /\ mode' = "swtch"
  /\ UNCHANGED <<parent, pid, code, nextPid, proc, sepc>>

\* sys_fork.  The child is set up to leave for user mode behind its parent's
\* ecall.
Fork ==
  /\ mode = "user" /\ nextPid <= MaxPid
  /\ \E c \in Slots :
       /\ FirstUnused(c)
       /\ state' = [state EXCEPT ![c] = "Runnable"]
       /\ bitmap' = bitmap \cup {c}
       /\ pid' = [pid EXCEPT ![c] = nextPid]
       /\ parent' = [parent EXCEPT ![c] = proc]
       /\ chan' = [chan EXCEPT ![c] = None]
       /\ code' = [code EXCEPT ![c] = 0]
       /\ cont' = [cont EXCEPT ![c] = "user"]
       /\ epc' = [epc EXCEPT ![proc] = sepc, ![c] = nextPid]
  /\ nextPid' = nextPid + 1
  /\ UNCHANGED <<left, proc, mode, sepc>>

\* fork's alloc().expect(...) on a full table, and an exception that is
\* neither a system call nor a stack access: the kernel panics.
Panic ==
  /\ mode = "user"
  /\ SaveEpc
  /\ mode' = "panic"
  /\ UNCHANGED <<state, parent, pid, chan, code, cont, left, bitmap, nextPid,
                 proc, sepc>>

ForkFails == (\A s \in Slots : state[s] # "Unused") /\ Panic

BugExitWakesNobody == {}

\* Whom exit wakes: the sleepers on its parent's address.
WokenByExit == IF parent[proc] = None THEN {} ELSE Woken(parent[proc])

BugExitKeepsChildren == parent

\* exit hands its children to slot 0.
Reparented == [s \in Slots |-> IF parent[s] = proc THEN 0 ELSE parent[s]]

\* sys_exit: wake the parent, hand the children to slot 0, become Dying,
\* switch away (yield_proc leaves a Dying process alone).
Exit(c) ==
  /\ mode = "user"
  /\ SaveEpc
  /\ code' = [code EXCEPT ![proc] = c]
  /\ state' = [s \in Slots |-> IF s = proc THEN "Dying"
                               ELSE IF s \in WokenByExit THEN "Runnable"
                               ELSE state[s]]
  /\ chan' = [s \in Slots |-> IF s \in WokenByExit THEN None ELSE chan[s]]
  /\ bitmap' = (bitmap \cup WokenByExit) \ {proc}
  /\ parent' = Reparented
  /\ cont' = [cont EXCEPT ![proc] = "yield"]
  /\ mode' = "swtch"
  /\ UNCHANGED <<pid, left, nextPid, proc, sepc>>

\* proc goes to sleep on ch inside loop l.  wait and sleep still hold
\* PROC_TABLE when find_proc_index locks it again.
SleepOn(ch, l) ==
  /\ state' = [state EXCEPT ![proc] = "Sleeping"]
  /\ chan' = [chan EXCEPT ![proc] = ch]
  /\ IF Reentrant
       THEN /\ bitmap' = bitmap \ {proc}
            /\ cont' = [cont EXCEPT ![proc] = l]
            /\ mode' = "swtch"
       ELSE /\ mode' = "hung"
            /\ UNCHANGED <<bitmap, cont>>

Wait ==
  /\ mode = "user"
  /\ SaveEpc
  /\ mode' = "wait"
  /\ UNCHANGED <<state, parent, pid, chan, code, cont, left, bitmap, nextPid,
                 proc, sepc>>

Kids == {s \in Slots : parent[s] = proc}
BugAnyZombie == {s \in Slots : state[s] = "Zombie"}
Zombies == {s \in Kids : state[s] = "Zombie"}

\* wait's loop body, a child has exited: the first one is freed.
Reap ==
  /\ mode = "wait"
  /\ \E z \in Zombies :
       /\ \A y \in Zombies : z <= y
       /\ state' = [state EXCEPT ![z] = "Unused"]
       /\ parent' = [parent EXCEPT ![z] = None]
       /\ pid' = [pid EXCEPT ![z] = 0]
       /\ chan' = [chan EXCEPT ![z] = None]
       /\ code' = [code EXCEPT ![z] = 0]
       /\ epc' = [epc EXCEPT ![z] = 0]
       /\ cont' = [cont EXCEPT ![z] = "user"]
  /\ ReturnToUser
  /\ UNCHANGED <<left, bitmap, nextPid, proc>>

\* wait's loop body, no child at all: None.
WaitNone ==
  /\ mode = "wait" /\ Kids = {}
  /\ ReturnToUser
  /\ UNCHANGED <<state, parent, pid, chan, code, epc, cont, left, bitmap,
                 nextPid, proc>>

\* wait's loop body, children but none has exited.
WaitSleep ==
  /\ mode = "wait" /\ Kids # {} /\ Zombies = {}
  /\ SleepOn(proc, "wait")
  /\ UNCHANGED <<parent, pid, code, epc, left, nextPid, proc, sepc>>

\* sys_sleep: timer::wait computes its target.
Sleep(n) ==
  /\ mode = "user"
  /\ SaveEpc
  /\ left' = [left EXCEPT ![proc] = n]
  /\ mode' = "sleep"
  /\ UNCHANGED <<state, parent, pid, chan, code, cont, bitmap, nextPid, proc,
                 sepc>>

\* timer::wait's loop: sleep again until the target is reached.
SleepMore ==
  /\ mode = "sleep" /\ left[proc] > 0
  /\ SleepOn(TICKS, "sleep")
  /\ UNCHANGED <<parent, pid, code, epc, left, nextPid, proc, sepc>>

SleepDone ==
  /\ mode = "sleep" /\ left[proc] = 0
  /\ ReturnToUser
  /\ UNCHANGED <<state, parent, pid, chan, code, epc, cont, left, bitmap,
                 nextPid, proc>>

\* Spinning on a held lock, and the panic handler's wfi loop.
Halted == mode \in {"hung", "panic"} /\ UNCHANGED vars

Syscall ==
  \/ Fork \/ ForkFails \/ Wait
  \/ \E c \in Codes : Exit(c)
  \/ \E n \in 0 .. MaxSleep : Sleep(n)

BugIdleMasked ==
  Dispatch \/ AfterSwitch \/ Reap \/ WaitNone \/ WaitSleep \/ SleepMore
    \/ SleepDone

KernelStep ==
  Dispatch \/ AfterSwitch \/ Reap \/ WaitNone \/ WaitSleep \/ SleepMore
    \/ SleepDone \/ IdleTick

Next == KernelStep \/ Preempt \/ Syscall \/ Panic \/ Halted

Spec == Init /\ [][Next]_vars

\* The hart executes kernel code until it is back in user mode.  The timer is
\* reprogrammed on every tick, and a tick due while the kernel runs stays
\* pending until the hart is in user mode (strong fairness); programs owe the
\* kernel nothing.
FairSpec == Spec /\ WF_vars(KernelStep) /\ SF_vars(Preempt)

-----------------------------------------------------------------------------
(* Properties. *)

\* A bit of RUNNABLE_BITMAP is set exactly when that slot is Runnable
\* (runnable_queue.rs: "Bit set = process is runnable, bit clear = process is
\* not runnable").  fork, exit, wait, sleep, wakeup, the timer and the
\* scheduler all update the two separately.
BitmapExact == \A s \in Slots : s \in bitmap <=> state[s] = "Runnable"

\* The only Running process is hart.proc, it is Running whenever its code or
\* its system call executes, and the scheduler loop runs with hart.proc null.
OneRunning ==
  /\ \A s \in Slots : state[s] = "Running" => proc = s
  /\ mode \in {"user", "wait", "sleep"} =>
       proc # None /\ state[proc] = "Running"
  /\ mode = "sched" <=> proc = None

\* Whatever order slots are freed and reused in, the parent pointer of a
\* process points to an older process that has not exited, or to slot 0; so
\* the processes always form a tree and exit never wakes a stranger that was
\* given its parent's slot.
ParentTree ==
  \A s \in Slots : state[s] # "Unused" /\ s # 0 =>
    /\ parent[s] # None
    /\ pid[parent[s]] < pid[s]
    /\ parent[s] # 0 =>
         state[parent[s]] \in {"Sleeping", "Runnable", "Running"}

\* A process in user mode executes at a pc of its own, although
\* trap_user_handler takes kernel_epc from the sepc register after the
\* handler may have switched to other processes and back.
OwnPc == mode = "user" => sepc = pid[proc]

\* No lost wakeup: a process other than slot 0 that sleeps in wait has a
\* child, and none of its children has become a Zombie.  (exit hands orphans
\* to slot 0 without waking it, so slot 0 is excepted.)
NoLostExit ==
  \A s \in Slots \ {0} : state[s] = "Sleeping" /\ chan[s] = s =>
    /\ \E k \in Slots : parent[k] = s
    /\ \A k \in Slots : parent[k] = s => state[k] # "Zombie"

\* Nobody sleeps beyond the end of a sleep: who is asleep on SYS_TICKS has
\* ticks to wait for, because every tick wakes every sleeper to look again.
NoOversleep ==
  \A s \in Slots : state[s] = "Sleeping" /\ chan[s] = TICKS => left[s] > 0

\* An exited process stays a Zombie, with its pid and exit code, until the
\* process that is its parent at that moment takes it away in wait.
ZombieKept ==
  [][\A s \in Slots : state[s] = "Zombie" =>
       \/ state'[s] = "Zombie" /\ pid'[s] = pid[s] /\ code'[s] = code[s]
       \/ state'[s] = "Unused" /\ mode = "wait" /\ parent[s] = proc]_vars

\* timer::wait ends: once slot 0 sleeps, it gets back to its program, unless
\* the kernel panics.  (Slot 0 only: the scheduler always prefers it.)
InitSleepEnds ==
  (mode = "sleep" /\ proc = 0) ~> (mode = "user" /\ proc = 0) \/ mode = "panic"

\* A Runnable process gets the hart unless the kernel has stopped altogether.
\* docs/doc.tmu:621: the tick's yield_proc implements round-robin time slices
\* and keeps one process from occupying the system.
RunnableRuns ==
  \A s \in Slots : state[s] = "Runnable" ~>
                     state[s] = "Running" \/ mode \in {"hung", "panic"}

\* docs/doc.tmu:1578: sleep marks the process Sleeping and switches to the
\* scheduler, "thereby giving up the CPU".  wait puts its caller to sleep in the
\* same way; service/hello/hello.c:180-181 waits for a child that still runs.
SleepGivesUpHart ==
  (mode = "sleep" /\ left[proc] > 0) \/ mode = "wait" ~> mode \in {"sched", "user"}
=============================================================================
