-------------------------------- MODULE Boot --------------------------------
(***************************************************************************)
(* Bring-up of the harts (main.rs, init/, irq/, printk.rs) composed with    *)
(* Sched: from the first instruction of the boot hart to processes that     *)
(* run.  Every hart goes through the stages of init::init; the stages that  *)
(* are global are guarded by a spin::Once each.  The hart that gets there   *)
(* first starts the others over SBI.  Hart 0 creates the first process and   *)
(* becomes the scheduler, the others wait for interrupts for ever.           *)
(*                                                                          *)
(* Interrupts are on from irq::init_hart, so all that follows is interleaved *)
(* with handlers on the same hart.  A handler is Enter, one step, Exit.      *)
(***************************************************************************)
EXTENDS Sched

CONSTANTS
  Harts,    \* hart ids, as dtb::hart_count gives them
  NoHart    \* owner of a free lock

ASSUME HartAssumption ==
  Harts \subseteq Nat /\ 0 \in Harts /\ NoHart \notin Harts

VARIABLES
  pc,       \* the stage a hart is in, "off" before it is started
  done,     \* global stages whose Once is complete
  inside,   \* the hart that runs the closure of a stage's Once
  started,  \* BOOTSTRAP_DONE
  toStart,  \* harts the bootstrap loop has still to start
  sie,      \* sstatus.SIE of the harts outside handlers
  satp,     \* harts that translate through the kernel page table
  isr,      \* the interrupt a hart handles, or "no"
  nest,     \* Hart.nest_count
  say,      \* a printk outside handlers: "no", "wants", "prints"
  printer,  \* holder of PRINTK_LOCK
  table     \* holder of PROC_TABLE during create

stages == <<done, inside, started, toStart>>
allVars == <<vars, stages, pc, sie, satp, isr, nest, say, printer, table>>

GlobalStages == {"dtb", "uart", "pmem", "irq", "vm", "fs"}

(* Definitions whose names start with Bug are never used: each is a change  *)
(* a maintainer might make to the definition below it.                      *)

BugFollow ==
  [dtb |-> "uart", uart |-> "pmem", pmem |-> "local", local |-> "irq",
   irq |-> "vm", vm |-> "satp", satp |-> "fs", fs |-> "enable"]

\* init::init: the order of the stages.
Follow ==
  [dtb |-> "uart", uart |-> "pmem", pmem |-> "irq", irq |-> "local",
   local |-> "vm", vm |-> "satp", satp |-> "fs", fs |-> "enable"]

\* The firmware starts one hart, whichever it likes; PROC_TABLE is empty.
BootInit ==
  /\ \E b \in Harts : pc = [h \in Harts |-> IF h = b THEN "dtb" ELSE "off"]
  /\ done = {} /\ inside = [s \in GlobalStages |-> NoHart]
  /\ started = FALSE /\ toStart = {}
  /\ sie = [h \in Harts |-> FALSE] /\ satp = {}
  /\ isr = [h \in Harts |-> "no"] /\ nest = [h \in Harts |-> 0]
  /\ say = [h \in Harts |-> "no"] /\ printer = NoHart /\ table = NoHart
  /\ state = [s \in Slots |-> "Unused"]
  /\ parent = [s \in Slots |-> None]
  /\ pid = [s \in Slots |-> 0]
  /\ chan = [s \in Slots |-> None]
  /\ code = [s \in Slots |-> 0]
  /\ epc = [s \in Slots |-> 0]
  /\ cont = [s \in Slots |-> "user"]
  /\ left = [s \in Slots |-> 0]
  /\ bitmap = {} /\ nextPid = 1
  /\ proc = None /\ mode = "sched" /\ sepc = KernelPc

-----------------------------------------------------------------------------
(* printk. *)

BugLockFree(h) == FALSE

\* _printk takes no lock inside a handler.
LockFree(h) == nest[h] > 0

\* A hart outside handlers prints a line: the lock, then the characters.
PrintLock(h) ==
  /\ say[h] = "wants" /\ isr[h] = "no"
  /\ LockFree(h) \/ printer = NoHart
  /\ printer' = IF LockFree(h) THEN printer ELSE h
  /\ say' = [say EXCEPT ![h] = "prints"]
  /\ UNCHANGED <<vars, pc, stages, sie, satp, isr, nest, table>>

BugPrintUnlock(h) ==
  /\ say[h] = "prints" /\ isr[h] = "no"
  /\ say' = [say EXCEPT ![h] = "no"]
  /\ UNCHANGED <<vars, pc, stages, sie, satp, isr, nest, printer, table>>

PrintUnlock(h) ==
  /\ say[h] = "prints" /\ isr[h] = "no"
  /\ printer' = IF printer = h THEN NoHart ELSE printer
  /\ say' = [say EXCEPT ![h] = "no"]
  /\ UNCHANGED <<vars, pc, stages, sie, satp, isr, nest, table>>

Says(h) == say' = [say EXCEPT ![h] = "wants"]

\* Hart h executes the code of stage s, its last line printed.
At(h, s) == pc[h] = s /\ isr[h] = "no" /\ say[h] = "no"

Goto(h, s) == pc' = [pc EXCEPT ![h] = s]

-----------------------------------------------------------------------------
(* init::init. *)

\* call_once on a stage nobody has done: the closure runs.  All but the uart's
\* print.
StageBegin(h) ==
  \E s \in GlobalStages :
    /\ At(h, s) /\ s \notin done /\ inside[s] = NoHart
    /\ inside' = [inside EXCEPT ![s] = h]
    /\ IF s = "uart" THEN UNCHANGED say ELSE Says(h)
    /\ UNCHANGED <<vars, pc, done, started, toStart, sie, satp, isr, nest,
                   printer, table>>

\* The end of the closure; and call_once on a stage that is done.
StageEnd(h) ==
  \E s \in GlobalStages :
    /\ At(h, s) /\ (s \in done \/ inside[s] = h)
    /\ done' = done \cup {s}
    /\ inside' = [inside EXCEPT ![s] = NoHart]
    /\ Goto(h, Follow[s])
    /\ UNCHANGED <<vars, started, toStart, sie, satp, isr, nest, say, printer,
                   table>>

\* The closure panics: no device tree, no memory behind the kernel, no PLIC, no
\* disk.  panic prints and waits for interrupts, which stay as they were.
StageFails(h) ==
  \E s \in {"dtb", "pmem", "irq", "fs"} :
    /\ At(h, s) /\ inside[s] = h
    /\ Says(h) /\ Goto(h, "panic")
    /\ UNCHANGED <<vars, stages, sie, satp, isr, nest, printer, table>>

\* irq::init_hart: PLIC context, trap vector, SIE, and on hart 0 the timer.
InitHart(h) ==
  /\ At(h, "local")
  /\ sie' = [sie EXCEPT ![h] = TRUE]
  /\ Says(h) /\ Goto(h, Follow["local"])
  /\ UNCHANGED <<vars, stages, satp, isr, nest, printer, table>>

\* vm::switch_to_kernel.
SwitchToKernel(h) ==
  /\ At(h, "satp")
  /\ satp' = satp \cup {h}
  /\ Says(h) /\ Goto(h, Follow["satp"])
  /\ UNCHANGED <<vars, stages, sie, isr, nest, printer, table>>

\* hart::init: whoever wins BOOTSTRAP_DONE starts the others.
Bootstrap(h) ==
  /\ At(h, "enable")
  /\ started' = TRUE
  /\ toStart' = IF started THEN toStart ELSE Harts \ {h}
  /\ Goto(h, IF started THEN "main" ELSE "start")
  /\ UNCHANGED <<vars, done, inside, sie, satp, isr, nest, say, printer,
                 table>>

\* One turn of the loop over the other harts; SBI may refuse.
StartHart(h) ==
  /\ At(h, "start") /\ toStart # {}
  /\ \E t \in toStart :
       /\ \A u \in toStart : t <= u
       /\ toStart' = toStart \ {t}
       /\ Goto(t, "dtb") \/ UNCHANGED pc
  /\ Says(h)
  /\ UNCHANGED <<vars, done, inside, started, sie, satp, isr, nest, printer,
                 table>>

StartDone(h) ==
  /\ At(h, "start") /\ toStart = {}
  /\ Goto(h, "main")
  /\ UNCHANGED <<vars, stages, sie, satp, isr, nest, say, printer, table>>

-----------------------------------------------------------------------------
(* glenda_main. *)

\* Hart 0 goes on to create, the others announce themselves and wait.
Main(h) ==
  /\ At(h, "main")
  /\ Says(h) /\ Goto(h, IF h = 0 THEN "create" ELSE "loop")
  /\ UNCHANGED <<vars, stages, sie, satp, isr, nest, printer, table>>

\* create's alloc: with SIE off it locks the table and fills a slot.  It sets
\* SIE again before its guard goes out of scope.
Alloc ==
  /\ At(0, "create")
  /\ table = NoHart /\ table' = 0
  /\ \E c \in Slots :
       /\ FirstUnused(c)
       /\ state' = [state EXCEPT ![c] = "Runnable"]
       /\ bitmap' = bitmap \cup {c}
       /\ pid' = [pid EXCEPT ![c] = nextPid]
  /\ nextPid' = nextPid + 1
  /\ Goto(0, "window")
  /\ UNCHANGED <<parent, chan, code, epc, cont, left, proc, mode, sepc>>
  /\ UNCHANGED <<stages, sie, satp, isr, nest, say, printer>>

AllocReturn ==
  /\ At(0, "window")
  /\ table' = NoHart
  /\ Goto(0, "setup")
  /\ UNCHANGED <<vars, stages, sie, satp, isr, nest, say, printer>>

\* The rest of create, and the line before the scheduler starts.
Create ==
  /\ At(0, "setup")
  /\ epc' = [epc EXCEPT ![0] = pid[0]]
  /\ Says(0) /\ Goto(0, "sched")
  /\ UNCHANGED <<state, parent, pid, chan, code, cont, left, bitmap, nextPid,
                 proc, mode, sepc>>
  /\ UNCHANGED <<stages, sie, satp, isr, nest, printer, table>>

\* scheduler: clear_sie, and from here on what Sched says.
EnterScheduler ==
  /\ At(0, "sched") /\ sie[0]
  /\ sie' = [sie EXCEPT ![0] = FALSE]
  /\ UNCHANGED <<vars, pc, stages, satp, isr, nest, say, printer, table>>

Scheduling == pc[0] = "sched" /\ say[0] = "no" /\ isr[0] = "no" /\ ~sie[0]

\* nest_count of hart 0 under a step of Sched: trap_kernel_handler enters when
\* user code traps and leaves on the way back.  A new process gets to user
\* mode without leaving a handler, one that exits never leaves its last.
Left == mode = "user" /\ mode' # "user"
Came == /\ mode # "user" /\ mode' = "user"
        /\ mode = "sched" => cont[proc'] = "yield"

BugNested == nest' = [nest EXCEPT ![0] =
  IF Left THEN @ + 1 ELSE IF mode # "user" /\ mode' = "user" THEN @ - 1 ELSE @]

Nested == nest' = [nest EXCEPT ![0] =
  IF Left THEN @ + 1 ELSE IF Came /\ @ > 0 THEN @ - 1 ELSE @]

SchedStep ==
  /\ Scheduling
  /\ Next
  /\ Nested
  /\ UNCHANGED <<pc, stages, sie, satp, isr, say, printer, table>>

-----------------------------------------------------------------------------
(* Interrupts of harts outside the scheduler. *)

\* interrupt::enter.
Enter(h) == [nest EXCEPT ![h] = @ + 1]

\* trap_kernel_handler begins: a tick on hart 0, whose timer alone is started,
\* or a device's or another interrupt.
IsrEnter(h) ==
  /\ sie[h] /\ isr[h] = "no"
  /\ \E i \in {"external", "other"} \cup (IF h = 0 THEN {"timer"} ELSE {}) :
       isr' = [isr EXCEPT ![h] = i]
  /\ nest' = Enter(h)
  /\ UNCHANGED <<vars, pc, stages, sie, satp, say, printer, table>>

BugExited(h) == nest

\* interrupt::exit, which does not go below 0.
Exited(h) == [nest EXCEPT ![h] = IF @ > 0 THEN @ - 1 ELSE @]

\* What the handler waits for: timer::update's wakeup takes PROC_TABLE, an
\* interrupt nobody knows is reported with printk, a device needs neither.
MayLeave(h) ==
  \/ isr[h] = "timer" /\ table = NoHart
  \/ isr[h] = "other" /\ (LockFree(h) \/ printer = NoHart)
  \/ isr[h] = "external"

IsrExit(h) ==
  /\ MayLeave(h)
  /\ isr' = [isr EXCEPT ![h] = "no"]
  /\ nest' = Exited(h)
  /\ UNCHANGED <<vars, pc, stages, sie, satp, say, printer, table>>

-----------------------------------------------------------------------------
BootStep(h) ==
  \/ PrintLock(h) \/ PrintUnlock(h)
  \/ StageBegin(h) \/ StageEnd(h) \/ StageFails(h)
  \/ InitHart(h) \/ SwitchToKernel(h) \/ Bootstrap(h)
  \/ StartHart(h) \/ StartDone(h) \/ Main(h)
  \/ h = 0 /\ (Alloc \/ AllocReturn \/ Create \/ EnterScheduler)

\* A handler that waits for a lock the code under it holds.
Stuck(h) ==
  \/ isr[h] = "timer" /\ table = h
  \/ isr[h] = "other" /\ ~LockFree(h) /\ printer = h

\* A hart that goes round: in panic, or waiting for a lock.
Spins(h) ==
  \/ pc[h] = "panic"
  \/ Stuck(h)
  \/ say[h] = "wants" /\ ~LockFree(h) /\ printer # NoHart

BootNext ==
  \/ \E h \in Harts : BootStep(h) \/ IsrEnter(h) \/ IsrExit(h)
  \/ SchedStep
  \/ (\E h \in Harts : Spins(h)) /\ UNCHANGED allVars

BootSpec == BootInit /\ [][BootNext]_allVars

\* A hart executes its code, and gets something done between two interrupts.
FairBoot ==
  /\ BootSpec
  /\ \A h \in Harts : SF_allVars(BootStep(h)) /\ WF_allVars(IsrExit(h))

-----------------------------------------------------------------------------
(* Properties. *)

\* Nothing is used before it is set up: a hart takes interrupts only when
\* device tree, uart and PLIC are there (plic.rs and uart/irq.rs expect them),
\* it translates only through a finished table, and a hart that was started
\* finds every global stage done, so that no hart waits for a Once.
ReadyBeforeUse ==
  \A h \in Harts :
    /\ sie[h] => {"dtb", "uart", "pmem", "irq"} \subseteq done
    /\ h \in satp => "vm" \in done
    /\ started => done = GlobalStages
    /\ pc[h] \in {"loop", "create", "window", "setup", "sched"} => h \in satp

\* A handler never waits for a lock of the code it interrupted, with one
\* exception: a tick between set_sie and the end of the guard in alloc, which
\* create calls with interrupts on (process.rs:567).  printk gets by because
\* handlers count themselves in nest_count.
StuckOnlyInAlloc == \A h \in Harts : Stuck(h) => h = 0 /\ pc[0] = "window"

\* Code outside handlers prints whole lines: no two harts are in _print at the
\* same time (printk.rs:11).
LinesWhole ==
  \A h, g \in Harts : say[h] = "prints" /\ say[g] = "prints" => h = g

\* While a trap of a process is in progress on hart 0, also one that was
\* switched away from, nest_count is above 0, whatever the order in which the
\* handlers began and ended; printk in it takes no lock.
NestCovers ==
  (\/ mode \in {"wait", "sleep", "hung"}
   \/ \E s \in Slots : state[s] = "Runnable" /\ cont[s] = "yield")
  => nest[0] > 0

\* Every hart that is started gets to its loop, hart 0 to the scheduler, unless
\* a stage panics or the tick hits hart 0 in alloc.
HartsArrive ==
  \A h \in Harts :
    pc[h] # "off" ~>
      pc[h] \in {"loop", "panic"} \/ (h = 0 /\ Scheduling) \/ Stuck(h)
=============================================================================
