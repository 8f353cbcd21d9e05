---------------------------- MODULE SchedProofs ----------------------------
(***************************************************************************)
(* Machine-checked safety of Sched for every table size, every bound and   *)
(* both values of Reentrant, then what holds of the kernel as built, and   *)
(* then safety of Boot, which composes Sched with the bring-up of the      *)
(* harts, for any set of harts and any interleaving of bring-up, printing  *)
(* and interrupts.                                                         *)
(***************************************************************************)
EXTENDS Boot, FiniteSetTheorems, TLAPS

\* No two table entries in use have the same pid.
PidsDistinct ==
  \A s, t \in Slots :
    state[s] # "Unused" /\ state[t] # "Unused" /\ s # t => pid[s] # pid[t]

\* What ParentTree, PidsDistinct and OneRunning need to be inductive: slot 0
\* is never freed, free slots have no parent, pids in use have been handed
\* out, a process is Dying only between exit and the scheduler, and whoever
\* dies has already woken its parent.
Support ==
  /\ state[0] # "Unused" /\ parent[0] = None /\ pid[0] = 1
  /\ nextPid >= 2
  /\ \A s \in Slots : state[s] = "Unused" => parent[s] = None
  /\ \A s \in Slots : state[s] # "Unused" => pid[s] >= 1 /\ pid[s] < nextPid
  /\ mode = "swtch" =>
       proc # None /\ state[proc] \in {"Dying", "Runnable", "Sleeping"}
  /\ \A s \in Slots : state[s] = "Dying" =>
       /\ mode = "swtch" /\ proc = s
       /\ parent[s] # None =>
            ~(state[parent[s]] = "Sleeping" /\ chan[parent[s]] = parent[s])

IInv ==
  /\ TypeOK /\ BitmapExact /\ OneRunning /\ ParentTree /\ PidsDistinct
  /\ NoLostExit /\ NoOversleep /\ Support

\* The slots, the null pointer and the channel of SYS_TICKS are distinct.
LEMMA SlotFacts ==
  /\ 0 \in Slots /\ Slots \subseteq Nat
  /\ None \notin Slots /\ TICKS \notin Slots /\ None # TICKS
  BY SchedAssumption DEF Slots, None, TICKS

\* The table create() leaves satisfies the invariant.
LEMMA InitIInv == Init => IInv
  <1> SUFFICES ASSUME Init PROVE IInv
    OBVIOUS
  <1> USE SchedAssumption, SlotFacts DEF Init
  <1>1. TypeOK
    BY DEF TypeOK, ProcState, Modes, KernelPc, Slots, None, TICKS
  <1>2. BitmapExact /\ OneRunning
    BY DEF BitmapExact, OneRunning
  <1>3. ParentTree /\ PidsDistinct
    BY DEF ParentTree, PidsDistinct
  <1>4. NoLostExit /\ NoOversleep
    BY DEF NoLostExit, NoOversleep
  <1>5. Support
    BY DEF Support
  <1> QED
    BY <1>1, <1>2, <1>3, <1>4, <1>5 DEF IInv

\* Making a Runnable process Running does not disturb the tree.
LEMMA ParentTreeKept ==
  ASSUME TypeOK, ParentTree, parent' = parent, pid' = pid, NEW i \in Slots,
         \/ state[i] = "Runnable" /\ state' = [state EXCEPT ![i] = "Running"]
         \/ state' = state
  PROVE  ParentTree'
  <1>1. CASE state' = state
    BY <1>1, SlotFacts DEF ParentTree, TypeOK
  <1>2. CASE state[i] = "Runnable" /\ state' = [state EXCEPT ![i] = "Running"]
    BY <1>2, SlotFacts DEF ParentTree, TypeOK
  <1> QED
    BY <1>1, <1>2

\* Dispatch preserves the invariant.
LEMMA DispatchStep ==
  ASSUME IInv, Dispatch
  PROVE  IInv'
  <1> USE SchedAssumption, SlotFacts
         DEF IInv, Dispatch, Resume, FindRunnable, ClearRunnableBit
  <1>1. TypeOK'
    BY DEF TypeOK, ProcState, Modes, OneRunning, Support
  <1>2. BitmapExact'
    BY DEF TypeOK, OneRunning, BitmapExact, Support
  <1>3. OneRunning'
    BY DEF TypeOK, OneRunning, Support, BitmapExact
  <1>4. ParentTree'
    <2>1. PICK i \in Slots : \/ state[i] = "Runnable"
                               /\ state' = [state EXCEPT ![i] = "Running"]
                            \/ state' = state
      OBVIOUS
    <2>2. parent' = parent /\ pid' = pid
      OBVIOUS
    <2> QED
      BY <2>1, <2>2, ParentTreeKept
  <1>5. PidsDistinct'
    BY DEF TypeOK, OneRunning, PidsDistinct, Support
  <1>6. NoLostExit'
    BY DEF TypeOK, OneRunning, ParentTree, NoLostExit, Support
  <1>7. NoOversleep'
    BY DEF TypeOK, OneRunning, NoOversleep, Support
  <1>8. Support'
    BY DEF TypeOK, OneRunning, ParentTree, Support
  <1> QED
    BY <1>1, <1>2, <1>3, <1>4, <1>5, <1>6, <1>7, <1>8

\* AfterSwitch preserves the invariant.
LEMMA AfterSwitchStep ==
  ASSUME IInv, AfterSwitch
  PROVE  IInv'
  <1> USE SchedAssumption, SlotFacts DEF IInv, AfterSwitch
  <1>1. TypeOK'
    BY DEF TypeOK, ProcState, Modes, OneRunning, Support
  <1>2. BitmapExact'
    BY DEF TypeOK, OneRunning, BitmapExact, Support
  <1>3. OneRunning'
    BY DEF TypeOK, OneRunning, Support, BitmapExact
  <1>4. ParentTree'
    BY DEF TypeOK, OneRunning, ParentTree, Support
  <1>5. PidsDistinct'
    BY DEF TypeOK, OneRunning, PidsDistinct, Support
  <1>6. NoLostExit'
    BY DEF TypeOK, OneRunning, ParentTree, NoLostExit, Support
  <1>7. NoOversleep'
    BY DEF TypeOK, OneRunning, NoOversleep, Support
  <1>8. Support'
    BY DEF TypeOK, OneRunning, ParentTree, Support
  <1> QED
    BY <1>1, <1>2, <1>3, <1>4, <1>5, <1>6, <1>7, <1>8

\* IdleTick preserves the invariant.
LEMMA IdleTickStep ==
  ASSUME IInv, IdleTick
  PROVE  IInv'
  <1> USE SchedAssumption, SlotFacts
         DEF IInv, IdleTick, Elapse, StateAfterWakeup, ChanAfterWakeup,
             Woken
  <1>1. TypeOK'
    <2>1. left' \in [Slots -> 0 .. MaxSleep]
      BY DEF TypeOK
    <2>2. /\ state' \in [Slots -> ProcState]
          /\ chan' \in [Slots -> Slots \cup {None, TICKS}]
          /\ bitmap' \in SUBSET Slots
      BY Zenon DEF TypeOK, ProcState
    <2>3. sepc' \in Nat
      BY DEF KernelPc
    <2> QED
      BY <2>1, <2>2, <2>3 DEF TypeOK
  <1>2. BitmapExact'
    BY DEF TypeOK, OneRunning, BitmapExact, Support
  <1>3. OneRunning'
    BY DEF TypeOK, OneRunning, Support, BitmapExact
  <1>4. ParentTree'
    BY DEF TypeOK, OneRunning, ParentTree, Support
  <1>5. PidsDistinct'
    BY DEF TypeOK, OneRunning, PidsDistinct, Support
  <1>6. NoLostExit'
    BY DEF TypeOK, OneRunning, ParentTree, NoLostExit, Support
  <1>7. NoOversleep'
    BY DEF TypeOK, OneRunning, NoOversleep, Support
  <1>8. Support'
    BY DEF TypeOK, OneRunning, ParentTree, Support
  <1> QED
    BY <1>1, <1>2, <1>3, <1>4, <1>5, <1>6, <1>7, <1>8

\* Preempt preserves the invariant.
LEMMA PreemptStep ==
  ASSUME IInv, Preempt
  PROVE  IInv'
  <1> USE SchedAssumption, SlotFacts 
         DEF IInv, Preempt, Yield, SaveEpc, Elapse, StateAfterWakeup,
             ChanAfterWakeup,
             Woken
  <1>1. TypeOK'
    <2>1. /\ state' \in [Slots -> ProcState]
          /\ chan' \in [Slots -> Slots \cup {None, TICKS}]
      BY Zenon DEF TypeOK, ProcState
    <2>2. left' \in [Slots -> 0 .. MaxSleep]
      BY DEF TypeOK
    <2>3. proc \in Slots /\ bitmap' \in SUBSET Slots
      BY Zenon DEF TypeOK, OneRunning
    <2> QED
      BY <2>1, <2>2, <2>3 DEF TypeOK, Modes
  <1>2. BitmapExact'
    BY DEF TypeOK, OneRunning, BitmapExact, Support
  <1>3. OneRunning'
    BY DEF TypeOK, OneRunning, Support, BitmapExact
  <1>4. ParentTree'
    BY Zenon DEF TypeOK, OneRunning, ParentTree, Support
  <1>5. PidsDistinct'
    BY DEF TypeOK, OneRunning, PidsDistinct, Support
  <1>6. NoLostExit'
    BY DEF TypeOK, OneRunning, ParentTree, NoLostExit, Support
  <1>7. NoOversleep'
    BY DEF TypeOK, OneRunning, NoOversleep, Support
  <1>8. Support'
    BY DEF TypeOK, OneRunning, ParentTree, Support
  <1> QED
    BY <1>1, <1>2, <1>3, <1>4, <1>5, <1>6, <1>7, <1>8

\* Fork preserves the invariant.
LEMMA ForkStep ==
  ASSUME IInv, Fork
  PROVE  IInv'
  <1> USE SchedAssumption, SlotFacts DEF IInv, Fork, FirstUnused
  <1>1. TypeOK'
    BY DEF TypeOK, ProcState, Modes, OneRunning, Support
  <1>2. BitmapExact'
    BY DEF TypeOK, OneRunning, BitmapExact, Support
  <1>3. OneRunning'
    BY DEF TypeOK, OneRunning, Support, BitmapExact
  <1>4. ParentTree'
    BY DEF TypeOK, OneRunning, ParentTree, Support
  <1>5. PidsDistinct'
    BY DEF TypeOK, OneRunning, PidsDistinct, Support
  <1>6. NoLostExit'
    BY DEF TypeOK, OneRunning, ParentTree, NoLostExit, Support
  <1>7. NoOversleep'
    BY DEF TypeOK, OneRunning, NoOversleep, Support
  <1>8. Support'
    BY DEF TypeOK, OneRunning, ParentTree, Support
  <1> QED
    BY <1>1, <1>2, <1>3, <1>4, <1>5, <1>6, <1>7, <1>8

\* Panic preserves the invariant.
LEMMA PanicStep ==
  ASSUME IInv, Panic
  PROVE  IInv'
  <1> USE SchedAssumption, SlotFacts DEF IInv, Panic, SaveEpc
  <1>1. TypeOK'
    BY Zenon DEF TypeOK, ProcState, Modes, KernelPc, Slots
  <1>2. BitmapExact'
    BY DEF TypeOK, OneRunning, BitmapExact, Support
  <1>3. OneRunning'
    BY DEF TypeOK, OneRunning, Support, BitmapExact
  <1>4. ParentTree'
    BY DEF TypeOK, OneRunning, ParentTree, Support
  <1>5. PidsDistinct'
    BY DEF TypeOK, OneRunning, PidsDistinct, Support
  <1>6. NoLostExit'
    BY DEF TypeOK, OneRunning, ParentTree, NoLostExit, Support
  <1>7. NoOversleep'
    BY DEF TypeOK, OneRunning, NoOversleep, Support
  <1>8. Support'
    BY DEF TypeOK, OneRunning, ParentTree, Support
  <1> QED
    BY <1>1, <1>2, <1>3, <1>4, <1>5, <1>6, <1>7, <1>8

\* Exit preserves the invariant.
LEMMA ExitStep ==
  ASSUME IInv, NEW c \in Codes, Exit(c)
  PROVE  IInv'
  <1> USE SchedAssumption, SlotFacts
         DEF IInv, Exit, WokenByExit, Reparented, SaveEpc, Woken
  <1>1. TypeOK'
    BY Zenon DEF TypeOK, ProcState, Modes, KernelPc, Slots
  <1>2. BitmapExact'
    BY DEF TypeOK, OneRunning, BitmapExact, Support
  <1>3. OneRunning'
    BY DEF TypeOK, OneRunning, Support, BitmapExact
  <1>4. ParentTree'
    BY DEF TypeOK, OneRunning, ParentTree, Support
  <1>5. PidsDistinct'
    BY DEF TypeOK, OneRunning, PidsDistinct, Support
  <1>6. NoLostExit'
    BY DEF TypeOK, OneRunning, ParentTree, NoLostExit, Support
  <1>7. NoOversleep'
    BY DEF TypeOK, OneRunning, NoOversleep, Support
  <1>8. Support'
    BY DEF TypeOK, OneRunning, ParentTree, Support
  <1> QED
    BY <1>1, <1>2, <1>3, <1>4, <1>5, <1>6, <1>7, <1>8

\* Wait preserves the invariant.
LEMMA WaitStep ==
  ASSUME IInv, Wait
  PROVE  IInv'
  <1> USE SchedAssumption, SlotFacts DEF IInv, Wait, SaveEpc
  <1>1. TypeOK'
    BY Zenon DEF TypeOK, ProcState, Modes, KernelPc, Slots
  <1>2. BitmapExact'
    BY DEF TypeOK, OneRunning, BitmapExact, Support
  <1>3. OneRunning'
    BY DEF TypeOK, OneRunning, Support, BitmapExact
  <1>4. ParentTree'
    BY DEF TypeOK, OneRunning, ParentTree, Support
  <1>5. PidsDistinct'
    BY DEF TypeOK, OneRunning, PidsDistinct, Support
  <1>6. NoLostExit'
    BY DEF TypeOK, OneRunning, ParentTree, NoLostExit, Support
  <1>7. NoOversleep'
    BY DEF TypeOK, OneRunning, NoOversleep, Support
  <1>8. Support'
    BY DEF TypeOK, OneRunning, ParentTree, Support
  <1> QED
    BY <1>1, <1>2, <1>3, <1>4, <1>5, <1>6, <1>7, <1>8

\* Reap preserves the invariant.
LEMMA ReapStep ==
  ASSUME IInv, Reap
  PROVE  IInv'
  <1> USE SchedAssumption, SlotFacts
         DEF IInv, Reap, Zombies, Kids, ReturnToUser
  <1>1. TypeOK'
    BY DEF TypeOK, ProcState, Modes, OneRunning, Support
  <1>2. BitmapExact'
    BY DEF TypeOK, OneRunning, BitmapExact, Support
  <1>3. OneRunning'
    BY DEF TypeOK, OneRunning, Support, BitmapExact
  <1>4. ParentTree'
    BY DEF TypeOK, OneRunning, ParentTree, Support
  <1>5. PidsDistinct'
    BY DEF TypeOK, OneRunning, PidsDistinct, Support
  <1>6. NoLostExit'
    BY DEF TypeOK, OneRunning, ParentTree, NoLostExit, Support
  <1>7. NoOversleep'
    BY DEF TypeOK, OneRunning, NoOversleep, Support
  <1>8. Support'
    BY DEF TypeOK, OneRunning, ParentTree, Support
  <1> QED
    BY <1>1, <1>2, <1>3, <1>4, <1>5, <1>6, <1>7, <1>8

\* WaitNone preserves the invariant.
LEMMA WaitNoneStep ==
  ASSUME IInv, WaitNone
  PROVE  IInv'
  <1> USE SchedAssumption, SlotFacts DEF IInv, WaitNone, ReturnToUser
  <1>1. TypeOK'
    BY DEF TypeOK, ProcState, Modes, OneRunning, Support
  <1>2. BitmapExact'
    BY DEF TypeOK, OneRunning, BitmapExact, Support
  <1>3. OneRunning'
    BY DEF TypeOK, OneRunning, Support, BitmapExact
  <1>4. ParentTree'
    BY DEF TypeOK, OneRunning, ParentTree, Support
  <1>5. PidsDistinct'
    BY DEF TypeOK, OneRunning, PidsDistinct, Support
  <1>6. NoLostExit'
    BY DEF TypeOK, OneRunning, ParentTree, NoLostExit, Support
  <1>7. NoOversleep'
    BY DEF TypeOK, OneRunning, NoOversleep, Support
  <1>8. Support'
    BY DEF TypeOK, OneRunning, ParentTree, Support
  <1> QED
    BY <1>1, <1>2, <1>3, <1>4, <1>5, <1>6, <1>7, <1>8

\* WaitSleep preserves the invariant.
LEMMA WaitSleepStep ==
  ASSUME IInv, WaitSleep
  PROVE  IInv'
  <1> USE SchedAssumption, SlotFacts
         DEF IInv, WaitSleep, SleepOn, Kids, Zombies
  <1>1. TypeOK'
    BY Zenon DEF TypeOK, ProcState, Modes, KernelPc, Slots
  <1>2. BitmapExact'
    BY DEF TypeOK, OneRunning, BitmapExact, Support
  <1>3. OneRunning'
    BY DEF TypeOK, OneRunning, Support, BitmapExact
  <1>4. ParentTree'
    BY DEF TypeOK, OneRunning, ParentTree, Support
  <1>5. PidsDistinct'
    BY DEF TypeOK, OneRunning, PidsDistinct, Support
  <1>6. NoLostExit'
    <2>1. proc \in Slots /\ state' = [state EXCEPT ![proc] = "Sleeping"]
          /\ chan' = [chan EXCEPT ![proc] = proc] /\ parent' = parent
      BY DEF TypeOK, OneRunning
    <2>2. \E k \in Slots : parent[k] = proc
      BY Zenon
    <2>3. \A k \in Slots : parent[k] = proc => state'[k] # "Zombie"
      BY <2>1 DEF TypeOK
    <2> QED
      BY <2>1, <2>2, <2>3 DEF TypeOK, NoLostExit
  <1>7. NoOversleep'
    BY DEF TypeOK, OneRunning, NoOversleep, Support
  <1>8. Support'
    BY DEF TypeOK, OneRunning, ParentTree, Support
  <1> QED
    BY <1>1, <1>2, <1>3, <1>4, <1>5, <1>6, <1>7, <1>8

\* Sleep preserves the invariant.
LEMMA SleepStep ==
  ASSUME IInv, NEW n \in 0 .. MaxSleep, Sleep(n)
  PROVE  IInv'
  <1> USE SchedAssumption, SlotFacts DEF IInv, Sleep, SaveEpc
  <1>1. TypeOK'
    BY Zenon DEF TypeOK, ProcState, Modes, KernelPc, Slots
  <1>2. BitmapExact'
    BY DEF TypeOK, OneRunning, BitmapExact, Support
  <1>3. OneRunning'
    BY DEF TypeOK, OneRunning, Support, BitmapExact
  <1>4. ParentTree'
    BY DEF TypeOK, OneRunning, ParentTree, Support
  <1>5. PidsDistinct'
    BY DEF TypeOK, OneRunning, PidsDistinct, Support
  <1>6. NoLostExit'
    BY DEF TypeOK, OneRunning, ParentTree, NoLostExit, Support
  <1>7. NoOversleep'
    BY DEF TypeOK, OneRunning, NoOversleep, Support
  <1>8. Support'
    BY DEF TypeOK, OneRunning, ParentTree, Support
  <1> QED
    BY <1>1, <1>2, <1>3, <1>4, <1>5, <1>6, <1>7, <1>8

\* SleepMore preserves the invariant.
LEMMA SleepMoreStep ==
  ASSUME IInv, SleepMore
  PROVE  IInv'
  <1> USE SchedAssumption, SlotFacts DEF IInv, SleepMore, SleepOn
  <1>1. TypeOK'
    BY Zenon DEF TypeOK, ProcState, Modes, KernelPc, Slots
  <1>2. BitmapExact'
    BY DEF TypeOK, OneRunning, BitmapExact, Support
  <1>3. OneRunning'
    BY DEF TypeOK, OneRunning, Support, BitmapExact
  <1>4. ParentTree'
    BY DEF TypeOK, OneRunning, ParentTree, Support
  <1>5. PidsDistinct'
    BY DEF TypeOK, OneRunning, PidsDistinct, Support
  <1>6. NoLostExit'
    BY DEF TypeOK, OneRunning, ParentTree, NoLostExit, Support
  <1>7. NoOversleep'
    BY DEF TypeOK, OneRunning, NoOversleep, Support
  <1>8. Support'
    BY DEF TypeOK, OneRunning, ParentTree, Support
  <1> QED
    BY <1>1, <1>2, <1>3, <1>4, <1>5, <1>6, <1>7, <1>8

\* SleepDone preserves the invariant.
LEMMA SleepDoneStep ==
  ASSUME IInv, SleepDone
  PROVE  IInv'
  <1> USE SchedAssumption, SlotFacts DEF IInv, SleepDone, ReturnToUser
  <1>1. TypeOK'
    BY DEF TypeOK, ProcState, Modes, OneRunning, Support
  <1>2. BitmapExact'
    BY DEF TypeOK, OneRunning, BitmapExact, Support
  <1>3. OneRunning'
    BY DEF TypeOK, OneRunning, Support, BitmapExact
  <1>4. ParentTree'
    BY DEF TypeOK, OneRunning, ParentTree, Support
  <1>5. PidsDistinct'
    BY DEF TypeOK, OneRunning, PidsDistinct, Support
  <1>6. NoLostExit'
    BY DEF TypeOK, OneRunning, ParentTree, NoLostExit, Support
  <1>7. NoOversleep'
    BY DEF TypeOK, OneRunning, NoOversleep, Support
  <1>8. Support'
    BY DEF TypeOK, OneRunning, ParentTree, Support
  <1> QED
    BY <1>1, <1>2, <1>3, <1>4, <1>5, <1>6, <1>7, <1>8

\* So does every step, action by action.
LEMMA NextIInv == IInv /\ [Next]_vars => IInv'
  <1> SUFFICES ASSUME IInv, [Next]_vars PROVE IInv'
    OBVIOUS
  <1>1. CASE KernelStep
    BY <1>1, DispatchStep, AfterSwitchStep, ReapStep, WaitNoneStep,
       WaitSleepStep, SleepMoreStep, SleepDoneStep, IdleTickStep
    DEF KernelStep
  <1>2. CASE Preempt \/ Panic
    BY <1>2, PreemptStep, PanicStep
  <1>3. CASE Syscall
    BY <1>3, ForkStep, PanicStep, WaitStep, ExitStep, SleepStep
    DEF Syscall, ForkFails
  <1>4. CASE UNCHANGED vars
    BY <1>4 DEF vars, IInv, TypeOK, BitmapExact, OneRunning, ParentTree,
       PidsDistinct, NoLostExit, NoOversleep, Support
  <1> QED
    BY <1>1, <1>2, <1>3, <1>4 DEF Next, Halted

\* IInv is an invariant of the specification.
LEMMA AlwaysIInv == Spec => []IInv
  BY InitIInv, NextIInv, PTL DEF Spec

\* Every reachable state is well typed: no operation leaves the fields of the
\* table, the bitmap or the hart's registers outside their types.
THEOREM TypeCorrect == Spec => []TypeOK
  BY AlwaysIInv, PTL DEF IInv

\* RUNNABLE_BITMAP and the state fields always agree, although every operation
\* updates them one after the other.
THEOREM BitmapAgrees == Spec => []BitmapExact
  BY AlwaysIInv, PTL DEF IInv

\* hart.proc is the one Running process.
THEOREM RunningIsUnique == Spec => []OneRunning
  BY AlwaysIInv, PTL DEF IInv

\* Through all forks, exits, reparenting and reuse of slots, processes form a
\* tree under slot 0 whose inner nodes are alive, and pids stay distinct.
THEOREM TreeOfProcesses == Spec => [](ParentTree /\ PidsDistinct)
  BY AlwaysIInv, PTL DEF IInv

\* exit never leaves its parent asleep in wait (slot 0 excepted).
THEOREM NoLostWakeup == Spec => []NoLostExit
  BY AlwaysIInv, PTL DEF IInv

\* No tick of the timer leaves a process asleep whose time has come.
THEOREM SleepEnds == Spec => []NoOversleep
  BY AlwaysIInv, PTL DEF IInv

\* The fate of Zombies in one step.
ZombieStep ==
  \A s \in Slots : state[s] = "Zombie" =>
    \/ state'[s] = "Zombie" /\ pid'[s] = pid[s] /\ code'[s] = code[s]
    \/ state'[s] = "Unused" /\ mode = "wait" /\ parent[s] = proc

\* No step but the parent's Reap touches a Zombie.
LEMMA NextZombie == IInv /\ [Next]_vars => [ZombieStep]_vars
  <1> SUFFICES ASSUME IInv, [Next]_vars PROVE [ZombieStep]_vars
    OBVIOUS
  <1> USE SlotFacts DEF IInv, TypeOK, OneRunning, Support, ZombieStep
  <1>1. CASE Dispatch
    BY <1>1 DEF Dispatch
  <1>2. CASE AfterSwitch
    BY <1>2 DEF AfterSwitch
  <1>3. CASE IdleTick
    BY <1>3 DEF IdleTick, StateAfterWakeup, Woken
  <1>4. CASE Preempt
    BY <1>4 DEF Preempt, Yield, StateAfterWakeup, Woken
  <1>5. CASE Fork
    BY <1>5 DEF Fork, FirstUnused
  <1>6. CASE Panic
    BY <1>6 DEF Panic
  <1>7. ASSUME NEW c \in Codes, Exit(c) PROVE ZombieStep
    BY <1>7 DEF Exit, WokenByExit, Woken
  <1>8. CASE Wait \/ WaitNone \/ SleepDone
    BY <1>8 DEF Wait, WaitNone, SleepDone
  <1>9. CASE Reap
    BY <1>9 DEF Reap, Zombies, Kids
  <1>10. CASE WaitSleep \/ SleepMore
    BY <1>10 DEF WaitSleep, SleepMore, SleepOn
  <1>11. ASSUME NEW n \in 0 .. MaxSleep, Sleep(n) PROVE ZombieStep
    BY <1>11 DEF Sleep
  <1> QED
    BY <1>1, <1>2, <1>3, <1>4, <1>5, <1>6, <1>7, <1>8, <1>9, <1>10, <1>11
    DEF Next, KernelStep, Syscall, ForkFails, Halted

\* An exit code survives until the parent of the moment collects it in wait.
THEOREM ExitCodeKept == Spec => ZombieKept
  BY AlwaysIInv, NextZombie, PTL DEF Spec, ZombieKept, ZombieStep

-----------------------------------------------------------------------------
(***************************************************************************)
(* Why every process runs at a pc of its own in the kernel as it is built  *)
(* (Reentrant = FALSE): trap_user_handler reloads kernel_epc from sepc      *)
(* behind the switch, which is right only because nobody else has run since *)
(* the process yielded.  That in turn rests on find_runnable's order and on *)
(* wait and sleep never coming back once they sleep.                        *)
(***************************************************************************)

\* A process that has not run yet.
Fresh(s) == state[s] = "Runnable" /\ cont[s] = "user" /\ epc[s] = pid[s]

\* A process that gave up the hart last, in yield_proc.
Yielded(s) == state[s] = "Runnable" /\ cont[s] = "yield" /\ sepc = pid[s]

\* Slots are taken in order and never given back; parents precede children.
InOrder ==
  /\ \A s, t \in Slots : state[s] = "Unused" /\ s < t => state[t] = "Unused"
  /\ \A s \in Slots : parent[s] # None => parent[s] < s

\* While proc has the hart, those below have exited and those above are new.
Front ==
  mode \in {"user", "wait", "sleep", "swtch"} =>
    /\ \A s \in Slots : s < proc => state[s] = "Zombie"
    /\ \A s \in Slots : s > proc => state[s] = "Unused" \/ Fresh(s)

\* In the scheduler, the exited come first; then at most one process that
\* yielded, and otherwise new ones.
Line ==
  mode = "sched" =>
    /\ \A s \in Slots :
         \/ state[s] \in {"Zombie", "Unused"}
         \/ Fresh(s)
         \/ Yielded(s) /\ \A t \in Slots : t < s => state[t] = "Zombie"
    /\ \A s, t \in Slots :
         state[s] = "Runnable" /\ state[t] = "Zombie" => t < s

Pcs ==
  /\ mode \in {"wait", "sleep"} => epc[proc] = pid[proc]
  /\ mode = "swtch" => state[proc] = "Dying" \/ Yielded(proc)

BuiltInv == OwnPc /\ InOrder /\ Front /\ Line /\ Pcs

\* The table create() leaves: one new process, in slot 0.
LEMMA InitBuilt == Init => BuiltInv
  BY SchedAssumption, SlotFacts
  DEF Init, BuiltInv, OwnPc, InOrder, Front, Line, Pcs, Fresh, Yielded, Slots

\* Dispatch preserves BuiltInv.
LEMMA DispatchBuilt ==
  ASSUME Reentrant = FALSE, IInv, BuiltInv, Dispatch
  PROVE  BuiltInv'
  <1> USE SchedAssumption, SlotFacts
         DEF Dispatch, Resume, FindRunnable, ClearRunnableBit, IInv,
             BuiltInv, TypeOK, OneRunning, Support
  <1>1. OwnPc'
    BY DEF OwnPc, Front, Line, Pcs, Fresh, Yielded, BitmapExact
  <1>2. InOrder'
    BY DEF InOrder, Front
  <1>3. Front'
    BY DEF InOrder, Front, Line, Fresh, Yielded, BitmapExact
  <1>4. Line'
    BY DEF InOrder, Front, Line, Pcs, Fresh, Yielded, BitmapExact
  <1>5. Pcs'
    BY DEF OwnPc, Front, Line, Pcs, Fresh, Yielded, BitmapExact
  <1> QED
    BY <1>1, <1>2, <1>3, <1>4, <1>5

\* AfterSwitch preserves BuiltInv.
LEMMA AfterSwitchBuilt ==
  ASSUME Reentrant = FALSE, IInv, BuiltInv, AfterSwitch
  PROVE  BuiltInv'
  <1> USE SchedAssumption, SlotFacts
         DEF AfterSwitch, IInv, BuiltInv, TypeOK, OneRunning, Support
  <1>1. OwnPc'
    BY DEF OwnPc, Front, Line, Pcs, Fresh, Yielded, BitmapExact
  <1>2. InOrder'
    BY DEF InOrder, Front
  <1>3. Front'
    BY DEF InOrder, Front, Line, Fresh, Yielded, BitmapExact
  <1>4. Line'
    BY DEF InOrder, Front, Line, Pcs, Fresh, Yielded, BitmapExact
  <1>5. Pcs'
    BY DEF OwnPc, Front, Line, Pcs, Fresh, Yielded, BitmapExact
  <1> QED
    BY <1>1, <1>2, <1>3, <1>4, <1>5

\* IdleTick preserves BuiltInv.
LEMMA IdleTickBuilt ==
  ASSUME Reentrant = FALSE, IInv, BuiltInv, IdleTick
  PROVE  BuiltInv'
  <1> USE SchedAssumption, SlotFacts
         DEF IdleTick, StateAfterWakeup, ChanAfterWakeup, Woken, IInv,
             BuiltInv, TypeOK, OneRunning, Support
  <1>1. OwnPc'
    BY DEF OwnPc, Front, Line, Pcs, Fresh, Yielded, BitmapExact
  <1>2. InOrder'
    BY DEF InOrder, Front
  <1>3. Front'
    BY DEF InOrder, Front, Line, Fresh, Yielded, BitmapExact
  <1>4. Line'
    BY DEF InOrder, Front, Line, Pcs, Fresh, Yielded, BitmapExact
  <1>5. Pcs'
    BY DEF OwnPc, Front, Line, Pcs, Fresh, Yielded, BitmapExact
  <1> QED
    BY <1>1, <1>2, <1>3, <1>4, <1>5

\* Preempt preserves BuiltInv.
LEMMA PreemptBuilt ==
  ASSUME Reentrant = FALSE, IInv, BuiltInv, Preempt
  PROVE  BuiltInv'
  <1> USE SchedAssumption, SlotFacts
         DEF Preempt, Yield, SaveEpc, StateAfterWakeup, ChanAfterWakeup,
             Woken, IInv, BuiltInv, TypeOK, OneRunning, Support
  <1>1. OwnPc'
    BY DEF OwnPc, Front, Line, Pcs, Fresh, Yielded, BitmapExact
  <1>2. InOrder'
    BY DEF InOrder, Front
  <1>3. Front'
    BY DEF InOrder, Front, Line, Fresh, Yielded, BitmapExact
  <1>4. Line'
    BY DEF InOrder, Front, Line, Pcs, Fresh, Yielded, BitmapExact
  <1>5. Pcs'
    BY DEF OwnPc, Front, Line, Pcs, Fresh, Yielded, BitmapExact
  <1> QED
    BY <1>1, <1>2, <1>3, <1>4, <1>5

\* Fork preserves BuiltInv.
LEMMA ForkBuilt ==
  ASSUME Reentrant = FALSE, IInv, BuiltInv, Fork
  PROVE  BuiltInv'
  <1> USE SchedAssumption, SlotFacts
         DEF Fork, FirstUnused, IInv, BuiltInv, TypeOK, OneRunning, Support
  <1>1. OwnPc'
    BY DEF OwnPc, Front, Line, Pcs, Fresh, Yielded, BitmapExact
  <1>2. InOrder'
    BY DEF InOrder, Front
  <1>3. Front'
    BY DEF InOrder, Front, Line, Fresh, Yielded, BitmapExact
  <1>4. Line'
    BY DEF InOrder, Front, Line, Pcs, Fresh, Yielded, BitmapExact
  <1>5. Pcs'
    BY DEF OwnPc, Front, Line, Pcs, Fresh, Yielded, BitmapExact
  <1> QED
    BY <1>1, <1>2, <1>3, <1>4, <1>5

\* Panic preserves BuiltInv.
LEMMA PanicBuilt ==
  ASSUME Reentrant = FALSE, IInv, BuiltInv, Panic
  PROVE  BuiltInv'
  <1> USE SchedAssumption, SlotFacts
         DEF Panic, SaveEpc, IInv, BuiltInv, TypeOK, OneRunning, Support
  <1>1. OwnPc'
    BY DEF OwnPc, Front, Line, Pcs, Fresh, Yielded, BitmapExact
  <1>2. InOrder'
    BY DEF InOrder, Front
  <1>3. Front'
    BY DEF InOrder, Front, Line, Fresh, Yielded, BitmapExact
  <1>4. Line'
    BY DEF InOrder, Front, Line, Pcs, Fresh, Yielded, BitmapExact
  <1>5. Pcs'
    BY DEF OwnPc, Front, Line, Pcs, Fresh, Yielded, BitmapExact
  <1> QED
    BY <1>1, <1>2, <1>3, <1>4, <1>5

\* Exit preserves BuiltInv.
LEMMA ExitBuilt ==
  ASSUME Reentrant = FALSE, IInv, BuiltInv, NEW c \in Codes, Exit(c)
  PROVE  BuiltInv'
  <1> USE SchedAssumption, SlotFacts
         DEF Exit, WokenByExit, Reparented, SaveEpc, Woken, IInv, BuiltInv,
             TypeOK, OneRunning, Support
  <1>1. OwnPc'
    BY DEF OwnPc, Front, Line, Pcs, Fresh, Yielded, BitmapExact
  <1>2. InOrder'
    BY DEF InOrder, Front
  <1>3. Front'
    BY DEF InOrder, Front, Line, Fresh, Yielded, BitmapExact
  <1>4. Line'
    BY DEF InOrder, Front, Line, Pcs, Fresh, Yielded, BitmapExact
  <1>5. Pcs'
    BY DEF OwnPc, Front, Line, Pcs, Fresh, Yielded, BitmapExact
  <1> QED
    BY <1>1, <1>2, <1>3, <1>4, <1>5

\* Wait preserves BuiltInv.
LEMMA WaitBuilt ==
  ASSUME Reentrant = FALSE, IInv, BuiltInv, Wait
  PROVE  BuiltInv'
  <1> USE SchedAssumption, SlotFacts
         DEF Wait, SaveEpc, IInv, BuiltInv, TypeOK, OneRunning, Support
  <1>1. OwnPc'
    BY DEF OwnPc, Front, Line, Pcs, Fresh, Yielded, BitmapExact
  <1>2. InOrder'
    BY DEF InOrder, Front
  <1>3. Front'
    BY DEF InOrder, Front, Line, Fresh, Yielded, BitmapExact
  <1>4. Line'
    BY DEF InOrder, Front, Line, Pcs, Fresh, Yielded, BitmapExact
  <1>5. Pcs'
    BY DEF OwnPc, Front, Line, Pcs, Fresh, Yielded, BitmapExact
  <1> QED
    BY <1>1, <1>2, <1>3, <1>4, <1>5

\* Nobody in wait has a child that has exited: the children are behind their
\* parent in the table, and those behind the running process have not run.
LEMMA NothingToReap ==
  ASSUME IInv, BuiltInv, mode = "wait"
  PROVE  Zombies = {}
  BY SlotFacts, Zenon DEF IInv, BuiltInv, TypeOK, OneRunning, InOrder, Front, Fresh,
     Zombies, Kids

\* WaitNone preserves BuiltInv.
LEMMA WaitNoneBuilt ==
  ASSUME Reentrant = FALSE, IInv, BuiltInv, WaitNone
  PROVE  BuiltInv'
  <1> USE SchedAssumption, SlotFacts
         DEF WaitNone, ReturnToUser, IInv, BuiltInv, TypeOK, OneRunning,
             Support
  <1>1. OwnPc'
    BY DEF OwnPc, Front, Line, Pcs, Fresh, Yielded, BitmapExact
  <1>2. InOrder'
    BY DEF InOrder, Front
  <1>3. Front'
    BY DEF InOrder, Front, Line, Fresh, Yielded, BitmapExact
  <1>4. Line'
    BY DEF InOrder, Front, Line, Pcs, Fresh, Yielded, BitmapExact
  <1>5. Pcs'
    BY DEF OwnPc, Front, Line, Pcs, Fresh, Yielded, BitmapExact
  <1> QED
    BY <1>1, <1>2, <1>3, <1>4, <1>5

\* WaitSleep preserves BuiltInv.
LEMMA WaitSleepBuilt ==
  ASSUME Reentrant = FALSE, IInv, BuiltInv, WaitSleep
  PROVE  BuiltInv'
  <1> USE SchedAssumption, SlotFacts
         DEF WaitSleep, SleepOn, IInv, BuiltInv, TypeOK, OneRunning, Support
  <1>1. OwnPc'
    BY DEF OwnPc, Front, Line, Pcs, Fresh, Yielded, BitmapExact
  <1>2. InOrder'
    BY DEF InOrder, Front
  <1>3. Front'
    BY DEF InOrder, Front, Line, Fresh, Yielded, BitmapExact
  <1>4. Line'
    BY DEF InOrder, Front, Line, Pcs, Fresh, Yielded, BitmapExact
  <1>5. Pcs'
    BY DEF OwnPc, Front, Line, Pcs, Fresh, Yielded, BitmapExact
  <1> QED
    BY <1>1, <1>2, <1>3, <1>4, <1>5

\* Sleep preserves BuiltInv.
LEMMA SleepBuilt ==
  ASSUME Reentrant = FALSE, IInv, BuiltInv, NEW n \in 0 .. MaxSleep, Sleep(n)
  PROVE  BuiltInv'
  <1> USE SchedAssumption, SlotFacts
         DEF Sleep, SaveEpc, IInv, BuiltInv, TypeOK, OneRunning, Support
  <1>1. OwnPc'
    BY DEF OwnPc, Front, Line, Pcs, Fresh, Yielded, BitmapExact
  <1>2. InOrder'
    BY DEF InOrder, Front
  <1>3. Front'
    BY DEF InOrder, Front, Line, Fresh, Yielded, BitmapExact
  <1>4. Line'
    BY DEF InOrder, Front, Line, Pcs, Fresh, Yielded, BitmapExact
  <1>5. Pcs'
    BY DEF OwnPc, Front, Line, Pcs, Fresh, Yielded, BitmapExact
  <1> QED
    BY <1>1, <1>2, <1>3, <1>4, <1>5

\* SleepMore preserves BuiltInv.
LEMMA SleepMoreBuilt ==
  ASSUME Reentrant = FALSE, IInv, BuiltInv, SleepMore
  PROVE  BuiltInv'
  <1> USE SchedAssumption, SlotFacts
         DEF SleepMore, SleepOn, IInv, BuiltInv, TypeOK, OneRunning, Support
  <1>1. OwnPc'
    BY DEF OwnPc, Front, Line, Pcs, Fresh, Yielded, BitmapExact
  <1>2. InOrder'
    BY DEF InOrder, Front
  <1>3. Front'
    BY DEF InOrder, Front, Line, Fresh, Yielded, BitmapExact
  <1>4. Line'
    BY DEF InOrder, Front, Line, Pcs, Fresh, Yielded, BitmapExact
  <1>5. Pcs'
    BY DEF OwnPc, Front, Line, Pcs, Fresh, Yielded, BitmapExact
  <1> QED
    BY <1>1, <1>2, <1>3, <1>4, <1>5

\* SleepDone preserves BuiltInv.
LEMMA SleepDoneBuilt ==
  ASSUME Reentrant = FALSE, IInv, BuiltInv, SleepDone
  PROVE  BuiltInv'
  <1> USE SchedAssumption, SlotFacts
         DEF SleepDone, ReturnToUser, IInv, BuiltInv, TypeOK, OneRunning,
             Support
  <1>1. OwnPc'
    BY DEF OwnPc, Front, Line, Pcs, Fresh, Yielded, BitmapExact
  <1>2. InOrder'
    BY DEF InOrder, Front
  <1>3. Front'
    BY DEF InOrder, Front, Line, Fresh, Yielded, BitmapExact
  <1>4. Line'
    BY DEF InOrder, Front, Line, Pcs, Fresh, Yielded, BitmapExact
  <1>5. Pcs'
    BY DEF OwnPc, Front, Line, Pcs, Fresh, Yielded, BitmapExact
  <1> QED
    BY <1>1, <1>2, <1>3, <1>4, <1>5

\* Every step preserves BuiltInv; Reap is never enabled.
LEMMA NextBuilt ==
  ASSUME Reentrant = FALSE
  PROVE  IInv /\ BuiltInv /\ [Next]_vars => BuiltInv'
  <1> SUFFICES ASSUME IInv, BuiltInv, [Next]_vars PROVE BuiltInv'
    OBVIOUS
  <1>1. CASE KernelStep
    <2>1. ~ Reap
      BY NothingToReap DEF Reap
    <2> QED
      BY <1>1, <2>1, DispatchBuilt, AfterSwitchBuilt, WaitNoneBuilt,
         WaitSleepBuilt, SleepMoreBuilt, SleepDoneBuilt, IdleTickBuilt, Zenon
      DEF KernelStep
  <1>2. CASE Preempt \/ Panic
    BY <1>2, PreemptBuilt, PanicBuilt, Zenon
  <1>3. CASE Syscall
    BY <1>3, ForkBuilt, PanicBuilt, WaitBuilt, ExitBuilt, SleepBuilt, Zenon
    DEF Syscall, ForkFails
  <1>4. CASE UNCHANGED vars
    BY <1>4, Zenon DEF vars, BuiltInv, OwnPc, InOrder, Front, Line, Pcs, Fresh,
        Yielded
  <1> QED
    BY <1>1, <1>2, <1>3, <1>4 DEF Next, Halted

\* In the kernel as built, BuiltInv always holds.
LEMMA AlwaysBuilt ==
  ASSUME Reentrant = FALSE
  PROVE  Spec => []BuiltInv
  BY AlwaysIInv, InitBuilt, NextBuilt, PTL DEF Spec

\* In the kernel as built, a process returns to user mode only at a pc of its
\* own, whatever mixture of ticks, forks, exits, waits and sleeps went before.
THEOREM UserRunsOwnCode ==
  ASSUME Reentrant = FALSE
  PROVE  Spec => []OwnPc
  BY AlwaysBuilt, PTL DEF BuiltInv

\* In the kernel as built, wait never finds an exited child: no exit code is
\* ever delivered.
THEOREM NoExitCodeDelivered ==
  ASSUME Reentrant = FALSE
  PROVE  Spec => [](mode = "wait" => Zombies = {})
  BY AlwaysBuilt, AlwaysIInv, NothingToReap, PTL

-----------------------------------------------------------------------------
(***************************************************************************)
(* The machine that boots: Boot composed with Sched.                       *)
(***************************************************************************)

\* Where a hart can be: before a global stage, before a step of its own, at
\* rest, or in the panic handler's loop.
Stages == GlobalStages \cup {"off", "local", "satp", "enable", "start", "main",
  "loop", "create", "window", "setup", "sched", "panic"}

BootTypeOK ==
  /\ pc \in [Harts -> Stages]
  /\ done \subseteq GlobalStages
  /\ inside \in [GlobalStages -> Harts \cup {NoHart}]
  /\ started \in BOOLEAN /\ toStart \subseteq Harts
  /\ sie \in [Harts -> BOOLEAN] /\ satp \subseteq Harts
  /\ isr \in [Harts -> {"no", "timer", "external", "other"}]
  /\ nest \in [Harts -> Nat]
  /\ say \in [Harts -> {"no", "wants", "prints"}]
  /\ printer \in Harts \cup {NoHart} /\ table \in Harts \cup {NoHart}

\* The part of init::init and glenda_main behind the last global stage.
Late == {"enable", "start", "main", "loop", "create", "window", "setup", "sched"}

\* What hart h has behind it at its stage, and what its bits rely on.
Behind(h) ==
  /\ pc[h] \notin {"off", "dtb", "panic"} => "dtb" \in done
  /\ pc[h] \notin {"off", "dtb", "uart", "panic"} => "uart" \in done
  /\ pc[h] \in {"irq", "local", "vm", "satp", "fs"} \cup Late => "pmem" \in done
  /\ pc[h] \in {"local", "vm", "satp", "fs"} \cup Late => "irq" \in done
  /\ pc[h] \in {"satp", "fs"} \cup Late => "vm" \in done
  /\ pc[h] \in Late => "fs" \in done
  /\ pc[h] \in {"fs"} \cup Late => h \in satp
  /\ sie[h] => {"dtb", "uart", "pmem", "irq"} \subseteq done
  /\ h \in satp => "vm" \in done

\* Until BOOTSTRAP_DONE is set one hart is on, and that one starts only harts
\* that are off.
OneBoots ==
  /\ started => done = GlobalStages
  /\ ~started => /\ toStart = {}
                 /\ \A g, h \in Harts : pc[g] # "off" /\ pc[h] # "off" => g = h
  /\ \A t \in toStart : pc[t] = "off"

\* scheduler has cleared SIE.
InScheduler == pc[0] = "sched" /\ ~sie[0]

\* Outside the scheduler nest_count is 1 in a handler and 0 outside; handlers
\* need SIE, and who prints has the lock.
Quiet(h) ==
  /\ isr[h] # "no" => sie[h]
  /\ pc[h] = "off" => ~sie[h] /\ say[h] = "no"
  /\ say[h] = "prints" => printer = h
  /\ ~(h = 0 /\ InScheduler) => nest[h] = IF isr[h] = "no" THEN 0 ELSE 1

\* Hart 0 alone gets to create and to the scheduler, with interrupts on and
\* PROC_TABLE locked only inside alloc.
Hart0 ==
  /\ pc[0] \in {"vm", "satp", "fs", "enable", "start", "main", "create",
                "window", "setup"} => sie[0]
  /\ InScheduler => say[0] = "no"
  /\ table # NoHart => table = 0 /\ pc[0] = "window"
  /\ \A h \in Harts \ {0} : pc[h] \notin {"create", "window", "setup", "sched"}

\* What the harts do to each other.
HartsInv ==
  /\ BootTypeOK /\ OneBoots /\ Hart0
  /\ \A h \in Harts : Behind(h)
  /\ \A h \in Harts : Quiet(h)


\* A step that leaves the process table alone, and hart 0 outside of create;
\* or inside the scheduler for good, with its nest_count as it was.
Aside ==
  /\ UNCHANGED vars
  /\ \/ pc'[0] = pc[0]
     \/ {pc[0], pc'[0]} \cap {"window", "setup", "sched"} = {}
  /\ InScheduler => InScheduler'
  /\ InScheduler' => pc[0] = "sched" /\ nest'[0] = nest[0]


\* PrintLock keeps HartsInv.
LEMMA PrintLockBoot ==
  ASSUME HartsInv, NEW h \in Harts, PrintLock(h)
  PROVE  HartsInv' /\ Aside
  <1> USE HartAssumption DEF HartsInv, PrintLock, LockFree, stages
  <1>1. BootTypeOK'
    BY Zenon DEF BootTypeOK, Stages, GlobalStages
  <1>2. OneBoots'
    BY Zenon DEF BootTypeOK, OneBoots, Behind, Late, GlobalStages
  <1>3. Hart0'
    BY Zenon DEF BootTypeOK, Hart0, InScheduler, Quiet, OneBoots
  <1>4. ASSUME NEW g \in Harts PROVE (Behind(g))'
    BY Zenon DEF BootTypeOK, Behind, Late, Hart0, InScheduler
  <1>5. ASSUME NEW g \in Harts PROVE (Quiet(g))'
    BY DEF BootTypeOK, Quiet, Hart0, InScheduler, OneBoots
  <1>6. Aside
    BY Zenon DEF BootTypeOK, Quiet, Hart0, InScheduler, OneBoots, Aside
  <1> QED
    BY <1>1, <1>2, <1>3, <1>4, <1>5, <1>6, Zenon

\* PrintUnlock keeps HartsInv.
LEMMA PrintUnlockBoot ==
  ASSUME HartsInv, NEW h \in Harts, PrintUnlock(h)
  PROVE  HartsInv' /\ Aside
  <1> USE HartAssumption DEF HartsInv, PrintUnlock, stages
  <1>1. BootTypeOK'
    BY Zenon DEF BootTypeOK, Stages, GlobalStages
  <1>2. OneBoots'
    BY Zenon DEF BootTypeOK, OneBoots, Behind, Late, GlobalStages
  <1>3. Hart0'
    BY Zenon DEF BootTypeOK, Hart0, InScheduler, Quiet, OneBoots
  <1>4. ASSUME NEW g \in Harts PROVE (Behind(g))'
    BY Zenon DEF BootTypeOK, Behind, Late, Hart0, InScheduler
  <1>5. ASSUME NEW g \in Harts PROVE (Quiet(g))'
    BY DEF BootTypeOK, Quiet, Hart0, InScheduler, OneBoots
  <1>6. Aside
    BY Zenon DEF BootTypeOK, Quiet, Hart0, InScheduler, OneBoots, Aside
  <1> QED
    BY <1>1, <1>2, <1>3, <1>4, <1>5, <1>6, Zenon

\* StageBegin keeps HartsInv.
LEMMA StageBeginBoot ==
  ASSUME HartsInv, NEW h \in Harts, StageBegin(h)
  PROVE  HartsInv' /\ Aside
  <1> USE HartAssumption DEF HartsInv, StageBegin, At, Says, GlobalStages
  <1>1. BootTypeOK'
    BY DEF BootTypeOK, Stages, GlobalStages
  <1>2. OneBoots'
    BY DEF BootTypeOK, OneBoots, Behind, Late, GlobalStages
  <1>3. Hart0'
    BY DEF BootTypeOK, Hart0, InScheduler, Quiet, OneBoots
  <1>4. ASSUME NEW g \in Harts PROVE (Behind(g))'
    BY DEF BootTypeOK, Behind, Late, Hart0, InScheduler
  <1>5. ASSUME NEW g \in Harts PROVE (Quiet(g))'
    BY DEF BootTypeOK, Quiet, Hart0, InScheduler, OneBoots
  <1>6. Aside
    BY DEF BootTypeOK, Quiet, Hart0, InScheduler, OneBoots, Aside
  <1> QED
    BY <1>1, <1>2, <1>3, <1>4, <1>5, <1>6, Zenon

\* init::init: which stage comes after which.
LEMMA FollowIs ==
  /\ Follow["dtb"] = "uart" /\ Follow["uart"] = "pmem" /\ Follow["pmem"] = "irq"
  /\ Follow["irq"] = "local" /\ Follow["local"] = "vm" /\ Follow["vm"] = "satp"
  /\ Follow["satp"] = "fs" /\ Follow["fs"] = "enable"
  BY DEF Follow

\* StageEnd keeps HartsInv.
LEMMA StageEndBoot ==
  ASSUME HartsInv, NEW h \in Harts, StageEnd(h)
  PROVE  HartsInv' /\ Aside
  <1>a. PICK s \in GlobalStages :
          /\ At(h, s) /\ done' = done \cup {s}
          /\ inside' = [inside EXCEPT ![s] = NoHart]
          /\ pc' = [pc EXCEPT ![h] = Follow[s]]
          /\ UNCHANGED <<vars, started, toStart, sie, satp, isr, nest, say,
                         printer, table>>
    BY Zenon DEF StageEnd, Goto
  <1>b. /\ Follow[s] \in Stages
        /\ \/ s = "dtb" /\ Follow[s] = "uart"
           \/ s = "uart" /\ Follow[s] = "pmem"
           \/ s = "pmem" /\ Follow[s] = "irq"
           \/ s = "irq" /\ Follow[s] = "local"
           \/ s = "vm" /\ Follow[s] = "satp"
           \/ s = "fs" /\ Follow[s] = "enable"
    BY <1>a, FollowIs, Zenon DEF GlobalStages, Stages
  <1>c. PICK n \in Stages :
          /\ pc' = [pc EXCEPT ![h] = n]
          /\ \/ s = "dtb" /\ n = "uart"
             \/ s = "uart" /\ n = "pmem"
             \/ s = "pmem" /\ n = "irq"
             \/ s = "irq" /\ n = "local"
             \/ s = "vm" /\ n = "satp"
             \/ s = "fs" /\ n = "enable"
    BY <1>a, <1>b, Zenon
  <1>d. /\ At(h, s) /\ done' = done \cup {s}
        /\ inside' = [inside EXCEPT ![s] = NoHart]
        /\ UNCHANGED <<vars, started, toStart, sie, satp, isr, nest, say,
                       printer, table>>
    BY <1>a, Zenon
  <1> USE HartAssumption, <1>c, <1>d DEF HartsInv, At, GlobalStages
  <1>1. BootTypeOK'
    BY DEF BootTypeOK, Stages, GlobalStages
  <1>2. OneBoots'
    BY DEF BootTypeOK, OneBoots, Behind, Late, GlobalStages
  <1>3. Hart0'
    BY DEF BootTypeOK, Hart0, InScheduler, Quiet, OneBoots
  <1>4. ASSUME NEW g \in Harts PROVE (Behind(g))'
    BY DEF BootTypeOK, Behind, Late, Hart0, InScheduler
  <1>5. ASSUME NEW g \in Harts PROVE (Quiet(g))'
    BY DEF BootTypeOK, Quiet, Hart0, InScheduler, OneBoots
  <1>6. Aside
    BY DEF BootTypeOK, Quiet, Hart0, InScheduler, OneBoots, Aside
  <1> QED
    BY <1>1, <1>2, <1>3, <1>4, <1>5, <1>6, Zenon

\* StageFails keeps HartsInv.
LEMMA StageFailsBoot ==
  ASSUME HartsInv, NEW h \in Harts, StageFails(h)
  PROVE  HartsInv' /\ Aside
  <1> USE HartAssumption DEF HartsInv, StageFails, At, Says, Goto, stages
  <1>1. BootTypeOK'
    BY DEF BootTypeOK, Stages, GlobalStages
  <1>2. OneBoots'
    BY DEF BootTypeOK, OneBoots, Behind, Late, GlobalStages
  <1>3. Hart0'
    BY DEF BootTypeOK, Hart0, InScheduler, Quiet, OneBoots
  <1>4. ASSUME NEW g \in Harts PROVE (Behind(g))'
    BY DEF BootTypeOK, Behind, Late, Hart0, InScheduler
  <1>5. ASSUME NEW g \in Harts PROVE (Quiet(g))'
    BY DEF BootTypeOK, Quiet, Hart0, InScheduler, OneBoots
  <1>6. Aside
    BY DEF BootTypeOK, Quiet, Hart0, InScheduler, OneBoots, Aside
  <1> QED
    BY <1>1, <1>2, <1>3, <1>4, <1>5, <1>6, Zenon

\* InitHart keeps HartsInv.
LEMMA InitHartBoot ==
  ASSUME HartsInv, NEW h \in Harts, InitHart(h)
  PROVE  HartsInv' /\ Aside
  <1>0. pc' = [pc EXCEPT ![h] = "vm"]
    BY FollowIs, Zenon DEF InitHart, Goto
  <1> USE HartAssumption, <1>0 DEF HartsInv, InitHart, At, Says, stages
  <1>1. BootTypeOK'
    BY Zenon DEF BootTypeOK, Stages, GlobalStages
  <1>2. OneBoots'
    BY Zenon DEF BootTypeOK, OneBoots, Behind, Late, GlobalStages
  <1>3. Hart0'
    BY DEF BootTypeOK, Hart0, InScheduler, Quiet, OneBoots
  <1>4. ASSUME NEW g \in Harts PROVE (Behind(g))'
    BY Zenon DEF BootTypeOK, Behind, Late, Hart0, InScheduler
  <1>5. ASSUME NEW g \in Harts PROVE (Quiet(g))'
    BY DEF BootTypeOK, Quiet, Hart0, InScheduler, OneBoots
  <1>6. Aside
    BY DEF BootTypeOK, Quiet, Hart0, InScheduler, OneBoots, Aside
  <1> QED
    BY <1>1, <1>2, <1>3, <1>4, <1>5, <1>6, Zenon

\* SwitchToKernel keeps HartsInv.
LEMMA SwitchToKernelBoot ==
  ASSUME HartsInv, NEW h \in Harts, SwitchToKernel(h)
  PROVE  HartsInv' /\ Aside
  <1>0. pc' = [pc EXCEPT ![h] = "fs"]
    BY FollowIs, Zenon DEF SwitchToKernel, Goto
  <1> USE HartAssumption, <1>0 DEF HartsInv, SwitchToKernel, At, Says, stages
  <1>1. BootTypeOK'
    BY Zenon DEF BootTypeOK, Stages, GlobalStages
  <1>2. OneBoots'
    BY Zenon DEF BootTypeOK, OneBoots, Behind, Late, GlobalStages
  <1>3. Hart0'
    BY DEF BootTypeOK, Hart0, InScheduler, Quiet, OneBoots
  <1>4. ASSUME NEW g \in Harts PROVE (Behind(g))'
    BY Zenon DEF BootTypeOK, Behind, Late, Hart0, InScheduler
  <1>5. ASSUME NEW g \in Harts PROVE (Quiet(g))'
    BY DEF BootTypeOK, Quiet, Hart0, InScheduler, OneBoots
  <1>6. Aside
    BY DEF BootTypeOK, Quiet, Hart0, InScheduler, OneBoots, Aside
  <1> QED
    BY <1>1, <1>2, <1>3, <1>4, <1>5, <1>6, Zenon

\* Bootstrap keeps HartsInv.
LEMMA BootstrapBoot ==
  ASSUME HartsInv, NEW h \in Harts, Bootstrap(h)
  PROVE  HartsInv' /\ Aside
  <1> USE HartAssumption DEF HartsInv, Bootstrap, At, Goto
  <1>1. BootTypeOK'
    BY Zenon DEF BootTypeOK, Stages, GlobalStages
  <1>2. OneBoots'
    <2>1. done = GlobalStages
      <3>1. pc[h] = "enable" /\ done \subseteq GlobalStages
        BY Zenon DEF BootTypeOK
      <3> QED
        BY <3>1, Zenon DEF Behind, Late, GlobalStages
    <2>2. done' = done
      BY Zenon
    <2>3. \A t \in toStart' : pc'[t] = "off"
      BY DEF BootTypeOK, OneBoots
    <2> QED
      BY <2>1, <2>2, <2>3 DEF OneBoots
  <1>3. Hart0'
    BY DEF BootTypeOK, Hart0, InScheduler, Quiet, OneBoots
  <1>4. ASSUME NEW g \in Harts PROVE (Behind(g))'
    BY Zenon DEF BootTypeOK, Behind, Late, Hart0, InScheduler
  <1>5. ASSUME NEW g \in Harts PROVE (Quiet(g))'
    BY DEF BootTypeOK, Quiet, Hart0, InScheduler, OneBoots
  <1>6. Aside
    BY DEF BootTypeOK, Quiet, Hart0, InScheduler, OneBoots, Aside
  <1> QED
    BY <1>1, <1>2, <1>3, <1>4, <1>5, <1>6, Zenon

\* StartHart keeps HartsInv.
LEMMA StartHartBoot ==
  ASSUME HartsInv, NEW h \in Harts, StartHart(h)
  PROVE  HartsInv' /\ Aside
  <1> USE HartAssumption DEF HartsInv, StartHart, At, Says, Goto
  <1>1. BootTypeOK'
    BY DEF BootTypeOK, Stages, GlobalStages
  <1>2. OneBoots'
    BY Zenon DEF BootTypeOK, OneBoots, Behind, Late, GlobalStages
  <1>3. Hart0'
    BY DEF BootTypeOK, Hart0, InScheduler, Quiet, OneBoots
  <1>4. ASSUME NEW g \in Harts PROVE (Behind(g))'
    BY Zenon DEF BootTypeOK, Behind, Late, Hart0, InScheduler
  <1>5. ASSUME NEW g \in Harts PROVE (Quiet(g))'
    BY DEF BootTypeOK, Quiet, Hart0, InScheduler, OneBoots
  <1>6. Aside
    BY DEF BootTypeOK, Quiet, Hart0, InScheduler, OneBoots, Aside
  <1> QED
    BY <1>1, <1>2, <1>3, <1>4, <1>5, <1>6, Zenon

\* StartDone keeps HartsInv.
LEMMA StartDoneBoot ==
  ASSUME HartsInv, NEW h \in Harts, StartDone(h)
  PROVE  HartsInv' /\ Aside
  <1> USE HartAssumption DEF HartsInv, StartDone, At, Goto, stages
  <1>1. BootTypeOK'
    BY Zenon DEF BootTypeOK, Stages, GlobalStages
  <1>2. OneBoots'
    BY Zenon DEF BootTypeOK, OneBoots, Behind, Late, GlobalStages
  <1>3. Hart0'
    BY DEF BootTypeOK, Hart0, InScheduler, Quiet, OneBoots
  <1>4. ASSUME NEW g \in Harts PROVE (Behind(g))'
    BY Zenon DEF BootTypeOK, Behind, Late, Hart0, InScheduler
  <1>5. ASSUME NEW g \in Harts PROVE (Quiet(g))'
    BY DEF BootTypeOK, Quiet, Hart0, InScheduler, OneBoots
  <1>6. Aside
    BY DEF BootTypeOK, Quiet, Hart0, InScheduler, OneBoots, Aside
  <1> QED
    BY <1>1, <1>2, <1>3, <1>4, <1>5, <1>6, Zenon

\* Main keeps HartsInv.
LEMMA MainBoot ==
  ASSUME HartsInv, NEW h \in Harts, Main(h)
  PROVE  HartsInv' /\ Aside
  <1> USE HartAssumption DEF HartsInv, Main, At, Says, Goto, stages
  <1>1. BootTypeOK'
    BY Zenon DEF BootTypeOK, Stages, GlobalStages
  <1>2. OneBoots'
    BY Zenon DEF BootTypeOK, OneBoots, Behind, Late, GlobalStages
  <1>3. Hart0'
    BY DEF BootTypeOK, Hart0, InScheduler, Quiet, OneBoots
  <1>4. ASSUME NEW g \in Harts PROVE (Behind(g))'
    BY Zenon DEF BootTypeOK, Behind, Late, Hart0, InScheduler
  <1>5. ASSUME NEW g \in Harts PROVE (Quiet(g))'
    BY DEF BootTypeOK, Quiet, Hart0, InScheduler, OneBoots
  <1>6. Aside
    BY DEF BootTypeOK, Quiet, Hart0, InScheduler, OneBoots, Aside
  <1> QED
    BY <1>1, <1>2, <1>3, <1>4, <1>5, <1>6, Zenon

\* Alloc keeps HartsInv.
LEMMA AllocBoot ==
  ASSUME HartsInv, Alloc
  PROVE  HartsInv'
  <1> USE HartAssumption DEF HartsInv, Alloc, At, Goto, stages
  <1>1. BootTypeOK'
    BY Zenon DEF BootTypeOK, Stages, GlobalStages
  <1>2. OneBoots'
    BY Zenon DEF BootTypeOK, OneBoots, Behind, Late, GlobalStages
  <1>3. Hart0'
    BY DEF BootTypeOK, Hart0, InScheduler, Quiet, OneBoots
  <1>4. ASSUME NEW g \in Harts PROVE (Behind(g))'
    BY Zenon DEF BootTypeOK, Behind, Late, Hart0, InScheduler
  <1>5. ASSUME NEW g \in Harts PROVE (Quiet(g))'
    BY DEF BootTypeOK, Quiet, Hart0, InScheduler, OneBoots
  <1> QED
    BY <1>1, <1>2, <1>3, <1>4, <1>5, Zenon

\* AllocReturn keeps HartsInv.
LEMMA AllocReturnBoot ==
  ASSUME HartsInv, AllocReturn
  PROVE  HartsInv'
  <1> USE HartAssumption DEF HartsInv, AllocReturn, At, Goto, stages
  <1>1. BootTypeOK'
    BY Zenon DEF BootTypeOK, Stages, GlobalStages
  <1>2. OneBoots'
    BY Zenon DEF BootTypeOK, OneBoots, Behind, Late, GlobalStages
  <1>3. Hart0'
    BY DEF BootTypeOK, Hart0, InScheduler, Quiet, OneBoots
  <1>4. ASSUME NEW g \in Harts PROVE (Behind(g))'
    BY Zenon DEF BootTypeOK, Behind, Late, Hart0, InScheduler
  <1>5. ASSUME NEW g \in Harts PROVE (Quiet(g))'
    BY DEF BootTypeOK, Quiet, Hart0, InScheduler, OneBoots
  <1> QED
    BY <1>1, <1>2, <1>3, <1>4, <1>5, Zenon

\* Create keeps HartsInv.
LEMMA CreateBoot ==
  ASSUME HartsInv, Create
  PROVE  HartsInv'
  <1> USE HartAssumption DEF HartsInv, Create, At, Says, Goto, stages
  <1>1. BootTypeOK'
    BY Zenon DEF BootTypeOK, Stages, GlobalStages
  <1>2. OneBoots'
    BY Zenon DEF BootTypeOK, OneBoots, Behind, Late, GlobalStages
  <1>3. Hart0'
    BY DEF BootTypeOK, Hart0, InScheduler, Quiet, OneBoots
  <1>4. ASSUME NEW g \in Harts PROVE (Behind(g))'
    BY Zenon DEF BootTypeOK, Behind, Late, Hart0, InScheduler
  <1>5. ASSUME NEW g \in Harts PROVE (Quiet(g))'
    BY DEF BootTypeOK, Quiet, Hart0, InScheduler, OneBoots
  <1> QED
    BY <1>1, <1>2, <1>3, <1>4, <1>5, Zenon

\* EnterScheduler keeps HartsInv.
LEMMA EnterSchedulerBoot ==
  ASSUME HartsInv, EnterScheduler
  PROVE  HartsInv' /\ Aside
  <1> USE HartAssumption DEF HartsInv, EnterScheduler, At, stages
  <1>1. BootTypeOK'
    BY Zenon DEF BootTypeOK, Stages, GlobalStages
  <1>2. OneBoots'
    BY Zenon DEF BootTypeOK, OneBoots, Behind, Late, GlobalStages
  <1>3. Hart0'
    BY Zenon DEF BootTypeOK, Hart0, InScheduler, Quiet, OneBoots
  <1>4. ASSUME NEW g \in Harts PROVE (Behind(g))'
    BY Zenon DEF BootTypeOK, Behind, Late, Hart0, InScheduler
  <1>5. ASSUME NEW g \in Harts PROVE (Quiet(g))'
    BY DEF BootTypeOK, Quiet, Hart0, InScheduler, OneBoots
  <1>6. Aside
    BY Zenon DEF BootTypeOK, Quiet, Hart0, InScheduler, OneBoots, Aside
  <1> QED
    BY <1>1, <1>2, <1>3, <1>4, <1>5, <1>6, Zenon

\* IsrEnter keeps HartsInv.
LEMMA IsrEnterBoot ==
  ASSUME HartsInv, NEW h \in Harts, IsrEnter(h)
  PROVE  HartsInv' /\ Aside
  <1> USE HartAssumption DEF HartsInv, IsrEnter, Enter, stages
  <1>1. BootTypeOK'
    BY DEF BootTypeOK, Stages, GlobalStages
  <1>2. OneBoots'
    BY Zenon DEF BootTypeOK, OneBoots, Behind, Late, GlobalStages
  <1>3. Hart0'
    BY Zenon DEF BootTypeOK, Hart0, InScheduler, Quiet, OneBoots
  <1>4. ASSUME NEW g \in Harts PROVE (Behind(g))'
    BY Zenon DEF BootTypeOK, Behind, Late, Hart0, InScheduler
  <1>5. ASSUME NEW g \in Harts PROVE (Quiet(g))'
    <2>1. PICK i \in {"timer", "external", "other"} : isr' = [isr EXCEPT ![h] = i]
      BY Zenon
    <2> QED
      BY <2>1 DEF BootTypeOK, Quiet, Hart0, InScheduler
  <1>6. Aside
    BY DEF BootTypeOK, Quiet, Hart0, InScheduler, OneBoots, Aside
  <1> QED
    BY <1>1, <1>2, <1>3, <1>4, <1>5, <1>6, Zenon

\* IsrExit keeps HartsInv.
LEMMA IsrExitBoot ==
  ASSUME HartsInv, NEW h \in Harts, IsrExit(h)
  PROVE  HartsInv' /\ Aside
  <1> USE HartAssumption DEF HartsInv, IsrExit, MayLeave, Exited, stages
  <1>1. BootTypeOK'
    BY DEF BootTypeOK, Stages, GlobalStages
  <1>2. OneBoots'
    BY Zenon DEF BootTypeOK, OneBoots, Behind, Late, GlobalStages
  <1>3. Hart0'
    BY Zenon DEF BootTypeOK, Hart0, InScheduler, Quiet, OneBoots
  <1>4. ASSUME NEW g \in Harts PROVE (Behind(g))'
    BY Zenon DEF BootTypeOK, Behind, Late, Hart0, InScheduler
  <1>5. ASSUME NEW g \in Harts PROVE (Quiet(g))'
    BY DEF BootTypeOK, Quiet, Hart0, InScheduler, OneBoots
  <1>6. Aside
    BY Zenon DEF BootTypeOK, Quiet, Hart0, InScheduler, OneBoots, Aside
  <1> QED
    BY <1>1, <1>2, <1>3, <1>4, <1>5, <1>6, Zenon

\* SchedStep keeps HartsInv.
LEMMA SchedStepBoot ==
  ASSUME HartsInv, SchedStep
  PROVE  HartsInv'
  <1> USE HartAssumption DEF HartsInv, SchedStep, Scheduling, Nested, stages
  <1>1. BootTypeOK'
    BY DEF BootTypeOK, Stages, GlobalStages
  <1>2. OneBoots'
    BY Zenon DEF BootTypeOK, OneBoots, Behind, Late, GlobalStages
  <1>3. Hart0'
    BY Zenon DEF BootTypeOK, Hart0, InScheduler, Quiet, OneBoots
  <1>4. ASSUME NEW g \in Harts PROVE (Behind(g))'
    BY Zenon DEF BootTypeOK, Behind, Late, Hart0, InScheduler
  <1>5. ASSUME NEW g \in Harts PROVE (Quiet(g))'
    BY Zenon DEF BootTypeOK, Quiet, Hart0, InScheduler, OneBoots
  <1> QED
    BY <1>1, <1>2, <1>3, <1>4, <1>5, Zenon

-----------------------------------------------------------------------------
(***************************************************************************)
(* The process table under bring-up, and nest_count of hart 0 under the    *)
(* scheduler.                                                              *)
(***************************************************************************)

\* The processes that were switched away from inside a trap.
Suspended ==
  {s \in Slots : state[s] \in {"Runnable", "Sleeping"} /\ cont[s] # "user"}

\* nest_count covers each of them, and the trap in progress.
Cover ==
  IF mode = "hung" THEN nest[0] > 0
  ELSE nest[0] >= Cardinality(Suspended)
                    + IF mode \in {"wait", "sleep"} THEN 1 ELSE 0

\* PROC_TABLE before and after create's alloc, and all that alloc leaves alone.
EmptyTable ==
  /\ state = [s \in Slots |-> "Unused"] /\ pid = [s \in Slots |-> 0]
  /\ bitmap = {} /\ nextPid = 1
FirstProcess ==
  /\ state = [s \in Slots |-> IF s = 0 THEN "Runnable" ELSE "Unused"]
  /\ pid = [s \in Slots |-> IF s = 0 THEN 1 ELSE 0]
  /\ bitmap = {0} /\ nextPid = 2
Untouched ==
  /\ parent = [s \in Slots |-> None] /\ chan = [s \in Slots |-> None]
  /\ code = [s \in Slots |-> 0] /\ epc = [s \in Slots |-> 0]
  /\ cont = [s \in Slots |-> "user"] /\ left = [s \in Slots |-> 0]
  /\ proc = None /\ mode = "sched" /\ sepc = KernelPc

\* create hands the scheduler the table that Sched begins with, and from then
\* on Sched's invariant holds.
TableInv ==
  /\ pc[0] # "sched" => Untouched
  /\ pc[0] \in {"window", "setup"} => FirstProcess
  /\ pc[0] \notin {"window", "setup", "sched"} => EmptyTable
  /\ pc[0] = "sched" => IInv
  /\ ~InScheduler => Suspended = {} /\ mode = "sched"
  /\ InScheduler => Cover

\* The number of suspended processes is a number.
LEMMA Counts ==
  /\ IsFiniteSet(Suspended) /\ Cardinality(Suspended) \in Nat
  /\ Suspended = {} => Cardinality(Suspended) = 0
  /\ \A s \in Suspended : Cardinality(Suspended) > 0
  <1>1. IsFiniteSet(Slots) /\ Suspended \subseteq Slots
    BY FS_Interval, SchedAssumption DEF Slots, Suspended
  <1>2. IsFiniteSet(Suspended)
    BY <1>1, FS_Subset, Zenon
  <1> QED
    BY <1>2, FS_CardinalityType, FS_EmptySet

\* One process more, or one less.
LEMMA OneMore ==
  ASSUME NEW s, s \notin Suspended, Suspended' = Suspended \cup {s}
  PROVE  Cardinality(Suspended)' = Cardinality(Suspended) + 1
  BY Counts, FS_AddElement, Zenon
LEMMA OneLess ==
  ASSUME NEW s \in Suspended, Suspended' = Suspended \ {s}
  PROVE  Cardinality(Suspended)' = Cardinality(Suspended) - 1
  BY Counts, FS_RemoveElement, Zenon

\* A step of bring-up outside of create keeps TableInv.
LEMMA AsideTable ==
  ASSUME HartsInv, TableInv, Aside
  PROVE  TableInv'
  <1>1. /\ Untouched' = Untouched /\ FirstProcess' = FirstProcess
        /\ EmptyTable' = EmptyTable /\ IInv' = IInv
        /\ Suspended' = Suspended /\ mode' = mode
    <2> USE DEF Aside, vars
    <2>1. TypeOK' = TypeOK /\ Support' = Support
      BY DEF TypeOK, Support
    <2>2. BitmapExact' = BitmapExact /\ OneRunning' = OneRunning
      BY DEF BitmapExact, OneRunning
    <2>3. ParentTree' = ParentTree /\ PidsDistinct' = PidsDistinct
      BY DEF ParentTree, PidsDistinct
    <2>4. NoLostExit' = NoLostExit /\ NoOversleep' = NoOversleep
      BY DEF NoLostExit, NoOversleep
    <2>5. Untouched' = Untouched /\ FirstProcess' = FirstProcess
      BY DEF Untouched, FirstProcess
    <2>6. EmptyTable' = EmptyTable /\ Suspended' = Suspended /\ mode' = mode
      BY DEF EmptyTable, Suspended
    <2>7. IInv' = IInv
      BY <2>1, <2>2, <2>3, <2>4 DEF IInv
    <2> QED
      BY <2>5, <2>6, <2>7, Zenon
  <1>2. InScheduler' => Cover'
    <2>1. CASE InScheduler
      BY <1>1, <2>1, Zenon DEF Aside, TableInv, Cover
    <2>2. CASE ~InScheduler
      <3>1. Cardinality(Suspended) = 0 /\ mode = "sched" /\ nest[0] \in Nat
        BY <2>2, Counts, HartAssumption, Zenon DEF TableInv, HartsInv, BootTypeOK
      <3> QED
        BY <1>1, <3>1 DEF Aside, Cover
    <2> QED
      BY <2>1, <2>2, Zenon
  <1>3. ~InScheduler' => Suspended' = {} /\ mode' = "sched"
    BY <1>1, Zenon DEF TableInv, Aside, InScheduler
  <1> QED
    BY <1>1, <1>2, <1>3, Zenon DEF TableInv, Aside

\* alloc finds slot 0 of the empty table.
LEMMA AllocTable ==
  ASSUME HartsInv, TableInv, Alloc
  PROVE  TableInv'
  <1> USE SlotFacts, HartAssumption DEF HartsInv, BootTypeOK
  <1>1. /\ pc[0] = "create" /\ pc'[0] = "window"
        /\ Untouched /\ Untouched' /\ EmptyTable
    BY Zenon DEF Alloc, At, Goto, TableInv, Untouched
  <1>2. PICK c \in Slots :
          /\ FirstUnused(c) /\ state' = [state EXCEPT ![c] = "Runnable"]
          /\ bitmap' = bitmap \cup {c} /\ pid' = [pid EXCEPT ![c] = nextPid]
    BY Zenon DEF Alloc
  <1>3. c = 0
    <2>1. state[0] = "Unused" /\ c \in Nat
      BY <1>1, Zenon DEF EmptyTable
    <2> QED
      BY <1>2, <2>1 DEF FirstUnused
  <1>4. FirstProcess'
    <2>1. nextPid' = nextPid + 1
      BY Zenon DEF Alloc
    <2>2. state' = [s \in Slots |-> IF s = 0 THEN "Runnable" ELSE "Unused"]
      BY <1>1, <1>2, <1>3, Zenon DEF EmptyTable
    <2>3. pid' = [s \in Slots |-> IF s = 0 THEN 1 ELSE 0]
      BY <1>1, <1>2, <1>3, Zenon DEF EmptyTable
    <2>4. nextPid' = 2
      BY <1>1, <2>1 DEF EmptyTable
    <2>5. bitmap' = {0}
      BY <1>1, <1>2, <1>3, Zenon DEF EmptyTable
    <2> QED
      BY <2>2, <2>3, <2>4, <2>5, Zenon DEF FirstProcess
  <1>5. Suspended' = {} /\ mode' = "sched"
    BY <1>1, Zenon DEF Suspended, Untouched
  <1> QED
    BY <1>1, <1>4, <1>5, Zenon DEF TableInv, InScheduler

\* The guard of alloc goes out of scope.
LEMMA AllocReturnTable ==
  ASSUME HartsInv, TableInv, AllocReturn
  PROVE  TableInv'
  <1>1. /\ pc[0] = "window" /\ pc'[0] = "setup" /\ UNCHANGED vars
        /\ Untouched /\ FirstProcess
    BY HartAssumption, Zenon DEF AllocReturn, At, Goto, TableInv, HartsInv, BootTypeOK
  <1>2. Untouched' /\ FirstProcess'
    BY <1>1, Zenon DEF vars, Untouched, FirstProcess
  <1>3. Suspended' = {} /\ mode' = "sched"
    BY <1>2, Zenon DEF Suspended, Untouched
  <1> QED
    BY <1>1, <1>2, <1>3, Zenon DEF TableInv, InScheduler

\* The rest of create completes the table that Sched begins with.
LEMMA CreateTable ==
  ASSUME HartsInv, TableInv, Create
  PROVE  TableInv' /\ Init'
  <1> USE SlotFacts, HartAssumption DEF HartsInv, BootTypeOK
  <1>1. pc[0] = "setup" /\ pc'[0] = "sched" /\ sie'[0] /\ Untouched /\ FirstProcess
    BY Zenon DEF Create, At, Goto, TableInv, stages, Hart0
  <1>2. epc' = [s \in Slots |-> IF s = 0 THEN 1 ELSE 0]
    BY <1>1, Zenon DEF Create, Untouched, FirstProcess
  <1>3. Init'
    BY <1>1, <1>2, Zenon DEF Create, Untouched, FirstProcess, Init
  <1>4. IInv'
    BY <1>3, InitIInv, PTL
  <1>5. Suspended' = {} /\ mode' = "sched"
    BY <1>3, Zenon DEF Suspended, Init
  <1> QED
    BY <1>1, <1>3, <1>4, <1>5, Zenon DEF TableInv, InScheduler

-----------------------------------------------------------------------------
(* nest_count under the scheduler, action by action. *)

\* A step that neither enters nor leaves a trap, with as many processes
\* suspended as before.
LEMMA SameCover ==
  ASSUME Cover, nest'[0] = nest[0], Suspended' = Suspended,
         mode # "hung", mode' # "hung",
         mode \in {"wait", "sleep"} <=> mode' \in {"wait", "sleep"}
  PROVE  Cover'
  BY Counts, Zenon DEF Cover

\* nest_count of hart 0 after a step that leaves user mode, returns to it, or
\* does neither.
LEMMA NestStep ==
  ASSUME HartsInv, Nested
  PROVE  /\ nest[0] \in Nat
         /\ Left => nest'[0] = nest[0] + 1
         /\ Came => nest'[0] = IF nest[0] > 0 THEN nest[0] - 1 ELSE nest[0]
         /\ ~Left /\ ~Came => nest'[0] = nest[0]
  BY HartAssumption, Zenon DEF HartsInv, BootTypeOK, Nested, Left, Came

\* The scheduler resumes a process: new, from its yield, or inside a loop.
LEMMA DispatchCover ==
  ASSUME HartsInv, IInv, Cover, Dispatch, Nested
  PROVE  Cover'
  <1> USE SlotFacts DEF IInv, TypeOK
  <1>1. PICK i \in Slots :
          IF state[i] = "Runnable"
            THEN /\ state' = [state EXCEPT ![i] = "Running"]
                 /\ proc' = i /\ Resume(i)
            ELSE UNCHANGED <<state, proc, mode, epc, sepc>>
    BY Zenon DEF Dispatch
  <1>2. mode = "sched" /\ cont' = cont
    BY Zenon DEF Dispatch
  <1>3. CASE state[i] # "Runnable"
    BY <1>1, <1>2, <1>3, SameCover, NestStep, Zenon DEF Suspended, Left, Came
  <1>4. CASE state[i] = "Runnable" /\ cont[i] = "user"
    BY <1>1, <1>2, <1>4, SameCover, NestStep, Zenon DEF Resume, Suspended, Left, Came
  <1>5. CASE state[i] = "Runnable" /\ cont[i] # "user"
    <2>1. i \in Suspended /\ Suspended' = Suspended \ {i}
      BY <1>1, <1>2, <1>5, Zenon DEF Suspended
    <2>2. Cardinality(Suspended)' = Cardinality(Suspended) - 1
      BY <2>1, OneLess, Zenon
    <2>3. \/ mode' = "user" /\ Came
          \/ mode' \in {"wait", "sleep"} /\ ~Left /\ ~Came
      BY <1>1, <1>2, <1>5, Zenon DEF Resume, Left, Came
    <2> QED
      BY <1>2, <2>1, <2>2, <2>3, Counts, NestStep DEF Cover
  <1> QED
    BY <1>3, <1>4, <1>5, Zenon

\* Steps of the scheduler that wake processes or none.
LEMMA SchedulerCover ==
  ASSUME HartsInv, IInv, Cover, AfterSwitch \/ IdleTick, Nested
  PROVE  Cover'
  <1> USE SlotFacts DEF IInv, TypeOK
  <1>1. ASSUME NEW s \in Slots
        PROVE  state'[s] \in {"Runnable", "Sleeping"} <=> state[s] \in {"Runnable", "Sleeping"}
    BY DEF AfterSwitch, IdleTick, StateAfterWakeup, Woken
  <1>2. cont' = cont
    BY Zenon DEF AfterSwitch, IdleTick
  <1>3. Suspended' = Suspended
    BY <1>1, <1>2, Zenon DEF Suspended
  <1>4. mode \in {"sched", "swtch"} /\ mode' = "sched"
    BY Zenon DEF AfterSwitch, IdleTick
  <1> QED
    BY <1>3, <1>4, SameCover, NestStep, Zenon DEF Left, Came

\* The tick suspends the process it interrupts.
LEMMA PreemptCover ==
  ASSUME HartsInv, IInv, Cover, Preempt, Nested
  PROVE  Cover'
  <1> USE SlotFacts DEF IInv, TypeOK
  <1>1. mode = "user" /\ mode' = "swtch" /\ proc \in Slots /\ state[proc] = "Running"
    BY Zenon DEF Preempt, OneRunning
  <1>2. proc \notin Suspended /\ Suspended' = Suspended \cup {proc}
    <2>1. /\ state'[proc] = "Runnable" /\ cont'[proc] = "yield"
          /\ \A s \in Slots : s # proc =>
               /\ cont'[s] = cont[s]
               /\ state'[s] = IF s \in Woken(TICKS) THEN "Runnable" ELSE state[s]
      BY <1>1, Zenon DEF Preempt, Yield, StateAfterWakeup
    <2> QED
      BY <1>1, <2>1, Zenon DEF Woken, Suspended
  <1>3. Cardinality(Suspended)' = Cardinality(Suspended) + 1
    BY <1>2, OneMore, Zenon
  <1> QED
    BY <1>1, <1>3, NestStep, Counts DEF Left, Cover

\* fork, and what ends the kernel or returns to a process it never left.
LEMMA ForkCover ==
  ASSUME HartsInv, IInv, Cover, Fork, Nested
  PROVE  Cover'
  <1> USE SlotFacts DEF IInv, TypeOK
  <1>1. Suspended' = Suspended
    BY Zenon DEF Fork, FirstUnused, Suspended
  <1>2. mode = "user" /\ mode' = "user"
    BY Zenon DEF Fork
  <1> QED
    BY <1>1, <1>2, SameCover, NestStep, Zenon DEF Left, Came

\* The traps that do not suspend anybody: panic, exit, wait and sleep begin.
LEMMA TrapCover ==
  ASSUME HartsInv, IInv, Cover, Nested,
         \/ Panic \/ Wait
         \/ \E c \in Codes : Exit(c)
         \/ \E n \in 0 .. MaxSleep : Sleep(n)
  PROVE  Cover'
  <1> USE SlotFacts DEF IInv, TypeOK
  <1>1. mode = "user" /\ mode' \notin {"user", "hung"}
    BY Zenon DEF Panic, Wait, Exit, Sleep
  <1>2. Suspended' = Suspended
    <2>1. CASE Panic \/ Wait \/ \E n \in 0 .. MaxSleep : Sleep(n)
      BY <2>1, Zenon DEF Panic, Wait, Sleep, Suspended
    <2>2. ASSUME NEW c \in Codes, Exit(c) PROVE Suspended' = Suspended
      <3>1. state[proc] = "Running" /\ proc \in Slots
        BY <1>1, Zenon DEF OneRunning
      <3>2. \A s \in Slots : /\ s \in WokenByExit => state[s] = "Sleeping"
                             /\ s # proc => cont'[s] = cont[s]
        BY <2>2, Zenon DEF Exit, WokenByExit, Woken
      <3>3. \A s \in Slots : state'[s] = IF s = proc THEN "Dying"
                               ELSE IF s \in WokenByExit THEN "Runnable"
                               ELSE state[s]
        BY <2>2, Zenon DEF Exit
      <3> QED
        BY <3>1, <3>2, <3>3, Zenon DEF Suspended
    <2> QED
      BY <2>1, <2>2, Zenon
  <1> QED
    BY <1>1, <1>2, NestStep, Counts DEF Left, Cover

\* wait and sleep return.
LEMMA ReturnCover ==
  ASSUME HartsInv, IInv, Cover, Reap \/ WaitNone \/ SleepDone, Nested
  PROVE  Cover'
  <1> USE SlotFacts DEF IInv, TypeOK
  <1>1. mode \in {"wait", "sleep"} /\ mode' = "user"
    BY Zenon DEF Reap, WaitNone, SleepDone, ReturnToUser
  <1>2. Suspended' = Suspended
    <2>1. CASE Reap
      <3>1. PICK z \in Zombies : /\ state' = [state EXCEPT ![z] = "Unused"]
                                /\ cont' = [cont EXCEPT ![z] = "user"]
        BY <2>1, Zenon DEF Reap
      <3>2. z \in Slots /\ state[z] = "Zombie"
        BY DEF Zombies, Kids
      <3> QED
        BY <3>1, <3>2 DEF Suspended
    <2>2. CASE WaitNone \/ SleepDone
      BY <2>2, Zenon DEF WaitNone, SleepDone, Suspended
    <2> QED
      BY <2>1, <2>2, Zenon
  <1> QED
    BY <1>1, <1>2, NestStep, Counts DEF Came, Cover

\* wait and sleep give up the hart, or hang.
LEMMA SleepOnCover ==
  ASSUME HartsInv, IInv, Cover, WaitSleep \/ SleepMore, Nested
  PROVE  Cover'
  <1> USE SlotFacts DEF IInv, TypeOK
  <1>1. /\ mode \in {"wait", "sleep"} /\ proc \in Slots /\ state[proc] = "Running"
        /\ mode' = IF Reentrant THEN "swtch" ELSE "hung"
    BY Zenon DEF WaitSleep, SleepMore, SleepOn, OneRunning
  <1>2. nest'[0] = nest[0] /\ nest[0] \in Nat
    BY <1>1, NestStep, Zenon DEF Left, Came
  <1>3. CASE ~Reentrant
    BY <1>1, <1>2, <1>3, Counts DEF Cover
  <1>4. CASE Reentrant
    <2>1. proc \notin Suspended /\ Suspended' = Suspended \cup {proc}
      <3>1. PICK l \in {"wait", "sleep"} :
              /\ state' = [state EXCEPT ![proc] = "Sleeping"]
              /\ cont' = [cont EXCEPT ![proc] = l]
        BY <1>4, Zenon DEF WaitSleep, SleepMore, SleepOn
      <3> QED
        BY <1>1, <3>1 DEF Suspended
    <2>2. Cardinality(Suspended)' = Cardinality(Suspended) + 1
      BY <2>1, OneMore, Zenon
    <2> QED
      BY <1>1, <1>2, <1>4, <2>2, Counts DEF Cover
  <1> QED
    BY <1>3, <1>4, Zenon

\* A step of Sched keeps TableInv.
LEMMA SchedTable ==
  ASSUME HartsInv, TableInv, SchedStep
  PROVE  TableInv'
  <1>1. /\ InScheduler /\ InScheduler' /\ pc'[0] = "sched" /\ IInv /\ Cover
        /\ Next /\ Nested
    BY Zenon DEF SchedStep, Scheduling, InScheduler, TableInv
  <1>2. IInv'
    BY <1>1, NextIInv, Zenon
  <1>3. Cover'
    <2>1. CASE KernelStep
      BY <1>1, <2>1, DispatchCover, SchedulerCover, ReturnCover, SleepOnCover, Zenon
      DEF KernelStep
    <2>2. CASE Preempt \/ Panic \/ Syscall
      BY <1>1, <2>2, PreemptCover, ForkCover, TrapCover, Zenon DEF Syscall, ForkFails
    <2>3. CASE Halted
      <3>1. Suspended' = Suspended /\ mode' = mode /\ nest'[0] = nest[0]
        BY <1>1, <2>3, NestStep, Zenon DEF Halted, vars, Suspended, Left, Came
      <3> QED
        BY <1>1, <3>1, Zenon DEF Cover
    <2> QED
      BY <1>1, <2>1, <2>2, <2>3, Zenon DEF Next
  <1> QED
    BY <1>1, <1>2, <1>3, Zenon DEF TableInv

-----------------------------------------------------------------------------
BootInv == HartsInv /\ TableInv

\* The machine as the firmware starts it.
LEMMA InitBoot == BootInit => BootInv
  <1> SUFFICES ASSUME BootInit PROVE BootInv
    BY Zenon
  <1> USE HartAssumption, SlotFacts
  <1>1. PICK b \in Harts : pc = [h \in Harts |-> IF h = b THEN "dtb" ELSE "off"]
    BY Zenon DEF BootInit
  <1>2. BootTypeOK
    BY <1>1, Zenon DEF BootInit, BootTypeOK, Stages, GlobalStages
  <1>3. OneBoots /\ Hart0
    BY <1>1, Zenon DEF BootInit, OneBoots, Hart0, InScheduler
  <1>4. \A h \in Harts : Behind(h) /\ Quiet(h)
    BY <1>1, Zenon DEF BootInit, Behind, Late, Quiet, InScheduler
  <1>5. Untouched /\ EmptyTable
    BY Zenon DEF BootInit, Untouched, EmptyTable
  <1>6. Suspended = {} /\ mode = "sched"
    BY <1>5, Zenon DEF Suspended, Untouched
  <1>7. pc[0] \notin {"window", "setup", "sched"}
    BY <1>1, Zenon
  <1>8. TableInv
    BY <1>5, <1>6, <1>7, Zenon DEF TableInv, InScheduler
  <1> QED
    BY <1>2, <1>3, <1>4, <1>8, Zenon DEF BootInv, HartsInv

\* Every step keeps BootInv.
LEMMA NextBoot == BootInv /\ [BootNext]_allVars => BootInv'
  <1> SUFFICES ASSUME HartsInv, TableInv, [BootNext]_allVars
               PROVE  HartsInv' /\ TableInv'
    BY Zenon DEF BootInv
  <1>1. ASSUME NEW h \in Harts,
               PrintLock(h) \/ PrintUnlock(h) \/ StageBegin(h) \/ StageEnd(h)
                 \/ StageFails(h) \/ InitHart(h)
        PROVE  HartsInv' /\ TableInv'
    BY <1>1, PrintLockBoot, PrintUnlockBoot, StageBeginBoot, StageEndBoot,
       StageFailsBoot, InitHartBoot, AsideTable, Zenon
  <1>2. ASSUME NEW h \in Harts,
               SwitchToKernel(h) \/ Bootstrap(h) \/ StartHart(h) \/ StartDone(h)
                 \/ Main(h) \/ IsrEnter(h) \/ IsrExit(h)
        PROVE  HartsInv' /\ TableInv'
    BY <1>2, SwitchToKernelBoot, BootstrapBoot, StartHartBoot, StartDoneBoot,
       MainBoot, IsrEnterBoot, IsrExitBoot, AsideTable, Zenon
  <1>3. CASE EnterScheduler
    BY <1>3, EnterSchedulerBoot, AsideTable, Zenon
  <1>4. CASE Alloc
    BY <1>4, AllocBoot, AllocTable, Zenon
  <1>5. CASE AllocReturn
    BY <1>5, AllocReturnBoot, AllocReturnTable, Zenon
  <1>6. CASE Create
    BY <1>6, CreateBoot, CreateTable, Zenon
  <1>7. CASE SchedStep
    BY <1>7, SchedStepBoot, SchedTable, Zenon
  <1>8. CASE UNCHANGED allVars
    <2>1. HartsInv'
      BY <1>8, Zenon DEF allVars, stages, HartsInv, BootTypeOK, OneBoots, Hart0, Behind,
         Quiet, InScheduler
    <2>2. Aside
      BY <1>8, Zenon DEF allVars, Aside, InScheduler
    <2> QED
      BY <2>1, <2>2, AsideTable, Zenon
  <1> QED
    BY <1>1, <1>2, <1>3, <1>4, <1>5, <1>6, <1>7, <1>8, Zenon
    DEF BootNext, BootStep

LEMMA AlwaysBoot == BootSpec => []BootInv
  BY InitBoot, NextBoot, PTL DEF BootSpec

\* Nothing is used before it is set up, whichever hart the firmware starts and
\* however the harts' stages interleave (init/mod.rs, init/hart.rs).
THEOREM SetUpBeforeUse == BootSpec => []ReadyBeforeUse
  <1>1. BootInv => ReadyBeforeUse
    BY Zenon DEF BootInv, HartsInv, Behind, OneBoots, Late, ReadyBeforeUse
  <1> QED
    BY <1>1, AlwaysBoot, PTL

\* A handler waits for a lock of the code under it only in create's alloc.
THEOREM OneStuckPlace == BootSpec => []StuckOnlyInAlloc
  <1>1. BootInv => StuckOnlyInAlloc
    BY HartAssumption
    DEF BootInv, HartsInv, BootTypeOK, Hart0, Quiet, InScheduler, Stuck, LockFree,
        StuckOnlyInAlloc
  <1> QED
    BY <1>1, AlwaysBoot, PTL

\* No two harts print outside handlers at a time, for any number of harts.
THEOREM PrintsExclude == BootSpec => []LinesWhole
  <1>1. BootInv => LinesWhole
    BY Zenon DEF BootInv, HartsInv, Quiet, LinesWhole
  <1> QED
    BY <1>1, AlwaysBoot, PTL

\* nest_count is above 0 while any trap of a process is in progress, although
\* it is one counter for all of them and exit never decrements it.
THEOREM TrapsCounted == BootSpec => []NestCovers
  <1>1. BootInv => NestCovers
    <2> SUFFICES ASSUME BootInv,
                        \/ mode \in {"wait", "sleep", "hung"}
                        \/ \E s \in Slots : state[s] = "Runnable" /\ cont[s] = "yield"
                 PROVE  nest[0] > 0
      BY Zenon DEF NestCovers
    <2>1. mode \in {"wait", "sleep", "hung"} \/ \E s \in Suspended : TRUE
      BY Zenon DEF Suspended
    <2>2. InScheduler
      BY <2>1, Zenon DEF BootInv, TableInv
    <2>3. Cover /\ nest[0] \in Nat
      BY <2>2, HartAssumption, Zenon DEF BootInv, TableInv, HartsInv, BootTypeOK
    <2> QED
      BY <2>1, <2>3, Counts DEF Cover
  <1> QED
    BY <1>1, AlwaysBoot, PTL

\* What is proved of Sched holds of the machine from create on: bring-up
\* ends in the state that Sched begins in, and no other hart disturbs it.
THEOREM BootedScheduler == BootSpec => [](pc[0] = "sched" => IInv)
  BY AlwaysBoot, PTL DEF BootInv, TableInv
=============================================================================
