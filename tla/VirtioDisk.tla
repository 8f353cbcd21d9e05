---------------------------- MODULE VirtioDisk ----------------------------
(***************************************************************************)
(* The block driver (drivers/virtio/disk.rs): rw on one hart, the disk     *)
(* device, and the interrupt handler on any hart.                          *)
(*                                                                         *)
(* rw fills the one descriptor chain, notifies the device, marks the       *)
(* status byte "in progress" and polls it.  The handler only acknowledges  *)
(* the interrupt, under the DISK lock, which rw holds while it submits.    *)
(* The device works beside the harts.  DISK_STATE is taken by rw alone, so *)
(* it needs no variable.  How the device and the interrupt controller      *)
(* behave is taken from how the driver uses them.                          *)
(***************************************************************************)
EXTENDS Naturals

CONSTANTS
  Harts,      \* harts that take external interrupts
  Me,         \* the hart that calls rw
  BlockNos,
  Contents    \* contents of a block or of a buffer

ASSUME VirtioAssumption == Me \in Harts

NoHart == "none"
ASSUME NoHartAssumption == NoHart \notin Harts

VARIABLES
  pc,       \* rw: idle, want (DISK), notified, poll
  sie,      \* sstatus.SIE of hart Me
  saved,    \* sie_enabled, saved by rw
  req,      \* the request in the descriptor chain
  buf,      \* the caller's buffer
  status,   \* the status byte: 255 (0xFF), or 0 for success, 1 for an error
  dev,      \* device: idle, busy, or moved (data transferred, status not yet)
  owed,     \* the device still has to raise the interrupt for a completion
  stored,   \* what the device stores
  irq,      \* VIRTIO_MMIO_INTERRUPT_STATUS
  claimed,  \* hart that has claimed the interrupt from the PLIC, or NoHart
  lock      \* DISK: "free", "rw", or "isr" while the claiming hart holds it

rwVars == <<pc, sie, saved, req, buf, status, dev, owed, stored, irq,
            claimed, lock>>

Request == [block : BlockNos, write : BOOLEAN]

RwTypeOK ==
  /\ pc \in {"idle", "want", "notified", "poll"}
  /\ sie \in BOOLEAN /\ saved \in BOOLEAN
  /\ req \in Request
  /\ buf \in Contents
  /\ status \in {0, 1, 255}
  /\ dev \in {"idle", "busy", "moved"} /\ owed \in BOOLEAN
  /\ stored \in [BlockNos -> Contents]
  /\ irq \in BOOLEAN
  /\ claimed \in Harts \cup {NoHart}
  /\ lock \in {"free", "rw", "isr"}

\* init has set the queue up; no request has been made.
RwInit ==
  /\ pc = "idle" /\ sie = TRUE /\ saved = TRUE
  /\ req \in Request /\ buf \in Contents
  /\ status = 0
  /\ dev = "idle" /\ owed = FALSE
  /\ stored \in [BlockNos -> Contents]
  /\ irq = FALSE /\ claimed = NoHart /\ lock = "free"

-----------------------------------------------------------------------------
(* rw.  Its hart runs it only while no handler runs there.  Definitions    *)
(* whose names start with Bug are never used: each is a change a           *)
(* maintainer might make to the definition below it.                       *)

Undisturbed == claimed # Me

BugEnter(b, w, v, s) ==
  /\ pc = "idle" /\ Undisturbed
  /\ pc' = "want"
  /\ saved' = s /\ sie' = s
  /\ req' = [block |-> b, write |-> w] /\ buf' = v
  /\ UNCHANGED <<status, dev, owed, stored, irq, claimed, lock>>

\* rw(buf, blockno, write), called with interrupts on or off; they are off from
\* here on.
Enter(b, w, v, s) ==
  /\ pc = "idle" /\ Undisturbed
  /\ pc' = "want"
  /\ saved' = s /\ sie' = FALSE
  /\ req' = [block |-> b, write |-> w] /\ buf' = v
  /\ UNCHANGED <<status, dev, owed, stored, irq, claimed, lock>>

\* DISK is acquired, the chain is filled, avail.idx is advanced and the device
\* notified.
Submit ==
  /\ pc = "want" /\ Undisturbed /\ lock = "free"
  /\ lock' = "rw"
  /\ dev' = "busy"
  /\ pc' = "notified"
  /\ UNCHANGED <<sie, saved, req, buf, status, owed, stored, irq, claimed>>

BugMark ==
  /\ pc = "notified" /\ Undisturbed
  /\ lock' = "free"
  /\ sie' = saved
  /\ pc' = "poll"
  /\ UNCHANGED <<saved, req, buf, status, dev, owed, stored, irq, claimed>>

\* Behind the notification: status = 0xFF, both locks are dropped, and
\* interrupts are as the caller had them.
Mark ==
  /\ pc = "notified" /\ Undisturbed
  /\ status' = 255
  /\ lock' = "free"
  /\ sie' = saved
  /\ pc' = "poll"
  /\ UNCHANGED <<saved, req, buf, dev, owed, stored, irq, claimed>>

\* The polling loop; when the byte has changed, rw returns.
Poll ==
  /\ pc = "poll" /\ Undisturbed
  /\ IF status # 255 THEN pc' = "idle" /\ sie' = TRUE
                     ELSE UNCHANGED <<pc, sie>>
  /\ UNCHANGED <<saved, req, buf, status, dev, owed, stored, irq, claimed, lock>>

-----------------------------------------------------------------------------
(* The device: moves the data, writes the status byte, then interrupts.   *)
(* It may be slow to do so.                                                *)

DevMove ==
  /\ dev = "busy"
  /\ IF req.write
       THEN stored' = [stored EXCEPT ![req.block] = buf] /\ UNCHANGED buf
       ELSE buf' = stored[req.block] /\ UNCHANGED stored
  /\ dev' = "moved"
  /\ UNCHANGED <<pc, sie, saved, req, status, owed, irq, claimed, lock>>

DevStatus ==
  /\ dev = "moved"
  /\ status' = 0
  /\ dev' = "idle" /\ owed' = TRUE
  /\ UNCHANGED <<pc, sie, saved, req, buf, stored, irq, claimed, lock>>

\* The device may also report an error; it has moved nothing then.
DevFail ==
  /\ dev = "busy"
  /\ status' = 1
  /\ dev' = "idle" /\ owed' = TRUE
  /\ UNCHANGED <<pc, sie, saved, req, buf, stored, irq, claimed, lock>>

DevRaise ==
  /\ owed
  /\ irq' = TRUE /\ owed' = FALSE
  /\ UNCHANGED <<pc, sie, saved, req, buf, status, dev, stored, claimed, lock>>

-----------------------------------------------------------------------------
(* external_handler and intr. *)

\* A hart with interrupts on traps and claims; for the others claim returns 0.
Claim(h) ==
  /\ irq /\ claimed = NoHart
  /\ h = Me => sie
  /\ claimed' = h
  /\ UNCHANGED <<pc, sie, saved, req, buf, status, dev, owed, stored, irq, lock>>

\* intr acquires DISK.
IsrLock ==
  /\ claimed # NoHart /\ lock = "free"
  /\ lock' = "isr"
  /\ UNCHANGED <<pc, sie, saved, req, buf, status, dev, owed, stored, irq, claimed>>

BugIsrDone ==
  /\ lock = "isr"
  /\ lock' = "free"
  /\ claimed' = NoHart
  /\ UNCHANGED <<pc, sie, saved, req, buf, status, dev, owed, stored, irq>>

\* intr acknowledges what it read and drops DISK; plic::complete.
IsrDone ==
  /\ lock = "isr"
  /\ irq' = FALSE
  /\ lock' = "free"
  /\ claimed' = NoHart
  /\ UNCHANGED <<pc, sie, saved, req, buf, status, dev, owed, stored>>

DevServe == DevMove \/ DevStatus \/ DevFail
Device == DevServe \/ DevRaise
Isr == (\E h \in Harts : Claim(h)) \/ IsrLock \/ IsrDone
RwStep == Submit \/ Mark \/ Poll
Call == \E b \in BlockNos, w \in BOOLEAN, v \in Contents, s \in BOOLEAN :
          Enter(b, w, v, s)

RwNext == Device \/ Isr \/ RwStep \/ Call

RwSpec == RwInit /\ [][RwNext]_rwVars

\* The device finishes what it was told, a pending interrupt is taken, and both
\* rw and the handler keep executing.  They compete for DISK, which each holds
\* for a few instructions only, so who spins on it gets it (strong fairness).
\* Nobody has to call rw.
FairRw ==
  /\ RwSpec
  /\ WF_rwVars(DevServe) /\ WF_rwVars(DevRaise)
  /\ WF_rwVars(\E h \in Harts : Claim(h)) /\ SF_rwVars(IsrLock) /\ WF_rwVars(IsrDone)
  /\ SF_rwVars(Submit) /\ WF_rwVars(Mark) /\ WF_rwVars(Poll)

-----------------------------------------------------------------------------
(* Properties. *)

\* "Disable interrupts to avoid deadlock with ISR": the handler never waits on
\* the hart whose rw holds DISK, under what it interrupted.
NoSelfDeadlock == ~ (claimed = Me /\ lock = "rw")

\* rw returns only once the device is finished with the chain, which the next
\* rw will overwrite; and then, unless the device reported an error (which rw
\* does not look at), a block read is in the buffer and a block written is on
\* the disk.
CompleteOnReturn ==
  [][pc = "poll" /\ pc' = "idle" =>
       dev = "idle" /\ (status = 0 => stored[req.block] = buf)]_rwVars

\* A completion interrupt is acknowledged in the end and the line goes down,
\* even while rw polls with interrupts off, since another hart can take it.
IrqServed == irq ~> ~irq

\* The byte rw polls says "In-progress" (disk.rs:110) while the request is in
\* progress and something else after it, so that rw returns.
RwReturns == pc = "notified" ~> pc = "idle"
=============================================================================
