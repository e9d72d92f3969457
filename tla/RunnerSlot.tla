----------------------------- MODULE RunnerSlot -----------------------------
(***************************************************************************)
(* What the runner registry of services/lab_runner.py promises for one     *)
(* lab: a slot that one LabRunner at a time acquires, starts in, and       *)
(* leaves when its loop is over.  A restart of the process empties it.     *)
(***************************************************************************)
CONSTANTS Runner, NoRunner

VARIABLES
  holder,   \* the runner the slot belongs to
  active    \* has the holder started its loop?

slotVars == <<holder, active>>

SlotInit == holder = NoRunner /\ active = FALSE

Acquire(r) ==
  /\ holder = NoRunner
  /\ holder' = r
  /\ active' = FALSE

Start ==
  /\ holder # NoRunner
  /\ ~active
  /\ active' = TRUE
  /\ UNCHANGED holder

Leave ==
  /\ active
  /\ holder' = NoRunner
  /\ active' = FALSE

Reboot ==
  /\ holder' = NoRunner
  /\ active' = FALSE

SlotNext == (\E r \in Runner : Acquire(r)) \/ Start \/ Leave \/ Reboot

SlotSpec == SlotInit /\ [][SlotNext]_slotVars

=============================================================================
