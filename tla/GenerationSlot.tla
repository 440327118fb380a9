--------------------------- MODULE GenerationSlot ---------------------------
(***************************************************************************)
(* What ModelRuntime (apps/core/src/lilavel_core/runtime.py) promises the  *)
(* code above it: one generation at a time, each with a handle that        *)
(* settles once.  Threads, framing, epochs and the sidecar process are     *)
(* left out; every way a handle or the slot can settle is kept.            *)
(*                                                                         *)
(* Actions leave their clients' variables alone: a client conjoins them    *)
(* with its own step.                                                      *)
(***************************************************************************)
EXTENDS Integers

CONSTANTS Runs,  \* the requests ever made; a generation is named by its request
          None   \* no generation is active

ASSUME SlotAssumption == None \notin Runs

VARIABLES
  usable,      \* admission is open: neither failed nor shutting down
  slot,        \* generation of _active
  cancelling,  \* _active.phase is cancelling
  handle       \* how the handle of each generation settled

slotVars == <<usable, slot, cancelling, handle>>

Terminal == {"completed", "cancelled", "failed"}

SlotTypeOK ==
  /\ usable \in BOOLEAN /\ cancelling \in BOOLEAN
  /\ slot \in Runs \cup {None}
  /\ handle \in [Runs -> Terminal \cup {"none", "open"}]

SlotInit ==
  /\ usable = TRUE /\ slot = None /\ cancelling = FALSE
  /\ handle = [g \in Runs |-> "none"]

\* A handle settles once: complete() and fail() of a settled one do nothing.
Settled(g, result) ==
  [handle EXCEPT ![g] = IF @ \in Terminal THEN @ ELSE result]

Vacate(result) ==
  /\ handle' = Settled(slot, result)
  /\ slot' = None /\ cancelling' = FALSE

-----------------------------------------------------------------------------
(* Commands. *)

Refuses == ~usable \/ slot # None

Generate(g) ==
  /\ usable /\ slot = None /\ handle[g] = "none"
  /\ slot' = g /\ handle' = [handle EXCEPT ![g] = "open"]
  /\ UNCHANGED <<usable, cancelling>>

\* The request cannot be encoded, or the pipe breaks and fails the runtime.
GenerateRaises(g) ==
  /\ usable /\ slot = None /\ handle[g] = "none"
  /\ usable' \in BOOLEAN
  /\ handle' = [handle EXCEPT ![g] = "failed"]
  /\ UNCHANGED <<slot, cancelling>>

\* cancel() marks the generation and then writes to the pipe unlocked; one that
\* is not active, or is being cancelled already, is answered at once.
CancelMarksAny(g) == handle[g] # "none" /\ ~cancelling
CancelMarks(g) == slot = g /\ ~cancelling

CancelTakes(g) ==
  /\ CancelMarks(g)
  /\ cancelling' = TRUE
  /\ UNCHANGED <<usable, slot, handle>>

\* The write fails: so does the runtime, and the generation if still active.
CancelRaises(g) ==
  /\ usable' = FALSE
  /\ IF slot # None THEN Vacate("failed") ELSE UNCHANGED <<slot, cancelling, handle>>

-----------------------------------------------------------------------------
(* The sidecar and the watchdog. *)

Terminates == slot # None /\ \E result \in Terminal : Vacate(result) /\ UNCHANGED usable

\* The handle fails at once; the generation stays until its cancellation settles.
OutputLimit ==
  /\ slot # None /\ ~cancelling
  /\ cancelling' = TRUE /\ handle' = Settled(slot, "failed")
  /\ UNCHANGED <<usable, slot>>

\* Crash, protocol violation, queue overflow, unconfirmed cleanup, watchdog.
RuntimeFails ==
  /\ usable \/ slot # None
  /\ usable' = FALSE
  /\ IF slot # None THEN Vacate("failed") ELSE UNCHANGED <<slot, cancelling, handle>>

\* shutdown() closes admission and cancels what is active.
ShutdownBegins ==
  /\ usable /\ usable' = FALSE
  /\ cancelling' = (slot # None)
  /\ UNCHANGED <<slot, handle>>

\* A cancelled generation settles: the watchdog fails the runtime otherwise.
CancellationEnds == cancelling /\ (Terminates \/ RuntimeFails)

SlotStep == Terminates \/ OutputLimit \/ RuntimeFails \/ ShutdownBegins

\* The slot on its own, for the runtime that implements it.
SlotNext ==
  \/ \E g \in Runs : Generate(g) \/ GenerateRaises(g) \/ CancelTakes(g) \/ CancelRaises(g)
  \/ SlotStep

SlotSpec == SlotInit /\ [][SlotNext]_slotVars
=============================================================================
