---------------------------- MODULE SnipeStore -----------------------------
(***************************************************************************)
(* The persisted snipe and its in-memory copy, and the one gate through    *)
(* which both change: SnipeState.Transition (internal/engine/state.go) over *)
(* SQLiteStore.TransitionSnipe (internal/store/sqlite.go).                 *)
(***************************************************************************)
EXTENDS Naturals, Sequences, SnipeStatus

CONSTANTS
  MaxSlots,   \* most slots one Find returns
  Faults      \* what the environment may do, a subset of AllFaults

(* cancel: SIGINT or SIGTERM.  blocked: Resy rate-limits or challenges.    *)
(* store: a database write fails.  crash: the process dies.  lost: an      *)
(* answer of Resy never arrives.                                           *)
AllFaults == {"cancel", "blocked", "store", "crash", "lost"}

ASSUME MaxSlotsAssumption == MaxSlots \in Nat \ {0}
ASSUME FaultsAssumption == Faults \subseteq AllFaults

(* A slot is its position in the ranked list, and a confirmation is named  *)
(* by the slot it confirms.                                                *)
Slots == 1..MaxSlots
NoResult == 0
SnipeRows == [status : AllStatuses, result : Slots \cup {NoResult}]

VARIABLES
  row,       \* the snipes row: status and result_json
  log,       \* the types of the snipe's events rows, oldest first
  mem,       \* SnipeState.inner of the running engine
  ctxDone    \* the invocation's root context is cancelled

dbVars == <<row, log>>

(* The transaction commits: row and event change together, and only then   *)
(* is the candidate, a clone of m with the new status, swapped in.         *)
Commits(m, to, event) ==
  /\ CanTransition(m.status, to)
  /\ ~ctxDone
  /\ row' = [m EXCEPT !.status = to]
  /\ log' = Append(log, event)
  /\ mem' = [m EXCEPT !.status = to]

(* Mutant: the candidate is swapped in before the transaction ends.        *)
RejectsAfterSwap(m, to) ==
  /\ \/ ~CanTransition(m.status, to)
     \/ ctxDone
     \/ "store" \in Faults
  /\ mem' = [m EXCEPT !.status = to]
  /\ UNCHANGED dbVars

(* The table refuses the change, or the transaction cannot begin or commit *)
(* (always so once its context is cancelled): nothing is written and the   *)
(* in-memory state stays as it was, m.                                     *)
Rejects(m, to) ==
  /\ \/ ~CanTransition(m.status, to)
     \/ ctxDone
     \/ "store" \in Faults
  /\ mem' = m
  /\ UNCHANGED dbVars
=============================================================================
