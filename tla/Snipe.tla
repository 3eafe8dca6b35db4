------------------------------- MODULE Snipe -------------------------------
(***************************************************************************)
(* What the database promises about one snipe, whoever drives it and       *)
(* however often processes die: the row appears once, its "submitted"      *)
(* event follows (the two writes of Engine.Submit are not one              *)
(* transaction), and from then on status and audit log move together along *)
(* the transition table.  A confirmation is recorded when, and only when,  *)
(* the snipe becomes booked.                                               *)
(***************************************************************************)
EXTENDS Naturals, Sequences, SnipeStatus

CONSTANTS Results, NoResult

VARIABLES status, log, result
vars == <<status, log, result>>

(* The event types that record the arrival at a status.                    *)
EventsOf(to) ==
  CASE to = "scheduled"   -> {"scheduled"}
    [] to = "discovering" -> {"discovered"}
    [] to = "awaiting"    -> {"released", "found"}
    [] to = "finding"     -> {"found"}
    [] to = "booking"     -> {"book_attempted"}
    [] to = "booked"      -> {"booked"}
    [] to = "failed"      -> {"failed"}
    [] to = "canceled"    -> {"canceled"}
    [] to = "expired"     -> {"expired"}
    [] OTHER              -> {}

Init == status = "none" /\ log = <<>> /\ result = NoResult

Create ==
  /\ status = "none"
  /\ status' = "submitted"
  /\ UNCHANGED <<log, result>>

Announce ==
  /\ status = "submitted" /\ log = <<>>
  /\ log' = <<"submitted">>
  /\ UNCHANGED <<status, result>>

Move(to, event) ==
  /\ status # "none" /\ log # <<>>
  /\ CanTransition(status, to)
  /\ status' = to
  /\ log' = Append(log, event)
  /\ IF to = "booked" THEN result' \in Results ELSE UNCHANGED result

Next == \/ Create
        \/ Announce
        \/ \E to \in AllStatuses : \E event \in EventsOf(to) : Move(to, event)

Spec == Init /\ [][Next]_vars
=============================================================================
