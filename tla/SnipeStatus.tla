---------------------------- MODULE SnipeStatus ----------------------------
(***************************************************************************)
(* The closed set of snipe statuses, the audit-event types and the table   *)
(* of legal status changes (internal/domain/status.go, event.go).          *)
(***************************************************************************)
AllStatuses ==
  {"submitted", "scheduled", "discovering", "awaiting", "finding", "booking",
   "booked", "failed", "canceled", "expired"}

IsTerminal(s) == s \in {"booked", "failed", "canceled", "expired"}

AllEventTypes ==
  {"submitted", "scheduled", "discovered", "released", "found",
   "book_attempted", "booked", "failed", "canceled", "expired"}

(* The out-set of every status; terminal statuses have none.               *)
allowedTransitions ==
  [s \in AllStatuses |->
     CASE s = "submitted"   -> {"scheduled", "discovering", "canceled", "failed"}
       [] s = "scheduled"   -> {"awaiting", "discovering", "canceled", "failed", "expired"}
       [] s = "discovering" -> {"awaiting", "canceled", "failed", "expired"}
       [] s = "awaiting"    -> {"finding", "canceled", "failed", "expired"}
       [] s = "finding"     -> {"booking", "awaiting", "canceled", "failed", "expired"}
       [] s = "booking"     -> {"booked", "finding", "canceled", "failed"}
       [] OTHER             -> {}]

CanTransition(from, to) == to \in allowedTransitions[from]

=============================================================================
