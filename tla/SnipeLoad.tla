----------------------------- MODULE SnipeLoad -----------------------------
(***************************************************************************)
(* How a persisted status is rebuilt when a snipe row is loaded            *)
(* (internal/store/sqlite.go: scanSnipeRow, forceStatus, statusPaths).     *)
(***************************************************************************)
EXTENDS Naturals, Sequences, SnipeStatus

(* Loading a row: the state starts in "submitted" and is walked along a    *)
(* known path to the persisted status, because the status has no setter.   *)

statusPaths(target) ==
  CASE target = "submitted"   -> << <<"submitted">> >>
    [] target = "scheduled"   -> << <<"submitted", "scheduled">> >>
    [] target = "discovering" -> << <<"submitted", "discovering">>,
                                    <<"submitted", "scheduled", "discovering">> >>
    [] target = "awaiting"    -> << <<"submitted", "scheduled", "awaiting">>,
                                    <<"submitted", "discovering", "awaiting">> >>
    [] target = "finding"     -> << <<"submitted", "scheduled", "awaiting", "finding">> >>
    [] target = "booking"     -> << <<"submitted", "scheduled", "awaiting", "finding",
                                      "booking">> >>
    [] target = "booked"      -> << <<"submitted", "scheduled", "awaiting", "finding",
                                      "booking", "booked">> >>
    [] target = "failed"      -> << <<"submitted", "failed">> >>
    [] target = "canceled"    -> << <<"submitted", "canceled">> >>
    [] target = "expired"     -> << <<"submitted", "scheduled", "expired">> >>

(* The moves of a path from its k-th status up to its m-th are all allowed. *)
legal(path, k, m) ==
  \A i \in k..(m - 1) : path[i + 1] = path[i] \/ CanTransition(path[i], path[i + 1])

(* domain.SnipeState.Transition along a path from its k-th status on: the  *)
(* walk stops at the first refusal, and leaves the status there.           *)
walk(path, k) ==
  LET n == CHOOSE m \in k..Len(path) :
             legal(path, k, m) /\ (m = Len(path) \/ ~legal(path, k, m + 1))
  IN  [at |-> path[n], ok |-> n = Len(path)]

(* A path is walked from the first place that has the current status.      *)
tryPath(target, w, path) ==
  IF \A k \in DOMAIN path : path[k] # w.at THEN w
  ELSE LET k == CHOOSE j \in DOMAIN path :
                  path[j] = w.at /\ \A h \in 1..(j-1) : path[h] # w.at
           r == walk(path, k)
       IN  [at |-> r.at, ok |-> r.ok /\ r.at = target]

(* The first path that leads to the target; no status has more than two.   *)
forceStatus(target) ==
  LET start == [at |-> "submitted", ok |-> target = "submitted"]
      paths == statusPaths(target)
      first == tryPath(target, start, paths[1])
  IN  IF start.ok THEN start
      ELSE IF first.ok \/ Len(paths) = 1 THEN first
           ELSE tryPath(target, first, paths[2])

(* Every status that a row can have is rebuilt (sqlite.go:219-262): a path *)
(* of statusPaths is legal in the transition table to its end.             *)
ASSUME EveryStatusLoads == \A s \in AllStatuses : forceStatus(s) = [at |-> s, ok |-> TRUE]
=============================================================================
