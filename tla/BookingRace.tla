---------------------------- MODULE BookingRace ----------------------------
(***************************************************************************)
(* Engine.RunBookingRace (internal/engine/race.go): from "awaiting" the    *)
(* race finds the slots, fetches a book token for each in rank order       *)
(* (PrepareSlot, one at a time) and confirms each prepared slot in a       *)
(* goroutine of its own.  The first confirmation cancels its siblings.     *)
(* The caller's context is cancelled by SIGINT/SIGTERM at any moment, the  *)
(* store may refuse a write, the reservation service may answer late or    *)
(* never, and the process may die between any two steps.                   *)
(***************************************************************************)
EXTENDS SnipeStore, FiniteSets

VARIABLES
  pc,        \* where RunBookingRace is
  raceDone,  \* raceCtx is cancelled
  found,     \* len(ranked)
  next,      \* the loop's slot, i + 1 in the code
  attempt,   \* the confirming goroutine of each slot
  post,      \* each slot's POST /3/book as the reservation service sees it
  results,   \* the buffered results channel
  ret        \* what RunBookingRace returned: "none" until it has

vars == <<row, log, mem, pc, ctxDone, raceDone, found, next, attempt, post,
          results, ret>>

Running  == {"ready", "sent", "confirmed", "pushed"}
Finished == {"won", "dropped", "failed"}
Reasons  == {"find_failed", "inventory_empty", "prepare_blocked",
             "all_attempts_failed"}
Returns  == {"none", "nil", "enter_finding", "enter_booking", "booked_unsaved"} \cup Reasons

TypeOK ==
  /\ row \in SnipeRows
  /\ mem \in SnipeRows
  /\ log \in Seq(AllEventTypes)
  /\ pc \in {"enter", "find", "book", "loop", "prepare", "floor", "wait",
             "settle", "fail", "leave", "returned", "crashed"}
  /\ ctxDone \in BOOLEAN
  /\ raceDone \in BOOLEAN
  /\ found \in 0..MaxSlots
  /\ next \in 1..(MaxSlots + 1)
  /\ attempt \in [Slots -> {"none"} \cup Running \cup Finished]
  /\ post \in [Slots -> {"none", "pending", "booked", "refused"}]
  /\ results \in Seq(Slots)
  /\ ret \in Returns

(* The race's own variables as it is called.                               *)
RaceInit ==
  /\ pc = "enter"
  /\ raceDone = FALSE
  /\ found = 0 /\ next = 1
  /\ attempt = [s \in Slots |-> "none"]
  /\ post = [s \in Slots |-> "none"]
  /\ results = <<>>
  /\ ret = "none"

(* The race is called on a snipe that one of the three release strategies  *)
(* has brought to "awaiting".                                              *)
Init ==
  /\ row = [status |-> "awaiting", result |-> NoResult]
  /\ mem = row
  /\ log \in {<<"submitted", "scheduled", "released">>,
              <<"submitted", "scheduled", "discovered", "released">>,
              <<"submitted", "scheduled", "found">>}
  /\ ctxDone = FALSE
  /\ RaceInit

----------------------------------------------------------------------------
(* Mutant: raceCtx is not cancelled by the return.                         *)
ReturnNoCancel(value) ==
  /\ pc' = "returned"
  /\ ret' = value
  /\ UNCHANGED raceDone

(* The deferred cancel() of raceCtx runs on every return.                  *)
Return(value) ==
  /\ pc' = "returned"
  /\ ret' = value
  /\ raceDone' = TRUE

(* Mutant: the event of another transition.                                *)
EnterWrongEvent ==
  /\ pc = "enter"
  /\ \/ /\ Commits(mem, "finding", "book_attempted")
        /\ pc' = "find"
        /\ UNCHANGED <<raceDone, ret>>
     \/ Rejects(mem, "finding") /\ Return("enter_finding")
  /\ UNCHANGED <<ctxDone, found, next, attempt, post, results>>

(* Awaiting -> Finding.                                                    *)
Enter ==
  /\ pc = "enter"
  /\ \/ Commits(mem, "finding", "found") /\ pc' = "find" /\ UNCHANGED <<raceDone, ret>>
     \/ Rejects(mem, "finding") /\ Return("enter_finding")
  /\ UNCHANGED <<ctxDone, found, next, attempt, post, results>>

(* Provider.Find: some slots, none, or an error (any call fails once the   *)
(* context is cancelled).  The slots are ranked at once.                   *)
Find ==
  /\ pc = "find"
  /\ \/ /\ ~ctxDone
        /\ found' \in Slots
        /\ pc' = "book"
        /\ UNCHANGED ret
     \/ /\ ret' \in {"find_failed"} \cup (IF ctxDone THEN {} ELSE {"inventory_empty"})
        /\ pc' = "fail"
        /\ UNCHANGED found
  /\ UNCHANGED <<row, log, mem, ctxDone, raceDone, next, attempt, post, results>>

(* Finding -> Booking.                                                     *)
EnterBooking ==
  /\ pc = "book"
  /\ \/ Commits(mem, "booking", "book_attempted") /\ pc' = "loop" /\ UNCHANGED <<raceDone, ret>>
     \/ Rejects(mem, "booking") /\ Return("enter_booking")
  /\ UNCHANGED <<ctxDone, found, next, attempt, post, results>>

(* The head of the loop over the ranked slots.                             *)
LoopHead ==
  /\ pc = "loop"
  /\ pc' = IF next > found \/ ctxDone \/ raceDone THEN "wait" ELSE "prepare"
  /\ UNCHANGED <<row, log, mem, ctxDone, raceDone, found, next, attempt, post,
                 results, ret>>

(* PrepareSlot succeeded: start the confirming goroutine, then pace the    *)
(* next call unless this was the last slot.                                *)
PrepareOk ==
  /\ pc = "prepare"
  /\ ~ctxDone
  /\ attempt' = [attempt EXCEPT ![next] = "ready"]
  /\ pc' = IF next < found THEN "floor" ELSE "loop"
  /\ next' = IF next < found THEN next ELSE next + 1
  /\ UNCHANGED <<row, log, mem, ctxDone, raceDone, found, post, results, ret>>

(* PrepareSlot failed for this slot only: go straight to the next one.     *)
PrepareErr ==
  /\ pc = "prepare"
  /\ pc' = "loop"
  /\ next' = next + 1
  /\ UNCHANGED <<row, log, mem, ctxDone, raceDone, found, attempt, post,
                 results, ret>>

(* Rate-limited or challenged: give the snipe up without waiting for the   *)
(* goroutines already started.                                             *)
PrepareBlocked ==
  /\ pc = "prepare"
  /\ "blocked" \in Faults
  /\ ~ctxDone
  /\ pc' = "fail"
  /\ ret' = "prepare_blocked"
  /\ UNCHANGED <<row, log, mem, ctxDone, raceDone, found, next, attempt, post,
                 results>>

(* waitWithCtx for the PollFloor.                                          *)
Floor ==
  /\ pc = "floor"
  /\ \/ pc' = "loop" /\ next' = next + 1
     \/ ctxDone /\ pc' = "wait" /\ UNCHANGED next
  /\ UNCHANGED <<row, log, mem, ctxDone, raceDone, found, attempt, post,
                 results, ret>>

(* wg.Wait(): every goroutine started has exited.                          *)
Wait ==
  /\ pc = "wait"
  /\ \A s \in Slots : attempt[s] \notin Running
  /\ pc' = "settle"
  /\ UNCHANGED <<row, log, mem, ctxDone, raceDone, found, next, attempt, post,
                 results, ret>>

(* winner := <-results.  The result is set on the in-memory state before   *)
(* the transition to Booked is persisted.                                  *)
Settle ==
  /\ pc = "settle"
  /\ \/ /\ results = <<>>
        /\ ret' = "all_attempts_failed"
        /\ pc' = "fail"
        /\ UNCHANGED <<row, log, mem, raceDone>>
     \/ /\ results # <<>>
        /\ LET m == [mem EXCEPT !.result = Head(results)]
           IN  \/ Commits(m, "booked", "booked") /\ Return("nil")
               \/ Rejects(m, "booked") /\ Return("booked_unsaved")
  /\ UNCHANGED <<ctxDone, found, next, attempt, post, results>>

(* failWithReason: the reason is returned whether or not the transition to *)
(* Failed could be saved.                                                  *)
FailWithReason ==
  /\ pc = "fail"
  /\ Commits(mem, "failed", "failed") \/ Rejects(mem, "failed")
  /\ pc' = "leave"
  /\ UNCHANGED <<ctxDone, raceDone, found, next, attempt, post, results, ret>>

(* The return after it: a goroutine that a blocked PrepareSlot left behind *)
(* may have run in between.                                                *)
Leave ==
  /\ pc = "leave"
  /\ Return(ret)
  /\ UNCHANGED <<row, log, mem, ctxDone, found, next, attempt, post, results>>

----------------------------------------------------------------------------
(* The confirming goroutine of slot s.                                     *)

Alive == pc # "crashed"

(* ConfirmSlot under raceCtx: a cancelled context stops the request before *)
(* it is sent.                                                             *)
Confirm(s) ==
  /\ Alive
  /\ attempt[s] = "ready"
  /\ IF raceDone
       THEN attempt' = [attempt EXCEPT ![s] = "failed"] /\ UNCHANGED post
       ELSE /\ attempt' = [attempt EXCEPT ![s] = "sent"]
            /\ post' = [post EXCEPT ![s] = "pending"]
  /\ UNCHANGED <<row, log, mem, pc, ctxDone, raceDone, found, next, results, ret>>

(* Mutant: any answer counts as a confirmation.                            *)
ConfirmUnchecked(s) ==
  /\ Alive
  /\ attempt[s] = "sent"
  /\ post[s] \in {"booked", "refused"}
  /\ attempt' = [attempt EXCEPT ![s] = "confirmed"]
  /\ UNCHANGED <<row, log, mem, pc, ctxDone, raceDone, found, next, post, results, ret>>

(* The answer of the service arrives.                                      *)
ConfirmAnswered(s) ==
  /\ Alive
  /\ attempt[s] = "sent"
  /\ post[s] \in {"booked", "refused"}
  /\ attempt' = [attempt EXCEPT ![s] = IF post[s] = "booked" THEN "confirmed" ELSE "failed"]
  /\ UNCHANGED <<row, log, mem, pc, ctxDone, raceDone, found, next, post, results, ret>>

(* The call ends without an answer: a sibling won and cancelled raceCtx,   *)
(* or the connection broke or the 30s deadline passed ("lost").            *)
ConfirmGivenUp(s) ==
  /\ Alive
  /\ attempt[s] = "sent"
  /\ raceDone \/ "lost" \in Faults
  /\ attempt' = [attempt EXCEPT ![s] = "failed"]
  /\ UNCHANGED <<row, log, mem, pc, ctxDone, raceDone, found, next, post, results, ret>>

(* Mutant: a send with a default case on a channel nobody reads yet.       *)
DeliverOrDrop(s) ==
  /\ Alive
  /\ attempt[s] = "confirmed"
  /\ attempt' = [attempt EXCEPT ![s] = "dropped"]
  /\ UNCHANGED <<row, log, mem, pc, ctxDone, raceDone, found, next, post, results, ret>>

(* Mutant: a channel of capacity one and no way out of the send.           *)
DeliverBlocking(s) ==
  /\ Alive
  /\ attempt[s] = "confirmed"
  /\ results = <<>>
  /\ results' = Append(results, s)
  /\ attempt' = [attempt EXCEPT ![s] = "pushed"]
  /\ UNCHANGED <<row, log, mem, pc, ctxDone, raceDone, found, next, post, ret>>

(* select: hand the confirmation over, or drop it if raceCtx is done; when *)
(* both are ready either may be taken.                                     *)
Deliver(s) ==
  /\ Alive
  /\ attempt[s] = "confirmed"
  /\ \/ /\ results' = Append(results, s)
        /\ attempt' = [attempt EXCEPT ![s] = "pushed"]
     \/ /\ raceDone
        /\ attempt' = [attempt EXCEPT ![s] = "dropped"]
        /\ UNCHANGED results
  /\ UNCHANGED <<row, log, mem, pc, ctxDone, raceDone, found, next, post, ret>>

(* Mutant: the winner leaves its siblings alone.                           *)
CancelNoSiblings(s) ==
  /\ Alive
  /\ attempt[s] = "pushed"
  /\ attempt' = [attempt EXCEPT ![s] = "won"]
  /\ UNCHANGED <<row, log, mem, pc, ctxDone, raceDone, found, next, post, results, ret>>

(* cancel() after the send.                                                *)
CancelSiblings(s) ==
  /\ Alive
  /\ attempt[s] = "pushed"
  /\ attempt' = [attempt EXCEPT ![s] = "won"]
  /\ raceDone' = TRUE
  /\ UNCHANGED <<row, log, mem, pc, ctxDone, found, next, post, results, ret>>

----------------------------------------------------------------------------
(* The environment.                                                        *)

(* External: the reservation service takes a POST it has received to its   *)
(* end, whether or not the client is still there.                          *)
Serve(s) ==
  /\ post[s] = "pending"
  /\ post' \in {[post EXCEPT ![s] = "booked"], [post EXCEPT ![s] = "refused"]}
  /\ UNCHANGED <<row, log, mem, pc, ctxDone, raceDone, found, next, attempt,
                 results, ret>>

(* SIGINT or SIGTERM (cmd/resy-snipe/snipe.go, installSignalCancel).       *)
Shutdown ==
  /\ "cancel" \in Faults
  /\ Alive
  /\ ~ctxDone
  /\ ctxDone' = TRUE
  /\ UNCHANGED <<row, log, mem, pc, raceDone, found, next, attempt, post,
                 results, ret>>

(* The process dies, or exits after the race returned: only the database   *)
(* and the reservation service keep their state.                           *)
Crash ==
  /\ "crash" \in Faults
  /\ Alive
  /\ pc' = "crashed"
  /\ UNCHANGED <<row, log, mem, ctxDone, raceDone, found, next, attempt, post,
                 results, ret>>

----------------------------------------------------------------------------
Main == \/ Enter \/ Find \/ EnterBooking \/ LoopHead \/ PrepareOk \/ PrepareErr
        \/ PrepareBlocked \/ Floor \/ Wait \/ Settle \/ FailWithReason \/ Leave

Goroutine(s) == \/ Confirm(s) \/ ConfirmAnswered(s) \/ ConfirmGivenUp(s)
                \/ Deliver(s) \/ CancelSiblings(s)

Next == \/ Main
        \/ \E s \in Slots : Goroutine(s) \/ Serve(s)
        \/ Shutdown
        \/ Crash

(* The Go scheduler runs every runnable goroutine, and every HTTP call     *)
(* ends: PrepareSlot and ConfirmSlot run under a 30s deadline              *)
(* (internal/resy/client.go), so a POST that the service never answers is  *)
(* given up.  Nothing is assumed of the service.                           *)
Fairness == WF_vars(Main) /\ \A s \in Slots : WF_vars(Goroutine(s))

Spec == Init /\ [][Next]_vars
FairSpec == Spec /\ Fairness

----------------------------------------------------------------------------
Returned == pc = "returned"
Won(s) == attempt[s] \in {"pushed", "won"}

(* A snipe recorded as booked carries the confirmation of a slot whose     *)
(* POST /3/book the service accepted, and of the goroutine that handed its *)
(* confirmation over first, however the answers, the siblings' cancels and *)
(* a shutdown interleave (race.go, winner := <-results).                   *)
BookedIsReal ==
  row.status = "booked" =>
    /\ row.result \in Slots
    /\ post[row.result] = "booked"
    /\ results # <<>> /\ Head(results) = row.result

(* "all_attempts_failed" is the truth: when the race reports it, no        *)
(* goroutine ever got a confirmation, so none was lost between ConfirmSlot, *)
(* the select on raceCtx and the buffered channel (race.go, the goroutine  *)
(* body and close(results)).                                               *)
NoConfirmationLost ==
  ret = "all_attempts_failed" =>
    \A s \in Slots : attempt[s] \in {"none", "failed"}

(* Once RunBookingRace has returned no POST /3/book leaves the process.    *)
(* race.go:30 says that no goroutine outlives it, but a blocked PrepareSlot *)
(* returns without wg.Wait: the goroutines left behind find raceCtx        *)
(* cancelled, and only what they had sent before can still book            *)
(* (race.go:89, 109-112, the goroutine body).                              *)
NoPostAfterReturn ==
  [][\A s \in Slots : post[s] = "none" /\ post'[s] = "pending" => ~Returned]_vars

(* Once the winner has cancelled its siblings no further POST /3/book      *)
(* leaves the process, not even from a slot whose PrepareSlot was still    *)
(* under way (race.go, cancel() and ConfirmSlot under raceCtx): a second   *)
(* booking can only come from a POST sent before.                          *)
NoBookingAfterWin ==
  [][\A s \in Slots :
       post[s] = "none" /\ post'[s] = "pending" => \A t \in Slots : attempt[t] # "won"]_vars

(* Every step of the race is, for the database, a step of Snipe or none:   *)
(* status and audit log move together, along the table, whatever the       *)
(* goroutines do and whichever writes fail, and the result is written with *)
(* the move to booked only (I-1, I-2).                                     *)
Abstract == INSTANCE Snipe WITH
              Results <- Slots, status <- row.status, result <- row.result
FollowsSnipe == [][Abstract!Next]_(Abstract!vars)

(* The race always ends, and with it every goroutine, also one that the    *)
(* return did not wait for: none is stuck on the results channel or in a   *)
(* call nobody cancels, and wg.Wait returns (race.go).                     *)
RaceEnds == <>(pc = "crashed" \/ (Returned /\ \A s \in Slots : attempt[s] \notin Running))
=============================================================================
