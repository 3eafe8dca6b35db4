------------------------- MODULE BookingRaceProofs -------------------------
(***************************************************************************)
(* Proofs about RunBookingRace for every number of slots and every set of  *)
(* faults.                                                                 *)
(***************************************************************************)
EXTENDS BookingRace, TLAPS

Over == pc \in {"returned", "crashed"}
Confirmed(s) == attempt[s] \in {"confirmed", "pushed", "won", "dropped"}

(* Where the race is in its loop, and what it has not done yet.            *)
LoopInv ==
  /\ pc = "prepare" => next <= found
  /\ pc = "floor" => next < found
  /\ pc \notin {"fail", "leave", "returned", "crashed"} => ret = "none"
  /\ pc \in {"fail", "leave", "returned"} => ret # "none"
  /\ pc = "book" => next = 1 /\ found >= 1
  /\ pc \in {"enter", "find"} => next = 1

(* The slots the loop has not reached have no goroutine.                   *)
UntriedInv ==
  \A s \in Slots :
    /\ pc \in {"enter", "find", "book"} => attempt[s] = "none"
    /\ pc \in {"loop", "prepare"} /\ s >= next => attempt[s] = "none"
    /\ pc = "floor" /\ s > next => attempt[s] = "none"

(* A goroutine past ConfirmSlot holds a booking the service made.          *)
ConfirmedInv == \A s \in Slots : Confirmed(s) => post[s] = "booked"

(* The channel holds exactly the confirmations handed over.                *)
ChannelInv ==
  /\ \A k \in 1..Len(results) : Won(results[k])
  /\ results = <<>> => \A s \in Slots : ~Won(s)

(* raceCtx is cancelled by a winner or by the return, by every return, and *)
(* a confirmation is dropped only after that.                              *)
CancelInv ==
  /\ raceDone => results # <<>> \/ Over
  /\ pc = "returned" => raceDone
  /\ \A s \in Slots : attempt[s] = "dropped" => results # <<>> \/ Over
  /\ \A s \in Slots : attempt[s] = "won" => raceDone

(* After wg.Wait, and on every return but prepare_blocked, no goroutine is *)
(* left.                                                                   *)
WaitInv ==
  pc = "settle" \/ ret \notin {"none", "prepare_blocked"} =>
    \A s \in Slots : attempt[s] \notin Running

(* The in-memory snipe and the row.                                        *)
RowInv ==
  /\ mem.status = row.status
  /\ ~Over => mem.result = NoResult /\ row.result = NoResult
  /\ row.status = "booked" => Over
  /\ log # <<>>

(* What the return value says of the row and of the goroutines; it is not  *)
(* part of RaceInv, which does not need it.                                *)
OutcomeInv ==
  /\ pc \in {"loop", "prepare", "floor", "wait", "settle"} => mem.status = "booking"
  /\ ret \in {"enter_finding", "enter_booking", "find_failed", "inventory_empty"} =>
       \A s \in Slots : attempt[s] = "none"
  /\ ret = "nil" => row.status = "booked"

(* The inductive invariant.                                                *)
RaceInv ==
  /\ TypeOK
  /\ LoopInv
  /\ UntriedInv
  /\ ConfirmedInv
  /\ ChannelInv
  /\ CancelInv
  /\ WaitInv
  /\ RowInv
  /\ BookedIsReal
  /\ NoConfirmationLost

----------------------------------------------------------------------------
(* The invariant holds as RunBookingRace is called, on any snipe that was  *)
(* not booked before.                                                      *)
LEMMA CalledInv ==
  /\ row \in SnipeRows /\ mem = row /\ row.result = NoResult /\ row.status # "booked"
  /\ log \in Seq(AllEventTypes) /\ log # <<>>
  /\ ctxDone \in BOOLEAN
  /\ RaceInit
  => RaceInv /\ OutcomeInv
  <1>. SUFFICES ASSUME row \in SnipeRows, mem = row, row.result = NoResult, row.status # "booked",
                       log \in Seq(AllEventTypes), log # <<>>, ctxDone \in BOOLEAN, RaceInit
                PROVE  RaceInv /\ OutcomeInv
    OBVIOUS
  <1>3. pc = "enter" /\ ret = "none" /\ results = <<>> /\ raceDone = FALSE
    BY DEF RaceInit
  <1>4. next = 1 /\ found = 0
    BY DEF RaceInit
  <1>5. /\ attempt = [s \in Slots |-> "none"]
        /\ post = [s \in Slots |-> "none"]
    BY DEF RaceInit
  <1>6. next \in 1..(MaxSlots + 1) /\ found \in 0..MaxSlots
    BY <1>4, MaxSlotsAssumption
  <1>7. /\ attempt \in [Slots -> {"none"} \cup Running \cup Finished]
        /\ post \in [Slots -> {"none", "pending", "booked", "refused"}]
    BY <1>5
  <1>8. results \in Seq(Slots) /\ Len(results) = 0
    <2>1. results = <<>>
      BY <1>3
    <2>2. <<>> \in Seq(Slots) /\ Len(<<>>) = 0
      OBVIOUS
    <2>3. QED
      BY <2>1, <2>2, Zenon
  <1>9. TypeOK
    BY <1>3, <1>6, <1>7, <1>8 DEF TypeOK, Returns
  <1>10. LoopInv /\ UntriedInv /\ ConfirmedInv
    BY <1>3, <1>4, <1>5 DEF LoopInv, UntriedInv, ConfirmedInv, Confirmed
  <1>11. ChannelInv
    <2>1. 1..Len(results) = {}
      BY <1>8
    <2>2. QED
      BY <1>5, <2>1 DEF ChannelInv, Won
  <1>12. CancelInv /\ WaitInv
    BY <1>3, <1>5 DEF CancelInv, WaitInv, Over
  <1>13. RowInv /\ BookedIsReal /\ NoConfirmationLost /\ OutcomeInv
    BY <1>3 DEF RowInv, BookedIsReal, NoConfirmationLost, OutcomeInv
  <1>14. QED
    BY <1>9, <1>10, <1>11, <1>12, <1>13 DEF RaceInv

(* The invariant holds initially.                                          *)
LEMMA InitInv == Init => RaceInv
  <1>. SUFFICES ASSUME Init PROVE RaceInv
    OBVIOUS
  <1>1. row \in SnipeRows /\ mem = row /\ row.status = "awaiting" /\ row.result = NoResult
    BY DEF Init, SnipeRows, AllStatuses
  <1>2. log \in Seq(AllEventTypes) /\ log # <<>>
    <2>1. {"submitted", "scheduled", "released", "discovered", "found"} \subseteq AllEventTypes
      BY DEF AllEventTypes
    <2>2. CASE log = <<"submitted", "scheduled", "released">>
      BY <2>1, <2>2
    <2>3. CASE log = <<"submitted", "scheduled", "discovered", "released">>
      BY <2>1, <2>3
    <2>4. CASE log = <<"submitted", "scheduled", "found">>
      BY <2>1, <2>4
    <2>5. QED
      BY <2>2, <2>3, <2>4 DEF Init
  <1>3. RaceInit /\ ctxDone \in BOOLEAN
    BY DEF Init
  <1>4. QED
    BY <1>1, <1>2, <1>3, CalledInv

(* What a saved transition leaves behind.                                  *)
LEMMA CommitsFacts ==
  ASSUME NEW m \in SnipeRows, NEW to \in AllStatuses, NEW event \in AllEventTypes,
         log \in Seq(AllEventTypes), Commits(m, to, event)
  PROVE  /\ row' \in SnipeRows /\ row'.status = to /\ row'.result = m.result
         /\ mem' = row'
         /\ log' \in Seq(AllEventTypes) /\ log' # <<>>
  BY DEF Commits, SnipeRows

(* The loop's index and the number of ranked slots as numbers.             *)
LEMMA Bounds ==
  ASSUME TypeOK
  PROVE  /\ MaxSlots \in Nat /\ next \in Nat /\ found \in Nat
         /\ 1 <= MaxSlots /\ 1 <= next /\ next <= MaxSlots + 1 /\ found <= MaxSlots
  BY MaxSlotsAssumption DEF TypeOK

(* A slot is a rank between 1 and MaxSlots.                                *)
LEMMA SlotBounds ==
  ASSUME NEW s \in Slots
  PROVE  s \in Nat /\ 1 <= s /\ s <= MaxSlots
  BY MaxSlotsAssumption DEF Slots

(* Awaiting -> Finding, saved or refused (race.go, first transition).      *)
LEMMA EnterKeeps ==
  ASSUME RaceInv, Enter
  PROVE  RaceInv'
  <1>. USE DEF RaceInv
  <1>1. "finding" \in AllStatuses /\ "found" \in AllEventTypes
    BY DEF AllStatuses, AllEventTypes
  <1>2. CASE Commits(mem, "finding", "found") /\ pc' = "find" /\ UNCHANGED <<raceDone, ret>>
    <2>1. /\ row' \in SnipeRows /\ row'.status = "finding" /\ row'.result = mem.result
          /\ mem' = row'
          /\ log' \in Seq(AllEventTypes) /\ log' # <<>>
      BY <1>1, <1>2, CommitsFacts DEF TypeOK
    <2>2. TypeOK' /\ LoopInv' /\ UntriedInv'
      BY <1>2, <2>1 DEF Enter, TypeOK, LoopInv, UntriedInv
    <2>3. ConfirmedInv' /\ ChannelInv' /\ WaitInv'
      BY <1>2 DEF Enter, LoopInv, ConfirmedInv, ChannelInv, WaitInv, Confirmed, Won, Running
    <2>4. CancelInv' /\ RowInv'
      BY <1>2, <2>1 DEF Enter, CancelInv, RowInv, Over
    <2>5. BookedIsReal' /\ NoConfirmationLost'
      BY <1>2, <2>1 DEF Enter, LoopInv, BookedIsReal, NoConfirmationLost
    <2>6. QED
      BY <2>2, <2>3, <2>4, <2>5
  <1>3. CASE Rejects(mem, "finding") /\ Return("enter_finding")
    <2>1. TypeOK' /\ LoopInv' /\ UntriedInv'
      BY <1>3 DEF Enter, TypeOK, LoopInv, UntriedInv, Rejects, Return, dbVars, Returns
    <2>2. ConfirmedInv' /\ ChannelInv'
      BY DEF Enter, ConfirmedInv, ChannelInv, Confirmed, Won
    <2>3. WaitInv' /\ CancelInv' /\ RowInv'
      BY <1>3 DEF Enter, UntriedInv, Rejects, Return, dbVars, WaitInv, CancelInv, RowInv, Over, Running
    <2>4. BookedIsReal' /\ NoConfirmationLost'
      BY <1>3 DEF Enter, Rejects, Return, dbVars, BookedIsReal, NoConfirmationLost
    <2>5. QED
      BY <2>1, <2>2, <2>3, <2>4
  <1>4. QED
    BY <1>2, <1>3 DEF Enter

(* Provider.Find: some slots, none, or an error.                           *)
LEMMA FindKeeps ==
  ASSUME RaceInv, Find
  PROVE  RaceInv'
  <1>. USE DEF RaceInv, Find
  <1>1. found' \in 0..MaxSlots /\ (pc' = "book" => found' >= 1)
    <2>1. CASE found' \in Slots
      BY <2>1, Bounds DEF Slots
    <2>2. CASE pc' = "fail" /\ found' = found
      BY <2>2, Bounds
    <2>3. QED
      BY <2>1, <2>2
  <1>2. TypeOK'
    BY <1>1 DEF TypeOK, Returns, Reasons
  <1>3. LoopInv' /\ UntriedInv'
    BY <1>1 DEF LoopInv, UntriedInv
  <1>4. ConfirmedInv' /\ ChannelInv'
    BY DEF ConfirmedInv, ChannelInv, Confirmed, Won
  <1>5. WaitInv' /\ CancelInv' /\ RowInv'
    BY DEF LoopInv, UntriedInv, WaitInv, CancelInv, RowInv, Over, Running
  <1>6. BookedIsReal' /\ NoConfirmationLost'
    BY DEF LoopInv, BookedIsReal, NoConfirmationLost
  <1>7. QED
    BY <1>2, <1>3, <1>4, <1>5, <1>6

(* Finding -> Booking, saved or refused.                                   *)
LEMMA EnterBookingKeeps ==
  ASSUME RaceInv, EnterBooking
  PROVE  RaceInv'
  <1>. USE DEF RaceInv
  <1>1. "booking" \in AllStatuses /\ "book_attempted" \in AllEventTypes
    BY DEF AllStatuses, AllEventTypes
  <1>2. CASE Commits(mem, "booking", "book_attempted") /\ pc' = "loop" /\ UNCHANGED <<raceDone, ret>>
    <2>1. /\ row' \in SnipeRows /\ row'.status = "booking" /\ row'.result = mem.result
          /\ mem' = row'
          /\ log' \in Seq(AllEventTypes) /\ log' # <<>>
      BY <1>1, <1>2, CommitsFacts DEF TypeOK
    <2>2. TypeOK' /\ LoopInv' /\ UntriedInv'
      BY <1>2, <2>1 DEF EnterBooking, TypeOK, LoopInv, UntriedInv
    <2>3. ConfirmedInv' /\ ChannelInv' /\ WaitInv'
      BY <1>2 DEF EnterBooking, LoopInv, ConfirmedInv, ChannelInv, WaitInv, Confirmed, Won, Running
    <2>4. CancelInv' /\ RowInv'
      BY <1>2, <2>1 DEF EnterBooking, CancelInv, RowInv, Over
    <2>5. BookedIsReal' /\ NoConfirmationLost'
      BY <1>2, <2>1 DEF EnterBooking, LoopInv, BookedIsReal, NoConfirmationLost
    <2>6. QED
      BY <2>2, <2>3, <2>4, <2>5
  <1>3. CASE Rejects(mem, "booking") /\ Return("enter_booking")
    <2>1. TypeOK' /\ LoopInv' /\ UntriedInv'
      BY <1>3 DEF EnterBooking, TypeOK, LoopInv, UntriedInv, Rejects, Return, dbVars, Returns
    <2>2. ConfirmedInv' /\ ChannelInv'
      BY DEF EnterBooking, ConfirmedInv, ChannelInv, Confirmed, Won
    <2>3. WaitInv' /\ CancelInv' /\ RowInv'
      BY <1>3 DEF EnterBooking, UntriedInv, Rejects, Return, dbVars, WaitInv, CancelInv, RowInv, Over, Running
    <2>4. BookedIsReal' /\ NoConfirmationLost'
      BY <1>3 DEF EnterBooking, Rejects, Return, dbVars, BookedIsReal, NoConfirmationLost
    <2>5. QED
      BY <2>1, <2>2, <2>3, <2>4
  <1>4. QED
    BY <1>2, <1>3 DEF EnterBooking

(* The loop ends or goes to a slot that Find returned.                     *)
LEMMA LoopHeadKeeps ==
  ASSUME RaceInv, LoopHead
  PROVE  RaceInv'
  <1>. USE DEF RaceInv, LoopHead
  <1>1. TypeOK'
    BY DEF TypeOK
  <1>2. pc' \in {"wait", "prepare"} /\ (pc' = "prepare" => ~(next > found))
    OBVIOUS
  <1>3. pc' = "prepare" => next <= found
    BY <1>2, Bounds
  <1>4. LoopInv' /\ UntriedInv'
    BY <1>2, <1>3 DEF LoopInv, UntriedInv
  <1>5. ConfirmedInv' /\ ChannelInv'
    BY DEF ConfirmedInv, ChannelInv, Confirmed, Won
  <1>6. WaitInv' /\ CancelInv' /\ RowInv'
    BY DEF LoopInv, UntriedInv, WaitInv, CancelInv, RowInv, Over, Running
  <1>7. BookedIsReal' /\ NoConfirmationLost'
    BY DEF LoopInv, BookedIsReal, NoConfirmationLost
  <1>8. QED
    BY <1>1, <1>4, <1>5, <1>6, <1>7

(* Starting the goroutine of a slot that had none.                         *)
LEMMA PrepareOkKeeps ==
  ASSUME RaceInv, PrepareOk
  PROVE  RaceInv'
  <1>. USE DEF RaceInv, PrepareOk
  <1>1. next <= found /\ next \in Slots
    <2>1. next <= found
      BY DEF LoopInv
    <2>2. QED
      BY <2>1, Bounds DEF Slots
  <1>2. attempt[next] = "none"
    BY <1>1, Bounds DEF UntriedInv
  <1>3. /\ next' \in 1..(MaxSlots + 1)
        /\ \/ pc' = "floor" /\ next' = next /\ next < found
           \/ pc' = "loop" /\ next' = next + 1
    BY <1>1, Bounds
  <1>4. attempt' \in [Slots -> {"none"} \cup Running \cup Finished]
    BY <1>1 DEF TypeOK, Running
  <1>5. TypeOK' /\ LoopInv'
    BY <1>3, <1>4 DEF TypeOK, LoopInv
  <1>6. \A s \in Slots : attempt'[s] = IF s = next THEN "ready" ELSE attempt[s]
    BY DEF TypeOK
  <1>7. UntriedInv'
    BY <1>3, <1>6, Bounds, SlotBounds DEF UntriedInv
  <1>8. ConfirmedInv' /\ CancelInv'
    BY <1>6 DEF ConfirmedInv, CancelInv, Confirmed, Over
  <1>9. \A s \in Slots : Won(s)' <=> Won(s)
    BY <1>2, <1>6 DEF Won
  <1>10. ChannelInv'
    BY <1>9, <1>5 DEF ChannelInv, TypeOK
  <1>11. WaitInv' /\ RowInv'
    BY <1>3 DEF LoopInv, WaitInv, RowInv, Over
  <1>12. BookedIsReal' /\ NoConfirmationLost'
    BY DEF LoopInv, BookedIsReal, NoConfirmationLost
  <1>13. QED
    BY <1>5, <1>7, <1>8, <1>10, <1>11, <1>12

(* Skipping a slot whose PrepareSlot failed.                               *)
LEMMA PrepareErrKeeps ==
  ASSUME RaceInv, PrepareErr
  PROVE  RaceInv'
  <1>. USE DEF RaceInv, PrepareErr
  <1>1. /\ next' \in 1..(MaxSlots + 1)
        /\ \/ pc' = "loop" /\ next' = next + 1
           \/ pc' = "wait" /\ next' = next
    <2>1. next <= found
      BY DEF LoopInv
    <2>2. QED
      BY <2>1, Bounds
  <1>2. TypeOK' /\ LoopInv'
    BY <1>1 DEF TypeOK, LoopInv
  <1>3. UntriedInv'
    BY <1>1, Bounds, SlotBounds DEF UntriedInv
  <1>4. ConfirmedInv' /\ ChannelInv'
    BY DEF ConfirmedInv, ChannelInv, Confirmed, Won
  <1>5. WaitInv' /\ CancelInv' /\ RowInv'
    BY DEF LoopInv, UntriedInv, WaitInv, CancelInv, RowInv, Over, Running
  <1>6. BookedIsReal' /\ NoConfirmationLost'
    BY DEF LoopInv, BookedIsReal, NoConfirmationLost
  <1>7. QED
    BY <1>2, <1>3, <1>4, <1>5, <1>6

(* The pause of PollFloor between two PrepareSlot calls.                   *)
LEMMA FloorKeeps ==
  ASSUME RaceInv, Floor
  PROVE  RaceInv'
  <1>. USE DEF RaceInv, Floor
  <1>1. /\ next' \in 1..(MaxSlots + 1)
        /\ \/ pc' = "loop" /\ next' = next + 1
           \/ pc' = "wait" /\ next' = next
    <2>1. next < found
      BY DEF LoopInv
    <2>2. QED
      BY <2>1, Bounds
  <1>2. TypeOK' /\ LoopInv'
    BY <1>1 DEF TypeOK, LoopInv
  <1>3. UntriedInv'
    BY <1>1, Bounds, SlotBounds DEF UntriedInv
  <1>4. ConfirmedInv' /\ ChannelInv'
    BY DEF ConfirmedInv, ChannelInv, Confirmed, Won
  <1>5. WaitInv' /\ CancelInv' /\ RowInv'
    BY DEF LoopInv, UntriedInv, WaitInv, CancelInv, RowInv, Over, Running
  <1>6. BookedIsReal' /\ NoConfirmationLost'
    BY DEF LoopInv, BookedIsReal, NoConfirmationLost
  <1>7. QED
    BY <1>2, <1>3, <1>4, <1>5, <1>6

(* Giving up while goroutines run: only this reason is exempt in WaitInv.  *)
LEMMA PrepareBlockedKeeps ==
  ASSUME RaceInv, PrepareBlocked
  PROVE  RaceInv'
  <1>. USE DEF RaceInv, PrepareBlocked
  <1>1. TypeOK' /\ LoopInv' /\ UntriedInv'
    BY DEF TypeOK, LoopInv, UntriedInv, Returns, Reasons
  <1>2. ConfirmedInv' /\ ChannelInv'
    BY DEF ConfirmedInv, ChannelInv, Confirmed, Won
  <1>3. WaitInv' /\ CancelInv' /\ RowInv'
    BY DEF LoopInv, UntriedInv, WaitInv, CancelInv, RowInv, Over, Running
  <1>4. BookedIsReal' /\ NoConfirmationLost'
    BY DEF LoopInv, BookedIsReal, NoConfirmationLost
  <1>5. QED
    BY <1>1, <1>2, <1>3, <1>4

(* wg.Wait: no goroutine is left when the channel is read.                 *)
LEMMA WaitKeeps ==
  ASSUME RaceInv, Wait
  PROVE  RaceInv'
  <1>. USE DEF RaceInv, Wait
  <1>1. TypeOK' /\ LoopInv' /\ UntriedInv'
    BY DEF TypeOK, LoopInv, UntriedInv
  <1>2. ConfirmedInv' /\ ChannelInv'
    BY DEF ConfirmedInv, ChannelInv, Confirmed, Won
  <1>3. WaitInv' /\ CancelInv' /\ RowInv'
    BY DEF LoopInv, UntriedInv, WaitInv, CancelInv, RowInv, Over, Running
  <1>4. BookedIsReal' /\ NoConfirmationLost'
    BY DEF LoopInv, BookedIsReal, NoConfirmationLost
  <1>5. QED
    BY <1>1, <1>2, <1>3, <1>4

(* A signal cancels the caller's context only.                             *)
LEMMA ShutdownKeeps ==
  ASSUME RaceInv, Shutdown
  PROVE  RaceInv'
  <1>. USE DEF RaceInv, Shutdown
  <1>1. TypeOK' /\ LoopInv' /\ UntriedInv'
    BY DEF TypeOK, LoopInv, UntriedInv
  <1>2. ConfirmedInv' /\ ChannelInv'
    BY DEF ConfirmedInv, ChannelInv, Confirmed, Won
  <1>3. WaitInv' /\ CancelInv' /\ RowInv'
    BY DEF LoopInv, UntriedInv, WaitInv, CancelInv, RowInv, Over, Running
  <1>4. BookedIsReal' /\ NoConfirmationLost'
    BY DEF LoopInv, BookedIsReal, NoConfirmationLost
  <1>5. QED
    BY <1>1, <1>2, <1>3, <1>4

(* The death of the process leaves row and service as they are.            *)
LEMMA CrashKeeps ==
  ASSUME RaceInv, Crash
  PROVE  RaceInv'
  <1>. USE DEF RaceInv, Crash
  <1>1. TypeOK' /\ LoopInv' /\ UntriedInv'
    BY DEF TypeOK, LoopInv, UntriedInv
  <1>2. ConfirmedInv' /\ ChannelInv'
    BY DEF ConfirmedInv, ChannelInv, Confirmed, Won
  <1>3. WaitInv' /\ CancelInv' /\ RowInv'
    BY DEF LoopInv, UntriedInv, WaitInv, CancelInv, RowInv, Over, Running
  <1>4. BookedIsReal' /\ NoConfirmationLost'
    BY DEF LoopInv, BookedIsReal, NoConfirmationLost
  <1>5. QED
    BY <1>1, <1>2, <1>3, <1>4

(* Settle takes the winner off the channel after wg.Wait, or reports that  *)
(* there is none.                                                          *)
LEMMA SettleKeeps ==
  ASSUME RaceInv, Settle
  PROVE  RaceInv'
  <1>. USE DEF RaceInv
  <1>1. \A s \in Slots : attempt[s] \notin Running
    BY DEF Settle, WaitInv
  <1>2. UNCHANGED <<ctxDone, found, next, attempt, post, results>>
    BY DEF Settle
  <1>3. UntriedInv' /\ ConfirmedInv' /\ ChannelInv'
    <2>1. pc' \in {"fail", "returned"}
      BY DEF Settle, Return
    <2>2. QED
      BY <1>2, <2>1 DEF UntriedInv, ConfirmedInv, ChannelInv, Confirmed, Won
  <1>4. CASE results = <<>>
    <2>1. /\ ret' = "all_attempts_failed" /\ pc' = "fail"
          /\ UNCHANGED <<row, log, mem, raceDone>>
      BY <1>4 DEF Settle
    <2>2. \A s \in Slots : attempt[s] \in {"none", "failed"}
      <3>1. \A s \in Slots : ~Won(s)
        BY <1>4 DEF ChannelInv
      <3>2. \A s \in Slots : attempt[s] # "dropped"
        BY <1>4 DEF CancelInv, Over, Settle
      <3>3. \A s \in Slots : attempt[s] \in {"none"} \cup Running \cup Finished
        BY DEF TypeOK
      <3>4. QED
        BY <1>1, <3>1, <3>2, <3>3 DEF Won, Finished
    <2>3. TypeOK' /\ LoopInv'
      BY <1>2, <2>1 DEF TypeOK, LoopInv, Returns, Reasons
    <2>4. CancelInv' /\ WaitInv' /\ NoConfirmationLost'
      BY <1>1, <1>2, <1>4, <2>1, <2>2 DEF CancelInv, WaitInv, NoConfirmationLost, Over, Settle
    <2>5. RowInv' /\ BookedIsReal'
      BY <1>2, <2>1 DEF RowInv, BookedIsReal, Over, Settle
    <2>6. QED
      BY <1>3, <2>3, <2>4, <2>5
  <1>5. CASE results # <<>>
    <2>. DEFINE m == [mem EXCEPT !.result = Head(results)]
    <2>1. Head(results) \in Slots /\ Won(Head(results))
      <3>1. results \in Seq(Slots)
        BY DEF TypeOK
      <3>2. 1 \in 1..Len(results) /\ Head(results) = results[1] /\ results[1] \in Slots
        BY <1>5, <3>1
      <3>3. QED
        BY <3>2 DEF ChannelInv
    <2>2. post[Head(results)] = "booked"
      BY <2>1 DEF ConfirmedInv, Confirmed, Won
    <2>3. m \in SnipeRows /\ m.status = mem.status /\ m.result = Head(results)
      BY <2>1 DEF TypeOK, SnipeRows
    <2>4. /\ pc' = "returned" /\ raceDone' = TRUE
          /\ \/ ret' = "nil" /\ Commits(m, "booked", "booked")
             \/ ret' = "booked_unsaved" /\ Rejects(m, "booked")
      BY <1>5 DEF Settle, Return
    <2>5. /\ row' \in SnipeRows /\ mem' \in SnipeRows /\ mem'.status = row'.status
          /\ log' \in Seq(AllEventTypes) /\ log' # <<>>
          /\ \/ row'.status = "booked" /\ row'.result = Head(results)
             \/ row' = row
      <3>1. CASE Commits(m, "booked", "booked")
        <4>1. "booked" \in AllStatuses /\ "booked" \in AllEventTypes
          BY DEF AllStatuses, AllEventTypes
        <4>. HIDE DEF m
        <4>2. QED
          BY <2>3, <3>1, <4>1, CommitsFacts DEF TypeOK
      <3>2. CASE Rejects(m, "booked")
        <4>. HIDE DEF m
        <4>1. row' = row /\ log' = log /\ mem' = m
          BY <3>2 DEF Rejects, dbVars
        <4>2. QED
          BY <2>3, <4>1 DEF TypeOK, RowInv
      <3>3. QED
        BY <2>4, <3>1, <3>2
    <2>. HIDE DEF m
    <2>6. ret' \in {"nil", "booked_unsaved"}
      BY <2>4
    <2>7. TypeOK' /\ LoopInv'
      BY <1>2, <2>4, <2>5, <2>6 DEF TypeOK, LoopInv, Returns
    <2>8. CancelInv' /\ WaitInv' /\ NoConfirmationLost'
      BY <1>1, <1>2, <2>4, <2>6 DEF CancelInv, WaitInv, NoConfirmationLost, Over
    <2>9. row.status # "booked"
      BY DEF RowInv, Over, Settle
    <2>10. RowInv' /\ BookedIsReal'
      BY <1>2, <1>5, <2>1, <2>2, <2>4, <2>5, <2>9 DEF RowInv, BookedIsReal, Over
    <2>11. QED
      BY <1>3, <2>7, <2>8, <2>10
  <1>6. QED
    BY <1>4, <1>5

(* failWithReason writes the row only when the transition to failed is     *)
(* saved, and goes on to return its reason either way.                     *)
LEMMA FailWithReasonKeeps ==
  ASSUME RaceInv, FailWithReason
  PROVE  RaceInv'
  <1>. USE DEF RaceInv
  <1>1. /\ UNCHANGED <<ctxDone, raceDone, found, next, attempt, post, results, ret>>
        /\ pc = "fail" /\ pc' = "leave"
    BY DEF FailWithReason
  <1>2. /\ row' \in SnipeRows /\ mem' \in SnipeRows /\ mem'.status = row'.status
        /\ log' \in Seq(AllEventTypes) /\ log' # <<>>
        /\ row'.status = "failed" \/ row' = row
        /\ mem'.result = NoResult /\ row'.result = NoResult
    <2>1. CASE Commits(mem, "failed", "failed")
      <3>1. "failed" \in AllStatuses /\ "failed" \in AllEventTypes
        BY DEF AllStatuses, AllEventTypes
      <3>2. QED
        BY <1>1, <2>1, <3>1, CommitsFacts DEF TypeOK, RowInv, Over
    <2>2. CASE Rejects(mem, "failed")
      <3>1. row' = row /\ log' = log /\ mem' = mem
        BY <2>2 DEF Rejects, dbVars
      <3>2. QED
        BY <1>1, <3>1 DEF TypeOK, RowInv, Over
    <2>3. QED
      BY <2>1, <2>2 DEF FailWithReason
  <1>3. TypeOK' /\ LoopInv' /\ UntriedInv'
    BY <1>1, <1>2 DEF TypeOK, LoopInv, UntriedInv
  <1>4. ConfirmedInv' /\ ChannelInv'
    BY <1>1 DEF ConfirmedInv, ChannelInv, Confirmed, Won
  <1>5. CancelInv' /\ WaitInv' /\ NoConfirmationLost'
    BY <1>1 DEF CancelInv, WaitInv, NoConfirmationLost, Over, Running
  <1>6. row.status # "booked"
    BY <1>1 DEF RowInv, Over
  <1>7. RowInv' /\ BookedIsReal'
    BY <1>1, <1>2, <1>6 DEF RowInv, BookedIsReal, Over
  <1>8. QED
    BY <1>3, <1>4, <1>5, <1>7

(* The return after failWithReason cancels raceCtx and changes no row.     *)
LEMMA LeaveKeeps ==
  ASSUME RaceInv, Leave
  PROVE  RaceInv'
  <1>. USE DEF RaceInv
  <1>1. /\ UNCHANGED <<row, log, mem, ctxDone, found, next, attempt, post, results, ret>>
        /\ pc = "leave" /\ pc' = "returned" /\ raceDone' = TRUE
    BY DEF Leave, Return
  <1>2. TypeOK' /\ LoopInv' /\ UntriedInv'
    BY <1>1 DEF TypeOK, LoopInv, UntriedInv
  <1>3. ConfirmedInv' /\ ChannelInv'
    BY <1>1 DEF ConfirmedInv, ChannelInv, Confirmed, Won
  <1>4. CancelInv' /\ WaitInv' /\ NoConfirmationLost'
    BY <1>1 DEF CancelInv, WaitInv, NoConfirmationLost, Over, Running
  <1>5. RowInv' /\ BookedIsReal'
    BY <1>1 DEF RowInv, BookedIsReal, Over
  <1>6. QED
    BY <1>2, <1>3, <1>4, <1>5

(* A step of one goroutine that changes its own attempt: it was running,   *)
(* so wg.Wait has not returned and the race has not reported a failure of  *)
(* all attempts.                                                           *)
LEMMA GoroutineFacts ==
  ASSUME RaceInv, NEW s \in Slots, NEW v \in Running \cup Finished,
         attempt[s] \in Running,
         attempt' = [attempt EXCEPT ![s] = v],
         UNCHANGED <<row, log, mem, pc, ctxDone, found, next, ret>>
  PROVE  /\ \A t \in Slots : attempt'[t] = IF t = s THEN v ELSE attempt[t]
         /\ attempt' \in [Slots -> {"none"} \cup Running \cup Finished]
         /\ LoopInv' /\ UntriedInv' /\ WaitInv' /\ RowInv' /\ NoConfirmationLost'
  <1>. USE DEF RaceInv
  <1>1. \A t \in Slots : attempt'[t] = IF t = s THEN v ELSE attempt[t]
    BY DEF TypeOK
  <1>2. attempt' \in [Slots -> {"none"} \cup Running \cup Finished]
    BY DEF TypeOK
  <1>3. attempt[s] # "none"
    BY DEF Running
  <1>4. pc # "settle" /\ ret \in {"none", "prepare_blocked"}
    BY DEF WaitInv
  <1>5. LoopInv' /\ RowInv'
    BY DEF LoopInv, RowInv, Over
  <1>6. UntriedInv'
    BY <1>1, <1>3 DEF UntriedInv
  <1>7. WaitInv' /\ NoConfirmationLost'
    BY <1>4 DEF WaitInv, NoConfirmationLost
  <1>8. QED
    BY <1>1, <1>2, <1>5, <1>6, <1>7

(* Sending the POST, or not sending it under a cancelled raceCtx.          *)
LEMMA ConfirmKeeps ==
  ASSUME RaceInv, NEW s \in Slots, Confirm(s)
  PROVE  RaceInv'
  <1>. USE DEF RaceInv
  <1>1. PICK v \in {"failed", "sent"} : attempt' = [attempt EXCEPT ![s] = v]
    BY DEF Confirm
  <1>2. v \in Running \cup Finished /\ attempt[s] \in Running
    BY DEF Running, Finished, Confirm
  <1>3. /\ \A t \in Slots : attempt'[t] = IF t = s THEN v ELSE attempt[t]
        /\ attempt' \in [Slots -> {"none"} \cup Running \cup Finished]
        /\ LoopInv' /\ UntriedInv' /\ WaitInv' /\ RowInv' /\ NoConfirmationLost'
    <2>1. UNCHANGED <<row, log, mem, pc, ctxDone, found, next, ret>>
      BY DEF Confirm
    <2>2. QED
      BY <1>1, <1>2, <2>1, GoroutineFacts
  <1>4. /\ post' \in [Slots -> {"none", "pending", "booked", "refused"}]
        /\ \A t \in Slots : t # s => post'[t] = post[t]
    BY DEF Confirm, TypeOK
  <1>5. TypeOK'
    BY <1>3, <1>4 DEF TypeOK, Confirm
  <1>6. ConfirmedInv'
    BY <1>1, <1>3, <1>4 DEF ConfirmedInv, Confirmed
  <1>7. \A t \in Slots : Won(t)' <=> Won(t)
    BY <1>1, <1>3 DEF Won, Confirm
  <1>8. ChannelInv'
    BY <1>5, <1>7 DEF ChannelInv, TypeOK, Confirm
  <1>9. CancelInv'
    BY <1>1, <1>3 DEF CancelInv, Over, Confirm
  <1>10. BookedIsReal'
    <2>1. results \in Seq(Slots) /\ results' = results /\ row' = row
      BY DEF TypeOK, Confirm
    <2>2. results # <<>> => Head(results) = results[1] /\ 1 \in 1..Len(results)
      BY <2>1
    <2>3. row.status = "booked" => Won(row.result)
      BY <2>2 DEF BookedIsReal, ChannelInv
    <2>4. row.status = "booked" => row.result # s
      BY <2>3 DEF Won, Confirm
    <2>5. QED
      BY <1>4, <2>1, <2>4 DEF BookedIsReal
  <1>11. QED
    BY <1>3, <1>5, <1>6, <1>8, <1>9, <1>10

(* The answer arrives: only an accepted POST becomes a confirmation.       *)
LEMMA ConfirmAnsweredKeeps ==
  ASSUME RaceInv, NEW s \in Slots, ConfirmAnswered(s)
  PROVE  RaceInv'
  <1>. USE DEF RaceInv
  <1>1. PICK v \in {"failed", "confirmed"} :
          /\ attempt' = [attempt EXCEPT ![s] = v]
          /\ v = "confirmed" => post[s] = "booked"
    BY DEF ConfirmAnswered
  <1>2. v \in Running \cup Finished /\ attempt[s] \in Running
    BY DEF Running, Finished, ConfirmAnswered
  <1>3. UNCHANGED <<row, log, mem, pc, ctxDone, raceDone, found, next, post, results, ret>>
    BY DEF ConfirmAnswered
  <1>4. /\ \A t \in Slots : attempt'[t] = IF t = s THEN v ELSE attempt[t]
        /\ attempt' \in [Slots -> {"none"} \cup Running \cup Finished]
        /\ LoopInv' /\ UntriedInv' /\ WaitInv' /\ RowInv' /\ NoConfirmationLost'
    BY <1>1, <1>2, <1>3, GoroutineFacts
  <1>5. TypeOK'
    BY <1>3, <1>4 DEF TypeOK
  <1>6. ConfirmedInv'
    BY <1>1, <1>3, <1>4 DEF ConfirmedInv, Confirmed
  <1>7. \A t \in Slots : Won(t)' <=> Won(t)
    BY <1>1, <1>4 DEF Won, ConfirmAnswered
  <1>8. ChannelInv'
    BY <1>3, <1>5, <1>7 DEF ChannelInv, TypeOK
  <1>9. CancelInv' /\ BookedIsReal'
    BY <1>1, <1>3, <1>4 DEF CancelInv, BookedIsReal, Over
  <1>10. QED
    BY <1>4, <1>5, <1>6, <1>8, <1>9

(* A call given up counts as a failed attempt, whatever the service does.  *)
LEMMA ConfirmGivenUpKeeps ==
  ASSUME RaceInv, NEW s \in Slots, ConfirmGivenUp(s)
  PROVE  RaceInv'
  <1>. USE DEF RaceInv
  <1>1. attempt' = [attempt EXCEPT ![s] = "failed"]
    BY DEF ConfirmGivenUp
  <1>2. "failed" \in Running \cup Finished /\ attempt[s] \in Running
    BY DEF Running, Finished, ConfirmGivenUp
  <1>3. UNCHANGED <<row, log, mem, pc, ctxDone, raceDone, found, next, post, results, ret>>
    BY DEF ConfirmGivenUp
  <1>4. /\ \A t \in Slots : attempt'[t] = IF t = s THEN "failed" ELSE attempt[t]
        /\ attempt' \in [Slots -> {"none"} \cup Running \cup Finished]
        /\ LoopInv' /\ UntriedInv' /\ WaitInv' /\ RowInv' /\ NoConfirmationLost'
    BY <1>1, <1>2, <1>3, GoroutineFacts
  <1>5. TypeOK'
    BY <1>3, <1>4 DEF TypeOK
  <1>6. ConfirmedInv'
    BY <1>3, <1>4 DEF ConfirmedInv, Confirmed
  <1>7. \A t \in Slots : Won(t)' <=> Won(t)
    BY <1>4 DEF Won, ConfirmGivenUp
  <1>8. ChannelInv'
    BY <1>3, <1>5, <1>7 DEF ChannelInv, TypeOK
  <1>9. CancelInv' /\ BookedIsReal'
    BY <1>3, <1>4 DEF CancelInv, BookedIsReal, Over
  <1>10. QED
    BY <1>4, <1>5, <1>6, <1>8, <1>9

(* The select of a confirmed goroutine: the confirmation is the channel's  *)
(* last element, or is dropped because a winner is there or the race over. *)
LEMMA DeliverKeeps ==
  ASSUME RaceInv, NEW s \in Slots, Deliver(s)
  PROVE  RaceInv'
  <1>. USE DEF RaceInv
  <1>1. PICK v \in {"pushed", "dropped"} :
          /\ attempt' = [attempt EXCEPT ![s] = v]
          /\ v = "pushed" => results' = Append(results, s)
          /\ v = "dropped" => raceDone /\ results' = results
    BY DEF Deliver
  <1>2. v \in Running \cup Finished /\ attempt[s] \in Running
    BY DEF Running, Finished, Deliver
  <1>3. UNCHANGED <<row, log, mem, pc, ctxDone, raceDone, found, next, post, ret>>
    BY DEF Deliver
  <1>4. /\ \A t \in Slots : attempt'[t] = IF t = s THEN v ELSE attempt[t]
        /\ attempt' \in [Slots -> {"none"} \cup Running \cup Finished]
        /\ LoopInv' /\ UntriedInv' /\ WaitInv' /\ RowInv' /\ NoConfirmationLost'
    BY <1>1, <1>2, <1>3, GoroutineFacts
  <1>5. results \in Seq(Slots)
    BY DEF TypeOK
  <1>6. /\ results' \in Seq(Slots)
        /\ results # <<>> => results' # <<>> /\ Head(results') = Head(results)
    <2>1. CASE results' = Append(results, s)
      BY <1>5, <2>1
    <2>2. CASE results' = results
      BY <1>5, <2>2
    <2>3. QED
      BY <1>1, <2>1, <2>2
  <1>7. TypeOK'
    BY <1>3, <1>4, <1>6 DEF TypeOK
  <1>8. ConfirmedInv'
    BY <1>3, <1>4 DEF ConfirmedInv, Confirmed, Deliver
  <1>9. ChannelInv'
    <2>1. \A t \in Slots : Won(t) => Won(t)'
      BY <1>4 DEF Won, Deliver
    <2>2. CASE v = "pushed"
      <3>1. /\ Len(results') = Len(results) + 1
            /\ \A k \in 1..Len(results) : results'[k] = results[k] /\ results[k] \in Slots
            /\ results'[Len(results) + 1] = s /\ results' # <<>>
        BY <1>1, <1>5, <2>2
      <3>2. Won(s)'
        BY <1>4, <2>2 DEF Won
      <3>3. ASSUME NEW k \in 1..Len(results')
            PROVE  attempt'[results'[k]] \in {"pushed", "won"}
        <4>1. k \in 1..Len(results) \/ k = Len(results) + 1
          BY <1>5, <3>1
        <4>2. QED
          BY <2>1, <3>1, <3>2, <4>1 DEF ChannelInv, Won
      <3>4. QED
        BY <3>1, <3>3 DEF ChannelInv, Won
    <2>3. CASE v = "dropped"
      <3>1. results' = results /\ \A k \in 1..Len(results) : results[k] \in Slots
        BY <1>1, <1>5, <2>3
      <3>2. \A t \in Slots : Won(t)' <=> Won(t)
        BY <1>4, <2>3 DEF Won, Deliver
      <3>3. QED
        BY <3>1, <3>2 DEF ChannelInv, Won
    <2>4. QED
      BY <2>2, <2>3
  <1>10. CancelInv'
    BY <1>1, <1>3, <1>4, <1>6 DEF CancelInv, Over
  <1>11. BookedIsReal'
    BY <1>3, <1>6 DEF BookedIsReal
  <1>12. QED
    BY <1>4, <1>7, <1>8, <1>9, <1>10, <1>11

(* cancel(): raceCtx is done, and the channel holds the winner.            *)
LEMMA CancelSiblingsKeeps ==
  ASSUME RaceInv, NEW s \in Slots, CancelSiblings(s)
  PROVE  RaceInv'
  <1>. USE DEF RaceInv
  <1>1. attempt' = [attempt EXCEPT ![s] = "won"] /\ raceDone' = TRUE
    BY DEF CancelSiblings
  <1>2. "won" \in Running \cup Finished /\ attempt[s] \in Running
    BY DEF Running, Finished, CancelSiblings
  <1>3. UNCHANGED <<row, log, mem, pc, ctxDone, found, next, post, results, ret>>
    BY DEF CancelSiblings
  <1>4. /\ \A t \in Slots : attempt'[t] = IF t = s THEN "won" ELSE attempt[t]
        /\ attempt' \in [Slots -> {"none"} \cup Running \cup Finished]
        /\ LoopInv' /\ UntriedInv' /\ WaitInv' /\ RowInv' /\ NoConfirmationLost'
    BY <1>1, <1>2, <1>3, GoroutineFacts
  <1>5. TypeOK'
    BY <1>1, <1>3, <1>4 DEF TypeOK
  <1>6. ConfirmedInv'
    BY <1>3, <1>4 DEF ConfirmedInv, Confirmed, CancelSiblings
  <1>7. \A t \in Slots : Won(t)' <=> Won(t)
    BY <1>4 DEF Won, CancelSiblings
  <1>8. ChannelInv'
    BY <1>3, <1>5, <1>7 DEF ChannelInv, TypeOK
  <1>9. results # <<>>
    BY DEF ChannelInv, Won, CancelSiblings
  <1>10. CancelInv' /\ BookedIsReal'
    BY <1>1, <1>3, <1>9 DEF CancelInv, BookedIsReal, Over
  <1>11. QED
    BY <1>4, <1>5, <1>6, <1>8, <1>10

(* The service answers a pending POST: none that was accepted is pending.  *)
LEMMA ServeKeeps ==
  ASSUME RaceInv, NEW s \in Slots, Serve(s)
  PROVE  RaceInv'
  <1>. USE DEF RaceInv
  <1>1. UNCHANGED <<row, log, mem, pc, ctxDone, raceDone, found, next, attempt, results, ret>>
    BY DEF Serve
  <1>2. /\ post' \in [Slots -> {"none", "pending", "booked", "refused"}]
        /\ \A t \in Slots : post[t] = "booked" => post'[t] = "booked"
    <2>1. CASE post' = [post EXCEPT ![s] = "booked"]
      BY <2>1 DEF Serve, TypeOK
    <2>2. CASE post' = [post EXCEPT ![s] = "refused"]
      BY <2>2 DEF Serve, TypeOK
    <2>3. QED
      BY <2>1, <2>2 DEF Serve
  <1>3. TypeOK' /\ LoopInv' /\ UntriedInv'
    BY <1>1, <1>2 DEF TypeOK, LoopInv, UntriedInv
  <1>4. ConfirmedInv' /\ BookedIsReal'
    BY <1>1, <1>2 DEF ConfirmedInv, Confirmed, BookedIsReal
  <1>5. ChannelInv' /\ CancelInv'
    BY <1>1 DEF ChannelInv, CancelInv, Won, Over
  <1>6. WaitInv' /\ RowInv' /\ NoConfirmationLost'
    BY <1>1 DEF WaitInv, RowInv, NoConfirmationLost, Over
  <1>7. QED
    BY <1>3, <1>4, <1>5, <1>6

(* The invariant is inductive: every step of the race, of its goroutines   *)
(* and of the environment keeps it.                                        *)
LEMMA NextKeeps == RaceInv /\ [Next]_vars => RaceInv'
  <1>. SUFFICES ASSUME RaceInv, [Next]_vars PROVE RaceInv'
    OBVIOUS
  <1>1. CASE Main
    BY <1>1, EnterKeeps, FindKeeps, EnterBookingKeeps, LoopHeadKeeps, PrepareOkKeeps,
       PrepareErrKeeps, PrepareBlockedKeeps, FloorKeeps, WaitKeeps, SettleKeeps,
       FailWithReasonKeeps, LeaveKeeps DEF Main
  <1>2. ASSUME NEW s \in Slots, Goroutine(s) \/ Serve(s) PROVE RaceInv'
    BY <1>2, ConfirmKeeps, ConfirmAnsweredKeeps, ConfirmGivenUpKeeps, DeliverKeeps,
       CancelSiblingsKeeps, ServeKeeps DEF Goroutine
  <1>3. CASE Shutdown \/ Crash
    BY <1>3, ShutdownKeeps, CrashKeeps
  <1>4. CASE UNCHANGED vars
    <2>1. TypeOK' /\ LoopInv' /\ UntriedInv' /\ ConfirmedInv' /\ ChannelInv'
      BY <1>4 DEF RaceInv, vars, TypeOK, LoopInv, UntriedInv, ConfirmedInv, ChannelInv,
                  Confirmed, Won
    <2>2. CancelInv' /\ WaitInv' /\ RowInv' /\ BookedIsReal' /\ NoConfirmationLost'
      BY <1>4 DEF RaceInv, vars, CancelInv, WaitInv, RowInv, BookedIsReal,
                  NoConfirmationLost, Over
    <2>3. QED
      BY <2>1, <2>2 DEF RaceInv
  <1>5. QED
    BY <1>1, <1>2, <1>3, <1>4 DEF Next

(* What the return value says stays true, whatever goroutine is left.      *)
LEMMA OutcomeKeeps == RaceInv /\ OutcomeInv /\ [Next]_vars => OutcomeInv'
  <1>. SUFFICES ASSUME RaceInv, OutcomeInv, [Next]_vars PROVE OutcomeInv'
    OBVIOUS
  <1>0. TypeOK /\ LoopInv /\ UntriedInv /\ RowInv
    BY DEF RaceInv
  <1>1. CASE Enter \/ Find
    BY <1>0, <1>1 DEF OutcomeInv, LoopInv, UntriedInv, Enter, Find, Return, Slots
  <1>2. CASE EnterBooking
    <2>1. CASE Commits(mem, "booking", "book_attempted") /\ pc' = "loop" /\ UNCHANGED ret
      <3>1. mem'.status = "booking" /\ mem \in SnipeRows
        BY <1>0, <2>1 DEF Commits, TypeOK, SnipeRows
      <3>2. QED
        BY <1>0, <1>2, <2>1, <3>1 DEF OutcomeInv, LoopInv, EnterBooking
    <2>2. CASE Return("enter_booking")
      BY <1>0, <1>2, <2>2 DEF OutcomeInv, UntriedInv, EnterBooking, Return
    <2>3. QED
      BY <1>2, <2>1, <2>2 DEF EnterBooking
  <1>3. CASE LoopHead \/ PrepareOk \/ PrepareErr \/ PrepareBlocked \/ Floor \/ Wait
    BY <1>0, <1>3 DEF OutcomeInv, LoopInv, LoopHead, PrepareOk, PrepareErr, PrepareBlocked, Floor, Wait
  <1>4. CASE Settle
    <2>1. CASE results = <<>>
      BY <1>0, <1>4, <2>1 DEF OutcomeInv, LoopInv, Settle
    <2>2. CASE results # <<>>
      <3>. DEFINE m == [mem EXCEPT !.result = Head(results)]
      <3>1. m \in SnipeRows
        BY <1>0, <2>2 DEF TypeOK, SnipeRows
      <3>2. \/ Commits(m, "booked", "booked") /\ Return("nil")
            \/ Return("booked_unsaved")
        BY <1>4, <2>2 DEF Settle
      <3>. HIDE DEF m
      <3>3. CASE Commits(m, "booked", "booked") /\ Return("nil")
        <4>1. row'.status = "booked"
          BY <3>1, <3>3 DEF Commits, SnipeRows
        <4>2. QED
          BY <3>3, <4>1 DEF Return, OutcomeInv
      <3>4. CASE Return("booked_unsaved")
        BY <3>4 DEF Return, OutcomeInv
      <3>5. QED
        BY <3>2, <3>3, <3>4
    <2>3. QED
      BY <2>1, <2>2
  <1>5. CASE FailWithReason \/ Leave
    <2>1. pc' \in {"leave", "returned"} /\ ret' = ret /\ attempt' = attempt /\ ret # "nil"
      <3>1. ret = "nil" => row.status = "booked" /\ pc \in {"fail", "leave"}
        BY <1>5 DEF OutcomeInv, FailWithReason, Leave
      <3>2. row.status = "booked" => Over
        BY <1>0 DEF RowInv
      <3>3. QED
        BY <1>5, <3>1, <3>2 DEF FailWithReason, Leave, Return, Over
    <2>2. QED
      BY <2>1 DEF OutcomeInv
  <1>6. ASSUME NEW s \in Slots, Goroutine(s) \/ Serve(s) PROVE OutcomeInv'
    <2>1. row' = row /\ mem' = mem /\ pc' = pc /\ ret' = ret
      BY <1>6 DEF Goroutine, Confirm, ConfirmAnswered, ConfirmGivenUp, Deliver, CancelSiblings, Serve
    <2>2. (\A t \in Slots : attempt[t] = "none") => attempt' = attempt
      BY <1>6 DEF Goroutine, Confirm, ConfirmAnswered, ConfirmGivenUp, Deliver, CancelSiblings, Serve
    <2>3. QED
      BY <2>1, <2>2 DEF OutcomeInv
  <1>7. CASE Shutdown \/ Crash \/ UNCHANGED vars
    BY <1>7 DEF OutcomeInv, Shutdown, Crash, vars
  <1>8. QED
    BY <1>1, <1>2, <1>3, <1>4, <1>5, <1>6, <1>7 DEF Next, Main

(* The move from booking to booked is in the table, so a winner that could *)
(* not be saved met a cancelled context or a store that fails.             *)
LEMMA UnsavedOnFault ==
  RaceInv /\ OutcomeInv /\ [Next]_vars /\ ret # "booked_unsaved" /\ ret' = "booked_unsaved"
    => ctxDone \/ "store" \in Faults
  <1>. SUFFICES ASSUME RaceInv, OutcomeInv, Next, ret # "booked_unsaved", ret' = "booked_unsaved"
                PROVE  ctxDone \/ "store" \in Faults
    BY DEF vars
  <1>1. Settle
    BY DEF Next, Main, Enter, Find, EnterBooking, LoopHead, PrepareOk, PrepareErr, PrepareBlocked, Floor, Wait,
       FailWithReason, Leave, Return, Goroutine, Confirm, ConfirmAnswered, ConfirmGivenUp, Deliver, CancelSiblings, Serve,
       Shutdown, Crash
  <1>2. mem.status = "booking" /\ mem \in SnipeRows
    BY <1>1 DEF Settle, OutcomeInv, RaceInv, TypeOK
  <1>. DEFINE m == [mem EXCEPT !.result = Head(results)]
  <1>3. m.status = "booking"
    BY <1>2 DEF SnipeRows
  <1>4. Rejects(m, "booked")
    BY <1>1 DEF Settle, Return
  <1>. HIDE DEF m
  <1>5. CanTransition(m.status, "booked")
    BY <1>3 DEF CanTransition, allowedTransitions, AllStatuses
  <1>6. QED
    BY <1>4, <1>5 DEF Rejects

(* Neither invariant speaks of the context of the caller, which may be     *)
(* replaced by another one.                                                *)
LEMMA ContextKeeps ==
  /\ RaceInv /\ OutcomeInv
  /\ ctxDone' \in BOOLEAN
  /\ UNCHANGED <<row, log, mem, pc, raceDone, found, next, attempt, post, results, ret>>
  => RaceInv' /\ OutcomeInv'
  <1>. SUFFICES ASSUME RaceInv, OutcomeInv, ctxDone' \in BOOLEAN,
                       UNCHANGED <<row, log, mem, pc, raceDone, found, next, attempt, post, results, ret>>
                PROVE  RaceInv' /\ OutcomeInv'
    OBVIOUS
  <1>1. TypeOK' /\ LoopInv' /\ UntriedInv' /\ ConfirmedInv' /\ ChannelInv'
    BY DEF RaceInv, TypeOK, LoopInv, UntriedInv, ConfirmedInv, ChannelInv, Confirmed, Won
  <1>2. CancelInv' /\ WaitInv' /\ RowInv' /\ BookedIsReal' /\ NoConfirmationLost' /\ OutcomeInv'
    BY DEF RaceInv, CancelInv, WaitInv, RowInv, BookedIsReal, NoConfirmationLost, Over, OutcomeInv
  <1>3. QED
    BY <1>1, <1>2 DEF RaceInv

(* The conjunction of what the race maintains holds in every reachable     *)
(* state of RunBookingRace, for any number of slots and any faults.        *)
THEOREM RaceInvariant == Spec => []RaceInv
  BY InitInv, NextKeeps, PTL DEF Spec

(* Type correctness: in particular the loop never indexes a slot Find did  *)
(* not return.                                                             *)
THEOREM TypeCorrect == Spec => []TypeOK
  <1>1. RaceInv => TypeOK
    BY DEF RaceInv
  <1>2. QED
    BY <1>1, RaceInvariant, PTL

(* A snipe recorded as booked carries a confirmation the service gave, the *)
(* first one handed over.                                                  *)
THEOREM BookedIsRealHolds == Spec => []BookedIsReal
  <1>1. RaceInv => BookedIsReal
    BY DEF RaceInv
  <1>2. QED
    BY <1>1, RaceInvariant, PTL

(* When the race reports that all attempts failed, no goroutine ever held  *)
(* a confirmation.                                                         *)
THEOREM NoConfirmationLostHolds == Spec => []NoConfirmationLost
  <1>1. RaceInv => NoConfirmationLost
    BY DEF RaceInv
  <1>2. QED
    BY <1>1, RaceInvariant, PTL

(* A POST /3/book leaves the process only while raceCtx is live.           *)
LEMMA SentWhileLive ==
  ASSUME RaceInv, [Next]_vars, NEW s \in Slots, post[s] = "none", post'[s] = "pending"
  PROVE  ~raceDone /\ pc # "crashed"
  <1>1. post' # post
    OBVIOUS
  <1>2. ASSUME NEW t \in Slots, Confirm(t) PROVE ~raceDone /\ pc # "crashed"
    BY <1>1, <1>2 DEF Confirm, Alive
  <1>3. ASSUME NEW t \in Slots, Serve(t) PROVE FALSE
    <2>1. post' = [post EXCEPT ![t] = "booked"] \/ post' = [post EXCEPT ![t] = "refused"]
      BY <1>3 DEF Serve
    <2>2. post'[s] \in {post[s], "booked", "refused"}
      BY <2>1 DEF RaceInv, TypeOK
    <2>3. QED
      BY <2>2
  <1>4. ASSUME NEW t \in Slots, Goroutine(t) PROVE Confirm(t)
    BY <1>1, <1>4 DEF Goroutine, ConfirmAnswered, ConfirmGivenUp, Deliver, CancelSiblings
  <1>5. ~(Main \/ Shutdown \/ Crash \/ UNCHANGED vars)
    BY <1>1 DEF Main, Enter, Find, EnterBooking, LoopHead, PrepareOk, PrepareErr, PrepareBlocked, Floor, Wait,
                Settle, FailWithReason, Leave, Shutdown, Crash, vars
  <1>6. QED
    BY <1>2, <1>3, <1>4, <1>5 DEF Next

(* After the winner's cancel() no further POST /3/book leaves the process: *)
(* Confirm sends only while raceCtx is live, and a winner has ended it.    *)
THEOREM NoBookingAfterWinHolds == Spec => NoBookingAfterWin
  <1>. DEFINE Quiet == \A s \in Slots :
                post[s] = "none" /\ post'[s] = "pending" => \A t \in Slots : attempt[t] # "won"
  <1>1. RaceInv /\ [Next]_vars => [Quiet]_vars
    BY SentWhileLive DEF RaceInv, CancelInv
  <1>2. QED
    BY <1>1, RaceInvariant, PTL DEF Spec, NoBookingAfterWin

(* After RunBookingRace has returned no POST /3/book leaves the process,   *)
(* also from a goroutine that a blocked PrepareSlot left behind: every     *)
(* return has cancelled raceCtx.                                           *)
THEOREM NoPostAfterReturnHolds == Spec => NoPostAfterReturn
  <1>. DEFINE Quiet == \A s \in Slots : post[s] = "none" /\ post'[s] = "pending" => ~Returned
  <1>1. RaceInv /\ [Next]_vars => [Quiet]_vars
    BY SentWhileLive DEF RaceInv, CancelInv, Returned
  <1>2. QED
    BY <1>1, RaceInvariant, PTL DEF Spec, NoPostAfterReturn

(* A saved transition is a Move of the abstract snipe.                     *)
LEMMA CommitsIsMove ==
  ASSUME RaceInv, NEW m \in SnipeRows, m.status = row.status,
         NEW to \in AllStatuses, NEW event \in Abstract!EventsOf(to),
         Commits(m, to, event),
         IF to = "booked" THEN m.result \in Slots ELSE m.result = row.result
  PROVE  Abstract!Next
  <1>1. row' = [m EXCEPT !.status = to] /\ log' = Append(log, event)
    BY DEF Commits
  <1>2. row'.status = to /\ row'.result = m.result
    BY <1>1 DEF SnipeRows
  <1>3. row.status \in AllStatuses /\ log # <<>>
    BY DEF RaceInv, TypeOK, SnipeRows, RowInv
  <1>4. row.status # "none"
    BY <1>3 DEF AllStatuses
  <1>5. CanTransition(row.status, to)
    BY DEF Commits
  <1>6. Abstract!Move(to, event)
    BY <1>1, <1>2, <1>3, <1>4, <1>5 DEF Abstract!Move, Abstract!CanTransition,
       Abstract!allowedTransitions, CanTransition, allowedTransitions, Abstract!AllStatuses, AllStatuses
  <1>7. QED
    BY <1>6 DEF Abstract!Next, Abstract!AllStatuses, AllStatuses

(* Every step of the race is, for the database, a step of the snipe's      *)
(* abstract life or none.                                                  *)
LEMMA StepFollows == RaceInv /\ [Next]_vars => [Abstract!Next]_(Abstract!vars)
  <1>. SUFFICES ASSUME RaceInv, Next PROVE Abstract!Next \/ UNCHANGED Abstract!vars
    BY DEF vars, Abstract!vars
  <1>0. mem \in SnipeRows /\ mem.status = row.status
    BY DEF RaceInv, TypeOK, RowInv
  <1>1. CASE row' = row /\ log' = log
    BY <1>1 DEF Abstract!vars
  <1>2. ASSUME NEW to \in AllStatuses \ {"booked"}, NEW event \in Abstract!EventsOf(to),
               mem.result = row.result, Commits(mem, to, event)
        PROVE  Abstract!Next
    BY <1>0, <1>2, CommitsIsMove
  <1>3. ASSUME NEW to \in AllStatuses, Rejects(mem, to) PROVE UNCHANGED Abstract!vars
    BY <1>1, <1>3 DEF Rejects, dbVars, Abstract!vars
  <1>4. /\ "found" \in Abstract!EventsOf("finding")
        /\ "book_attempted" \in Abstract!EventsOf("booking")
        /\ "booked" \in Abstract!EventsOf("booked")
        /\ "failed" \in Abstract!EventsOf("failed")
        /\ {"finding", "booking", "failed"} \subseteq AllStatuses \ {"booked"}
        /\ "booked" \in AllStatuses
    BY DEF Abstract!EventsOf, AllStatuses
  <1>5. ~Over => mem.result = row.result
    BY DEF RaceInv, RowInv
  <1>6. CASE Enter \/ EnterBooking \/ FailWithReason
    BY <1>2, <1>3, <1>4, <1>5, <1>6 DEF Enter, EnterBooking, FailWithReason, Over
  <1>7. CASE Settle
    <2>1. CASE results = <<>>
      BY <1>1, <1>7, <2>1 DEF Settle
    <2>2. CASE results # <<>>
      <3>. DEFINE m == [mem EXCEPT !.result = Head(results)]
      <3>1. Head(results) \in Slots
        BY <2>2 DEF RaceInv, TypeOK
      <3>2. m \in SnipeRows /\ m.status = row.status /\ m.result \in Slots
        BY <1>0, <3>1 DEF SnipeRows
      <3>3. Commits(m, "booked", "booked") \/ Rejects(m, "booked")
        BY <1>7, <2>2 DEF Settle
      <3>. HIDE DEF m
      <3>4. CASE Commits(m, "booked", "booked")
        BY <1>4, <3>2, <3>4, CommitsIsMove
      <3>5. CASE Rejects(m, "booked")
        BY <1>1, <3>5 DEF Rejects, dbVars
      <3>6. QED
        BY <3>3, <3>4, <3>5
    <2>3. QED
      BY <2>1, <2>2
  <1>8. CASE Find \/ LoopHead \/ PrepareOk \/ PrepareErr \/ PrepareBlocked \/ Floor \/ Wait \/ Leave
    BY <1>1, <1>8 DEF Find, LoopHead, PrepareOk, PrepareErr, PrepareBlocked, Floor, Wait, Leave
  <1>9. ASSUME NEW s \in Slots, Goroutine(s) \/ Serve(s) PROVE UNCHANGED Abstract!vars
    BY <1>1, <1>9 DEF Goroutine, Confirm, ConfirmAnswered, ConfirmGivenUp, Deliver,
                      CancelSiblings, Serve, Abstract!vars
  <1>10. CASE Shutdown \/ Crash
    BY <1>1, <1>10 DEF Shutdown, Crash
  <1>11. QED
    BY <1>6, <1>7, <1>8, <1>9, <1>10 DEF Next, Main

(* Every step of the race is a step of the snipe's abstract life in the    *)
(* database, or leaves the database alone.                                 *)
THEOREM FollowsSnipeHolds == Spec => FollowsSnipe
  BY StepFollows, RaceInvariant, PTL DEF Spec, FollowsSnipe
============================================================================
