------------------------ MODULE QuestServiceProofs -------------------------
(***************************************************************************)
(* Proofs about CreateQuest and CancelQuest for every number of calls,     *)
(* every scenario, every TTL and every set of faults.                      *)
(***************************************************************************)
EXTENDS QuestService, WellFoundedInduction, TLAPS

Users == {"nobody"} \cup {req[c].user : c \in Calls}
Goals == {0} \cup {req[c].payload : c \in Calls}

QuestRows == [user : Users, goal : Goals, status : {"absent", "submitted", "canceled"},
              completed : -1..MaxTime]
Outcomes  == [code : Codes, target : Calls \cup {None}]
Events    == [type : {"submitted", "canceled"}, at : 0..MaxTime]

Pcs == {"idle", "exact", "plain", "prepare", "persist", "row", "append",
        "get", "update", "event", "record", "ended", "died"}

\* The types of the calls' state.
CallTypes ==
  /\ now \in 0..MaxTime
  /\ pc \in [Calls -> Pcs]
  /\ req \in Scenarios
  /\ at \in [Calls -> 0..MaxTime]
  /\ live \in [Calls -> BOOLEAN]
  /\ outcome \in [Calls -> Outcomes]
  /\ prior \in [Calls -> SUBSET Calls]

\* The types of the rows; those of idempotency_keys follow from KeysInv.
RowTypes ==
  /\ quests \in [Calls -> QuestRows]
  /\ snipes \in [Calls -> {"none", "row", "announced"}]
  /\ events \in [Calls -> Seq(Events)]
  /\ saved \subseteq Calls

\* A call is at a step of its own operation, and without a key it is not looked up.
ControlInv ==
  \A c \in Calls :
    /\ pc[c] \in {"prepare", "persist", "row", "append"} => req[c].op = "create"
    /\ pc[c] \in {"get", "update"} => req[c].op = "cancel"
    /\ pc[c] \in {"exact", "plain"} => req[c].key # NoKey
    /\ pc[c] = "idle" => c \notin saved /\ prior[c] = {}

\* A quest's row is that of the create call of its number, and stays its user's
\* and its goal's once it is there.
RowInv ==
  \A q \in Calls :
    /\ quests[q].status # "absent" =>
         req[q].op = "create" /\ quests[q].user = req[q].user /\ quests[q].goal = req[q].payload
    /\ pc[q] \in {"idle", "exact", "plain", "prepare", "persist"} => quests[q].status = "absent"
    /\ pc[q] \in {"row", "append"} => quests[q].status # "absent"
    /\ snipes[q] = "announced" =>
         /\ quests[q].status # "absent"
         /\ pc[q] \notin {"idle", "exact", "plain", "prepare", "persist", "row", "append"}

\* The success that a request r may be answered with quest q.
Real(r, q) ==
  /\ q \in Calls /\ quests[q].status # "absent" /\ quests[q].user = r.user
  /\ r.op = "create" => quests[q].goal = r.payload /\ snipes[q] = "announced"
  /\ r.op = "cancel" => q = r.payload /\ quests[q].status = "canceled"

\* The work of a call that has only its best-effort writes left is done, and
\* whoever has the outcome "ok" names such work.
OutcomeInv ==
  \A c \in Calls :
    /\ pc[c] = "event" => Real(req[c], Target(c))
    /\ outcome[c].code = "ok" => Real(req[c], outcome[c].target)

\* The row that PutIdempotencyResult writes for a call.
RowOf(c) == [user |-> req[c].user, op |-> req[c].op, key |-> req[c].key,
             payload |-> req[c].payload, code |-> outcome[c].code,
             target |-> outcome[c].target, at |-> at[c]]

\* Every row of idempotency_keys is the outcome of a call that has ended, and a
\* recorded request has a row.
KeysInv ==
  /\ \A c \in Calls : pc[c] = "record" => outcome[c].code \in Sentinels \cup {"other", "ok"}
  /\ \A c \in saved : /\ pc[c] = "ended" /\ req[c].key # NoKey
                      /\ outcome[c].code \in Sentinels \cup {"other", "ok"}
                      /\ \E k \in keys : KeyHash(k, req[c])
  /\ \A k \in keys : \E c \in saved : k = RowOf(c)

\* What ended before a call started stays ended.
PriorInv == \A d \in Calls : prior[d] \subseteq Over

\* The inductive invariant.
QuestInv ==
  /\ CallTypes
  /\ RowTypes
  /\ ControlInv
  /\ RowInv
  /\ OutcomeInv
  /\ KeysInv
  /\ PriorInv
  /\ CanceledByOwner
  /\ RetryIsReplayed
  /\ KeyReuseRefused

----------------------------------------------------------------------------
\* What the assumption says of the requests of a behaviour.
LEMMA RequestFacts ==
  ASSUME req \in Scenarios, NEW c \in Calls
  PROVE  /\ req[c].op \in {"create", "cancel"}
         /\ req[c].op = "cancel" => req[c].payload \in Calls
         /\ req[c].user \in Users /\ req[c].payload \in Goals
  BY ScenariosAssumption DEF Users, Goals

\* The invariant holds before the first call.
LEMMA InitInv == Init => QuestInv
  <1>. SUFFICES ASSUME Init PROVE QuestInv
    OBVIOUS
  <1>1. CallTypes /\ RowTypes
    BY TimeAssumption DEF Init, CallTypes, RowTypes, Pcs, QuestRows, Outcomes, Events, NoOutcome, Codes, Users, Goals, None
  <1>2. ControlInv /\ RowInv /\ OutcomeInv /\ KeysInv /\ PriorInv
    BY DEF Init, ControlInv, RowInv, OutcomeInv, KeysInv, PriorInv, NoOutcome
  <1>3. CanceledByOwner /\ RetryIsReplayed /\ KeyReuseRefused
    BY DEF Init, CanceledByOwner, RetryIsReplayed, KeyReuseRefused
  <1>4. QED
    BY <1>1, <1>2, <1>3 DEF QuestInv

\* A row of idempotency_keys is the outcome of a call that was recorded.
LEMMA KeyRow ==
  ASSUME QuestInv, NEW k \in keys
  PROVE  \E c \in saved :
           /\ c \in Calls /\ k = RowOf(c)
           /\ k.user = req[c].user /\ k.op = req[c].op /\ k.key = req[c].key
           /\ k.payload = req[c].payload /\ k.at = at[c]
           /\ k.code = outcome[c].code /\ k.target = outcome[c].target
           /\ k.code \in Sentinels \cup {"other", "ok"} /\ k.target \in Calls \cup {None}
           /\ k.at \in 0..MaxTime
  <1>1. PICK c \in saved : k = RowOf(c)
    BY DEF QuestInv, KeysInv
  <1>2. c \in Calls /\ at[c] \in 0..MaxTime /\ outcome[c] \in Outcomes
    BY DEF QuestInv, CallTypes, RowTypes
  <1>3. outcome[c].code \in Sentinels \cup {"other", "ok"}
    BY DEF QuestInv, KeysInv
  <1>4. QED
    BY <1>1, <1>2, <1>3 DEF RowOf, Outcomes

\* A call goes to a place that exists.
LEMMA GotoType ==
  ASSUME pc \in [Calls -> Pcs], NEW c \in Calls, NEW l \in Pcs, Goto(c, l)
  PROVE  pc' \in [Calls -> Pcs]
  BY DEF Goto

\* A call is given an outcome.
LEMMA OutcomeType ==
  ASSUME pc \in [Calls -> Pcs], outcome \in [Calls -> Outcomes], NEW c \in Calls,
         NEW code \in Codes, NEW target \in Calls \cup {None},
         Conclude(c, code, target) \/ Answer(c, code, target)
  PROVE  pc' \in [Calls -> Pcs] /\ outcome' \in [Calls -> Outcomes]
  <1>1. [code |-> code, target |-> target] \in Outcomes
    BY DEF Outcomes
  <1>2. QED
    BY <1>1 DEF Conclude, Answer, Goto, Pcs

\* The requests, and with them the users and the goals, do not change.
LEMMA Frame == ASSUME [Next]_vars PROVE req' = req /\ Users' = Users /\ Goals' = Goals
  <1>1. req' = req
    BY DEF Next, Start, Step, Gone, Crash, Tick, LookupExact, LookupPlain, Prepare, Persist,
           SubmitRow, SubmitEvent, GetRow, UpdateStatus, WriteEvent, Record, callVars, vars
  <1>2. QED
    BY <1>1 DEF Users, Goals

\* Every step preserves the types.
LEMMA TypesStep == QuestInv /\ [Next]_vars => CallTypes' /\ RowTypes'
  <1>. SUFFICES ASSUME QuestInv, [Next]_vars PROVE CallTypes' /\ RowTypes'
    OBVIOUS
  <1>0. CallTypes /\ RowTypes /\ QuestRows' = QuestRows
    BY Frame DEF QuestInv, QuestRows
  <1>a. {"prepare", "get", "exact", "plain", "persist", "row", "append", "update", "event",
         "record", "ended", "died"} \subseteq Pcs
    BY DEF Pcs
  <1>b. {"other", "conflict", "ok", "notfound"} \cup Sentinels \subseteq Codes
    BY DEF Codes, Sentinels
  <1>1. ASSUME NEW c \in Calls, Start(c) PROVE CallTypes' /\ RowTypes'
    <2>1. pc' \in [Calls -> Pcs]
      BY <1>0, <1>1, <1>a, GotoType DEF CallTypes, Start, Work
    <2>2. at' \in [Calls -> 0..MaxTime]
      BY <1>0, <1>1 DEF CallTypes, Start
    <2>3. prior' \in [Calls -> SUBSET Calls]
      BY <1>0, <1>1 DEF CallTypes, Start, Over
    <2>4. QED
      BY <2>1, <2>2, <2>3, <1>0, <1>1 DEF CallTypes, RowTypes, Start, dbVars
  <1>2. ASSUME NEW c \in Calls, LookupExact(c) PROVE CallTypes' /\ RowTypes'
    <2>1. pc' \in [Calls -> Pcs] /\ outcome' \in [Calls -> Outcomes]
      <3>1. CASE Goto(c, "plain") /\ UNCHANGED outcome
        BY <3>1, <1>0, <1>a, GotoType DEF CallTypes
      <3>2. CASE Goto(c, Work(c)) /\ UNCHANGED outcome
        BY <3>2, <1>0, <1>a, GotoType DEF CallTypes, Work
      <3>3. ASSUME NEW k \in keys, Answer(c, Replayed(k.code), k.target)
            PROVE  pc' \in [Calls -> Pcs] /\ outcome' \in [Calls -> Outcomes]
        <4>1. k.target \in Calls \cup {None} /\ Replayed(k.code) \in Codes
          BY KeyRow, <1>b DEF Replayed
        <4>2. QED
          BY <3>3, <4>1, <1>0, OutcomeType DEF CallTypes
      <3>4. CASE Answer(c, "other", None)
        BY <3>4, <1>0, <1>b, OutcomeType DEF CallTypes
      <3>5. QED
        BY <1>2, <3>1, <3>2, <3>3, <3>4 DEF LookupExact
    <2>2. QED
      BY <2>1, <1>0, <1>2 DEF CallTypes, RowTypes, LookupExact, dbVars
  <1>3. ASSUME NEW c \in Calls, LookupPlain(c) PROVE CallTypes' /\ RowTypes'
    <2>1. pc' \in [Calls -> Pcs] /\ outcome' \in [Calls -> Outcomes]
      <3>1. CASE Goto(c, Work(c)) /\ UNCHANGED outcome
        BY <3>1, <1>0, <1>a, GotoType DEF CallTypes, Work
      <3>2. CASE Answer(c, "conflict", None) \/ Answer(c, "other", None)
        BY <3>2, <1>0, <1>b, OutcomeType DEF CallTypes
      <3>3. QED
        BY <1>3, <3>1, <3>2 DEF LookupPlain
    <2>2. QED
      BY <2>1, <1>0, <1>3 DEF CallTypes, RowTypes, LookupPlain, dbVars
  <1>4. ASSUME NEW c \in Calls, Prepare(c) PROVE CallTypes' /\ RowTypes'
    <2>1. pc' \in [Calls -> Pcs] /\ outcome' \in [Calls -> Outcomes]
      <3>1. CASE Goto(c, "persist") /\ UNCHANGED outcome
        BY <3>1, <1>0, <1>a, GotoType DEF CallTypes
      <3>2. ASSUME NEW e \in PrepareErrors \cup {"other"}, Conclude(c, e, None)
            PROVE  pc' \in [Calls -> Pcs] /\ outcome' \in [Calls -> Outcomes]
        BY <3>2, <1>0, <1>b, ErrorsAssumption, OutcomeType DEF CallTypes
      <3>3. QED
        BY <1>4, <3>1, <3>2 DEF Prepare
    <2>2. QED
      BY <2>1, <1>0, <1>4 DEF CallTypes, RowTypes, Prepare, dbVars
  <1>5. ASSUME NEW c \in Calls, Persist(c) PROVE CallTypes' /\ RowTypes'
    <2>1. pc' \in [Calls -> Pcs] /\ outcome' \in [Calls -> Outcomes]
      BY <1>0, <1>5, <1>a, <1>b, GotoType, OutcomeType DEF CallTypes, Persist
    <2>2. [user |-> req[c].user, goal |-> req[c].payload, status |-> "submitted",
           completed |-> -1] \in QuestRows
      BY <1>0, RequestFacts, TimeAssumption DEF CallTypes, QuestRows
    <2>3. quests' \in [Calls -> QuestRows]
      BY <1>0, <1>5, <2>2 DEF RowTypes, Persist
    <2>4. QED
      BY <2>1, <2>3, <1>0, <1>5 DEF CallTypes, RowTypes, Persist
  <1>6. ASSUME NEW c \in Calls, SubmitRow(c) \/ SubmitEvent(c) PROVE CallTypes' /\ RowTypes'
    <2>1. pc' \in [Calls -> Pcs] /\ outcome' \in [Calls -> Outcomes]
      BY <1>0, <1>6, <1>a, <1>b, GotoType, OutcomeType DEF CallTypes, SubmitRow, SubmitEvent
    <2>2. snipes' \in [Calls -> {"none", "row", "announced"}]
      BY <1>0, <1>6 DEF RowTypes, SubmitRow, SubmitEvent
    <2>3. QED
      BY <2>1, <2>2, <1>0, <1>6 DEF CallTypes, RowTypes, SubmitRow, SubmitEvent
  <1>7. ASSUME NEW c \in Calls, GetRow(c) PROVE CallTypes' /\ RowTypes'
    <2>1. req[c].payload \in Calls
      BY <1>7, RequestFacts DEF QuestInv, CallTypes, ControlInv, GetRow
    <2>2. pc' \in [Calls -> Pcs] /\ outcome' \in [Calls -> Outcomes]
      BY <1>0, <1>7, <2>1, <1>a, <1>b, GotoType, OutcomeType DEF CallTypes, GetRow
    <2>3. QED
      BY <2>2, <1>0, <1>7 DEF CallTypes, RowTypes, GetRow, dbVars
  <1>8. ASSUME NEW c \in Calls, UpdateStatus(c) PROVE CallTypes' /\ RowTypes'
    <2>1. req[c].payload \in Calls
      BY <1>8, RequestFacts DEF QuestInv, CallTypes, ControlInv, UpdateStatus
    <2>2. pc' \in [Calls -> Pcs] /\ outcome' \in [Calls -> Outcomes]
      BY <1>0, <1>8, <2>1, <1>a, <1>b, GotoType, OutcomeType DEF CallTypes, UpdateStatus
    <2>3. quests' \in [Calls -> QuestRows]
      <3>1. quests[req[c].payload] \in QuestRows /\ at[c] \in -1..MaxTime
        BY <1>0, <2>1, TimeAssumption DEF CallTypes, RowTypes
      <3>2. [quests[req[c].payload] EXCEPT !.status = "canceled", !.completed = at[c]] \in QuestRows
        BY <3>1 DEF QuestRows
      <3>3. QED
        BY <1>0, <1>8, <2>1, <3>2 DEF RowTypes, UpdateStatus
    <2>4. QED
      BY <2>2, <2>3, <1>0, <1>8 DEF CallTypes, RowTypes, UpdateStatus
  <1>9. ASSUME NEW c \in Calls, WriteEvent(c) PROVE CallTypes' /\ RowTypes'
    <2>1. Target(c) \in Calls /\ EventOf(c) \in Events
      BY <1>0, RequestFacts DEF CallTypes, Target, EventOf, Events
    <2>2. pc' \in [Calls -> Pcs] /\ outcome' \in [Calls -> Outcomes]
      BY <1>0, <1>9, <2>1, <1>b, OutcomeType DEF CallTypes, WriteEvent
    <2>3. events' \in [Calls -> Seq(Events)]
      <3>1. Append(events[Target(c)], EventOf(c)) \in Seq(Events)
        BY <1>0, <2>1 DEF RowTypes
      <3>2. QED
        BY <1>0, <1>9, <2>1, <3>1 DEF RowTypes, WriteEvent
    <2>4. QED
      BY <2>2, <2>3, <1>0, <1>9 DEF CallTypes, RowTypes, WriteEvent, Conclude
  <1>10. ASSUME NEW c \in Calls, Record(c) PROVE CallTypes' /\ RowTypes'
    <2>1. pc' \in [Calls -> Pcs]
      BY <1>0, <1>10, <1>a, GotoType DEF CallTypes, Record
    <2>2. QED
      BY <2>1, <1>0, <1>10 DEF CallTypes, RowTypes, Record
  <1>11. ASSUME NEW c \in Calls, Gone(c) PROVE CallTypes' /\ RowTypes'
    BY <1>0, <1>11 DEF CallTypes, RowTypes, Gone, dbVars
  <1>12. CASE Crash
    BY <1>0, <1>12, <1>a DEF CallTypes, RowTypes, Crash, dbVars
  <1>13. CASE Tick
    BY <1>0, <1>13, TimeAssumption DEF CallTypes, RowTypes, Tick, callVars, dbVars
  <1>14. CASE UNCHANGED vars
    BY <1>0, <1>14 DEF CallTypes, RowTypes, vars, callVars, dbVars
  <1>15. QED
    BY <1>1, <1>2, <1>3, <1>4, <1>5, <1>6, <1>7, <1>8, <1>9, <1>10, <1>11, <1>12, <1>13, <1>14
    DEF Next, Step

\* What a step never takes back: a call that has started keeps its time and what it
\* saw ended, a call that has ended its answer, a row its user and its goal, and a
\* canceled quest and an accepted snipe stay so.
Kept(d) ==
  /\ pc[d] # "idle" => at'[d] = at[d] /\ prior'[d] = prior[d] /\ pc'[d] # "idle"
  /\ pc[d] \in {"ended", "died"} => pc'[d] = pc[d] /\ outcome'[d] = outcome[d]
  /\ saved \subseteq saved'
  /\ ~live[d] => ~live'[d]
  /\ quests[d].status # "absent" =>
       /\ quests'[d].status # "absent"
       /\ quests'[d].user = quests[d].user /\ quests'[d].goal = quests[d].goal
  /\ quests[d].status = "canceled" => quests'[d].status = "canceled"
  /\ snipes[d] = "announced" => snipes'[d] = "announced"

\* No step takes back any of it.
LEMMA Stable == ASSUME QuestInv, [Next]_vars, NEW d \in Calls PROVE Kept(d)
  <1>0. CallTypes /\ RowTypes /\ RowInv /\ ControlInv
    BY DEF QuestInv
  <1>1. ASSUME NEW c \in Calls, Start(c) PROVE Kept(d)
    BY <1>0, <1>1 DEF Kept, CallTypes, Start, Goto, Work, dbVars
  <1>2. ASSUME NEW c \in Calls, LookupExact(c) PROVE Kept(d)
    BY <1>0, <1>2 DEF Kept, CallTypes, LookupExact, Goto, Answer, Work, dbVars
  <1>3. ASSUME NEW c \in Calls, LookupPlain(c) PROVE Kept(d)
    BY <1>0, <1>3 DEF Kept, CallTypes, LookupPlain, Goto, Answer, Work, dbVars
  <1>4. ASSUME NEW c \in Calls, Prepare(c) PROVE Kept(d)
    BY <1>0, <1>4 DEF Kept, CallTypes, Prepare, Goto, Conclude, dbVars
  <1>5. ASSUME NEW c \in Calls, Persist(c) PROVE Kept(d)
    BY <1>0, <1>5 DEF Kept, CallTypes, RowTypes, RowInv, Persist, Goto, Conclude
  <1>6. ASSUME NEW c \in Calls, SubmitRow(c) \/ SubmitEvent(c) PROVE Kept(d)
    BY <1>0, <1>6 DEF Kept, CallTypes, RowTypes, RowInv, SubmitRow, SubmitEvent, Goto, Conclude
  <1>7. ASSUME NEW c \in Calls, GetRow(c) PROVE Kept(d)
    BY <1>0, <1>7 DEF Kept, CallTypes, GetRow, Goto, Conclude, dbVars
  <1>8. ASSUME NEW c \in Calls, UpdateStatus(c) PROVE Kept(d)
    <2>1. req[c].payload \in Calls
      BY <1>0, <1>8, RequestFacts DEF CallTypes, ControlInv, UpdateStatus
    <2>2. CASE UNCHANGED quests
      BY <1>0, <1>8, <2>2 DEF Kept, CallTypes, UpdateStatus, Goto, Conclude
    <2>3. CASE quests' = [quests EXCEPT ![req[c].payload].status = "canceled",
                                        ![req[c].payload].completed = at[c]]
      <3>. DEFINE q == req[c].payload
                  new == [quests[q] EXCEPT !.status = "canceled", !.completed = at[c]]
      <3>1. quests[q] \in QuestRows
        BY <1>0, <2>1 DEF RowTypes
      <3>2. new.user = quests[q].user /\ new.goal = quests[q].goal /\ new.status = "canceled"
        BY <3>1 DEF QuestRows
      <3>3. quests'[d] = IF d = q THEN new ELSE quests[d]
        BY <1>0, <2>1, <2>3 DEF RowTypes
      <3>. HIDE DEF q, new
      <3>4. QED
        BY <1>0, <1>8, <3>2, <3>3 DEF Kept, CallTypes, UpdateStatus, Goto, Conclude
    <2>4. QED
      BY <1>8, <2>2, <2>3 DEF UpdateStatus
  <1>9. ASSUME NEW c \in Calls, WriteEvent(c) PROVE Kept(d)
    BY <1>0, <1>9 DEF Kept, CallTypes, WriteEvent, Goto, Conclude
  <1>10. ASSUME NEW c \in Calls, Record(c) PROVE Kept(d)
    BY <1>0, <1>10 DEF Kept, CallTypes, Record, Goto
  <1>11. ASSUME NEW c \in Calls, Gone(c) PROVE Kept(d)
    BY <1>0, <1>11 DEF Kept, CallTypes, Gone, dbVars
  <1>12. CASE Crash
    BY <1>0, <1>12 DEF Kept, CallTypes, Crash, Open, dbVars
  <1>13. CASE Tick \/ UNCHANGED vars
    BY <1>0, <1>13 DEF Kept, Tick, vars, callVars, dbVars
  <1>14. QED
    BY <1>1, <1>2, <1>3, <1>4, <1>5, <1>6, <1>7, <1>8, <1>9, <1>10, <1>11, <1>12, <1>13
    DEF Next, Step

\* How a step changes call d: not at all, by the crash that ends it, or by d's own code.
Moved(d) ==
  \/ /\ pc'[d] = pc[d] /\ outcome'[d] = outcome[d]
     /\ at'[d] = at[d] /\ prior'[d] = prior[d]
  \/ /\ pc[d] \notin {"idle", "ended", "died"} /\ pc'[d] = "died" /\ outcome'[d] = outcome[d]
     /\ at'[d] = at[d] /\ prior'[d] = prior[d]
  \/ Start(d)
  \/ Step(d)

\* The update that cancels quest q.
Cancels(c, q) == UpdateStatus(c) /\ Visible(c, q) /\ q = req[c].payload

\* Who changes the rows that belong to d.
Wrote(d) ==
  /\ quests'[d] = quests[d] \/ Persist(d) \/ \E c \in Calls : Cancels(c, d)
  /\ snipes'[d] = snipes[d] \/ SubmitRow(d) \/ SubmitEvent(d)
  /\ d \in saved' => d \in saved \/ Record(d)

\* A call moves by its own code only.
LEMMA MovedStep == ASSUME QuestInv, [Next]_vars, NEW d \in Calls PROVE Moved(d)
  <1>0. CallTypes
    BY DEF QuestInv
  <1>1. ASSUME NEW c \in Calls, c # d, Start(c) PROVE Moved(d)
    BY <1>0, <1>1 DEF Moved, CallTypes, Start, Goto
  <1>2. ASSUME NEW c \in Calls, c # d, LookupExact(c) \/ LookupPlain(c) PROVE Moved(d)
    BY <1>0, <1>2 DEF Moved, CallTypes, LookupExact, LookupPlain, Goto, Answer
  <1>3. ASSUME NEW c \in Calls, c # d, Prepare(c) \/ Persist(c) \/ SubmitRow(c) \/ SubmitEvent(c)
        PROVE Moved(d)
    BY <1>0, <1>3 DEF Moved, CallTypes, Prepare, Persist, SubmitRow, SubmitEvent, Goto, Conclude
  <1>4. ASSUME NEW c \in Calls, c # d, GetRow(c) \/ UpdateStatus(c) \/ WriteEvent(c) \/ Record(c)
        PROVE Moved(d)
    BY <1>0, <1>4 DEF Moved, CallTypes, GetRow, UpdateStatus, WriteEvent, Record, Goto, Conclude
  <1>5. ASSUME NEW c \in Calls, Gone(c) PROVE Moved(d)
    BY <1>5 DEF Moved, Gone
  <1>6. CASE Crash
    BY <1>0, <1>6 DEF Moved, CallTypes, Crash, Open
  <1>7. CASE Tick \/ UNCHANGED vars
    BY <1>7 DEF Moved, Tick, vars, callVars
  <1>8. CASE Start(d) \/ Step(d)
    BY <1>8 DEF Moved
  <1>9. QED
    BY <1>1, <1>2, <1>3, <1>4, <1>5, <1>6, <1>7, <1>8 DEF Next, Step

\* A row is written by its own call, or canceled.
LEMMA WroteStep == ASSUME QuestInv, [Next]_vars, NEW d \in Calls PROVE Wrote(d)
  <1>0. CallTypes /\ RowTypes
    BY DEF QuestInv
  <1>1. ASSUME NEW c \in Calls, Start(c) \/ LookupExact(c) \/ LookupPlain(c) \/ Prepare(c) \/ GetRow(c)
        PROVE Wrote(d)
    BY <1>1 DEF Wrote, Start, LookupExact, LookupPlain, Prepare, GetRow, dbVars
  <1>2. ASSUME NEW c \in Calls, Persist(c) PROVE Wrote(d)
    BY <1>0, <1>2 DEF Wrote, RowTypes, Persist
  <1>3. ASSUME NEW c \in Calls, SubmitRow(c) \/ SubmitEvent(c) PROVE Wrote(d)
    <2>1. CASE c = d
      BY <1>3, <2>1 DEF Wrote, SubmitRow, SubmitEvent
    <2>2. CASE c # d
      BY <1>0, <1>3, <2>2 DEF Wrote, RowTypes, SubmitRow, SubmitEvent
    <2>3. QED
      BY <2>1, <2>2
  <1>4. ASSUME NEW c \in Calls, UpdateStatus(c) PROVE Wrote(d)
    <2>1. quests'[d] = quests[d] \/ Cancels(c, d)
      BY <1>0, <1>4 DEF RowTypes, UpdateStatus, Cancels
    <2>2. QED
      BY <1>4, <2>1 DEF Wrote, UpdateStatus
  <1>5. ASSUME NEW c \in Calls, WriteEvent(c) \/ Gone(c) PROVE Wrote(d)
    BY <1>5 DEF Wrote, WriteEvent, Gone, dbVars
  <1>6. ASSUME NEW c \in Calls, Record(c) PROVE Wrote(d)
    <2>1. d \in saved' => d \in saved \/ c = d
      BY <1>6 DEF Record
    <2>2. QED
      BY <1>6, <2>1 DEF Wrote, Record
  <1>7. CASE Crash \/ Tick \/ UNCHANGED vars
    BY <1>7 DEF Wrote, Crash, Tick, vars, dbVars
  <1>8. QED
    BY <1>1, <1>2, <1>3, <1>4, <1>5, <1>6, <1>7 DEF Next, Step

\* A canceled row is its owner's, with the time of the call.
LEMMA CanceledRow ==
  ASSUME QuestInv, NEW c \in Calls, NEW q \in Calls, Cancels(c, q),
         quests' # quests
  PROVE  quests'[q].status = "canceled" /\ quests'[q].completed = at[c]
  <1>1. quests[q] \in QuestRows /\ quests \in [Calls -> QuestRows]
    BY DEF QuestInv, RowTypes
  <1>2. quests'[q] = [quests[q] EXCEPT !.status = "canceled", !.completed = at[c]]
    BY <1>1 DEF Cancels, UpdateStatus
  <1>3. QED
    BY <1>1, <1>2 DEF QuestRows

\* A call stays within its operation.
LEMMA ControlStep == ASSUME QuestInv, [Next]_vars PROVE ControlInv'
  <1>. SUFFICES ASSUME NEW d \in Calls
                PROVE  /\ pc'[d] \in {"prepare", "persist", "row", "append"} => req[d].op = "create"
                       /\ pc'[d] \in {"get", "update"} => req[d].op = "cancel"
                       /\ pc'[d] \in {"exact", "plain"} => req[d].key # NoKey
                       /\ pc'[d] = "idle" => d \notin saved' /\ prior'[d] = {}
    BY Frame DEF ControlInv
  <1>0. CallTypes /\ ControlInv /\ Moved(d) /\ Wrote(d)
    BY MovedStep, WroteStep DEF QuestInv
  <1>1. CASE pc'[d] \in {pc[d], "died"} /\ prior'[d] = prior[d]
    BY <1>0, <1>1 DEF ControlInv, Wrote, Record
  <1>2. CASE Start(d)
    BY <1>0, <1>2, RequestFacts DEF CallTypes, ControlInv, Start, Goto, Work
  <1>3. CASE LookupExact(d) \/ LookupPlain(d)
    BY <1>0, <1>3, RequestFacts DEF CallTypes, ControlInv, LookupExact, LookupPlain, Goto, Answer, Work
  <1>4. CASE Prepare(d) \/ Persist(d) \/ SubmitRow(d) \/ SubmitEvent(d)
    BY <1>0, <1>4 DEF CallTypes, ControlInv, Prepare, Persist, SubmitRow, SubmitEvent, Goto, Conclude
  <1>5. CASE GetRow(d) \/ UpdateStatus(d) \/ WriteEvent(d) \/ Record(d)
    BY <1>0, <1>5 DEF CallTypes, ControlInv, GetRow, UpdateStatus, WriteEvent, Record, Goto, Conclude
  <1>6. QED
    BY <1>0, <1>1, <1>2, <1>3, <1>4, <1>5 DEF Moved, Step

\* A quest's row stays that of its call.
LEMMA RowStep == ASSUME QuestInv, [Next]_vars PROVE RowInv'
  <1>. DEFINE Early == {"idle", "exact", "plain", "prepare", "persist"}
  <1>. SUFFICES ASSUME NEW q \in Calls
                PROVE  /\ quests'[q].status # "absent" =>
                            /\ req[q].op = "create" /\ quests'[q].user = req[q].user
                            /\ quests'[q].goal = req[q].payload
                       /\ pc'[q] \in Early => quests'[q].status = "absent"
                       /\ pc'[q] \in {"row", "append"} => quests'[q].status # "absent"
                       /\ snipes'[q] = "announced" =>
                            quests'[q].status # "absent" /\ pc'[q] \notin Early \cup {"row", "append"}
    BY Frame DEF RowInv
  <1>0. CallTypes /\ RowTypes /\ ControlInv /\ RowInv /\ Moved(q) /\ Wrote(q) /\ Kept(q)
    BY MovedStep, WroteStep, Stable DEF QuestInv
  <1>1. CASE Persist(q)
    <2>1. CASE UNCHANGED quests /\ Conclude(q, "other", None)
      BY <1>0, <1>1, <2>1 DEF CallTypes, ControlInv, RowInv, Persist, Goto, Conclude
    <2>2. CASE quests' = [quests EXCEPT ![q] = [user |-> req[q].user, goal |-> req[q].payload,
                                            status |-> "submitted", completed |-> -1]]
      <3>1. /\ quests'[q].status = "submitted" /\ quests'[q].user = req[q].user
            /\ quests'[q].goal = req[q].payload
        BY <1>0, <2>2 DEF RowTypes
      <3>2. pc[q] = "persist" /\ pc'[q] = "row" /\ snipes'[q] = snipes[q]
        BY <1>0, <1>1, <3>1 DEF CallTypes, RowInv, Persist, Goto
      <3>3. QED
        BY <1>0, <3>1, <3>2 DEF ControlInv, RowInv
    <2>3. QED
      BY <1>1, <2>1, <2>2 DEF Persist
  <1>2. CASE ~Persist(q)
    <2>1. /\ (quests'[q].status = "absent") <=> (quests[q].status = "absent")
          /\ quests[q].status # "absent" =>
               quests'[q].user = quests[q].user /\ quests'[q].goal = quests[q].goal
      BY <1>0, <1>2 DEF Wrote, Kept, Cancels, Visible
    <2>2. CASE SubmitRow(q) \/ SubmitEvent(q)
      BY <1>0, <2>1, <2>2 DEF CallTypes, RowTypes, RowInv, SubmitRow, SubmitEvent, Goto, Conclude
    <2>3. CASE ~(SubmitRow(q) \/ SubmitEvent(q))
      <3>1. snipes'[q] = snipes[q]
        BY <1>0, <2>3 DEF Wrote
      <3>2. \/ pc'[q] = pc[q]
            \/ pc'[q] = "died"
            \/ pc[q] \in Early /\ pc'[q] \in Early \cup {"get", "record", "ended"}
            \/ pc[q] \notin Early \cup {"row", "append"} /\ pc'[q] \notin Early \cup {"row", "append"}
        <4>1. CASE pc'[q] \in {pc[q], "died"}
          BY <4>1
        <4>2. CASE Start(q) \/ LookupExact(q) \/ LookupPlain(q) \/ Prepare(q)
          BY <1>0, <4>2 DEF CallTypes, Start, LookupExact, LookupPlain, Prepare, Goto, Answer, Conclude, Work
        <4>3. CASE GetRow(q) \/ UpdateStatus(q) \/ WriteEvent(q) \/ Record(q)
          BY <1>0, <4>3 DEF CallTypes, GetRow, UpdateStatus, WriteEvent, Record, Goto, Conclude
        <4>4. QED
          BY <1>0, <1>2, <2>3, <4>1, <4>2, <4>3 DEF Moved, Step
      <3>3. QED
        BY <1>0, <2>1, <3>1, <3>2 DEF RowInv
    <2>4. QED
      BY <2>2, <2>3
  <1>3. QED
    BY <1>1, <1>2

\* The work that an answer names stays done.
LEMMA RealStays ==
  ASSUME QuestInv, [Next]_vars, NEW c \in Calls, NEW q, Real(req[c], q)
  PROVE  Real(req[c], q)'
  <1>1. q \in Calls /\ Kept(q)
    BY Stable DEF Real
  <1>2. QED
    BY <1>1, Frame DEF Real, Kept

\* Whoever answers "ok" names work that is done.
LEMMA OutcomeStep == ASSUME QuestInv, [Next]_vars PROVE OutcomeInv'
  <1>. SUFFICES ASSUME NEW c \in Calls
                PROVE  /\ pc'[c] = "event" => Real(req[c], Target(c))'
                       /\ outcome'[c].code = "ok" => Real(req[c], outcome[c].target)'
    BY DEF OutcomeInv
  <1>0. /\ CallTypes /\ RowTypes /\ ControlInv /\ RowInv /\ OutcomeInv /\ Moved(c) /\ Kept(c)
        /\ req' = req /\ Target(c)' = Target(c)
    BY MovedStep, Stable, Frame DEF QuestInv, Target
  <1>a. pc[c] = "event" => Real(req[c], Target(c))'
    BY <1>0, RealStays DEF OutcomeInv
  <1>b. \A q : Real(req[c], q) => Real(req[c], q)'
    BY RealStays
  <1>1. CASE pc'[c] \in {pc[c], "died"} /\ outcome'[c] = outcome[c]
    BY <1>0, <1>1, <1>a, <1>b DEF OutcomeInv
  <1>2. CASE Start(c)
    BY <1>0, <1>2, <1>b DEF OutcomeInv, CallTypes, Start, Goto, Work
  <1>3. ASSUME NEW code, NEW target, Conclude(c, code, target) \/ Answer(c, code, target)
        PROVE  /\ pc'[c] # "event"
               /\ outcome'[c].code = code /\ outcome'[c].target = target
    BY <1>0, <1>3 DEF CallTypes, Conclude, Answer, Goto
  <1>4. ASSUME NEW code, NEW target, code # "ok",
               Conclude(c, code, target) \/ Answer(c, code, target)
        PROVE  pc'[c] # "event" /\ outcome'[c].code # "ok"
    BY <1>3, <1>4
  <1>5. ASSUME NEW l, l # "event", Goto(c, l), UNCHANGED outcome
        PROVE  /\ pc'[c] # "event"
               /\ outcome'[c].code = "ok" => Real(req[c], outcome[c].target)'
    BY <1>0, <1>5, <1>b DEF CallTypes, OutcomeInv, Goto
  <1>6. CASE LookupExact(c)
    <2>1. ASSUME NEW k \in keys, KeyHash(k, req[c]), Answer(c, Replayed(k.code), k.target)
          PROVE  outcome'[c].code = "ok" => Real(req[c], outcome[c].target)'
      <3>. SUFFICES ASSUME outcome'[c].code = "ok" PROVE Real(req[c], outcome[c].target)'
        OBVIOUS
      <3>1. PICK e \in saved : /\ e \in Calls /\ k.user = req[e].user /\ k.op = req[e].op
                               /\ k.payload = req[e].payload
                               /\ k.code = outcome[e].code /\ k.target = outcome[e].target
        BY KeyRow
      <3>2. outcome'[c].target = k.target /\ k.code = "ok"
        BY <1>3, <2>1 DEF Replayed
      <3>3. Real(req[e], k.target)
        BY <1>0, <3>1, <3>2 DEF OutcomeInv
      <3>4. Real(req[c], k.target)
        BY <3>1, <3>3, <2>1 DEF Real, KeyHash, SameKey
      <3>5. QED
        BY <1>0, <1>b, <3>2, <3>4
    <2>2. QED
      BY <1>3, <1>4, <1>5, <1>6, <2>1 DEF LookupExact, Work
  <1>7. CASE LookupPlain(c)
    BY <1>4, <1>5, <1>7 DEF LookupPlain, Work
  <1>8. CASE Prepare(c)
    BY <1>4, <1>5, <1>8, ErrorsAssumption DEF Prepare, Sentinels
  <1>9. CASE Persist(c) \/ SubmitRow(c)
    BY <1>4, <1>5, <1>9 DEF Persist, SubmitRow
  <1>10. CASE SubmitEvent(c)
    <2>1. CASE Goto(c, "event") /\ UNCHANGED outcome /\ snipes' = [snipes EXCEPT ![c] = "announced"]
      <3>1. snipes'[c] = "announced"
        BY <1>0, <2>1 DEF RowTypes
      <3>2. /\ req[c].op = "create" /\ quests'[c].status # "absent"
            /\ quests'[c].user = req[c].user /\ quests'[c].goal = req[c].payload
        BY <1>0, <1>10 DEF ControlInv, RowInv, Kept, SubmitEvent
      <3>3. Real(req[c], Target(c))'
        BY <1>0, <3>1, <3>2 DEF Real, Target
      <3>4. QED
        BY <1>0, <2>1, <3>3, <1>b DEF OutcomeInv
    <2>2. QED
      BY <1>4, <1>10, <2>1 DEF SubmitEvent
  <1>11. CASE GetRow(c)
    <2>1. ASSUME Visible(c, req[c].payload), quests[req[c].payload].status = "canceled",
                 Conclude(c, "ok", req[c].payload)
          PROVE  Real(req[c], outcome[c].target)'
      <3>1. req[c].op = "cancel" /\ req[c].payload \in Calls
        BY <1>0, <1>11, RequestFacts DEF CallTypes, ControlInv, GetRow
      <3>2. Real(req[c], req[c].payload)
        BY <2>1, <3>1 DEF Real, Visible
      <3>3. QED
        BY <1>0, <1>3, <1>b, <2>1, <3>2
    <2>2. QED
      BY <1>3, <1>4, <1>5, <1>11, <2>1 DEF GetRow
  <1>12. CASE UpdateStatus(c)
    <2>1. req[c].op = "cancel" /\ req[c].payload \in Calls
      BY <1>0, <1>12, RequestFacts DEF CallTypes, ControlInv, UpdateStatus
    <2>2. ASSUME Visible(c, req[c].payload), Goto(c, "event"), UNCHANGED outcome, pc' # pc,
                 quests' = [quests EXCEPT ![req[c].payload].status = "canceled",
                                          ![req[c].payload].completed = at[c]]
          PROVE  Real(req[c], Target(c))'
      <3>. DEFINE q == req[c].payload
      <3>1. quests[q] \in QuestRows
        BY <1>0, <2>1 DEF RowTypes
      <3>2. quests'[q] = [quests[q] EXCEPT !.status = "canceled", !.completed = at[c]]
        BY <1>0, <2>1, <2>2 DEF RowTypes
      <3>3. quests'[q].status = "canceled"
        BY <3>1, <3>2 DEF QuestRows
      <3>4. Kept(q) /\ quests[q].status # "absent" /\ quests[q].user = req[c].user
        BY <2>1, <2>2, Stable DEF Visible
      <3>5. quests'[q].user = req[c].user
        BY <3>4 DEF Kept
      <3>6. QED
        BY <1>0, <2>1, <3>3, <3>5 DEF Real, Target
    <2>3. QED
      BY <1>4, <1>0, <1>12, <1>b, <2>2 DEF UpdateStatus, OutcomeInv, Goto, CallTypes
  <1>13. CASE WriteEvent(c)
    <2>1. Conclude(c, "ok", Target(c)) /\ pc[c] = "event"
      BY <1>13 DEF WriteEvent
    <2>2. QED
      BY <1>0, <1>3, <1>a, <2>1 DEF Real
  <1>14. CASE Record(c)
    BY <1>5, <1>14 DEF Record
  <1>15. QED
    BY <1>0, <1>1, <1>2, <1>6, <1>7, <1>8, <1>9, <1>10, <1>11, <1>12, <1>13, <1>14 DEF Moved, Step

\* A call that is about to be recorded has an outcome of the work.
LEMMA RecordCodes ==
  ASSUME QuestInv, [Next]_vars, NEW c \in Calls, pc'[c] = "record"
  PROVE  outcome'[c].code \in Sentinels \cup {"other", "ok"}
  <1>0. CallTypes /\ KeysInv /\ Moved(c)
    BY MovedStep DEF QuestInv
  <1>1. ASSUME NEW code \in Sentinels \cup {"other", "ok"}, NEW target, Conclude(c, code, target)
        PROVE  outcome'[c].code \in Sentinels \cup {"other", "ok"}
    BY <1>0, <1>1 DEF CallTypes, Conclude
  <1>2. CASE pc'[c] = pc[c] /\ outcome'[c] = outcome[c]
    BY <1>0, <1>2 DEF KeysInv
  <1>3. CASE Start(c) \/ LookupExact(c) \/ LookupPlain(c) \/ Record(c)
    BY <1>0, <1>3 DEF CallTypes, Start, LookupExact, LookupPlain, Record, Goto, Answer, Work
  <1>4. CASE Prepare(c)
    <2>1. pc'[c] = "persist" \/ \E e \in PrepareErrors \cup {"other"} : Conclude(c, e, None)
      BY <1>0, <1>4 DEF CallTypes, Prepare, Goto
    <2>2. QED
      BY <1>1, <2>1, ErrorsAssumption
  <1>5. CASE Persist(c) \/ SubmitRow(c) \/ SubmitEvent(c) \/ UpdateStatus(c)
    <2>1. pc'[c] \in {"row", "append", "event"} \/ \E t : Conclude(c, "other", t)
      BY <1>0, <1>5 DEF CallTypes, Persist, SubmitRow, SubmitEvent, UpdateStatus, Goto
    <2>2. QED
      BY <1>1, <2>1
  <1>6. CASE GetRow(c)
    <2>1. pc'[c] = "update" \/ \E e \in {"other", "ok", "notfound"}, t \in {req[c].payload} : Conclude(c, e, t)
      BY <1>0, <1>6 DEF CallTypes, GetRow, Goto
    <2>2. QED
      BY <1>1, <2>1 DEF Sentinels
  <1>7. CASE WriteEvent(c)
    BY <1>1, <1>7 DEF WriteEvent
  <1>8. QED
    BY <1>0, <1>2, <1>3, <1>4, <1>5, <1>6, <1>7 DEF Moved, Step

\* What a recorded call wrote stays what it answered.
LEMMA SavedStays ==
  ASSUME QuestInv, [Next]_vars, NEW c \in saved
  PROVE  /\ c \in Calls /\ c \in saved' /\ pc'[c] = "ended" /\ at'[c] = at[c]
         /\ outcome'[c] = outcome[c] /\ RowOf(c)' = RowOf(c)
  <1>1. c \in Calls /\ pc[c] = "ended"
    BY DEF QuestInv, RowTypes, KeysInv
  <1>2. Kept(c)
    BY <1>1, Stable
  <1>3. QED
    BY <1>1, <1>2, Frame DEF Kept, RowOf

\* The rows of idempotency_keys change by an upsert only.
LEMMA KeysChange ==
  ASSUME QuestInv, [Next]_vars
  PROVE  \/ keys' = keys /\ saved' = saved
         \/ \E c \in Calls :
              /\ pc[c] = "record" /\ pc'[c] = "ended" /\ req[c].key # NoKey
              /\ outcome'[c] = outcome[c] /\ at'[c] = at[c]
              /\ saved' = saved \cup {c}
              /\ keys' = {k \in keys : ~KeyHash(k, req[c])} \cup {RowOf(c)}
  <1>0. CallTypes
    BY DEF QuestInv
  <1>1. CASE \E c \in Calls : Record(c)
    BY <1>0, <1>1 DEF CallTypes, Record, Put, RowOf, Goto
  <1>2. CASE \A c \in Calls : ~Record(c)
    BY <1>2, ZenonT(40) DEF Next, Start, Step, Gone, Crash, Tick, LookupExact, LookupPlain, Prepare, Persist,
           SubmitRow, SubmitEvent, GetRow, UpdateStatus, WriteEvent, vars, dbVars
  <1>3. QED
    BY <1>1, <1>2

\* The rows keep being the outcomes of the recorded calls.
LEMMA KeysStep == ASSUME QuestInv, [Next]_vars PROVE KeysInv'
  <1>0. CallTypes /\ KeysInv /\ req' = req
    BY Frame DEF QuestInv
  <1>1. \A c \in Calls : pc'[c] = "record" => outcome'[c].code \in Sentinels \cup {"other", "ok"}
    BY RecordCodes
  <1>2. CASE keys' = keys /\ saved' = saved
    <2>1. \A c \in saved : /\ pc'[c] = "ended" /\ req[c].key # NoKey
                            /\ outcome'[c].code \in Sentinels \cup {"other", "ok"}
                            /\ \E k \in keys : KeyHash(k, req[c])
      BY <1>0, SavedStays DEF KeysInv
    <2>2. \A k \in keys : \E c \in saved : k = RowOf(c)'
      BY <1>0, SavedStays DEF KeysInv
    <2>3. QED
      BY <1>0, <1>1, <1>2, <2>1, <2>2 DEF KeysInv
  <1>3. ASSUME NEW c \in Calls, pc[c] = "record", pc'[c] = "ended", req[c].key # NoKey,
               outcome'[c] = outcome[c], at'[c] = at[c],
               saved' = saved \cup {c},
               keys' = {k \in keys : ~KeyHash(k, req[c])} \cup {RowOf(c)}
        PROVE  KeysInv'
    <2>1. RowOf(c)' = RowOf(c) /\ KeyHash(RowOf(c), req[c])
      BY <1>0, <1>3 DEF RowOf, KeyHash, SameKey
    <2>2. outcome'[c].code \in Sentinels \cup {"other", "ok"}
      BY <1>0, <1>3 DEF KeysInv
    <2>3. ASSUME NEW d \in saved
          PROVE  /\ pc'[d] = "ended" /\ req[d].key # NoKey
                 /\ outcome'[d].code \in Sentinels \cup {"other", "ok"}
                 /\ \E k \in keys' : KeyHash(k, req[d])
      <3>1. PICK k \in keys : KeyHash(k, req[d])
        BY <1>0 DEF KeysInv
      <3>2. CASE KeyHash(k, req[c])
        BY <1>3, <2>1, <3>1, <3>2, <1>0, SavedStays DEF KeyHash, SameKey, KeysInv
      <3>3. CASE ~KeyHash(k, req[c])
        BY <1>3, <3>1, <3>3, <1>0, SavedStays DEF KeysInv
      <3>4. QED
        BY <3>2, <3>3
    <2>4. ASSUME NEW k \in keys' PROVE \E d \in saved' : k = RowOf(d)'
      <3>1. CASE k = RowOf(c)
        BY <1>3, <2>1, <3>1
      <3>2. CASE k \in keys
        BY <1>0, <1>3, <3>2, SavedStays DEF KeysInv
      <3>3. QED
        BY <1>3, <3>1, <3>2
    <2>5. \A d \in saved' : /\ pc'[d] = "ended" /\ req[d].key # NoKey
                            /\ outcome'[d].code \in Sentinels \cup {"other", "ok"}
                            /\ \E k \in keys' : KeyHash(k, req[d])
      BY <1>3, <2>1, <2>2, <2>3
    <2>6. QED
      BY <1>0, <1>1, <2>4, <2>5 DEF KeysInv
  <1>4. QED
    BY <1>2, <1>3, KeysChange

\* What a call saw ended when it started was over before this step.
LEMMA PriorOver ==
  ASSUME QuestInv, [Next]_vars, NEW d \in Calls, NEW e \in prior'[d]
  PROVE  e \in Over
  <1>1. CallTypes /\ PriorInv /\ Moved(d)
    BY MovedStep DEF QuestInv
  <1>2. CASE prior'[d] = prior[d]
    BY <1>1, <1>2 DEF PriorInv
  <1>3. CASE Start(d)
    BY <1>1, <1>3 DEF CallTypes, Start
  <1>4. CASE Step(d)
    BY <1>1, <1>4 DEF PriorInv, Step, LookupExact, LookupPlain, Prepare, Persist, SubmitRow, SubmitEvent,
         GetRow, UpdateStatus, WriteEvent, Record
  <1>5. QED
    BY <1>1, <1>2, <1>3, <1>4 DEF Moved

\* What ended before a call started stays ended.
LEMMA PriorStep == ASSUME QuestInv, [Next]_vars PROVE PriorInv'
  <1>. SUFFICES ASSUME NEW d \in Calls, NEW e \in prior'[d] PROVE e \in Over'
    BY DEF PriorInv
  <1>1. e \in Over
    BY PriorOver
  <1>2. e \in Calls /\ Kept(e)
    BY <1>1, Stable DEF Over
  <1>3. QED
    BY <1>1, <1>2 DEF Over, Kept

\* A cancellation is its owner's.
LEMMA OwnerStep == ASSUME QuestInv, [Next]_vars PROVE CanceledByOwner'
  <1>. SUFFICES ASSUME NEW q \in Calls, quests'[q].status = "canceled"
                PROVE  \E c \in Calls :
                         /\ req[c].op = "cancel" /\ req[c].payload = q
                         /\ req[c].user = quests'[q].user
                         /\ pc'[c] # "idle" /\ at'[c] = quests'[q].completed
    BY Frame DEF CanceledByOwner
  <1>0. CallTypes /\ RowTypes /\ ControlInv /\ CanceledByOwner /\ Wrote(q) /\ Kept(q)
    BY WroteStep, Stable DEF QuestInv
  <1>1. CASE quests'[q] = quests[q]
    BY <1>0, <1>1, Stable DEF CanceledByOwner, Kept
  <1>2. CASE Persist(q)
    <2>1. quests'[q] = quests[q]
      BY <1>0, <1>2 DEF RowTypes, Persist
    <2>2. QED
      BY <1>1, <2>1
  <1>3. ASSUME NEW c \in Calls, Cancels(c, q), quests'[q] # quests[q]
        PROVE  /\ req[c].op = "cancel" /\ req[c].payload = q
               /\ req[c].user = quests'[q].user
               /\ pc'[c] # "idle" /\ at'[c] = quests'[q].completed
    <2>1. quests'[q].completed = at[c]
      BY <1>3, CanceledRow
    <2>2. pc[c] = "update" /\ Kept(c)
      BY <1>3, Stable DEF Cancels, UpdateStatus
    <2>3. QED
      BY <1>0, <1>3, <2>1, <2>2 DEF ControlInv, Kept, Cancels, Visible
  <1>4. QED
    BY <1>0, <1>1, <1>2, <1>3 DEF Wrote

\* A call that has not worked yet has no quest afterwards either.
LEMMA StillAbsent ==
  ASSUME QuestInv, [Next]_vars, NEW d \in Calls, quests[d].status = "absent", pc[d] # "persist"
  PROVE  quests'[d].status = "absent"
  BY WroteStep DEF Wrote, Persist, Cancels, Visible

\* What is recorded of the calls that one saw over was recorded before.
LEMMA SeenBefore ==
  ASSUME QuestInv, [Next]_vars, NEW d \in Calls, NEW c \in saved', c \in prior'[d]
  PROVE  c \in saved
  <1>1. c \in Over
    BY PriorOver
  <1>2. c \in Calls /\ Wrote(c)
    BY <1>1, WroteStep DEF Over
  <1>3. QED
    BY <1>1, <1>2 DEF Wrote, Record, Over

\* What a call whose request is recorded, and fresh, finds in the table.
LEMMA ReplayedHit ==
  ASSUME QuestInv, NEW d \in Calls, NEW k \in keys, KeyHash(k, req[d]),
         \A c \in saved : SameRequest(c, d) => at[d] < at[c] + TTL
  PROVE  /\ ~Expired(k, d)
         /\ \E c \in saved : SameRequest(c, d) /\ outcome[c] = [code |-> Replayed(k.code), target |-> k.target]
  <1>1. PICK c \in saved :
           /\ c \in Calls
           /\ k.user = req[c].user /\ k.op = req[c].op /\ k.key = req[c].key
           /\ k.payload = req[c].payload /\ k.at = at[c]
           /\ k.code = outcome[c].code /\ k.target = outcome[c].target
           /\ k.code \in Sentinels \cup {"other", "ok"}
    BY KeyRow
  <1>2. SameRequest(c, d)
    BY <1>1 DEF SameRequest, KeyHash, SameKey
  <1>3. at[c] \in Int /\ at[d] \in Int /\ TTL \in Int
    BY <1>1, TimeAssumption DEF QuestInv, CallTypes
  <1>4. ~Expired(k, d)
    BY <1>1, <1>2, <1>3 DEF Expired
  <1>5. Replayed(k.code) = k.code
    BY <1>1 DEF Replayed
  <1>6. outcome[c] = [code |-> k.code, target |-> k.target]
    BY <1>1 DEF QuestInv, CallTypes, Outcomes
  <1>7. QED
    BY <1>2, <1>4, <1>5, <1>6

\* A recorded request is answered from the table.
LEMMA ReplayStep == ASSUME QuestInv, [Next]_vars PROVE RetryIsReplayed'
  <1>. SUFFICES ASSUME NEW d \in Calls, pc'[d] # "idle",
                       NEW s \in saved', SameRequest(s, d), s \in prior'[d],
                       \A c \in saved' : SameRequest(c, d) => at'[d] < at'[c] + TTL
                PROVE  /\ d \notin saved'
                       /\ pc'[d] \in {"exact", "ended", "died"}
                       /\ quests'[d].status = "absent"
                       /\ pc'[d] = "ended" =>
                            \/ \E c \in saved' : SameRequest(c, d) /\ outcome'[d] = outcome'[c]
                            \/ outcome'[d].code = "other" /\ Fails(d)'
    BY Frame DEF RetryIsReplayed, SameRequest
  <1>0. CallTypes /\ RowInv /\ ControlInv /\ KeysInv /\ RetryIsReplayed
    BY DEF QuestInv
  <1>a. Moved(d) /\ Wrote(d) /\ Kept(d) /\ s \in saved /\ saved \subseteq saved'
    BY MovedStep, WroteStep, Stable, SeenBefore DEF Kept
  <1>b. req[d].key # NoKey
    BY <1>0, <1>a DEF KeysInv, SameRequest, KeyHash, SameKey
  <1>1. CASE pc[d] = "idle"
    <2>1. Start(d)
      BY <1>1, <1>a DEF Moved, Step, LookupExact, LookupPlain, Prepare, Persist, SubmitRow, SubmitEvent,
           GetRow, UpdateStatus, WriteEvent, Record
    <2>2. pc'[d] = "exact" /\ saved' = saved /\ quests' = quests
      BY <1>0, <1>b, <2>1 DEF CallTypes, Start, Goto, dbVars
    <2>3. QED
      BY <1>0, <1>1, <2>2 DEF ControlInv, RowInv
  <1>2. CASE pc[d] # "idle"
    <2>1. at'[d] = at[d] /\ prior'[d] = prior[d]
      BY <1>2, <1>a DEF Kept
    <2>2. \A c \in saved : SameRequest(c, d) => at[d] < at[c] + TTL
      BY <1>a, <2>1, SavedStays
    <2>3. /\ d \notin saved
          /\ pc[d] \in {"exact", "ended", "died"}
          /\ quests[d].status = "absent"
          /\ pc[d] = "ended" =>
               \/ \E c \in saved : SameRequest(c, d) /\ outcome[d] = outcome[c]
               \/ outcome[d].code = "other" /\ Fails(d)
      BY <1>0, <1>2, <1>a, <2>1, <2>2 DEF RetryIsReplayed
    <2>4. quests'[d].status = "absent"
      BY <2>3, StillAbsent
    <2>5. d \notin saved'
      BY <1>a, <2>3 DEF Wrote, Record
    <2>6. Fails(d) => Fails(d)'
      BY <1>a DEF Fails, Kept
    <2>7. CASE pc[d] \in {"ended", "died"}
      BY <1>a, <2>3, <2>4, <2>5, <2>6, <2>7, SavedStays DEF Kept
    <2>8. CASE pc[d] = "exact"
      <3>1. CASE pc'[d] \in {"exact", "died"}
        BY <2>4, <2>5, <3>1
      <3>2. CASE LookupExact(d)
        <4>1. {k \in keys : KeyHash(k, req[d])} # {}
          BY <1>0, <1>a DEF KeysInv, SameRequest, KeyHash, SameKey
        <4>2. ASSUME NEW k \in keys, KeyHash(k, req[d]) PROVE ~Expired(k, d)
          BY <2>2, <4>2, ReplayedHit
        <4>3. CASE Fails(d) /\ Answer(d, "other", None)
          <5>1. pc'[d] = "ended" /\ outcome'[d].code = "other"
            BY <1>0, <4>3 DEF CallTypes, Answer, Goto
          <5>2. QED
            BY <2>4, <2>5, <2>6, <4>3, <5>1
        <4>4. ASSUME NEW k \in keys, KeyHash(k, req[d]), Answer(d, Replayed(k.code), k.target)
              PROVE  pc'[d] = "ended" /\ \E c \in saved' : SameRequest(c, d) /\ outcome'[d] = outcome'[c]
          <5>1. PICK c \in saved : /\ SameRequest(c, d)
                                   /\ outcome[c] = [code |-> Replayed(k.code), target |-> k.target]
            BY <2>2, <4>4, ReplayedHit
          <5>2. pc'[d] = "ended" /\ outcome'[d] = [code |-> Replayed(k.code), target |-> k.target]
            BY <1>0, <4>4 DEF CallTypes, Answer, Goto
          <5>3. QED
            BY <1>a, <5>1, <5>2, SavedStays
        <4>5. QED
          BY <2>4, <2>5, <3>2, <4>1, <4>2, <4>3, <4>4 DEF LookupExact
      <3>3. QED
        BY <1>a, <2>8, <3>1, <3>2 DEF Moved, Start, Step, LookupPlain, Prepare, Persist, SubmitRow, SubmitEvent,
           GetRow, UpdateStatus, WriteEvent, Record
    <2>9. QED
      BY <2>3, <2>7, <2>8
  <1>3. QED
    BY <1>1, <1>2

\* Among rows of the table, one is the freshest.
LEMMA FreshestExists ==
  ASSUME NEW K, K # {}, \A k \in K : k.at \in 0..MaxTime
  PROVE  Freshest(K) # {}
  <1>. DEFINE Ages == {MaxTime - k.at : k \in K}
  <1>1. Ages # {} /\ Ages \subseteq Nat
    BY TimeAssumption
  <1>2. PICK a \in Ages : \A b \in Ages : <<b, a>> \notin OpToRel(<, Nat)
    BY <1>1, WFMin, NatLessThanWellFounded
  <1>3. PICK k \in K : a = MaxTime - k.at
    BY <1>2
  <1>4. ASSUME NEW l \in K PROVE k.at >= l.at
    <2>1. MaxTime - l.at \in Ages /\ MaxTime - l.at \in Nat /\ a \in Nat
      BY <1>1, <1>2
    <2>2. ~(MaxTime - l.at < a)
      BY <1>2, <2>1 DEF OpToRel
    <2>3. QED
      BY <1>3, <1>4, <2>2, TimeAssumption
  <1>5. QED
    BY <1>4 DEF Freshest

\* A key is refused for another payload.
LEMMA ReuseStep == ASSUME QuestInv, [Next]_vars PROVE KeyReuseRefused'
  <1>. SUFFICES ASSUME NEW d \in Calls, pc'[d] # "idle",
                       NEW s \in saved', SameKey(req[s], req[d]), s \in prior'[d],
                       \A c \in saved' : SameKey(req[c], req[d]) =>
                         ~SameRequest(c, d) /\ at'[d] < at'[c] + TTL
                PROVE  /\ pc'[d] \in {"exact", "plain", "ended", "died"}
                       /\ quests'[d].status = "absent"
                       /\ pc'[d] = "ended" => outcome'[d].code \in {"conflict", "other"}
    BY Frame DEF KeyReuseRefused, SameRequest
  <1>0. CallTypes /\ RowInv /\ ControlInv /\ KeysInv /\ KeyReuseRefused
    BY DEF QuestInv
  <1>a. Moved(d) /\ Wrote(d) /\ Kept(d) /\ s \in saved /\ saved \subseteq saved'
    BY MovedStep, WroteStep, Stable, SeenBefore DEF Kept
  <1>b. req[d].key # NoKey
    BY <1>0, <1>a DEF KeysInv, SameKey
  <1>1. CASE pc[d] = "idle"
    <2>1. Start(d)
      BY <1>1, <1>a DEF Moved, Step, LookupExact, LookupPlain, Prepare, Persist, SubmitRow, SubmitEvent,
           GetRow, UpdateStatus, WriteEvent, Record
    <2>2. pc'[d] = "exact" /\ quests' = quests
      BY <1>0, <1>b, <2>1 DEF CallTypes, Start, Goto, dbVars
    <2>3. QED
      BY <1>0, <1>1, <2>2 DEF RowInv
  <1>2. CASE pc[d] # "idle"
    <2>1. at'[d] = at[d] /\ prior'[d] = prior[d]
      BY <1>2, <1>a DEF Kept
    <2>2. \A c \in saved : SameKey(req[c], req[d]) => ~SameRequest(c, d) /\ at[d] < at[c] + TTL
      BY <1>a, <2>1, SavedStays
    <2>3. /\ pc[d] \in {"exact", "plain", "ended", "died"}
          /\ quests[d].status = "absent"
          /\ pc[d] = "ended" => outcome[d].code \in {"conflict", "other"}
      BY <1>0, <1>2, <1>a, <2>1, <2>2 DEF KeyReuseRefused
    <2>4. quests'[d].status = "absent"
      BY <2>3, StillAbsent
    <2>5. CASE pc[d] \in {"ended", "died"}
      BY <1>a, <2>3, <2>4, <2>5 DEF Kept
    <2>6. ASSUME NEW code \in {"conflict", "other"}, Answer(d, code, None)
          PROVE  pc'[d] = "ended" /\ outcome'[d].code \in {"conflict", "other"}
      BY <1>0, <2>6 DEF CallTypes, Answer, Goto
    <2>7. ASSUME NEW k \in keys, SameKey(k, req[d]) PROVE ~Expired(k, d) /\ ~KeyHash(k, req[d])
      <3>1. PICK c \in saved :
               /\ c \in Calls
               /\ k.user = req[c].user /\ k.op = req[c].op /\ k.key = req[c].key
               /\ k.payload = req[c].payload /\ k.at = at[c]
        BY KeyRow
      <3>2. ~SameRequest(c, d) /\ at[d] < at[c] + TTL
        BY <2>2, <2>7, <3>1 DEF SameKey
      <3>3. at[c] \in Int /\ at[d] \in Int /\ TTL \in Int
        BY <1>0, <3>1, TimeAssumption DEF CallTypes
      <3>4. QED
        BY <3>1, <3>2, <3>3 DEF Expired, SameRequest, KeyHash, SameKey
    <2>8. CASE LookupExact(d)
      <3>1. {k \in keys : KeyHash(k, req[d])} = {}
        BY <2>7 DEF KeyHash
      <3>2. Goto(d, "plain") \/ Answer(d, "other", None)
        BY <2>8, <3>1 DEF LookupExact
      <3>3. QED
        BY <1>0, <2>4, <2>6, <3>2 DEF CallTypes, Goto
    <2>9. CASE LookupPlain(d)
      <3>. DEFINE K == {k \in keys : SameKey(k, req[d])}
      <3>1. K # {}
        BY <1>0, <1>a DEF KeysInv, KeyHash, SameKey
      <3>2. \A k \in K : k.at \in 0..MaxTime
        BY KeyRow
      <3>3. Freshest(K) # {} /\ Freshest(K) \subseteq K
        <4>. HIDE DEF K
        <4>1. QED
          BY <3>1, <3>2, FreshestExists DEF Freshest
      <3>4. \A k \in Freshest(K) : ~Expired(k, d)
        BY <2>7, <3>3
      <3>5. Answer(d, "conflict", None) \/ Answer(d, "other", None)
        BY <2>9, <3>3, <3>4 DEF LookupPlain
      <3>6. QED
        BY <2>4, <2>6, <3>5
    <2>10. CASE pc'[d] \in {pc[d], "died"} /\ pc[d] \in {"exact", "plain"}
      BY <2>4, <2>10
    <2>11. QED
      BY <1>a, <2>3, <2>5, <2>8, <2>9, <2>10 DEF Moved, Start, Step, Prepare, Persist, SubmitRow, SubmitEvent,
           GetRow, UpdateStatus, WriteEvent, Record
  <1>3. QED
    BY <1>1, <1>2

\* The invariant is inductive.
LEMMA StepInv == QuestInv /\ [Next]_vars => QuestInv'
  BY TypesStep, ControlStep, RowStep, OutcomeStep, KeysStep, PriorStep, OwnerStep, ReplayStep, ReuseStep
  DEF QuestInv

\* Every reachable state satisfies it.
LEMMA Invariant == Spec => []QuestInv
  BY InitInv, StepInv, PTL DEF Spec

\* Every variable of CreateQuest and CancelQuest keeps its type, whatever the clients
\* ask and whichever statements fail.
THEOREM Types == Spec => []TypeOK
  <1>1. QuestInv => TypeOK
    <2>. SUFFICES ASSUME QuestInv PROVE TypeOK
      OBVIOUS
    <2>1. CallTypes /\ RowTypes
      BY DEF QuestInv
    <2>2. \A k \in keys : k.at \in 0..MaxTime /\ k.code \in Codes
      BY KeyRow DEF Codes
    <2>3. ASSUME NEW q \in Calls
          PROVE  /\ quests[q].status \in {"absent", "submitted", "canceled"}
                 /\ quests[q].completed \in -1..MaxTime
                 /\ snipes[q] \in {"none", "row", "announced"}
                 /\ events[q] \in Seq([type : {"submitted", "canceled"}, at : 0..MaxTime])
      BY <2>1 DEF RowTypes, QuestRows, Events
    <2>4. QED
      BY <2>1, <2>2, <2>3 DEF TypeOK, CallTypes, RowTypes, Pcs, Outcomes
  <1>2. QED
    BY <1>1, Invariant, PTL

\* Whatever CreateQuest or CancelQuest answers as a success is so when it is answered
\* and stays so, also when another call's outcome is replayed (standard_quest.go:190-301,
\* 408-471).
THEOREM AnswersAreReal == Spec => []AnswerIsReal
  <1>1. QuestInv => AnswerIsReal
    BY DEF QuestInv, OutcomeInv, AnswerIsReal, Real
  <1>2. QED
    BY <1>1, Invariant, PTL

\* No call of another user cancels a quest or moves its completed_at
\* (store/quests.go:285-305).
THEOREM OnlyOwnersCancel == Spec => []CanceledByOwner
  <1>1. QuestInv => CanceledByOwner
    BY DEF QuestInv
  <1>2. QED
    BY <1>1, Invariant, PTL

\* A retry within the TTL of a recorded call repeats no work and answers what was
\* recorded (standard_quest.go:194-214, 412-429).
THEOREM RetriesAreReplayed == Spec => []RetryIsReplayed
  <1>1. QuestInv => RetryIsReplayed
    BY DEF QuestInv
  <1>2. QED
    BY <1>1, Invariant, PTL

\* A key recorded with one payload does not work for another within the TTL
\* (store/idempotency.go:190-209).
THEOREM ReuseIsRefused == Spec => []KeyReuseRefused
  <1>1. QuestInv => KeyReuseRefused
    BY DEF QuestInv
  <1>2. QED
    BY <1>1, Invariant, PTL
=============================================================================
