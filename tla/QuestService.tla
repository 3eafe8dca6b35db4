---------------------------- MODULE QuestService ---------------------------
(***************************************************************************)
(* CreateQuest and CancelQuest of the service (standard_quest.go), called  *)
(* concurrently by the clients of the daemon, with idempotency keys.  Each *)
(* step is the code between two database statements: other calls, the      *)
(* client's disconnection and a crash of the daemon come between them.     *)
(*                                                                         *)
(* A call is a number and the id of the quest it may create is that        *)
(* number (newQuestID mints a fresh one).  A payload stands for its hash:  *)
(* a goal for a create, the quest's id for a cancel.                       *)
(***************************************************************************)
EXTENDS Integers, Sequences, FiniteSets

CONSTANTS
  MaxCalls,        \* number of calls (bound)
  MaxOpen,         \* most calls that run at a time (bound)
  Scenarios,       \* what the clients ask, call by call: [op, user, key, payload]
  PrepareErrors,   \* what the work before the first write may fail with
  TTL,             \* idempotencyTTL
  MaxTime,         \* the clock stops here (bound)
  Faults           \* "gone": clients disconnect, "crash", "store": a statement fails

NoKey == ""
None  == 0
Calls == 1..MaxCalls

\* The errors a persisted outcome keeps apart; anything else is "other".
Sentinels == {"hash", "notfound", "invalid", "venue", "ambiguous", "upstream"}

Codes == Sentinels \cup {"other", "conflict", "ok", "pending"}

ASSUME CallsAssumption == MaxCalls \in Nat \ {0} /\ MaxOpen \in Nat \ {0}
ASSUME ScenariosAssumption ==
  \A s \in Scenarios :
    /\ DOMAIN s = Calls
    /\ \A c \in Calls :
         /\ DOMAIN s[c] = {"op", "user", "key", "payload"}
         /\ s[c].op \in {"create", "cancel"}
         /\ s[c].op = "cancel" => s[c].payload \in Calls
ASSUME ErrorsAssumption == PrepareErrors \subseteq Sentinels \cup {"other"}
ASSUME TimeAssumption   == TTL \in Nat \ {0} /\ MaxTime \in Nat
ASSUME FaultsAssumption == Faults \subseteq {"gone", "crash", "store"}

VARIABLES
  now,
  \* the calls
  pc,        \* where each call is
  req,       \* its request, never changes
  at,        \* its now, read once when it starts
  live,      \* its context is not cancelled
  outcome,   \* [code, target]: what it will answer, its answer once it has ended
  \* the database
  quests,    \* quests rows by id: [user, goal, status, completed], status "absent" if none
  snipes,    \* the engine's row of the quest: "none", "row", "announced"
  events,    \* quest_events rows of the quest, in insertion order
  keys,      \* idempotency_keys rows
  \* observers
  prior,     \* the calls that had ended when this one started
  saved      \* the calls whose outcome reached idempotency_keys

callVars == <<pc, req, at, live, outcome, prior>>
dbVars   == <<quests, snipes, events, keys, saved>>
vars     == <<now, callVars, dbVars>>

Over == {c \in Calls : pc[c] \in {"ended", "died"}}
Open == {c \in Calls : pc[c] \notin {"idle", "ended", "died"}}

TypeOK ==
  /\ now \in 0..MaxTime
  /\ pc \in [Calls -> {"idle", "exact", "plain", "prepare", "persist", "row", "append",
                       "get", "update", "event", "record", "ended", "died"}]
  /\ req \in Scenarios
  /\ at \in [Calls -> 0..MaxTime]
  /\ live \in [Calls -> BOOLEAN]
  /\ outcome \in [Calls -> [code : Codes, target : Calls \cup {None}]]
  /\ \A q \in Calls :
       /\ quests[q].status \in {"absent", "submitted", "canceled"}
       /\ quests[q].completed \in -1..MaxTime
       /\ snipes[q] \in {"none", "row", "announced"}
       /\ events[q] \in Seq([type : {"submitted", "canceled"}, at : 0..MaxTime])
  /\ \A k \in keys : k.at \in 0..MaxTime /\ k.code \in Codes
  /\ prior \in [Calls -> SUBSET Calls]
  /\ saved \subseteq Calls

NoOutcome == [code |-> "pending", target |-> None]

Init ==
  /\ now = 0
  /\ pc = [c \in Calls |-> "idle"]
  /\ req \in Scenarios
  /\ at = [c \in Calls |-> 0]
  /\ live = [c \in Calls |-> TRUE]
  /\ outcome = [c \in Calls |-> NoOutcome]
  /\ quests = [q \in Calls |-> [user |-> "nobody", goal |-> 0, status |-> "absent", completed |-> -1]]
  /\ snipes = [q \in Calls |-> "none"]
  /\ events = [q \in Calls |-> <<>>]
  /\ keys = {}
  /\ prior = [c \in Calls |-> {}]
  /\ saved = {}

----------------------------------------------------------------------------
(* A statement under the call's context runs, or fails and writes nothing. *)

Runs(c)  == live[c]
Fails(c) == ~live[c] \/ "store" \in Faults

Goto(c, l) == pc' = [pc EXCEPT ![c] = l]

\* The work has an outcome; recordIdempotency and the return are still to come.
Conclude(c, code, target) ==
  /\ Goto(c, "record")
  /\ outcome' = [outcome EXCEPT ![c] = [code |-> code, target |-> target]]

\* Returns without recordIdempotency.
Answer(c, code, target) ==
  /\ Goto(c, "ended")
  /\ outcome' = [outcome EXCEPT ![c] = [code |-> code, target |-> target]]

\* The first step of the work itself, past the idempotency pre-check.
Work(c) == IF req[c].op = "create" THEN "prepare" ELSE "get"

\* Mutant: WHERE id = ?
VisibleToAll(c, q) == quests[q].status # "absent"

\* WHERE id = ? AND user_id = ?
Visible(c, q) == quests[q].status # "absent" /\ quests[q].user = req[c].user

----------------------------------------------------------------------------
(* The idempotency pre-check. *)

\* Mutant: the hash leaves out the user.
SameKeyAnyUser(k, r) == k.op = r.op /\ k.key = r.key

SameKey(k, r) == k.user = r.user /\ k.op = r.op /\ k.key = r.key
KeyHash(k, r) == SameKey(k, r) /\ k.payload = r.payload

\* Mutant: a row expires one instant early.
ExpiredEarly(k, c) == at[c] + 1 >= k.at + TTL

Expired(k, c) == at[c] >= k.at + TTL
Freshest(K)   == {k \in K : \A l \in K : k.at >= l.at}

\* replayServiceErr: the sentinel is found again in the persisted text.
Replayed(code) == IF code \in Sentinels \cup {"ok"} THEN code ELSE "other"

\* The calls are numbered in the order in which they start.
Start(c) ==
  /\ pc[c] = "idle" /\ \A d \in 1..(c - 1) : pc[d] # "idle"
  /\ Cardinality(Open) < MaxOpen
  /\ Goto(c, IF req[c].key = NoKey THEN Work(c) ELSE "exact")
  /\ at' = [at EXCEPT ![c] = now]
  /\ prior' = [prior EXCEPT ![c] = Over]
  /\ UNCHANGED <<now, req, live, outcome, dbVars>>

\* GetIdempotencyResult, first query: the row of this very payload.  An expired
\* one ends the lookup as well.
LookupExact(c) ==
  /\ pc[c] = "exact"
  /\ LET hits == {k \in keys : KeyHash(k, req[c])} IN
     \/ /\ Runs(c) /\ hits = {}
        /\ Goto(c, "plain") /\ UNCHANGED outcome
     \/ \E k \in hits :
          /\ Runs(c)
          /\ IF Expired(k, c)
             THEN Goto(c, Work(c)) /\ UNCHANGED outcome
             ELSE Answer(c, Replayed(k.code), k.target)
     \/ Fails(c) /\ Answer(c, "other", None)
  /\ UNCHANGED <<now, req, at, live, prior, dbVars>>

\* Mutant: a row found by the key alone is taken for no row.
LookupPlainIgnored(c) ==
  /\ pc[c] = "plain"
  /\ \/ Runs(c) /\ Goto(c, Work(c)) /\ UNCHANGED outcome
     \/ Fails(c) /\ Answer(c, "other", None)
  /\ UNCHANGED <<now, req, at, live, prior, dbVars>>

\* Second query: the freshest row of the key, whatever its payload.
LookupPlain(c) ==
  /\ pc[c] = "plain"
  /\ LET hits == Freshest({k \in keys : SameKey(k, req[c])}) IN
     \/ /\ Runs(c) /\ hits = {}
        /\ Goto(c, Work(c)) /\ UNCHANGED outcome
     \/ \E k \in hits :
          /\ Runs(c)
          /\ IF Expired(k, c)
             THEN Goto(c, Work(c)) /\ UNCHANGED outcome
             ELSE Answer(c, "conflict", None)
     \/ Fails(c) /\ Answer(c, "other", None)
  /\ UNCHANGED <<now, req, at, live, prior, dbVars>>

----------------------------------------------------------------------------
(* CreateQuest *)

\* PlanQuest, the plan hash, the account, the quest id: nothing is written.
\* The account lookup is a statement, so a cancelled context always fails here.
Prepare(c) ==
  /\ pc[c] = "prepare"
  /\ \/ Runs(c) /\ Goto(c, "persist") /\ UNCHANGED outcome
     \/ \E e \in PrepareErrors : Conclude(c, e, None)
     \/ Fails(c) /\ Conclude(c, "other", None)
  /\ UNCHANGED <<now, req, at, live, prior, dbVars>>

\* store.CreateQuest
Persist(c) ==
  /\ pc[c] = "persist"
  /\ \/ /\ Runs(c)
        /\ quests' = [quests EXCEPT ![c] = [user |-> req[c].user, goal |-> req[c].payload,
                                            status |-> "submitted", completed |-> -1]]
        /\ Goto(c, "row") /\ UNCHANGED outcome
     \/ Fails(c) /\ Conclude(c, "other", None) /\ UNCHANGED quests
  /\ UNCHANGED <<now, req, at, live, prior, snipes, events, keys, saved>>

\* Engine.Submit, CreateSnipe
SubmitRow(c) ==
  /\ pc[c] = "row"
  /\ \/ /\ Runs(c)
        /\ snipes' = [snipes EXCEPT ![c] = "row"]
        /\ Goto(c, "append") /\ UNCHANGED outcome
     \/ Fails(c) /\ Conclude(c, "other", c) /\ UNCHANGED snipes
  /\ UNCHANGED <<now, req, at, live, prior, quests, events, keys, saved>>

\* Engine.Submit, AppendEvent
SubmitEvent(c) ==
  /\ pc[c] = "append"
  /\ \/ /\ Runs(c)
        /\ snipes' = [snipes EXCEPT ![c] = "announced"]
        /\ Goto(c, "event") /\ UNCHANGED outcome
     \/ Fails(c) /\ Conclude(c, "other", c) /\ UNCHANGED snipes
  /\ UNCHANGED <<now, req, at, live, prior, quests, events, keys, saved>>

----------------------------------------------------------------------------
(* CancelQuest *)

GetRow(c) ==
  /\ pc[c] = "get"
  /\ LET q == req[c].payload IN
     \/ Runs(c) /\ ~Visible(c, q) /\ Conclude(c, "notfound", q)
     \/ /\ Runs(c) /\ Visible(c, q)
        /\ IF quests[q].status = "canceled"
           THEN Conclude(c, "ok", q)
           ELSE Goto(c, "update") /\ UNCHANGED outcome
     \/ Fails(c) /\ Conclude(c, "other", q)
  /\ UNCHANGED <<now, req, at, live, prior, dbVars>>

\* UpdateQuestStatus: whatever the status is by now.  Rows are never deleted, so
\* the row that GetRow saw is still there.
UpdateStatus(c) ==
  /\ pc[c] = "update"
  /\ LET q == req[c].payload IN
     \/ /\ Runs(c) /\ Visible(c, q)
        /\ quests' = [quests EXCEPT ![q].status = "canceled", ![q].completed = at[c]]
        /\ Goto(c, "event") /\ UNCHANGED outcome
     \/ Fails(c) /\ Conclude(c, "other", q) /\ UNCHANGED quests
  /\ UNCHANGED <<now, req, at, live, prior, snipes, events, keys, saved>>

----------------------------------------------------------------------------
(* The best-effort writes at the end of both. *)

Target(c) == IF req[c].op = "create" THEN c ELSE req[c].payload
EventOf(c) == [type |-> IF req[c].op = "create" THEN "submitted" ELSE "canceled", at |-> at[c]]

\* writeQuestEvent: a failure is logged and swallowed.
WriteEvent(c) ==
  /\ pc[c] = "event"
  /\ \/ /\ Runs(c) /\ Visible(c, Target(c))
        /\ events' = [events EXCEPT ![Target(c)] = Append(@, EventOf(c))]
     \/ Fails(c) /\ UNCHANGED events
  /\ Conclude(c, "ok", Target(c))
  /\ UNCHANGED <<now, req, at, live, prior, quests, snipes, keys, saved>>

\* PutIdempotencyResult: an upsert on the hash of user, scope, key and payload.
Put(c) ==
  LET row == [user |-> req[c].user, op |-> req[c].op, key |-> req[c].key,
              payload |-> req[c].payload, code |-> outcome[c].code,
              target |-> outcome[c].target, at |-> at[c]]
  IN keys' = {k \in keys : ~KeyHash(k, req[c])} \cup {row}

\* recordIdempotency and the return: a failure is logged and swallowed.
Record(c) ==
  /\ pc[c] = "record"
  /\ \/ req[c].key = NoKey /\ UNCHANGED <<keys, saved>>
     \/ /\ req[c].key # NoKey /\ Runs(c)
        /\ Put(c)
        /\ saved' = saved \cup {c}
     \/ req[c].key # NoKey /\ Fails(c) /\ UNCHANGED <<keys, saved>>
  /\ Goto(c, "ended")
  /\ UNCHANGED <<now, req, at, live, outcome, prior, quests, snipes, events>>

----------------------------------------------------------------------------
(* The environment *)

\* The client disconnects: net/http cancels the request's context.
Gone(c) ==
  /\ "gone" \in Faults
  /\ c \in Open /\ live[c]
  /\ live' = [live EXCEPT ![c] = FALSE]
  /\ UNCHANGED <<now, pc, req, at, outcome, prior, dbVars>>

\* The daemon dies and is started again: what is committed stays.
Crash ==
  /\ "crash" \in Faults
  /\ Open # {}
  /\ pc' = [c \in Calls |-> IF c \in Open THEN "died" ELSE pc[c]]
  /\ UNCHANGED <<now, req, at, live, outcome, prior, dbVars>>

\* Only a call that starts reads the clock.
Tick ==
  /\ now < MaxTime
  /\ \E c \in Calls : pc[c] = "idle"
  /\ now' = now + 1
  /\ UNCHANGED <<callVars, dbVars>>

Step(c) ==
  \/ LookupExact(c) \/ LookupPlain(c)
  \/ Prepare(c) \/ Persist(c) \/ SubmitRow(c) \/ SubmitEvent(c)
  \/ GetRow(c) \/ UpdateStatus(c)
  \/ WriteEvent(c) \/ Record(c)

Next ==
  \/ \E c \in Calls : Start(c) \/ Step(c) \/ Gone(c)
  \/ Crash
  \/ Tick

Spec == Init /\ [][Next]_vars

----------------------------------------------------------------------------
(* Properties *)

SameRequest(c, d) == KeyHash(req[c], req[d])

\* What CreateQuest and CancelQuest answer is so, also when the answer was
\* stored by another call: a create that succeeded names a quest of this user
\* and this goal that the engine has accepted (standard_quest.go:272-301), a
\* cancel that succeeded a quest of this user that is canceled (445-471).
AnswerIsReal ==
  \A c \in Calls : pc[c] = "ended" /\ outcome[c].code = "ok" =>
    LET q == outcome[c].target IN
      /\ q \in Calls
      /\ quests[q].user = req[c].user
      /\ req[c].op = "create" =>
           quests[q].goal = req[c].payload /\ snipes[q] = "announced"
      /\ req[c].op = "cancel" =>
           q = req[c].payload /\ quests[q].status = "canceled"

\* A quest is canceled by its owner only, and completed_at is the time of such
\* a call, whoever else asks with the same id (store/quests.go:285-305).
CanceledByOwner ==
  \A q \in Calls : quests[q].status = "canceled" =>
    \E c \in Calls :
      /\ req[c].op = "cancel" /\ req[c].payload = q
      /\ req[c].user = quests[q].user
      /\ pc[c] # "idle" /\ at[c] = quests[q].completed

\* A retry of a call whose outcome was recorded, made within the TTL of every
\* recorded outcome of that request, does no work again: it creates no quest,
\* updates nothing and answers what a recorded call answered, unless its own
\* lookup fails (standard_quest.go:194-214, 412-429).
RetryIsReplayed ==
  \A d \in Calls :
    LET same == {c \in saved : SameRequest(c, d)} IN
      /\ pc[d] # "idle"
      /\ same \cap prior[d] # {}
      /\ \A c \in same : at[d] < at[c] + TTL
      => /\ d \notin saved
         /\ pc[d] \in {"exact", "ended", "died"}
         /\ quests[d].status = "absent"
         /\ pc[d] = "ended" =>
              \/ \E c \in same : outcome[d] = outcome[c]
              \/ outcome[d].code = "other" /\ Fails(d)

\* A key recorded with one payload is refused for another one within the TTL: no
\* second quest hides behind a reused key (store/idempotency.go:190-209).  The
\* request itself must be new: an expired row of its own ends the lookup.  The
\* operation is part of the key: create and cancel under one key are both served,
\* where service-layer.md:190-191 has ErrConflict.
KeyReuseRefused ==
  \A d \in Calls :
    LET others == {c \in saved : SameKey(req[c], req[d])} IN
      /\ pc[d] # "idle" /\ others \cap prior[d] # {}
      /\ \A c \in others : ~SameRequest(c, d) /\ at[d] < at[c] + TTL
      => /\ pc[d] \in {"exact", "plain", "ended", "died"}
         /\ quests[d].status = "absent"
         /\ pc[d] = "ended" => outcome[d].code \in {"conflict", "other"}

\* One key, one quest: a create that is repeated with its key after the first one
\* is over, within the TTL, makes no second quest ("makes the call replayable
\* for idempotencyTTL (24h)", standard_quest.go:151-153).
OneQuestPerKey ==
  \A c, d \in Calls :
    /\ quests[c].status # "absent" /\ quests[d].status # "absent"
    /\ req[c].key # NoKey /\ SameRequest(c, d)
    /\ c \in prior[d] /\ at[d] < at[c] + TTL
    => FALSE
=============================================================================
