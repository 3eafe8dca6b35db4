------------------------------ MODULE Planning ------------------------------
(***************************************************************************)
(* `venue resolve`, `quest plan` and `quest create` from the command line  *)
(* to the quest: the resolver with its cache, PlanQuest, the confirmation, *)
(* and CreateQuest, which looks for the outcome of its idempotency key,    *)
(* plans again and compares hashes.  Commands run concurrently; time       *)
(* passes, the catalogue and the calendar change between any two steps.    *)
(* The statements of CreateQuest after the comparison and the two queries  *)
(* of its lookup are steps of their own in QuestService; the keys here are *)
(* those of one user.                                                      *)
(***************************************************************************)
EXTENDS Planner

CONSTANTS
  Calls,
  Scenarios,   \* the command lines, one for each call
  Catalogue,   \* Catalogue[k]: what the service may know under query k, sets of venues
  TTL,         \* the resolver's
  RequestTime, \* from the service's answer to the write of the cache (bound)
  IdemTTL,     \* idempotencyTTL
  MaxNow,      \* the clock stops here (bound)
  MaxChanges,  \* changes of the catalogue and the calendar (bound)
  Faults       \* "upstream": a request fails, "store": a statement fails

Keys    == DOMAIN Catalogue
NoRow   == [venues |-> {}, at |-> -1]
NoPlan  == <<>>
Missing == 0     \* a flag or a date that is not given; days and parties are positive
NoHint  == -1    \* a number of seats that is not given; 0 is one
NoErr   == "nil"
NoKey   == ""
NoQuest == 0     \* the quest of a call is the call's number

\* The days a command line may name: those with a day before them in the calendar.
Dates      == {Missing} \cup {d \in Days : d - 1 \in Days}
WallTimes  == Nat \X Nat
Kinds      == {"url", "slug", "half", "name"}
Priorities == {"none", "earlier", "later"}

Prefs == [start : WallTimes, end : WallTimes, priority : Priorities, tables : Seq(STRING)]

CommandLines ==
  [cmd : {"resolve", "plan", "create", "direct"},   \* direct: CreateQuest without a hash
   noCache : BOOLEAN, idempotencyKey : STRING,
   kind : Kinds,   \* half: a slug or a city, not both
   key : Keys, url : [host : STRING, path : STRING, date : Dates, seats : Int],
   date : Dates, party : Nat, account : STRING,
   after : SUBSET Calls,     \* the commands that have ended when this one is typed
   prefs : Prefs \X Prefs]   \* of the plan and of the quest

Venues == [ref : STRING, tz : DOMAIN Midnight \cup {NoTZ}]

ASSUME ScenariosAssumption == \A s \in Scenarios : s \in [Calls -> CommandLines]
ASSUME CatalogueAssumption == \A k \in Keys : Catalogue[k] \subseteq SUBSET Venues
ASSUME CallsAssumption  == Calls \subseteq Nat \ {NoQuest}
ASSUME TimeAssumption ==
  /\ TTL \in Nat \ {0} /\ IdemTTL \in Nat \ {0}
  /\ RequestTime \in Nat /\ MaxNow \in Nat /\ MaxChanges \in Nat
\* Every instant is in a day of every zone that the calendar knows the end of.
ASSUME CalendarAssumption ==
  \A z \in DOMAIN Midnight, t \in 0..MaxNow :
    \E d \in Days : d + 1 \in Days /\ Midnight[z][d] <= t /\ t < Midnight[z][d + 1]
ASSUME FaultsAssumption == Faults \subseteq {"upstream", "store"}

VARIABLES
  now,
  req,      \* the scenario, never changes
  \* the reservation service
  up,       \* its catalogue
  open,     \* its calendars show the date
  changes,
  \* the database
  venuesCache, nameSearchCache,   \* [venues, at]
  keys,     \* idempotency_keys: [key, goal, answer, quest, at]
  \* the commands
  pc,
  round,    \* 1: the plan that is shown, 2: CreateQuest's own
  called,   \* CreateQuest's now
  at,       \* PlanQuest's now
  row,      \* what the cache answered
  venues,   \* what Resolve chose from
  snap,     \* the calendar showed the date
  plan,     \* of each round
  answer,   \* what the command will answer, its answer once it has ended
  quest,    \* the quest that it answers with
  \* observers
  since,    \* when the cache was read
  stale,    \* the request to the service failed
  fetched,  \* when the service gave the answer that is to be written
  seen      \* seen[k][t]: what the service knew under k at t

envVars  == <<up, open, changes>>
cache    == <<venuesCache, nameSearchCache>>
quests   == <<keys, called, quest>>
callVars == <<pc, round, called, at, row, venues, snap, plan, answer, quest, since, stale, fetched>>
vars     == <<now, req, envVars, cache, keys, callVars, seen>>

Init ==
  /\ now = 0
  /\ req \in Scenarios
  /\ \E k \in Keys : \E vs \in Catalogue[k] :
       /\ k \in {req[c].key : c \in Calls}
       /\ up = [q \in Keys |-> IF q = k THEN vs ELSE {}]
  /\ open \in BOOLEAN
  /\ changes = 0
  /\ venuesCache = [k \in Keys |-> NoRow]
  /\ nameSearchCache = [k \in Keys |-> NoRow]
  /\ keys = {}
  /\ pc = [c \in Calls |-> "idle"]
  /\ round = [c \in Calls |-> 1]
  /\ called = [c \in Calls |-> 0]
  /\ at = [c \in Calls |-> 0]
  /\ row = [c \in Calls |-> NoRow]
  /\ venues = [c \in Calls |-> {}]
  /\ snap = [c \in Calls |-> FALSE]
  /\ plan = [c \in Calls |-> [n \in 1..2 |-> NoPlan]]
  /\ answer = [c \in Calls |-> "none"]
  /\ quest = [c \in Calls |-> NoQuest]
  /\ since = [c \in Calls |-> 0]
  /\ stale = [c \in Calls |-> FALSE]
  /\ fetched = [c \in Calls |-> 0]
  /\ seen = [k \in Keys |-> [t \in 0..MaxNow |-> IF t = 0 THEN {up[k]} ELSE {}]]

Goto(c, l) == pc' = [pc EXCEPT ![c] = l]

Return(c, a) ==
  /\ Goto(c, "ended")
  /\ answer' = [answer EXCEPT ![c] = a]

\* What CreateQuest comes to under a key is recorded before it is returned.
Answer(c, a) ==
  /\ Goto(c, IF round[c] = 2 /\ req[c].idempotencyKey # NoKey THEN "record" ELSE "ended")
  /\ answer' = [answer EXCEPT ![c] = a]

----------------------------------------------------------------------------
(* The command line. *)

\* A negative number of seats is dropped, none is kept for Validate to refuse.
parsePartyParam(n) == IF n < 0 THEN NoHint ELSE n

\* The first test that fails names the error; a bad parameter is no error.
ParseResyURL(u) ==
  [err |-> IF u.host = "none" THEN "ErrInvalidURL"
           ELSE IF u.host # "resy" THEN "ErrNotResyHost"
           ELSE IF u.path # "venue" THEN "ErrNotVenueURL" ELSE NoErr,
   date |-> u.date, party |-> parsePartyParam(u.seats)]

\* A query that is not a URL has no hints.
Hints(r) ==
  IF r.kind = "url" THEN ParseResyURL(r.url) ELSE [err |-> NoErr, date |-> Missing, party |-> NoHint]

\* The query becomes a URL, a slug with its city, or a name.
buildVenueQuery(r) == IF r.kind = "half" THEN "half" ELSE Hints(r).err

\* The flag wins, then the hint of the URL.
Day(r)   == IF r.date # Missing THEN r.date ELSE Hints(r).date
Party(r) == IF r.party # Missing THEN r.party ELSE Hints(r).party

\* The command sends the goal that it planned; another client of the service may not.
buildGoalFromOpts(r, n) ==
  [query |-> <<r.kind, r.key>>, account |-> r.account, date |-> Day(r), party |-> Party(r),
   start |-> r.prefs[n].start, end |-> r.prefs[n].end, priority |-> r.prefs[n].priority,
   tables |-> r.prefs[n].tables, any |-> r.prefs[n].tables = <<>>]

\* What a plan needs and the command line does not give.
FlagMissing(r) == r.account = NoAccount \/ Day(r) = Missing \/ Party(r) = NoHint

FlagError(r) == buildVenueQuery(r) # NoErr \/ (r.cmd # "resolve" /\ FlagMissing(r))

\* CreateQuest is called: it reads the clock, and only a key is looked up.
Call(c) ==
  /\ round' = [round EXCEPT ![c] = 2]
  /\ called' = [called EXCEPT ![c] = now]
  /\ Goto(c, IF req[c].idempotencyKey = NoKey THEN "validate" ELSE "replay")

\* Reads the flags; nothing is opened before they are right.  A client without a
\* plan calls CreateQuest at once.
Start(c) ==
  /\ pc[c] = "idle" /\ \A d \in req[c].after : pc[d] = "ended"
  /\ \/ /\ FlagError(req[c])
        /\ Return(c, "usage")
        /\ UNCHANGED <<round, called>>
     \/ /\ ~FlagError(req[c]) /\ req[c].cmd # "direct"
        /\ Goto(c, IF req[c].cmd = "resolve" THEN "lookup" ELSE "validate")
        /\ UNCHANGED <<round, called, answer>>
     \/ /\ ~FlagError(req[c]) /\ req[c].cmd = "direct"
        /\ Call(c)
        /\ UNCHANGED answer
  /\ UNCHANGED <<now, req, envVars, cache, keys, at, row, venues, snap, plan, quest, since, stale, fetched, seen>>

\* PlanQuest reads the clock and checks the goal.
Begin(c) ==
  /\ pc[c] = "validate"
  /\ at' = [at EXCEPT ![c] = now]
  /\ \/ /\ Validate(buildGoalFromOpts(req[c], round[c]), now)
        /\ Goto(c, "lookup")
        /\ UNCHANGED answer
     \/ /\ ~Validate(buildGoalFromOpts(req[c], round[c]), now)
        /\ Answer(c, "invalid")
  /\ UNCHANGED <<now, req, envVars, cache, quests, round, row, venues, snap, plan, since, stale, fetched, seen>>

----------------------------------------------------------------------------
(* The resolver. *)

\* pickFromHits; a slug has one venue.
Pick(c, vs) ==
  /\ venues' = [venues EXCEPT ![c] = vs]
  /\ CASE vs = {}              -> Answer(c, "notfound")
       [] Cardinality(vs) > 1  -> Answer(c, "ambiguous")
       [] req[c].cmd = "resolve" -> Answer(c, "ok")
       [] OTHER                -> Goto(c, "calendar") /\ UNCHANGED answer

\* Mutant: a row never goes stale.
isStaleNever(r) == FALSE

isStale(r) == now - r.at > TTL

\* A statement that fails and a row that does not decode are misses for the resolver.
Misses == IF "store" \in Faults THEN {NoRow} ELSE {}

GetVenueCache(k)      == {venuesCache[k]} \cup Misses
GetNameSearchCache(k) == {nameSearchCache[k]} \cup Misses

\* -no-cache: no row is read, rows are written.
noCacheReadShim == {NoRow}

Read(r) ==
  IF r.noCache THEN noCacheReadShim
  ELSE IF r.kind = "name" THEN GetNameSearchCache(r.key) ELSE GetVenueCache(r.key)

\* The cache is read: a fresh row is the answer, a stale one is kept for a failure.
Lookup(c) ==
  /\ pc[c] = "lookup"
  /\ \E r \in Read(req[c]) :
       IF r # NoRow /\ ~isStale(r)
       THEN Pick(c, r.venues) /\ UNCHANGED row
       ELSE /\ Goto(c, "fetch")
            /\ row' = [row EXCEPT ![c] = r]
            /\ venues' = [venues EXCEPT ![c] = {}]
            /\ UNCHANGED answer
  /\ since' = [since EXCEPT ![c] = now]
  /\ stale' = [stale EXCEPT ![c] = FALSE]
  /\ UNCHANGED <<now, req, envVars, cache, quests, round, at, snap, plan, fetched, seen>>

\* An unknown slug is an error, an unknown name a list without a hit.
Fetch(c) ==
  /\ pc[c] = "fetch"
  /\ IF req[c].kind # "name" /\ up[req[c].key] = {}
     THEN Answer(c, "notfound") /\ UNCHANGED <<venues, fetched>>
     ELSE /\ Goto(c, "write")
          /\ venues' = [venues EXCEPT ![c] = up[req[c].key]]
          /\ fetched' = [fetched EXCEPT ![c] = now]
          /\ UNCHANGED answer
  /\ row' = [row EXCEPT ![c] = NoRow]
  /\ UNCHANGED <<now, req, envVars, cache, quests, round, at, snap, plan, since, stale, seen>>

\* The request fails: a row of any age is better than none.
FetchFails(c) ==
  /\ pc[c] = "fetch" /\ "upstream" \in Faults
  /\ stale' = [stale EXCEPT ![c] = TRUE]
  /\ IF row[c] # NoRow THEN Pick(c, row[c].venues) ELSE Answer(c, "upstream") /\ UNCHANGED venues
  /\ row' = [row EXCEPT ![c] = NoRow]
  /\ UNCHANGED <<now, req, envVars, cache, quests, round, at, snap, plan, since, fetched, seen>>

\* An existing row is overwritten, whatever its age.
UpsertVenueCache(k, vs) ==
  /\ venuesCache' = [venuesCache EXCEPT ![k] = [venues |-> vs, at |-> now]]
  /\ UNCHANGED nameSearchCache

UpsertNameSearchCache(k, vs) ==
  /\ nameSearchCache' = [nameSearchCache EXCEPT ![k] = [venues |-> vs, at |-> now]]
  /\ UNCHANGED venuesCache

\* The write-through, which may fail, stamped with the clock of the write.
Write(c) ==
  /\ pc[c] = "write"
  /\ \/ req[c].kind = "name" /\ UpsertNameSearchCache(req[c].key, venues[c])
     \/ req[c].kind # "name" /\ UpsertVenueCache(req[c].key, venues[c])
     \/ "store" \in Faults /\ UNCHANGED cache
  /\ Pick(c, venues[c])
  /\ fetched' = [fetched EXCEPT ![c] = 0]
  /\ UNCHANGED <<now, req, envVars, quests, round, at, row, snap, plan, since, stale, seen>>

----------------------------------------------------------------------------
(* PlanQuest and CreateQuest. *)

Venue(c) == CHOOSE v \in venues[c] : TRUE

\* The calendar is best effort: no answer is as good as a date not shown.
Calendar(c) ==
  /\ pc[c] = "calendar"
  /\ \E b \in {open} \cup (IF "upstream" \in Faults THEN {FALSE} ELSE {}) :
       snap' = [snap EXCEPT ![c] = b]
  /\ Goto(c, "build")
  /\ UNCHANGED <<now, req, envVars, cache, quests, round, at, row, venues, plan, answer, since, stale, fetched, seen>>

Buildable(c) ==
  /\ Venue(c).tz # NoTZ
  /\ ~TargetInPast(buildGoalFromOpts(req[c], round[c]), Venue(c).tz, at[c])

\* A hash that the caller pins is that of the plan that it was shown.
PlanHashDiffers(c, p) == req[c].cmd = "create" /\ Hash(p) # Hash(plan[c][1])

\* The account, the quest's row, the engine and the event, or a failure among them.
Persist(c) ==
  \/ /\ Answer(c, "ok")
     /\ quest' = [quest EXCEPT ![c] = c]
  \/ /\ "store" \in Faults
     /\ Answer(c, "error")
     /\ UNCHANGED quest

\* BuildPlan; the first plan is shown, the second is compared with it if a hash is pinned.
Build(c) ==
  /\ pc[c] = "build"
  /\ IF ~Buildable(c) THEN Answer(c, "error") /\ UNCHANGED <<plan, quest>> ELSE
       LET p == BuildPlan(buildGoalFromOpts(req[c], round[c]), Venue(c), snap[c], at[c])
       IN  /\ plan' = [plan EXCEPT ![c][round[c]] = p]
           /\ CASE round[c] = 1 /\ req[c].cmd = "create" -> Goto(c, "confirm") /\ UNCHANGED <<answer, quest>>
                [] round[c] = 1 /\ req[c].cmd # "create" -> Answer(c, "ok") /\ UNCHANGED quest
                [] round[c] = 2 /\ PlanHashDiffers(c, p) -> Answer(c, "hash") /\ UNCHANGED quest
                [] OTHER -> Persist(c)
  /\ snap' = [snap EXCEPT ![c] = FALSE]
  /\ UNCHANGED <<now, req, envVars, cache, keys, called, round, at, row, venues, since, stale, fetched, seen>>

\* The user says yes, which sends CreateQuest with the hash, or no.
Confirm(c) ==
  /\ pc[c] = "confirm"
  /\ \/ /\ Call(c)
        /\ UNCHANGED answer
     \/ /\ Return(c, "declined")
        /\ UNCHANGED <<round, called>>
  /\ UNCHANGED <<now, req, envVars, cache, keys, at, row, venues, snap, plan, quest, since, stale, fetched, seen>>

----------------------------------------------------------------------------
(* The idempotency key. *)

Expired(k, c) == called[c] >= k.at + IdemTTL

\* The rows of the call's key, and among them the row of its goal.
OfKey(c)  == {k \in keys : k.key = req[c].idempotencyKey}
OfGoal(c) == {k \in OfKey(c) : k.goal = buildGoalFromOpts(req[c], 2)}

\* The row of this goal answers the call, whatever hash it pins.
Recorded(c, k) ==
  /\ Return(c, k.answer)
  /\ quest' = [quest EXCEPT ![c] = k.quest]

\* The lookup that comes before the plan: the row of this goal or else the freshest
\* row of the key.  An expired row ends it as no row does.
Replay(c) ==
  /\ pc[c] = "replay"
  /\ \/ \E k \in OfGoal(c) : ~Expired(k, c) /\ Recorded(c, k)
     \/ /\ OfGoal(c) = {}
        /\ \E k \in OfKey(c) : ~Expired(k, c) /\ \A l \in OfKey(c) : l.at <= k.at
        /\ Return(c, "conflict") /\ UNCHANGED quest
     \/ /\ \A k \in IF OfGoal(c) # {} THEN OfGoal(c) ELSE OfKey(c) : Expired(k, c)
        /\ Goto(c, "validate") /\ UNCHANGED <<answer, quest>>
     \/ "store" \in Faults /\ Return(c, "error") /\ UNCHANGED quest
  /\ UNCHANGED <<now, req, envVars, cache, keys, round, called, at, row, venues, snap, plan, since, stale, fetched, seen>>

\* recordIdempotency: the row of the key and the goal is overwritten; a failure is swallowed.
Record(c) ==
  /\ pc[c] = "record"
  /\ \/ keys' = (keys \ OfGoal(c)) \cup
                  {[key |-> req[c].idempotencyKey, goal |-> buildGoalFromOpts(req[c], 2),
                    answer |-> answer[c], quest |-> quest[c], at |-> called[c]]}
     \/ "store" \in Faults /\ UNCHANGED keys
  /\ Goto(c, "ended")
  /\ UNCHANGED <<now, req, envVars, cache, round, called, at, row, venues, snap, plan, answer, quest,
                 since, stale, fetched, seen>>

----------------------------------------------------------------------------
(* The world. *)

\* From the service's answer to the write of the cache at most RequestTime passes.
Tick ==
  /\ now < MaxNow
  /\ \A c \in Calls : pc[c] = "write" => now < fetched[c] + RequestTime
  /\ now' = now + 1
  /\ seen' = [k \in Keys |-> [seen[k] EXCEPT ![now + 1] = {up[k]}]]
  /\ UNCHANGED <<req, envVars, cache, keys, callVars>>

Rename ==
  /\ changes < MaxChanges
  /\ changes' = changes + 1
  /\ \E k \in {req[c].key : c \in Calls} : \E vs \in Catalogue[k] \ {up[k]} :
       /\ up' = [up EXCEPT ![k] = vs]
       /\ seen' = [seen EXCEPT ![k][now] = @ \cup {vs}]
  /\ UNCHANGED <<now, req, open, cache, keys, callVars>>

OpenDate ==
  /\ changes < MaxChanges
  /\ changes' = changes + 1
  /\ open' = ~open
  /\ UNCHANGED <<now, req, up, cache, keys, callVars, seen>>

Next ==
  \/ \E c \in Calls :
       \/ Start(c) \/ Begin(c) \/ Lookup(c) \/ Fetch(c) \/ FetchFails(c) \/ Write(c)
       \/ Calendar(c) \/ Build(c) \/ Confirm(c) \/ Replay(c) \/ Record(c)
  \/ Tick \/ Rename \/ OpenDate

Spec == Init /\ [][Next]_vars

----------------------------------------------------------------------------
(* Properties. *)

Pcs ==
  {"idle", "validate", "lookup", "fetch", "write", "calendar", "build", "confirm", "replay", "record", "ended"}
Answers ==
  {"none", "usage", "invalid", "notfound", "ambiguous", "upstream", "error", "hash", "conflict",
   "declined", "ok"}

CacheRows  == [venues : SUBSET Venues, at : -1..MaxNow]
Strategies == [tag : {"continuous", "discovered"}, from : Int, until : Int]

Goals ==
  [query : Kinds \X Keys, account : STRING, date : Dates, party : Int, start : WallTimes,
   end : WallTimes, priority : Priorities, tables : Seq(STRING), any : BOOLEAN]

Plans == [goal : Goals, venue : Venues, strategy : Strategies, drop : Int, fire : Seq(Int)]

KeyRows ==
  [key : STRING, goal : Goals, answer : Answers, quest : Calls \cup {NoQuest}, at : 0..MaxNow]

\* The type of every variable.
TypeOK ==
  /\ now \in 0..MaxNow
  /\ req \in [Calls -> CommandLines]
  /\ up \in [Keys -> SUBSET Venues] /\ open \in BOOLEAN /\ changes \in 0..MaxChanges
  /\ venuesCache \in [Keys -> CacheRows] /\ nameSearchCache \in [Keys -> CacheRows]
  /\ keys \subseteq KeyRows
  /\ pc \in [Calls -> Pcs] /\ answer \in [Calls -> Answers]
  /\ round \in [Calls -> 1..2] /\ quest \in [Calls -> Calls \cup {NoQuest}]
  /\ called \in [Calls -> 0..MaxNow] /\ at \in [Calls -> 0..MaxNow]
  /\ since \in [Calls -> 0..MaxNow] /\ fetched \in [Calls -> 0..MaxNow]
  /\ row \in [Calls -> CacheRows]
  /\ venues \in [Calls -> SUBSET Venues]
  /\ snap \in [Calls -> BOOLEAN] /\ stale \in [Calls -> BOOLEAN]
  /\ plan \in [Calls -> [1..2 -> Plans \cup {NoPlan}]]
  /\ seen \in [Keys -> [0..MaxNow -> SUBSET SUBSET Venues]]

Accepted(c) == req[c].cmd \in {"create", "direct"} /\ answer[c] = "ok"

\* The quest that the call made is the one of the plan that it was shown: its tables
\* are those of the plan, perhaps in another order, and but for that order the intent
\* for the engine, the drop moment and the slots are the same.
AsShown(c) ==
  LET shown == plan[c][1]
      made  == [plan[c][2] EXCEPT !.goal.tables = shown.goal.tables]
  IN  /\ SortedTables(plan[c][2].goal) = SortedTables(shown.goal)
      /\ intentFromPlan(made) = intentFromPlan(shown)
      /\ made.drop = shown.drop
      /\ ExpandSlots(made.goal) = ExpandSlots(shown.goal)

\* CreateQuest answers with a quest that it made itself or, without comparing any
\* hash, with the one that an earlier call made from the same goal under the same key
\* less than the TTL before.  Whichever call made it, with a hash pinned it made the
\* quest of the plan that this call was shown, whatever the time, the venue's row, the
\* catalogue and the calendar had become and whatever goal the client sent
\* (standard_quest.go:192-223, plan.go:142-149).
HashPinsPlan ==
  \A c \in Calls : Accepted(c) =>
    LET d == quest[c] IN
      /\ d \in Calls /\ Accepted(d) /\ quest[d] = d
      /\ req[d].cmd = "create" => AsShown(d)
      /\ d # c => /\ req[d].idempotencyKey = req[c].idempotencyKey
                  /\ plan[d][2].goal = buildGoalFromOpts(req[c], 2)
                  /\ called[c] < called[d] + IdemTTL

\* An answer of the resolver is one that the service gave within the TTL and the time
\* that an answer needs to reach the cache, also when several commands fill the cache
\* and when the venue has gone; only a failed request makes it older
\* (resolver.go:205-247, 250-289).
VenueRecent ==
  \A c \in Calls :
    venues[c] = {} \/ stale[c] \/
    \E t \in 0..now : t >= since[c] - TTL - RequestTime /\ venues[c] \in seen[req[c].key][t]

\* The engine is not given a quest whose time to probe or to poll had run out when
\* CreateQuest planned it, with or without a hash, but for a plan to poll that is made
\* in the last second of the venue's day: that one is over by less than a second
\* (strategy.go:174-177, 205-238).
AcceptedWindowOpen ==
  \A c \in Calls : Accepted(c) /\ quest[c] = c =>
    LET s == plan[c][2].strategy IN
      \/ s.until >= at[c]
      \/ s.tag = "continuous" /\ s.until + Second > at[c]

\* The slots of a goal: every step of its window, ends included, once, each at the
\* second of the start and with all tables in the user's order, and the times
\* descending for "later" and ascending for the other priorities.
CoversWindow(g) ==
  LET s      == ExpandSlots(g)
      times  == {x.time : x \in ToSet(s)}
      tables == IF g.any THEN <<NoTable>> ELSE g.tables
  IN  /\ {t[1] : t \in times} = {m \in g.start[1]..g.end[1] : (m - g.start[1]) % SlotStep = 0}
      /\ \A t \in times : t[2] = g.start[2]
      /\ Len(s) = Cardinality(times) * Len(tables)
      /\ \A t \in times : \E o \in 0..(Len(s) - Len(tables)) : \A i \in DOMAIN tables :
           s[o + i] = [time |-> t, table |-> tables[i]]
      /\ \A i, j \in DOMAIN s : i < j =>
           \/ s[i].time = s[j].time
           \/ g.priority = "later" /\ s[i].time[1] > s[j].time[1]
           \/ g.priority # "later" /\ s[i].time[1] < s[j].time[1]

\* The plan shows every step of the window at every table, ends included, each
\* once, in the order of the priority and within a time in the user's order of
\* tables, and schedules as many attempts.  The code decides where the documents
\* differ: minutes alone are compared with the end, so that the last time may be past
\* it by seconds of the start; a table that is named twice is tried twice; no priority
\* means ascending; polling has a schedule too (slots.go:60-130, plan.go:98).
SlotsCoverWindow ==
  \A c \in Calls, n \in 1..2 : plan[c][n] # NoPlan =>
    /\ CoversWindow(plan[c][n].goal)
    /\ Len(plan[c][n].fire) = Len(ExpandSlots(plan[c][n].goal))
=============================================================================
