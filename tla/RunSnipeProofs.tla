--------------------------- MODULE RunSnipeProofs ---------------------------
(***************************************************************************)
(* Proofs about Engine.Run and its timer callback, and about the command   *)
(* `snipe` around it, for every release, every clock, every poll interval, *)
(* any number of slots, of calls and of invocations, and any faults.       *)
(* What the booking race keeps is taken from its own proofs: RaceP is that *)
(* module, read with the variables of the command.                         *)
(***************************************************************************)
EXTENDS RunSnipe, TLAPS

RaceP == INSTANCE BookingRaceProofs

----------------------------------------------------------------------------
(* Engine.Run by itself. *)

\* A status the scheduling of Run has not left yet.
Waiting == {"submitted", "scheduled"}

\* Run and its callback are where waitAndFire has them: before the strategy, on Run's
\* goroutine, behind an armed or a fired timer, or stopped and joined.
ControlInv ==
  /\ run \in {"load", "schedule", "delay", "dead"} => timer = "off" /\ strat = "off"
  /\ run = "fire" => timer = "off" /\ strat # "off"
  /\ run = "select" => timer \in {"armed", "fired"} /\ (timer = "armed" => strat = "off")
  /\ run = "join" => timer = "fired"
  /\ run = "done" => timer # "armed" /\ strat \in {"off", "done"} /\ (timer = "fired" => strat = "done")
  /\ run # "done" => runErr = "running"

\* scheduled_at is the release's own time from the scheduling on, and the strategy
\* runs at that time or later.
SchedInv ==
  /\ row.status # "submitted" /\ release.kind # "continuous" => sched = release.from
  /\ timer = "fired" \/ strat \notin {"off", "done"} => now >= sched
  /\ run \in {"delay", "fire", "select", "join"} => row.status # "submitted"

\* What the strategy returned tells whether it moved the snipe.
ErrInv ==
  /\ strat = "done" /\ stratErr = "nil" /\ ~ctxDone => row.status \notin Waiting
  /\ strat \in {"off", "start"} => stratErr = "nil"

\* When the next poll may start.
PollInv ==
  /\ run \notin {"done", "dead"} /\ strat \in {"off", "start"} => earliest = 0
  /\ strat \in {"call", "pause"} => earliest <= now + PollFloor
  /\ strat = "pause" => wake >= earliest \/ wake = MaxTime
  /\ strat = "check" => now >= earliest \/ now = MaxTime

\* The inductive invariant.
RunInv ==
  /\ RelTypeOK
  /\ ControlInv
  /\ SchedInv
  /\ ErrInv
  /\ PollInv
  /\ NeverEarly
  /\ MemoryIsRow
  /\ NilMeansFired

----------------------------------------------------------------------------
\* forceStatus, when it succeeds, has rebuilt the status that it was asked for
\* (sqlite.go:219-247).
LEMMA ForcedStatus == \A s : forceStatus(s).ok => forceStatus(s).at = s
  <1>1. ASSUME NEW t, NEW w, NEW path, w.ok => w.at = t
        PROVE  tryPath(t, w, path).ok => tryPath(t, w, path).at = t
    BY <1>1 DEF tryPath
  <1>2. ASSUME NEW t PROVE forceStatus(t).ok => forceStatus(t).at = t
    <2>. DEFINE start == [at |-> "submitted", ok |-> t = "submitted"]
                first == tryPath(t, start, statusPaths(t)[1])
                second == tryPath(t, first, statusPaths(t)[2])
    <2>1. start.ok => start.at = t
      OBVIOUS
    <2>. HIDE DEF start
    <2>2. first.ok => first.at = t
      BY <1>1, <2>1
    <2>. HIDE DEF first
    <2>3. second.ok => second.at = t
      BY <1>1, <2>2
    <2>. HIDE DEF second
    <2>4. forceStatus(t) \in {start, first, second}
      BY DEF forceStatus, start, first, second
    <2>5. QED
      BY <2>1, <2>2, <2>3, <2>4
  <1>3. QED
    BY <1>2

\* The transition gate: the row and its copy move together to a status the table allows,
\* or stay.
LEMMA Gate ==
  ASSUME NEW to, NEW event \in AllEventTypes, row \in SnipeRows, mem = row, log \in Seq(AllEventTypes),
         to \in AllStatuses, Commits(mem, to, event) \/ Rejects(mem, to)
  PROVE  /\ row' \in SnipeRows /\ mem' = row' /\ log' \in Seq(AllEventTypes)
         /\ row' = row \/ row'.status = to
         /\ Commits(mem, to, event) => row'.status = to
  <1>1. [row EXCEPT !.status = to] \in SnipeRows /\ [row EXCEPT !.status = to].status = to
    BY DEF SnipeRows
  <1>2. CASE Commits(mem, to, event)
    BY <1>1, <1>2 DEF Commits
  <1>3. CASE ~Commits(mem, to, event) /\ Rejects(mem, to)
    BY <1>3 DEF Rejects, dbVars
  <1>4. QED
    BY <1>2, <1>3

\* It holds before Run is called.
LEMMA RunInitInv == RelInit => RunInv
  <1>. SUFFICES ASSUME RelInit PROVE RunInv
    OBVIOUS
  <1>1. [status |-> "submitted", result |-> NoResult] \in SnipeRows
    BY DEF SnipeRows, AllStatuses
  <1>2. <<"submitted">> \in Seq(AllEventTypes)
    BY DEF AllEventTypes
  <1>3. RelTypeOK
    <2>1. row \in SnipeRows /\ mem \in SnipeRows /\ log \in Seq(AllEventTypes) /\ release \in Releases
      BY <1>1, <1>2 DEF RelInit, RunInit
    <2>2. 0 \in 0..MaxTime /\ 0 \in 0..(MaxTime + PollFloor) /\ 1 \in 0..MaxCalls
      BY ReleasesAssumption, ClockAssumption, MaxCallsAssumption
    <2>3. QED
      BY <2>1, <2>2 DEF RelInit, RunInit, RelTypeOK, Errs
  <1>4. ControlInv /\ SchedInv /\ ErrInv /\ PollInv
    BY ReleasesAssumption, ClockAssumption, MaxCallsAssumption
    DEF RelInit, RunInit, ControlInv, SchedInv, ErrInv, PollInv
  <1>5. NeverEarly /\ MemoryIsRow /\ NilMeansFired
    BY DEF RelInit, RunInit, NeverEarly, MemoryIsRow, NilMeansFired
  <1>6. QED
    BY <1>3, <1>4, <1>5 DEF RunInv

\* While the strategy runs, Run waits for it, the copy in memory is the row, and the
\* scheduled time has come.
LEMMA StrategyRuns ==
  ASSUME RunInv, strat \notin {"off", "done"}
  PROVE  /\ run \in {"fire", "select", "join"} /\ runErr = "running"
         /\ mem = row /\ row \in SnipeRows /\ row.status # "submitted" /\ log \in Seq(AllEventTypes)
         /\ now >= sched
         /\ release.kind # "continuous" => now >= release.from
  BY DEF RunInv, RelTypeOK, ControlInv, SchedInv, MemoryIsRow

\* The invariant is inductive.
LEMMA RunStepInv == RunInv /\ [RelNext]_RelVars => RunInv'
  <1>. SUFFICES ASSUME RunInv, [RelNext]_RelVars PROVE RunInv'
    OBVIOUS
  <1>0. RelTypeOK /\ ControlInv /\ SchedInv /\ ErrInv /\ PollInv /\ NeverEarly /\ MemoryIsRow /\ NilMeansFired
    BY DEF RunInv
  <1>a. /\ MaxTime \in Nat /\ PollFloor \in Nat \ {0} /\ MaxCalls \in Nat
        /\ release.from \in 0..MaxTime /\ release.until \in 0..MaxTime
    BY <1>0, ReleasesAssumption, ClockAssumption, MaxCallsAssumption DEF RelTypeOK, ReleaseStrategies
  <1>1. CASE Delay
    <2>1. RelTypeOK'
      BY <1>0, <1>a, <1>1 DEF RelTypeOK, Errs, Delay
    <2>2. ControlInv' /\ SchedInv' /\ ErrInv' /\ PollInv'
      BY <1>0, <1>a, <1>1 DEF RelTypeOK, ControlInv, SchedInv, ErrInv, PollInv, MemoryIsRow, Delay
    <2>3. NeverEarly' /\ MemoryIsRow' /\ NilMeansFired'
      BY <1>0, <1>a, <1>1 DEF RelTypeOK, ControlInv, NeverEarly, MemoryIsRow, NilMeansFired, ErrInv,
         Delay
    <2>4. QED
      BY <2>1, <2>2, <2>3 DEF RunInv
  <1>2. CASE FireReturns
    <2>1. RelTypeOK'
      BY <1>0, <1>a, <1>2 DEF RelTypeOK, Errs, FireReturns, RunReturns
    <2>2. ControlInv' /\ SchedInv' /\ ErrInv' /\ PollInv'
      BY <1>0, <1>a, <1>2 DEF RelTypeOK, ControlInv, SchedInv, ErrInv, PollInv, MemoryIsRow, FireReturns,
         RunReturns
    <2>3. NeverEarly' /\ MemoryIsRow' /\ NilMeansFired'
      BY <1>0, <1>a, <1>2 DEF RelTypeOK, ControlInv, NeverEarly, MemoryIsRow, NilMeansFired, ErrInv,
         Waiting, FireReturns, RunReturns
    <2>4. QED
      BY <2>1, <2>2, <2>3 DEF RunInv
  <1>3. CASE SelectDone
    <2>1. RelTypeOK'
      BY <1>0, <1>a, <1>3 DEF RelTypeOK, Errs, SelectDone, RunReturns
    <2>2. ControlInv' /\ SchedInv' /\ ErrInv' /\ PollInv'
      BY <1>0, <1>a, <1>3 DEF RelTypeOK, ControlInv, SchedInv, ErrInv, PollInv, MemoryIsRow, SelectDone,
         RunReturns
    <2>3. NeverEarly' /\ MemoryIsRow' /\ NilMeansFired'
      BY <1>0, <1>a, <1>3 DEF RelTypeOK, ControlInv, NeverEarly, MemoryIsRow, NilMeansFired, ErrInv,
         Waiting, SelectDone, RunReturns
    <2>4. QED
      BY <2>1, <2>2, <2>3 DEF RunInv
  <1>4. CASE SelectCtx
    <2>1. RelTypeOK'
      BY <1>0, <1>a, <1>4 DEF RelTypeOK, Errs, SelectCtx, RunReturns
    <2>2. ControlInv' /\ SchedInv' /\ ErrInv' /\ PollInv'
      BY <1>0, <1>a, <1>4 DEF RelTypeOK, ControlInv, SchedInv, ErrInv, PollInv, MemoryIsRow, SelectCtx,
         RunReturns
    <2>3. NeverEarly' /\ MemoryIsRow' /\ NilMeansFired'
      BY <1>0, <1>a, <1>4 DEF RelTypeOK, ControlInv, NeverEarly, MemoryIsRow, NilMeansFired, ErrInv,
         SelectCtx, RunReturns
    <2>4. QED
      BY <2>1, <2>2, <2>3 DEF RunInv
  <1>5. CASE Join
    <2>1. RelTypeOK'
      BY <1>0, <1>a, <1>5 DEF RelTypeOK, Errs, Join, RunReturns
    <2>2. ControlInv' /\ SchedInv' /\ ErrInv' /\ PollInv'
      BY <1>0, <1>a, <1>5 DEF RelTypeOK, ControlInv, SchedInv, ErrInv, PollInv, MemoryIsRow, Join,
         RunReturns
    <2>3. NeverEarly' /\ MemoryIsRow' /\ NilMeansFired'
      BY <1>0, <1>a, <1>5 DEF RelTypeOK, ControlInv, NeverEarly, MemoryIsRow, NilMeansFired, ErrInv,
         Join, RunReturns
    <2>4. QED
      BY <2>1, <2>2, <2>3 DEF RunInv
  <1>6. CASE TimerExpires
    <2>1. RelTypeOK'
      BY <1>0, <1>a, <1>6 DEF RelTypeOK, Errs, TimerExpires
    <2>2. ControlInv' /\ SchedInv' /\ ErrInv' /\ PollInv'
      BY <1>0, <1>a, <1>6 DEF RelTypeOK, ControlInv, SchedInv, ErrInv, PollInv, MemoryIsRow, TimerExpires
    <2>3. NeverEarly' /\ MemoryIsRow' /\ NilMeansFired'
      BY <1>0, <1>a, <1>6 DEF RelTypeOK, ControlInv, NeverEarly, MemoryIsRow, NilMeansFired, ErrInv,
         TimerExpires
    <2>4. QED
      BY <2>1, <2>2, <2>3 DEF RunInv
  <1>7. CASE Callback
    <2>1. RelTypeOK'
      BY <1>0, <1>a, <1>7 DEF RelTypeOK, Errs, Callback
    <2>2. ControlInv' /\ SchedInv' /\ ErrInv' /\ PollInv'
      BY <1>0, <1>a, <1>7 DEF RelTypeOK, ControlInv, SchedInv, ErrInv, PollInv, MemoryIsRow, Callback
    <2>3. NeverEarly' /\ MemoryIsRow' /\ NilMeansFired'
      BY <1>0, <1>a, <1>7 DEF RelTypeOK, ControlInv, NeverEarly, MemoryIsRow, NilMeansFired, ErrInv,
         Callback
    <2>4. QED
      BY <2>1, <2>2, <2>3 DEF RunInv
  <1>8. CASE Poll
    <2>1. RelTypeOK'
      BY <1>0, <1>a, <1>8 DEF RelTypeOK, Errs, Poll, StratReturns
    <2>2. ControlInv' /\ SchedInv' /\ ErrInv' /\ PollInv'
      BY <1>0, <1>a, <1>8 DEF RelTypeOK, ControlInv, SchedInv, ErrInv, PollInv, MemoryIsRow, Poll,
         StratReturns
    <2>3. NeverEarly' /\ MemoryIsRow' /\ NilMeansFired'
      BY <1>0, <1>a, <1>8 DEF RelTypeOK, ControlInv, NeverEarly, MemoryIsRow, NilMeansFired, ErrInv,
         Poll, StratReturns
    <2>4. QED
      BY <2>1, <2>2, <2>3 DEF RunInv
  <1>9. CASE RecordObserved
    <2>1. RelTypeOK'
      BY <1>0, <1>a, <1>9, ZenonT(60) DEF RelTypeOK, Errs, RecordObserved
    <2>2. ControlInv' /\ SchedInv' /\ ErrInv' /\ PollInv'
      BY <1>0, <1>a, <1>9 DEF RelTypeOK, ControlInv, SchedInv, ErrInv, PollInv, MemoryIsRow, RecordObserved
    <2>3. NeverEarly' /\ MemoryIsRow' /\ NilMeansFired'
      BY <1>0, <1>a, <1>9 DEF RelTypeOK, ControlInv, NeverEarly, MemoryIsRow, NilMeansFired, ErrInv,
         RecordObserved
    <2>4. QED
      BY <2>1, <2>2, <2>3 DEF RunInv
  <1>10. CASE Pause
    <2>1. RelTypeOK'
      BY <1>0, <1>a, <1>10 DEF RelTypeOK, Errs, Pause, StratReturns
    <2>2. ControlInv' /\ SchedInv' /\ ErrInv' /\ PollInv'
      BY <1>0, <1>a, <1>10 DEF RelTypeOK, ControlInv, SchedInv, ErrInv, PollInv, MemoryIsRow, Pause,
         StratReturns
    <2>3. NeverEarly' /\ MemoryIsRow' /\ NilMeansFired'
      BY <1>0, <1>a, <1>10 DEF RelTypeOK, ControlInv, NeverEarly, MemoryIsRow, NilMeansFired, ErrInv,
         Pause, StratReturns
    <2>4. QED
      BY <2>1, <2>2, <2>3 DEF RunInv
  <1>11. CASE RelTick
    <2>1. RelTypeOK'
      BY <1>0, <1>a, <1>11 DEF RelTypeOK, Errs, RelTick
    <2>2. ControlInv' /\ SchedInv' /\ ErrInv' /\ PollInv'
      BY <1>0, <1>a, <1>11 DEF RelTypeOK, ControlInv, SchedInv, ErrInv, PollInv, MemoryIsRow, RelTick
    <2>3. NeverEarly' /\ MemoryIsRow' /\ NilMeansFired'
      BY <1>0, <1>a, <1>11 DEF RelTypeOK, ControlInv, NeverEarly, MemoryIsRow, NilMeansFired, ErrInv,
         RelTick
    <2>4. QED
      BY <2>1, <2>2, <2>3 DEF RunInv
  <1>12. CASE RelShutdown
    <2>1. RelTypeOK'
      BY <1>0, <1>a, <1>12 DEF RelTypeOK, Errs, RelShutdown, runVars
    <2>2. ControlInv' /\ SchedInv' /\ ErrInv' /\ PollInv'
      BY <1>0, <1>a, <1>12 DEF RelTypeOK, ControlInv, SchedInv, ErrInv, PollInv, MemoryIsRow, RelShutdown,
         runVars
    <2>3. NeverEarly' /\ MemoryIsRow' /\ NilMeansFired'
      BY <1>0, <1>a, <1>12 DEF RelTypeOK, ControlInv, NeverEarly, MemoryIsRow, NilMeansFired, ErrInv,
         RelShutdown, runVars
    <2>4. QED
      BY <2>1, <2>2, <2>3 DEF RunInv
  <1>13. CASE RelCrash
    <2>1. RelTypeOK'
      BY <1>0, <1>a, <1>13 DEF RelTypeOK, Errs, RelCrash
    <2>2. ControlInv' /\ SchedInv' /\ ErrInv' /\ PollInv'
      BY <1>0, <1>a, <1>13 DEF RelTypeOK, ControlInv, SchedInv, ErrInv, PollInv, MemoryIsRow, RelCrash
    <2>3. NeverEarly' /\ MemoryIsRow' /\ NilMeansFired'
      BY <1>0, <1>a, <1>13 DEF RelTypeOK, ControlInv, NeverEarly, MemoryIsRow, NilMeansFired, ErrInv,
         RelCrash
    <2>4. QED
      BY <2>1, <2>2, <2>3 DEF RunInv
  <1>14. CASE CallAgain
    <2>1. RelTypeOK'
      <3>1. calls' \in 0..MaxCalls /\ earliest' \in 0..(MaxTime + PollFloor)
        BY <1>0, <1>a, <1>14 DEF RelTypeOK, CallAgain
      <3>2. QED
        BY <1>0, <1>14, <3>1 DEF RelTypeOK, Errs, CallAgain
    <2>2. ControlInv' /\ SchedInv' /\ ErrInv' /\ PollInv'
      BY <1>0, <1>a, <1>14 DEF RelTypeOK, ControlInv, SchedInv, ErrInv, PollInv, MemoryIsRow, CallAgain
    <2>3. NeverEarly' /\ MemoryIsRow' /\ NilMeansFired'
      BY <1>0, <1>a, <1>14 DEF RelTypeOK, ControlInv, NeverEarly, MemoryIsRow, NilMeansFired, ErrInv,
         CallAgain
    <2>4. QED
      BY <2>1, <2>2, <2>3 DEF RunInv
  <1>15. CASE UNCHANGED RelVars
    BY <1>0, <1>15 DEF RunInv, RelTypeOK, ControlInv, SchedInv, ErrInv, PollInv, NeverEarly, MemoryIsRow,
       NilMeansFired, RelVars, runVars
  <1>16. CASE RunLoad
    <2>1. run' \in {"schedule", "done"} /\ (run' = "schedule" => mem' = row) /\ mem' \in SnipeRows
          /\ (run' = "schedule" => UNCHANGED runErr) /\ (run' = "done" => runErr' \in {"ctx", "err"})
      <3>1. CASE RunReturns("err") /\ UNCHANGED mem
        BY <1>0, <3>1 DEF RunReturns, RelTypeOK
      <3>2. CASE RunReturns(FailureErr) /\ UNCHANGED mem
        BY <1>0, <3>2 DEF RunReturns, FailureErr, RelTypeOK
      <3>3. CASE /\ forceStatus(row.status).ok
                 /\ mem' = [row EXCEPT !.status = forceStatus(row.status).at]
                 /\ run' = "schedule" /\ UNCHANGED runErr
        <4>1. forceStatus(row.status).at = row.status
          BY <3>3, ForcedStatus
        <4>2. [row EXCEPT !.status = row.status] = row
          BY <1>0 DEF RelTypeOK, SnipeRows
        <4>3. QED
          BY <1>0, <3>3, <4>1, <4>2 DEF RelTypeOK
      <3>4. QED
        BY <1>16, <3>1, <3>2, <3>3 DEF RunLoad
    <2>2. RelTypeOK'
      BY <1>0, <1>16, <2>1 DEF RelTypeOK, Errs, RunLoad
    <2>3. ControlInv' /\ SchedInv' /\ ErrInv' /\ PollInv'
      BY <1>0, <1>16, <2>1 DEF ControlInv, SchedInv, ErrInv, PollInv, RunLoad
    <2>4. NeverEarly' /\ MemoryIsRow' /\ NilMeansFired'
      BY <1>0, <1>16, <2>1 DEF ControlInv, NeverEarly, MemoryIsRow, NilMeansFired, RunLoad
    <2>5. QED
      BY <2>2, <2>3, <2>4 DEF RunInv
  <1>17. CASE Schedule
    <2>1. /\ run = "schedule" /\ mem = row /\ timer = "off" /\ strat = "off" /\ runErr = "running"
          /\ UNCHANGED <<ctxDone, release, observed, now, timer, strat, stratErr, wake, earliest, calls>>
      BY <1>0, <1>17 DEF Schedule, ControlInv, MemoryIsRow
    <2>2. CASE row.status = "submitted" /\ Commits(mem, "scheduled", "scheduled")
               /\ sched' = scheduledAtFromIntent /\ run' = "delay" /\ UNCHANGED runErr
      <3>1. /\ row' \in SnipeRows /\ mem' = row' /\ log' \in Seq(AllEventTypes)
            /\ row'.status = "scheduled"
        BY <1>0, <2>1, <2>2, Gate DEF RelTypeOK, AllStatuses, AllEventTypes
      <3>2. sched' \in 0..MaxTime /\ (release.kind # "continuous" => sched' = release.from)
        BY <1>0, <1>a, <2>2 DEF scheduledAtFromIntent, RelTypeOK
      <3>3. RelTypeOK'
        BY <1>0, <2>1, <2>2, <3>1, <3>2 DEF RelTypeOK
      <3>4. QED
        BY <1>0, <2>1, <2>2, <3>1, <3>2, <3>3 DEF RunInv, ControlInv, SchedInv, ErrInv, PollInv, NeverEarly,
           MemoryIsRow, NilMeansFired
    <2>3. CASE /\ Rejects(mem, "scheduled") /\ RunReturns(FailureErr) /\ UNCHANGED sched
      <3>1. /\ UNCHANGED <<row, log, mem>> /\ run' = "done" /\ runErr' \in {"ctx", "err"}
        BY <2>3 DEF Rejects, dbVars, RunReturns, FailureErr
      <3>2. RelTypeOK'
        BY <1>0, <2>1, <2>3, <3>1 DEF RelTypeOK, Errs
      <3>3. QED
        BY <1>0, <2>1, <2>3, <3>1, <3>2 DEF RunInv, ControlInv, SchedInv, ErrInv, PollInv, NeverEarly,
           MemoryIsRow, NilMeansFired
    <2>4. CASE row.status = "scheduled" /\ run' = "delay" /\ UNCHANGED <<row, log, mem, sched, runErr>>
      <3>1. RelTypeOK'
        BY <1>0, <2>1, <2>4 DEF RelTypeOK
      <3>2. QED
        BY <1>0, <2>1, <2>4, <3>1 DEF RunInv, ControlInv, SchedInv, ErrInv, PollInv, NeverEarly, MemoryIsRow,
           NilMeansFired
    <2>5. CASE row.status \notin Waiting /\ RunReturns("nil") /\ UNCHANGED <<row, log, mem, sched>>
      <3>1. RelTypeOK'
        BY <1>0, <2>1, <2>5 DEF RelTypeOK, RunReturns, Errs
      <3>2. QED
        BY <1>0, <2>1, <2>5, <3>1 DEF RunInv, ControlInv, SchedInv, ErrInv, PollInv, NeverEarly, MemoryIsRow,
           NilMeansFired, RunReturns, Waiting
    <2>6. QED
      BY <1>17, <2>1, <2>2, <2>3, <2>4, <2>5 DEF Schedule, Waiting
  <1>b. ASSUME strat \notin {"off", "done"},
               row' \in SnipeRows, mem' = row', log' \in Seq(AllEventTypes),
               row'.status # "submitted",
               strat' \in {"check", "call", "done"}, stratErr' \in Errs,
               strat' = "done" /\ stratErr' = "nil" => row'.status \notin Waiting,
               earliest' \in 0..(MaxTime + PollFloor),
               strat' = "check" => earliest' = 0, strat' = "call" => earliest' <= now + PollFloor,
               UNCHANGED <<ctxDone, release, sched, observed, now, run, timer, runErr, wake, calls>>
        PROVE  RunInv'
    <2>1. /\ run \in {"fire", "select", "join"} /\ runErr = "running" /\ now >= sched
          /\ release.kind # "continuous" => now >= release.from
      BY <1>b, StrategyRuns
    <2>2. RelTypeOK'
      BY <1>0, <1>b DEF RelTypeOK
    <2>3. ControlInv' /\ SchedInv' /\ ErrInv' /\ PollInv'
      BY <1>0, <1>a, <1>b, <2>1, StrategyRuns DEF RelTypeOK, ControlInv, SchedInv, ErrInv, PollInv
    <2>4. NeverEarly' /\ MemoryIsRow' /\ NilMeansFired'
      BY <1>0, <1>b, <2>1 DEF NeverEarly, MemoryIsRow, NilMeansFired
    <2>5. QED
      BY <2>2, <2>3, <2>4 DEF RunInv
  <1>c. ASSUME NEW to \in AllStatuses \ Waiting, NEW event \in AllEventTypes,
               strat \notin {"off", "done"}, FinalTransition(to, event)
        PROVE  /\ row' \in SnipeRows /\ mem' = row' /\ log' \in Seq(AllEventTypes)
               /\ row'.status # "submitted" /\ strat' = "done" /\ stratErr' \in Errs
               /\ stratErr' = "nil" => row'.status \notin Waiting
    <2>1. mem = row /\ row \in SnipeRows /\ log \in Seq(AllEventTypes) /\ row.status # "submitted"
      BY <1>c, StrategyRuns
    <2>2. to # "submitted" /\ to \in AllStatuses
      BY <1>c DEF Waiting
    <2>3. CASE Commits(mem, to, event) /\ StratReturns("nil")
      BY <1>c, <2>1, <2>2, <2>3, Gate DEF StratReturns, Errs
    <2>4. CASE Rejects(mem, to) /\ StratReturns(FailureErr)
      BY <2>1, <2>2, <2>4, Gate DEF StratReturns, FailureErr, Errs
    <2>5. QED
      BY <1>c, <2>3, <2>4 DEF FinalTransition
  <1>d. /\ {"awaiting", "failed", "expired", "discovering"} \subseteq AllStatuses \ Waiting
        /\ {"released", "discovered", "failed", "expired", "found"} \subseteq AllEventTypes
    BY DEF AllStatuses, Waiting, AllEventTypes
  <1>18. CASE StratStart
    <2>0. /\ strat = "start" /\ mem = row /\ row \in SnipeRows /\ log \in Seq(AllEventTypes)
          /\ row.status # "submitted" /\ earliest = 0
          /\ UNCHANGED <<ctxDone, release, sched, observed, now, run, timer, runErr, wake, earliest, calls>>
      BY <1>0, <1>18, StrategyRuns DEF StratStart, PollInv
    <2>1. CASE FinalTransition("awaiting", "released")
      BY <1>0, <1>b, <1>c, <1>d, <2>0, <2>1 DEF RelTypeOK
    <2>2. CASE StratReturns("err") /\ UNCHANGED <<row, log, mem>>
      BY <1>0, <1>b, <2>0, <2>2 DEF RelTypeOK, StratReturns, Errs
    <2>3. CASE Commits(mem, "discovering", "discovered") /\ strat' = "check" /\ UNCHANGED stratErr
      <3>1. /\ row' \in SnipeRows /\ mem' = row' /\ log' \in Seq(AllEventTypes)
            /\ row'.status = "discovering"
        BY <1>d, <2>0, <2>3, Gate
      <3>2. QED
        BY <1>0, <1>b, <2>0, <2>3, <3>1 DEF RelTypeOK
    <2>4. CASE Rejects(mem, "discovering") /\ StratReturns(FailureErr)
      BY <1>0, <1>b, <2>0, <2>4 DEF RelTypeOK, Rejects, dbVars, StratReturns, FailureErr, Errs
    <2>5. CASE strat' = "check" /\ UNCHANGED <<row, log, mem, stratErr>>
      BY <1>0, <1>b, <2>0, <2>5 DEF RelTypeOK
    <2>6. QED
      BY <1>18, <2>1, <2>2, <2>3, <2>4, <2>5 DEF StratStart
  <1>19. CASE Check
    <2>0. /\ strat = "check" /\ mem = row /\ row \in SnipeRows /\ log \in Seq(AllEventTypes)
          /\ row.status # "submitted"
          /\ UNCHANGED <<ctxDone, release, sched, observed, now, run, timer, runErr, wake, calls>>
      BY <1>0, <1>19, StrategyRuns DEF Check
    <2>1. CASE StratReturns("ctx") /\ UNCHANGED <<row, log, mem, earliest>>
      BY <1>0, <1>b, <2>0, <2>1 DEF RelTypeOK, StratReturns, Errs
    <2>2. CASE (FinalTransition("failed", "failed") \/ FinalTransition("expired", "expired")) /\ UNCHANGED earliest
      BY <1>0, <1>b, <1>c, <1>d, <2>0, <2>2 DEF RelTypeOK
    <2>3. CASE strat' = "call" /\ earliest' = now + PollFloor /\ UNCHANGED <<row, log, mem, stratErr>>
      <3>1. earliest' \in 0..(MaxTime + PollFloor) /\ earliest' <= now + PollFloor
        BY <1>0, <1>a, <2>3 DEF RelTypeOK
      <3>2. QED
        BY <1>0, <1>b, <2>0, <2>3, <3>1 DEF RelTypeOK
    <2>4. QED
      BY <1>19, <2>1, <2>2, <2>3 DEF Check
  <1>20. CASE Released
    <2>0. /\ strat = "released"
          /\ UNCHANGED <<ctxDone, release, sched, observed, now, run, timer, runErr, wake, earliest, calls>>
      BY <1>20 DEF Released
    <2>1. FinalTransition("awaiting", "released") \/ FinalTransition("awaiting", "found")
      BY <1>20 DEF Released
    <2>2. QED
      BY <1>0, <1>b, <1>c, <1>d, <2>0, <2>1 DEF RelTypeOK
  <1>21. QED
    BY <1>1, <1>2, <1>3, <1>4, <1>5, <1>6, <1>7, <1>8, <1>9, <1>10, <1>11, <1>12, <1>13, <1>14, <1>15, <1>16, <1>17,
       <1>18, <1>19, <1>20 DEF RelNext, RunStep, StratStep

\* Every reachable state satisfies it.
LEMMA RunInvariant == RelSpec => []RunInv
  BY RunInitInv, RunStepInv, PTL DEF RelSpec

\* Every variable of Engine.Run keeps its type.
THEOREM RunTypes == RelSpec => []RelTypeOK
  <1>1. RunInv => RelTypeOK
    BY DEF RunInv
  <1>2. QED
    BY <1>1, RunInvariant, PTL

\* No callback outlives the call of Run that armed it (run.go, waitAndFire).
THEOREM CallbackEndsWithRun == RelSpec => []NoCallbackAfterReturn
  <1>1. RunInv => NoCallbackAfterReturn
    BY DEF RunInv, ControlInv, NoCallbackAfterReturn
  <1>2. QED
    BY <1>1, RunInvariant, PTL

\* No strategy probes or releases before the scheduled time, in any call of Run.
THEOREM ReleasedInTime == RelSpec => []NeverEarly
  <1>1. RunInv => NeverEarly
    BY DEF RunInv
  <1>2. QED
    BY <1>1, RunInvariant, PTL

\* The snipe in memory is the persisted one at every step of Run and of the callback.
THEOREM MemoryFollowsRow == RelSpec => []MemoryIsRow
  <1>1. RunInv => MemoryIsRow
    BY DEF RunInv
  <1>2. QED
    BY <1>1, RunInvariant, PTL

\* Run returns nil, not cancelled, only when the snipe has left "scheduled".
THEOREM NilIsFired == RelSpec => []NilMeansFired
  <1>1. RunInv => NilMeansFired
    BY DEF RunInv
  <1>2. QED
    BY <1>1, RunInvariant, PTL

\* Two polls of a strategy run start at least the poll interval apart (release.go,
\* waitWithCtx).
THEOREM PollsKeepInterval == RelSpec => PollsSpaced
  <1>1. ASSUME RunInv, [RelNext]_RelVars, strat = "check", strat' = "call" PROVE now >= earliest
    <2>1. Check
      BY <1>1 DEF RelNext, RunStep, StratStep, RunLoad, Schedule, Delay, FireReturns,
         SelectDone, SelectCtx, Join, TimerExpires, Callback, StratStart, Poll,
         RecordObserved, Released, Pause, RelTick, RelShutdown, RelCrash, CallAgain, RelVars,
         runVars
    <2>2. now < release.until
      BY <1>1, <2>1 DEF Check, StratReturns, FinalTransition
    <2>3. release.until \in 0..MaxTime /\ MaxTime \in Nat /\ now \in Nat
      BY <1>1, ReleasesAssumption, ClockAssumption, MaxCallsAssumption DEF RunInv, RelTypeOK, ReleaseStrategies
    <2>4. QED
      BY <1>1, <2>2, <2>3 DEF RunInv, PollInv
  <1>2. RunInv /\ [RelNext]_RelVars => [strat = "check" /\ strat' = "call" => now >= earliest]_RelVars
    BY <1>1
  <1>3. QED
    BY <1>2, RunInvariant, PTL DEF RelSpec, PollsSpaced

----------------------------------------------------------------------------
(* The command. *)

\* A path whose moves the table allows is walked to its end.
LEMMA WholePath ==
  ASSUME NEW path, NEW target, Len(path) \in Nat \ {0}, DOMAIN path = 1..Len(path),
         path[1] = "submitted", path[Len(path)] = target,
         \A i \in 1..(Len(path) - 1) : CanTransition(path[i], path[i + 1]),
         NEW w, w.at = "submitted"
  PROVE  tryPath(target, w, path).at = target /\ tryPath(target, w, path).ok
  <1>. DEFINE N == Len(path)
  <1>1. \A m \in 1..N : legal(path, 1, m)
    BY DEF legal
  <1>. DEFINE n == CHOOSE m \in 1..N : legal(path, 1, m) /\ (m = N \/ ~legal(path, 1, m + 1))
  <1>2. n = N
    <2>1. N \in 1..N /\ legal(path, 1, N) /\ (N = N \/ ~legal(path, 1, N + 1))
      BY <1>1
    <2>2. n \in 1..N /\ legal(path, 1, n) /\ (n = N \/ ~legal(path, 1, n + 1))
      BY <2>1
    <2>3. n # N => n + 1 \in 1..N
      BY <2>2
    <2>4. QED
      BY <1>1, <2>2, <2>3
  <1>3. walk(path, 1) = [at |-> target, ok |-> TRUE]
    BY <1>2 DEF walk
  <1>. DEFINE k == CHOOSE j \in DOMAIN path : path[j] = "submitted" /\ \A h \in 1..(j-1) : path[h] # "submitted"
  <1>4. k = 1
    <2>1. 1 \in DOMAIN path /\ path[1] = "submitted" /\ \A h \in 1..(1-1) : path[h] # "submitted"
      OBVIOUS
    <2>2. k \in DOMAIN path /\ \A h \in 1..(k-1) : path[h] # "submitted"
      BY <2>1
    <2>3. QED
      BY <2>2
  <1>5. w.at = "submitted" /\ ~ \A j \in DOMAIN path : path[j] # "submitted"
    OBVIOUS
  <1>. DEFINE a == walk(path, k).at
              b == walk(path, k).ok /\ walk(path, k).at = target
  <1>6. tryPath(target, w, path) = [at |-> a, ok |-> b]
    BY <1>5 DEF tryPath
  <1>7. a = target /\ b
    BY <1>3, <1>4
  <1>. HIDE DEF a, b
  <1>8. QED
    BY <1>6, <1>7

\* Every status that a row can hold is rebuilt when the row is loaded: each one's first
\* path leads to it (sqlite.go:219-247).
LEMMA StatusRebuilt == \A s \in AllStatuses : forceStatus(s).at = s
  <1>. SUFFICES ASSUME NEW s \in AllStatuses, s # "submitted" PROVE forceStatus(s).at = s
    BY DEF forceStatus
  <1>. DEFINE path == statusPaths(s)[1]
  <1>1. /\ Len(path) \in Nat \ {0} /\ DOMAIN path = 1..Len(path)
        /\ path[1] = "submitted" /\ path[Len(path)] = s
        /\ \A i \in 1..(Len(path) - 1) : CanTransition(path[i], path[i + 1])
    <2>1. CASE s = "scheduled"
      <3>1. path = <<"submitted", "scheduled">>
        BY <2>1 DEF statusPaths
      <3>. HIDE DEF path
      <3>2. QED
        BY <2>1, <3>1 DEF CanTransition, allowedTransitions, AllStatuses
    <2>2. CASE s = "discovering"
      <3>1. path = <<"submitted", "discovering">>
        BY <2>2 DEF statusPaths
      <3>. HIDE DEF path
      <3>2. QED
        BY <2>2, <3>1 DEF CanTransition, allowedTransitions, AllStatuses
    <2>3. CASE s = "awaiting"
      <3>1. path = <<"submitted", "scheduled", "awaiting">>
        BY <2>3 DEF statusPaths
      <3>. HIDE DEF path
      <3>2. QED
        BY <2>3, <3>1 DEF CanTransition, allowedTransitions, AllStatuses
    <2>4. CASE s = "finding"
      <3>1. path = <<"submitted", "scheduled", "awaiting", "finding">>
        BY <2>4 DEF statusPaths
      <3>. HIDE DEF path
      <3>2. QED
        BY <2>4, <3>1 DEF CanTransition, allowedTransitions, AllStatuses
    <2>5. CASE s = "booking"
      <3>1. path = <<"submitted", "scheduled", "awaiting", "finding", "booking">>
        BY <2>5 DEF statusPaths
      <3>. HIDE DEF path
      <3>2. QED
        BY <2>5, <3>1 DEF CanTransition, allowedTransitions, AllStatuses
    <2>6. CASE s = "booked"
      <3>1. path = <<"submitted", "scheduled", "awaiting", "finding", "booking", "booked">>
        BY <2>6 DEF statusPaths
      <3>. HIDE DEF path
      <3>2. QED
        BY <2>6, <3>1 DEF CanTransition, allowedTransitions, AllStatuses
    <2>7. CASE s = "failed"
      <3>1. path = <<"submitted", "failed">>
        BY <2>7 DEF statusPaths
      <3>. HIDE DEF path
      <3>2. QED
        BY <2>7, <3>1 DEF CanTransition, allowedTransitions, AllStatuses
    <2>8. CASE s = "canceled"
      <3>1. path = <<"submitted", "canceled">>
        BY <2>8 DEF statusPaths
      <3>. HIDE DEF path
      <3>2. QED
        BY <2>8, <3>1 DEF CanTransition, allowedTransitions, AllStatuses
    <2>9. CASE s = "expired"
      <3>1. path = <<"submitted", "scheduled", "expired">>
        BY <2>9 DEF statusPaths
      <3>. HIDE DEF path
      <3>2. QED
        BY <2>9, <3>1 DEF CanTransition, allowedTransitions, AllStatuses
    <2>10. QED
      BY <2>1, <2>2, <2>3, <2>4, <2>5, <2>6, <2>7, <2>8, <2>9 DEF AllStatuses
  <1>. DEFINE start == [at |-> "submitted", ok |-> s = "submitted"]
              first == tryPath(s, start, statusPaths(s)[1])
  <1>2. start.at = "submitted" /\ ~start.ok
    OBVIOUS
  <1>. HIDE DEF start
  <1>3. first.at = s /\ first.ok
    BY <1>1, <1>2, WholePath
  <1>. HIDE DEF first
  <1>4. forceStatus(s) = IF start.ok THEN start
                         ELSE IF first.ok \/ Len(statusPaths(s)) = 1 THEN first
                         ELSE tryPath(s, first, statusPaths(s)[2])
    BY DEF forceStatus, start, first
  <1>5. QED
    BY <1>2, <1>3, <1>4

----------------------------------------------------------------------------
\* The steps of the race that the command takes are those its proofs are about.
LEMMA SameRace ==
  /\ Race!Main => RaceP!Main
  /\ \A s \in Slots : (Race!Goroutine(s) => RaceP!Goroutine(s)) /\ (Race!Serve(s) => RaceP!Serve(s))
  <1>1. Race!Enter => RaceP!Enter
    BY DEF Race!Enter, RaceP!Enter, Race!Commits, RaceP!Commits, Race!Rejects, RaceP!Rejects, Race!dbVars,
       RaceP!dbVars, Race!Return, RaceP!Return, Race!CanTransition, RaceP!CanTransition,
       Race!allowedTransitions, RaceP!allowedTransitions, Race!AllStatuses, RaceP!AllStatuses
  <1>2. Race!Find => RaceP!Find
    BY DEF Race!Find, RaceP!Find, Race!Slots, RaceP!Slots
  <1>3. Race!EnterBooking => RaceP!EnterBooking
    BY DEF Race!EnterBooking, RaceP!EnterBooking, Race!Commits, RaceP!Commits, Race!Rejects, RaceP!Rejects,
       Race!dbVars, RaceP!dbVars, Race!Return, RaceP!Return, Race!CanTransition, RaceP!CanTransition,
       Race!allowedTransitions, RaceP!allowedTransitions, Race!AllStatuses, RaceP!AllStatuses
  <1>4. Race!LoopHead => RaceP!LoopHead
    BY DEF Race!LoopHead, RaceP!LoopHead
  <1>5. Race!PrepareOk => RaceP!PrepareOk
    BY DEF Race!PrepareOk, RaceP!PrepareOk
  <1>6. Race!PrepareErr => RaceP!PrepareErr
    BY DEF Race!PrepareErr, RaceP!PrepareErr
  <1>7. Race!PrepareBlocked => RaceP!PrepareBlocked
    BY DEF Race!PrepareBlocked, RaceP!PrepareBlocked
  <1>8. Race!Floor => RaceP!Floor
    BY DEF Race!Floor, RaceP!Floor
  <1>9. Race!Wait => RaceP!Wait
    BY DEF Race!Wait, RaceP!Wait, Race!Slots, RaceP!Slots, Race!Running, RaceP!Running
  <1>10. Race!Settle => RaceP!Settle
    BY DEF Race!Settle, RaceP!Settle, Race!Commits, RaceP!Commits, Race!Rejects, RaceP!Rejects, Race!dbVars,
       RaceP!dbVars, Race!Return, RaceP!Return, Race!CanTransition, RaceP!CanTransition,
       Race!allowedTransitions, RaceP!allowedTransitions, Race!AllStatuses, RaceP!AllStatuses
  <1>11. Race!FailWithReason => RaceP!FailWithReason
    BY DEF Race!FailWithReason, RaceP!FailWithReason, Race!Commits, RaceP!Commits, Race!Rejects,
       RaceP!Rejects, Race!dbVars, RaceP!dbVars, Race!Return, RaceP!Return, Race!CanTransition,
       RaceP!CanTransition, Race!allowedTransitions, RaceP!allowedTransitions, Race!AllStatuses,
       RaceP!AllStatuses
  <1>11a. Race!Leave => RaceP!Leave
    BY DEF Race!Leave, RaceP!Leave, Race!Return, RaceP!Return
  <1>12. Race!Main => RaceP!Main
    BY <1>1, <1>2, <1>3, <1>4, <1>5, <1>6, <1>7, <1>8, <1>9, <1>10, <1>11, <1>11a DEF Race!Main, RaceP!Main
  <1>13. ASSUME NEW s \in Slots, Race!Goroutine(s) PROVE RaceP!Goroutine(s)
    BY <1>13 DEF Race!Goroutine, RaceP!Goroutine,
       Race!Confirm, RaceP!Confirm,
       Race!ConfirmAnswered, RaceP!ConfirmAnswered,
       Race!ConfirmGivenUp, RaceP!ConfirmGivenUp,
       Race!Deliver, RaceP!Deliver,
       Race!CancelSiblings, RaceP!CancelSiblings,
       Race!Alive, RaceP!Alive
  <1>14. ASSUME NEW s \in Slots, Race!Serve(s) PROVE RaceP!Serve(s)
    BY <1>14 DEF Race!Serve, RaceP!Serve
  <1>15. QED
    BY <1>12, <1>13, <1>14

\* The race's steps as the command takes them keep what the race's proofs say of it.
LEMMA RaceStep ==
  ASSUME RaceP!RaceInv, RaceP!OutcomeInv, RunBookingRace \/ Serve
  PROVE  /\ RaceP!RaceInv' /\ RaceP!OutcomeInv' /\ ctxDone' = ctxDone
         /\ [RaceP!Abstract!Next]_(RaceP!Abstract!vars)
         /\ ret # "booked_unsaved" /\ ret' = "booked_unsaved" => ctxDone \/ "store" \in Faults
  <1>1. RaceP!Next
    BY SameRace DEF RunBookingRace, Serve, RaceP!Next, Slots, RaceP!Slots
  <1>2. Faults \subseteq RaceP!AllFaults /\ MaxSlots \in Nat \ {0}
    BY FaultsAssumption, MaxSlotsAssumption DEF AllFaults, RaceP!AllFaults
  <1>3. RaceP!RaceInv' /\ RaceP!OutcomeInv'
    BY <1>1, <1>2, RaceP!NextKeeps, RaceP!OutcomeKeeps
  <1>4. [RaceP!Abstract!Next]_(RaceP!Abstract!vars)
    BY <1>1, <1>2, RaceP!StepFollows
  <1>5. ret # "booked_unsaved" /\ ret' = "booked_unsaved" => ctxDone \/ "store" \in Faults
    BY <1>1, <1>2, RaceP!UnsavedOnFault
  <1>6. ctxDone' = ctxDone
    BY DEF RunBookingRace, Serve, Race!Serve, Race!Main, Race!Enter, Race!Find, Race!EnterBooking, Race!LoopHead,
       Race!PrepareOk, Race!PrepareErr, Race!PrepareBlocked, Race!Floor, Race!Wait, Race!Settle, Race!FailWithReason,
       Race!Leave, Race!Goroutine, Race!Confirm, Race!ConfirmAnswered, Race!ConfirmGivenUp, Race!Deliver, Race!CancelSiblings
  <1>7. QED
    BY <1>3, <1>4, <1>5, <1>6

\* The moves of Run and of the release strategies, with their events.
ReleaseMoves ==
  {<<"scheduled", "scheduled">>, <<"discovering", "discovered">>, <<"awaiting", "released">>,
   <<"awaiting", "found">>, <<"failed", "failed">>, <<"expired", "expired">>}

\* Until the race is called: nothing is booked and the copy in memory is the row.
Before ==
  /\ Race!RaceInit
  /\ row \in SnipeRows /\ mem = row /\ row.result = NoResult /\ row.status # "booked"
  /\ log \in Seq(AllEventTypes)

\* A step of Run or of its callback saves one of the moves or leaves the row alone.
LEMMA ReleaseStep ==
  ASSUME mem = row, row \in SnipeRows, RunRelease \/ Tick
  PROVE  /\ UNCHANGED <<ctxDone, cliVars, raceVars>>
         /\ mem' = row'
         /\ \/ row' = row /\ log' = log
            \/ \E v \in ReleaseMoves : Commits(row, v[1], v[2])
  <1>. DEFINE Goal == /\ ctxDone' = ctxDone /\ mem' = row'
                      /\ \/ row' = row /\ log' = log
                         \/ \E v \in ReleaseMoves : Commits(row, v[1], v[2])
  <1>1. ASSUME ctxDone' = ctxDone /\ mem' = mem /\ row' = row /\ log' = log PROVE Goal
    BY <1>1
  <1>2. ASSUME NEW v \in ReleaseMoves, ctxDone' = ctxDone, Commits(mem, v[1], v[2]) \/ Rejects(mem, v[1])
        PROVE  Goal
    <2>1. CASE Commits(mem, v[1], v[2])
      <3>1. Commits(row, v[1], v[2])
        BY <2>1 DEF Commits, CanTransition, allowedTransitions, AllStatuses
      <3>2. QED
        BY <1>2, <3>1 DEF Commits
    <2>2. CASE Rejects(mem, v[1])
      BY <1>2, <2>2 DEF Rejects, dbVars
    <2>3. QED
      BY <1>2, <2>1, <2>2
  <1>3. ASSUME NEW to, NEW event, <<to, event>> \in ReleaseMoves, ctxDone' = ctxDone,
               Commits(mem, to, event) \/ Rejects(mem, to)
        PROVE  Goal
    BY <1>2, <1>3
  <1>. HIDE DEF Goal
  <1>4. ASSUME NEW to, NEW event, <<to, event>> \in ReleaseMoves, ctxDone' = ctxDone, FinalTransition(to, event)
        PROVE  Goal
    BY <1>3, <1>4 DEF FinalTransition
  <1>5. /\ <<"scheduled", "scheduled">> \in ReleaseMoves /\ <<"discovering", "discovered">> \in ReleaseMoves
        /\ <<"awaiting", "released">> \in ReleaseMoves /\ <<"awaiting", "found">> \in ReleaseMoves
        /\ <<"failed", "failed">> \in ReleaseMoves /\ <<"expired", "expired">> \in ReleaseMoves
    BY DEF ReleaseMoves
  <1>. HIDE DEF ReleaseMoves
  <1>6. ASSUME RunLoad PROVE Goal
    <2>1. mem' = mem \/ mem' = [row EXCEPT !.status = forceStatus(row.status).at]
      BY <1>6 DEF RunLoad
    <2>2. forceStatus(row.status).at = row.status
      BY StatusRebuilt DEF SnipeRows
    <2>3. [row EXCEPT !.status = row.status] = row
      BY DEF SnipeRows
    <2>4. mem' = mem /\ row' = row /\ log' = log /\ ctxDone' = ctxDone
      BY <1>6, <2>1, <2>2, <2>3 DEF RunLoad
    <2>5. QED
      BY <1>1, <2>4 DEF Goal
  <1>7. ASSUME Schedule PROVE Goal
    BY <1>1, <1>3, <1>5, <1>7 DEF Schedule, Goal
  <1>8. ASSUME Delay \/ FireReturns \/ SelectDone \/ SelectCtx \/ Join \/ TimerExpires
               \/ Callback \/ Poll \/ RecordObserved \/ Pause \/ RelTick
        PROVE  Goal
    BY <1>1, <1>8 DEF Goal, Delay, FireReturns, SelectDone, SelectCtx, Join, TimerExpires,
       Callback, Poll, RecordObserved, Pause, RelTick
  <1>9. ASSUME StratStart PROVE Goal
    BY <1>1, <1>3, <1>4, <1>5, <1>9 DEF Goal, StratStart
  <1>10. ASSUME Check PROVE Goal
    BY <1>1, <1>4, <1>5, <1>10 DEF Goal, Check
  <1>11. ASSUME Released PROVE Goal
    BY <1>4, <1>5, <1>11 DEF Released
  <1>12. Goal
    BY <1>6, <1>7, <1>8, <1>9, <1>10, <1>11 DEF RunRelease, Tick, RunStep, StratStep
  <1>13. QED
    BY <1>12 DEF Goal, RunRelease, Tick

----------------------------------------------------------------------------
\* The types of the command's own state.
CliTypes ==
  /\ cli \in {"create", "append", "run", "reload", "race", "exited"}
  /\ created \in BOOLEAN /\ ctxDone \in BOOLEAN /\ runs \in 1..MaxInvocations

\* How far the command has come shows in the log: empty before the snipe is announced;
\* from then on the booking race keeps its own invariant, called or not.
PhaseInv ==
  /\ ~created => cli \in {"create", "exited"} /\ log = <<>>
  /\ cli = "append" => log = <<>>
  /\ cli \in {"run", "reload", "race"} => log # <<>>
  /\ log = <<>> => Before /\ row.status = "submitted"
  /\ cli \in {"append", "run", "reload"} => Before
  /\ log # <<>> => RaceP!RaceInv /\ RaceP!OutcomeInv
  /\ cli = "create" /\ runs = 1 => ~created

\* What the user has been told, and why a winner could not be saved.
ReportInv ==
  /\ exit = "ok" \/ told = "booked" => cli = "exited"
  /\ ret = "booked_unsaved" => ctxDone \/ "store" \in Faults \/ runs > 1
  /\ ReportedIsReal
  /\ "store" \notin Faults => ConfirmationReported

(* The inductive invariant.                                                *)
SnipeInv == CliTypes /\ PhaseInv /\ ReportInv

\* As long as the race is not called no slot has a goroutine, and nothing is booked.
LEMMA BeforeFacts ==
  ASSUME Before
  PROVE  /\ \A s \in Slots : ~Confirmed(s)
         /\ ret = "none" /\ row.status # "booked"
         /\ Loaded = row
  <1>1. forceStatus(row.status).at = row.status
    BY StatusRebuilt DEF Before, SnipeRows
  <1>2. [row EXCEPT !.status = row.status] = row
    BY DEF Before, SnipeRows
  <1>3. QED
    BY <1>1, <1>2 DEF Before, Race!RaceInit, Race!Slots, Slots, Confirmed, Loaded

\* Once the snipe is announced, a booked row is the confirmation of an accepted POST, and
\* the row is loaded as it is.
LEMMA AfterFacts ==
  ASSUME RaceP!RaceInv
  PROVE  /\ row.status = "booked" => post[row.result] = "booked"
         /\ Loaded.status = row.status
  <1>1. row \in SnipeRows
    BY DEF RaceP!RaceInv, RaceP!TypeOK, RaceP!SnipeRows, SnipeRows, RaceP!AllStatuses, AllStatuses, RaceP!Slots, Slots,
       RaceP!NoResult, NoResult
  <1>2. forceStatus(row.status).at = row.status
    BY <1>1, StatusRebuilt DEF SnipeRows
  <1>3. Loaded.status = row.status
    BY <1>1, <1>2 DEF Loaded, SnipeRows
  <1>4. QED
    BY <1>3 DEF RaceP!RaceInv, RaceP!BookedIsReal

\* What a step that touches neither the row nor the race leaves in place.
LEMMA Still ==
  ASSUME ctxDone' \in BOOLEAN, UNCHANGED <<row, log, mem, raceVars>>
  PROVE  /\ Before => Before'
         /\ RaceP!RaceInv /\ RaceP!OutcomeInv => RaceP!RaceInv' /\ RaceP!OutcomeInv'
  <1>1. Before => Before'
    BY DEF Before, Race!RaceInit, raceVars
  <1>2. Faults \subseteq RaceP!AllFaults /\ MaxSlots \in Nat \ {0}
    BY FaultsAssumption, MaxSlotsAssumption DEF AllFaults, RaceP!AllFaults
  <1>3. RaceP!RaceInv /\ RaceP!OutcomeInv => RaceP!RaceInv' /\ RaceP!OutcomeInv'
    BY <1>2, RaceP!ContextKeeps DEF raceVars
  <1>4. QED
    BY <1>1, <1>3

\* Before the race is called, an announced snipe satisfies the race's invariants.
LEMMA Announced == Before /\ log # <<>> /\ ctxDone \in BOOLEAN => RaceP!RaceInv /\ RaceP!OutcomeInv
  <1>. SUFFICES ASSUME Before, log # <<>>, ctxDone \in BOOLEAN PROVE RaceP!RaceInv /\ RaceP!OutcomeInv
    OBVIOUS
  <1>1. Faults \subseteq RaceP!AllFaults /\ MaxSlots \in Nat \ {0}
    BY FaultsAssumption, MaxSlotsAssumption DEF AllFaults, RaceP!AllFaults
  <1>2. row \in RaceP!SnipeRows /\ row.result = RaceP!NoResult /\ log \in Seq(RaceP!AllEventTypes)
    BY DEF Before, RaceP!SnipeRows, SnipeRows, RaceP!AllStatuses, AllStatuses, RaceP!Slots, Slots,
       RaceP!NoResult, NoResult, RaceP!AllEventTypes, AllEventTypes
  <1>3. RaceP!RaceInit
    BY DEF Before, Race!RaceInit, RaceP!RaceInit, Race!Slots, RaceP!Slots
  <1>4. QED
    BY <1>1, <1>2, <1>3, RaceP!CalledInv DEF Before

\* The same of the next state.
LEMMA AnnouncedNext ==
  (Before /\ log # <<>> /\ ctxDone \in BOOLEAN => RaceP!RaceInv /\ RaceP!OutcomeInv)'
  BY Announced, PTL

\* The invariant holds as the command is first invoked.
LEMMA InitInv == Init => SnipeInv
  <1>. SUFFICES ASSUME Init PROVE SnipeInv
    OBVIOUS
  <1>1. Before /\ row.status = "submitted" /\ log = <<>>
    <2>1. row \in SnipeRows /\ mem = row /\ row.result = NoResult /\ row.status = "submitted"
      BY DEF Init, SnipeRows, AllStatuses
    <2>2. log = <<>> /\ <<>> \in Seq(AllEventTypes)
      BY DEF Init
    <2>3. Race!RaceInit
      BY DEF Init
    <2>4. QED
      BY <2>1, <2>2, <2>3 DEF Before
  <1>2. ret = "none" /\ row.status # "booked"
    BY <1>1, BeforeFacts
  <1>3. CliTypes /\ PhaseInv
    <2>1. cli = "create" /\ ~created /\ created \in BOOLEAN /\ ctxDone \in BOOLEAN /\ runs = 1
      BY DEF Init
    <2>2. 1 \in 1..MaxInvocations
      BY MaxInvocationsAssumption
    <2>3. CliTypes
      BY <2>1, <2>2 DEF CliTypes
    <2>4. PhaseInv
      BY <1>1, <2>1 DEF PhaseInv
    <2>5. QED
      BY <2>3, <2>4
  <1>4. ReportInv
    BY <1>2 DEF Init, ReportInv, ReportedIsReal, ConfirmationReported
  <1>5. QED
    BY <1>3, <1>4 DEF SnipeInv

\* The command's own writes and what becomes of the snipe before the race is called.
LEMMA SubmitStep == ASSUME SnipeInv, CreateSnipe \/ AppendEvent PROVE SnipeInv'
  <1>0. CliTypes /\ PhaseInv /\ ReportInv
    BY DEF SnipeInv
  <1>1. CASE CreateSnipe
    <2>0. /\ cli = "create" /\ UNCHANGED <<row, log, mem, ctxDone, told, runs, raceVars>>
          /\ \/ ~created /\ created' = TRUE /\ cli' = "append" /\ exit' = exit
             \/ created' = created /\ cli' = "exited" /\ exit' = "error" /\ (created \/ StoreFails)
      BY <1>1 DEF CreateSnipe, Exit, snipeVars
    <2>1. CliTypes'
      BY <1>0, <2>0 DEF CliTypes
    <2>2. /\ Before => Before'
          /\ RaceP!RaceInv /\ RaceP!OutcomeInv => RaceP!RaceInv' /\ RaceP!OutcomeInv'
      BY <2>0, <2>1, Still DEF CliTypes
    <2>3. PhaseInv'
      BY <1>0, <2>0, <2>2 DEF PhaseInv
    <2>4. told # "booked" /\ exit # "ok"
      BY <1>0, <2>0 DEF ReportInv
    <2>5. ret' = ret /\ attempt' = attempt
      BY <2>0 DEF raceVars
    <2>6. ReportedIsReal'
      BY <2>0, <2>4 DEF ReportedIsReal
    <2>7. cli' = "exited" /\ runs' = 1 => \A s \in Slots : ~Confirmed(s)'
      <3>1. runs = 1 => Before
        BY <1>0, <2>0 DEF PhaseInv
      <3>2. QED
        BY <2>0, <2>5, <3>1, BeforeFacts DEF Confirmed
    <2>8. ReportInv'
      BY <1>0, <2>0, <2>4, <2>5, <2>6, <2>7 DEF ReportInv, ConfirmationReported
    <2>9. QED
      BY <2>1, <2>3, <2>8 DEF SnipeInv
  <1>2. CASE AppendEvent
    <2>0. /\ cli = "append" /\ UNCHANGED <<row, mem, ctxDone, created, told, runs, raceVars>>
          /\ \/ log' = Append(log, "submitted") /\ cli' = "run" /\ exit' = exit
             \/ log' = log /\ cli' = "exited" /\ exit' = "error"
      BY <1>2 DEF AppendEvent, Exit
    <2>1. Before /\ log = <<>> /\ created /\ row.status = "submitted"
      BY <1>0, <2>0 DEF PhaseInv
    <2>2. log' \in Seq(AllEventTypes) /\ (cli' = "run" => log' # <<>>)
      <3>1. "submitted" \in AllEventTypes /\ log \in Seq(AllEventTypes)
        BY <2>1 DEF Before, AllEventTypes
      <3>2. QED
        BY <2>0, <3>1
    <2>3. Before'
      BY <2>0, <2>1, <2>2 DEF Before, Race!RaceInit, raceVars
    <2>4. CliTypes'
      BY <1>0, <2>0 DEF CliTypes
    <2>5. ASSUME log' # <<>> PROVE RaceP!RaceInv' /\ RaceP!OutcomeInv'
      BY <2>3, <2>4, <2>5, AnnouncedNext DEF CliTypes
    <2>6. PhaseInv'
      BY <2>0, <2>1, <2>2, <2>3, <2>5 DEF PhaseInv
    <2>7. told # "booked" /\ exit # "ok"
      BY <1>0, <2>0 DEF ReportInv
    <2>8. ret' = ret /\ attempt' = attempt
      BY <2>0 DEF raceVars
    <2>9. \A s \in Slots : ~Confirmed(s)'
      BY <2>1, <2>8, BeforeFacts DEF Confirmed
    <2>10. ReportInv'
      BY <1>0, <2>0, <2>7, <2>8, <2>9 DEF ReportInv, ConfirmationReported, ReportedIsReal
    <2>11. QED
      BY <2>4, <2>6, <2>10 DEF SnipeInv
  <1>3. QED
    BY <1>1, <1>2

\* The command leaves the race for its report: without a fault that excuses it, a
\* confirmation means that the race returned nil and the row is booked.
LEMMA RaceOutcome ==
  ASSUME SnipeInv, cli = "race", Race!Returned, ret # "prepare_blocked",
         ~ctxDone, runs = 1, "store" \notin Faults, NEW s \in Slots, Confirmed(s)
  PROVE  ret = "nil" /\ row.status = "booked"
  <1>0. CliTypes /\ PhaseInv /\ ReportInv
    BY DEF SnipeInv
  <1>1. RaceP!RaceInv /\ RaceP!OutcomeInv
    BY <1>0 DEF PhaseInv
  <1>2. ret \in RaceP!Returns /\ ret # "none"
    BY <1>1 DEF RaceP!RaceInv, RaceP!TypeOK, RaceP!LoopInv, Race!Returned
  <1>3. ret # "all_attempts_failed"
    BY <1>1 DEF RaceP!RaceInv, RaceP!NoConfirmationLost, RaceP!Slots, Slots, Confirmed
  <1>4. ret \notin {"enter_finding", "enter_booking", "find_failed", "inventory_empty"}
    BY <1>1 DEF RaceP!OutcomeInv, RaceP!Slots, Slots, Confirmed
  <1>5. ret # "booked_unsaved"
    BY <1>0 DEF ReportInv
  <1>6. ret = "nil"
    BY <1>2, <1>3, <1>4, <1>5 DEF RaceP!Returns, RaceP!Reasons
  <1>7. QED
    BY <1>1, <1>6 DEF RaceP!OutcomeInv

\* Steps of the command itself after the snipe is announced: it ends Run, reloads the
\* snipe, ends the race, is interrupted, dies, or is invoked again.
LEMMA ReportStep ==
  ASSUME SnipeInv, AfterRun \/ Reload \/ AfterRace \/ Shutdown \/ Crash \/ Invoke \/ UNCHANGED vars
  PROVE  SnipeInv'
  <1>0. CliTypes /\ PhaseInv /\ ReportInv
    BY DEF SnipeInv
  <1>1. UNCHANGED <<row, log, mem, created, raceVars>>
    <2>1. CASE Reload
      <3>1. Before
        BY <1>0, <2>1 DEF PhaseInv, Reload
      <3>2. mem' = mem
        BY <2>1, <3>1, BeforeFacts DEF Reload, Before
      <3>3. QED
        BY <2>1, <3>2 DEF Reload
    <2>2. CASE AfterRun \/ AfterRace \/ Shutdown \/ Crash \/ Invoke \/ UNCHANGED vars
      BY <2>2 DEF AfterRun, AfterRace, Shutdown, Crash, Invoke, vars, snipeVars, cliVars
    <2>3. QED
      BY <2>1, <2>2
  <1>2. CliTypes'
    <2>1. CASE Invoke
      <3>1. runs' \in 1..MaxInvocations
        BY <1>0, <2>1, MaxInvocationsAssumption DEF CliTypes, Invoke
      <3>2. QED
        BY <1>0, <1>1, <2>1, <3>1 DEF CliTypes, Invoke
    <2>2. CASE AfterRun \/ Reload \/ AfterRace
      BY <1>0, <1>1, <2>2 DEF CliTypes, AfterRun, Reload, AfterRace, Exit, snipeVars
    <2>3. CASE Shutdown \/ Crash \/ UNCHANGED vars
      BY <1>0, <1>1, <2>3 DEF CliTypes, Shutdown, Crash, Exit, vars, snipeVars, cliVars
    <2>4. QED
      BY <2>1, <2>2, <2>3
  <1>3. /\ Before => Before'
        /\ RaceP!RaceInv /\ RaceP!OutcomeInv => RaceP!RaceInv' /\ RaceP!OutcomeInv'
    BY <1>1, <1>2, Still DEF CliTypes
  <1>4. \/ cli' = cli /\ runs' = runs
        \/ cli = "run" /\ cli' = "reload" /\ runs' = runs
        \/ cli = "reload" /\ cli' = "race" /\ runs' = runs
        \/ cli' = "exited" /\ runs' = runs
        \/ cli = "exited" /\ cli' = "create" /\ runs' = runs + 1
    BY DEF AfterRun, Reload, AfterRace, Shutdown, Crash, Invoke, Exit, vars, cliVars
  <1>5. PhaseInv'
    <2>1. runs \in Nat /\ 1 <= runs
      BY <1>0 DEF CliTypes
    <2>2. cli' = "create" /\ runs' = 1 => cli = "create" /\ runs = 1
      BY <1>4, <2>1
    <2>3. log' = log /\ row' = row /\ created' = created
      BY <1>1
    <2>4. QED
      BY <1>0, <1>3, <1>4, <2>2, <2>3 DEF PhaseInv
  <1>6. (ret = "booked_unsaved" => ctxDone \/ "store" \in Faults \/ runs > 1)'
    <2>0. runs \in Nat /\ 1 <= runs
      BY <1>0 DEF CliTypes
    <2>1. ret' = ret
      BY <1>1 DEF raceVars
    <2>2. \/ runs' = runs /\ (ctxDone => ctxDone')
          \/ runs' = runs + 1
      BY DEF AfterRun, Reload, AfterRace, Shutdown, Crash, Invoke, vars, cliVars, snipeVars
    <2>3. QED
      BY <1>0, <2>0, <2>1, <2>2 DEF ReportInv
  <1>7. /\ exit' = "ok" \/ told' = "booked" => cli' = "exited"
        /\ ReportedIsReal'
    <2>1. row' = row /\ post' = post
      BY <1>1 DEF raceVars
    <2>2. CASE AfterRun
      BY <1>0, <2>2 DEF ReportInv, ReportedIsReal, AfterRun, Exit
    <2>3. CASE Reload
      <3>1. Before
        BY <1>0, <2>3 DEF PhaseInv, Reload
      <3>2. Loaded.status # "booked"
        BY <3>1, BeforeFacts
      <3>3. told' # "booked" /\ exit' # "ok"
        BY <1>0, <2>3, <3>2 DEF ReportInv, Reload, ResultOf, Exit
      <3>4. QED
        BY <3>3 DEF ReportedIsReal
    <2>4. CASE AfterRace
      <3>1. RaceP!RaceInv
        BY <1>0, <2>4 DEF PhaseInv, AfterRace
      <3>2. told' = "booked" \/ exit' = "ok" => Loaded.status = "booked"
        BY <1>0, <2>4 DEF ReportInv, AfterRace, ResultOf, Exit
      <3>3. cli' = "exited"
        BY <2>4 DEF AfterRace, Exit
      <3>4. QED
        BY <2>1, <3>1, <3>2, <3>3, AfterFacts DEF ReportedIsReal
    <2>5. CASE Shutdown \/ Crash \/ Invoke \/ UNCHANGED vars
      BY <1>0, <2>1, <2>5 DEF ReportInv, ReportedIsReal, Shutdown, Crash, Invoke, Exit, vars, cliVars
    <2>6. QED
      BY <2>2, <2>3, <2>4, <2>5
  <1>8. ASSUME "store" \notin Faults PROVE ConfirmationReported'
    <2>. SUFFICES ASSUME cli' = "exited", exit' # "killed", ~ctxDone', runs' = 1, ret' # "prepare_blocked",
                         NEW s \in Slots, Confirmed(s)'
                  PROVE  exit' = "ok"
      BY DEF ConfirmationReported
    <2>1. ret' = ret /\ Confirmed(s)
      BY <1>1 DEF raceVars, Confirmed
    <2>2. ~Before
      BY <2>1, BeforeFacts
    <2>3. ~AfterRun /\ ~Reload
      BY <1>0, <2>2 DEF PhaseInv, AfterRun, Reload
    <2>4. CASE AfterRace
      <3>1. ~ctxDone /\ runs = 1 /\ cli = "race" /\ Race!Returned
        BY <2>4 DEF AfterRace, snipeVars
      <3>2. ret = "nil" /\ row.status = "booked"
        BY <1>8, <2>1, <3>1, RaceOutcome
      <3>3. Loaded.status = "booked"
        BY <1>0, <3>1, <3>2, AfterFacts DEF PhaseInv
      <3>4. QED
        BY <1>8, <2>4, <3>1, <3>2, <3>3 DEF AfterRace, StoreFails, Exit
    <2>5. CASE Shutdown \/ Crash \/ Invoke
      BY <2>5 DEF Shutdown, Crash, Invoke, Exit
    <2>6. CASE UNCHANGED vars
      BY <1>0, <1>8, <2>1, <2>6 DEF vars, cliVars, snipeVars, ReportInv, ConfirmationReported
    <2>7. QED
      BY <2>3, <2>4, <2>5, <2>6
  <1>9. QED
    BY <1>2, <1>5, <1>6, <1>7, <1>8 DEF SnipeInv, ReportInv

\* A saved move of the release leaves an announced snipe that is not booked.
LEMMA ReleaseMoved ==
  ASSUME Before, log # <<>>, NEW v \in ReleaseMoves, Commits(row, v[1], v[2])
  PROVE  /\ row' \in SnipeRows /\ row'.status = v[1] /\ row'.result = NoResult /\ row'.status # "booked"
         /\ log' \in Seq(AllEventTypes) /\ log' # <<>> /\ log' = Append(log, v[2])
         /\ CanTransition(row.status, v[1])
  <1>1. v[1] \in AllStatuses /\ v[1] # "booked" /\ v[2] \in AllEventTypes
    BY DEF ReleaseMoves, AllStatuses, AllEventTypes
  <1>2. row' = [row EXCEPT !.status = v[1]] /\ log' = Append(log, v[2]) /\ CanTransition(row.status, v[1])
    BY DEF Commits
  <1>3. row \in SnipeRows /\ row.result = NoResult /\ log \in Seq(AllEventTypes)
    BY DEF Before
  <1>4. row' \in SnipeRows /\ row'.status = v[1] /\ row'.result = NoResult
    BY <1>1, <1>2, <1>3 DEF SnipeRows
  <1>5. log' \in Seq(AllEventTypes) /\ log' # <<>>
    BY <1>1, <1>2, <1>3
  <1>6. QED
    BY <1>1, <1>2, <1>4, <1>5

\* Run and its callback, and the clock.
LEMMA WaitStep == ASSUME SnipeInv, RunRelease \/ Tick PROVE SnipeInv'
  <1>0. CliTypes /\ PhaseInv /\ ReportInv
    BY DEF SnipeInv
  <1>1. cli = "run" /\ Before /\ log # <<>>
    BY <1>0 DEF PhaseInv, RunRelease, Tick
  <1>2. /\ UNCHANGED <<ctxDone, cliVars, raceVars>> /\ mem' = row'
        /\ \/ row' = row /\ log' = log
           \/ \E v \in ReleaseMoves : Commits(row, v[1], v[2])
    BY <1>1, ReleaseStep DEF Before
  <1>3. /\ row' \in SnipeRows /\ row'.result = NoResult /\ row'.status # "booked"
        /\ log' \in Seq(AllEventTypes) /\ log' # <<>>
    <2>1. CASE row' = row /\ log' = log
      BY <1>1, <2>1 DEF Before
    <2>2. QED
      BY <1>1, <1>2, <2>1, ReleaseMoved
  <1>4. Before'
    BY <1>1, <1>2, <1>3 DEF Before, Race!RaceInit, raceVars
  <1>5. CliTypes'
    BY <1>0, <1>2 DEF CliTypes, cliVars
  <1>6. RaceP!RaceInv' /\ RaceP!OutcomeInv'
    BY <1>3, <1>4, <1>5, AnnouncedNext DEF CliTypes
  <1>7. PhaseInv'
    BY <1>0, <1>1, <1>2, <1>3, <1>4, <1>6 DEF PhaseInv, cliVars
  <1>8. exit' # "ok" /\ told' # "booked" /\ cli' = "run" /\ ret' = ret /\ runs' = runs /\ ctxDone' = ctxDone
    BY <1>0, <1>1, <1>2 DEF ReportInv, cliVars, raceVars
  <1>9. ReportInv'
    BY <1>0, <1>8 DEF ReportInv, ReportedIsReal, ConfirmationReported
  <1>10. QED
    BY <1>5, <1>7, <1>9 DEF SnipeInv

\* The race and the reservation service.
LEMMA BookStep == ASSUME SnipeInv, RunBookingRace \/ Serve PROVE SnipeInv'
  <1>0. CliTypes /\ PhaseInv /\ ReportInv
    BY DEF SnipeInv
  <1>1. log # <<>> /\ cli \notin {"append", "run", "reload"}
    <2>1. CASE RunBookingRace
      BY <1>0, <2>1 DEF PhaseInv, RunBookingRace
    <2>2. CASE Serve
      <3>1. PICK s \in Slots : post[s] = "pending"
        BY <2>2 DEF Serve, Race!Serve
      <3>2. ~Before
        BY <3>1 DEF Before, Race!RaceInit, Race!Slots, Slots
      <3>3. QED
        BY <1>0, <3>2 DEF PhaseInv
    <2>3. QED
      BY <2>1, <2>2
  <1>2. RaceP!RaceInv /\ RaceP!OutcomeInv
    BY <1>0, <1>1 DEF PhaseInv
  <1>3. /\ RaceP!RaceInv' /\ RaceP!OutcomeInv' /\ ctxDone' = ctxDone
        /\ ret # "booked_unsaved" /\ ret' = "booked_unsaved" => ctxDone \/ "store" \in Faults
    BY <1>2, RaceStep
  <1>4. UNCHANGED cliVars
    BY DEF RunBookingRace, Serve
  <1>6. CliTypes'
    BY <1>0, <1>3, <1>4 DEF CliTypes, cliVars
  <1>7. log' # <<>>
    BY <1>3 DEF RaceP!RaceInv, RaceP!RowInv
  <1>8. PhaseInv'
    BY <1>0, <1>1, <1>3, <1>4, <1>7 DEF PhaseInv, cliVars
  <1>9. cli = "exited" => row' = row /\ attempt' = attempt /\ ret' = ret
    BY DEF RunBookingRace, Serve, Race!Serve
  <1>10. row'.status = "booked" => post'[row'.result] = "booked"
    BY <1>3 DEF RaceP!RaceInv, RaceP!BookedIsReal
  <1>11. ReportInv'
    <2>1. /\ exit' = "ok" \/ told' = "booked" => cli' = "exited"
          /\ ReportedIsReal'
      BY <1>0, <1>4, <1>9, <1>10 DEF ReportInv, ReportedIsReal, cliVars
    <2>2. (ret = "booked_unsaved" => ctxDone \/ "store" \in Faults \/ runs > 1)'
      BY <1>0, <1>3, <1>4 DEF ReportInv, cliVars
    <2>3. "store" \notin Faults => ConfirmationReported'
      BY <1>0, <1>3, <1>4, <1>9 DEF ReportInv, ConfirmationReported, Confirmed, cliVars
    <2>4. QED
      BY <2>1, <2>2, <2>3 DEF ReportInv
  <1>12. QED
    BY <1>6, <1>8, <1>11 DEF SnipeInv

\* The invariant is inductive.
LEMMA StepInv == SnipeInv /\ [Next]_vars => SnipeInv'
  BY SubmitStep, ReportStep, WaitStep, BookStep DEF Next, Step

\* SnipeInv holds in every state of the command.
LEMMA Invariance == Spec => []SnipeInv
  BY InitInv, StepInv, PTL DEF Spec

----------------------------------------------------------------------------
(* What the user is told is the truth (snipe.go, emitTerminalResult): for  *)
(* any number of slots and of invocations and any faults, an exit with     *)
(* success or a line that says booked means a booked row with the          *)
(* confirmation of a POST that the service accepted.                       *)
THEOREM ReportIsReal == Spec => []ReportedIsReal
  <1>1. SnipeInv => ReportedIsReal
    BY DEF SnipeInv, ReportInv
  <1>2. QED
    BY <1>1, Invariance, PTL

(* A store that accepts every write, and no signal, crash or blocked       *)
(* PrepareSlot: every confirmation a goroutine received ends in a booked   *)
(* row and an exit with success.                                           *)
THEOREM ConfirmationsReported == "store" \notin Faults => (Spec => []ConfirmationReported)
  <1>. SUFFICES ASSUME "store" \notin Faults PROVE Spec => []ConfirmationReported
    OBVIOUS
  <1>1. SnipeInv => ConfirmationReported
    BY DEF SnipeInv, ReportInv
  <1>2. QED
    BY <1>1, Invariance, PTL

\* A move along the table with its event, on a row that is there, is a Move of the
\* abstract snipe.
LEMMA IsMove ==
  ASSUME created, created', row \in SnipeRows, log # <<>>, NEW v \in ReleaseMoves,
         CanTransition(row.status, v[1]), row'.status = v[1], log' = Append(log, v[2]), row'.result = row.result
  PROVE  Abstract!Next
  <1>1. v[1] \in Abstract!AllStatuses /\ v[2] \in Abstract!EventsOf(v[1]) /\ v[1] # "booked"
    BY DEF ReleaseMoves, Abstract!AllStatuses, Abstract!EventsOf
  <1>2. row.status # "none"
    BY DEF SnipeRows, AllStatuses
  <1>3. Abstract!CanTransition(row.status, v[1])
    BY DEF Abstract!CanTransition, Abstract!allowedTransitions, CanTransition, allowedTransitions, Abstract!AllStatuses,
       AllStatuses
  <1>4. Abstract!Move(v[1], v[2])
    BY <1>1, <1>2, <1>3 DEF Abstract!Move
  <1>5. QED
    BY <1>1, <1>4 DEF Abstract!Next

\* Every step of the command is a step of the abstract snipe or leaves it alone.
LEMMA StepImplements == SnipeInv /\ [Next]_vars => [Abstract!Next]_(Abstract!vars)
  <1>. SUFFICES ASSUME SnipeInv, [Next]_vars PROVE Abstract!Next \/ UNCHANGED Abstract!vars
    OBVIOUS
  <1>0. CliTypes /\ PhaseInv
    BY DEF SnipeInv
  <1>1. CASE row' = row /\ log' = log /\ created' = created
    BY <1>1 DEF Abstract!vars
  <1>2. CASE CreateSnipe
    <2>1. CASE ~created /\ created' = TRUE
      <3>1. row.status = "submitted" /\ row' = row /\ log' = log
        BY <1>0, <1>2, <2>1 DEF PhaseInv, CreateSnipe, snipeVars
      <3>2. Abstract!Create
        BY <2>1, <3>1 DEF Abstract!Create
      <3>3. QED
        BY <3>2 DEF Abstract!Next
    <2>2. QED
      BY <1>1, <1>2, <2>1 DEF CreateSnipe, snipeVars
  <1>3. CASE AppendEvent
    <2>1. CASE log' = Append(log, "submitted")
      <3>1. created /\ created' = created /\ row.status = "submitted" /\ row' = row /\ log = <<>>
        BY <1>0, <1>3 DEF PhaseInv, AppendEvent
      <3>2. log' = <<"submitted">>
        BY <2>1, <3>1
      <3>3. Abstract!Announce
        BY <3>1, <3>2 DEF Abstract!Announce
      <3>4. QED
        BY <3>3 DEF Abstract!Next
    <2>2. QED
      BY <1>1, <1>3, <2>1 DEF AppendEvent
  <1>4. CASE RunRelease \/ Tick
    <2>1. created /\ created' = created /\ Before /\ log # <<>>
      BY <1>0, <1>4 DEF PhaseInv, RunRelease, Tick, cliVars
    <2>2. \/ row' = row /\ log' = log
          \/ \E v \in ReleaseMoves : Commits(row, v[1], v[2])
      BY <1>4, <2>1, ReleaseStep DEF Before
    <2>3. ASSUME NEW v \in ReleaseMoves, Commits(row, v[1], v[2]) PROVE Abstract!Next
      BY <2>1, <2>3, ReleaseMoved, IsMove DEF Before
    <2>4. QED
      BY <1>1, <2>1, <2>2, <2>3
  <1>5. CASE RunBookingRace \/ Serve
    <2>1. CASE log = <<>>
      <3>1. PICK s \in Slots : post[s] = "pending"
        BY <1>0, <1>5, <2>1 DEF PhaseInv, RunBookingRace, Serve, Race!Serve
      <3>2. Before
        BY <1>0, <2>1 DEF PhaseInv
      <3>3. QED
        BY <3>1, <3>2 DEF Before, Race!RaceInit, Race!Slots, Slots
    <2>2. CASE log # <<>>
      <3>1. created /\ created' = created
        BY <1>0, <1>5, <2>2 DEF PhaseInv, RunBookingRace, Serve, cliVars
      <3>2. [RaceP!Abstract!Next]_(RaceP!Abstract!vars)
        BY <1>0, <1>5, <2>2, RaceStep DEF PhaseInv
      <3>3. CASE UNCHANGED RaceP!Abstract!vars
        BY <3>1, <3>3 DEF RaceP!Abstract!vars, Abstract!vars
      <3>4. CASE RaceP!Abstract!Create \/ RaceP!Abstract!Announce
        BY <3>1, <3>4 DEF RaceP!Abstract!Create, RaceP!Abstract!Announce,
           Abstract!Create, Abstract!Announce, Abstract!Next
      <3>5. ASSUME NEW to \in RaceP!Abstract!AllStatuses, NEW event \in RaceP!Abstract!EventsOf(to),
                   RaceP!Abstract!Move(to, event)
            PROVE  Abstract!Next
        <4>1. to \in Abstract!AllStatuses /\ event \in Abstract!EventsOf(to)
          BY <3>5 DEF RaceP!Abstract!AllStatuses, RaceP!Abstract!EventsOf, Abstract!AllStatuses, Abstract!EventsOf
        <4>2. Abstract!Move(to, event)
          BY <3>1, <3>5 DEF RaceP!Abstract!Move, Abstract!Move, RaceP!Slots, Slots,
             RaceP!Abstract!CanTransition, RaceP!Abstract!allowedTransitions, RaceP!Abstract!AllStatuses,
             Abstract!CanTransition, Abstract!allowedTransitions, Abstract!AllStatuses
        <4>3. QED
          BY <4>1, <4>2 DEF Abstract!Next
      <3>6. QED
        BY <3>2, <3>3, <3>4, <3>5 DEF RaceP!Abstract!Next
    <2>3. QED
      BY <2>1, <2>2
  <1>6. CASE AfterRun \/ Reload \/ AfterRace \/ Shutdown \/ Crash \/ Invoke \/ UNCHANGED vars
    BY <1>1, <1>6 DEF AfterRun, Reload, AfterRace, Shutdown, Crash, Invoke, vars, snipeVars, cliVars
  <1>7. QED
    BY <1>2, <1>3, <1>4, <1>5, <1>6 DEF Next, Step

(* The command implements Snipe (I-1, I-2): whatever the number of slots   *)
(* and of invocations, and whichever writes fail or processes die, the row *)
(* appears once, status and log move together along the table, and a       *)
(* confirmation is recorded with the move to booked only.                  *)
THEOREM SnipeImplemented == Spec => ImplementsSnipe
  <1>1. Init => Abstract!Init
    BY DEF Init, Abstract!Init
  <1>2. QED
    BY <1>1, StepImplements, Invariance, PTL DEF Spec, ImplementsSnipe, Abstract!Spec

----------------------------------------------------------------------------
(* The release and the race together. *)

\* The command's view of the release: untouched before the snipe is announced, its own
\* invariant while Run is at work, and a race only on a snipe that Run has moved.
ReleaseInv ==
  /\ ~created \/ cli = "append" => RunInit /\ calls = 1
  /\ cli = "run" => RunInv
  /\ NeverEarly
  /\ cli = "race" \/ (\E s \in Slots : post[s] # "none") => row.status \notin Waiting

\* Run as it is called on the snipe that Submit has created.
LEMMA RunCalled ==
  ASSUME Before, row.status = "submitted", ctxDone \in BOOLEAN, RunInit, calls = 1
  PROVE  RunInv
  <1>1. row \in SnipeRows /\ mem = row /\ log \in Seq(AllEventTypes)
    BY DEF Before
  <1>2. RelTypeOK
    <2>1. 0 \in 0..MaxTime /\ 0 \in 0..(MaxTime + PollFloor) /\ 1 \in 0..MaxCalls
      BY ReleasesAssumption, ClockAssumption, MaxCallsAssumption
    <2>2. QED
      BY <1>1, <2>1 DEF RunInit, RelTypeOK, Errs
  <1>3. ControlInv /\ SchedInv /\ ErrInv /\ PollInv
    BY ReleasesAssumption, ClockAssumption, MaxCallsAssumption DEF RunInit, ControlInv, SchedInv, ErrInv, PollInv
  <1>4. NeverEarly /\ MemoryIsRow /\ NilMeansFired
    BY <1>1 DEF RunInit, NeverEarly, MemoryIsRow, NilMeansFired
  <1>5. QED
    BY <1>2, <1>3, <1>4 DEF RunInv

\* The same of the next state.
LEMMA RunCalledNext ==
  (Before /\ row.status = "submitted" /\ ctxDone \in BOOLEAN /\ RunInit /\ calls = 1 => RunInv)'
  BY RunCalled, PTL

\* The end of its context costs Run nothing that the invariant promises.
LEMMA RunCanceled ==
  ASSUME RunInv, ctxDone' = TRUE, UNCHANGED <<row, log, mem, runVars>>
  PROVE  RunInv'
  <1>1. RelTypeOK'
    BY DEF RunInv, RelTypeOK, runVars
  <1>2. ControlInv' /\ SchedInv' /\ ErrInv' /\ PollInv'
    BY DEF RunInv, ControlInv, SchedInv, ErrInv, PollInv, runVars
  <1>3. NeverEarly' /\ MemoryIsRow' /\ NilMeansFired'
    BY DEF RunInv, NeverEarly, MemoryIsRow, NilMeansFired, runVars
  <1>4. QED
    BY <1>1, <1>2, <1>3 DEF RunInv

\* A snipe that has left its wait for the release never waits again.
LEMMA NeverBack ==
  ASSUME SnipeInv, [Next]_vars, created, created', row.status \notin Waiting
  PROVE  row'.status \notin Waiting
  <1>1. Abstract!Next \/ UNCHANGED Abstract!vars
    BY StepImplements
  <1>2. CASE row'.status = row.status
    BY <1>2
  <1>3. row.status \in Abstract!AllStatuses
    <2>1. CASE log = <<>>
      BY <2>1 DEF SnipeInv, PhaseInv, Before, SnipeRows, AllStatuses, Abstract!AllStatuses
    <2>2. CASE log # <<>>
      BY <2>2 DEF SnipeInv, PhaseInv, RaceP!RaceInv, RaceP!TypeOK, RaceP!SnipeRows, RaceP!AllStatuses,
         Abstract!AllStatuses
    <2>3. QED
      BY <2>1, <2>2
  <1>4. CASE Abstract!Create \/ Abstract!Announce
    BY <1>3, <1>4 DEF Abstract!Create, Abstract!Announce, Abstract!AllStatuses, Waiting
  <1>5. ASSUME NEW to, NEW event, Abstract!Move(to, event) PROVE row'.status \notin Waiting
    <2>1. row'.status \in Abstract!allowedTransitions[row.status]
      BY <1>5 DEF Abstract!Move, Abstract!CanTransition
    <2>2. QED
      BY <1>3, <2>1 DEF Abstract!allowedTransitions, Abstract!AllStatuses, Waiting
  <1>6. QED
    BY <1>1, <1>2, <1>4, <1>5 DEF Abstract!Next, Abstract!vars

\* As long as the race is not called no POST is out.
LEMMA NoPostBefore == Before => \A s \in Slots : post[s] = "none"
  BY DEF Before, Race!RaceInit, Race!Slots, Slots

\* Every step keeps the release's part of the invariant.
LEMMA ReleaseKept == SnipeInv /\ ReleaseInv /\ [Next]_vars => ReleaseInv'
  <1>. SUFFICES ASSUME SnipeInv, ReleaseInv, [Next]_vars PROVE ReleaseInv'
    OBVIOUS
  <1>0. CliTypes /\ PhaseInv
    BY DEF SnipeInv
  <1>1. ASSUME UNCHANGED <<runVars, raceVars, row>>, cli' # "run",
               ~created' \/ cli' = "append" => ~created \/ cli = "append",
               cli' = "race" => cli = "race" \/ row.status \notin Waiting
        PROVE  ReleaseInv'
    <2>1. RunInit' <=> RunInit
      BY <1>1 DEF RunInit, runVars
    <2>2. NeverEarly'
      BY <1>1 DEF ReleaseInv, NeverEarly, runVars
    <2>3. calls' = calls /\ post' = post /\ row' = row
      BY <1>1 DEF runVars, raceVars
    <2>4. QED
      BY <1>1, <2>1, <2>2, <2>3 DEF ReleaseInv
  <1>2. CASE CreateSnipe
    BY <1>1, <1>2 DEF CreateSnipe, Exit, snipeVars
  <1>3. CASE AppendEvent
    <2>1. CASE cli' # "run"
      BY <1>1, <1>3, <2>1 DEF AppendEvent, Exit
    <2>2. CASE cli' = "run"
      <3>1. Before' /\ ctxDone' \in BOOLEAN /\ created
        <4>1. SnipeInv'
          BY <1>3, SubmitStep
        <4>2. QED
          BY <1>0, <1>3, <2>2, <4>1 DEF SnipeInv, PhaseInv, CliTypes, AppendEvent
      <3>2. row'.status = "submitted" /\ cli = "append"
        BY <1>0, <1>3 DEF PhaseInv, AppendEvent
      <3>3. RunInit' /\ calls' = 1 /\ created'
        BY <1>3, <3>1, <3>2 DEF ReleaseInv, AppendEvent, RunInit, runVars
      <3>4. RunInv'
        BY <3>1, <3>2, <3>3, RunCalledNext
      <3>5. \A s \in Slots : post'[s] = "none"
        BY <1>0, <1>3, NoPostBefore DEF PhaseInv, AppendEvent, raceVars
      <3>6. NeverEarly'
        BY <3>4 DEF RunInv
      <3>7. QED
        BY <2>2, <3>3, <3>4, <3>5, <3>6 DEF ReleaseInv
    <2>3. QED
      BY <2>1, <2>2
  <1>4. CASE RunRelease \/ Tick
    <2>1. cli = "run" /\ RunInv /\ created /\ UNCHANGED <<cliVars, raceVars>> /\ Before
      BY <1>0, <1>4 DEF RunRelease, Tick, ReleaseInv, PhaseInv
    <2>2. RelNext
      BY <1>4 DEF RunRelease, Tick, RelNext
    <2>3. RunInv'
      BY <2>1, <2>2, RunStepInv
    <2>4. \A s \in Slots : post'[s] = "none"
      BY <2>1, NoPostBefore DEF raceVars
    <2>5. NeverEarly'
      BY <2>3 DEF RunInv
    <2>6. cli' = "run" /\ created'
      BY <2>1 DEF cliVars
    <2>7. QED
      BY <2>3, <2>4, <2>5, <2>6 DEF ReleaseInv
  <1>5. CASE RunBookingRace \/ Serve
    <2>1. cli = "race" \/ \E s \in Slots : post[s] # "none"
      BY <1>5 DEF RunBookingRace, Serve, Race!Serve
    <2>2. row.status \notin Waiting
      BY <2>1 DEF ReleaseInv
    <2>3. created /\ cli \notin {"append", "run"}
      <3>1. CASE cli = "race"
        BY <1>0, <3>1 DEF PhaseInv
      <3>2. CASE \E s \in Slots : post[s] # "none"
        BY <1>0, <3>2, NoPostBefore DEF PhaseInv
      <3>3. QED
        BY <2>1, <3>1, <3>2
    <2>4. UNCHANGED <<cliVars, runVars>>
      BY <1>5 DEF RunBookingRace, Serve
    <2>5. created' = created /\ cli' = cli /\ now' = now /\ release' = release
      BY <2>4 DEF cliVars, runVars
    <2>6. row'.status \notin Waiting
      BY <2>2, <2>3, <2>5, NeverBack
    <2>7. NeverEarly'
      BY <2>2, <2>5 DEF ReleaseInv, NeverEarly, Waiting
    <2>8. QED
      BY <2>3, <2>5, <2>6, <2>7 DEF ReleaseInv
  <1>6. CASE Reload
    <2>1. Loaded = row /\ cli = "reload" /\ created
      BY <1>0, <1>6, BeforeFacts DEF PhaseInv, Reload
    <2>2. cli' = "race" => row.status \notin Waiting
      BY <1>6, <2>1 DEF Reload, Exit, Waiting
    <2>3. cli' \in {"race", "exited"}
      BY <1>6 DEF Reload, Exit
    <2>4. UNCHANGED <<runVars, raceVars, row, created>>
      BY <1>6 DEF Reload
    <2>5. QED
      BY <1>1, <2>1, <2>2, <2>3, <2>4
  <1>7. CASE Shutdown
    <2>1. UNCHANGED <<row, log, mem, cliVars, runVars, raceVars>> /\ ctxDone' = TRUE
      BY <1>7 DEF Shutdown
    <2>2. CASE cli = "run"
      <3>1. RunInv'
        BY <2>1, <2>2, RunCanceled DEF ReleaseInv
      <3>2. NeverEarly'
        BY <3>1 DEF RunInv
      <3>3. created /\ \A s \in Slots : post[s] = "none"
        BY <1>0, <2>2, NoPostBefore DEF PhaseInv
      <3>4. QED
        BY <2>1, <2>2, <3>1, <3>2, <3>3 DEF ReleaseInv, cliVars, raceVars
    <2>3. CASE cli # "run"
      BY <1>1, <2>1, <2>3 DEF cliVars
    <2>4. QED
      BY <2>2, <2>3
  <1>8. CASE AfterRun \/ AfterRace \/ Crash \/ Invoke
    <2>1. UNCHANGED <<row, runVars, raceVars, created>> /\ cli' \in {"reload", "exited", "create"}
      BY <1>8 DEF AfterRun, AfterRace, Crash, Invoke, Exit, snipeVars
    <2>2. QED
      BY <1>1, <2>1
  <1>9. CASE UNCHANGED vars
    <2>1. CASE cli = "run"
      <3>1. UNCHANGED RelVars
        BY <1>9 DEF vars, snipeVars, runVars, RelVars
      <3>2. RunInv'
        BY <2>1, <3>1, RunStepInv DEF ReleaseInv
      <3>3. NeverEarly'
        BY <3>2 DEF RunInv
      <3>4. created /\ \A s \in Slots : post[s] = "none"
        BY <1>0, <2>1, NoPostBefore DEF PhaseInv
      <3>5. QED
        BY <1>9, <2>1, <3>2, <3>3, <3>4 DEF ReleaseInv, vars, cliVars, raceVars
    <2>2. CASE cli # "run"
      BY <1>1, <1>9, <2>2 DEF vars, snipeVars, cliVars
    <2>3. QED
      BY <2>1, <2>2
  <1>10. QED
    BY <1>2, <1>3, <1>4, <1>5, <1>6, <1>7, <1>8, <1>9 DEF Next, Step

\* The release's part of the invariant holds before the first invocation.
LEMMA ReleaseStarts == Init => ReleaseInv
  <1>. SUFFICES ASSUME Init PROVE ReleaseInv
    OBVIOUS
  <1>1. row.status = "submitted" /\ cli = "create" /\ RunInit /\ calls = 1
    BY DEF Init
  <1>2. \A s \in Slots : post[s] = "none"
    BY DEF Init, Race!RaceInit, Race!Slots, Slots
  <1>3. QED
    BY <1>1, <1>2 DEF ReleaseInv, NeverEarly

(* No POST leaves before the release (run.go, snipe.go): for every release *)
(* that has a time, every clock, any number of slots and invocations and   *)
(* any faults.                                                             *)
THEOREM PostsAfterRelease == Spec => []NoEarlyPost
  <1>1. ReleaseInv => NoEarlyPost
    BY DEF ReleaseInv, NeverEarly, NoEarlyPost, Waiting
  <1>2. QED
    BY <1>1, ReleaseStarts, ReleaseKept, Invariance, PTL DEF Spec

----------------------------------------------------------------------------
\* Wherever the command is, the row, its copy and its log have their types, and so has
\* the race.
LEMMA SharedTypes ==
  ASSUME SnipeInv
  PROVE  /\ row \in SnipeRows /\ mem \in SnipeRows /\ log \in Seq(AllEventTypes)
         /\ Race!TypeOK
  <1>1. CASE log = <<>>
    <2>1. Before /\ ctxDone \in BOOLEAN
      BY <1>1 DEF SnipeInv, CliTypes, PhaseInv
    <2>2. row \in SnipeRows /\ mem \in SnipeRows /\ log \in Seq(AllEventTypes)
      BY <2>1 DEF Before
    <2>3. row \in Race!SnipeRows /\ mem \in Race!SnipeRows /\ log \in Seq(Race!AllEventTypes)
      BY <2>2 DEF Race!SnipeRows, SnipeRows, Race!AllStatuses, AllStatuses, Race!Slots, Slots,
         Race!NoResult, NoResult, Race!AllEventTypes, AllEventTypes
    <2>4. Race!RaceInit /\ MaxSlots \in Nat \ {0}
      BY <2>1, MaxSlotsAssumption DEF Before
    <2>5. Race!TypeOK
      <3>1. 0 \in 0..MaxSlots /\ 1 \in 1..(MaxSlots + 1) /\ <<>> \in Seq(Race!Slots)
        BY <2>4
      <3>2. attempt \in [Race!Slots -> {"none"} \cup Race!Running \cup Race!Finished]
        BY <2>4 DEF Race!RaceInit
      <3>3. post \in [Race!Slots -> {"none", "pending", "booked", "refused"}]
        BY <2>4 DEF Race!RaceInit
      <3>4. QED
        BY <2>1, <2>3, <2>4, <3>1, <3>2, <3>3 DEF Race!RaceInit, Race!TypeOK, Race!Returns
    <2>6. QED
      BY <2>2, <2>5
  <1>2. CASE log # <<>>
    <2>1. RaceP!TypeOK
      BY <1>2 DEF SnipeInv, PhaseInv, RaceP!RaceInv
    <2>2. row \in SnipeRows /\ mem \in SnipeRows /\ log \in Seq(AllEventTypes)
      BY <2>1 DEF RaceP!TypeOK, RaceP!SnipeRows, SnipeRows, RaceP!AllStatuses, AllStatuses, RaceP!Slots, Slots,
         RaceP!NoResult, NoResult, RaceP!AllEventTypes, AllEventTypes
    <2>3. row \in Race!SnipeRows /\ mem \in Race!SnipeRows /\ log \in Seq(Race!AllEventTypes)
      BY <2>2 DEF Race!SnipeRows, SnipeRows, Race!AllStatuses, AllStatuses, Race!Slots, Slots,
         Race!NoResult, NoResult, Race!AllEventTypes, AllEventTypes
    <2>4. Race!TypeOK
      BY <2>1, <2>3 DEF RaceP!TypeOK, Race!TypeOK, RaceP!Slots, Race!Slots, RaceP!Running, Race!Running,
         RaceP!Finished, Race!Finished, RaceP!Returns, Race!Returns, RaceP!Reasons, Race!Reasons
    <2>5. QED
      BY <2>2, <2>4
  <1>3. QED
    BY <1>1, <1>2

\* The same of the next state.
LEMMA SharedTypesNext ==
  (SnipeInv => row \in SnipeRows /\ mem \in SnipeRows /\ log \in Seq(AllEventTypes) /\ ctxDone \in BOOLEAN)'
  <1>1. SnipeInv => row \in SnipeRows /\ mem \in SnipeRows /\ log \in Seq(AllEventTypes) /\ ctxDone \in BOOLEAN
    BY SharedTypes DEF SnipeInv, CliTypes
  <1>2. QED
    BY <1>1, PTL

\* What the user was told and the exit status are among those that runSnipe has.
OutputTypes ==
  told \in {"none", "canceled", "booked", "not_booked"} /\ exit \in {"none", "ok", "error", "killed"}

\* Run's variables keep their types while the command does something else.
LEMMA TypesKept ==
  ASSUME SnipeInv, SnipeInv', ReleaseInv, ReleaseInv', RelTypeOK, OutputTypes, [Next]_vars
  PROVE  RelTypeOK' /\ OutputTypes'
  <1>1. ASSUME UNCHANGED runVars PROVE RelTypeOK'
    BY <1>1, SharedTypesNext DEF RelTypeOK, runVars
  <1>2. CASE RunRelease \/ Tick
    <2>1. cli' = "run" /\ told' = told /\ exit' = exit
      BY <1>2 DEF RunRelease, Tick, cliVars
    <2>2. QED
      BY <2>1 DEF ReleaseInv, RunInv, OutputTypes
  <1>3. CASE CreateSnipe \/ AppendEvent \/ AfterRun \/ Reload \/ AfterRace
    BY <1>1, <1>3 DEF CreateSnipe, AppendEvent, AfterRun, Reload, AfterRace, Exit, ResultOf, OutputTypes
  <1>4. CASE RunBookingRace \/ Serve \/ Shutdown \/ Crash \/ Invoke
    BY <1>1, <1>4 DEF RunBookingRace, Serve, Shutdown, Crash, Invoke, Exit, cliVars, OutputTypes
  <1>5. CASE UNCHANGED vars
    BY <1>1, <1>5 DEF vars, cliVars, OutputTypes
  <1>6. QED
    BY <1>2, <1>3, <1>4, <1>5 DEF Next, Step

(* Every variable of the command, of its release run and of its race keeps *)
(* its type, through reloads, crashes and re-invocations (snipe.go).       *)
THEOREM SnipeTypes == Spec => []TypeOK
  <1>1. Init => RelTypeOK /\ OutputTypes
    <2>1. ASSUME Init PROVE RelTypeOK /\ OutputTypes
      <3>1. 0 \in 0..MaxTime /\ 0 \in 0..(MaxTime + PollFloor) /\ 1 \in 0..MaxCalls
        BY ClockAssumption, MaxCallsAssumption
      <3>2. row \in SnipeRows /\ mem \in SnipeRows /\ log \in Seq(AllEventTypes)
        BY <2>1, InitInv, SharedTypes
      <3>3. QED
        BY <2>1, <3>1, <3>2 DEF Init, RunInit, RelTypeOK, Errs, OutputTypes
    <2>2. QED
      BY <2>1
  <1>2. SnipeInv /\ SnipeInv' /\ ReleaseInv /\ ReleaseInv' /\ RelTypeOK /\ OutputTypes /\ [Next]_vars
        => RelTypeOK' /\ OutputTypes'
    BY TypesKept
  <1>3. SnipeInv /\ RelTypeOK /\ OutputTypes => TypeOK
    BY SharedTypes DEF SnipeInv, CliTypes, OutputTypes, TypeOK
  <1>4. QED
    BY <1>1, <1>2, <1>3, ReleaseStarts, ReleaseKept, Invariance, PTL DEF Spec
=============================================================================
