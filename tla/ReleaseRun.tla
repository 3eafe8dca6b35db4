---------------------------- MODULE ReleaseRun -----------------------------
(***************************************************************************)
(* Engine.Run (internal/engine/run.go) and the release strategies it       *)
(* drives (internal/engine/release.go), from a persisted snipe up to       *)
(* "awaiting" or the close of the polling window.  Two goroutines take     *)
(* part: Run itself, and the timer callback that runs the strategy when    *)
(* the scheduled time is still ahead.  They race with the clock and with   *)
(* the cancellation of the context.                                        *)
(*                                                                         *)
(* Run is called on a fresh snipe and, as its comment provides for, again  *)
(* on the same snipe after it returned or the process died.                *)
(***************************************************************************)
EXTENDS Integers, SnipeStore, SnipeLoad

CONSTANTS
  Releases,    \* the release strategies explored
  PollFloor,   \* pollInterval(), in ticks of the clock
  MaxTime,     \* the clock stops here (bound)
  MaxCalls     \* most calls of Run on the snipe (bound)

ReleaseStrategies ==
  [kind : {"explicit", "discovered", "continuous"}, from : 0..MaxTime, until : 0..MaxTime]

ASSUME ReleasesAssumption == Releases \subseteq ReleaseStrategies
ASSUME ClockAssumption == MaxTime \in Nat /\ PollFloor \in Nat \ {0}
ASSUME MaxCallsAssumption == MaxCalls \in Nat \ {0}

VARIABLES
  release,   \* the intent's release strategy; explicit: until is unused
  sched,     \* the scheduled_at column (and its in-memory copy)
  observed,  \* an observed_release_times row was written
  now,       \* clock.Now()
  run,       \* where Run is
  timer,     \* the clock.AfterFunc timer
  strat,     \* where runStrategy is, on Run's goroutine or the callback's
  stratErr,  \* what runStrategy returned: fireErr
  runErr,    \* what Run returned: "running" until it has
  wake,      \* when the current waitWithCtx ends
  earliest,  \* history: when the next provider call may start
  calls      \* how often Run was called

runVars == <<release, sched, observed, now, run, timer, strat, stratErr, runErr,
             wake, earliest, calls>>
RelVars == <<row, log, mem, ctxDone, runVars>>

(* nil; an error that wraps context.Canceled or context.DeadlineExceeded;  *)
(* any other error.                                                        *)
Errs == {"nil", "ctx", "err"}

RelTypeOK ==
  /\ row \in SnipeRows /\ mem \in SnipeRows
  /\ log \in Seq(AllEventTypes)
  /\ ctxDone \in BOOLEAN
  /\ release \in Releases
  /\ sched \in 0..MaxTime
  /\ observed \in BOOLEAN
  /\ now \in 0..MaxTime
  /\ run \in {"load", "schedule", "delay", "fire", "select", "join", "done", "dead"}
  /\ timer \in {"off", "armed", "fired", "stopped"}
  /\ strat \in {"off", "start", "check", "call", "hit", "released", "pause", "done"}
  /\ stratErr \in Errs /\ runErr \in Errs \cup {"running"}
  /\ wake \in 0..MaxTime
  /\ earliest \in 0..(MaxTime + PollFloor)
  /\ calls \in 0..MaxCalls

(* Run's own variables as it is called at a time when no call is running.  *)
RunInit ==
  /\ run = "load"
  /\ timer = "off" /\ strat = "off"
  /\ stratErr = "nil" /\ runErr = "running"
  /\ sched = 0 /\ observed = FALSE
  /\ now = 0 /\ wake = 0 /\ earliest = 0
  /\ release \in Releases

(* The snipe Engine.Submit has just created.                               *)
RelInit ==
  /\ row = [status |-> "submitted", result |-> NoResult]
  /\ mem = row
  /\ log = <<"submitted">>
  /\ ctxDone = FALSE
  /\ RunInit
  /\ calls = 1

----------------------------------------------------------------------------
(* Engine.Run, on the caller's goroutine.                                  *)

(* A failed store or provider call under a cancelled context wraps         *)
(* context.Canceled.                                                       *)
FailureErr == IF ctxDone THEN "ctx" ELSE "err"

RunReturns(e) == run' = "done" /\ runErr' = e

(* e.Load: the row's status is rebuilt by walking the transition table.    *)
RunLoad ==
  /\ run = "load"
  /\ \/ /\ ~ctxDone
        /\ LET w == forceStatus(row.status)
           IN  IF w.ok
                 THEN mem' = [row EXCEPT !.status = w.at] /\ run' = "schedule" /\ UNCHANGED runErr
                 ELSE RunReturns("err") /\ UNCHANGED mem
     \/ /\ ctxDone \/ "store" \in Faults
        /\ RunReturns(FailureErr)
        /\ UNCHANGED mem
  /\ UNCHANGED <<row, log, ctxDone, release, sched, observed, now, timer, strat,
                 stratErr, wake, earliest, calls>>

scheduledAtFromIntent ==
  IF release.kind = "continuous" THEN now ELSE release.from

(* Mutant: the scheduled time is not stamped on the row.                   *)
ScheduleUnstamped ==
  /\ run = "schedule"
  /\ \/ /\ mem.status = "submitted"
        /\ Commits(mem, "scheduled", "scheduled")
        /\ run' = "delay"
        /\ UNCHANGED runErr
     \/ /\ mem.status = "scheduled"
        /\ run' = "delay"
        /\ UNCHANGED <<row, log, mem, runErr>>
  /\ UNCHANGED <<ctxDone, release, sched, observed, now, timer, strat, stratErr,
                 wake, earliest, calls>>

(* A submitted snipe is scheduled, with its wake-up time, in one           *)
(* transaction (transitionToScheduled); a scheduled one goes on with the   *)
(* time it has; on any other status Run has nothing to do.                 *)
Schedule ==
  /\ run = "schedule"
  /\ \/ /\ mem.status = "submitted"
        /\ \/ /\ Commits(mem, "scheduled", "scheduled")
              /\ sched' = scheduledAtFromIntent
              /\ run' = "delay"
              /\ UNCHANGED runErr
           \/ /\ Rejects(mem, "scheduled")
              /\ RunReturns(FailureErr)
              /\ UNCHANGED sched
     \/ /\ mem.status = "scheduled"
        /\ run' = "delay"
        /\ UNCHANGED <<row, log, mem, sched, runErr>>
     \/ /\ mem.status \notin {"submitted", "scheduled"}
        /\ RunReturns("nil")
        /\ UNCHANGED <<row, log, mem, sched>>
  /\ UNCHANGED <<ctxDone, release, observed, now, timer, strat, stratErr, wake,
                 earliest, calls>>

(* A time in the past fires on this goroutine, a later one from a timer.   *)
Delay ==
  /\ run = "delay"
  /\ \/ /\ now >= sched
        /\ run' = "fire" /\ strat' = "start"
        /\ UNCHANGED timer
     \/ /\ now < sched
        /\ run' = "select" /\ timer' = "armed"
        /\ UNCHANGED strat
  /\ UNCHANGED <<row, log, mem, ctxDone, release, sched, observed, now, stratErr,
                 runErr, wake, earliest, calls>>

FireReturns ==
  /\ run = "fire"
  /\ strat = "done"
  /\ RunReturns(stratErr)
  /\ UNCHANGED <<row, log, mem, ctxDone, release, sched, observed, now, timer,
                 strat, stratErr, wake, earliest, calls>>

(* waitAndFire's select: <-done.                                           *)
SelectDone ==
  /\ run = "select"
  /\ strat = "done"
  /\ RunReturns(stratErr)
  /\ UNCHANGED <<row, log, mem, ctxDone, release, sched, observed, now, timer,
                 strat, stratErr, wake, earliest, calls>>

(* Mutant: Run returns on cancellation without waiting for a callback that *)
(* Stop came too late for.                                                 *)
SelectCtxNoJoin ==
  /\ run = "select"
  /\ ctxDone
  /\ RunReturns("ctx")
  /\ timer' = IF timer = "armed" THEN "stopped" ELSE timer
  /\ UNCHANGED <<row, log, mem, ctxDone, release, sched, observed, now, strat,
                 stratErr, wake, earliest, calls>>

(* Mutant: Run waits for the callback even when Stop prevented it.         *)
SelectCtxAlwaysJoin ==
  /\ run = "select"
  /\ ctxDone
  /\ timer' = IF timer = "armed" THEN "stopped" ELSE timer
  /\ run' = "join"
  /\ UNCHANGED <<row, log, mem, ctxDone, release, sched, observed, now, strat,
                 stratErr, runErr, wake, earliest, calls>>

(* waitAndFire's select: <-ctx.Done().  Stop succeeds while the timer has  *)
(* not expired; otherwise the callback runs and Run waits for it.          *)
SelectCtx ==
  /\ run = "select"
  /\ ctxDone
  /\ \/ timer = "armed" /\ timer' = "stopped" /\ RunReturns("ctx")
     \/ timer = "fired" /\ run' = "join" /\ UNCHANGED <<timer, runErr>>
  /\ UNCHANGED <<row, log, mem, ctxDone, release, sched, observed, now, strat,
                 stratErr, wake, earliest, calls>>

Join ==
  /\ run = "join"
  /\ strat = "done"
  /\ RunReturns("ctx")
  /\ UNCHANGED <<row, log, mem, ctxDone, release, sched, observed, now, timer,
                 strat, stratErr, wake, earliest, calls>>

RunStep == \/ RunLoad \/ Schedule \/ Delay \/ FireReturns \/ SelectDone
           \/ SelectCtx \/ Join

----------------------------------------------------------------------------
(* The timer callback and runStrategy.                                     *)

(* The timer expires: the callback's goroutine starts.                     *)
TimerExpires ==
  /\ timer = "armed"
  /\ now >= sched
  /\ timer' = "fired"
  /\ UNCHANGED <<row, log, mem, ctxDone, release, sched, observed, now, run,
                 strat, stratErr, runErr, wake, earliest, calls>>

(* The callback looks at the context once before it runs the strategy.     *)
Callback ==
  /\ timer = "fired"
  /\ strat = "off"
  /\ strat' = IF ctxDone THEN "done" ELSE "start"
  /\ UNCHANGED <<row, log, mem, ctxDone, release, sched, observed, now, run,
                 timer, stratErr, runErr, wake, earliest, calls>>

StratReturns(e) == strat' = "done" /\ stratErr' = e

(* Mutant: a transition that could not be saved is only logged.            *)
FinalTransitionIgnored(to, event) ==
  \/ Commits(mem, to, event) /\ StratReturns("nil")
  \/ Rejects(mem, to) /\ StratReturns("nil")

(* A transition that ends the strategy; its error is the strategy's.       *)
FinalTransition(to, event) ==
  \/ Commits(mem, to, event) /\ StratReturns("nil")
  \/ Rejects(mem, to) /\ StratReturns(FailureErr)

(* The strategy starts at or after its scheduled time, so a discovered     *)
(* release never has to wait for ProbeFrom here.                           *)
StratStart ==
  /\ strat = "start"
  /\ \/ release.kind = "explicit" /\ FinalTransition("awaiting", "released")
     \/ /\ release.kind = "discovered"
        /\ \/ /\ release.until <= release.from
              /\ StratReturns("err")
              /\ UNCHANGED <<row, log, mem>>
           \/ /\ release.until > release.from
              /\ \/ /\ Commits(mem, "discovering", "discovered")
                    /\ strat' = "check"
                    /\ UNCHANGED stratErr
                 \/ /\ Rejects(mem, "discovering")
                    /\ StratReturns(FailureErr)
     \/ /\ release.kind = "continuous"
        /\ strat' = "check"
        /\ UNCHANGED <<row, log, mem, stratErr>>
  /\ UNCHANGED <<ctxDone, release, sched, observed, now, run, timer, runErr, wake,
                 earliest, calls>>

(* The head of the polling loop: cancelled, window closed, or poll again.  *)
(* A discovered window that closes fails the snipe, a continuous one       *)
(* expires it.                                                             *)
Check ==
  /\ strat = "check"
  /\ \/ /\ ctxDone
        /\ StratReturns("ctx")
        /\ UNCHANGED <<row, log, mem, earliest>>
     \/ /\ ~ctxDone
        /\ now >= release.until
        /\ IF release.kind = "discovered" THEN FinalTransition("failed", "failed")
                                          ELSE FinalTransition("expired", "expired")
        /\ UNCHANGED earliest
     \/ /\ ~ctxDone
        /\ now < release.until
        /\ strat' = "call"
        /\ earliest' = now + PollFloor
        /\ UNCHANGED <<row, log, mem, stratErr>>
  /\ UNCHANGED <<ctxDone, release, sched, observed, now, run, timer, runErr, wake,
                 calls>>

(* Mutant: nothing found, ask again at once.                               *)
PollNoPause ==
  /\ strat = "call"
  /\ \/ ~ctxDone /\ strat' \in {"hit", "check"} /\ UNCHANGED stratErr
     \/ StratReturns(FailureErr)
  /\ UNCHANGED <<row, log, mem, ctxDone, release, sched, observed, now, run,
                 timer, runErr, wake, earliest, calls>>

(* Provider.Calendar or Provider.Find answers.  A timed-out call wraps     *)
(* context.DeadlineExceeded, a cancelled one context.Canceled; a rate      *)
(* limit or a challenge is another error.  An empty answer waits for the   *)
(* PollFloor.                                                              *)
Poll ==
  /\ strat = "call"
  /\ \/ /\ ~ctxDone
        /\ strat' = "hit"
        /\ UNCHANGED <<stratErr, wake>>
     \/ /\ ~ctxDone
        /\ strat' = "pause"
        /\ wake' = IF now + PollFloor <= MaxTime THEN now + PollFloor ELSE MaxTime
        /\ UNCHANGED stratErr
     \/ /\ \/ (ctxDone \/ "lost" \in Faults) /\ StratReturns("ctx")
           \/ ~ctxDone /\ "blocked" \in Faults /\ StratReturns("err")
        /\ UNCHANGED wake
  /\ UNCHANGED <<row, log, mem, ctxDone, release, sched, observed, now, run,
                 timer, runErr, earliest, calls>>

(* A hit of a discovered release is remembered for the venue first; a      *)
(* failure to do so is only logged.                                        *)
RecordObserved ==
  /\ strat = "hit"
  /\ strat' = "released"
  /\ \/ release.kind = "discovered" /\ ~ctxDone /\ observed' = TRUE
     \/ /\ release.kind = "continuous" \/ ctxDone \/ "store" \in Faults
        /\ UNCHANGED observed
  /\ UNCHANGED <<row, log, mem, ctxDone, release, sched, now, run, timer,
                 stratErr, runErr, wake, earliest, calls>>

Released ==
  /\ strat = "released"
  /\ FinalTransition("awaiting", IF release.kind = "discovered" THEN "released" ELSE "found")
  /\ UNCHANGED <<ctxDone, release, sched, observed, now, run, timer, runErr, wake,
                 earliest, calls>>

(* waitWithCtx for the PollFloor: the timer or the context, whichever      *)
(* select picks when both are ready.                                       *)
Pause ==
  /\ strat = "pause"
  /\ \/ now >= wake /\ strat' = "check" /\ UNCHANGED stratErr
     \/ ctxDone /\ StratReturns("ctx")
  /\ UNCHANGED <<row, log, mem, ctxDone, release, sched, observed, now, run,
                 timer, runErr, wake, earliest, calls>>

StratStep == \/ TimerExpires \/ Callback \/ StratStart \/ Check \/ Poll
             \/ RecordObserved \/ Released \/ Pause

----------------------------------------------------------------------------
(* The environment.                                                        *)

RelTick ==
  /\ now < MaxTime
  /\ now' = now + 1
  /\ UNCHANGED <<row, log, mem, ctxDone, release, sched, observed, run, timer,
                 strat, stratErr, runErr, wake, earliest, calls>>

RelShutdown ==
  /\ "cancel" \in Faults
  /\ run \notin {"done", "dead"}
  /\ ~ctxDone
  /\ ctxDone' = TRUE
  /\ UNCHANGED <<row, log, mem, runVars>>

(* The process dies: the timer, the callback and Run are gone.             *)
RelCrash ==
  /\ "crash" \in Faults
  /\ run # "dead"
  /\ run' = "dead" /\ timer' = "off" /\ strat' = "off"
  /\ stratErr' = "nil" /\ runErr' = "running"
  /\ UNCHANGED <<row, log, mem, ctxDone, release, sched, observed, now, wake,
                 earliest, calls>>

(* Run is called again on the same snipe, with a context of its own.       *)
CallAgain ==
  /\ run \in {"done", "dead"}
  /\ calls < MaxCalls
  /\ calls' = calls + 1
  /\ run' = "load" /\ timer' = "off" /\ strat' = "off"
  /\ stratErr' = "nil" /\ runErr' = "running"
  /\ ctxDone' = FALSE
  /\ earliest' = 0
  /\ UNCHANGED <<row, log, mem, release, sched, observed, now, wake>>

RelNext == RunStep \/ StratStep \/ RelTick \/ RelShutdown \/ RelCrash \/ CallAgain

(* Goroutines that can run do run, timers fire, provider calls end (30s    *)
(* deadline, internal/resy/client.go) and time passes.                     *)
RelFairness == WF_RelVars(RunStep) /\ WF_RelVars(StratStep) /\ WF_RelVars(RelTick)

RelSpec == RelInit /\ [][RelNext]_RelVars
RelFairSpec == RelSpec /\ RelFairness

----------------------------------------------------------------------------
(* Once Run has returned no callback of it is running or about to run, so  *)
(* nothing moves the snipe behind the caller's back: waitAndFire stops the *)
(* timer or waits for the callback (run.go, "Wait for done so we never     *)
(* leave the callback running after Run returns").                         *)
NoCallbackAfterReturn ==
  run = "done" => strat \in {"off", "done"} /\ (timer = "fired" => strat = "done")

(* A snipe is never released, nor its probing begun, before its scheduled  *)
(* time, whether Run fired at once, from a timer, or on a later call that  *)
(* read scheduled_at back from the row.                                    *)
NeverEarly ==
  row.status \notin {"submitted", "scheduled"} /\ release.kind # "continuous"
    => now >= release.from

(* Two polls of one strategy run start at least PollFloor apart, however   *)
(* the polls end (release.go, waitWithCtx(ctx, e.clock, e.pollInterval())).*)
PollsSpaced == [][strat = "check" /\ strat' = "call" => now >= earliest]_RelVars

(* While Run is at work the in-memory snipe is the persisted one, in both  *)
(* goroutines: I-1 for every path of run.go and release.go, and of the     *)
(* statuses that Run meets forceStatus rebuilds the one it read            *)
(* (EveryStatusLoads has the others).                                      *)
MemoryIsRow ==
  run \notin {"load", "done", "dead"} => mem = row

(* Run returns nil on a snipe whose context was not cancelled only once    *)
(* the snipe has left "scheduled": it cannot sleep through its release.    *)
(* On a snipe that is discovering, left so by an earlier call, nil says    *)
(* nothing more: run.go:60-66 returns at once and polls nothing.           *)
NilMeansFired ==
  runErr = "nil" /\ ~ctxDone => row.status \notin {"submitted", "scheduled"}

(* Every call of Run ends: the release comes, the window closes or the     *)
(* context is cancelled, and no goroutine waits for the other forever.     *)
RunEnds == run = "load" ~> run \in {"done", "dead"}
=============================================================================
