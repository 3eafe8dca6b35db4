----------------------------- MODULE RunSnipe ------------------------------
(***************************************************************************)
(* One CLI snipe end to end: runSnipe (cmd/resy-snipe/snipe.go) creates    *)
(* the snipe (Engine.Submit), lets the release strategy run (ReleaseRun),  *)
(* reloads it and races for a booking (BookingRace), then reports.  The    *)
(* process may be interrupted or die at any step; the user may invoke the  *)
(* command again, with the same intent and so with the same snipe id.      *)
(***************************************************************************)
EXTENDS ReleaseRun

CONSTANT MaxInvocations   \* most invocations of the command (bound)

ASSUME MaxInvocationsAssumption == MaxInvocations \in Nat \ {0}

VARIABLES
  cli,       \* where runSnipe is
  created,   \* the snipes row exists
  told,      \* the Result line the notifier printed, "none" if none
  exit,      \* what the process ended with: "none" while it runs, "killed" if it died
  runs,      \* invocations so far
  \* BookingRace
  pc, raceDone, found, next, attempt, post, results, ret

Race == INSTANCE BookingRace

cliVars   == <<cli, created, told, exit, runs>>
raceVars  == <<pc, raceDone, found, next, attempt, post, results, ret>>
snipeVars == <<row, log, mem, ctxDone>>
vars == <<snipeVars, cliVars, runVars, raceVars>>

TypeOK ==
  /\ cli \in {"create", "append", "run", "reload", "race", "exited"}
  /\ created \in BOOLEAN
  /\ told \in {"none", "canceled", "booked", "not_booked"}
  /\ exit \in {"none", "ok", "error", "killed"}
  /\ runs \in 1..MaxInvocations
  /\ RelTypeOK
  /\ Race!TypeOK

Init ==
  /\ row = [status |-> "submitted", result |-> NoResult]
  /\ mem = row
  /\ log = <<>>
  /\ ctxDone = FALSE
  /\ cli = "create" /\ created = FALSE
  /\ told = "none" /\ exit = "none" /\ runs = 1
  /\ RunInit /\ calls = 1
  /\ Race!RaceInit

----------------------------------------------------------------------------
Exit(code) == cli' = "exited" /\ exit' = code

(* A read or a write fails under a cancelled context, and may fail anyway. *)
StoreFails == ctxDone \/ "store" \in Faults

(* Mutant: the insert replaces a row that is already there.                *)
CreateSnipeReplace ==
  /\ cli = "create"
  /\ \/ /\ ~ctxDone
        /\ created' = TRUE
        /\ row' = [status |-> "submitted", result |-> NoResult]
        /\ cli' = "append"
        /\ UNCHANGED exit
     \/ StoreFails /\ Exit("error") /\ UNCHANGED <<row, created>>
  /\ UNCHANGED <<log, mem, ctxDone, told, runs, runVars, raceVars>>

(* Engine.Submit, first write: the row.  The id is derived from the        *)
(* intent's hash, so a second invocation finds it taken.                   *)
CreateSnipe ==
  /\ cli = "create"
  /\ \/ /\ ~created /\ ~ctxDone
        /\ created' = TRUE
        /\ cli' = "append"
        /\ UNCHANGED exit
     \/ /\ created \/ StoreFails
        /\ Exit("error")
        /\ UNCHANGED created
  /\ UNCHANGED <<snipeVars, told, runs, runVars, raceVars>>

(* Engine.Submit, second write: the submitted event.                       *)
AppendEvent ==
  /\ cli = "append"
  /\ \/ /\ ~ctxDone
        /\ log' = Append(log, "submitted")
        /\ cli' = "run"
        /\ UNCHANGED exit
     \/ /\ StoreFails
        /\ Exit("error")
        /\ UNCHANGED log
  /\ UNCHANGED <<row, mem, ctxDone, created, told, runs, runVars, raceVars>>

(* Engine.Run, with its timer callback.                                    *)
RunRelease ==
  /\ cli = "run"
  /\ RunStep \/ StratStep
  /\ UNCHANGED <<cliVars, raceVars>>

(* Run returned.  An error that wraps a context error is reported as       *)
(* "canceled before release", if the snipe can be reloaded at all.         *)
AfterRun ==
  /\ cli = "run"
  /\ run = "done"
  /\ \/ runErr = "nil" /\ cli' = "reload" /\ UNCHANGED <<told, exit>>
     \/ runErr = "err" /\ Exit("error") /\ UNCHANGED told
     \/ /\ runErr = "ctx"
        /\ Exit("error")
        /\ \/ StoreFails /\ UNCHANGED told
           \/ ~ctxDone /\ told' = "canceled"
  /\ UNCHANGED <<snipeVars, created, runs, runVars, raceVars>>

Loaded == [row EXCEPT !.status = forceStatus(row.status).at]

(* emitTerminalResult on the reloaded snipe.                               *)
ResultOf(state) == IF state.status = "booked" THEN "booked" ELSE "not_booked"

(* The snipe is reloaded: an awaiting one goes to the booking race, a      *)
(* settled one is reported; any other is an error.                         *)
Reload ==
  /\ cli = "reload"
  /\ \/ /\ ~ctxDone
        /\ mem' = Loaded
        /\ IF Loaded.status = "awaiting"
             THEN cli' = "race" /\ UNCHANGED <<told, exit>>
             ELSE /\ Exit(IF Loaded.status = "booked" THEN "ok" ELSE "error")
                  /\ told' = IF IsTerminal(Loaded.status) THEN ResultOf(Loaded) ELSE told
     \/ /\ StoreFails
        /\ Exit("error")
        /\ UNCHANGED <<mem, told>>
  /\ UNCHANGED <<row, log, ctxDone, created, runs, runVars, raceVars>>

(* Engine.RunBookingRace and its goroutines.                               *)
RunBookingRace ==
  /\ cli = "race"
  /\ Race!Main \/ \E s \in Slots : Race!Goroutine(s)
  /\ UNCHANGED <<cliVars, runVars>>

(* Mutant: the report is taken from what the race returned.                *)
AfterRaceUnread ==
  /\ cli = "race"
  /\ Race!Returned
  /\ told' = IF ret \in {"nil", "booked_unsaved"} THEN "booked" ELSE "not_booked"
  /\ Exit(IF ret \in {"nil", "booked_unsaved"} THEN "ok" ELSE "error")
  /\ UNCHANGED <<snipeVars, created, runs, runVars, raceVars>>

(* The race returned: the snipe is read back and what the row says is      *)
(* reported.  The process exits with success only if the race returned nil *)
(* and the row is booked.                                                  *)
AfterRace ==
  /\ cli = "race"
  /\ Race!Returned
  /\ \/ /\ ~ctxDone
        /\ told' = ResultOf(Loaded)
        /\ Exit(IF ret = "nil" /\ Loaded.status = "booked" THEN "ok" ELSE "error")
     \/ /\ StoreFails
        /\ Exit("error")
        /\ UNCHANGED told
  /\ UNCHANGED <<snipeVars, created, runs, runVars, raceVars>>

----------------------------------------------------------------------------
(* The environment.                                                        *)

Tick ==
  /\ cli = "run"
  /\ RelTick
  /\ UNCHANGED <<cliVars, raceVars>>

Serve ==
  /\ \E s \in Slots : Race!Serve(s)
  /\ UNCHANGED <<cliVars, runVars>>

(* SIGINT or SIGTERM: installSignalCancel's context is cancelled.          *)
Shutdown ==
  /\ "cancel" \in Faults
  /\ cli # "exited"
  /\ ~ctxDone
  /\ ctxDone' = TRUE
  /\ UNCHANGED <<row, log, mem, cliVars, runVars, raceVars>>

(* The process dies: nothing but the database and the service remains.     *)
Crash ==
  /\ "crash" \in Faults
  /\ cli # "exited"
  /\ Exit("killed")
  /\ UNCHANGED <<snipeVars, created, told, runs, runVars, raceVars>>

(* The user runs the same command again.                                   *)
Invoke ==
  /\ cli = "exited"
  /\ runs < MaxInvocations
  /\ runs' = runs + 1
  /\ cli' = "create"
  /\ ctxDone' = FALSE
  /\ told' = "none" /\ exit' = "none"
  /\ UNCHANGED <<row, log, mem, created, runVars, raceVars>>

Step == \/ CreateSnipe \/ AppendEvent \/ AfterRun \/ Reload \/ AfterRace

Next == \/ Step \/ RunRelease \/ RunBookingRace
        \/ Tick \/ Serve \/ Shutdown \/ Crash \/ Invoke

(* Goroutines that can run do run, provider calls end (30s deadline,       *)
(* internal/resy/client.go) and time passes; nothing is assumed of the     *)
(* reservation service.                                                    *)
Fairness == /\ WF_vars(Step) /\ WF_vars(Tick)
            /\ WF_vars(RunRelease) /\ WF_vars(RunBookingRace)

Spec == Init /\ [][Next]_vars
FairSpec == Spec /\ Fairness

----------------------------------------------------------------------------
(* The database's view of the snipe implements Snipe: whatever crashes,    *)
(* cancels or re-invocations do, the row is created once, the submitted    *)
(* event is written at most once, status and log then move together along  *)
(* the table, and a result is recorded with the move to booked only.       *)
Abstract == INSTANCE Snipe WITH
              Results <- Slots,
              status  <- IF created THEN row.status ELSE "none",
              result  <- row.result
ImplementsSnipe == Abstract!Spec

Confirmed(s) == attempt[s] \in {"confirmed", "pushed", "won", "dropped"}

(* What the user is told is the truth: an exit with success, or a Result   *)
(* line that says booked, means the row is booked with a confirmation of a *)
(* POST the service accepted.                                              *)
ReportedIsReal ==
  exit = "ok" \/ told = "booked" =>
    /\ row.status = "booked"
    /\ post[row.result] = "booked"

(* Without a signal, a crash or a blocked PrepareSlot, a confirmation any  *)
(* goroutine received leads to a booked row and an exit with success: the  *)
(* race, the reload and the report lose none.                              *)
ConfirmationReported ==
  /\ cli = "exited" /\ exit # "killed" /\ ~ctxDone /\ runs = 1
  /\ ret # "prepare_blocked"
  /\ \E s \in Slots : Confirmed(s)
  => exit = "ok"

(* No POST of the race leaves before its release: what Run waits for, what *)
(* the reload reads and what the race needs fit together, also when Run's  *)
(* context ends, the process dies or the command is invoked again.  A      *)
(* continuous release has no time of its own (run.go, snipe.go).           *)
NoEarlyPost ==
  release.kind # "continuous" /\ (\E s \in Slots : post[s] # "none") => now >= release.from

(* Every invocation ends.                                                  *)
InvocationEnds == cli = "create" ~> cli = "exited"

(* What docs/invariants.md I-4 says: detaching the in-flight /3/book from  *)
(* SIGTERM is "in exchange for never producing" a confirmed-but-orphaned   *)
(* reservation, one whose confirmation the client does not see.            *)
NeverOrphaned ==
  cli = "exited" /\ (\E s \in Slots : Confirmed(s)) => row.status = "booked"
=============================================================================
