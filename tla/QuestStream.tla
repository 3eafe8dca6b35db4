---------------------------- MODULE QuestStream ----------------------------
(***************************************************************************)
(* The event stream of one quest: SubscribeQuest of the service, the       *)
(* engine's Subscribe and emit, the SSE handler in front of them and the   *)
(* client behind it.  The engine's goroutine, the goroutine of each        *)
(* connection, CreateQuest, CancelQuest, clients that disconnect and a     *)
(* daemon that stops take their steps in any order.                        *)
(*                                                                         *)
(* The engine's emissions are numbered.  An event is the number of its     *)
(* emission; the two that the service writes by itself are 0 (CreateQuest) *)
(* and -1 (CancelQuest).  The clock is the number of emissions so far.     *)
(***************************************************************************)
EXTENDS Integers, Sequences, FiniteSets, SequencesExt, SnipeStatus

CONSTANTS
  Conns,     \* connections to GET /v1/quests/{id}/events, by number
  Slow,      \* the connections whose client may stop reading
  Scripts,   \* what the engine may emit: sequences of [mine, type]
  LiveBuf,   \* liveBuf, capacity of a subscriber's channel
  Faults     \* "gone": a client disconnects, "store": a statement fails, "stop"

ASSUME ConnsAssumption == Conns \subseteq Nat /\ Slow \subseteq Conns
ASSUME LiveBufAssumption == LiveBuf \in Nat \ {0}
ASSUME FaultsAssumption == Faults \subseteq {"gone", "store", "stop"}
ASSUME ScriptsAssumption ==
  \A s \in Scripts :
    /\ s \in Seq([mine : BOOLEAN, type : AllEventTypes])
    /\ Len(s) > 0 /\ s[1] = [mine |-> TRUE, type |-> "submitted"]

VARIABLES
  script,    \* what the engine emits in this behaviour
  row,       \* status of the quests row, "absent" before CreateQuest
  rows,      \* quest_events rows of the quest: the events there is a row of
  creator,   \* CreateQuest: "idle", "row", "event", "done"
  canceler,  \* CancelQuest: "idle", "event", "done"
  subs,      \* engine.subs: the subscribed connections in ascending id
  now,       \* emissions begun
  snap,      \* emit: subscribers of the snapshot still to be called
  wrote,     \* the first of them has written its row
  pc,        \* of each connection
  live,      \* its request's context is not cancelled
  terminal,  \* the row was terminal at the gate
  history,   \* what ListQuestEvents returned to it
  buf,       \* its live channel
  told,      \* events of the history that the client's callback has seen
  flow,      \* live events that it has seen, in order
  \* observers
  since,     \* emissions begun when the connection subscribed
  dropped    \* emissions that found its channel full

service == <<row, creator, canceler>>
engine  == <<script, now, snap, wrote>>
conn    == <<pc, live, terminal, history, told, flow>>
vars    == <<service, rows, subs, engine, conn, buf, since, dropped>>

Emissions == 1..Len(script)
Mine(n)   == script[n].mine
Type(ev)  == IF ev = 0 THEN "submitted" ELSE IF ev = -1 THEN "canceled" ELSE script[ev].type

TypeOK ==
  /\ script \in Scripts
  /\ row \in {"absent", "submitted", "canceled"}
  /\ rows \subseteq -1..Len(script)
  /\ creator \in {"idle", "row", "event", "done"}
  /\ canceler \in {"idle", "event", "done"}
  /\ now \in 0..Len(script)
  /\ IsInjective(subs) /\ IsInjective(snap) /\ Range(subs) \cup Range(snap) \subseteq Conns
  /\ wrote \in BOOLEAN /\ (wrote => snap # <<>>)
  /\ pc \in [Conns -> {"idle", "gate", "list", "replay", "subscribe", "pump", "cancel",
                       "ended", "failed", "died"}]
  /\ live \in [Conns -> BOOLEAN]
  /\ terminal \in [Conns -> BOOLEAN]
  /\ \A c \in Conns :
       /\ buf[c] \in Seq(Emissions) /\ Len(buf[c]) <= LiveBuf
       /\ flow[c] \in Seq(Emissions)
       /\ told[c] \cup history[c] \subseteq -1..Len(script)
  /\ since \in [Conns -> 0..Len(script)]
  /\ dropped \in [Conns -> SUBSET Emissions]

Init ==
  /\ script \in Scripts
  /\ row = "absent" /\ rows = {}
  /\ creator = "idle" /\ canceler = "idle"
  /\ subs = <<>> /\ now = 0 /\ snap = <<>> /\ wrote = FALSE
  /\ pc = [c \in Conns |-> "idle"]
  /\ live = [c \in Conns |-> TRUE]
  /\ terminal = [c \in Conns |-> FALSE]
  /\ history = [c \in Conns |-> {}]
  /\ buf = [c \in Conns |-> <<>>]
  /\ told = [c \in Conns |-> {}]
  /\ flow = [c \in Conns |-> <<>>]
  /\ since = [c \in Conns |-> 0]
  /\ dropped = [c \in Conns |-> {}]

----------------------------------------------------------------------------
(* The store *)

\* WriteQuestEvent under a context: it runs, or fails and is only logged.
WriteQuestEvent(ev, alive) ==
  \/ alive /\ rows' = rows \cup {ev}
  \/ (~alive \/ "store" \in Faults) /\ UNCHANGED rows

----------------------------------------------------------------------------
(* The service's other calls *)

\* CreateQuest: the quests row; Submit comes next and is the first emission.
CreateRow ==
  /\ creator = "idle"
  /\ creator' = "row" /\ row' = "submitted"
  /\ UNCHANGED <<canceler, rows, subs, engine, conn, buf, since, dropped>>

\* CreateQuest writes "submitted" itself once Submit has returned.
CreateEvent ==
  /\ creator = "row" /\ (now > 1 \/ (now = 1 /\ snap = <<>>))
  /\ creator' = "done"
  /\ WriteQuestEvent(0, TRUE)
  /\ UNCHANGED <<row, canceler, subs, engine, conn, buf, since, dropped>>

\* CancelQuest: the row is updated, the engine is not told.
CancelUpdate ==
  /\ canceler = "idle" /\ row = "submitted"
  /\ canceler' = "event" /\ row' = "canceled"
  /\ UNCHANGED <<creator, rows, subs, engine, conn, buf, since, dropped>>

CancelEvent ==
  /\ canceler = "event"
  /\ canceler' = "done"
  /\ WriteQuestEvent(-1, TRUE)
  /\ UNCHANGED <<row, creator, subs, engine, conn, buf, since, dropped>>

----------------------------------------------------------------------------
(* The engine *)

\* A transition has been persisted: emit takes its snapshot of the subscribers.
\* Submit is the first one and needs the quests row that CreateQuest wrote.
Emit ==
  /\ row # "absent" /\ now < Len(script) /\ snap = <<>>
  /\ now' = now + 1
  /\ snap' = subs
  /\ UNCHANGED <<script, wrote, service, rows, subs, conn, buf, since, dropped>>

\* Mutant: the subscriber does not look at the snipe's id.
CallAnyQuest ==
  /\ snap # <<>> /\ ~wrote
  /\ WriteQuestEvent(now, live[Head(snap)])
  /\ wrote' = TRUE /\ UNCHANGED snap
  /\ UNCHANGED <<script, now, service, subs, conn, buf, since, dropped>>

\* The next subscriber of the snapshot is called.  Another quest's notification
\* is not for it; its own is written to quest_events first.
Call ==
  /\ snap # <<>> /\ ~wrote
  /\ IF Mine(now)
     THEN /\ WriteQuestEvent(now, live[Head(snap)])
          /\ wrote' = TRUE /\ UNCHANGED snap
     ELSE snap' = Tail(snap) /\ UNCHANGED <<rows, wrote>>
  /\ UNCHANGED <<script, now, service, subs, conn, buf, since, dropped>>

\* The non-blocking send to its channel.
Send ==
  /\ snap # <<>> /\ wrote
  /\ LET c == Head(snap) IN
     IF pc[c] = "ended" THEN UNCHANGED <<buf, dropped>>
     ELSE IF Len(buf[c]) < LiveBuf
     THEN buf' = [buf EXCEPT ![c] = Append(@, now)] /\ UNCHANGED dropped
     ELSE dropped' = [dropped EXCEPT ![c] = @ \cup {now}] /\ UNCHANGED buf
  /\ wrote' = FALSE /\ snap' = Tail(snap)
  /\ UNCHANGED <<script, now, service, rows, subs, conn, since>>

----------------------------------------------------------------------------
(* One connection *)

Without(s, c) == IF c \in Range(s) THEN RemoveAt(s, CHOOSE i \in DOMAIN s : s[i] = c) ELSE s

Goto(c, l) == pc' = [pc EXCEPT ![c] = l]

\* The request: the handler commits 200 and calls SubscribeQuest.
Connect(c) ==
  /\ pc[c] = "idle"
  /\ Goto(c, "gate")
  /\ UNCHANGED <<live, terminal, history, told, flow, service, rows, subs, engine, buf, since, dropped>>

\* Mutant: SubscribeQuest subscribes to the engine before it reads the history.
GateSubscribes(c) ==
  /\ pc[c] = "gate"
  /\ row # "absent" /\ Goto(c, "list") /\ terminal' = [terminal EXCEPT ![c] = row = "canceled"]
  /\ subs' = Append(subs, c) /\ since' = [since EXCEPT ![c] = now]
  /\ UNCHANGED <<live, history, told, flow, service, rows, engine, buf, dropped>>

\* GetQuest by id and user: to a stranger there is no row.  A context error is a
\* graceful close.
Gate(c) ==
  /\ pc[c] = "gate"
  /\ \/ live[c] /\ row = "absent" /\ Goto(c, "failed") /\ UNCHANGED terminal
     \/ /\ live[c] /\ row # "absent"
        /\ Goto(c, "list") /\ terminal' = [terminal EXCEPT ![c] = row = "canceled"]
     \/ ~live[c] /\ Goto(c, "ended") /\ UNCHANGED terminal
     \/ live[c] /\ "store" \in Faults /\ Goto(c, "failed") /\ UNCHANGED terminal
  /\ UNCHANGED <<live, history, told, flow, service, rows, subs, engine, buf, since, dropped>>

\* ListQuestEvents by id and user.
List(c) ==
  /\ pc[c] = "list"
  /\ \/ live[c] /\ Goto(c, "replay") /\ history' = [history EXCEPT ![c] = rows]
     \/ ~live[c] /\ Goto(c, "ended") /\ UNCHANGED history
     \/ live[c] /\ "store" \in Faults /\ Goto(c, "failed") /\ UNCHANGED history
  /\ UNCHANGED <<live, terminal, told, flow, service, rows, subs, engine, buf, since, dropped>>

\* The history, event by event, through the callback of the handler: a frame
\* each, that the client hands to its own callback.  The context is looked at
\* before each one; what a client that has gone was told does not matter.
Replay(c) ==
  /\ pc[c] = "replay"
  /\ told' = IF live[c] THEN [told EXCEPT ![c] = history[c]] ELSE told
  /\ history' = [history EXCEPT ![c] = {}]
  /\ Goto(c, IF terminal[c] \/ (~live[c] /\ history[c] # {}) THEN "ended" ELSE "subscribe")
  /\ UNCHANGED <<live, terminal, flow, service, rows, subs, engine, buf, since, dropped>>

\* engine.Subscribe: the next id.
Subscribe(c) ==
  /\ pc[c] = "subscribe"
  /\ Goto(c, "pump")
  /\ subs' = Append(Without(subs, c), c)
  /\ since' = [since EXCEPT ![c] = now]
  /\ UNCHANGED <<live, terminal, history, told, flow, service, rows, engine, buf, dropped>>

\* Mutant: an expired quest is forgotten.
isTerminalEventButExpired(t) == t \in {"booked", "failed", "canceled"}

isTerminalEvent(t) == t \in {"booked", "failed", "canceled", "expired"}

\* The select of the pump: both cases may be ready, either is taken.  A frame
\* for a client that has gone is written to nobody.
Pump(c) ==
  /\ pc[c] = "pump"
  /\ \/ ~live[c] /\ Goto(c, "cancel") /\ UNCHANGED <<buf, flow>>
     \/ /\ buf[c] # <<>>
        /\ flow' = IF live[c] THEN [flow EXCEPT ![c] = Append(@, Head(buf[c]))] ELSE flow
        /\ buf' = [buf EXCEPT ![c] = Tail(@)]
        /\ IF isTerminalEvent(Type(Head(buf[c]))) THEN Goto(c, "cancel") ELSE UNCHANGED pc
  /\ UNCHANGED <<live, terminal, history, told, service, rows, subs, engine, since, dropped>>

\* The deferred cancel and the return; a snapshot that is being worked off still
\* holds c, and what it sends to the channel is lost with the channel.
Unsubscribe(c) ==
  /\ pc[c] = "cancel"
  /\ Goto(c, "ended")
  /\ subs' = Without(subs, c)
  /\ buf' = [buf EXCEPT ![c] = <<>>]
  /\ since' = [since EXCEPT ![c] = 0] /\ dropped' = [dropped EXCEPT ![c] = {}]
  /\ UNCHANGED <<live, terminal, history, told, flow, service, rows, engine>>

\* Mutant: the end of the body is all the client looks at.
ClientReturnAtEOF(c) ==
  IF ~live[c] THEN "canceled" ELSE IF pc[c] \in {"ended", "failed", "died"} THEN "nil" ELSE "reading"

\* What the client's SubscribeQuest returns, "reading" while it reads: parseSSE meets an
\* "error" frame if the service's SubscribeQuest failed, a read error if the
\* connection was cut, and the end of the body otherwise.
ClientReturn(c) ==
  CASE ~live[c]                               -> "canceled"
    [] live[c] /\ pc[c] \in {"failed", "died"} -> "error"
    [] live[c] /\ pc[c] = "ended"             -> "nil"
    [] OTHER                                  -> "reading"

\* The client's context is cancelled: its read fails, and net/http cancels the
\* context of the handler.
Gone(c) ==
  /\ "gone" \in Faults
  /\ live[c] /\ pc[c] \notin {"idle", "ended", "failed", "died"}
  /\ live' = [live EXCEPT ![c] = FALSE]
  /\ told' = [told EXCEPT ![c] = {}] /\ flow' = [flow EXCEPT ![c] = <<>>]
  /\ UNCHANGED <<pc, terminal, history, service, rows, subs, engine, buf, since, dropped>>

\* The daemon stops: handlers and calls are cut and nothing is subscribed.  The
\* next daemon does not take the quest's snipe up again.
Stop ==
  /\ "stop" \in Faults /\ now < Len(script)
  /\ pc' = [c \in Conns |-> IF pc[c] \in {"idle", "ended", "failed"} THEN pc[c] ELSE "died"]
  /\ creator' = "done" /\ canceler' = IF canceler = "event" THEN "done" ELSE canceler
  /\ subs' = <<>> /\ snap' = <<>> /\ wrote' = FALSE
  /\ now' = Len(script)
  /\ UNCHANGED <<script, row, rows, live, terminal, history, told, flow, buf, since, dropped>>

Step(c) ==
  \/ Gate(c) \/ List(c) \/ Replay(c) \/ Subscribe(c) \/ Pump(c) \/ Unsubscribe(c)

EngineStep == Call \/ Send

Next ==
  \/ CreateRow \/ CreateEvent \/ CancelUpdate \/ CancelEvent
  \/ Emit \/ EngineStep
  \/ \E c \in Conns : Connect(c) \/ Step(c) \/ Gone(c)
  \/ Stop

\* Goroutines run on; only a client that stops reading holds its handler up.
Fairness ==
  /\ WF_vars(EngineStep)
  /\ \A c \in Conns \ Slow : WF_vars(Step(c))

Spec == Init /\ [][Next]_vars /\ Fairness

----------------------------------------------------------------------------
(* Properties *)

\* Replay and live never tell the same event: an emission whose row the history
\* held is over before the connection subscribes, whatever the other subscribers
\* persist meanwhile (standard_quest.go:601-683; "replay-then-live").
ReplayLiveDisjoint ==
  \A c \in Conns : told[c] \cap Range(flow[c]) = {}

\* What a connection is to have been sent: this quest's emissions since it subscribed,
\* but for the dropped ones and the one that is still on its way.
Due(c) ==
  {n \in (since[c] + 1)..now :
     Mine(n) /\ n \notin dropped[c] /\ ~(n = now /\ c \in Range(snap))}

Increasing(s) == \A i, j \in DOMAIN s : i < j => s[i] < s[j]

\* The live part has no gap but the events that found a full buffer: of this
\* quest's emissions begun after Subscribe, those not dropped and not still to
\* be delivered have reached the client or its channel, in order, and no other
\* quest's event has (subscribe.go:36-98, standard_quest.go:650-679).  An emission
\* that is over between the read of the history and Subscribe comes on neither way.
NoEventLost ==
  \A c \in Conns :
    pc[c] = "pump" /\ live[c] =>
      Range(flow[c] \o buf[c]) = Due(c) /\ Increasing(flow[c] \o buf[c])

\* The client's nil is the end of the quest: the last event of the live part was
\* terminal or the row was when the stream opened.  A stranger, a failed statement and a daemon that stops give an error
\* (client.go:347-460, sse.go:88-114).
NilMeansEnded ==
  \A c \in Conns : ClientReturn(c) = "nil" =>
    terminal[c] \/ (flow[c] # <<>> /\ IsTerminal(Type(Last(flow[c]))))

\* A stream that has a terminal event in its buffer, or was opened on a terminal row,
\* ends (one whose terminal event was dropped need not): the pump returns by itself (standard_quest.go:696-704), for every
\* outcome that a snipe can have (status.go:45-52).
StreamEnds ==
  \A c \in Conns \ Slow :
    (\/ pc[c] = "replay" /\ terminal[c]
     \/ pc[c] = "pump" /\ \E i \in DOMAIN buf[c] : IsTerminal(script[buf[c][i]].type))
    ~> pc[c] \in {"ended", "died"}
=============================================================================
