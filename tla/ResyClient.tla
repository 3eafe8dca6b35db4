----------------------------- MODULE ResyClient ----------------------------
(***************************************************************************)
(* The Resy adapter: one client shared by concurrent calls, its signer's   *)
(* cached headers, the idempotency keys it has sent, and the path of a     *)
(* request: sign, send, classify the answer, and once more after an        *)
(* anti-bot challenge.  The service behind it answers, refuses, books and  *)
(* loses answers as it likes, and does not look at idempotency keys.       *)
(*                                                                         *)
(* A response is [status, body]; of a body only what the adapter looks for *)
(* is kept: "good", "short" (a field is missing), "garbled" (not JSON),    *)
(* "null" (that, or empty), "mfa", "noVenues", "marker" (an anti-bot       *)
(* word), "expired", "taken", "auth" and "limited" (a specific_code).      *)
(***************************************************************************)
EXTENDS Naturals, FiniteSets

CONSTANTS
  Calls,      \* calls of the adapter, by number
  Scenarios,  \* what they are: functions from Calls to [kind, valid, key]
  Refusals,   \* how the service refuses
  Floor,      \* signRetryFloor
  MaxNow,     \* bound on the clock
  Faults      \* "lost": no answer arrives, "cancel": a caller's context ends,
              \* "signer": the signer's program fails

NoKey == 0

Posting  == {"confirm", "book", "bookkey"}
Details  == {"prepare", "book", "bookkey"}
Signed   == {"find", "calendar"} \cup Details \cup Posting
Kinds    == Signed \cup {"resolve", "search", "ping"}

ASSUME CallsAssumption == Calls \subseteq Nat \ {0}
\* Only ConfirmSlot and BookWithIdempotency take a key.
ASSUME ScenariosAssumption ==
  \A s \in Scenarios :
    /\ DOMAIN s = Calls
    /\ \A p \in Calls : /\ s[p].kind \in Kinds /\ s[p].valid \in BOOLEAN
                        /\ s[p].key # NoKey => s[p].kind \in {"confirm", "bookkey"}
ASSUME TimeAssumption == Floor \in Nat /\ MaxNow \in Nat
ASSUME RefusalsAssumption == \A r \in Refusals : r.status >= 300
ASSUME FaultsAssumption == Faults \subseteq {"lost", "cancel", "signer"}

VARIABLES
  scenario,  \* what each call is
  noop,      \* the signer is sign.Noop
  cached,    \* Subprocess.cached: generation of the headers, 0 for nil
  reset,     \* generation the signer's program would mint now
  seen,      \* idempotencyTracker.seen
  now,       \* the clock
  pc,        \* of each call
  leg,       \* "get" (/4/find, /3/details, ...) or "post" (/3/book)
  try,       \* attempts sent of this leg
  minted,    \* headers the call's runSign returned
  resp,      \* last response of this leg
  due,       \* when its wait ends
  live,      \* its context is not cancelled
  result,    \* what it returned
  bookings   \* external: what Resy booked, [call, key, try]

call == <<pc, leg, try, minted, resp, due, live, result>>
vars == <<scenario, noop, cached, reset, seen, now, call, bookings>>

Call(p)  == scenario[p]
Silence  == [status |-> 0, body |-> "none"]

\* What Resy answers to a request it accepts, and when it fails after accepting one.
Accepted == {[status |-> 200, body |-> b] : b \in {"good", "short", "garbled", "noVenues", "null"}}
Broken   == [status |-> 500, body |-> "garbled"]

Results == {"none", "ok", "transport", "invalid", "duplicate", "auth", "limited", "token_expired",
            "venue_not_found", "taken", "challenge", "mfa", "empty", "parse", "incomplete", "other"}

Goto(p, l)   == pc' = [pc EXCEPT ![p] = l]
Return(p, r) == Goto(p, "done") /\ result' = [result EXCEPT ![p] = r]

TypeOK ==
  /\ scenario \in Scenarios /\ noop \in BOOLEAN
  /\ reset \in Nat /\ cached \in 0..reset
  /\ seen \subseteq {Call(p).key : p \in Calls} \ {NoKey} /\ now \in 0..MaxNow
  /\ pc \in [Calls -> {"start", "sign", "mint", "keep", "send", "judge", "clear", "reset",
                       "wait", "parse", "done"}]
  /\ leg \in [Calls -> {"get", "post"}] /\ try \in [Calls -> 0..2]
  /\ minted \in [Calls -> 0..reset] /\ due \in [Calls -> 0..(MaxNow + Floor)]
  /\ resp \in [Calls -> Refusals \cup Accepted \cup {Broken, Silence}]
  /\ live \in [Calls -> BOOLEAN] /\ result \in [Calls -> Results]
  /\ \A b \in bookings : b.call \in Calls /\ Call(b.call).kind \in Posting

Init ==
  /\ scenario \in Scenarios /\ noop \in BOOLEAN
  /\ cached = 0 /\ reset = 1 /\ seen = {} /\ now = 0 /\ bookings = {}
  /\ pc = [p \in Calls |-> "start"] /\ leg = [p \in Calls |-> "get"]
  /\ try = [p \in Calls |-> 0] /\ minted = [p \in Calls |-> 0]
  /\ resp = [p \in Calls |-> Silence] /\ due = [p \in Calls |-> 0]
  /\ live = [p \in Calls |-> TRUE] /\ result = [p \in Calls |-> "none"]
---------------------------------------------------------------------------
(* errors.go *)

\* The sentinel of specific_code, "none" for none.
SpecificCode(body) ==
  CASE body = "expired" -> "token_expired" [] body = "taken" -> "taken"
    [] body = "auth" -> "auth" [] body = "limited" -> "limited" [] OTHER -> "none"

\* classify2xx
Classify2xx(body) == IF body = "mfa" THEN "mfa" ELSE IF body = "noVenues" THEN "empty" ELSE "ok"

\* The statuses that decide by themselves.
StatusSentinel ==
  [s \in {401, 404, 409, 410, 429} |->
     CASE s = 401 -> "auth" [] s = 404 -> "venue_not_found" [] s = 409 -> "taken"
       [] s = 410 -> "token_expired" [] OTHER -> "limited"]

\* classify: the first rule that applies.
Classify(r) ==
  CASE r.status \in {200, 201}              -> Classify2xx(r.body)
    [] r.status \in DOMAIN StatusSentinel   -> StatusSentinel[r.status]
    [] r.status = 403                       -> IF r.body = "marker" THEN "challenge" ELSE "auth"
    [] OTHER -> IF SpecificCode(r.body) # "none" THEN SpecificCode(r.body) ELSE "other"
---------------------------------------------------------------------------
(* The entries: Find, Calendar, PrepareSlot, ConfirmSlot, Book,            *)
(* BookWithIdempotency, ResolveVenue, SearchVenuesByName and Ping          *)

\* idempotencyTracker.check
Check(key) == key = NoKey \/ key \notin seen
Track(key) == seen' = seen \cup ({key} \ {NoKey})

Begin(p) == Goto(p, IF Call(p).kind \in Signed THEN "sign" ELSE "send") /\ UNCHANGED result

\* Mutant: the key is not remembered.
StartForgetful(p) ==
  /\ pc[p] = "start"
  /\ leg' = [leg EXCEPT ![p] = IF Call(p).kind = "confirm" THEN "post" ELSE "get"]
  /\ IF Call(p).valid /\ Check(Call(p).key) THEN Begin(p) ELSE Return(p, "invalid")
  /\ UNCHANGED <<scenario, noop, cached, reset, seen, now, try, minted, resp, due, live, bookings>>

\* ConfirmSlot looks at its arguments first, BookWithIdempotency at the key:
\* there the key is spent even when the arguments are refused.
Presents(c) == IF c.kind = "confirm" THEN c.valid ELSE c.kind = "bookkey"

\* Ping does not send a session that has expired.
Start(p) ==
  LET c == Call(p) IN
     /\ pc[p] = "start"
     /\ leg' = [leg EXCEPT ![p] = IF c.kind = "confirm" THEN "post" ELSE "get"]
     /\ IF Presents(c) /\ Check(c.key) THEN Track(c.key) ELSE UNCHANGED seen
     /\ CASE Presents(c) /\ ~Check(c.key) -> Return(p, "duplicate")
          [] ~c.valid /\ (Presents(c) => Check(c.key)) -> Return(p, IF c.kind = "ping" THEN "auth" ELSE "invalid")
          [] OTHER -> Begin(p)
     /\ UNCHANGED <<scenario, noop, cached, reset, now, try, minted, resp, due, live, bookings>>
---------------------------------------------------------------------------
(* sign.Subprocess *)

\* Sign: the cached headers, or else the program has to run.
Sign(p) ==
  /\ pc[p] = "sign"
  /\ Goto(p, IF noop \/ cached # 0 THEN "send" ELSE "mint")
  /\ UNCHANGED <<scenario, noop, cached, reset, seen, now, leg, try, minted, resp, due, live,
                 result, bookings>>

\* Mutant: the program is not started under the caller's context.
MintDeaf(p) ==
  /\ pc[p] = "mint" /\ live[p] /\ minted' = [minted EXCEPT ![p] = reset] /\ Goto(p, "keep")
  /\ UNCHANGED <<scenario, noop, cached, reset, seen, now, leg, try, resp, due, live, result,
                 bookings>>

\* runSign, outside the mutex: an error is logged and the request goes unsigned.
Mint(p) ==
  /\ pc[p] = "mint"
  /\ \/ live[p] /\ minted' = [minted EXCEPT ![p] = reset] /\ Goto(p, "keep")
     \/ (~live[p] \/ "signer" \in Faults) /\ Goto(p, "send") /\ UNCHANGED minted
  /\ UNCHANGED <<scenario, noop, cached, reset, seen, now, leg, try, resp, due, live, result,
                 bookings>>

\* The headers are cached, also when a Reset came in between.
Keep(p) ==
  /\ pc[p] = "keep" /\ cached' = minted[p] /\ Goto(p, "send")
  /\ UNCHANGED <<scenario, noop, reset, seen, now, leg, try, minted, resp, due, live, result,
                 bookings>>

\* Reset: the cache under the mutex, then the program; a failure is logged.
Clear(p) ==
  /\ pc[p] = "clear" /\ cached' = 0 /\ Goto(p, "reset")
  /\ UNCHANGED <<scenario, noop, reset, seen, now, leg, try, minted, resp, due, live, result,
                 bookings>>

RunReset(p) ==
  /\ pc[p] = "reset"
  /\ \/ live[p] /\ reset' = reset + 1
     \/ (~live[p] \/ "signer" \in Faults) /\ UNCHANGED reset
  /\ due' = [due EXCEPT ![p] = now + Floor] /\ Goto(p, "wait")
  /\ UNCHANGED <<scenario, noop, cached, seen, now, leg, try, minted, resp, live, result, bookings>>
---------------------------------------------------------------------------
(* doWithExtraHeaders and doSignedAndRetry *)

Got(p, r) == resp' = [resp EXCEPT ![p] = r] /\ Goto(p, "judge") /\ UNCHANGED result

\* A fresh request of the body.  Resy books at a POST it accepts; the answer may
\* be lost (the 30 s timeout), be a 500, or be read by nobody.  A request that
\* never arrives ends like a lost answer, and a cancelled context sends nothing.
Send(p) ==
  /\ pc[p] = "send"
  /\ try' = [try EXCEPT ![p] = IF live[p] THEN @ + 1 ELSE @]
  /\ \/ live[p] /\ (\E r \in Refusals : Got(p, r)) /\ UNCHANGED bookings
     \/ /\ live[p]
        /\ IF leg[p] = "post"
             THEN bookings' = bookings \cup {[call |-> p, key |-> Call(p).key, try |-> try[p] + 1]}
             ELSE UNCHANGED bookings
        /\ \/ \E r \in Accepted : (r.body = "null" => Call(p).kind = "resolve") /\ Got(p, r)
           \/ leg[p] = "post" /\ Got(p, Broken)
           \/ "lost" \in Faults /\ Return(p, "transport") /\ UNCHANGED resp
     \/ (~live[p] \/ "lost" \in Faults) /\ Return(p, "transport") /\ UNCHANGED <<resp, bookings>>
  /\ UNCHANGED <<scenario, noop, cached, reset, seen, now, leg, minted, due, live>>

\* Mutant: a 500 is retried as well.
JudgeServerErrors(p) ==
  /\ pc[p] = "judge"
  /\ IF Call(p).kind \in Signed /\ try[p] = 1 /\ ~noop
        /\ (Classify(resp[p]) = "challenge" \/ resp[p].status = 500)
       THEN Goto(p, "clear") ELSE Goto(p, "parse")
  /\ UNCHANGED <<scenario, noop, cached, reset, seen, now, leg, try, minted, resp, due, live,
                 result, bookings>>

\* Only a challenge, only once, only with a real signer.
Judge(p) ==
  /\ pc[p] = "judge"
  /\ IF Call(p).kind \in Signed /\ try[p] = 1 /\ Classify(resp[p]) = "challenge" /\ ~noop
       THEN Goto(p, "clear") ELSE Goto(p, "parse")
  /\ UNCHANGED <<scenario, noop, cached, reset, seen, now, leg, try, minted, resp, due, live,
                 result, bookings>>

\* Mutant: a cancelled wait goes on to the retry, a floor too early.
WaitFloorRetries(p) ==
  /\ pc[p] = "wait" /\ Goto(p, "sign")
  /\ UNCHANGED <<scenario, noop, cached, reset, seen, now, leg, try, minted, resp, due, live,
                 result, bookings>>

\* waitFloor: cancelled, the first response is the answer.
WaitFloor(p) ==
  /\ pc[p] = "wait"
  /\ \/ now >= due[p] /\ Goto(p, "sign")
     \/ ~live[p] /\ Goto(p, "parse")
  /\ UNCHANGED <<scenario, noop, cached, reset, seen, now, leg, try, minted, resp, due, live,
                 result, bookings>>

(* What each endpoint makes of a body that classify accepts. *)

\* Find: no slot in it is ErrInventoryEmpty.
ParseFind(body) == CASE body = "good" -> "ok" [] body = "garbled" -> "parse" [] OTHER -> "empty"

\* Calendar: no day in it is an empty calendar.
ParseCalendar(body) == IF body = "garbled" THEN "parse" ELSE "ok"

\* SearchVenuesByName: a hit without an id or a slug is skipped.
ParseSearch(body) == IF body = "garbled" THEN "parse" ELSE "ok"

\* ResolveVenue: an empty body and null are ErrVenueNotFound; no id or time zone is
\* ErrParseFailure too.
ParseVenue(body) ==
  CASE body = "good" -> "ok" [] body = "null" -> "venue_not_found" [] OTHER -> "parse"

\* PrepareSlot, and Book before its POST: a book token and a payment method.
ParseDetails(body) == CASE body = "good" -> "ok" [] body = "garbled" -> "parse" [] OTHER -> "incomplete"

\* postBookWithIdempotency: a resy_token.
ParseBook(body) == CASE body = "good" -> "ok" [] body = "garbled" -> "parse" [] OTHER -> "incomplete"

\* Ping looks at the status alone.
PingResult(status) ==
  CASE status \in {200, 201} -> "ok" [] status = 401 -> "auth" [] OTHER -> "other"

Parse(kind, l, body) ==
  CASE kind = "find"     -> ParseFind(body)
    [] kind = "calendar" -> ParseCalendar(body)
    [] kind = "search"   -> ParseSearch(body)
    [] kind = "resolve"  -> ParseVenue(body)
    [] l = "get"         -> ParseDetails(body)
    [] OTHER             -> ParseBook(body)

\* The caller classifies the response it was left with.  Book and
\* BookWithIdempotency go on from /3/details to /3/book.
Finish(p) ==
  LET kind    == Call(p).kind
      cls     == Classify(resp[p])
      outcome == CASE kind = "ping" -> PingResult(resp[p].status)
                   [] cls # "ok"    -> cls
                   [] OTHER         -> Parse(kind, leg[p], resp[p].body)
  IN /\ pc[p] = "parse"
     /\ IF leg[p] = "get" /\ kind \in Posting /\ outcome = "ok"
          THEN /\ leg' = [leg EXCEPT ![p] = "post"] /\ try' = [try EXCEPT ![p] = 0]
               /\ resp' = [resp EXCEPT ![p] = Silence] /\ Goto(p, "sign") /\ UNCHANGED result
          ELSE Return(p, outcome) /\ UNCHANGED <<leg, try, resp>>
     /\ UNCHANGED <<scenario, noop, cached, reset, seen, now, minted, due, live, bookings>>
---------------------------------------------------------------------------
Cancel(p) ==
  /\ "cancel" \in Faults /\ live[p] /\ pc[p] # "done" /\ live' = [live EXCEPT ![p] = FALSE]
  /\ UNCHANGED <<scenario, noop, cached, reset, seen, now, pc, leg, try, minted, resp, due,
                 result, bookings>>

\* Time passes as far as somebody waits for it.
Tick ==
  /\ now < MaxNow /\ \E p \in Calls : pc[p] = "wait" /\ due[p] > now
  /\ now' = now + 1 /\ UNCHANGED <<scenario, noop, cached, reset, seen, call, bookings>>

Step(p) ==
  \/ Start(p) \/ Sign(p) \/ Mint(p) \/ Keep(p) \/ Clear(p) \/ RunReset(p)
  \/ Send(p) \/ Judge(p) \/ WaitFloor(p) \/ Finish(p)

Next == (\E p \in Calls : Step(p) \/ Cancel(p)) \/ Tick

(* Every step of a call is bounded by the code (mutex sections, the 10 s   *)
(* limit of the signer's program, the 30 s timeout of a request) and time  *)
(* passes.                                                                 *)
Spec == Init /\ [][Next]_vars /\ WF_vars(Tick) /\ \A p \in Calls : WF_vars(Step(p))
---------------------------------------------------------------------------
(* book.go:20-50: a key books at most once, whichever calls share it, even *)
(* though a challenged POST is sent again with the same key.               *)
OneBookingPerKey ==
  \A b, c \in bookings : b.key = c.key /\ b.key # NoKey => b = c

(* What the engine takes for "not booked, go on" (race.go) is true: a      *)
(* booking call that ends in a sentinel of the taxonomy, or in a refusal   *)
(* of its own, booked nothing in any of its attempts.                      *)
RefusalMeansNotBooked ==
  \A p \in Calls :
    result[p] \in {"auth", "limited", "token_expired", "taken", "challenge", "venue_not_found",
                   "duplicate", "invalid"} =>
      \A b \in bookings : b.call # p

(* sign_retry.go:26-36: a request is sent again at most once, only after a *)
(* challenge, and not before the floor has passed since the answer.        *)
RetryAfterFloor ==
  [][\A p \in Calls : try[p] > 0 /\ try'[p] > try[p] =>
       /\ try[p] = 1 /\ Classify(resp[p]) = "challenge" /\ ~noop
       /\ now >= due[p] /\ due[p] >= Floor]_vars

(* Every call of the adapter returns, also when contexts end and answers   *)
(* are lost, given that the signer's program ends when its 10 s are over:  *)
(* a grandchild that keeps its pipe open would hold Run up still           *)
(* (printing_press.go:155-184 sets no WaitDelay).                          *)
CallReturns == \A p \in Calls : <>(pc[p] = "done")
=============================================================================
