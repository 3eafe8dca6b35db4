-------------------------- MODULE ResyClientProofs --------------------------
(***************************************************************************)
(* Proofs about the Resy adapter for any number of concurrent calls, any   *)
(* requests, any refusals of the service and any faults.                   *)
(***************************************************************************)
EXTENDS ResyClient, TLAPS

Responses == Refusals \cup Accepted \cup {Broken, Silence}

Pcs == {"start", "sign", "mint", "keep", "send", "judge", "clear", "reset", "wait", "parse", "done"}

\* The types of what the calls share and of what each one has.
Types ==
  /\ scenario \in Scenarios /\ noop \in BOOLEAN
  /\ reset \in Nat /\ cached \in 0..reset
  /\ seen \subseteq {Call(p).key : p \in Calls} \ {NoKey} /\ now \in 0..MaxNow
  /\ pc \in [Calls -> Pcs] /\ leg \in [Calls -> {"get", "post"}] /\ try \in [Calls -> 0..2]
  /\ minted \in [Calls -> 0..reset] /\ due \in [Calls -> 0..(MaxNow + Floor)]
  /\ resp \in [Calls -> Responses]
  /\ live \in [Calls -> BOOLEAN] /\ result \in [Calls -> Results]

Challenged(p) == Classify(resp[p]) = "challenge" /\ ~noop

\* A call sends its request a second time only past a challenge and the floor.
CallInv ==
  \A p \in Calls :
    /\ pc[p] = "start" => try[p] = 0 /\ result[p] = "none"
    /\ pc[p] \notin {"start", "done"} =>
         /\ result[p] = "none" /\ Call(p).valid
         /\ leg[p] = "post" => Call(p).kind \in Posting
    /\ pc[p] \in {"sign", "mint", "keep", "send"} =>
         \/ try[p] = 0
         \/ try[p] = 1 /\ Challenged(p) /\ now >= due[p] /\ due[p] >= Floor
    /\ pc[p] \in {"clear", "reset", "wait"} => try[p] = 1 /\ Challenged(p)
    /\ pc[p] = "wait" => due[p] >= Floor

\* What a booking call returns.
Unsure == {"ok", "parse", "incomplete", "empty", "other", "transport"}

\* A booking is the last request that its call sent, and the call has an answer
\* that is no refusal.
BookInv ==
  \A b \in bookings :
    LET p == b.call IN
      /\ p \in Calls /\ b = [call |-> p, key |-> Call(p).key, try |-> try[p]]
      /\ Call(p).kind \in Posting /\ (Call(p).kind = "confirm" => Call(p).valid)
      /\ pc[p] \in {"judge", "parse", "done"} /\ leg[p] = "post"
      /\ pc[p] \in {"judge", "parse"} => resp[p] \in Accepted \cup {Broken}
      /\ pc[p] = "done" => result[p] \in Unsure

\* The calls that hold the key they present.
Holds(p) == pc[p] # "start" /\ result[p] # "duplicate" /\ Presents(Call(p))

\* A key that is held is remembered, and held by one call.
KeyInv ==
  /\ \A p \in Calls : Holds(p) => Call(p).key \in seen \cup {NoKey}
  /\ \A p, q \in Calls : Holds(p) /\ Holds(q) /\ Call(p).key = Call(q).key /\ Call(p).key # NoKey => p = q

\* The inductive invariant.
ClientInv == Types /\ CallInv /\ BookInv /\ KeyInv

----------------------------------------------------------------------------
\* What classify returns.
LEMMA ClassifyType == \A r : Classify(r) \in Results
  BY DEF Classify, Classify2xx, StatusSentinel, SpecificCode, Results

\* No answer to an accepted POST reads as a refusal or as a challenge.
LEMMA BookedAnswer ==
  ASSUME NEW r \in Accepted \cup {Broken}
  PROVE  /\ Classify(r) \in {"ok", "empty", "other"}
         /\ Classify(r) = "ok" => ParseBook(r.body) \in {"ok", "parse", "incomplete"}
  <1>1. CASE r = Broken
    BY <1>1 DEF Broken, Classify, Classify2xx, StatusSentinel, SpecificCode, ParseBook
  <1>2. CASE r \in Accepted
    BY <1>2 DEF Accepted, Classify, Classify2xx, StatusSentinel, SpecificCode, ParseBook
  <1>3. QED
    BY <1>1, <1>2

\* What a caller makes of a response.
Outcome(p) ==
  CASE Call(p).kind = "ping"    -> PingResult(resp[p].status)
    [] Classify(resp[p]) # "ok" -> Classify(resp[p])
    [] OTHER                    -> Parse(Call(p).kind, leg[p], resp[p].body)

\* A response gives one of the results that a caller can see.
LEMMA OutcomeType == \A p : Outcome(p) \in Results
  <1>1. ASSUME NEW k, NEW l, NEW b PROVE Parse(k, l, b) \in Results
    BY DEF Parse, ParseFind, ParseCalendar, ParseSearch, ParseVenue, ParseDetails, ParseBook, Results
  <1>2. \A s : PingResult(s) \in Results
    BY DEF PingResult, Results
  <1>3. QED
    BY <1>1, <1>2, ClassifyType DEF Outcome

\* The invariant holds before the first call.
LEMMA InitInv == Init => ClientInv
  <1>. SUFFICES ASSUME Init PROVE ClientInv
    OBVIOUS
  <1>1. Types
    BY TimeAssumption DEF Init, Types, Pcs, Responses, Results
  <1>2. CallInv /\ BookInv /\ KeyInv
    BY DEF Init, CallInv, BookInv, KeyInv, Holds
  <1>3. QED
    BY <1>1, <1>2 DEF ClientInv

\* Every step keeps the types.
LEMMA TypesStep == ASSUME ClientInv, [Next]_vars PROVE Types'
  <1>0. Types /\ CallInv
    BY DEF ClientInv
  <1>a. Pcs = {"start", "sign", "mint", "keep", "send", "judge", "clear", "reset", "wait", "parse", "done"}
    BY DEF Pcs
  <1>1. ASSUME NEW p \in Calls, Start(p) PROVE Types'
    <2>1. pc' \in [Calls -> Pcs] /\ result' \in [Calls -> Results]
      BY <1>0, <1>1, <1>a DEF Types, Start, Begin, Return, Goto, Results
    <2>2. leg' \in [Calls -> {"get", "post"}]
      BY <1>0, <1>1 DEF Types, Start
    <2>3. seen' \subseteq {Call(q).key : q \in Calls} \ {NoKey} /\ UNCHANGED scenario
      BY <1>0, <1>1 DEF Types, Start, Track
    <2>4. seen' \subseteq {Call(q)'.key : q \in Calls} \ {NoKey}
      BY <2>3 DEF Call
    <2>5. QED
      BY <1>0, <1>1, <2>1, <2>2, <2>4 DEF Types, Start
  <1>2. ASSUME NEW p \in Calls, Sign(p) \/ Judge(p) \/ WaitFloor(p) PROVE Types'
    <2>1. pc' \in [Calls -> Pcs]
      BY <1>0, <1>2, <1>a DEF Types, Sign, Judge, WaitFloor, Goto
    <2>2. QED
      BY <1>0, <1>2, <2>1 DEF Types, Call, Sign, Judge, WaitFloor
  <1>3. ASSUME NEW p \in Calls, Mint(p) PROVE Types'
    <2>1. pc' \in [Calls -> Pcs] /\ minted' \in [Calls -> 0..reset]
      BY <1>0, <1>3, <1>a DEF Types, Mint, Goto
    <2>2. QED
      BY <1>0, <1>3, <2>1 DEF Types, Call, Mint
  <1>4. ASSUME NEW p \in Calls, Keep(p) \/ Clear(p) PROVE Types'
    <2>1. pc' \in [Calls -> Pcs] /\ cached' \in 0..reset
      BY <1>0, <1>4, <1>a DEF Types, Keep, Clear, Goto
    <2>2. QED
      BY <1>0, <1>4, <2>1 DEF Types, Call, Keep, Clear
  <1>5. ASSUME NEW p \in Calls, RunReset(p) PROVE Types'
    <2>1. pc' \in [Calls -> Pcs]
      BY <1>0, <1>5, <1>a DEF Types, RunReset, Goto
    <2>2. due' \in [Calls -> 0..(MaxNow + Floor)]
      BY <1>0, <1>5, TimeAssumption DEF Types, RunReset
    <2>3. reset' \in Nat /\ cached \in 0..reset' /\ minted \in [Calls -> 0..reset']
      BY <1>0, <1>5 DEF Types, RunReset
    <2>4. QED
      BY <1>0, <1>5, <2>1, <2>2, <2>3 DEF Types, Call, RunReset
  <1>6. ASSUME NEW p \in Calls, Send(p) PROVE Types'
    <2>1. pc' \in [Calls -> Pcs] /\ result' \in [Calls -> Results]
      BY <1>0, <1>6, <1>a DEF Types, Send, Got, Return, Goto, Results
    <2>2. try' \in [Calls -> 0..2]
      BY <1>0, <1>6 DEF Types, CallInv, Send
    <2>3. resp' \in [Calls -> Responses]
      BY <1>0, <1>6 DEF Types, Send, Got, Responses
    <2>4. QED
      BY <1>0, <1>6, <2>1, <2>2, <2>3 DEF Types, Call, Send
  <1>7. ASSUME NEW p \in Calls, Finish(p) PROVE Types'
    <2>1. \/ /\ leg' = [leg EXCEPT ![p] = "post"] /\ try' = [try EXCEPT ![p] = 0]
             /\ resp' = [resp EXCEPT ![p] = Silence] /\ Goto(p, "sign") /\ UNCHANGED result
          \/ Return(p, Outcome(p)) /\ UNCHANGED <<leg, try, resp>>
      BY <1>7 DEF Finish, Outcome
    <2>2. pc' \in [Calls -> Pcs] /\ result' \in [Calls -> Results]
      BY <1>0, <1>a, <2>1, OutcomeType DEF Types, Return, Goto
    <2>3. leg' \in [Calls -> {"get", "post"}] /\ try' \in [Calls -> 0..2] /\ resp' \in [Calls -> Responses]
      BY <1>0, <2>1 DEF Types, Responses
    <2>4. QED
      BY <1>0, <1>7, <2>2, <2>3 DEF Types, Call, Finish
  <1>8. ASSUME NEW p \in Calls, Cancel(p) PROVE Types'
    <2>1. live' \in [Calls -> BOOLEAN]
      BY <1>0, <1>8 DEF Types, Cancel
    <2>2. QED
      BY <1>0, <1>8, <2>1 DEF Types, Call, Cancel
  <1>9. CASE Tick \/ UNCHANGED vars
    BY <1>0, <1>9, TimeAssumption DEF Types, Call, Tick, vars, call
  <1>10. QED
    BY <1>1, <1>2, <1>3, <1>4, <1>5, <1>6, <1>7, <1>8, <1>9 DEF Next, Step

\* A call that takes no step keeps what it has.
Same(q) ==
  /\ pc'[q] = pc[q] /\ leg'[q] = leg[q] /\ try'[q] = try[q] /\ resp'[q] = resp[q]
  /\ due'[q] = due[q] /\ result'[q] = result[q]

\* A call moves by its own code only, requests and signer stay, and time goes forward.
LEMMA Moved ==
  ASSUME ClientInv, [Next]_vars, NEW q \in Calls
  PROVE  /\ Same(q) \/ Step(q)
         /\ scenario' = scenario /\ noop' = noop /\ now' >= now
  <1>0. Types
    BY DEF ClientInv
  <1>1. ASSUME NEW p \in Calls, p # q, Start(p) \/ Sign(p) \/ Mint(p) \/ Keep(p) \/ Clear(p) PROVE Same(q)
    BY <1>0, <1>1 DEF Types, Same, Start, Sign, Mint, Keep, Clear, Begin, Return, Goto
  <1>2. ASSUME NEW p \in Calls, p # q, RunReset(p) \/ Send(p) \/ Judge(p) \/ WaitFloor(p) PROVE Same(q)
    BY <1>0, <1>2 DEF Types, Same, RunReset, Send, Judge, WaitFloor, Got, Return, Goto
  <1>3. ASSUME NEW p \in Calls, p # q, Finish(p) PROVE Same(q)
    BY <1>0, <1>3 DEF Types, Same, Finish, Return, Goto
  <1>4. ASSUME NEW p \in Calls, Cancel(p) PROVE Same(q)
    BY <1>4 DEF Same, Cancel
  <1>5. ASSUME Tick \/ UNCHANGED vars PROVE Same(q)
    BY <1>5 DEF Same, Tick, vars, call
  <1>6. scenario' = scenario /\ noop' = noop /\ (now' = now \/ now' = now + 1)
    BY DEF Next, Step, Start, Sign, Mint, Keep, Clear, RunReset, Send, Judge, WaitFloor, Finish, Cancel,
           Tick, vars
  <1>7. now' >= now
    BY <1>0, <1>6 DEF Types
  <1>8. Same(q) \/ Step(q)
    BY <1>1, <1>2, <1>3, <1>4, <1>5 DEF Next, Step
  <1>9. QED
    BY <1>6, <1>7, <1>8

\* Only an accepted POST books.
LEMMA Books ==
  ASSUME [Next]_vars, NEW b \in bookings'
  PROVE  \/ b \in bookings
         \/ \E p \in Calls :
              /\ Send(p) /\ live[p] /\ leg[p] = "post"
              /\ b = [call |-> p, key |-> Call(p).key, try |-> try[p] + 1]
              /\ \/ \E r \in Accepted \cup {Broken} : Got(p, r)
                 \/ Return(p, "transport")
  <1>1. CASE bookings' = bookings
    BY <1>1
  <1>2. ASSUME NEW p \in Calls, Send(p)
        PROVE  \/ b \in bookings
               \/ /\ live[p] /\ leg[p] = "post"
                  /\ b = [call |-> p, key |-> Call(p).key, try |-> try[p] + 1]
                  /\ \/ \E r \in Accepted \cup {Broken} : Got(p, r)
                     \/ Return(p, "transport")
    BY <1>2 DEF Send
  <1>3. CASE \A p \in Calls : ~Send(p)
    <2>1. bookings' = bookings
      BY <1>3 DEF Next, Step, Start, Sign, Mint, Keep, Clear, RunReset, Judge, WaitFloor, Finish, Cancel,
           Tick, vars
    <2>2. QED
      BY <1>1, <2>1
  <1>4. QED
    BY <1>2, <1>3

\* A second attempt stays behind the challenge and the floor.
LEMMA CallStep == ASSUME ClientInv, [Next]_vars PROVE CallInv'
  <1>. DEFINE I(p) ==
    /\ pc[p] = "start" => try[p] = 0 /\ result[p] = "none"
    /\ pc[p] \notin {"start", "done"} =>
         /\ result[p] = "none" /\ Call(p).valid
         /\ leg[p] = "post" => Call(p).kind \in Posting
    /\ pc[p] \in {"sign", "mint", "keep", "send"} =>
         \/ try[p] = 0
         \/ try[p] = 1 /\ Challenged(p) /\ now >= due[p] /\ due[p] >= Floor
    /\ pc[p] \in {"clear", "reset", "wait"} => try[p] = 1 /\ Challenged(p)
    /\ pc[p] = "wait" => due[p] >= Floor
  <1>. SUFFICES ASSUME NEW p \in Calls PROVE I(p)'
    BY DEF CallInv
  <1>0. /\ Types /\ I(p) /\ scenario' = scenario /\ noop' = noop /\ now' >= now
        /\ Same(p) \/ Step(p)
        /\ now \in Nat /\ now' \in Nat /\ due[p] \in Nat /\ Floor \in Nat /\ try[p] \in 0..2
    BY Moved, TypesStep, TimeAssumption DEF ClientInv, CallInv, Types
  <1>a. Call(p)' = Call(p) /\ (resp'[p] = resp[p] => (Challenged(p)' <=> Challenged(p)))
    BY <1>0 DEF Call, Challenged
  <1>1. CASE Same(p)
    BY <1>0, <1>1, <1>a DEF Same
  <1>2. CASE Start(p)
    BY <1>0, <1>2, <1>a DEF Types, Start, Begin, Return, Goto, Posting
  <1>3. CASE Sign(p) \/ Mint(p) \/ Keep(p)
    BY <1>0, <1>3, <1>a DEF Types, Sign, Mint, Keep, Goto
  <1>4. CASE Clear(p) \/ RunReset(p)
    BY <1>0, <1>4, <1>a, TimeAssumption DEF Types, Clear, RunReset, Goto
  <1>5. CASE Send(p)
    BY <1>0, <1>5, <1>a DEF Types, Send, Got, Return, Goto
  <1>6. CASE Judge(p)
    BY <1>0, <1>6, <1>a DEF Types, Judge, Goto, Challenged
  <1>7. CASE WaitFloor(p)
    BY <1>0, <1>7, <1>a DEF Types, WaitFloor, Goto
  <1>8. CASE Finish(p)
    BY <1>0, <1>8, <1>a DEF Types, Finish, Return, Goto
  <1>9. QED
    BY <1>0, <1>1, <1>2, <1>3, <1>4, <1>5, <1>6, <1>7, <1>8 DEF Step

\* A booking stays the last word of its call.
LEMMA BookStep == ASSUME ClientInv, [Next]_vars PROVE BookInv'
  <1>0. Types /\ CallInv /\ BookInv
    BY DEF ClientInv
  <1>. SUFFICES ASSUME NEW b \in bookings'
                PROVE  LET p == b.call IN
                         /\ p \in Calls /\ b = [call |-> p, key |-> Call(p)'.key, try |-> try'[p]]
                         /\ Call(p)'.kind \in Posting /\ (Call(p)'.kind = "confirm" => Call(p)'.valid)
                         /\ pc'[p] \in {"judge", "parse", "done"} /\ leg'[p] = "post"
                         /\ pc'[p] \in {"judge", "parse"} => resp'[p] \in Accepted \cup {Broken}
                         /\ pc'[p] = "done" => result'[p] \in Unsure
    BY DEF BookInv
  <1>1. CASE b \in bookings
    <2>. DEFINE p == b.call
    <2>1. /\ p \in Calls /\ b = [call |-> p, key |-> Call(p).key, try |-> try[p]]
          /\ Call(p).kind \in Posting /\ (Call(p).kind = "confirm" => Call(p).valid)
          /\ pc[p] \in {"judge", "parse", "done"} /\ leg[p] = "post"
          /\ pc[p] \in {"judge", "parse"} => resp[p] \in Accepted \cup {Broken}
          /\ pc[p] = "done" => result[p] \in Unsure
      BY <1>0, <1>1 DEF BookInv
    <2>. HIDE DEF p
    <2>2. (Same(p) \/ Step(p)) /\ scenario' = scenario
      BY <2>1, Moved
    <2>3. Call(p)' = Call(p)
      BY <2>2 DEF Call
    <2>4. CASE Same(p)
      BY <2>1, <2>3, <2>4 DEF p, Same
    <2>5. CASE Judge(p)
      <3>1. pc'[p] = "parse" /\ UNCHANGED <<leg, try, resp, result>>
        BY <1>0, <2>1, <2>5, BookedAnswer DEF Types, Judge, Goto
      <3>2. QED
        BY <2>1, <2>3, <2>5, <3>1 DEF p, Judge
    <2>6. CASE Finish(p)
      <3>1. pc'[p] = "done" /\ result'[p] = Outcome(p) /\ UNCHANGED <<leg, try>>
        BY <1>0, <2>1, <2>6 DEF Types, Finish, Outcome, Return, Goto
      <3>2. pc[p] = "parse"
        BY <2>6 DEF Finish
      <3>3. Outcome(p) \in Unsure
        BY <2>1, <3>2, BookedAnswer DEF Outcome, Unsure, Parse, Posting
      <3>4. QED
        BY <2>1, <2>3, <3>1, <3>3 DEF p
    <2>7. QED
      BY <2>1, <2>2, <2>4, <2>5, <2>6 DEF Step, Start, Sign, Mint, Keep, Clear, RunReset, Send, WaitFloor
  <1>2. ASSUME NEW p \in Calls, Send(p), live[p], leg[p] = "post",
               b = [call |-> p, key |-> Call(p).key, try |-> try[p] + 1],
               \/ \E r \in Accepted \cup {Broken} : Got(p, r)
               \/ Return(p, "transport")
        PROVE  /\ b.call = p /\ b = [call |-> p, key |-> Call(p)'.key, try |-> try'[p]]
               /\ Call(p)'.kind \in Posting /\ (Call(p)'.kind = "confirm" => Call(p)'.valid)
               /\ pc'[p] \in {"judge", "parse", "done"} /\ leg'[p] = "post"
               /\ pc'[p] \in {"judge", "parse"} => resp'[p] \in Accepted \cup {Broken}
               /\ pc'[p] = "done" => result'[p] \in Unsure
    <2>1. Call(p)' = Call(p) /\ pc[p] = "send" /\ Call(p).valid /\ Call(p).kind \in Posting
      BY <1>0, <1>2 DEF Send, Call, CallInv
    <2>2. try'[p] = try[p] + 1 /\ leg'[p] = "post"
      BY <1>0, <1>2 DEF Types, Send
    <2>3. \/ pc'[p] = "judge" /\ resp'[p] \in Accepted \cup {Broken}
          \/ pc'[p] = "done" /\ result'[p] = "transport"
      BY <1>0, <1>2 DEF Types, Got, Return, Goto
    <2>4. QED
      BY <1>2, <2>1, <2>2, <2>3 DEF Unsure
  <1>3. QED
    BY <1>1, <1>2, Books

\* A key is held by the call that presented it first.
LEMMA KeyStep == ASSUME ClientInv, [Next]_vars PROVE KeyInv'
  <1>0. Types /\ CallInv /\ KeyInv /\ scenario' = scenario /\ seen \subseteq seen'
    <2>1. scenario' = scenario /\ seen \subseteq seen'
      BY DEF Next, Step, Start, Track, Sign, Mint, Keep, Clear, RunReset, Send, Judge, WaitFloor, Finish,
             Cancel, Tick, vars
    <2>2. QED
      BY <2>1 DEF ClientInv
  <1>1. ASSUME NEW p \in Calls, Holds(p)', ~Holds(p)
        PROVE  /\ Start(p) /\ Check(Call(p).key)
               /\ Call(p).key # NoKey => Call(p).key \in seen'
               /\ \A q \in Calls : q # p => pc'[q] = pc[q]
    <2>1. Same(p) \/ Step(p)
      BY Moved
    <2>2. Presents(Call(p)) /\ result'[p] # "duplicate" /\ pc'[p] # "start"
      BY <1>0, <1>1 DEF Holds, Call
    <2>3. ~Same(p)
      BY <1>1, <2>2 DEF Holds, Same
    <2>4. pc[p] = "start" \/ pc[p] = "done"
      BY <1>0, <1>1, <2>2 DEF Holds, CallInv
    <2>5. Start(p)
      BY <2>1, <2>3, <2>4 DEF Step, Sign, Mint, Keep, Clear, RunReset, Send, Judge, WaitFloor, Finish
    <2>6. Check(Call(p).key)
      BY <1>0, <2>2, <2>5 DEF Types, Start, Return, Goto
    <2>7. Call(p).key # NoKey => Call(p).key \in seen'
      BY <2>2, <2>5, <2>6 DEF Start, Track
    <2>8. \A q \in Calls : q # p => pc'[q] = pc[q]
      BY <1>0, <2>5 DEF Types, Start, Begin, Return, Goto
    <2>9. QED
      BY <2>5, <2>6, <2>7, <2>8
  <1>2. ASSUME NEW p \in Calls, Holds(p)' PROVE Call(p)'.key \in seen' \cup {NoKey}
    BY <1>0, <1>1, <1>2 DEF KeyInv, Call
  <1>3. ASSUME NEW p \in Calls, NEW q \in Calls, Holds(p)', ~Holds(p), Holds(q)',
               Call(p).key = Call(q).key, Call(p).key # NoKey
        PROVE  p = q
    <2>1. CASE Holds(q)
      BY <1>0, <1>1, <1>3, <2>1 DEF KeyInv, Check
    <2>2. CASE ~Holds(q) /\ p # q
      <3>1. pc[q] = "start" /\ pc'[q] = pc[q]
        BY <1>1, <1>3, <2>2 DEF Start
      <3>2. QED
        BY <1>3, <3>1 DEF Holds
    <2>3. QED
      BY <2>1, <2>2
  <1>4. ASSUME NEW p \in Calls, NEW q \in Calls, Holds(p)', Holds(q)',
               Call(p)'.key = Call(q)'.key, Call(p)'.key # NoKey
        PROVE  p = q
    <2>1. Call(p)' = Call(p) /\ Call(q)' = Call(q)
      BY <1>0 DEF Call
    <2>2. QED
      BY <1>0, <1>3, <1>4, <2>1 DEF KeyInv
  <1>5. QED
    BY <1>2, <1>4 DEF KeyInv

\* The invariant is inductive.
LEMMA StepInv == ClientInv /\ [Next]_vars => ClientInv'
  BY TypesStep, CallStep, BookStep, KeyStep DEF ClientInv

\* Every reachable state satisfies it.
LEMMA Invariant == Spec => []ClientInv
  BY InitInv, StepInv, PTL DEF Spec

\* Every variable of the adapter keeps its type.
THEOREM TypeCorrect == Spec => []TypeOK
  <1>1. ClientInv => TypeOK
    BY DEF ClientInv, Types, BookInv, TypeOK, Pcs, Responses
  <1>2. QED
    BY <1>1, Invariant, PTL

\* A key books at most once, whichever calls share it (book.go:20-50).
THEOREM KeyBooksOnce == Spec => []OneBookingPerKey
  <1>1. ASSUME ClientInv PROVE OneBookingPerKey
    <2>. SUFFICES ASSUME NEW b \in bookings, NEW c \in bookings, b.key = c.key, b.key # NoKey
                  PROVE  b = c
      BY DEF OneBookingPerKey
    <2>1. /\ b.call \in Calls /\ c.call \in Calls /\ Call(b.call).key = b.key /\ Call(c.call).key = c.key
          /\ b = [call |-> b.call, key |-> Call(b.call).key, try |-> try[b.call]]
          /\ c = [call |-> c.call, key |-> Call(c.call).key, try |-> try[c.call]]
      BY <1>1 DEF ClientInv, BookInv
    <2>2. ASSUME NEW a \in bookings, a.key # NoKey PROVE Holds(a.call)
      <3>. DEFINE p == a.call
      <3>1. /\ p \in Calls /\ Call(p).key # NoKey
            /\ (Call(p).kind = "confirm" => Call(p).valid)
            /\ pc[p] \in {"judge", "parse", "done"} /\ (pc[p] = "done" => result[p] \in Unsure)
        BY <1>1, <2>2 DEF ClientInv, BookInv
      <3>2. Call(p).kind \in {"confirm", "bookkey"}
        BY <1>1, <3>1, ScenariosAssumption DEF ClientInv, Types, Call
      <3>3. result[p] # "duplicate"
        BY <1>1, <3>1 DEF ClientInv, CallInv, Unsure
      <3>4. QED
        BY <3>1, <3>2, <3>3 DEF Holds, Presents
    <2>3. b.call = c.call
      BY <1>1, <2>1, <2>2 DEF ClientInv, KeyInv
    <2>4. QED
      BY <2>1, <2>3
  <1>2. QED
    BY <1>1, Invariant, PTL

\* A booking call that returns a refusal booked nothing (race.go takes it for such).
THEOREM RefusalsBookNothing == Spec => []RefusalMeansNotBooked
  <1>1. ASSUME ClientInv PROVE RefusalMeansNotBooked
    BY <1>1 DEF ClientInv, CallInv, BookInv, RefusalMeansNotBooked, Unsure
  <1>2. QED
    BY <1>1, Invariant, PTL

\* A request is sent again once at most, after a challenge and the floor
\* (sign_retry.go:26-36).
THEOREM RetryWaits == Spec => RetryAfterFloor
  <1>1. ASSUME ClientInv, [Next]_vars, NEW p \in Calls, try[p] > 0, try'[p] > try[p]
        PROVE  /\ try[p] = 1 /\ Classify(resp[p]) = "challenge" /\ ~noop
               /\ now >= due[p] /\ due[p] >= Floor
    <2>0. try[p] \in 0..2 /\ try'[p] \in 0..2
      BY <1>1, TypesStep DEF ClientInv, Types
    <2>1. Types /\ CallInv /\ (Same(p) \/ Step(p)) /\ try[p] = 1
      BY <1>1, <2>0, Moved DEF ClientInv
    <2>2. Send(p)
      BY <1>1, <2>0, <2>1 DEF Types, Same, Step, Start, Sign, Mint, Keep, Clear, RunReset, Judge, WaitFloor, Finish
    <2>3. QED
      BY <1>1, <2>1, <2>2 DEF CallInv, Challenged, Send
  <1>2. ClientInv /\ [Next]_vars =>
          [\A p \in Calls : try[p] > 0 /\ try'[p] > try[p] =>
             /\ try[p] = 1 /\ Classify(resp[p]) = "challenge" /\ ~noop
             /\ now >= due[p] /\ due[p] >= Floor]_vars
    BY <1>1
  <1>3. QED
    BY <1>2, Invariant, PTL DEF Spec, RetryAfterFloor
=============================================================================
