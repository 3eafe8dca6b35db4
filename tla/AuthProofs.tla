----------------------------- MODULE AuthProofs -----------------------------
(***************************************************************************)
(* Proofs about tokens, accounts and the audit log for any number of       *)
(* requests, users and tokens, any emails and any faults.                  *)
(***************************************************************************)
EXTENDS Auth, FiniteSetTheorems, TLAPS

TokenRows == [user : Users \cup {Absent}, scope : {"user", "operator"}, revoked : BOOLEAN,
              seen : {Absent} \cup 0..MaxNow]

Pcs == {"start", "stamp", "touch", "verb", "resy", "upsert", "bind", "seed", "lookup", "backfill",
        "audit", "done", "lost"}

\* The types of the rows and of the calls.
Types ==
  /\ scenario \in Scenarios /\ now \in 0..MaxNow
  /\ accounts \in [AccountIds -> Users \cup {NULL, Absent}]
  /\ tokens \in [Tokens -> TokenRows]
  /\ pc \in [Calls -> Pcs] /\ caller \in [Calls -> Tokens \cup {NULL}] /\ at \in [Calls -> 0..MaxNow]
  /\ listed \in [Calls -> SUBSET (({"token"} \X Tokens) \cup AccountIds)]
  /\ answer \in [Calls -> Answers]

\* Only a row that is there is revoked.
TokenInv == \A t \in Tokens : tokens[t].revoked => tokens[t].user # Absent

\* Past the middleware, a request has the token it was authenticated with, of a user.
CallerOf(p) ==
  /\ caller[p] # NULL => Call(p).kind \in Remote /\ tokens[caller[p]].user \in Users
  /\ pc[p] = "start" => caller[p] = NULL
  /\ Call(p).kind \in Remote /\ pc[p] \notin {"start", "done", "lost"} => caller[p] # NULL
  /\ pc[p] \in {"stamp", "touch", "verb", "bind", "audit"} => Call(p).kind \in Remote
  /\ pc[p] \in {"resy", "upsert"} => Call(p).kind \in {"login", "command"}
  /\ pc[p] = "audit" => answer[p] # "none"
  /\ pc[p] \in {"seed", "lookup", "backfill"} => Call(p).kind = "seed" /\ Call(p).email \in Users

\* What CallerOf says, of every call.
CallerInv == \A p \in Calls : CallerOf(p)

\* A listing shows its user's accounts.
ListOf(p) ==
  /\ listed[p] # {} => caller[p] # NULL
  /\ \A a \in listed[p] \cap AccountIds : accounts[a] = CallerUser(p)
\* What ListOf says, of every call.
ListInv == \A p \in Calls : ListOf(p)

\* The row of a call's answer.
RowOf(p) == [call |-> p, user |-> CallerUser(p), ok |-> answer[p] = "ok",
             code |-> errorCodeFor(answer[p])]

\* The row is that of a request that has its answer, of which no warning tells.
RowRight(r) ==
  /\ r.call \in Calls /\ pc[r.call] = "done" /\ caller[r.call] # NULL
  /\ answer[r.call] # "none" /\ r.call \notin unlogged
  /\ r = RowOf(r.call)

\* The rows of the audit log are those of the answered requests, each once.
AuditInv ==
  /\ \A r \in audit : RowRight(r)
  /\ unlogged \subseteq {p \in Calls : pc[p] = "done"}
  /\ \A p \in Calls :
       caller[p] # NULL /\ pc[p] = "done" /\ ~Malformed(p) => p \in unlogged \/ RowOf(p) \in audit

\* The inductive invariant.
AuthInv == Types /\ TokenInv /\ CallerInv /\ ListInv /\ AuditInv

----------------------------------------------------------------------------
\* The three tables agree: what the client finds again has the code of what the verb
\* returned (http/errors.go:54-57); an error that one of them does not know is "internal".
LEMMA WireAgrees == ASSUME NEW e \in Answers PROVE errorCodeFor(Received(e)) = errorCodeFor(e)
  <1>1. CASE e \in DOMAIN ErrorMapping
    <2>1. Received(e) = e
      BY <1>1 DEF Answers, ErrorMapping, Received, parseErrorEnvelope, WriteErrorDetails, MapError, Mapping, codeToSentinel, Sentinel
    <2>2. QED
      BY <2>1
  <1>2. CASE e = "ok"
    BY <1>2 DEF Received
  <1>3. CASE e \in {"none", "other", "errNoSession"}
    <2>1. Received(e) = "other"
      BY <1>3 DEF ErrorMapping, Received, parseErrorEnvelope, WriteErrorDetails, MapError, Mapping, codeToSentinel, Sentinel
    <2>2. QED
      BY <1>3, <2>1 DEF errorCodeFor, ErrorCodes
  <1>4. QED
    BY <1>1, <1>2, <1>3 DEF Answers, ErrorMapping

\* The two values that stand for no user are not users.
LEMMA Numbers == NULL \notin Users /\ Absent \notin Users /\ NULL \notin Tokens /\ NULL # Absent
  BY CallsAssumption, UsersAssumption DEF NULL, Absent

\* It holds before the first call.
LEMMA InitInv == Init => AuthInv
  <1>. SUFFICES ASSUME Init PROVE AuthInv
    OBVIOUS
  <1>1. NoToken \in TokenRows
    BY DEF NoToken, TokenRows
  <1>2. ASSUME NEW t \in Tokens, t \in Users, NEW s \in {"user", "operator"}
        PROVE  [NoToken EXCEPT !.user = t, !.scope = s] \in TokenRows
               /\ ~[NoToken EXCEPT !.user = t, !.scope = s].revoked
    BY <1>2 DEF NoToken, TokenRows
  <1>3. tokens \in [Tokens -> TokenRows] /\ \A t \in Tokens : ~tokens[t].revoked
    <2>1. /\ tokens = [t \in Tokens |-> IF t \in users
                 THEN [NoToken EXCEPT !.user = t, !.scope = IF t = operator THEN "operator" ELSE "user"]
                 ELSE NoToken]
          /\ users \subseteq Users
      BY DEF Init
    <2>2. ~NoToken.revoked
      BY SMTT(30) DEF NoToken
    <2>3. ASSUME NEW t \in Tokens PROVE tokens[t] \in TokenRows /\ ~tokens[t].revoked
      BY <1>1, <1>2, <2>1, <2>2
    <2>4. QED
      BY <2>1, <2>3
  <1>4. Types
    <2>1. accounts \in [AccountIds -> {NULL, Absent}]
      <3>1. accounts \in [AccountIds -> {NULL, Absent}] \/ accounts = [a \in AccountIds |-> Absent]
        BY DEF Init
      <3>2. QED
        BY <3>1
    <2>2. accounts \in [AccountIds -> Users \cup {NULL, Absent}]
      BY <2>1
    <2>3. /\ scenario \in Scenarios /\ now = 0
          /\ pc = [p \in Calls |-> "start"] /\ caller = [p \in Calls |-> NULL]
          /\ at = [p \in Calls |-> 0]
          /\ listed = [p \in Calls |-> {}] /\ answer = [p \in Calls |-> "none"]
      BY DEF Init
    <2>4. "start" \in Pcs /\ "none" \in Answers /\ 0 \in 0..MaxNow
      BY TouchAssumption DEF Pcs, Answers
    <2>5. QED
      BY <1>3, <2>2, <2>3, <2>4 DEF Types
  <1>5. TokenInv /\ CallerInv /\ ListInv /\ AuditInv
    BY <1>3 DEF Init, TokenInv, CallerInv, CallerOf, ListInv, ListOf, AuditInv
  <1>6. QED
    BY <1>4, <1>5 DEF AuthInv

\* What each call is never changes, and the clock stays within its bound.
LEMMA Frame == ASSUME AuthInv, [Next]_vars PROVE scenario' = scenario /\ now' \in 0..MaxNow
  <1>1. now \in 0..MaxNow /\ MaxNow \in Nat
    BY TouchAssumption DEF AuthInv, Types
  <1>2. ASSUME NEW p \in Calls, Step(p) PROVE scenario' = scenario /\ now' = now
    BY <1>2 DEF Step, Authenticate, Stamp, TouchTokenSeen, BadRequest, IssueToken, RevokeToken, ListTokens, ListAccounts,
       Login, ResyLogin, UpsertSession, Bind, Audit, runLogin, runUserSeed, SeedOperator, Backfill, LoadSession, env
  <1>3. CASE \E p \in Calls : Step(p)
    BY <1>1, <1>2, <1>3
  <1>4. CASE Tick \/ (\E j \in Calls : Expire(j)) \/ Crash \/ Restart \/ UNCHANGED vars
    BY <1>1, <1>4 DEF Tick, Expire, Crash, Restart, vars, env
  <1>5. QED
    BY <1>3, <1>4 DEF Next

\* What may happen to a token: a row that is revoked stays as it is, and a row keeps
\* its user.
TokenMoved(t) ==
  /\ tokens'[t] \in TokenRows
  /\ tokens[t].revoked => tokens'[t] = tokens[t]
  /\ tokens[t].user # Absent => tokens'[t].user = tokens[t].user
  /\ tokens'[t].revoked => tokens'[t].user # Absent

\* The token rows keep their invariant in every step.
LEMMA TokensStep ==
  ASSUME AuthInv, [Next]_vars
  PROVE  tokens' \in [Tokens -> TokenRows] /\ \A t \in Tokens : TokenMoved(t)
  <1>0. /\ Types /\ TokenInv /\ CallerInv
        /\ tokens \in [Tokens -> TokenRows] /\ \A t \in Tokens : tokens[t] \in TokenRows
    BY DEF AuthInv, Types
  <1>1. CASE tokens' = tokens
    BY <1>0, <1>1 DEF TokenInv, TokenMoved
  <1>2. ASSUME NEW s \in Tokens, NEW new \in TokenRows, tokens' = [tokens EXCEPT ![s] = new],
               ~tokens[s].revoked, tokens[s].user \in {Absent, new.user}, new.revoked => new.user # Absent
        PROVE  tokens' \in [Tokens -> TokenRows] /\ \A t \in Tokens : TokenMoved(t)
    <2>1. ASSUME NEW t \in Tokens PROVE TokenMoved(t)
      <3>1. CASE t = s
        BY <1>0, <1>2, <3>1 DEF TokenMoved
      <3>2. CASE t # s
        BY <1>0, <1>2, <3>2 DEF TokenMoved, TokenInv
      <3>3. QED
        BY <3>1, <3>2
    <2>2. QED
      BY <1>0, <1>2, <2>1
  <1>3. ASSUME NEW p \in Calls, TouchTokenSeen(p)
        PROVE  tokens' \in [Tokens -> TokenRows] /\ \A t \in Tokens : TokenMoved(t)
    <2>1. caller[p] \in Tokens /\ at[p] \in 0..MaxNow
      BY <1>0, <1>3, Numbers DEF Types, CallerInv, CallerOf, TouchTokenSeen
    <2>2. CASE ~tokens[caller[p]].revoked /\ tokens' = [tokens EXCEPT ![caller[p]].seen = at[p]]
      <3>. DEFINE new == [tokens[caller[p]] EXCEPT !.seen = at[p]]
      <3>1. /\ new \in TokenRows /\ new.user = tokens[caller[p]].user /\ new.revoked = tokens[caller[p]].revoked
            /\ tokens' = [tokens EXCEPT ![caller[p]] = new]
        BY <1>0, <2>1, <2>2 DEF TokenRows
      <3>. HIDE DEF new
      <3>2. QED
        BY <1>2, <2>1, <2>2, <3>1
    <2>3. QED
      BY <1>1, <1>3, <2>2 DEF TouchTokenSeen
  <1>4. ASSUME NEW p \in Calls, IssueToken(p)
        PROVE  tokens' \in [Tokens -> TokenRows] /\ \A t \in Tokens : TokenMoved(t)
    <2>1. CallerUser(p) \in Users
      BY <1>0, <1>4 DEF CallerInv, CallerOf, IssueToken, Enters, CallerUser
    <2>2. ASSUME NEW sc \in {"user", "operator"}, NEW s \in Tokens, tokens[s].user = Absent,
                 tokens' = [tokens EXCEPT ![s] = [NoToken EXCEPT !.user = CallerUser(p), !.scope = sc]]
          PROVE  tokens' \in [Tokens -> TokenRows] /\ \A t \in Tokens : TokenMoved(t)
      <3>. DEFINE new == [NoToken EXCEPT !.user = CallerUser(p), !.scope = sc]
      <3>1. new \in TokenRows /\ new.user = CallerUser(p) /\ ~new.revoked
        BY <2>1, <2>2 DEF NoToken, TokenRows
      <3>2. ~tokens[s].revoked
        BY <1>0, <2>2 DEF TokenInv
      <3>. HIDE DEF new
      <3>3. QED
        BY <1>2, <2>2, <3>1, <3>2 DEF new
    <2>3. QED
      BY <1>1, <1>4, <2>2 DEF IssueToken, InsertToken
  <1>5. ASSUME NEW p \in Calls, RevokeToken(p)
        PROVE  tokens' \in [Tokens -> TokenRows] /\ \A t \in Tokens : TokenMoved(t)
    <2>1. ASSUME NEW s \in Tokens, FindTokenByHash(s), tokens' = [tokens EXCEPT ![s].revoked = TRUE]
          PROVE  tokens' \in [Tokens -> TokenRows] /\ \A t \in Tokens : TokenMoved(t)
      <3>. DEFINE new == [tokens[s] EXCEPT !.revoked = TRUE]
      <3>1. /\ new \in TokenRows /\ new.user = tokens[s].user /\ tokens' = [tokens EXCEPT ![s] = new]
        BY <1>0, <2>1 DEF TokenRows
      <3>2. ~tokens[s].revoked /\ tokens[s].user # Absent
        BY <2>1 DEF FindTokenByHash
      <3>. HIDE DEF new
      <3>3. QED
        BY <1>2, <2>1, <3>1, <3>2
    <2>2. QED
      BY <1>1, <1>5, <2>1 DEF RevokeToken, Revocable
  <1>6. ASSUME NEW p \in Calls, Step(p), ~TouchTokenSeen(p), ~IssueToken(p), ~RevokeToken(p) PROVE tokens' = tokens
    BY <1>6 DEF Step, Authenticate, Stamp, BadRequest, ListTokens, ListAccounts,
       Login, ResyLogin, UpsertSession, Bind, Audit, runLogin, runUserSeed, SeedOperator, Backfill, LoadSession, rows
  <1>7. ASSUME Tick \/ (\E j \in Calls : Expire(j)) \/ Crash \/ Restart \/ UNCHANGED vars PROVE tokens' = tokens
    BY <1>7 DEF Tick, Expire, Crash, Restart, vars, rows
  <1>8. QED
    BY <1>1, <1>3, <1>4, <1>5, <1>6, <1>7 DEF Next

\* A bound account stays bound to its user.
LEMMA AccountsStep ==
  ASSUME AuthInv, [Next]_vars
  PROVE  /\ accounts' \in [AccountIds -> Users \cup {NULL, Absent}]
         /\ \A a \in AccountIds : accounts[a] \in Users => accounts'[a] = accounts[a]
  <1>0. Types /\ CallerInv
    BY DEF AuthInv
  <1>1. CASE accounts' = accounts
    BY <1>0, <1>1 DEF Types
  <1>2. ASSUME NEW p \in Calls, UpsertSession(p), accounts' # accounts
        PROVE  /\ accounts' \in [AccountIds -> Users \cup {NULL, Absent}]
               /\ \A a \in AccountIds : accounts[a] \in Users => accounts'[a] = accounts[a]
    <2>1. PICK a : accounts[a] \in {NULL, Absent} /\ accounts' = [accounts EXCEPT ![a] = NULL]
      BY <1>2 DEF UpsertSession
    <2>2. QED
      BY <1>0, <2>1, Numbers DEF Types
  <1>3. ASSUME NEW u \in Users, NEW F, \A a \in F : accounts[a] = NULL,
               accounts' = [a \in AccountIds |-> IF a \in F THEN u ELSE accounts[a]]
        PROVE  /\ accounts' \in [AccountIds -> Users \cup {NULL, Absent}]
               /\ \A a \in AccountIds : accounts[a] \in Users => accounts'[a] = accounts[a]
    BY <1>0, <1>3, Numbers DEF Types
  <1>4. ASSUME NEW p \in Calls, Bind(p), accounts' # accounts
        PROVE  /\ accounts' \in [AccountIds -> Users \cup {NULL, Absent}]
               /\ \A a \in AccountIds : accounts[a] \in Users => accounts'[a] = accounts[a]
    <2>1. CallerUser(p) \in Users
      BY <1>0, <1>4 DEF CallerInv, CallerOf, Bind, CallerUser
    <2>. DEFINE F == {a \in AccountIds : a[2] = Call(p).email /\ accounts[a] = NULL}
    <2>2. \A a \in F : accounts[a] = NULL
      OBVIOUS
    <2>3. accounts' = [a \in AccountIds |-> IF a \in F THEN CallerUser(p) ELSE accounts[a]]
      BY <1>4 DEF Bind
    <2>. HIDE DEF F
    <2>4. QED
      BY <1>3, <2>1, <2>2, <2>3
  <1>5. ASSUME NEW p \in Calls, Backfill(p), accounts' # accounts
        PROVE  /\ accounts' \in [AccountIds -> Users \cup {NULL, Absent}]
               /\ \A a \in AccountIds : accounts[a] \in Users => accounts'[a] = accounts[a]
    <2>1. Call(p).email \in Users
      BY <1>0, <1>5 DEF CallerInv, CallerOf, Backfill
    <2>. DEFINE F == {a \in AccountIds : accounts[a] = NULL}
    <2>2. \A a \in F : accounts[a] = NULL
      OBVIOUS
    <2>3. accounts' = [a \in AccountIds |-> IF a \in F THEN Call(p).email ELSE accounts[a]]
      BY <1>5 DEF Backfill
    <2>. HIDE DEF F
    <2>4. QED
      BY <1>3, <2>1, <2>2, <2>3
  <1>6. ASSUME NEW p \in Calls, Step(p), ~UpsertSession(p), ~Bind(p), ~Backfill(p) PROVE accounts' = accounts
    BY <1>6 DEF Step, Authenticate, Stamp, TouchTokenSeen, BadRequest, IssueToken, RevokeToken, ListTokens, ListAccounts,
       Login, ResyLogin, Audit, runLogin, runUserSeed, SeedOperator, LoadSession, rows
  <1>7. ASSUME Tick \/ (\E j \in Calls : Expire(j)) \/ Crash \/ Restart \/ UNCHANGED vars PROVE accounts' = accounts
    BY <1>7 DEF Tick, Expire, Crash, Restart, vars, rows
  <1>8. QED
    BY <1>1, <1>2, <1>4, <1>5, <1>6, <1>7 DEF Next

\* A call that takes no step keeps what it has.
Same(q) ==
  /\ pc'[q] = pc[q] /\ caller'[q] = caller[q] /\ at'[q] = at[q]
  /\ listed'[q] = listed[q] /\ answer'[q] = answer[q]

\* The crash ends a request.
Dies(q) ==
  /\ Call(q).kind \in Remote /\ pc[q] \notin {"start", "done"} /\ pc'[q] = "lost"
  /\ caller'[q] = caller[q] /\ at'[q] = at[q] /\ listed'[q] = listed[q] /\ answer'[q] = answer[q]

\* A call moves by its own code or by the crash.
LEMMA Moved == ASSUME AuthInv, [Next]_vars, NEW q \in Calls PROVE Same(q) \/ Dies(q) \/ Step(q)
  <1>0. Types
    BY DEF AuthInv
  <1>1. ASSUME NEW p \in Calls, p # q, Authenticate(p) \/ Stamp(p) \/ TouchTokenSeen(p) \/ BadRequest(p) PROVE Same(q)
    BY <1>0, <1>1 DEF Types, Same, Authenticate, Stamp, TouchTokenSeen, BadRequest, Goto, Return
  <1>2. ASSUME NEW p \in Calls, p # q, IssueToken(p) \/ RevokeToken(p) \/ ListTokens(p) \/ ListAccounts(p) PROVE Same(q)
    BY <1>0, <1>2 DEF Types, Same, IssueToken, RevokeToken, ListTokens, ListAccounts, Verb, Goto, Return
  <1>3. ASSUME NEW p \in Calls, p # q, Login(p) \/ ResyLogin(p) \/ UpsertSession(p) \/ Bind(p) \/ Audit(p) PROVE Same(q)
    BY <1>0, <1>3 DEF Types, Same, Login, ResyLogin, UpsertSession, Bind, Audit, Verb, Goto, Return
  <1>4. ASSUME NEW p \in Calls, p # q, runLogin(p) \/ runUserSeed(p) \/ SeedOperator(p) \/ Backfill(p) \/ LoadSession(p)
        PROVE Same(q)
    BY <1>0, <1>4 DEF Types, Same, runLogin, runUserSeed, SeedOperator, Backfill, LoadSession, Goto, Return
  <1>5. ASSUME Crash PROVE Same(q) \/ Dies(q)
    BY <1>0, <1>5 DEF Types, Same, Dies, Crash
  <1>6. ASSUME Tick \/ (\E j \in Calls : Expire(j)) \/ Restart \/ UNCHANGED vars PROVE Same(q)
    BY <1>6 DEF Same, Tick, Expire, Restart, vars, call
  <1>7. QED
    BY <1>1, <1>2, <1>3, <1>4, <1>5, <1>6 DEF Next, Step

\* The types of the calls' state are kept.
LEMMA TypesStep == ASSUME AuthInv, [Next]_vars PROVE Types'
  <1>0. Types /\ CallerInv
    BY DEF AuthInv
  <1>1. scenario' = scenario /\ now' \in 0..MaxNow
    BY Frame
  <1>2. accounts' \in [AccountIds -> Users \cup {NULL, Absent}] /\ tokens' \in [Tokens -> TokenRows]
    BY AccountsStep, TokensStep
  <1>3. Answers = Answers' /\ {"ok", "other", "errNoSession", "ErrUnauthorized", "ErrInvalidArgument", "ErrForbidden",
                    "ErrNotFound", "ErrAuthExpired", "ErrUpstreamUnavailable"} \subseteq Answers
    BY DEF Answers
  <1>4. \A e \in Answers, p \in Calls : [answer EXCEPT ![p] = e] \in [Calls -> Answers]
    BY <1>0 DEF Types
  <1>5. \A l \in Pcs, p \in Calls : [pc EXCEPT ![p] = l] \in [Calls -> Pcs]
    BY <1>0 DEF Types
  <1>6. pc' \in [Calls -> Pcs] /\ answer' \in [Calls -> Answers]
    <2>0. pc \in [Calls -> Pcs] /\ answer \in [Calls -> Answers]
      BY <1>0 DEF Types
    <2>1. ASSUME NEW p \in Calls, Authenticate(p) \/ Stamp(p) \/ TouchTokenSeen(p) \/ BadRequest(p)
          PROVE  pc' \in [Calls -> Pcs] /\ answer' \in [Calls -> Answers]
      BY <1>3, <1>4, <1>5, <2>0, <2>1 DEF Authenticate, Stamp, TouchTokenSeen, BadRequest, Goto, Return, Pcs
    <2>2. ASSUME NEW p \in Calls, IssueToken(p) \/ RevokeToken(p) \/ ListTokens(p) \/ ListAccounts(p)
          PROVE  pc' \in [Calls -> Pcs] /\ answer' \in [Calls -> Answers]
      BY <1>3, <1>4, <1>5, <2>2 DEF IssueToken, RevokeToken, ListTokens, ListAccounts, Verb, Goto, Return, Pcs
    <2>3. ASSUME NEW p \in Calls, Login(p) \/ ResyLogin(p) \/ UpsertSession(p) \/ Bind(p) \/ Audit(p)
          PROVE  pc' \in [Calls -> Pcs] /\ answer' \in [Calls -> Answers]
      BY <1>3, <1>4, <1>5, <2>0, <2>3 DEF Login, ResyLogin, UpsertSession, Bind, Audit, Back, Verb, Goto, Return, Pcs
    <2>4. ASSUME NEW p \in Calls, runLogin(p) \/ runUserSeed(p) \/ SeedOperator(p) \/ Backfill(p) \/ LoadSession(p)
          PROVE  pc' \in [Calls -> Pcs] /\ answer' \in [Calls -> Answers]
      BY <1>3, <1>4, <1>5, <2>0, <2>4 DEF runLogin, runUserSeed, SeedOperator, Backfill, LoadSession, Goto, Return, Pcs
    <2>5. ASSUME Tick \/ (\E j \in Calls : Expire(j)) \/ Crash \/ Restart \/ UNCHANGED vars
          PROVE  pc' \in [Calls -> Pcs] /\ answer' \in [Calls -> Answers]
      BY <2>0, <2>5 DEF Tick, Expire, Crash, Restart, vars, call, Pcs
    <2>6. QED
      BY <2>1, <2>2, <2>3, <2>4, <2>5 DEF Next, Step
  <1>7. caller' \in [Calls -> Tokens \cup {NULL}] /\ at' \in [Calls -> 0..MaxNow]
    <2>1. ASSUME NEW p \in Calls, Authenticate(p)
          PROVE  caller' \in [Calls -> Tokens \cup {NULL}] /\ at' \in [Calls -> 0..MaxNow]
      BY <1>0, <2>1 DEF Types, Authenticate, FindTokenByHash
    <2>2. ASSUME NEW p \in Calls, Step(p), ~Authenticate(p) PROVE caller' = caller /\ at' = at
      BY <2>2 DEF Step, Stamp, TouchTokenSeen, BadRequest, IssueToken, RevokeToken, ListTokens, ListAccounts,
         Login, ResyLogin, UpsertSession, Bind, Audit, runLogin, runUserSeed, SeedOperator, Backfill, LoadSession
    <2>3. ASSUME Tick \/ (\E j \in Calls : Expire(j)) \/ Crash \/ Restart \/ UNCHANGED vars
          PROVE  caller' = caller /\ at' = at
      BY <2>3 DEF Tick, Expire, Crash, Restart, vars, call
    <2>4. QED
      BY <1>0, <2>1, <2>2, <2>3 DEF Types, Next
  <1>8. listed' \in [Calls -> SUBSET (({"token"} \X Tokens) \cup AccountIds)]
    <2>. DEFINE L == ({"token"} \X Tokens) \cup AccountIds
    <2>1. \A u : ListTokensForUser(u) \subseteq L /\ ListAccountsForUser(u) \subseteq L
      BY DEF ListTokensForUser, ListAccountsForUser
    <2>2. listed \in [Calls -> SUBSET L]
      BY <1>0 DEF Types
    <2>. HIDE DEF L
    <2>3. ASSUME NEW p \in Calls, ListTokens(p) \/ ListAccounts(p) PROVE listed' \in [Calls -> SUBSET L]
      BY <2>1, <2>2, <2>3 DEF ListTokens, ListAccounts
    <2>4. ASSUME NEW p \in Calls, Step(p), ~ListTokens(p), ~ListAccounts(p) PROVE listed' = listed
      BY <2>4 DEF Step, Authenticate, Stamp, TouchTokenSeen, BadRequest, IssueToken, RevokeToken,
         Login, ResyLogin, UpsertSession, Bind, Audit, runLogin, runUserSeed, SeedOperator, Backfill, LoadSession
    <2>5. ASSUME Tick \/ (\E j \in Calls : Expire(j)) \/ Crash \/ Restart \/ UNCHANGED vars PROVE listed' = listed
      BY <2>5 DEF Tick, Expire, Crash, Restart, vars, call
    <2>6. listed' \in [Calls -> SUBSET L]
      BY <2>2, <2>3, <2>4, <2>5 DEF Next
    <2>7. QED
      BY <2>6 DEF L
  <1>9. QED
    BY <1>0, <1>1, <1>2, <1>6, <1>7, <1>8 DEF Types

\* A request keeps its token and the token its user.
LEMMA CallerStep == ASSUME AuthInv, [Next]_vars PROVE CallerInv'
  <1>. SUFFICES ASSUME NEW q \in Calls PROVE CallerOf(q)'
    BY DEF CallerInv
  <1>0. Types /\ CallerOf(q) /\ scenario' = scenario
    BY Frame DEF AuthInv, CallerInv
  <1>1. ASSUME NEW t \in Tokens, tokens[t].user \in Users PROVE tokens'[t].user \in Users
    BY <1>1, TokensStep, Numbers DEF TokenMoved
  <1>2. caller[q] # NULL => tokens'[caller[q]].user \in Users
    BY <1>0, <1>1 DEF Types, CallerOf
  <1>3. CASE Same(q) \/ Dies(q)
    BY <1>0, <1>2, <1>3 DEF CallerOf, Call, Same, Dies, Remote
  <1>4. CASE Authenticate(q)
    <2>1. ASSUME FindTokenByHash(Call(q).token) PROVE tokens'[Call(q).token].user \in Users
      BY <1>0, <1>1, <2>1 DEF FindTokenByHash, Types, TokenRows
    <2>2. ASSUME FindTokenByHash(Call(q).token), caller' = [caller EXCEPT ![q] = Call(q).token], Goto(q, "stamp")
          PROVE  CallerOf(q)'
      <3>1. caller'[q] = Call(q).token /\ pc'[q] = "stamp" /\ Call(q).kind \in Remote
        BY <1>0, <1>4, <2>2 DEF Types, Authenticate, Goto
      <3>2. tokens'[caller'[q]].user \in Users /\ caller'[q] # NULL
        BY <2>1, <2>2, <3>1, Numbers DEF FindTokenByHash
      <3>3. QED
        BY <1>0, <3>1, <3>2 DEF CallerOf, Call
    <2>3. ASSUME Return(q, "done", "ErrUnauthorized"), UNCHANGED caller PROVE CallerOf(q)'
      BY <1>0, <1>4, <2>3 DEF Types, CallerOf, Call, Authenticate, Goto, Return
    <2>4. QED
      BY <1>4, <2>2, <2>3 DEF Authenticate
  <1>5. CASE Stamp(q) \/ TouchTokenSeen(q) \/ BadRequest(q)
    BY <1>0, <1>2, <1>5 DEF Types, CallerOf, Call, Stamp, TouchTokenSeen, BadRequest, Goto, Return, Remote
  <1>6. CASE IssueToken(q) \/ RevokeToken(q) \/ ListTokens(q) \/ ListAccounts(q)
    BY <1>0, <1>2, <1>6 DEF Types, CallerOf, Call, IssueToken, RevokeToken, ListTokens, ListAccounts, Enters, Verb, Goto,
       Return, Remote
  <1>7. CASE Login(q) \/ ResyLogin(q) \/ UpsertSession(q)
    BY <1>0, <1>2, <1>7 DEF Types, CallerOf, Call, Login, ResyLogin, UpsertSession, Back, Enters, Goto, Return, Remote
  <1>8. CASE Bind(q) \/ Audit(q)
    BY <1>0, <1>2, <1>8 DEF Types, CallerOf, Call, Bind, Audit, Verb, Goto, Return, Remote
  <1>9. CASE runLogin(q) \/ LoadSession(q) \/ Backfill(q)
    BY <1>0, <1>2, <1>9 DEF Types, CallerOf, Call, runLogin, LoadSession, Backfill, Goto, Return, Remote
  <1>10. CASE runUserSeed(q) \/ SeedOperator(q)
    <2>1. Call(q).kind = "seed" => Call(q).email \in Users \cup {NULL}
      BY <1>0, ScenariosAssumption DEF Types, Call
    <2>2. QED
      BY <1>0, <1>2, <1>10, <2>1 DEF Types, CallerOf, Call, runUserSeed, SeedOperator, Goto, Return, Remote
  <1>11. QED
    BY <1>3, <1>4, <1>5, <1>6, <1>7, <1>8, <1>9, <1>10, Moved DEF Step

\* A listing keeps showing accounts of its user, who keeps them.
LEMMA ListStep == ASSUME AuthInv, [Next]_vars PROVE ListInv'
  <1>. SUFFICES ASSUME NEW q \in Calls PROVE ListOf(q)'
    BY DEF ListInv
  <1>0. Types /\ CallerOf(q) /\ ListOf(q) /\ listed[q] \subseteq ({"token"} \X Tokens) \cup AccountIds
    BY DEF AuthInv, CallerInv, ListInv, Types
  <1>1. ASSUME caller[q] # NULL PROVE tokens'[caller[q]].user = tokens[caller[q]].user /\ tokens[caller[q]].user \in Users
    BY <1>0, <1>1, TokensStep, Numbers DEF TokenMoved, CallerOf, Types
  <1>2. \A a \in AccountIds : accounts[a] \in Users => accounts'[a] = accounts[a]
    BY AccountsStep
  <1>3. CASE caller'[q] = caller[q] /\ listed'[q] = listed[q]
    BY <1>0, <1>1, <1>2, <1>3 DEF ListOf, CallerUser
  <1>4. ASSUME caller'[q] = caller[q], caller[q] # NULL, NEW S, listed'[q] = S,
               \A a \in S \cap AccountIds : accounts[a] = CallerUser(q)
        PROVE  ListOf(q)'
    BY <1>1, <1>2, <1>4 DEF ListOf, CallerUser
  <1>5. CASE ListTokens(q)
    <2>1. \A u : ListTokensForUser(u) \cap AccountIds = {}
      BY DEF ListTokensForUser, AccountIds
    <2>2. caller'[q] = caller[q] /\ caller[q] # NULL
      BY <1>0, <1>5 DEF ListTokens, Enters, CallerOf, Remote
    <2>3. listed'[q] \in {listed[q], ListTokensForUser(CallerUser(q))}
      BY <1>0, <1>5 DEF ListTokens, Types
    <2>4. QED
      BY <1>3, <1>4, <2>1, <2>2, <2>3
  <1>6. CASE ListAccounts(q)
    <2>1. \A a \in ListAccountsForUser(CallerUser(q)) \cap AccountIds : accounts[a] = CallerUser(q)
      BY DEF ListAccountsForUser
    <2>2. caller'[q] = caller[q] /\ caller[q] # NULL
      BY <1>0, <1>6 DEF ListAccounts, Enters, CallerOf, Remote
    <2>3. listed'[q] \in {listed[q], ListAccountsForUser(CallerUser(q))}
      BY <1>0, <1>6 DEF ListAccounts, Types
    <2>4. QED
      BY <1>3, <1>4, <2>1, <2>2, <2>3
  <1>7. CASE Authenticate(q)
    <2>1. listed[q] = {} /\ listed'[q] = listed[q]
      BY <1>0, <1>7 DEF Authenticate, CallerOf, ListOf
    <2>2. QED
      BY <2>1 DEF ListOf
  <1>8. ASSUME Step(q), ~ListTokens(q), ~ListAccounts(q), ~Authenticate(q) PROVE caller'[q] = caller[q] /\ listed'[q] = listed[q]
    BY <1>8 DEF Step, Stamp, TouchTokenSeen, BadRequest, IssueToken, RevokeToken,
       Login, ResyLogin, UpsertSession, Bind, Audit, runLogin, runUserSeed, SeedOperator, Backfill, LoadSession
  <1>9. QED
    BY <1>3, <1>5, <1>6, <1>7, <1>8, Moved DEF Same, Dies

\* A call that has ended takes no step.
LEMMA Ended == ASSUME NEW p \in Calls, Step(p) PROVE pc[p] \notin {"done", "lost"}
  BY DEF Step, Authenticate, Stamp, TouchTokenSeen, BadRequest, IssueToken, RevokeToken, ListTokens, ListAccounts, Enters,
     Login, ResyLogin, UpsertSession, Bind, Audit, runLogin, runUserSeed, SeedOperator, Backfill, LoadSession

\* A request past the middleware is answered after its audit, or for its malformed body.
LEMMA Answered ==
  ASSUME AuthInv, NEW p \in Calls, Step(p), pc'[p] = "done", caller'[p] # NULL
  PROVE  Malformed(p) \/ Audit(p)
  <1>0. Types /\ CallerOf(p)
    BY DEF AuthInv, CallerInv
  <1>1. ASSUME Authenticate(p) \/ Stamp(p) \/ TouchTokenSeen(p) PROVE FALSE
    BY <1>0, <1>1 DEF Types, CallerOf, Authenticate, Stamp, TouchTokenSeen, Goto, Return
  <1>2. ASSUME IssueToken(p) \/ RevokeToken(p) \/ ListTokens(p) \/ ListAccounts(p) \/ Login(p) PROVE FALSE
    BY <1>0, <1>2 DEF Types, IssueToken, RevokeToken, ListTokens, ListAccounts, Login, Verb, Goto, Return
  <1>3. ASSUME ResyLogin(p) \/ UpsertSession(p) \/ Bind(p) PROVE FALSE
    BY <1>0, <1>3 DEF Types, CallerOf, ResyLogin, UpsertSession, Bind, Back, Verb, Goto, Return, Remote
  <1>4. ASSUME runLogin(p) \/ runUserSeed(p) \/ SeedOperator(p) \/ Backfill(p) \/ LoadSession(p) PROVE FALSE
    BY <1>0, <1>4 DEF Types, CallerOf, runLogin, runUserSeed, SeedOperator, Backfill, LoadSession, Goto, Return, Remote
  <1>5. QED
    BY <1>1, <1>2, <1>3, <1>4 DEF Step, BadRequest

\* Only the audit of a call writes the log.
LEMMA LogStep ==
  ASSUME [Next]_vars, ~ \E p \in Calls : Audit(p)
  PROVE  audit' = audit /\ unlogged' = unlogged
  <1>1. ASSUME NEW p \in Calls, Step(p) PROVE audit' = audit /\ unlogged' = unlogged
    BY <1>1 DEF Step, Authenticate, Stamp, TouchTokenSeen, BadRequest, IssueToken, RevokeToken, ListTokens, ListAccounts,
       Login, ResyLogin, UpsertSession, Bind, runLogin, runUserSeed, SeedOperator, Backfill, LoadSession, log
  <1>2. ASSUME Tick \/ (\E j \in Calls : Expire(j)) \/ Crash \/ Restart \/ UNCHANGED vars
        PROVE  audit' = audit /\ unlogged' = unlogged
    BY <1>2 DEF Tick, Expire, Crash, Restart, vars, log
  <1>3. QED
    BY <1>1, <1>2 DEF Next

\* The row of a call that has ended stays the row of its answer.
LEMMA RowKept ==
  ASSUME AuthInv, [Next]_vars, NEW q \in Calls, caller[q] # NULL, caller'[q] = caller[q], answer'[q] = answer[q]
  PROVE  RowOf(q)' = RowOf(q)
  <1>1. tokens'[caller[q]].user = tokens[caller[q]].user
    BY TokensStep, Numbers DEF TokenMoved, AuthInv, CallerInv, CallerOf, Types
  <1>2. QED
    BY <1>1 DEF RowOf, CallerUser

\* The audit rows keep their invariant in every step.
LEMMA AuditStep == ASSUME AuthInv, [Next]_vars PROVE AuditInv'
  <1>0. AuditInv /\ Types /\ CallerInv /\ scenario' = scenario
    BY Frame DEF AuthInv
  <1>1. ASSUME NEW q \in Calls, pc[q] = "done" PROVE Same(q)
    BY <1>1, Ended, Moved DEF Dies
  <1>2. ASSUME NEW p \in Calls, Audit(p)
        PROVE  /\ pc[p] = "audit" /\ pc'[p] = "done" /\ caller'[p] = caller[p] /\ caller[p] # NULL
               /\ answer'[p] = answer[p] /\ answer[p] # "none" /\ RowOf(p)' = RowOf(p)
               /\ \/ audit' = audit \cup {RowOf(p)} /\ unlogged' = unlogged
                  \/ audit' = audit /\ unlogged' = unlogged \cup {p}
    <2>1. /\ pc[p] = "audit" /\ pc'[p] = "done" /\ caller'[p] = caller[p] /\ caller[p] # NULL
          /\ answer'[p] = answer[p] /\ answer[p] # "none"
      BY <1>0, <1>2 DEF Types, CallerInv, CallerOf, Audit, Goto
    <2>2. RowOf(p)' = RowOf(p)
      BY <2>1, RowKept
    <2>3. \/ audit' = audit \cup {RowOf(p)} /\ unlogged' = unlogged
          \/ audit' = audit /\ unlogged' = unlogged \cup {p}
      BY <1>2 DEF Audit, WriteAuditEvent, RowOf
    <2>4. QED
      BY <2>1, <2>2, <2>3
  <1>3. ASSUME NEW r \in audit' PROVE RowRight(r)'
    <2>1. CASE r \in audit
      <3>1. RowRight(r) /\ r.call \in Calls
        BY <1>0, <2>1 DEF AuditInv, RowRight
      <3>2. Same(r.call) /\ RowOf(r.call)' = RowOf(r.call)
        <4>1. Same(r.call)
          BY <1>1, <3>1 DEF RowRight
        <4>2. QED
          BY <3>1, <4>1, RowKept DEF RowRight, Same
      <3>3. r.call \notin unlogged'
        BY <1>2, <3>1, LogStep DEF RowRight
      <3>4. QED
        BY <3>1, <3>2, <3>3 DEF RowRight, Same
    <2>2. CASE r \notin audit
      <3>1. PICK p \in Calls : Audit(p)
        BY <2>2, LogStep
      <3>2. r = RowOf(p) /\ unlogged' = unlogged /\ p \notin unlogged
        BY <1>0, <1>2, <2>2, <3>1 DEF AuditInv
      <3>3. r.call = p
        BY <3>2 DEF RowOf
      <3>4. QED
        BY <1>2, <3>1, <3>2, <3>3 DEF RowRight
    <2>3. QED
      BY <2>1, <2>2
  <1>4. ASSUME NEW q \in unlogged' PROVE q \in Calls /\ pc'[q] = "done"
    BY <1>0, <1>1, <1>2, <1>4, LogStep DEF AuditInv, Same
  <1>5. ASSUME NEW q \in Calls, caller'[q] # NULL, pc'[q] = "done", ~Malformed(q)
        PROVE  q \in unlogged' \/ RowOf(q)' \in audit'
    <2>1. CASE pc[q] = "done"
      <3>1. Same(q)
        BY <1>1, <2>1
      <3>2. RowOf(q)' = RowOf(q)
        BY <1>5, <3>1, RowKept DEF Same
      <3>3. audit \subseteq audit' /\ unlogged \subseteq unlogged'
        BY <1>2, LogStep
      <3>4. QED
        BY <1>0, <1>5, <2>1, <3>1, <3>2, <3>3 DEF AuditInv, Same
    <2>2. CASE pc[q] # "done"
      <3>1. Audit(q)
        BY <1>5, <2>2, Moved, Answered DEF Same, Dies
      <3>2. QED
        BY <1>2, <3>1
    <2>3. QED
      BY <2>1, <2>2
  <1>6. \A q \in Calls : Malformed(q)' = Malformed(q)
    BY <1>0 DEF Malformed, Call
  <1>7. QED
    BY <1>3, <1>4, <1>5, <1>6 DEF AuditInv

\* Every step of the system keeps the inductive invariant.
LEMMA StepInv == ASSUME AuthInv, [Next]_vars PROVE AuthInv'
  <1>1. TokenInv'
    BY TokensStep DEF TokenInv, TokenMoved
  <1>2. QED
    BY <1>1, TypesStep, CallerStep, ListStep, AuditStep DEF AuthInv

\* AuthInv is an invariant of the specification.
LEMMA Invariance == Spec => []AuthInv
  <1>1. AuthInv /\ [Next]_vars => AuthInv'
    BY StepInv
  <1>2. QED
    BY <1>1, InitInv, PTL DEF Spec
----------------------------------------------------------------------------
(* Revocation is final (tokens.go:67-68, :178-180): whatever the number of *)
(* requests in flight, the row of a revoked token does not change any more *)
(* and no request is authenticated with it.                                *)
THEOREM RevocationIsFinal == Spec => RevokedStaysDead
  <1>1. ASSUME AuthInv, [Next]_vars, NEW t \in Tokens, tokens[t].revoked
        PROVE  tokens'[t] = tokens[t] /\ \A p \in Calls : caller[p] # t => caller'[p] # t
    <2>0. Types
      BY <1>1 DEF AuthInv
    <2>1. tokens'[t] = tokens[t]
      BY <1>1, TokensStep DEF TokenMoved
    <2>2. ASSUME NEW p \in Calls, caller[p] # t PROVE caller'[p] # t
      <3>1. CASE Authenticate(p)
        BY <1>1, <2>0, <2>2, <3>1 DEF Types, Authenticate, FindTokenByHash
      <3>2. ASSUME Step(p), ~Authenticate(p) PROVE caller' = caller
        BY <3>2 DEF Step, Stamp, TouchTokenSeen, BadRequest, IssueToken, RevokeToken, ListTokens, ListAccounts,
           Login, ResyLogin, UpsertSession, Bind, Audit, runLogin, runUserSeed, SeedOperator, Backfill, LoadSession
      <3>3. QED
        BY <1>1, <2>2, <3>1, <3>2, Moved DEF Same, Dies
    <2>3. QED
      BY <2>1, <2>2
  <1>2. AuthInv /\ [Next]_vars =>
          [\A t \in Tokens : tokens[t].revoked =>
             /\ tokens'[t] = tokens[t]
             /\ \A p \in Calls : caller[p] # t => caller'[p] # t]_vars
    BY <1>1
  <1>3. QED
    BY <1>2, Invariance, PTL DEF Spec, RevokedStaysDead

(* An account keeps its owner (accounts.go:85-104, seed.go:112-120), and   *)
(* every listing shows accounts of the request's own user only, for any    *)
(* interleaving of logins, binds and seeds.                                *)
THEOREM OwnersKeepAccounts == Spec => AccountKeepsOwner
  <1>1. ASSUME AuthInv, [Next]_vars
        PROVE  /\ \A a \in AccountIds : accounts[a] \in Users => accounts'[a] = accounts[a]
               /\ \A p \in Calls : \A a \in listed'[p] \cap AccountIds : accounts'[a] = CallerUser(p)'
    BY <1>1, AccountsStep, ListStep DEF ListInv, ListOf
  <1>2. AuthInv /\ [Next]_vars =>
          [/\ \A a \in AccountIds : accounts[a] \in Users => accounts'[a] = accounts[a]
           /\ \A p \in Calls : \A a \in listed'[p] \cap AccountIds : accounts'[a] = CallerUser(p)']_vars
    BY <1>1
  <1>3. QED
    BY <1>2, Invariance, PTL DEF Spec, AccountKeepsOwner

(* The audit log tells what happened (store/audit.go:7-8,                  *)
(* service/audit.go:10-12): one row for each answered request that reached *)
(* a verb, unless a warning tells of it, of its user, with its outcome and *)
(* the code of what the client unpacks: "internal" for an error of Resy    *)
(* and for one without a sentinel.                                         *)
THEOREM AuditIsTrue == Spec => []AuditTellsOutcome
  <1>1. ASSUME AuthInv PROVE AuditTellsOutcome
    <2>0. AuditInv /\ Types
      BY <1>1 DEF AuthInv
    <2>1. ASSUME NEW r \in audit
          PROVE  /\ answer[r.call] # "none" /\ r.ok = (answer[r.call] = "ok")
                 /\ r.user = CallerUser(r.call)
                 /\ r.code = errorCodeFor(Received(answer[r.call]))
      <3>1. RowRight(r) /\ answer[r.call] \in Answers
        BY <2>0, <2>1 DEF AuditInv, RowRight, Types
      <3>2. r.ok = (answer[r.call] = "ok") /\ r.user = CallerUser(r.call) /\ r.code = errorCodeFor(answer[r.call])
        BY <3>1 DEF RowRight, RowOf
      <3>3. QED
        BY <3>1, <3>2, WireAgrees DEF RowRight
    <2>2. ASSUME NEW p \in Calls, caller[p] # NULL, pc[p] = "done", ~Malformed(p)
          PROVE  Cardinality({r \in audit : r.call = p}) = (IF p \in unlogged THEN 0 ELSE 1)
      <3>. DEFINE S == {r \in audit : r.call = p}
      <3>1. CASE p \in unlogged
        <4>1. S = {}
          BY <2>0, <3>1 DEF AuditInv, RowRight
        <4>. HIDE DEF S
        <4>2. QED
          BY <3>1, <4>1, FS_EmptySet DEF S
      <3>2. CASE p \notin unlogged
        <4>1. RowOf(p) \in audit /\ RowOf(p).call = p
          BY <2>0, <2>2, <3>2 DEF AuditInv, RowOf
        <4>2. \A r \in S : r = RowOf(p)
          BY <2>0 DEF AuditInv, RowRight
        <4>3. S = {RowOf(p)}
          BY <4>1, <4>2
        <4>. HIDE DEF S
        <4>4. Cardinality(S) = 1
          BY <4>3, FS_Singleton
        <4>5. QED
          BY <3>2, <4>4 DEF S
      <3>3. QED
        BY <3>1, <3>2
    <2>3. QED
      BY <2>1, <2>2 DEF AuditTellsOutcome
  <1>2. QED
    BY <1>1, Invariance, PTL
=============================================================================
