-------------------------------- MODULE Auth -------------------------------
(***************************************************************************)
(* Who may call the daemon and on behalf of which Resy account: the bearer *)
(* tokens and the middleware that checks them, the verbs of the service    *)
(* that issue, revoke and list tokens and log an account in, the audit log *)
(* they write, and the accounts and sessions rows underneath, which the    *)
(* commands `login` and `user seed` of other processes change too.         *)
(*                                                                         *)
(* A call is a request to the daemon or one of those commands.  An account *)
(* id is <<"imported", email>> (migration 0002) or <<"legacy", email>>     *)
(* (UpsertSession).  A session token is the number of the login it is of.  *)
(***************************************************************************)
EXTENDS Wire, FiniteSets

CONSTANTS
  Calls,          \* calls, by number
  Scenarios,      \* what each call is: functions from Calls to records
  Users,          \* user ids; a user is seeded under the email of its number
  Emails,         \* Resy emails
  Tokens,         \* token rows: the present ones and the ones IssueToken adds
  TouchInterval,  \* touchInterval
  MaxNow,         \* bound on the clock
  Faults          \* "store": a statement fails, "crash": the daemon dies once

ASSUME CallsAssumption == Calls \subseteq Nat /\ Tokens \subseteq Nat \ {0}
ASSUME UsersAssumption == Users \subseteq Nat \ {0} /\ Emails \subseteq Nat \ {0}
ASSUME TouchAssumption == TouchInterval \in Nat /\ MaxNow \in Nat
ASSUME FaultsAssumption == Faults \subseteq {"store", "crash"}

NULL   == 0      \* user_id IS NULL
Absent == -1     \* no such row
Remote == {"issue", "revoke", "tokens", "login", "accounts"}

\* A user is seeded under its own email.
ASSUME ScenariosAssumption ==
  \A s \in Scenarios :
    /\ DOMAIN s = Calls
    /\ \A p \in Calls : /\ s[p].kind \in Remote \cup {"command", "seed", "load"}
                        /\ s[p].kind = "seed" => s[p].email \in Users \cup {NULL}

VARIABLES
  scenario,   \* what each call is
  users,      \* users rows
  operator,   \* the one with invited_by IS NULL, or NULL
  accounts,   \* account id -> user_id, NULL or Absent
  sessions,   \* account id -> jwt, or Absent
  expired,    \* the jwts whose exp has passed
  tokens,     \* token -> [user, scope, revoked, seen], user = Absent: no row
  lastTouch,  \* AuthMiddleware.lastTouch
  audit,      \* audit_events rows: [call, user, ok, code]
  unlogged,   \* the calls whose row could not be written: a warning tells
  up,         \* the daemon runs
  now,        \* the clock
  pc,         \* of each call
  caller,     \* token it was authenticated with
  at,         \* the time its middleware read
  jwt,        \* session token Resy gave it
  listed,     \* the rows a listing returned
  answer      \* what it returned: "ok" or an error

rows == <<users, operator, accounts, sessions, tokens>>
call == <<pc, caller, at, jwt, listed, answer>>
env  == <<scenario, up, now, expired>>
log  == <<audit, unlogged>>
vars == <<rows, lastTouch, log, call, env>>

\* What the verbs and the commands return.
Answers == {"none", "ok", "other", "errNoSession", "ErrUnauthorized", "ErrForbidden",
            "ErrInvalidArgument", "ErrNotFound", "ErrUpstreamUnavailable", "ErrAuthExpired"}

AccountIds == {"imported", "legacy"} \X Emails
Call(p)    == scenario[p]
Live(p)    == Call(p).kind \in Remote => up

TypeOK ==
  /\ scenario \in Scenarios
  /\ users \subseteq Users /\ operator \in users \cup {NULL}
  /\ accounts \in [AccountIds -> users \cup {NULL, Absent}]
  /\ sessions \in [AccountIds -> Calls \cup {NULL, Absent}]
  /\ \A a \in AccountIds : sessions[a] # Absent => accounts[a] # Absent
  /\ expired \subseteq Calls \cup {NULL}
  /\ tokens \in [Tokens -> [user : users \cup {Absent}, scope : {"user", "operator"},
                            revoked : BOOLEAN, seen : {Absent} \cup 0..MaxNow]]
  /\ lastTouch \in [Tokens -> {Absent} \cup 0..MaxNow]
  /\ audit \subseteq [call : Calls, user : Users, ok : BOOLEAN, code : STRING] /\ unlogged \subseteq Calls
  /\ up \in BOOLEAN /\ now \in 0..MaxNow
  /\ pc \in [Calls -> {"start", "stamp", "touch", "verb", "resy", "upsert", "bind", "seed",
                       "lookup", "backfill", "audit", "done", "lost"}]
  /\ caller \in [Calls -> Tokens \cup {NULL}] /\ at \in [Calls -> 0..MaxNow]
  /\ jwt \in [Calls -> Calls \cup {NULL}]
  /\ listed \in [Calls -> SUBSET (({"token"} \X Tokens) \cup AccountIds)]
  /\ answer \in [Calls -> Answers]

NoToken == [user |-> Absent, scope |-> "user", revoked |-> FALSE, seen |-> Absent]

(* An operator, a tenant created by hand in the database, a token of each, *)
(* and the account of a v1 user with its session, not yet bound.  Or a new *)
(* database with no user.                                                  *)
Init ==
  /\ scenario \in Scenarios
  /\ \/ /\ users = Users /\ operator = CHOOSE u \in Users : \A v \in Users : u <= v
        /\ accounts \in [AccountIds -> {NULL, Absent}]
        /\ \A a \in AccountIds : a[1] = "legacy" => accounts[a] = Absent
     \/ users = {} /\ operator = NULL /\ accounts = [a \in AccountIds |-> Absent]
  /\ sessions = [a \in AccountIds |-> IF accounts[a] = NULL THEN NULL ELSE Absent]
  /\ expired = {NULL}
  /\ tokens = [t \in Tokens |-> IF t \in users
                 THEN [NoToken EXCEPT !.user = t, !.scope = IF t = operator THEN "operator" ELSE "user"]
                 ELSE NoToken]
  /\ lastTouch = [t \in Tokens |-> Absent] /\ audit = {} /\ unlogged = {} /\ up = TRUE /\ now = 0
  /\ pc = [p \in Calls |-> "start"] /\ caller = [p \in Calls |-> NULL]
  /\ at = [p \in Calls |-> 0] /\ jwt = [p \in Calls |-> NULL]
  /\ listed = [p \in Calls |-> {}] /\ answer = [p \in Calls |-> "none"]

Goto(p, l)      == pc' = [pc EXCEPT ![p] = l]
Return(p, l, a) == Goto(p, l) /\ answer' = [answer EXCEPT ![p] = a]

\* A verb returns: its deferred audit runs before the caller sees the answer.
Verb(p, a) == Return(p, "audit", a)
---------------------------------------------------------------------------
(* AuthMiddleware.Wrap *)

\* Mutant: the query forgets revoked_at IS NULL.
FindRevokedToo(t) == t \in Tokens /\ tokens[t].user # Absent

\* FindTokenByHash: a row that is not revoked.
FindTokenByHash(t) == t \in Tokens /\ tokens[t].user # Absent /\ ~tokens[t].revoked

\* parseBearer: the header is present, of the Bearer scheme and not empty (0).
parseBearer(p) == Call(p).token # NULL

\* No token, an unknown one and a store that fails are all 401.  The clock is
\* read right after.
Authenticate(p) ==
  /\ pc[p] = "start" /\ Call(p).kind \in Remote /\ up
  /\ \/ /\ parseBearer(p) /\ FindTokenByHash(Call(p).token)
        /\ caller' = [caller EXCEPT ![p] = Call(p).token] /\ at' = [at EXCEPT ![p] = now]
        /\ Goto(p, "stamp") /\ UNCHANGED answer
     \/ /\ ~parseBearer(p) \/ ~FindTokenByHash(Call(p).token) \/ "store" \in Faults
        /\ Return(p, "done", "ErrUnauthorized") /\ UNCHANGED <<caller, at>>
  /\ UNCHANGED <<rows, lastTouch, log, jwt, listed, env>>

\* shouldTouch, under touchMu.
Stamp(p) ==
  /\ pc[p] = "stamp" /\ up
  /\ LET t == caller[p] IN
     IF lastTouch[t] # Absent /\ at[p] - lastTouch[t] < TouchInterval
       THEN Goto(p, "verb") /\ UNCHANGED lastTouch
       ELSE Goto(p, "touch") /\ lastTouch' = [lastTouch EXCEPT ![t] = at[p]]
  /\ UNCHANGED <<rows, log, caller, at, jwt, listed, answer, env>>

\* TouchTokenSeen, WHERE revoked_at IS NULL; a failure is only logged.
TouchTokenSeen(p) ==
  /\ pc[p] = "touch" /\ up
  /\ Goto(p, "verb")
  /\ \/ tokens' = IF tokens[caller[p]].revoked THEN tokens
                  ELSE [tokens EXCEPT ![caller[p]].seen = at[p]]
     \/ "store" \in Faults /\ UNCHANGED tokens
  /\ UNCHANGED <<users, operator, accounts, sessions, lastTouch, log, caller, at, jwt, listed, answer, env>>
---------------------------------------------------------------------------
(* The handlers and the verbs *)

\* ContextWithCaller: user and scope as the lookup returned them.
CallerUser(p) == tokens[caller[p]].user
Operator(p)   == tokens[caller[p]].scope = "operator"

\* The handler refuses a body it cannot decode, and a login without an email,
\* before the service is called.
Malformed(p) == \/ Call(p).kind = "issue" /\ Call(p).scope = "malformed"
                \/ Call(p).kind = "login" /\ Call(p).email = NULL
BadRequest(p) ==
  /\ pc[p] = "verb" /\ up /\ Malformed(p)
  /\ Return(p, "done", "ErrInvalidArgument")
  /\ UNCHANGED <<rows, lastTouch, log, caller, at, jwt, listed, env>>

\* The verb of this kind runs, its handler has decoded the request.
Enters(p, kind) == pc[p] = "verb" /\ Call(p).kind = kind /\ up /\ ~Malformed(p)

\* InsertToken under a fresh id, which the tables' CHECK on scopes accepts.
InsertToken(user, scope) ==
  \E t \in Tokens :
    /\ tokens[t].user = Absent /\ \A s \in Tokens : tokens[s].user = Absent => t <= s
    /\ tokens' = [tokens EXCEPT ![t] = [NoToken EXCEPT !.user = user, !.scope = scope]]

\* IssueToken: a token of the caller's own user.
IssueToken(p) ==
  /\ Enters(p, "issue")
  /\ \/ ~Operator(p) /\ Verb(p, "ErrForbidden") /\ UNCHANGED tokens
     \/ /\ Operator(p) /\ Call(p).scope \notin {"user", "operator"}
        /\ Verb(p, "ErrInvalidArgument") /\ UNCHANGED tokens
     \/ /\ Operator(p) /\ Call(p).scope \in {"user", "operator"}
        /\ InsertToken(CallerUser(p), Call(p).scope) /\ Verb(p, "ok")
     \/ "store" \in Faults /\ Operator(p) /\ Verb(p, "other") /\ UNCHANGED tokens
  /\ UNCHANGED <<users, operator, accounts, sessions, lastTouch, log, caller, at, jwt, listed, env>>

\* The rows RevokeToken's UPDATE matches: at most the one of this id, if it is
\* the user's and live.
Revocable(user, t) == {r \in Tokens : r = t /\ FindTokenByHash(r) /\ tokens[r].user = user}

\* RevokeToken: no row updated is ErrNotFound.
RevokeToken(p) ==
  /\ Enters(p, "revoke")
  /\ LET hit == Revocable(CallerUser(p), Call(p).target) IN
     \/ ~Operator(p) /\ Verb(p, "ErrForbidden") /\ UNCHANGED tokens
     \/ \E t \in hit : Operator(p) /\ tokens' = [tokens EXCEPT ![t].revoked = TRUE] /\ Verb(p, "ok")
     \/ Operator(p) /\ hit = {} /\ Verb(p, "ErrNotFound") /\ UNCHANGED tokens
     \/ "store" \in Faults /\ Operator(p) /\ Verb(p, "other") /\ UNCHANGED tokens
  /\ UNCHANGED <<users, operator, accounts, sessions, lastTouch, log, caller, at, jwt, listed, env>>

\* Mutant: the audit is not deferred, and a refused listing leaves no row.
ListTokensAuditLate(p) ==
  /\ Enters(p, "tokens")
  /\ \/ ~Operator(p) /\ Return(p, "done", "ErrForbidden")
     \/ Operator(p) /\ Verb(p, "ok")
  /\ UNCHANGED <<rows, lastTouch, log, caller, at, jwt, listed, env>>

\* ListTokensForUser: the revoked ones too.
ListTokensForUser(user) == {<<"token", t>> : t \in {s \in Tokens : tokens[s].user = user}}

\* ListTokens: operator scope, the tokens of the caller's user.
ListTokens(p) ==
  /\ Enters(p, "tokens")
  /\ \/ ~Operator(p) /\ Verb(p, "ErrForbidden") /\ UNCHANGED listed
     \/ /\ Operator(p) /\ Verb(p, "ok")
        /\ listed' = [listed EXCEPT ![p] = ListTokensForUser(CallerUser(p))]
     \/ Operator(p) /\ "store" \in Faults /\ Verb(p, "other") /\ UNCHANGED listed
  /\ UNCHANGED <<rows, lastTouch, log, caller, at, jwt, env>>

ListAccountsForUser(user) == {a \in AccountIds : accounts[a] = user}

\* ListAccounts: any scope.
ListAccounts(p) ==
  /\ Enters(p, "accounts")
  /\ \/ /\ Verb(p, "ok")
        /\ listed' = [listed EXCEPT ![p] = ListAccountsForUser(CallerUser(p))]
     \/ "store" \in Faults /\ Verb(p, "other") /\ UNCHANGED listed
  /\ UNCHANGED <<rows, lastTouch, log, caller, at, jwt, env>>

\* Where a login goes back to: the verb's audit, or the prompt of the command.
Back(p) == IF Call(p).kind = "login" THEN "audit" ELSE "done"

\* The verb Login calls the provider.
Login(p) ==
  /\ Enters(p, "login") /\ Goto(p, "resy")
  /\ UNCHANGED <<rows, lastTouch, log, caller, at, jwt, listed, answer, env>>

\* The command `login`: an empty email at the prompt ends it.
runLogin(p) ==
  /\ pc[p] = "start" /\ Call(p).kind = "command"
  /\ IF Call(p).email = NULL THEN Return(p, "done", "other") ELSE Goto(p, "resy") /\ UNCHANGED answer
  /\ UNCHANGED <<rows, lastTouch, log, caller, at, jwt, listed, env>>

\* POST /3/auth/password: Resy accepts, refuses the credentials (401), or asks
\* for a second factor or fails.  CompleteMFA is not implemented, so that ends
\* the command too.
ResyLogin(p) ==
  /\ pc[p] = "resy" /\ Live(p)
  /\ \/ Goto(p, "upsert") /\ jwt' = [jwt EXCEPT ![p] = p] /\ UNCHANGED answer
     \/ \E e \in {"ErrAuthExpired", "other"} : Return(p, Back(p), e) /\ UNCHANGED jwt
  /\ UNCHANGED <<rows, lastTouch, log, caller, at, listed, env>>

\* UpsertSession: the session goes to the unbound row of the email; where there
\* is none a row is inserted, whose id is taken when that row is bound already.
UpsertSession(p) ==
  /\ pc[p] = "upsert" /\ Live(p)
  /\ LET e     == Call(p).email
         free  == {a \in AccountIds : a[2] = e /\ accounts[a] = NULL}
         fresh == <<"legacy", e>>
     IN \/ /\ \E a \in (IF free # {} THEN free ELSE {fresh}) :
                /\ free = {} => accounts[a] = Absent
                /\ accounts' = [accounts EXCEPT ![a] = NULL]
                /\ sessions' = [sessions EXCEPT ![a] = jwt[p]]
           /\ IF Call(p).kind = "login" THEN Goto(p, "bind") /\ UNCHANGED answer
                                        ELSE Return(p, "done", "ok")
        \/ /\ (free = {} /\ accounts[fresh] # Absent) \/ "store" \in Faults
           /\ Return(p, Back(p), "other") /\ UNCHANGED <<accounts, sessions>>
  /\ UNCHANGED <<users, operator, tokens, lastTouch, log, caller, at, jwt, listed, env>>

\* Mutant: the claim forgets user_id IS NULL.
BindAnyRow(p) ==
  /\ pc[p] = "bind" /\ up /\ Verb(p, "ok")
  /\ accounts' = [a \in AccountIds |->
       IF a[2] = Call(p).email /\ accounts[a] # Absent THEN CallerUser(p) ELSE accounts[a]]
  /\ UNCHANGED <<users, operator, sessions, tokens, lastTouch, log, caller, at, jwt, listed, env>>

\* BindLegacyAccountToUser: the row the user has, or the unbound one, or none
\* (which the verb reports as ErrUpstreamUnavailable).
Bind(p) ==
  /\ pc[p] = "bind" /\ up
  /\ LET e    == Call(p).email
         own  == {a \in AccountIds : a[2] = e /\ accounts[a] = CallerUser(p)}
         free == {a \in AccountIds : a[2] = e /\ accounts[a] = NULL}
     IN \/ own # {} /\ Verb(p, "ok") /\ UNCHANGED accounts
        \/ /\ own = {} /\ free # {} /\ Verb(p, "ok")
           /\ accounts' = [a \in AccountIds |-> IF a \in free THEN CallerUser(p) ELSE accounts[a]]
        \/ own = {} /\ free = {} /\ Verb(p, "ErrUpstreamUnavailable") /\ UNCHANGED accounts
        \/ "store" \in Faults /\ Verb(p, "other") /\ UNCHANGED accounts
  /\ UNCHANGED <<users, operator, sessions, tokens, lastTouch, log, caller, at, jwt, listed, env>>

\* WriteAuditEvent: one row of the actor with the outcome.
WriteAuditEvent(p) ==
  audit' = audit \cup {[call |-> p, user |-> CallerUser(p), ok |-> answer[p] = "ok",
                        code |-> errorCodeFor(answer[p])]}

\* Standard.audit: a failure is only logged.
Audit(p) ==
  /\ pc[p] = "audit" /\ up /\ Goto(p, "done")
  /\ \/ WriteAuditEvent(p) /\ UNCHANGED unlogged
     \/ "store" \in Faults /\ unlogged' = unlogged \cup {p} /\ UNCHANGED audit
  /\ UNCHANGED <<rows, lastTouch, caller, at, jwt, listed, answer, env>>
---------------------------------------------------------------------------
(* Commands that run beside the daemon on the same database *)

\* The command `user seed`: an email is required.
runUserSeed(p) ==
  /\ pc[p] = "start" /\ Call(p).kind = "seed"
  /\ IF Call(p).email = NULL THEN Return(p, "done", "other") ELSE Goto(p, "seed") /\ UNCHANGED answer
  /\ UNCHANGED <<rows, lastTouch, log, caller, at, jwt, listed, env>>

\* SeedOperator: INSERT OR IGNORE, which the one-operator index also silences,
\* then SELECT by email; another seed may come between the two.
SeedOperator(p) ==
  /\ LET u == Call(p).email IN
     \/ /\ pc[p] = "seed" /\ Goto(p, "lookup") /\ UNCHANGED answer
        /\ IF operator = NULL THEN users' = users \cup {u} /\ operator' = u
                              ELSE UNCHANGED <<users, operator>>
     \/ pc[p] = "lookup" /\ u \in users /\ Goto(p, "backfill") /\ UNCHANGED <<answer, users, operator>>
     \/ /\ (pc[p] = "lookup" /\ u \notin users) \/ (pc[p] \in {"seed", "lookup"} /\ "store" \in Faults)
        /\ Return(p, "done", "other") /\ UNCHANGED <<users, operator>>
  /\ UNCHANGED <<accounts, sessions, tokens, lastTouch, log, caller, at, jwt, listed, env>>

\* BackfillOperatorAccounts: every unbound row, or none when the user has
\* a row of one of their emails already (UNIQUE (user_id, resy_email)).
Backfill(p) ==
  /\ pc[p] = "backfill"
  /\ LET u     == Call(p).email
         free  == {a \in AccountIds : accounts[a] = NULL}
         clash == \E a \in free, b \in AccountIds : a[2] = b[2] /\ a # b
                                                   /\ accounts[b] \in {u, NULL}
     IN \/ /\ ~clash /\ Return(p, "done", "ok")
           /\ accounts' = [a \in AccountIds |-> IF a \in free THEN u ELSE accounts[a]]
        \/ (clash \/ "store" \in Faults) /\ Return(p, "done", "other") /\ UNCHANGED accounts
  /\ UNCHANGED <<users, operator, sessions, tokens, lastTouch, log, caller, at, jwt, listed, env>>

\* GetSession: whichever row of the email the join yields first.
GetSession(email) == {sessions[a] : a \in {b \in AccountIds : b[2] = email}} \ {Absent}

\* loadSessionForSnipe: a missing and an expired session both ask for a login.
LoadSession(p) ==
  /\ pc[p] = "start" /\ Call(p).kind = "load"
  /\ \/ GetSession(Call(p).email) = {} /\ Return(p, "done", "errNoSession") /\ UNCHANGED jwt
     \/ \E j \in GetSession(Call(p).email) :
          /\ jwt' = [jwt EXCEPT ![p] = j]
          /\ Return(p, "done", IF j \in expired THEN "errNoSession" ELSE "ok")
  /\ UNCHANGED <<rows, lastTouch, log, caller, at, listed, env>>
---------------------------------------------------------------------------
(* Time and failures *)
Tick == now < MaxNow /\ now' = now + 1 /\ UNCHANGED <<rows, lastTouch, log, call, scenario, up, expired>>

Expire(j) == j \notin expired /\ (\E a \in AccountIds : sessions[a] = j) /\ expired' = expired \cup {j}
             /\ UNCHANGED <<rows, lastTouch, log, call, scenario, up, now>>

\* The daemon dies: its requests get no answer, lastTouch is gone.
Crash ==
  /\ "crash" \in Faults /\ up /\ up' = FALSE
  /\ pc' = [p \in Calls |-> IF Call(p).kind \in Remote /\ pc[p] \notin {"start", "done"}
                            THEN "lost" ELSE pc[p]]
  /\ lastTouch' = [t \in Tokens |-> Absent]
  /\ UNCHANGED <<rows, log, caller, at, jwt, listed, answer, scenario, now, expired>>

Restart == ~up /\ up' = TRUE /\ UNCHANGED <<rows, lastTouch, log, call, scenario, now, expired>>

Step(p) ==
  \/ Authenticate(p) \/ Stamp(p) \/ TouchTokenSeen(p)
  \/ BadRequest(p) \/ IssueToken(p) \/ RevokeToken(p) \/ ListTokens(p) \/ ListAccounts(p)
  \/ Login(p) \/ ResyLogin(p) \/ UpsertSession(p) \/ Bind(p) \/ Audit(p)
  \/ runLogin(p) \/ runUserSeed(p) \/ SeedOperator(p) \/ Backfill(p) \/ LoadSession(p)

Next ==
  \/ \E p \in Calls : Step(p)
  \/ Tick \/ (\E j \in Calls : Expire(j)) \/ Crash \/ Restart

Spec == Init /\ [][Next]_vars
---------------------------------------------------------------------------
(* Revocation is final (tokens.go:67-68, :178-180): no later request is    *)
(* authenticated with the token, however the revoking request ends, and    *)
(* no request that was already past the lookup moves its last_seen.        *)
RevokedStaysDead ==
  [][\A t \in Tokens : tokens[t].revoked =>
       /\ tokens'[t] = tokens[t]
       /\ \A p \in Calls : caller[p] # t => caller'[p] # t]_vars

(* An account keeps its owner (accounts.go:85-104, seed.go:112-120):       *)
(* however the logins of two users and `user seed` interleave, a bound     *)
(* account is not rebound, and no listing shows it to another user.        *)
AccountKeepsOwner ==
  [][/\ \A a \in AccountIds : accounts[a] \in Users => accounts'[a] = accounts[a]
     /\ \A p \in Calls : \A a \in listed'[p] \cap AccountIds : accounts'[a] = CallerUser(p)']_vars

(* The audit log tells what happened (audit.go of the store:7-8, audit.go  *)
(* of the service:10-12): a request that reached a verb and was answered   *)
(* left exactly one row, its user's, with its outcome, unless that write   *)
(* failed and was warned of; and the row's code is the code of what the    *)
(* client unpacks from the response, where an error of Resy                *)
(* (ErrAuthExpired) and one that has no sentinel count as "internal".      *)
(* That a failed write leaves the answer as it is, is what audit.go:60-63  *)
(* says; service-layer.md:402-406 wants ErrInternal instead.               *)
AuditTellsOutcome ==
  /\ \A r \in audit : /\ answer[r.call] # "none" /\ r.ok = (answer[r.call] = "ok")
                      /\ r.user = CallerUser(r.call)
                      /\ r.code = errorCodeFor(Received(answer[r.call]))
  /\ \A p \in Calls :
       caller[p] # NULL /\ pc[p] = "done" /\ ~Malformed(p) =>
         Cardinality({r \in audit : r.call = p}) = (IF p \in unlogged THEN 0 ELSE 1)
=============================================================================
