------------------------------- MODULE Daemon ------------------------------
(***************************************************************************)
(* The processes that own the daemon's database: `serve` and               *)
(* `migrate-secrets`, from daemon.Boot (flock, open, schema migrations,    *)
(* secrets) over serving, rotating and migrating to the drained shutdown   *)
(* and Daemon.Close.  Each may fail at every step and die at every point.  *)
(*                                                                         *)
(* A key is what it is derived from: <<passphrase, salt>>.  A ciphertext   *)
(* is its key and its plaintext; a session token is a number, 0 is none.   *)
(***************************************************************************)
EXTENDS Integers, FiniteSets

CONSTANTS
  Procs,      \* processes, each is started at most once
  Scenarios,  \* how each is started: [kind, mode, insecure, prod, max]
  Accounts,
  Bound,      \* the accounts that have an owner (user_id is not NULL)
  MaxLogins,  \* number of logins (bound)
  Quiet,      \* TRUE: callers make no Seal while a Rotate runs
  Mistakes,   \* passphrases that somebody may enter instead of the operator's
  Faults      \* "crash", "store": a statement fails, "unlock": no passphrase

None == 0

ASSUME ProcsAssumption    == Procs \subseteq Nat \ {None}
ASSUME AccountsAssumption == Bound \subseteq Accounts /\ MaxLogins \in Nat
ASSUME FaultsAssumption   == Faults \subseteq {"crash", "store", "unlock"} /\ Quiet \in BOOLEAN
ASSUME MistakesAssumption == Mistakes \subseteq Nat \ {0}
ASSUME ScenariosAssumption ==
  \A s \in Scenarios : \A p \in Procs :
    /\ s[p].kind \in {"serve", "migrate", "dryrun"}
    /\ s[p].mode \in {"sealed", "insecure"}
    /\ s[p].insecure \in BOOLEAN /\ (s[p].insecure => s[p].kind = "serve")
    /\ s[p].prod \in BOOLEAN /\ s[p].max \in Nat \ {0}

VARIABLES
  cfg,       \* the scenario, never changes
  pc, exit,  \* of each process: where it is, how it ends
  lock,      \* who holds the flock on data.db.lock
  open,      \* the processes that have data.db open
  sealer,    \* of each process: [key, ver], the AEAD and version it seals with
  handlers,  \* requests that the process is serving
  \* the database
  schema,    \* highest applied migration
  meta,      \* secrets_meta: [salt, ver], ver 0 if there is no row
  secrets,   \* secrets rows: [key, ver, val], val 0 if there is none
  sess,      \* sessions.jwt
  \* the work in progress
  seal,      \* a Seal between encrypting and writing: [acct, key, val]
  rotate,    \* "no", "read", "committed", "swapped"
  snapshot,  \* the rows that Rotate has read
  pass,      \* the operator's passphrase: the one that is written down
  strays,    \* history: the others that were entered since the last rotation
  logins

procVars == <<pc, exit, lock, open, sealer, handlers>>
dbVars   == <<schema, meta, secrets, sess>>
workVars == <<seal, rotate, snapshot, pass, strays, logins>>
vars     == <<cfg, procVars, dbVars, workVars>>

NoKey    == <<0, 0>>
NoSealer == [key |-> NoKey, ver |-> 0]
NoRow    == [key |-> NoKey, ver |-> 0, val |-> 0]
NoRows   == [a \in Accounts |-> NoRow]
NoSeal   == [acct |-> None, key |-> NoKey, val |-> 0]

Booting  == {"lock", "open", "schema", "secrets", "meta", "unlock"}
Closing  == {"wipe", "closedb", "release"}

TypeOK ==
  /\ cfg \in Scenarios
  /\ pc \in [Procs -> {"off", "serve", "drain", "migrate", "over"} \cup Booting \cup Closing]
  /\ exit \in [Procs -> {"running", "ok", "failed", "died"}]
  /\ lock \in Procs \cup {None} /\ open \subseteq Procs
  /\ \A p \in Procs : sealer[p].ver \in 0..(MaxLogins + 3) /\ handlers[p] \in 0..1
  /\ schema = 0 \/ \E p \in Procs : schema \in 1..cfg[p].max
  /\ meta.ver \in Nat /\ meta.salt \in Procs \cup {None}
  /\ \A a \in Accounts :
       secrets[a].ver \in Nat /\ {secrets[a].val, sess[a]} \subseteq 0..MaxLogins
  /\ seal.acct \in Accounts \cup {None} /\ rotate \in {"no", "read", "committed", "swapped"}
  /\ strays \subseteq Mistakes /\ logins \in 0..MaxLogins

Init ==
  /\ cfg \in Scenarios
  /\ pc = [p \in Procs |-> "off"] /\ exit = [p \in Procs |-> "running"]
  /\ lock = None /\ open = {}
  /\ sealer = [p \in Procs |-> NoSealer] /\ handlers = [p \in Procs |-> 0]
  /\ schema = 0 /\ meta = [salt |-> None, ver |-> 0]
  /\ secrets = NoRows /\ sess = [a \in Accounts |-> 0]
  /\ seal = NoSeal /\ rotate = "no" /\ snapshot = NoRows
  /\ pass = 1 /\ strays = {} /\ logins = 0

----------------------------------------------------------------------------
(* Boot *)

Goto(p, l) == pc' = [pc EXCEPT ![p] = l]

\* Boot gives up: what it has taken is released by Close.
GiveUp(p) == Goto(p, "wipe") /\ exit' = [exit EXCEPT ![p] = "failed"]

StoreFails == "store" \in Faults

\* serve and migrate-secrets check their flags and the configuration first.
Start(p) ==
  /\ pc[p] = "off"
  /\ Goto(p, "lock")
  /\ UNCHANGED <<cfg, exit, lock, open, sealer, handlers, dbVars, workVars>>

\* acquireFileLock does not wait.
AcquireFileLock(p) ==
  /\ pc[p] = "lock"
  /\ \/ lock = None /\ lock' = p /\ Goto(p, "open") /\ UNCHANGED exit
     \/ /\ lock # None /\ Goto(p, "over")
        /\ exit' = [exit EXCEPT ![p] = "failed"] /\ UNCHANGED lock
  /\ UNCHANGED <<cfg, open, sealer, handlers, dbVars, workVars>>

\* store.Open; if it fails the lock is released on the way out.
OpenDB(p) ==
  /\ pc[p] = "open"
  /\ \/ open' = open \cup {p} /\ Goto(p, "schema") /\ UNCHANGED exit
     \/ StoreFails /\ GiveUp(p) /\ UNCHANGED open
  /\ UNCHANGED <<cfg, lock, sealer, handlers, dbVars, workVars>>

\* Migrate: a database of a newer binary is refused; every missing migration is
\* applied in a transaction of its own.
Migrate(p) ==
  /\ pc[p] = "schema"
  /\ \/ schema > cfg[p].max /\ GiveUp(p) /\ UNCHANGED schema
     \/ schema < cfg[p].max /\ schema' = schema + 1 /\ UNCHANGED <<pc, exit>>
     \/ schema = cfg[p].max /\ Goto(p, "secrets") /\ UNCHANGED <<exit, schema>>
     \/ StoreFails /\ GiveUp(p) /\ UNCHANGED schema
  /\ UNCHANGED <<cfg, lock, open, sealer, handlers, meta, secrets, sess, workVars>>

\* CheckMixedVersion: no secrets row may differ from the active version.
Mixed == meta.ver # 0 /\ \E a \in Accounts : secrets[a].val # 0 /\ secrets[a].ver # meta.ver

\* The dev-mode is refused in production and in a container.
devModeTripwire(p) == cfg[p].prod

\* The dev-mode needs its flag; any other mode needs rows of one version.
CheckSecrets(p) ==
  LET dev     == cfg[p].mode = "insecure" \/ cfg[p].insecure
      allowed == cfg[p].insecure /\ ~devModeTripwire(p)
  IN
  /\ pc[p] = "secrets"
  /\ \/ dev /\ allowed /\ Goto(p, "meta") /\ UNCHANGED exit
     \/ dev /\ ~allowed /\ GiveUp(p)
     \/ ~dev /\ ~Mixed /\ Goto(p, "meta") /\ UNCHANGED exit
     \/ ~dev /\ (Mixed \/ StoreFails) /\ GiveUp(p)
  /\ UNCHANGED <<cfg, lock, open, sealer, handlers, dbVars, workVars>>

\* Mutant: INSERT OR REPLACE.
LoadOrReplaceMeta(p) ==
  /\ pc[p] = "meta"
  /\ meta' = [salt |-> p, ver |-> 1]
  /\ Goto(p, IF cfg[p].insecure THEN "serve" ELSE "unlock") /\ UNCHANGED exit
  /\ UNCHANGED <<cfg, lock, open, sealer, handlers, schema, secrets, sess, workVars>>

\* LoadOrInitMeta: the first boot stores a fresh salt, later ones read it back.
\* Without encryption, which only serve has a flag for, there is no sealer.
LoadOrInitMeta(p) ==
  /\ pc[p] = "meta"
  /\ \/ /\ meta' = IF meta.ver = 0 THEN [salt |-> p, ver |-> 1] ELSE meta
        /\ Goto(p, IF cfg[p].insecure THEN "serve" ELSE "unlock") /\ UNCHANGED exit
     \/ StoreFails /\ GiveUp(p) /\ UNCHANGED meta
  /\ UNCHANGED <<cfg, lock, open, sealer, handlers, schema, secrets, sess, workVars>>

\* unlockSealer: the passphrase and the salt give the key.  No row is opened with
\* it, so a passphrase that is not the operator's unlocks like the right one.
UnlockSealer(p) ==
  /\ pc[p] = "unlock"
  /\ \/ \E q \in {pass} \cup Mistakes :
          /\ sealer' = [sealer EXCEPT ![p] = [key |-> <<q, meta.salt>>, ver |-> meta.ver]]
          /\ strays' = strays \cup ({q} \ {pass})
          /\ Goto(p, IF cfg[p].kind = "serve" THEN "serve" ELSE "migrate") /\ UNCHANGED exit
     \/ "unlock" \in Faults /\ GiveUp(p) /\ UNCHANGED <<sealer, strays>>
  /\ UNCHANGED <<cfg, lock, open, handlers, dbVars, seal, rotate, snapshot, pass, logins>>

----------------------------------------------------------------------------
(* The sealer *)

Opens(r, s) == r.key = s.key

\* Seal encrypts with the AEAD it finds, and writes with the version it finds
\* then: nothing holds a Rotate off between the two.
SealEncrypt(p, a) ==
  /\ pc[p] = "serve" /\ sealer[p] # NoSealer /\ seal = NoSeal
  /\ Quiet => rotate = "no"
  /\ a \in Bound /\ sess[a] # 0
  /\ seal' = [acct |-> a, key |-> sealer[p].key, val |-> sess[a]]
  /\ UNCHANGED <<cfg, procVars, dbVars, rotate, snapshot, pass, strays, logins>>

\* The upsert; it may fail, also because the database has been closed.
SealWrite(p) ==
  /\ sealer[p] # NoSealer /\ seal # NoSeal
  /\ \/ /\ p \in open
        /\ secrets' = [secrets EXCEPT ![seal.acct] =
                         [key |-> seal.key, ver |-> sealer[p].ver, val |-> seal.val]]
     \/ (StoreFails \/ p \notin open) /\ UNCHANGED secrets
  /\ seal' = NoSeal
  /\ UNCHANGED <<cfg, procVars, schema, meta, sess, rotate, snapshot, pass, strays, logins>>

\* Delete of an account's secret.
Delete(p, a) ==
  /\ pc[p] = "serve" /\ sealer[p] # NoSealer /\ secrets[a] # NoRow
  /\ secrets' = [secrets EXCEPT ![a] = NoRow]
  /\ UNCHANGED <<cfg, procVars, schema, meta, sess, workVars>>

\* Rotate begins its transaction and reads every row.  One that does not open
\* under the old key ends it.
RotateRead(p) ==
  /\ pc[p] = "serve" /\ sealer[p] # NoSealer
  /\ rotate = "no" /\ pass = 1    \* one rotation (bound)
  /\ Quiet => seal = NoSeal
  /\ \A a \in Accounts : secrets[a] # NoRow => Opens(secrets[a], sealer[p])
  /\ rotate' = "read" /\ snapshot' = secrets
  /\ UNCHANGED <<cfg, procVars, dbVars, seal, pass, strays, logins>>

\* The commit: every row under the new key and version, and the active version.
\* A row that was written since the read makes the transaction fail (its snapshot
\* is stale), and so may any statement and a database that has been closed; then
\* nothing has changed.
RotateCommit(p) ==
  /\ rotate = "read" /\ sealer[p] # NoSealer
  /\ LET ver == sealer[p].ver + 1
         new == <<pass + 1, meta.salt>>
     IN
     \/ /\ p \in open /\ secrets = snapshot
        /\ secrets' = [a \in Accounts |->
             IF secrets[a] = NoRow THEN NoRow
             ELSE [secrets[a] EXCEPT !.key = new, !.ver = ver]]
        /\ meta' = [meta EXCEPT !.ver = ver]
        /\ rotate' = "committed" /\ pass' = pass + 1 /\ strays' = {}
     \/ /\ p \notin open \/ secrets # snapshot \/ StoreFails
        /\ rotate' = "no" /\ UNCHANGED <<secrets, meta, pass, strays>>
  /\ snapshot' = NoRows
  /\ UNCHANGED <<cfg, procVars, schema, sess, seal, logins>>

\* The sealer's fields are replaced one after the other.
RotateSwap(p) ==
  /\ sealer[p] # NoSealer
  /\ \/ /\ rotate = "committed" /\ rotate' = "swapped"
        /\ sealer' = [sealer EXCEPT ![p].key = <<pass, meta.salt>>]
     \/ /\ rotate = "swapped" /\ rotate' = "no"
        /\ sealer' = [sealer EXCEPT ![p].ver = @ + 1]
  /\ UNCHANGED <<cfg, pc, exit, lock, open, handlers, dbVars, seal, snapshot, pass, strays, logins>>

\* Mutant: a token whose account has no owner is cleared like the others.
MigrateAllPlaintext(p) ==
  /\ pc[p] = "migrate"
  /\ Goto(p, "wipe") /\ exit' = [exit EXCEPT ![p] = "ok"]
  /\ secrets' = [a \in Accounts |->
       IF sess[a] # 0 /\ a \in Bound /\ secrets[a] = NoRow
       THEN [key |-> sealer[p].key, ver |-> sealer[p].ver, val |-> sess[a]] ELSE secrets[a]]
  /\ sess' = [a \in Accounts |-> 0]
  /\ UNCHANGED <<cfg, lock, open, sealer, handlers, schema, meta, workVars>>

\* MigratePlaintextSessions, one transaction: the token of an account with an
\* owner is sealed, unless there is a sealed one, and cleared either way.
MigratePlaintextSessions(p) ==
  LET eligible == {a \in Bound : sess[a] # 0} IN
  /\ pc[p] = "migrate"
  /\ Goto(p, "wipe")
  /\ \/ /\ cfg[p].kind = "migrate"
        /\ secrets' = [a \in Accounts |->
             IF a \in eligible /\ secrets[a] = NoRow
             THEN [key |-> sealer[p].key, ver |-> sealer[p].ver, val |-> sess[a]]
             ELSE secrets[a]]
        /\ sess' = [a \in Accounts |-> IF a \in eligible THEN 0 ELSE sess[a]]
        /\ exit' = [exit EXCEPT ![p] = "ok"]
     \/ cfg[p].kind = "dryrun" /\ exit' = [exit EXCEPT ![p] = "ok"] /\ UNCHANGED <<secrets, sess>>
     \/ StoreFails /\ exit' = [exit EXCEPT ![p] = "failed"] /\ UNCHANGED <<secrets, sess>>
  /\ UNCHANGED <<cfg, lock, open, sealer, handlers, schema, meta, workVars>>

----------------------------------------------------------------------------
(* Serving and shutting down *)

\* A request is accepted; a login among them stores the token in plain.
Accept(p) ==
  /\ pc[p] = "serve" /\ handlers[p] = 0
  /\ handlers' = [handlers EXCEPT ![p] = 1]
  /\ UNCHANGED <<cfg, pc, exit, lock, open, sealer, dbVars, workVars>>

Login(p, a) ==
  /\ handlers[p] = 1 /\ p \in open /\ logins < MaxLogins
  /\ logins' = logins + 1 /\ sess' = [sess EXCEPT ![a] = logins + 1]
  /\ UNCHANGED <<cfg, procVars, schema, meta, secrets, seal, rotate, snapshot, pass, strays>>

Done(p) ==
  /\ handlers[p] = 1 /\ pc[p] # "over"
  /\ handlers' = [handlers EXCEPT ![p] = 0]
  /\ UNCHANGED <<cfg, pc, exit, lock, open, sealer, dbVars, workVars>>

\* SIGTERM or SIGINT: the listener's context is cancelled.
Signal(p) ==
  /\ pc[p] = "serve"
  /\ Goto(p, "drain")
  /\ UNCHANGED <<cfg, exit, lock, open, sealer, handlers, dbVars, workVars>>

\* Mutant: Shutdown with a context that has no deadline.
DrainForever(p) ==
  /\ pc[p] = "drain" /\ handlers[p] = 0
  /\ Goto(p, "wipe") /\ exit' = [exit EXCEPT ![p] = "ok"]
  /\ UNCHANGED <<cfg, lock, open, sealer, handlers, dbVars, workVars>>

\* Shutdown returns when no request is left, or with an error at the deadline.
Drain(p) ==
  /\ pc[p] = "drain"
  /\ Goto(p, "wipe")
  /\ exit' = [exit EXCEPT ![p] = IF handlers[p] = 0 THEN "ok" ELSE "failed"]
  /\ UNCHANGED <<cfg, lock, open, sealer, handlers, dbVars, workVars>>

\* Mutant: the lock is released before the database is closed.
CloseLockFirst(p) ==
  /\ \/ pc[p] = "wipe" /\ lock' = None /\ Goto(p, "closedb") /\ UNCHANGED <<open, handlers, seal>>
     \/ /\ pc[p] = "closedb" /\ open' = open \ {p} /\ Goto(p, "over")
        /\ handlers' = [handlers EXCEPT ![p] = 0] /\ seal' = NoSeal /\ UNCHANGED lock
  /\ UNCHANGED <<cfg, exit, sealer, dbVars, rotate, snapshot, pass, strays, logins>>

\* Daemon.Close: the key is wiped (the AEAD keeps its own copy of it), the
\* database is closed, the lock released; then the process ends.
Close(p) ==
  /\ \/ pc[p] = "wipe" /\ Goto(p, "closedb") /\ UNCHANGED <<open, lock, handlers, sealer, seal, rotate, snapshot>>
     \/ /\ pc[p] = "closedb" /\ open' = open \ {p} /\ Goto(p, "release")
        /\ UNCHANGED <<lock, handlers, sealer, seal, rotate, snapshot>>
     \/ /\ pc[p] = "release" /\ lock' = None /\ Goto(p, "over")
        /\ handlers' = [handlers EXCEPT ![p] = 0] /\ UNCHANGED open
        /\ sealer' = [sealer EXCEPT ![p] = NoSealer]
        /\ seal' = NoSeal /\ rotate' = "no" /\ snapshot' = NoRows
  /\ UNCHANGED <<cfg, exit, dbVars, pass, strays, logins>>

\* The process dies: the system closes its files, which frees the lock, and
\* SQLite rolls back what was not committed.
Crash(p) ==
  /\ "crash" \in Faults /\ pc[p] \notin {"off", "over"}
  /\ Goto(p, "over") /\ exit' = [exit EXCEPT ![p] = "died"]
  /\ lock' = IF lock = p THEN None ELSE lock
  /\ open' = open \ {p}
  /\ sealer' = [sealer EXCEPT ![p] = NoSealer]
  /\ handlers' = [handlers EXCEPT ![p] = 0]
  /\ IF lock = p THEN seal' = NoSeal /\ rotate' = "no" /\ snapshot' = NoRows
     ELSE UNCHANGED <<seal, rotate, snapshot>>
  /\ UNCHANGED <<cfg, dbVars, pass, strays, logins>>

Step(p) ==
  \/ AcquireFileLock(p) \/ OpenDB(p) \/ Migrate(p) \/ CheckSecrets(p)
  \/ LoadOrInitMeta(p) \/ UnlockSealer(p)
  \/ MigratePlaintextSessions(p) \/ Drain(p) \/ Close(p)

Next ==
  \E p \in Procs :
    \/ Start(p) \/ Step(p) \/ Signal(p) \/ Crash(p)
    \/ Accept(p) \/ Done(p) \/ SealWrite(p)
    \/ RotateRead(p) \/ RotateCommit(p) \/ RotateSwap(p)
    \/ \E a \in Accounts : SealEncrypt(p, a) \/ Delete(p, a) \/ Login(p, a)

\* A process runs on by itself; requests need not end and nobody need send a signal.
Spec == Init /\ [][Next]_vars /\ \A p \in Procs : WF_vars(Step(p))

----------------------------------------------------------------------------
(* Properties *)

\* The keys of the passphrases that were in use since the last rotation.
EnteredKeys == {<<q, meta.salt>> : q \in {pass} \cup strays}

\* Every sealed row has the active version, so the next boot accepts it, and opens
\* under the operator's passphrase or under one that was entered by mistake since the
\* last rotation: through first boots, crashes in a rotation, failed commits and
\* migrations no row belongs to a salt that is gone or to an older key, and with no
\* mistake all rows open.  A rotation ends with every row under the new passphrase
\* (rotate.go:66-82, meta.go:36-84, boot.go:150-167, 230-270).  While a Rotate runs
\* nobody may Seal (Quiet).  secrets.md:364-367 and 532 say that boot opens a sentinel
\* row and refuses a wrong key; secrets.md:584-586 and the code do not.
RowsOpen ==
  /\ ~Mixed
  /\ \A a \in Accounts : secrets[a] # NoRow => secrets[a].key \in EnteredKeys

\* "rotateMu serializes Rotate against concurrent Seal/Open", "it blocks new Seal
\* calls until the COMMIT lands", "so callers don't see a half-rotated state"
\* (rotate.go:57-64): no row keeps another version than the active one.
NeverHalfRotated == ~Mixed

\* A plaintext token goes away only when a newer one takes its place or when its
\* account has a sealed one, which was there before or is this token, and which opens
\* under a passphrase that was in use: the operator's when nobody mistyped it.  A dry
\* run and a failed migration leave it (migrate.go:28-50, 104-207).  What a migration
\* under a mistyped passphrase has sealed is lost with the mistake: nothing opens a row
\* before the plaintext is cleared.
ClearedOnlyWhenSealed ==
  [][\A a \in Accounts : sess[a] # 0 /\ sess'[a] = 0 =>
       /\ secrets'[a] # NoRow /\ secrets'[a].key \in EnteredKeys'
       /\ secrets[a] = NoRow => secrets'[a].val = sess[a]]_vars

\* One owner: only the process that holds the lock has the database open, and a
\* process that ends without an error has served its requests before it closes
\* (boot.go:94-112, 207-235; serve.go:80-108; server.go:103-145).
OneOwner ==
  /\ open \subseteq {lock}
  /\ \A p \in Procs : exit[p] = "ok" => handlers[p] = 0

\* A shutdown comes to its end and frees the lock, with requests that never end
\* too: Run gives up at the drain deadline (server.go:129-143).
ShutdownEnds == \A p \in Procs : pc[p] = "drain" ~> lock # p
=============================================================================
