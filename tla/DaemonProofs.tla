---------------------------- MODULE DaemonProofs ----------------------------
(***************************************************************************)
(* Proofs about the owner of the database, its key and its sealed rows,    *)
(* for any number of processes, accounts and logins and any faults.        *)
(***************************************************************************)
EXTENDS Daemon, TLAPS

Pcs     == {"off", "serve", "drain", "migrate", "over"} \cup Booting \cup Closing
Held    == {"open", "schema", "secrets", "meta", "unlock", "serve", "migrate", "drain"} \cup Closing
Serving == {"serve", "drain"} \cup Closing
Keys    == Nat \X Nat
Rows    == [key : Keys, ver : Nat, val : Nat]

\* The types of the processes' state.
ProcTypes ==
  /\ cfg \in Scenarios
  /\ pc \in [Procs -> Pcs] /\ exit \in [Procs -> {"running", "ok", "failed", "died"}]
  /\ lock \in Procs \cup {None} /\ open \subseteq Procs
  /\ handlers \in [Procs -> 0..1]
  /\ sealer \in [Procs -> [key : Keys, ver : Nat]]

\* The types of the rows and of the work in progress.
DataTypes ==
  /\ meta \in [salt : Nat, ver : Nat]
  /\ secrets \in [Accounts -> Rows] /\ sess \in [Accounts -> Nat]
  /\ seal \in [acct : Accounts \cup {None}, key : Keys, val : Nat]
  /\ rotate \in {"no", "read", "committed", "swapped"}
  /\ pass \in Nat \ {0} /\ strays \subseteq Nat \ {0} /\ logins \in Nat

\* A process between the lock and its release is the one the lock names; only there does
\* it have the database open, requests or a key.
OwnOf(p) ==
  /\ lock = p <=> pc[p] \in Held
  /\ p \in open => pc[p] \in Held \ {"open", "release"}
  /\ handlers[p] # 0 => pc[p] \in Serving
  /\ exit[p] = "ok" => pc[p] \in Closing \cup {"over"} /\ handlers[p] = 0
  /\ sealer[p] # NoSealer => pc[p] \in Serving \cup {"migrate"}
  /\ pc[p] = "migrate" => sealer[p] # NoSealer

\* The inductive invariant of ownership: it needs nothing of the keys.
OwnInv == ProcTypes /\ DataTypes /\ \A p \in Procs : OwnOf(p)

\* The key a process has is one that was entered, an outdated one between the commit of
\* a rotation and its swap; its version follows at the end of the rotation.
KeyOf(p) ==
  sealer[p] # NoSealer =>
    /\ meta.ver # 0
    /\ rotate # "committed" => sealer[p].key \in EnteredKeys
    /\ sealer[p].ver = IF rotate \in {"committed", "swapped"} THEN meta.ver - 1 ELSE meta.ver

\* A sealed row is of an entered key and of the active version.
RowOpens(a) ==
  secrets[a] # NoRow =>
    meta.ver # 0 /\ secrets[a].key \in EnteredKeys /\ secrets[a].ver = meta.ver

\* Somebody serves with a key.
Unlocked == \E p \in Procs : sealer[p] # NoSealer /\ pc[p] \in Serving

\* The keys, the rows and the work in progress agree, as long as nobody seals while a
\* rotation runs.
KeyInv ==
  /\ \A p \in Procs : KeyOf(p) /\ (pc[p] = "unlock" => meta.ver # 0)
  /\ \A a \in Accounts : RowOpens(a)
  /\ rotate # "no" => Unlocked
  /\ seal # NoSeal =>
       Unlocked /\ rotate = "no" /\ seal.acct \in Accounts /\ seal.key \in EnteredKeys

----------------------------------------------------------------------------
\* The values that stand for nothing have their types.
LEMMA Nothing ==
  /\ NoSealer \in [key : Keys, ver : Nat] /\ NoRow \in Rows /\ NoRows \in [Accounts -> Rows]
  /\ NoSeal \in [acct : Accounts \cup {None}, key : Keys, val : Nat]
  /\ None \notin Procs
  <1>1. NoKey \in Keys
    BY DEF NoKey, Keys
  <1>2. NoRow \in Rows /\ NoSealer \in [key : Keys, ver : Nat]
    BY <1>1 DEF NoRow, NoSealer, Rows
  <1>3. NoRows \in [Accounts -> Rows]
    BY <1>2 DEF NoRows
  <1>4. QED
    BY <1>1, <1>2, <1>3, ProcsAssumption DEF NoSeal

\* Both invariants hold before the first process starts.
LEMMA InitInv == Init => OwnInv /\ KeyInv
  <1>. SUFFICES ASSUME Init PROVE OwnInv /\ KeyInv
    OBVIOUS
  <1>1. ProcTypes
    BY Nothing DEF Init, ProcTypes, Pcs
  <1>2. DataTypes
    BY Nothing DEF Init, DataTypes, None
  <1>3. \A p \in Procs : OwnOf(p)
    BY Nothing DEF Init, OwnOf, Held, Serving, Closing
  <1>4. KeyInv
    BY DEF Init, KeyInv, KeyOf, RowOpens, NoRows
  <1>5. QED
    BY <1>1, <1>2, <1>3, <1>4 DEF OwnInv

\* The actions that a process p takes part in alone, and that touch no row or key.
Plain(p) ==
  \/ Start(p) \/ AcquireFileLock(p) \/ OpenDB(p) \/ Migrate(p) \/ CheckSecrets(p)
  \/ Signal(p) \/ Drain(p) \/ Accept(p) \/ Done(p)

\* They keep the types and the ownership.
LEMMA PlainOwn ==
  ASSUME OwnInv, NEW p \in Procs, Plain(p) PROVE ProcTypes' /\ DataTypes' /\ \A q \in Procs : OwnOf(q)'
  <1>0. ProcTypes /\ DataTypes /\ \A q \in Procs : OwnOf(q)
    BY DEF OwnInv
  <1>1. DataTypes' /\ sealer' = sealer /\ cfg' = cfg
    BY <1>0 DEF DataTypes, Plain, Start, AcquireFileLock, OpenDB, Migrate, CheckSecrets, Signal, Drain, Accept, Done,
       GiveUp, dbVars, workVars
  <1>2. ASSUME Start(p) \/ AcquireFileLock(p) \/ OpenDB(p) PROVE ProcTypes' /\ \A q \in Procs : OwnOf(q)'
    <2>1. ProcTypes'
      BY <1>0, <1>1, <1>2 DEF ProcTypes, Start, AcquireFileLock, OpenDB, Goto, GiveUp, Pcs, Booting, Closing
    <2>2. \A q \in Procs : OwnOf(q)'
      BY <1>0, <1>1, <1>2, Nothing DEF ProcTypes, OwnOf, Start, AcquireFileLock, OpenDB, Goto, GiveUp, Held, Serving, Closing
    <2>3. QED
      BY <2>1, <2>2
  <1>3. ASSUME Migrate(p) \/ CheckSecrets(p) PROVE ProcTypes' /\ \A q \in Procs : OwnOf(q)'
    <2>1. ProcTypes'
      BY <1>0, <1>1, <1>3 DEF ProcTypes, Migrate, CheckSecrets, Goto, GiveUp, Pcs, Booting, Closing
    <2>2. \A q \in Procs : OwnOf(q)'
      BY <1>0, <1>1, <1>3, Nothing DEF ProcTypes, OwnOf, Migrate, CheckSecrets, Goto, GiveUp, Held, Serving, Closing
    <2>3. QED
      BY <2>1, <2>2
  <1>4. ASSUME Signal(p) \/ Drain(p) PROVE ProcTypes' /\ \A q \in Procs : OwnOf(q)'
    <2>1. ProcTypes'
      BY <1>0, <1>1, <1>4 DEF ProcTypes, Signal, Drain, Goto, Pcs, Booting, Closing
    <2>2. \A q \in Procs : OwnOf(q)'
      BY <1>0, <1>1, <1>4, Nothing DEF ProcTypes, OwnOf, Signal, Drain, Goto, Held, Serving, Closing
    <2>3. QED
      BY <2>1, <2>2
  <1>5. ASSUME Accept(p) \/ Done(p) PROVE ProcTypes' /\ \A q \in Procs : OwnOf(q)'
    <2>1. ProcTypes'
      BY <1>0, <1>1, <1>5 DEF ProcTypes, Accept, Done
    <2>2. \A q \in Procs : OwnOf(q)'
      BY <1>0, <1>1, <1>5, Nothing DEF ProcTypes, OwnOf, Accept, Done, Held, Serving, Closing
    <2>3. QED
      BY <2>1, <2>2
  <1>6. QED
    BY <1>1, <1>2, <1>3, <1>4, <1>5 DEF Plain

\* The steps that write rows or the work in progress, and leave the processes alone.
Writes(p) ==
  \/ SealWrite(p) \/ RotateRead(p) \/ RotateCommit(p)
  \/ \E a \in Accounts : SealEncrypt(p, a) \/ Delete(p, a) \/ Login(p, a)

\* They keep the types.
LEMMA WritesOwn ==
  ASSUME OwnInv, NEW p \in Procs, Writes(p) PROVE ProcTypes' /\ DataTypes' /\ \A q \in Procs : OwnOf(q)'
  <1>0. ProcTypes /\ DataTypes /\ \A q \in Procs : OwnOf(q)
    BY DEF OwnInv
  <1>1. UNCHANGED <<cfg, procVars>>
    BY DEF Writes, SealWrite, RotateRead, RotateCommit, SealEncrypt, Delete, Login
  <1>2. ProcTypes' /\ \A q \in Procs : OwnOf(q)'
    BY <1>0, <1>1 DEF ProcTypes, OwnOf, procVars
  <1>3. sealer[p] \in [key : Keys, ver : Nat]
    BY <1>0 DEF ProcTypes
  <1>4. ASSUME SealWrite(p) PROVE DataTypes'
    <2>1. [key |-> seal.key, ver |-> sealer[p].ver, val |-> seal.val] \in Rows
      BY <1>0, <1>3 DEF DataTypes, Rows
    <2>2. QED
      BY <1>0, <1>4, <2>1, Nothing DEF DataTypes, SealWrite
  <1>5. ASSUME RotateRead(p) PROVE DataTypes'
    BY <1>0, <1>5 DEF DataTypes, RotateRead, dbVars
  <1>6. ASSUME RotateCommit(p) PROVE DataTypes'
    <2>. DEFINE ver == sealer[p].ver + 1
                new == <<pass + 1, meta.salt>>
    <2>1. ver \in Nat /\ new \in Keys /\ pass + 1 \in Nat \ {0} /\ [meta EXCEPT !.ver = ver] \in [salt : Nat, ver : Nat]
      BY <1>0, <1>3 DEF DataTypes, Keys
    <2>2. \/ UNCHANGED <<secrets, meta, pass, strays>>
          \/ /\ secrets' = [a \in Accounts |->
                  IF secrets[a] = NoRow THEN NoRow ELSE [secrets[a] EXCEPT !.key = new, !.ver = ver]]
             /\ meta' = [meta EXCEPT !.ver = ver] /\ pass' = pass + 1 /\ strays' = {}
      BY <1>6, Zenon DEF RotateCommit
    <2>3. rotate' \in {"no", "committed"} /\ UNCHANGED <<sess, seal, logins>>
      BY <1>6 DEF RotateCommit
    <2>. HIDE DEF ver, new
    <2>4. \A a \in Accounts : [secrets[a] EXCEPT !.key = new, !.ver = ver] \in Rows
      BY <1>0, <2>1 DEF DataTypes, Rows
    <2>5. secrets' \in [Accounts -> Rows]
      <3>1. CASE UNCHANGED secrets
        BY <1>0, <3>1 DEF DataTypes
      <3>2. CASE secrets' = [a \in Accounts |->
                   IF secrets[a] = NoRow THEN NoRow ELSE [secrets[a] EXCEPT !.key = new, !.ver = ver]]
        <4>. DEFINE row(a) == IF secrets[a] = NoRow THEN NoRow ELSE [secrets[a] EXCEPT !.key = new, !.ver = ver]
        <4>1. \A a \in Accounts : row(a) \in Rows
          BY <2>4, Nothing
        <4>2. secrets' = [a \in Accounts |-> row(a)]
          BY <3>2
        <4>. HIDE DEF row
        <4>3. QED
          BY <4>1, <4>2
      <3>3. QED
        BY <2>2, <3>1, <3>2
    <2>6. QED
      BY <1>0, <2>1, <2>2, <2>3, <2>5 DEF DataTypes
  <1>7. ASSUME NEW a \in Accounts, SealEncrypt(p, a) PROVE DataTypes'
    <2>1. [acct |-> a, key |-> sealer[p].key, val |-> sess[a]] \in [acct : Accounts \cup {None}, key : Keys, val : Nat]
      BY <1>0, <1>3 DEF DataTypes
    <2>2. QED
      BY <1>0, <1>7, <2>1 DEF DataTypes, SealEncrypt, dbVars
  <1>8. ASSUME NEW a \in Accounts, Delete(p, a) \/ Login(p, a) PROVE DataTypes'
    <2>1. CASE Delete(p, a)
      BY <1>0, <2>1, Nothing DEF DataTypes, Delete, workVars
    <2>2. CASE Login(p, a)
      BY <1>0, <2>2 DEF DataTypes, Login
    <2>3. QED
      BY <1>8, <2>1, <2>2
  <1>9. QED
    BY <1>2, <1>4, <1>5, <1>6, <1>7, <1>8 DEF Writes

\* The boot's secrets, the swap of a rotation, the migration, the close and the crash.
LEMMA OtherOwn ==
  ASSUME OwnInv, NEW p \in Procs,
         LoadOrInitMeta(p) \/ UnlockSealer(p) \/ RotateSwap(p) \/ MigratePlaintextSessions(p) \/ Close(p) \/ Crash(p)
  PROVE  ProcTypes' /\ DataTypes' /\ \A q \in Procs : OwnOf(q)'
  <1>0. ProcTypes /\ DataTypes /\ \A q \in Procs : OwnOf(q)
    BY DEF OwnInv
  <1>. DEFINE Goal == ProcTypes' /\ DataTypes' /\ \A q \in Procs : OwnOf(q)'
  <1>1. ASSUME LoadOrInitMeta(p) PROVE Goal
    <2>0. UNCHANGED <<secrets, sess, seal, rotate, pass, strays, logins>> /\ (meta' = [salt |-> p, ver |-> 1] \/ meta' = meta)
      BY <1>1 DEF LoadOrInitMeta, workVars
    <2>1. DataTypes'
      BY <1>0, <2>0, ProcsAssumption DEF DataTypes
    <2>2. ProcTypes'
      BY <1>0, <1>1 DEF ProcTypes, LoadOrInitMeta, Goto, GiveUp, Pcs, Booting, Closing
    <2>3. \A q \in Procs : OwnOf(q)'
      BY <1>0, <1>1, Nothing DEF ProcTypes, OwnOf, LoadOrInitMeta, Goto, GiveUp, Held, Serving, Closing
    <2>4. QED
      BY <2>1, <2>2, <2>3
  <1>2. ASSUME UnlockSealer(p) PROVE Goal
    <2>1. PICK w \in {pass} \cup Mistakes :
            \/ /\ sealer' = [sealer EXCEPT ![p] = [key |-> <<w, meta.salt>>, ver |-> meta.ver]]
               /\ Goto(p, IF cfg[p].kind = "serve" THEN "serve" ELSE "migrate") /\ exit' = exit
            \/ sealer' = sealer /\ GiveUp(p)
      BY <1>2, Zenon DEF UnlockSealer
    <2>. DEFINE new == [key |-> <<w, meta.salt>>, ver |-> meta.ver]
    <2>2. new \in [key : Keys, ver : Nat] /\ new # NoSealer
      BY <1>0, MistakesAssumption DEF DataTypes, Keys, NoSealer, NoKey
    <2>3. /\ pc[p] = "unlock" /\ UNCHANGED <<cfg, lock, open, handlers, dbVars, seal, rotate, pass, logins>>
          /\ strays' \subseteq strays \cup {pass} \cup Mistakes
      BY <1>2 DEF UnlockSealer
    <2>8. \/ /\ sealer' = [sealer EXCEPT ![p] = new]
             /\ Goto(p, IF cfg[p].kind = "serve" THEN "serve" ELSE "migrate") /\ exit' = exit
          \/ sealer' = sealer /\ GiveUp(p)
      BY <2>1
    <2>. HIDE DEF new
    <2>4. DataTypes'
      BY <1>0, <2>3, MistakesAssumption DEF DataTypes, dbVars
    <2>5. ProcTypes'
      BY <1>0, <2>2, <2>3, <2>8, ZenonT(60) DEF ProcTypes, Goto, GiveUp, Pcs, Booting, Closing
    <2>6. \A q \in Procs : OwnOf(q)'
      BY <1>0, <2>2, <2>3, <2>8, Nothing DEF ProcTypes, OwnOf, Goto, GiveUp, Held, Serving, Closing
    <2>7. QED
      BY <2>4, <2>5, <2>6
  <1>3. ASSUME RotateSwap(p) PROVE Goal
    <2>1. PICK new \in [key : Keys, ver : Nat] : sealer' = [sealer EXCEPT ![p] = new]
      <3>1. sealer[p] \in [key : Keys, ver : Nat] /\ <<pass, meta.salt>> \in Keys
        BY <1>0 DEF ProcTypes, DataTypes, Keys
      <3>2. /\ [sealer[p] EXCEPT !.key = <<pass, meta.salt>>] \in [key : Keys, ver : Nat]
            /\ [sealer[p] EXCEPT !.ver = @ + 1] \in [key : Keys, ver : Nat]
        BY <3>1
      <3>3. \/ sealer' = [sealer EXCEPT ![p] = [sealer[p] EXCEPT !.key = <<pass, meta.salt>>]]
            \/ sealer' = [sealer EXCEPT ![p] = [sealer[p] EXCEPT !.ver = @ + 1]]
        BY <1>0, <1>3 DEF RotateSwap, ProcTypes
      <3>4. QED
        BY <3>2, <3>3
    <2>2. /\ sealer[p] # NoSealer /\ rotate' \in {"swapped", "no"} /\ rotate # "no"
          /\ UNCHANGED <<cfg, pc, exit, lock, open, handlers, dbVars, seal, snapshot, pass, strays, logins>>
      BY <1>3 DEF RotateSwap
    <2>3. ProcTypes' /\ DataTypes'
      BY <1>0, <2>1, <2>2 DEF ProcTypes, DataTypes, dbVars
    <2>4. sealer'[p] # NoSealer
      <3>1. \/ sealer'[p].key = <<pass, meta.salt>>
            \/ sealer'[p].ver = sealer[p].ver + 1 /\ sealer[p].ver \in Nat
        BY <1>0, <1>3 DEF RotateSwap, ProcTypes
      <3>2. <<pass, meta.salt>> # NoKey
        BY <1>0 DEF DataTypes, NoKey
      <3>3. QED
        BY <3>1, <3>2 DEF NoSealer
    <2>5. \A q \in Procs : OwnOf(q)'
      BY <1>0, <2>1, <2>2, <2>4 DEF ProcTypes, OwnOf
    <2>6. QED
      BY <2>3, <2>5
  <1>4. ASSUME MigratePlaintextSessions(p) PROVE Goal
    <2>1. [key |-> sealer[p].key, ver |-> sealer[p].ver, val |-> 0] \in Rows
          /\ \A a \in Accounts : [key |-> sealer[p].key, ver |-> sealer[p].ver, val |-> sess[a]] \in Rows
      BY <1>0 DEF ProcTypes, DataTypes, Rows
    <2>6. secrets' \in [Accounts -> Rows] /\ sess' \in [Accounts -> Nat]
      BY <1>0, <1>4, <2>1 DEF DataTypes, MigratePlaintextSessions
    <2>2. DataTypes'
      BY <1>0, <1>4, <2>6 DEF DataTypes, MigratePlaintextSessions, workVars
    <2>3. ProcTypes'
      BY <1>0, <1>4 DEF ProcTypes, MigratePlaintextSessions, Goto, Pcs, Booting, Closing
    <2>4. \A q \in Procs : OwnOf(q)'
      BY <1>0, <1>4, Nothing DEF ProcTypes, OwnOf, MigratePlaintextSessions, Goto, Held, Serving, Closing
    <2>5. QED
      BY <2>2, <2>3, <2>4
  <1>5. ASSUME Close(p) PROVE Goal
    <2>1. DataTypes'
      BY <1>0, <1>5, Nothing DEF DataTypes, Close, dbVars
    <2>5. sealer' \in [Procs -> [key : Keys, ver : Nat]]
      BY <1>0, <1>5, Nothing DEF ProcTypes, Close
    <2>6. pc' \in [Procs -> Pcs] /\ UNCHANGED <<cfg, exit>>
      BY <1>0, <1>5 DEF ProcTypes, Close, Goto, Pcs, Closing
    <2>7. lock' \in Procs \cup {None} /\ open' \subseteq Procs /\ handlers' \in [Procs -> 0..1]
      BY <1>0, <1>5 DEF ProcTypes, Close
    <2>2. ProcTypes'
      BY <1>0, <2>5, <2>6, <2>7 DEF ProcTypes
    <2>3. \A q \in Procs : OwnOf(q)'
      BY <1>0, <1>5, Nothing DEF ProcTypes, OwnOf, Close, Goto, Held, Serving, Closing
    <2>4. QED
      BY <2>1, <2>2, <2>3
  <1>6. ASSUME Crash(p) PROVE Goal
    <2>1. DataTypes'
      BY <1>0, <1>6, Nothing DEF DataTypes, Crash, dbVars
    <2>2. ProcTypes'
      BY <1>0, <1>6, Nothing DEF ProcTypes, Crash, Goto, Pcs, Booting, Closing
    <2>3. \A q \in Procs : OwnOf(q)'
      BY <1>0, <1>6, Nothing DEF ProcTypes, OwnOf, Crash, Goto, Held, Serving, Closing
    <2>4. QED
      BY <2>1, <2>2, <2>3
  <1>7. QED
    BY <1>1, <1>2, <1>3, <1>4, <1>5, <1>6

\* The lock, the open database, the requests and the keys go together in every step.
LEMMA OwnStep == OwnInv /\ [Next]_vars => OwnInv'
  <1>. SUFFICES ASSUME OwnInv, [Next]_vars PROVE OwnInv'
    OBVIOUS
  <1>1. CASE UNCHANGED vars
    BY <1>1 DEF OwnInv, ProcTypes, DataTypes, OwnOf, vars, procVars, dbVars, workVars
  <1>2. ASSUME NEW p \in Procs,
               \/ Plain(p) \/ Writes(p) \/ LoadOrInitMeta(p) \/ UnlockSealer(p) \/ RotateSwap(p)
               \/ MigratePlaintextSessions(p) \/ Close(p) \/ Crash(p)
        PROVE  OwnInv'
    BY <1>2, PlainOwn, WritesOwn, OtherOwn DEF OwnInv
  <1>3. QED
    BY <1>1, <1>2 DEF Next, Step, Plain, Writes

----------------------------------------------------------------------------
\* Two processes between the lock and its release are the same one, and so is the one
\* that has a key.
LEMMA Alone ==
  ASSUME OwnInv, NEW p \in Procs, NEW q \in Procs, pc[p] \in Held, pc[q] \in Held \/ sealer[q] # NoSealer
  PROVE  p = q
  BY DEF OwnInv, OwnOf, Held, Serving

\* Nobody serves with a key while another process boots or migrates.
LEMMA BootAlone ==
  ASSUME OwnInv, NEW p \in Procs, pc[p] \in {"meta", "unlock", "migrate"} PROVE ~Unlocked
  <1>1. SUFFICES ASSUME NEW q \in Procs, sealer[q] # NoSealer, pc[q] \in Serving PROVE FALSE
    BY DEF Unlocked
  <1>2. p = q
    BY <1>1, Alone DEF Held
  <1>3. QED
    BY <1>1, <1>2 DEF Serving, Closing

\* The entered keys depend on the salt and the passphrases only.
LEMMA SameKeys == ASSUME UNCHANGED <<meta, pass, strays>> PROVE EnteredKeys' = EnteredKeys
  BY DEF EnteredKeys

\* A step that leaves the keys, the rows and the work alone keeps what they say of each
\* other, if whoever serves with a key goes on.
LEMMA KeyFrame ==
  ASSUME KeyInv, UNCHANGED <<sealer, meta, secrets, rotate, pass, strays, seal>>, Unlocked => Unlocked',
         \A p \in Procs : pc'[p] = "unlock" => meta.ver # 0
  PROVE  KeyInv'
  BY SameKeys DEF KeyInv, KeyOf, RowOpens

\* Whoever serves with a key goes on serving when the sealers stay and no process stops.
LEMMA GoesOn ==
  ASSUME sealer' = sealer, \A q \in Procs : pc[q] \in Serving => pc'[q] \in Serving
  PROVE  Unlocked => Unlocked'
  BY DEF Unlocked

\* The boot up to the schema, the requests and the shutdown.
LEMMA PlainKey ==
  ASSUME OwnInv, KeyInv, NEW p \in Procs, Plain(p) PROVE KeyInv'
  <1>1. pc \in [Procs -> Pcs]
    BY DEF OwnInv, ProcTypes
  <1>2. UNCHANGED <<sealer, meta, secrets, rotate, pass, strays, seal>>
    BY DEF Plain, Start, AcquireFileLock, OpenDB, Migrate, CheckSecrets, Signal, Drain, Accept, Done, dbVars, workVars
  <1>3. PICK l : /\ pc' = [pc EXCEPT ![p] = l] \/ pc' = pc
                 /\ l # "unlock" /\ (pc[p] \in Serving => l \in Serving)
    BY <1>1 DEF Plain, Start, AcquireFileLock, OpenDB, Migrate, CheckSecrets, Signal, Drain, Accept, Done, Goto, GiveUp,
       Serving, Closing
  <1>4. \A q \in Procs : /\ pc[q] \in Serving => pc'[q] \in Serving
                         /\ pc'[q] = "unlock" => pc[q] = "unlock"
    BY <1>1, <1>3
  <1>5. QED
    BY <1>2, <1>4, GoesOn, KeyFrame DEF KeyInv

\* A Seal that no rotation meets: it encrypts and writes with the process's key.
LEMMA SealKey ==
  ASSUME OwnInv, KeyInv, Quiet, NEW p \in Procs,
         SealWrite(p) \/ \E a \in Accounts : SealEncrypt(p, a) \/ Delete(p, a) \/ Login(p, a)
  PROVE  KeyInv'
  <1>0. ProcTypes /\ DataTypes /\ KeyOf(p)
    BY DEF OwnInv, KeyInv
  <1>1. UNCHANGED <<pc, sealer, meta, rotate, pass, strays>> /\ EnteredKeys' = EnteredKeys
    <2>1. UNCHANGED <<pc, sealer, meta, rotate, pass, strays>>
      BY DEF SealWrite, SealEncrypt, Delete, Login, procVars, dbVars, workVars
    <2>2. QED
      BY <2>1, SameKeys
  <1>2. /\ Unlocked' <=> Unlocked
        /\ \A q \in Procs : KeyOf(q)' /\ (pc'[q] = "unlock" => meta'.ver # 0)
    BY <1>1 DEF Unlocked, KeyInv, KeyOf
  <1>3. ASSUME SealWrite(p) PROVE KeyInv'
    <2>1. CASE UNCHANGED secrets
      BY <1>1, <1>2, <1>3, <2>1 DEF KeyInv, RowOpens, SealWrite
    <2>2. CASE secrets' # secrets
      <3>. DEFINE row == [key |-> seal.key, ver |-> sealer[p].ver, val |-> seal.val]
      <3>1. secrets' = [secrets EXCEPT ![seal.acct] = row] /\ seal' = NoSeal /\ seal # NoSeal /\ sealer[p] # NoSealer
        BY <1>3, <2>2, Zenon DEF SealWrite
      <3>2. /\ seal.key \in EnteredKeys /\ rotate = "no" /\ meta.ver # 0 /\ sealer[p].ver = meta.ver
            /\ row.key = seal.key /\ row.ver = sealer[p].ver
        BY <1>0, <3>1 DEF KeyInv, KeyOf
      <3>. HIDE DEF row
      <3>3. \A a \in Accounts : RowOpens(a)'
        BY <1>0, <1>1, <3>1, <3>2 DEF KeyInv, RowOpens, DataTypes
      <3>4. QED
        BY <1>1, <1>2, <3>1, <3>3 DEF KeyInv
    <2>3. QED
      BY <2>1, <2>2
  <1>4. ASSUME NEW a \in Accounts, SealEncrypt(p, a) PROVE KeyInv'
    <2>1. /\ sealer[p] # NoSealer /\ pc[p] = "serve" /\ rotate = "no" /\ UNCHANGED secrets
          /\ seal' = [acct |-> a, key |-> sealer[p].key, val |-> sess[a]]
      BY <1>4 DEF SealEncrypt, dbVars
    <2>2. Unlocked /\ sealer[p].key \in EnteredKeys
      BY <1>0, <2>1 DEF Unlocked, KeyOf, Serving
    <2>3. seal'.acct = a /\ seal'.key \in EnteredKeys
      BY <2>1, <2>2
    <2>4. \A b \in Accounts : RowOpens(b)'
      BY <1>1, <2>1 DEF KeyInv, RowOpens
    <2>5. QED
      BY <1>1, <1>2, <2>1, <2>2, <2>3, <2>4 DEF KeyInv
  <1>5. ASSUME NEW a \in Accounts, Delete(p, a) \/ Login(p, a) PROVE KeyInv'
    <2>1. seal' = seal /\ (secrets' = secrets \/ secrets' = [secrets EXCEPT ![a] = NoRow])
      BY <1>5 DEF Delete, Login, workVars
    <2>2. \A b \in Accounts : RowOpens(b)'
      BY <1>0, <1>1, <2>1 DEF KeyInv, RowOpens, DataTypes
    <2>3. QED
      BY <1>1, <1>2, <2>1, <2>2 DEF KeyInv
  <1>6. QED
    BY <1>3, <1>4, <1>5

\* A rotation: the rows, the passphrase and the version at the commit, the key and the
\* version of the sealer after it.
LEMMA RotateKey ==
  ASSUME OwnInv, KeyInv, Quiet, NEW p \in Procs, RotateRead(p) \/ RotateCommit(p) \/ RotateSwap(p)
  PROVE  KeyInv'
  <1>0. ProcTypes /\ DataTypes /\ KeyOf(p) /\ sealer[p] # NoSealer /\ pc' = pc
    BY DEF OwnInv, KeyInv, RotateRead, RotateCommit, RotateSwap, procVars
  <1>1. pc[p] \in Held
    BY <1>0 DEF OwnInv, OwnOf, Held, Serving
  <1>2. \A q \in Procs : sealer[q] # NoSealer => q = p
    BY <1>1, Alone
  <1>3. ASSUME RotateRead(p) PROVE KeyInv'
    <2>1. /\ pc[p] = "serve" /\ rotate = "no" /\ rotate' = "read" /\ seal = NoSeal
          /\ UNCHANGED <<sealer, meta, secrets, pass, strays, seal>>
      BY <1>3 DEF RotateRead, procVars, dbVars
    <2>2. Unlocked'
      BY <1>0, <2>1 DEF Unlocked, Serving
    <2>3. QED
      BY <1>0, <2>1, <2>2, SameKeys DEF KeyInv, KeyOf, RowOpens
  <1>4. rotate # "no" => Unlocked /\ seal = NoSeal /\ pc[p] \in Serving
    BY <1>2 DEF KeyInv, Unlocked
  <1>5. ASSUME RotateCommit(p) PROVE KeyInv'
    <2>. DEFINE ver == sealer[p].ver + 1
                new == <<pass + 1, meta.salt>>
    <2>1. rotate = "read" /\ UNCHANGED <<sealer, seal>>
      BY <1>5 DEF RotateCommit, procVars
    <2>2. Unlocked' /\ sealer[p].ver = meta.ver /\ meta.ver # 0
      BY <1>0, <1>4, <2>1 DEF Unlocked, KeyOf
    <2>3. ASSUME rotate' = "no", UNCHANGED <<secrets, meta, pass, strays>> PROVE KeyInv'
      BY <1>0, <1>4, <2>1, <2>2, <2>3, SameKeys DEF KeyInv, KeyOf, RowOpens
    <2>4. ASSUME rotate' = "committed", meta' = [meta EXCEPT !.ver = ver], pass' = pass + 1, strays' = {},
                 secrets' = [a \in Accounts |->
                   IF secrets[a] = NoRow THEN NoRow ELSE [secrets[a] EXCEPT !.key = new, !.ver = ver]]
          PROVE  KeyInv'
      <3>1. meta'.ver = ver /\ ver # 0 /\ ver - 1 = meta.ver /\ new \in EnteredKeys'
        <4>1. meta.ver \in Nat /\ pass \in Nat
          BY <1>0 DEF DataTypes
        <4>2. meta'.ver = ver /\ meta'.salt = meta.salt
          BY <1>0, <2>4 DEF DataTypes
        <4>3. ver = meta.ver + 1 /\ pass' = pass + 1
          BY <2>2, <2>4
        <4>4. new \in EnteredKeys'
          BY <4>2, <4>3 DEF EnteredKeys
        <4>. HIDE DEF ver, new
        <4>5. QED
          BY <4>1, <4>2, <4>3, <4>4
      <3>. HIDE DEF ver, new
      <3>2. \A q \in Procs : KeyOf(q)' /\ (pc'[q] = "unlock" => meta'.ver # 0)
        BY <1>2, <2>1, <2>2, <2>4, <3>1 DEF KeyOf
      <3>3. \A a \in Accounts : RowOpens(a)'
        <4>1. SUFFICES ASSUME NEW a \in Accounts, secrets'[a] # NoRow
                       PROVE  secrets'[a].key = new /\ secrets'[a].ver = ver
          BY <3>1 DEF RowOpens
        <4>2. secrets'[a] = [secrets[a] EXCEPT !.key = new, !.ver = ver] /\ secrets[a] \in Rows
          BY <1>0, <2>4, <4>1 DEF DataTypes
        <4>3. QED
          BY <4>2 DEF Rows
      <3>4. QED
        BY <1>4, <2>1, <2>2, <2>4, <3>2, <3>3 DEF KeyInv
    <2>5. \/ rotate' = "no" /\ UNCHANGED <<secrets, meta, pass, strays>>
          \/ /\ rotate' = "committed" /\ meta' = [meta EXCEPT !.ver = ver] /\ pass' = pass + 1 /\ strays' = {}
             /\ secrets' = [a \in Accounts |->
                  IF secrets[a] = NoRow THEN NoRow ELSE [secrets[a] EXCEPT !.key = new, !.ver = ver]]
      BY <1>5, Zenon DEF RotateCommit
    <2>6. QED
      BY <2>3, <2>4, <2>5
  <1>6. ASSUME RotateSwap(p) PROVE KeyInv'
    <2>1. sealer[p] \in [key : Keys, ver : Nat] /\ UNCHANGED <<meta, secrets, seal, pass, strays>>
      BY <1>0, <1>6 DEF ProcTypes, RotateSwap, dbVars
    <2>2. EnteredKeys' = EnteredKeys /\ \A a \in Accounts : RowOpens(a)'
      BY <2>1, SameKeys DEF KeyInv, RowOpens
    <2>3. \A q \in Procs : q # p => sealer'[q] = sealer[q]
      BY <1>0, <1>6 DEF RotateSwap, ProcTypes
    <2>4. \/ rotate = "committed" /\ rotate' = "swapped"
          \/ rotate = "swapped" /\ rotate' = "no"
      BY <1>6 DEF RotateSwap
    <2>5. rotate = "committed" => sealer'[p].key = <<pass, meta.salt>> /\ sealer'[p].ver = sealer[p].ver
      BY <1>0, <1>6, <2>1 DEF RotateSwap, ProcTypes
    <2>6. rotate = "swapped" => sealer'[p].key = sealer[p].key /\ sealer'[p].ver = sealer[p].ver + 1
      BY <1>0, <1>6, <2>1 DEF RotateSwap, ProcTypes
    <2>7. sealer'[p].key \in EnteredKeys /\ NoKey \notin EnteredKeys
      <3>1. <<pass, meta.salt>> \in EnteredKeys /\ NoKey \notin EnteredKeys
        BY <1>0 DEF EnteredKeys, DataTypes, NoKey
      <3>2. QED
        BY <1>0, <2>4, <2>5, <2>6, <3>1 DEF KeyOf
    <2>8. Unlocked'
      BY <1>0, <1>4, <2>4, <2>7 DEF Unlocked, NoSealer
    <2>9. KeyOf(p)'
      BY <1>0, <2>1, <2>2, <2>4, <2>5, <2>6, <2>7 DEF KeyOf, DataTypes
    <2>10. \A q \in Procs : KeyOf(q)' /\ (pc'[q] = "unlock" => meta'.ver # 0)
      BY <1>0, <1>2, <2>1, <2>2, <2>3, <2>9 DEF KeyOf, KeyInv
    <2>11. QED
      BY <1>4, <2>1, <2>2, <2>4, <2>8, <2>10 DEF KeyInv
  <1>7. QED
    BY <1>3, <1>5, <1>6

\* The salt of the first boot meets no row and no key; a boot derives an entered key
\* from the salt it reads.
LEMMA BootKey ==
  ASSUME OwnInv, KeyInv, NEW p \in Procs, LoadOrInitMeta(p) \/ UnlockSealer(p) PROVE KeyInv'
  <1>0. ProcTypes /\ DataTypes
    BY DEF OwnInv
  <1>1. ~Unlocked /\ rotate = "no" /\ seal = NoSeal
    BY BootAlone DEF KeyInv, LoadOrInitMeta, UnlockSealer
  <1>2. UNCHANGED <<secrets, rotate, pass, seal>>
    BY DEF LoadOrInitMeta, UnlockSealer, dbVars, workVars
  <1>3. ASSUME LoadOrInitMeta(p) PROVE KeyInv'
    <2>1. /\ UNCHANGED <<sealer, strays>>
          /\ meta' = meta \/ (meta' = [salt |-> p, ver |-> 1] /\ meta.ver = 0)
      BY <1>3 DEF LoadOrInitMeta, workVars
    <2>2. \A q \in Procs : pc'[q] = "unlock" => pc[q] = "unlock" \/ meta'.ver # 0
      BY <1>0, <1>3 DEF LoadOrInitMeta, Goto, GiveUp, ProcTypes
    <2>3. CASE meta' = meta
      BY <1>1, <1>2, <2>1, <2>2, <2>3, SameKeys DEF KeyInv, KeyOf, RowOpens
    <2>4. CASE meta' = [salt |-> p, ver |-> 1] /\ meta.ver = 0
      <3>1. \A q \in Procs : sealer[q] = NoSealer
        BY <2>4 DEF KeyInv, KeyOf
      <3>2. \A a \in Accounts : secrets[a] = NoRow
        BY <2>4 DEF KeyInv, RowOpens
      <3>3. meta'.ver # 0
        BY <2>4
      <3>4. QED
        BY <1>1, <1>2, <2>1, <3>1, <3>2, <3>3 DEF KeyInv, KeyOf, RowOpens
    <2>5. QED
      BY <2>1, <2>3, <2>4
  <1>4. ASSUME UnlockSealer(p) PROVE KeyInv'
    <2>1. PICK k :
            /\ sealer' = [sealer EXCEPT ![p] = [key |-> k, ver |-> meta.ver]] \/ sealer' = sealer
            /\ k \in EnteredKeys' /\ EnteredKeys \subseteq EnteredKeys'
      <3>1. UNCHANGED <<meta, pass>>
        BY <1>4 DEF UnlockSealer, dbVars
      <3>2. CASE UNCHANGED <<sealer, strays>>
        <4>1. <<pass, meta.salt>> \in EnteredKeys /\ EnteredKeys' = EnteredKeys
          BY <3>1, <3>2, SameKeys DEF EnteredKeys
        <4>2. QED
          BY <3>2, <4>1
      <3>3. ASSUME NEW q, sealer' = [sealer EXCEPT ![p] = [key |-> <<q, meta.salt>>, ver |-> meta.ver]],
                   strays' = strays \cup ({q} \ {pass})
            PROVE  <<q, meta.salt>> \in EnteredKeys' /\ EnteredKeys \subseteq EnteredKeys'
        BY <3>1, <3>3 DEF EnteredKeys
      <3>4. \/ UNCHANGED <<sealer, strays>>
            \/ \E q \in {pass} \cup Mistakes :
                 /\ sealer' = [sealer EXCEPT ![p] = [key |-> <<q, meta.salt>>, ver |-> meta.ver]]
                 /\ strays' = strays \cup ({q} \ {pass})
        BY <1>4, Zenon DEF UnlockSealer
      <3>5. QED
        BY <3>2, <3>3, <3>4
    <2>. DEFINE new == [key |-> k, ver |-> meta.ver]
    <2>2. new.key = k /\ new.ver = meta.ver /\ meta.ver # 0 /\ UNCHANGED meta
      BY <1>4 DEF UnlockSealer, KeyInv, dbVars
    <2>7. sealer' = [sealer EXCEPT ![p] = new] \/ sealer' = sealer
      BY <2>1
    <2>. HIDE DEF new
    <2>3. \A q \in Procs : pc'[q] = "unlock" => pc[q] = "unlock"
      BY <1>0, <1>4 DEF UnlockSealer, Goto, GiveUp, ProcTypes
    <2>4. \A q \in Procs : KeyOf(q)'
      BY <1>0, <1>1, <1>2, <2>1, <2>2, <2>7 DEF KeyInv, KeyOf, ProcTypes
    <2>5. \A a \in Accounts : RowOpens(a)'
      BY <1>2, <2>1, <2>2 DEF KeyInv, RowOpens
    <2>6. QED
      BY <1>1, <1>2, <2>2, <2>3, <2>4, <2>5 DEF KeyInv
  <1>5. QED
    BY <1>3, <1>4

\* The migration seals with the process's key.
LEMMA MigrateKey ==
  ASSUME OwnInv, KeyInv, NEW p \in Procs, MigratePlaintextSessions(p) PROVE KeyInv'
  <1>0. ProcTypes /\ DataTypes /\ KeyOf(p)
    BY DEF OwnInv, KeyInv
  <1>1. pc[p] = "migrate" /\ UNCHANGED <<sealer, meta, rotate, pass, strays, seal>> /\ pc' = [pc EXCEPT ![p] = "wipe"]
    BY DEF MigratePlaintextSessions, Goto, workVars
  <1>2. ~Unlocked /\ rotate = "no" /\ seal = NoSeal /\ sealer[p] # NoSealer
    BY <1>1, BootAlone DEF KeyInv, OwnInv, OwnOf
  <1>3. /\ sealer[p].key \in EnteredKeys /\ sealer[p].ver = meta.ver /\ meta.ver # 0
        /\ EnteredKeys' = EnteredKeys
    BY <1>0, <1>1, <1>2, SameKeys DEF KeyOf
  <1>4. \A a \in Accounts :
          \/ secrets'[a] = secrets[a]
          \/ secrets'[a].key = sealer[p].key /\ secrets'[a].ver = sealer[p].ver
    BY <1>0 DEF MigratePlaintextSessions, DataTypes
  <1>5. \A a \in Accounts : RowOpens(a)'
    BY <1>1, <1>3, <1>4 DEF KeyInv, RowOpens
  <1>6. \A q \in Procs : KeyOf(q)' /\ (pc'[q] = "unlock" => meta'.ver # 0)
    BY <1>0, <1>1, <1>3 DEF KeyInv, KeyOf, ProcTypes
  <1>7. QED
    BY <1>1, <1>2, <1>5, <1>6 DEF KeyInv

\* The end of a process takes its key and its work with it, and nobody else has any.
LEMMA EndKey ==
  ASSUME OwnInv, KeyInv, NEW p \in Procs, Close(p) \/ Crash(p) PROVE KeyInv'
  <1>0. ProcTypes /\ DataTypes /\ \A q \in Procs : OwnOf(q)
    BY DEF OwnInv
  <1>1. UNCHANGED <<meta, secrets, pass, strays>>
    BY DEF Close, Crash, dbVars
  <1>2. PICK l : pc' = [pc EXCEPT ![p] = l] /\ l # "unlock"
    BY DEF Close, Crash, Goto
  <1>3. \A q \in Procs : pc'[q] = "unlock" => meta'.ver # 0
    BY <1>0, <1>1, <1>2 DEF KeyInv, ProcTypes
  <1>4. \A a \in Accounts : RowOpens(a)'
    BY <1>1, SameKeys DEF KeyInv, RowOpens
  <1>5. ASSUME UNCHANGED <<sealer, seal, rotate>>, pc[p] \in Serving => l \in Serving PROVE KeyInv'
    <2>1. \A q \in Procs : pc[q] \in Serving => pc'[q] \in Serving
      BY <1>0, <1>2, <1>5 DEF ProcTypes
    <2>2. QED
      BY <1>1, <1>3, <1>5, <2>1, GoesOn, KeyFrame
  <1>6. ASSUME pc[p] \in Held, sealer' = [sealer EXCEPT ![p] = NoSealer], rotate' = "no", seal' = NoSeal PROVE KeyInv'
    <2>1. \A q \in Procs : sealer'[q] = NoSealer
      BY <1>0, <1>6, Alone DEF ProcTypes
    <2>2. QED
      BY <1>3, <1>4, <1>6, <2>1 DEF KeyInv, KeyOf
  <1>7. ASSUME pc[p] \notin Held, sealer' = [sealer EXCEPT ![p] = NoSealer], UNCHANGED <<seal, rotate>> PROVE KeyInv'
    <2>1. sealer[p] = NoSealer /\ sealer' = sealer /\ pc[p] \notin Serving
      BY <1>0, <1>7 DEF OwnOf, Held, Serving, ProcTypes
    <2>2. QED
      BY <1>5, <1>7, <2>1
  <1>8. CASE Close(p)
    <2>1. CASE pc[p] \in {"wipe", "closedb"}
      <3>1. pc'[p] \in Closing /\ UNCHANGED <<sealer, seal, rotate>>
        BY <1>0, <1>8, <2>1 DEF Close, Goto, Closing, ProcTypes
      <3>2. pc'[p] = l
        BY <1>0, <1>2 DEF ProcTypes
      <3>3. QED
        BY <1>5, <3>1, <3>2 DEF Serving
    <2>2. CASE pc[p] = "release"
      BY <1>6, <1>8, <2>2 DEF Close, Held, Closing
    <2>3. QED
      BY <1>8, <2>1, <2>2 DEF Close
  <1>9. CASE Crash(p)
    <2>1. lock = p <=> pc[p] \in Held
      BY <1>0 DEF OwnOf
    <2>2. QED
      BY <1>6, <1>7, <1>9, <2>1 DEF Crash
  <1>10. QED
    BY <1>8, <1>9

\* Keys and rows go together in every step.
LEMMA KeyStep == Quiet /\ OwnInv /\ KeyInv /\ [Next]_vars => KeyInv'
  <1>. SUFFICES ASSUME Quiet, OwnInv, KeyInv, [Next]_vars PROVE KeyInv'
    OBVIOUS
  <1>1. CASE UNCHANGED vars
    BY <1>1, SameKeys DEF KeyInv, KeyOf, RowOpens, Unlocked, vars, procVars, dbVars, workVars
  <1>2. ASSUME NEW p \in Procs,
               \/ Plain(p) \/ Writes(p) \/ LoadOrInitMeta(p) \/ UnlockSealer(p) \/ RotateSwap(p)
               \/ MigratePlaintextSessions(p) \/ Close(p) \/ Crash(p)
        PROVE  KeyInv'
    BY <1>2, PlainKey, SealKey, RotateKey, BootKey, MigrateKey, EndKey DEF Writes
  <1>3. QED
    BY <1>1, <1>2 DEF Next, Step, Plain, Writes

----------------------------------------------------------------------------
\* At most one process has the database open, the one that the lock names, however many
\* are started and wherever they die; and one that ends without an error has served its
\* requests (boot.go:94-112, 207-235; server.go:103-145).
THEOREM OwnerIsAlone == Spec => []OneOwner
  <1>1. Init => OwnInv
    BY InitInv
  <1>2. OwnInv => OneOwner
    BY DEF OwnInv, OwnOf, OneOwner, ProcTypes
  <1>3. QED
    BY <1>1, <1>2, OwnStep, PTL DEF Spec

\* The invariants under the condition that callers keep Seal and Rotate apart.
LEMMA Invariants == ASSUME Quiet PROVE Spec => [](OwnInv /\ KeyInv)
  <1>1. OwnInv /\ KeyInv /\ [Next]_vars => (OwnInv /\ KeyInv)'
    BY OwnStep, KeyStep
  <1>2. QED
    BY <1>1, InitInv, PTL DEF Spec

\* The rows open under the operator's passphrase, or under one that was entered by mistake
\* since the last rotation (boot checks none), and have the active version after first
\* boots, crashes in a rotation, failed commits and migrations, as long as nobody seals
\* while a Rotate runs; the run rotate_seal shows what happens otherwise (rotate.go:57-82,
\* meta.go:36-84, boot.go:150-167, 230-270).
THEOREM RowsAlwaysOpen == ASSUME Quiet PROVE Spec => []RowsOpen
  <1>1. OwnInv /\ KeyInv => RowsOpen
    <2>. SUFFICES ASSUME OwnInv, KeyInv PROVE RowsOpen
      OBVIOUS
    <2>1. NoRow.val = 0
      BY DEF NoRow
    <2>2. ~Mixed
      BY <2>1 DEF Mixed, KeyInv, RowOpens
    <2>3. QED
      BY <2>2 DEF RowsOpen, KeyInv, RowOpens
  <1>2. QED
    BY <1>1, Invariants, PTL

\* A plaintext token is cleared only once its account has a sealed one that was there before
\* or is this token, and that opens under a passphrase that was in use
\* (migrate.go:104-207).
THEOREM ClearedWhenSealed == ASSUME Quiet PROVE Spec => ClearedOnlyWhenSealed
  <1>1. ASSUME OwnInv, KeyInv, [Next]_vars
        PROVE  [\A a \in Accounts : sess[a] # 0 /\ sess'[a] = 0 =>
                  /\ secrets'[a] # NoRow /\ secrets'[a].key \in EnteredKeys'
                  /\ secrets[a] = NoRow => secrets'[a].val = sess[a]]_vars
    <2>0. ProcTypes /\ DataTypes /\ KeyInv'
      BY <1>1, KeyStep DEF OwnInv
    <2>1. SUFFICES ASSUME NEW a \in Accounts, sess[a] # 0, sess'[a] = 0
                   PROVE  /\ secrets'[a] # NoRow /\ secrets'[a].key \in EnteredKeys'
                          /\ secrets[a] = NoRow => secrets'[a].val = sess[a]
      OBVIOUS
    <2>2. PICK p \in Procs : MigratePlaintextSessions(p) \/ \E b \in Accounts : Login(p, b)
      BY <1>1, <2>1, ZenonT(60) DEF Next, Step, vars, dbVars, Start, AcquireFileLock, OpenDB, Migrate, CheckSecrets, LoadOrInitMeta,
         UnlockSealer, Drain, Close, Signal, Crash, Accept, Done, SealWrite, RotateRead, RotateCommit, RotateSwap,
         SealEncrypt, Delete
    <2>3. ~\E b \in Accounts : Login(p, b)
      BY <2>0, <2>1 DEF Login, DataTypes
    <2>4. pc[p] = "migrate" /\ sealer[p] # NoSealer
      BY <1>1, <2>2, <2>3 DEF MigratePlaintextSessions, OwnInv, OwnOf
    <2>5. sealer[p].ver # 0
      BY <1>1, <2>4, BootAlone DEF KeyInv, KeyOf
    <2>6. secrets'[a] # NoRow /\ (secrets[a] = NoRow => secrets'[a].val = sess[a])
      <3>1. \/ secrets[a] # NoRow /\ secrets'[a] = secrets[a]
            \/ secrets'[a] = [key |-> sealer[p].key, ver |-> sealer[p].ver, val |-> sess[a]]
        BY <2>0, <2>1, <2>2, <2>3 DEF MigratePlaintextSessions, DataTypes
      <3>2. NoRow.ver = 0
        BY DEF NoRow
      <3>3. QED
        BY <2>5, <3>1, <3>2
    <2>7. QED
      BY <2>0, <2>6 DEF KeyInv, RowOpens
  <1>2. QED
    BY <1>1, Invariants, PTL DEF Spec, ClearedOnlyWhenSealed
=============================================================================
