------------------------- MODULE QuestStreamProofs -------------------------
(***************************************************************************)
(* Proofs about the event stream of a quest, for any number of connections,*)
(* any script of emissions, any size of the buffers and any faults.        *)
(***************************************************************************)
EXTENDS QuestStream, SequenceTheorems, TLAPS

Pcs   == {"idle", "gate", "list", "replay", "subscribe", "pump", "cancel", "ended", "failed", "died"}
Fresh == {"idle", "gate", "list", "replay", "subscribe"}

\* What a connection's client has got or will find in its channel.
Out(c) == flow[c] \o buf[c]

----------------------------------------------------------------------------
(* Sequences *)

\* Append adds its element, once if it is new.
LEMMA AppendRange ==
  ASSUME NEW S, NEW s \in Seq(S), NEW x \in S
  PROVE  /\ Append(s, x) \in Seq(S) /\ Range(Append(s, x)) = Range(s) \cup {x}
         /\ IsInjective(s) /\ x \notin Range(s) => IsInjective(Append(s, x))
  <1>1. /\ Append(s, x) \in Seq(S) /\ Len(Append(s, x)) = Len(s) + 1 /\ Append(s, x)[Len(s) + 1] = x
        /\ \A i \in 1..Len(s) : Append(s, x)[i] = s[i]
    BY AppendProperties
  <1>2. Len(s) \in Nat /\ DOMAIN s = 1..Len(s) /\ DOMAIN Append(s, x) = 1..(Len(s) + 1)
    BY <1>1, LenProperties
  <1>. DEFINE t == Append(s, x)
  <1>. HIDE DEF t
  <1>3. Range(t) = Range(s) \cup {x}
    BY <1>1, <1>2 DEF Range, t
  <1>4. IsInjective(s) /\ x \notin Range(s) => IsInjective(t)
    BY <1>1, <1>2 DEF Range, IsInjective, t
  <1>5. QED
    BY <1>1, <1>3, <1>4 DEF t

\* Tail takes the first element away, for good if there is no second one.
LEMMA TailRange ==
  ASSUME NEW S, NEW s \in Seq(S), s # <<>>
  PROVE  /\ Head(s) \in S /\ Tail(s) \in Seq(S) /\ Range(s) = {Head(s)} \cup Range(Tail(s))
         /\ IsInjective(s) => IsInjective(Tail(s)) /\ Head(s) \notin Range(Tail(s))
  <1>. DEFINE t == Tail(s)
  <1>1. /\ Head(s) \in S /\ t \in Seq(S) /\ Len(t) = Len(s) - 1 /\ Head(s) = s[1]
        /\ \A i \in 1..Len(t) : t[i] = s[i + 1]
    BY HeadTailProperties
  <1>2. Len(s) \in Nat \ {0} /\ DOMAIN s = 1..Len(s) /\ DOMAIN t = 1..(Len(s) - 1)
    BY <1>1, LenProperties, EmptySeq
  <1>. HIDE DEF t
  <1>3. Range(s) = {Head(s)} \cup Range(t)
    <2>1. \A i \in 1..Len(s) : i = 1 \/ (i - 1 \in 1..(Len(s) - 1) /\ t[i - 1] = s[i])
      BY <1>1, <1>2
    <2>2. Range(s) \subseteq {s[1]} \cup Range(t)
      BY <1>2, <2>1 DEF Range
    <2>3. 1 \in DOMAIN s /\ \A i \in DOMAIN t : i + 1 \in DOMAIN s /\ t[i] = s[i + 1]
      BY <1>1, <1>2
    <2>4. {s[1]} \cup Range(t) \subseteq Range(s)
      BY <2>3 DEF Range
    <2>5. QED
      BY <1>1, <2>2, <2>4
  <1>4. ASSUME IsInjective(s) PROVE IsInjective(t) /\ Head(s) \notin Range(t)
    <2>1. \A i \in DOMAIN t : i \in Nat /\ i # 0 /\ i + 1 \in DOMAIN s /\ t[i] = s[i + 1]
      BY <1>1, <1>2
    <2>2. 1 \in DOMAIN s
      BY <1>2
    <2>3. IsInjective(t)
      <3>1. SUFFICES ASSUME NEW i \in DOMAIN t, NEW j \in DOMAIN t, t[i] = t[j] PROVE i = j
        BY DEF IsInjective
      <3>2. i + 1 = j + 1
        BY <1>4, <2>1, <3>1 DEF IsInjective
      <3>3. QED
        BY <2>1, <3>2
    <2>4. ASSUME Head(s) \in Range(t) PROVE FALSE
      <3>1. PICK i \in DOMAIN t : t[i] = s[1]
        BY <1>1, <2>4 DEF Range
      <3>2. i + 1 = 1
        BY <1>4, <2>1, <2>2, <3>1 DEF IsInjective
      <3>3. QED
        BY <2>1, <3>2
    <2>5. QED
      BY <2>3, <2>4
  <1>5. QED
    BY <1>1, <1>3, <1>4 DEF t

\* Without takes its element away and keeps the others, each once.
LEMMA WithoutRange ==
  ASSUME NEW S, NEW s \in Seq(S), NEW x, IsInjective(s)
  PROVE  /\ Without(s, x) \in Seq(S) /\ IsInjective(Without(s, x)) /\ Range(Without(s, x)) = Range(s) \ {x}
  <1>0. Len(s) \in Nat /\ DOMAIN s = 1..Len(s) /\ \A i \in 1..Len(s) : s[i] \in S
    BY LenProperties, ElementOfSeq
  <1>1. CASE x \notin Range(s)
    BY <1>1 DEF Without
  <1>2. CASE x \in Range(s)
    <2>. DEFINE k == CHOOSE i \in DOMAIN s : s[i] = x
                a == SubSeq(s, 1, k - 1)
                b == SubSeq(s, k + 1, Len(s))
                t == a \o b
    <2>1. k \in 1..Len(s) /\ s[k] = x /\ Without(s, x) = t
      BY <1>0, <1>2 DEF Range, Without, RemoveAt
    <2>. HIDE DEF k
    <2>2. a \in Seq(S) /\ Len(a) = k - 1 /\ \A i \in 1..(k - 1) : a[i] = s[i]
      <3>1. 1 \in Int /\ k - 1 \in Int /\ \A i \in 1..(k - 1) : s[i] \in S
        BY <1>0, <2>1
      <3>2. /\ a \in Seq(S) /\ Len(a) = IF 1 <= k - 1 THEN (k - 1) - 1 + 1 ELSE 0
            /\ \A i \in 1..((k - 1) - 1 + 1) : a[i] = s[1 + i - 1]
        BY <3>1, SubSeqProperties
      <3>3. QED
        BY <1>0, <2>1, <3>2
    <2>3. b \in Seq(S) /\ Len(b) = Len(s) - k /\ \A i \in 1..(Len(s) - k) : b[i] = s[k + i]
      <3>1. k + 1 \in Int /\ Len(s) \in Int /\ \A i \in (k + 1)..Len(s) : s[i] \in S
        BY <1>0, <2>1
      <3>2. /\ b \in Seq(S) /\ Len(b) = IF k + 1 <= Len(s) THEN Len(s) - (k + 1) + 1 ELSE 0
            /\ \A i \in 1..(Len(s) - (k + 1) + 1) : b[i] = s[k + 1 + i - 1]
        BY <3>1, SubSeqProperties
      <3>. HIDE DEF b
      <3>3. Len(b) = Len(s) - k
        <4>1. k \in Nat /\ Len(s) \in Nat /\ k <= Len(s)
          BY <1>0, <2>1
        <4>2. Len(b) = IF k + 1 <= Len(s) THEN Len(s) - (k + 1) + 1 ELSE 0
          BY <3>2
        <4>3. CASE k = Len(s)
          BY <4>1, <4>2, <4>3
        <4>4. CASE k < Len(s)
          BY <4>1, <4>2, <4>4
        <4>5. QED
          BY <4>1, <4>3, <4>4
      <3>4. ASSUME NEW i \in 1..(Len(s) - k) PROVE b[i] = s[k + i]
        <4>1. i \in 1..(Len(s) - (k + 1) + 1) /\ k + 1 + i - 1 = k + i
          BY <1>0, <2>1
        <4>2. QED
          BY <3>2, <4>1
      <3>5. QED
        BY <3>2, <3>3, <3>4
    <2>. HIDE DEF a, b
    <2>4. t \in Seq(S) /\ Len(t) = Len(s) - 1 /\ \A i \in 1..(Len(s) - 1) : t[i] = IF i < k THEN s[i] ELSE s[i + 1]
      <3>1. /\ t \in Seq(S) /\ Len(t) = Len(a) + Len(b)
            /\ \A i \in 1..(Len(a) + Len(b)) : t[i] = IF i <= Len(a) THEN a[i] ELSE b[i - Len(a)]
        BY <2>2, <2>3, ConcatProperties
      <3>. HIDE DEF t
      <3>2. Len(t) = Len(s) - 1
        BY <1>0, <2>1, <2>2, <2>3, <3>1
      <3>3. ASSUME NEW i \in 1..(Len(s) - 1) PROVE t[i] = IF i < k THEN s[i] ELSE s[i + 1]
        <4>1. CASE i < k
          <5>1. i \in 1..(Len(a) + Len(b)) /\ i <= Len(a) /\ i \in 1..(k - 1)
            BY <1>0, <2>1, <2>2, <2>3, <4>1
          <5>2. QED
            BY <2>2, <3>1, <4>1, <5>1
        <4>2. CASE ~(i < k)
          <5>1. i \in 1..(Len(a) + Len(b)) /\ ~(i <= Len(a)) /\ i - Len(a) \in 1..(Len(s) - k) /\ k + (i - Len(a)) = i + 1
            BY <1>0, <2>1, <2>2, <2>3, <4>2
          <5>2. t[i] = b[i - Len(a)] /\ b[i - Len(a)] = s[k + (i - Len(a))]
            BY <2>3, <3>1, <5>1
          <5>3. QED
            BY <4>2, <5>1, <5>2
        <4>3. QED
          BY <4>1, <4>2
      <3>4. QED
        BY <3>1, <3>2, <3>3
    <2>5. DOMAIN t = 1..(Len(s) - 1)
      BY <2>4, LenProperties
    <2>. HIDE DEF t
    <2>6. IsInjective(t)
      BY <1>0, <2>1, <2>4, <2>5, SMTT(30) DEF IsInjective
    <2>7. Range(t) = Range(s) \ {x}
      <3>1. \A i \in 1..Len(s) : i # k =>
              \/ i < k /\ i \in 1..(Len(s) - 1) /\ t[i] = s[i]
              \/ i > k /\ i - 1 \in 1..(Len(s) - 1) /\ t[i - 1] = s[i]
        BY <1>0, <2>1, <2>4, SMTT(30)
      <3>2. Range(s) \ {x} \subseteq Range(t)
        BY <1>0, <2>1, <2>5, <3>1 DEF Range
      <3>3. \A i \in 1..(Len(s) - 1) : \E j \in 1..Len(s) : j # k /\ t[i] = s[j]
        BY <1>0, <2>1, <2>4
      <3>4. Range(t) \subseteq Range(s) \ {x}
        BY <1>0, <2>1, <2>5, <3>3 DEF Range, IsInjective
      <3>5. QED
        BY <3>2, <3>4
    <2>8. QED
      BY <2>1, <2>4, <2>6, <2>7
  <1>3. QED
    BY <1>1, <1>2

\* A larger last element keeps a sequence increasing.
LEMMA IncreasingAppend ==
  ASSUME NEW s \in Seq(Nat), NEW x \in Nat, Increasing(s), \A y \in Range(s) : y < x
  PROVE  Increasing(Append(s, x))
  <1>. DEFINE t == Append(s, x)
  <1>1. Len(s) \in Nat /\ DOMAIN s = 1..Len(s) /\ \A i \in 1..Len(s) : s[i] \in Nat
    BY LenProperties, ElementOfSeq
  <1>2. t \in Seq(Nat) /\ Len(t) = Len(s) + 1 /\ t[Len(s) + 1] = x /\ \A i \in 1..Len(s) : t[i] = s[i]
    BY AppendProperties
  <1>3. DOMAIN t = 1..(Len(s) + 1)
    BY <1>2, LenProperties
  <1>. HIDE DEF t
  <1>4. Increasing(t)
    <2>1. SUFFICES ASSUME NEW i \in DOMAIN t, NEW j \in DOMAIN t, i < j PROVE t[i] < t[j]
      BY DEF Increasing
    <2>2. i \in 1..Len(s) /\ t[i] = s[i] /\ s[i] \in Range(s)
      BY <1>1, <1>2, <1>3, <2>1 DEF Range
    <2>3. CASE j = Len(s) + 1
      BY <1>2, <2>2, <2>3
    <2>4. CASE j # Len(s) + 1
      <3>1. j \in DOMAIN s /\ t[j] = s[j] /\ i \in DOMAIN s
        BY <1>1, <1>2, <1>3, <2>2, <2>4
      <3>2. QED
        BY <2>1, <2>2, <3>1 DEF Increasing
    <2>5. QED
      BY <2>3, <2>4
  <1>5. QED
    BY <1>4 DEF t

\* What is appended to the channel comes last of all; what is taken from it was next.
LEMMA OutMoves ==
  ASSUME NEW f \in Seq(Nat), NEW b \in Seq(Nat)
  PROVE  /\ f \o b \in Seq(Nat) /\ Range(f \o b) = Range(f) \cup Range(b)
         /\ \A x \in Nat : f \o Append(b, x) = Append(f \o b, x)
         /\ b # <<>> => Append(f, Head(b)) \o Tail(b) = f \o b
  <1>1. f \o b \in Seq(Nat) /\ Range(f \o b) = Range(f) \cup Range(b)
    BY ConcatProperties, RangeConcatenation
  <1>2. ASSUME NEW x \in Nat PROVE f \o Append(b, x) = Append(f \o b, x)
    <2>1. <<x>> \in Seq(Nat)
      OBVIOUS
    <2>2. Append(b, x) = b \o <<x>> /\ Append(f \o b, x) = (f \o b) \o <<x>>
      BY <1>1, AppendIsConcat
    <2>3. (f \o b) \o <<x>> = f \o (b \o <<x>>)
      BY <2>1, ConcatAssociative
    <2>4. QED
      BY <2>2, <2>3
  <1>3. ASSUME b # <<>> PROVE Append(f, Head(b)) \o Tail(b) = f \o b
    <2>1. Head(b) \in Nat /\ Tail(b) \in Seq(Nat) /\ <<Head(b)>> \in Seq(Nat)
      BY <1>3, HeadTailProperties
    <2>2. Append(f, Head(b)) = f \o <<Head(b)>>
      BY <2>1, AppendIsConcat
    <2>3. (f \o <<Head(b)>>) \o Tail(b) = f \o (<<Head(b)>> \o Tail(b))
      BY <2>1, ConcatAssociative, SMTT(30)
    <2>4. <<Head(b)>> \o Tail(b) = b
      BY <1>3, <2>1
    <2>5. QED
      BY <2>2, <2>3, <2>4
  <1>4. QED
    BY <1>1, <1>2, <1>3

----------------------------------------------------------------------------
(* The inductive invariant *)

\* The types, and the snapshot that emit is working off.
Types ==
  /\ script \in Scripts /\ now \in 0..Len(script) /\ wrote \in BOOLEAN
  /\ subs \in Seq(Conns) /\ IsInjective(subs) /\ snap \in Seq(Conns) /\ IsInjective(snap)
  /\ wrote => snap # <<>> /\ Mine(now)
  /\ rows \subseteq Int /\ \A n \in rows : n <= now

\* The types of the connections' state.
ConnTypes ==
  /\ pc \in [Conns -> Pcs] /\ live \in [Conns -> BOOLEAN] /\ terminal \in [Conns -> BOOLEAN]
  /\ history \in [Conns -> SUBSET Int] /\ told \in [Conns -> SUBSET Int]
  /\ buf \in [Conns -> Seq(Nat)] /\ flow \in [Conns -> Seq(Nat)]
  /\ since \in [Conns -> Nat] /\ dropped \in [Conns -> SUBSET Nat]

\* Nothing a connection knows of is ahead of the engine; it is subscribed from Subscribe to
\* the deferred cancel, may be in a snapshot until it has returned, and while it pumps, the
\* snapshot is younger than its subscription and its subscription than its history.
Order(c) ==
  /\ \A n \in history[c] : n <= now
  /\ \A n \in told[c] : n <= now
  /\ \A n \in dropped[c] : n <= now
  /\ since[c] <= now
  /\ c \in Range(subs) <=> pc[c] \in {"pump", "cancel"}
  /\ c \in Range(snap) => pc[c] \in {"pump", "cancel", "ended"}
  /\ c \in Range(snap) /\ pc[c] = "pump" => since[c] < now /\ now \notin dropped[c]
  /\ pc[c] = "pump" => \A n \in told[c] : n <= since[c]

\* How the stream of a connection ended, if it has.
Ended(c) == terminal[c] \/ (flow[c] # <<>> /\ IsTerminal(Type(Last(flow[c]))))

\* What a connection has told and will tell.
Stream(c) ==
  /\ pc[c] \in Fresh => flow[c] = <<>> /\ buf[c] = <<>>
  /\ ~live[c] => told[c] = {} /\ flow[c] = <<>>
  /\ told[c] \cap Range(flow[c]) = {}
  /\ pc[c] = "pump" /\ live[c] => Range(Out(c)) = Due(c) /\ Increasing(Out(c))
  /\ pc[c] \in {"cancel", "ended"} /\ live[c] => Ended(c)

\* The inductive invariant.
StreamInv == Types /\ ConnTypes /\ \A c \in Conns : Order(c) /\ Stream(c)

\* Everything about the connection c stays as it is.
SameConn(c) ==
  /\ pc'[c] = pc[c] /\ live'[c] = live[c] /\ terminal'[c] = terminal[c] /\ history'[c] = history[c]
  /\ told'[c] = told[c] /\ flow'[c] = flow[c] /\ buf'[c] = buf[c]
  /\ since'[c] = since[c] /\ dropped'[c] = dropped[c]

\* The empty sequence tells nothing.
LEMMA Empty == Range(<<>>) = {} /\ Increasing(<<>>) /\ IsInjective(<<>>) /\ <<>> \in Seq(Conns) /\ <<>> \o <<>> = <<>>
  BY DEF Range, Increasing, IsInjective

\* The invariant holds before the quest is created.
LEMMA InitInv == Init => StreamInv
  <1>. SUFFICES ASSUME Init PROVE StreamInv
    OBVIOUS
  <1>1. Len(script) \in Nat
    BY ScriptsAssumption DEF Init
  <1>2. Types
    <2>1. script \in Scripts /\ now = 0 /\ wrote = FALSE /\ subs = <<>> /\ snap = <<>> /\ rows = {}
      BY DEF Init
    <2>2. 0 \in 0..Len(script)
      BY <1>1
    <2>3. QED
      BY <2>1, <2>2, Empty DEF Types
  <1>3. ConnTypes
    BY DEF Init, ConnTypes, Pcs
  <1>4. ASSUME NEW c \in Conns PROVE Order(c) /\ Stream(c)
    BY Empty DEF Init, Order, Stream, Fresh
  <1>5. QED
    BY <1>2, <1>3, <1>4 DEF StreamInv

\* A connection that a step does not concern.
LEMMA Frame ==
  ASSUME NEW c \in Conns, Order(c), Stream(c), SameConn(c), script' = script, now' = now,
         c \in Range(subs') <=> c \in Range(subs), c \in Range(snap') <=> c \in Range(snap)
  PROVE  Order(c)' /\ Stream(c)'
  <1>1. Order(c)'
    BY DEF Order, SameConn
  <1>2. Due(c)' = Due(c) /\ Out(c)' = Out(c) /\ Ended(c)' = Ended(c)
    BY DEF Due, Out, Ended, SameConn, Mine, Type
  <1>3. Stream(c)'
    BY <1>2 DEF Stream, SameConn
  <1>4. QED
    BY <1>1, <1>3

\* What the service writes by itself is before every emission.
LEMMA ServiceStep ==
  ASSUME StreamInv, CreateRow \/ CreateEvent \/ CancelUpdate \/ CancelEvent PROVE StreamInv'
  <1>1. UNCHANGED <<subs, engine, conn, buf, since, dropped>> /\ rows' \subseteq rows \cup {0, -1}
    BY DEF CreateRow, CreateEvent, CancelUpdate, CancelEvent, WriteQuestEvent
  <1>2. Types /\ ConnTypes /\ Len(script) \in Nat
    BY ScriptsAssumption DEF StreamInv, Types
  <1>3. Types' /\ ConnTypes'
    BY <1>1, <1>2, SMTT(30) DEF Types, ConnTypes, engine, conn, Mine
  <1>4. ASSUME NEW c \in Conns PROVE Order(c)' /\ Stream(c)'
    BY <1>1, Frame DEF StreamInv, SameConn, engine, conn
  <1>5. QED
    BY <1>3, <1>4 DEF StreamInv

\* An emission that begins is due to every subscriber and is on its way to it.
LEMMA EmitStep ==
  ASSUME StreamInv, Emit PROVE StreamInv'
  <1>1. /\ now < Len(script) /\ snap = <<>> /\ now' = now + 1 /\ snap' = subs
        /\ UNCHANGED <<script, wrote, rows, subs, conn, buf, since, dropped>>
    BY DEF Emit
  <1>2. Types /\ ConnTypes /\ Len(script) \in Nat /\ now \in Nat
    BY ScriptsAssumption DEF StreamInv, Types
  <1>3. Types'
    BY <1>1, <1>2 DEF Types
  <1>4. ConnTypes'
    BY <1>1, <1>2 DEF ConnTypes, conn
  <1>5. ASSUME NEW c \in Conns PROVE Order(c)' /\ Stream(c)'
    <2>0. Order(c) /\ Stream(c) /\ SameConn(c)
      BY <1>1 DEF StreamInv, SameConn, conn
    <2>1. /\ since[c] \in Nat /\ history[c] \subseteq Int /\ told[c] \subseteq Int /\ dropped[c] \subseteq Nat
      BY <1>2 DEF ConnTypes
    <2>2. Order(c)'
      BY <1>1, <1>2, <2>0, <2>1, Empty DEF Order, SameConn
    <2>3. Out(c)' = Out(c) /\ Ended(c)' = Ended(c)
      BY <1>1, <2>0 DEF Out, Ended, SameConn, Type
    <2>4. pc[c] = "pump" => Due(c)' = Due(c)
      BY <1>1, <1>2, <2>0, <2>1, Empty DEF Due, Order, SameConn, Mine
    <2>5. QED
      BY <2>0, <2>2, <2>3, <2>4 DEF Stream, SameConn
  <1>6. QED
    BY <1>3, <1>4, <1>5 DEF StreamInv

\* A subscriber is called: it writes its row, or passes another quest's emission by.
LEMMA CallStep ==
  ASSUME StreamInv, Call PROVE StreamInv'
  <1>0. Types /\ ConnTypes /\ Len(script) \in Nat /\ now \in Nat
    BY ScriptsAssumption DEF StreamInv, Types
  <1>1. /\ snap # <<>> /\ UNCHANGED <<script, now, subs, conn, buf, since, dropped>>
        /\ rows' \subseteq rows \cup {now}
    BY DEF Call, WriteQuestEvent
  <1>2. ConnTypes' /\ \A c \in Conns : SameConn(c)
    BY <1>0, <1>1 DEF ConnTypes, conn, SameConn
  <1>3. CASE Mine(now)
    <2>1. snap' = snap /\ wrote' = TRUE
      BY <1>3 DEF Call
    <2>2. Types'
      BY <1>0, <1>1, <1>3, <2>1 DEF Types, Mine
    <2>3. ASSUME NEW c \in Conns PROVE Order(c)' /\ Stream(c)'
      BY <1>1, <1>2, <2>1, Frame DEF StreamInv
    <2>4. QED
      BY <1>2, <2>2, <2>3 DEF StreamInv
  <1>4. CASE ~Mine(now)
    <2>1. snap' = Tail(snap) /\ wrote' = FALSE /\ rows' = rows
      BY <1>0, <1>4 DEF Call, Types
    <2>2. Tail(snap) \in Seq(Conns) /\ IsInjective(Tail(snap)) /\ Range(snap') \subseteq Range(snap)
      BY <1>0, <1>1, <2>1, TailRange DEF Types
    <2>3. Types'
      BY <1>0, <1>1, <2>1, <2>2 DEF Types
    <2>4. ASSUME NEW c \in Conns PROVE Order(c)' /\ Stream(c)'
      <3>0. Order(c) /\ Stream(c) /\ SameConn(c)
        BY <1>2 DEF StreamInv
      <3>1. Order(c)'
        BY <1>1, <2>2, <3>0 DEF Order, SameConn
      <3>2. Out(c)' = Out(c) /\ Ended(c)' = Ended(c)
        BY <1>1, <3>0 DEF Out, Ended, SameConn, Type
      <3>3. Due(c)' = Due(c)
        BY <1>1, <1>4, <3>0 DEF Due, SameConn, Mine
      <3>4. QED
        BY <3>0, <3>1, <3>2, <3>3 DEF Stream, SameConn
    <2>5. QED
      BY <1>2, <2>3, <2>4 DEF StreamInv
  <1>5. QED
    BY <1>3, <1>4

\* The send: the emission comes last in the channel of the subscriber, or is dropped.
LEMMA SendStep ==
  ASSUME StreamInv, Send PROVE StreamInv'
  <1>0. Types /\ ConnTypes /\ Len(script) \in Nat /\ now \in Nat
    BY ScriptsAssumption DEF StreamInv, Types
  <1>1. /\ snap # <<>> /\ wrote /\ wrote' = FALSE /\ snap' = Tail(snap)
        /\ UNCHANGED <<script, now, rows, subs, conn, since>>
    BY DEF Send
  <1>a. PICK d \in Conns : d = Head(snap)
    BY <1>0, <1>1, TailRange DEF Types
  <1>2. /\ d \in Conns /\ Tail(snap) \in Seq(Conns) /\ IsInjective(Tail(snap))
        /\ Range(snap) = {d} \cup Range(snap') /\ d \notin Range(snap') /\ Mine(now)
    BY <1>0, <1>1, <1>a, TailRange DEF Types
  <1>3. \/ pc[d] = "ended" /\ UNCHANGED <<buf, dropped>>
        \/ pc[d] # "ended" /\ buf' = [buf EXCEPT ![d] = Append(@, now)] /\ UNCHANGED dropped
        \/ pc[d] # "ended" /\ dropped' = [dropped EXCEPT ![d] = @ \cup {now}] /\ UNCHANGED buf
    BY <1>a DEF Send
  <1>4. Types'
    BY <1>0, <1>1, <1>2 DEF Types
  <1>5. buf[d] \in Seq(Nat) /\ flow[d] \in Seq(Nat) /\ Append(buf[d], now) \in Seq(Nat) /\ dropped[d] \subseteq Nat
    BY <1>0, <1>2, AppendProperties DEF ConnTypes
  <1>6. ConnTypes'
    <2>1. buf \in [Conns -> Seq(Nat)] /\ dropped \in [Conns -> SUBSET Nat]
      BY <1>0 DEF ConnTypes
    <2>2. buf' \in [Conns -> Seq(Nat)]
      BY <1>3, <1>5, <2>1
    <2>3. dropped[d] \cup {now} \in SUBSET Nat
      BY <1>0, <1>5
    <2>4. dropped' \in [Conns -> SUBSET Nat]
      BY <1>3, <2>1, <2>3
    <2>5. QED
      BY <1>0, <1>1, <2>2, <2>4 DEF ConnTypes, conn
  <1>7. ASSUME NEW c \in Conns, c # d PROVE Order(c)' /\ Stream(c)'
    <2>1. SameConn(c) /\ (c \in Range(snap') <=> c \in Range(snap))
      BY <1>0, <1>1, <1>2, <1>3, <1>7 DEF SameConn, conn, ConnTypes
    <2>2. QED
      BY <1>1, <2>1, Frame DEF StreamInv
  <1>8. Order(d) /\ Stream(d) /\ d \in Range(snap)
    BY <1>2 DEF StreamInv
  <1>9. /\ pc'[d] = pc[d] /\ live'[d] = live[d] /\ terminal'[d] = terminal[d] /\ history'[d] = history[d]
        /\ told'[d] = told[d] /\ flow'[d] = flow[d] /\ since'[d] = since[d]
        /\ pc[d] \in {"pump", "cancel", "ended"}
    BY <1>1, <1>8 DEF conn, Order
  <1>10. \A n \in dropped'[d] : n <= now
    <2>1. dropped'[d] \subseteq dropped[d] \cup {now}
      BY <1>0, <1>3 DEF ConnTypes
    <2>2. QED
      BY <1>0, <1>8, <2>1 DEF Order
  <1>11. Order(d)'
    BY <1>1, <1>2, <1>8, <1>9, <1>10 DEF Order
  <1>12. Stream(d)'
    <2>1. Ended(d)' = Ended(d)
      BY <1>1, <1>9 DEF Ended, Type
    <2>2. ASSUME pc[d] = "pump", live[d] PROVE (Range(Out(d)) = Due(d) /\ Increasing(Out(d)))'
      <3>1. /\ Range(Out(d)) = Due(d) /\ Increasing(Out(d)) /\ Out(d) \in Seq(Nat)
            /\ since[d] \in Nat /\ since[d] < now /\ now \notin dropped[d]
        BY <1>0, <1>2, <1>5, <1>8, <2>2, OutMoves DEF Stream, Order, Out, ConnTypes
      <3>2. now \notin Due(d) /\ \A n \in Due(d) : n < now
        BY <1>0, <1>8, <3>1 DEF Due
      <3>3. CASE buf' = [buf EXCEPT ![d] = Append(@, now)] /\ UNCHANGED dropped
        <4>1. Out(d)' = Append(Out(d), now)
          <5>1. buf'[d] = Append(buf[d], now)
            BY <1>0, <3>3 DEF ConnTypes
          <5>2. flow[d] \o Append(buf[d], now) = Append(flow[d] \o buf[d], now)
            BY <1>0, <1>5, OutMoves
          <5>3. QED
            BY <1>9, <5>1, <5>2 DEF Out
        <4>2. Range(Append(Out(d), now)) = Range(Out(d)) \cup {now} /\ Increasing(Append(Out(d), now))
          BY <1>0, <3>1, <3>2, AppendRange, IncreasingAppend
        <4>3. Due(d)' = Due(d) \cup {now}
          BY <1>0, <1>1, <1>2, <1>8, <1>9, <3>1, <3>3 DEF Due, Mine
        <4>4. QED
          BY <3>1, <4>1, <4>2, <4>3
      <3>4. CASE dropped' = [dropped EXCEPT ![d] = @ \cup {now}] /\ UNCHANGED buf
        <4>1. Out(d)' = Out(d)
          BY <1>9, <3>4 DEF Out
        <4>2. dropped'[d] = dropped[d] \cup {now}
          BY <1>0, <1>2, <3>4 DEF ConnTypes
        <4>3. Due(d)' = Due(d)
          BY <1>0, <1>1, <1>2, <1>8, <1>9, <4>2 DEF Due, Mine
        <4>4. QED
          BY <3>1, <4>1, <4>3
      <3>5. QED
        BY <1>3, <2>2, <3>3, <3>4
    <2>3. QED
      BY <1>8, <1>9, <2>1, <2>2 DEF Stream, Fresh
  <1>13. QED
    BY <1>4, <1>6, <1>7, <1>11, <1>12 DEF StreamInv

\* The steps of a connection before it subscribes: the history that it tells is not ahead of
\* the engine.
LEMMA OpenStep ==
  ASSUME StreamInv, NEW d \in Conns, Connect(d) \/ Gate(d) \/ List(d) \/ Replay(d) PROVE StreamInv'
  <1>0. Types /\ ConnTypes /\ Order(d) /\ Stream(d)
    BY DEF StreamInv
  <1>1. /\ UNCHANGED <<live, flow, rows, subs, engine, buf, since, dropped>>
        /\ pc[d] \in {"idle", "gate", "list", "replay"}
    BY DEF Connect, Gate, List, Replay
  <1>2. /\ pc' = [pc EXCEPT ![d] = pc'[d]] /\ pc'[d] \in Fresh \cup {"ended", "failed"}
        /\ pc'[d] = "ended" /\ live[d] => terminal'[d]
    BY <1>0 DEF Connect, Gate, List, Replay, Goto, Fresh, ConnTypes
  <1>3. terminal' = [terminal EXCEPT ![d] = terminal'[d]] /\ terminal'[d] \in BOOLEAN
    BY <1>0 DEF Connect, Gate, List, Replay, ConnTypes
  <1>4. history' = [history EXCEPT ![d] = history'[d]] /\ history'[d] \in {history[d], rows, {}}
    BY <1>0 DEF Connect, Gate, List, Replay, ConnTypes
  <1>5. told' = [told EXCEPT ![d] = told'[d]] /\ (told'[d] = told[d] \/ (live[d] /\ told'[d] = history[d]))
    <2>1. \/ told' = told
          \/ live[d] /\ told' = [told EXCEPT ![d] = history[d]]
      <3>1. Replay(d) => told' = IF live[d] THEN [told EXCEPT ![d] = history[d]] ELSE told
        BY DEF Replay
      <3>2. Connect(d) \/ Gate(d) \/ List(d) => told' = told
        BY DEF Connect, Gate, List
      <3>3. told' = told \/ told' = IF live[d] THEN [told EXCEPT ![d] = history[d]] ELSE told
        BY <3>1, <3>2
      <3>4. live[d] \in BOOLEAN
        BY <1>0 DEF ConnTypes
      <3>5. QED
        BY <3>3, <3>4
    <2>2. QED
      BY <1>0, <2>1 DEF ConnTypes
  <1>6. Types'
    BY <1>0, <1>1 DEF Types, engine, Mine
  <1>7. ConnTypes'
    <2>1. pc' \in [Conns -> Pcs] /\ terminal' \in [Conns -> BOOLEAN]
      BY <1>0, <1>2, <1>3 DEF ConnTypes, Pcs, Fresh
    <2>2. history'[d] \in SUBSET Int /\ told'[d] \in SUBSET Int
      BY <1>0, <1>4, <1>5 DEF ConnTypes, Types
    <2>3. history' \in [Conns -> SUBSET Int]
      BY <1>0, <1>4, <2>2 DEF ConnTypes
    <2>4. told' \in [Conns -> SUBSET Int]
      BY <1>0, <1>5, <2>2 DEF ConnTypes
    <2>5. QED
      BY <1>0, <1>1, <2>1, <2>3, <2>4 DEF ConnTypes
  <1>8. ASSUME NEW c \in Conns, c # d PROVE Order(c)' /\ Stream(c)'
    <2>1. SameConn(c)
      BY <1>0, <1>1, <1>2, <1>3, <1>4, <1>5, <1>8 DEF SameConn, ConnTypes
    <2>2. QED
      BY <1>1, <2>1, Frame DEF StreamInv, engine
  <1>9. Order(d)'
    BY <1>0, <1>1, <1>2, <1>4, <1>5 DEF Order, Types, engine, Fresh
  <1>10. flow[d] = <<>> /\ buf[d] = <<>>
    BY <1>0, <1>1 DEF Stream, Fresh
  <1>11. Stream(d)'
    BY <1>0, <1>1, <1>2, <1>5, <1>10, Empty DEF Stream, Fresh, Ended
  <1>12. QED
    BY <1>6, <1>7, <1>8, <1>9, <1>11 DEF StreamInv

\* Subscribe: what was told is over, what comes is new.
LEMMA SubscribeStep ==
  ASSUME StreamInv, NEW d \in Conns, Subscribe(d) PROVE StreamInv'
  <1>0. Types /\ ConnTypes /\ Order(d) /\ Stream(d) /\ Len(script) \in Nat /\ now \in Nat
    BY ScriptsAssumption DEF StreamInv, Types
  <1>1. /\ pc[d] = "subscribe" /\ pc' = [pc EXCEPT ![d] = "pump"]
        /\ subs' = Append(Without(subs, d), d) /\ since' = [since EXCEPT ![d] = now]
        /\ UNCHANGED <<live, terminal, history, told, flow, rows, engine, buf, dropped>>
    BY DEF Subscribe, Goto
  <1>2. Without(subs, d) \in Seq(Conns) /\ IsInjective(Without(subs, d)) /\ Range(Without(subs, d)) = Range(subs) \ {d}
    BY <1>0, WithoutRange DEF Types
  <1>3. subs' \in Seq(Conns) /\ IsInjective(subs') /\ Range(subs') = Range(subs) \cup {d}
    <2>1. d \notin Range(Without(subs, d))
      BY <1>2
    <2>2. QED
      BY <1>1, <1>2, <2>1, AppendRange
  <1>4. Types'
    BY <1>0, <1>1, <1>3 DEF Types, engine, Mine
  <1>5. ConnTypes'
    BY <1>0, <1>1 DEF ConnTypes, Pcs
  <1>6. ASSUME NEW c \in Conns, c # d PROVE Order(c)' /\ Stream(c)'
    <2>1. SameConn(c) /\ (c \in Range(subs') <=> c \in Range(subs))
      BY <1>0, <1>1, <1>3, <1>6 DEF SameConn, ConnTypes
    <2>2. QED
      BY <1>1, <2>1, Frame DEF StreamInv, engine
  <1>7. pc'[d] = "pump" /\ since'[d] = now /\ flow[d] = <<>> /\ buf[d] = <<>> /\ d \notin Range(snap)
    BY <1>0, <1>1 DEF ConnTypes, Stream, Order, Fresh
  <1>8. Order(d)'
    BY <1>0, <1>1, <1>3, <1>7 DEF Order, engine
  <1>9. Due(d)' = {} /\ Out(d)' = <<>>
    BY <1>0, <1>1, <1>7, Empty DEF Due, Out, engine
  <1>10. Stream(d)'
    BY <1>0, <1>1, <1>7, <1>9, Empty DEF Stream, Fresh
  <1>11. QED
    BY <1>4, <1>5, <1>6, <1>8, <1>10 DEF StreamInv

\* The pump takes the next event, and ends with a terminal one.
LEMMA PumpStep ==
  ASSUME StreamInv, NEW d \in Conns, Pump(d) PROVE StreamInv'
  <1>0. Types /\ ConnTypes /\ Order(d) /\ Stream(d) /\ Len(script) \in Nat /\ now \in Nat
    BY ScriptsAssumption DEF StreamInv, Types
  <1>1. /\ pc[d] = "pump" /\ UNCHANGED <<live, terminal, history, told, rows, subs, engine, since, dropped>>
        /\ buf[d] \in Seq(Nat) /\ flow[d] \in Seq(Nat)
    BY <1>0 DEF Pump, ConnTypes
  <1>2. ASSUME ~live[d], pc' = [pc EXCEPT ![d] = "cancel"], UNCHANGED <<buf, flow>> PROVE StreamInv'
    <2>1. Types' /\ ConnTypes'
      BY <1>0, <1>1, <1>2 DEF Types, ConnTypes, engine, Pcs, Mine
    <2>2. ASSUME NEW c \in Conns, c # d PROVE Order(c)' /\ Stream(c)'
      <3>1. SameConn(c)
        BY <1>0, <1>1, <1>2, <2>2 DEF SameConn, ConnTypes
      <3>2. QED
        BY <1>1, <3>1, Frame DEF StreamInv, engine
    <2>3. pc'[d] = "cancel"
      BY <1>0, <1>2 DEF ConnTypes
    <2>4. Order(d)'
      BY <1>0, <1>1, <1>2, <2>3 DEF Order, engine
    <2>5. Stream(d)'
      BY <1>0, <1>1, <1>2, <2>3 DEF Stream, Fresh
    <2>6. QED
      BY <2>1, <2>2, <2>4, <2>5 DEF StreamInv
  <1>3. ASSUME NEW x \in Nat, x = Head(buf[d]), buf[d] # <<>>, buf' = [buf EXCEPT ![d] = Tail(@)],
               flow' = IF live[d] THEN [flow EXCEPT ![d] = Append(@, x)] ELSE flow,
               IF isTerminalEvent(Type(x)) THEN pc' = [pc EXCEPT ![d] = "cancel"] ELSE UNCHANGED pc
        PROVE  StreamInv'
    <2>1. Tail(buf[d]) \in Seq(Nat) /\ Append(flow[d], x) \in Seq(Nat)
      BY <1>1, <1>3, TailRange, AppendRange
    <2>2. flow'[d] = IF live[d] THEN Append(flow[d], x) ELSE flow[d]
      BY <1>0, <1>3 DEF ConnTypes
    <2>3. buf'[d] = Tail(buf[d]) /\ pc'[d] \in {"pump", "cancel"} /\ (pc'[d] = "cancel" => isTerminalEvent(Type(x)))
      BY <1>0, <1>1, <1>3 DEF ConnTypes
    <2>4. buf' \in [Conns -> Seq(Nat)] /\ flow' \in [Conns -> Seq(Nat)]
      BY <1>0, <1>3, <2>1 DEF ConnTypes
    <2>5. pc' \in [Conns -> Pcs]
      BY <1>0, <1>3 DEF ConnTypes, Pcs
    <2>6. Types' /\ ConnTypes'
      BY <1>0, <1>1, <2>4, <2>5 DEF Types, ConnTypes, engine, Mine
    <2>7. ASSUME NEW c \in Conns, c # d PROVE Order(c)' /\ Stream(c)'
      <3>1. SameConn(c)
        BY <1>0, <1>1, <1>3, <2>7 DEF SameConn, ConnTypes
      <3>2. QED
        BY <1>1, <3>1, Frame DEF StreamInv, engine
    <2>8. Order(d)'
      BY <1>0, <1>1, <2>3 DEF Order, engine
    <2>9. ASSUME ~live[d] PROVE Stream(d)'
      BY <1>0, <1>1, <2>2, <2>3, <2>9 DEF Stream, Fresh
    <2>10. ASSUME live[d] PROVE Stream(d)'
      <3>1. Out(d)' = Out(d) /\ Due(d)' = Due(d)
        <4>1. Append(flow[d], x) \o Tail(buf[d]) = flow[d] \o buf[d]
          BY <1>1, <1>3, OutMoves
        <4>2. QED
          BY <1>1, <2>2, <2>3, <2>10, <4>1 DEF Out, Due, engine, Mine
      <3>2. x \in Due(d) /\ Range(Out(d)) = Due(d) /\ Increasing(Out(d))
        <4>1. x \in Range(buf[d])
          BY <1>1, <1>3, TailRange
        <4>2. x \in Range(flow[d] \o buf[d])
          BY <1>1, <4>1, OutMoves
        <4>3. QED
          BY <1>0, <1>1, <2>10, <4>2 DEF Stream, Out
      <3>3. x \notin told[d]
        BY <1>0, <1>1, <3>2 DEF Due, Order, ConnTypes
      <3>4. Range(flow'[d]) = Range(flow[d]) \cup {x}
        BY <1>1, <2>2, <2>10, AppendRange
      <3>5. told'[d] \cap Range(flow'[d]) = {}
        BY <1>0, <1>1, <3>3, <3>4 DEF Stream
      <3>6. pc'[d] = "cancel" => Ended(d)'
        <4>1. SUFFICES ASSUME pc'[d] = "cancel" PROVE Ended(d)'
          OBVIOUS
        <4>2. flow'[d] # <<>> /\ Last(flow'[d]) = x
          <5>1. /\ Append(flow[d], x) # <<>> /\ Len(Append(flow[d], x)) = Len(flow[d]) + 1
                /\ Append(flow[d], x)[Len(flow[d]) + 1] = x
            BY <1>1, AppendProperties, SMTT(30)
          <5>2. QED
            BY <2>2, <2>10, <5>1 DEF Last
        <4>3. IsTerminal(Type(x)) /\ Type(x)' = Type(x)
          BY <1>1, <2>3, <4>1 DEF isTerminalEvent, IsTerminal, Type, engine
        <4>4. QED
          BY <4>2, <4>3 DEF Ended, Type
      <3>7. QED
        BY <1>1, <2>3, <2>10, <3>1, <3>2, <3>5, <3>6 DEF Stream, Fresh
    <2>11. QED
      BY <2>6, <2>7, <2>8, <2>9, <2>10 DEF StreamInv
  <1>4. CASE ~live[d] /\ pc' = [pc EXCEPT ![d] = "cancel"] /\ UNCHANGED <<buf, flow>>
    BY <1>2, <1>4
  <1>5. CASE buf[d] # <<>> /\ buf' = [buf EXCEPT ![d] = Tail(@)]
    <2>1. Head(buf[d]) \in Nat
      BY <1>1, <1>5, TailRange
    <2>2. \/ ~live[d] /\ pc' = [pc EXCEPT ![d] = "cancel"] /\ UNCHANGED <<buf, flow>>
          \/ /\ flow' = IF live[d] THEN [flow EXCEPT ![d] = Append(@, Head(buf[d]))] ELSE flow
             /\ IF isTerminalEvent(Type(Head(buf[d]))) THEN pc' = [pc EXCEPT ![d] = "cancel"] ELSE UNCHANGED pc
      BY DEF Pump, Goto
    <2>3. QED
      BY <1>3, <1>4, <1>5, <2>1, <2>2
  <1>6. QED
    BY <1>4, <1>5 DEF Pump, Goto

\* The deferred cancel.
LEMMA UnsubscribeStep ==
  ASSUME StreamInv, NEW d \in Conns, Unsubscribe(d) PROVE StreamInv'
  <1>0. Types /\ ConnTypes /\ Order(d) /\ Stream(d) /\ Len(script) \in Nat /\ now \in Nat
    BY ScriptsAssumption DEF StreamInv, Types
  <1>1. /\ pc[d] = "cancel" /\ pc' = [pc EXCEPT ![d] = "ended"] /\ subs' = Without(subs, d)
        /\ buf' = [buf EXCEPT ![d] = <<>>] /\ since' = [since EXCEPT ![d] = 0]
        /\ dropped' = [dropped EXCEPT ![d] = {}]
        /\ UNCHANGED <<live, terminal, history, told, flow, rows, engine>>
    BY DEF Unsubscribe, Goto
  <1>2. subs' \in Seq(Conns) /\ IsInjective(subs') /\ Range(subs') = Range(subs) \ {d}
    BY <1>0, <1>1, WithoutRange DEF Types
  <1>3. Types'
    BY <1>0, <1>1, <1>2 DEF Types, engine, Mine
  <1>4. ConnTypes'
    <2>1. buf' \in [Conns -> Seq(Nat)]
      BY <1>0, <1>1 DEF ConnTypes
    <2>2. QED
      BY <1>0, <1>1, <2>1 DEF ConnTypes, Pcs
  <1>5. ASSUME NEW c \in Conns, c # d PROVE Order(c)' /\ Stream(c)'
    <2>1. SameConn(c) /\ (c \in Range(subs') <=> c \in Range(subs))
      BY <1>0, <1>1, <1>2, <1>5 DEF SameConn, ConnTypes
    <2>2. QED
      BY <1>1, <2>1, Frame DEF StreamInv, engine
  <1>6. pc'[d] = "ended" /\ since'[d] = 0 /\ dropped'[d] = {}
    BY <1>0, <1>1 DEF ConnTypes
  <1>7. Order(d)'
    BY <1>0, <1>1, <1>2, <1>6 DEF Order, engine
  <1>8. Ended(d)' = Ended(d)
    BY <1>1 DEF Ended, Type, engine
  <1>9. Stream(d)'
    BY <1>0, <1>1, <1>6, <1>8 DEF Stream, Fresh
  <1>10. QED
    BY <1>3, <1>4, <1>5, <1>7, <1>9 DEF StreamInv

\* A client that has gone has been told nothing.
LEMMA GoneStep ==
  ASSUME StreamInv, NEW d \in Conns, Gone(d) PROVE StreamInv'
  <1>0. Types /\ ConnTypes /\ Order(d) /\ Stream(d)
    BY DEF StreamInv
  <1>1. /\ live' = [live EXCEPT ![d] = FALSE] /\ told' = [told EXCEPT ![d] = {}] /\ flow' = [flow EXCEPT ![d] = <<>>]
        /\ UNCHANGED <<pc, terminal, history, rows, subs, engine, buf, since, dropped>>
    BY DEF Gone
  <1>2. Types'
    BY <1>0, <1>1 DEF Types, engine, Mine
  <1>3. ConnTypes'
    <2>1. flow' \in [Conns -> Seq(Nat)]
      BY <1>0, <1>1 DEF ConnTypes
    <2>2. live' \in [Conns -> BOOLEAN] /\ told' \in [Conns -> SUBSET Int]
      BY <1>0, <1>1 DEF ConnTypes
    <2>3. QED
      BY <1>0, <1>1, <2>1, <2>2 DEF ConnTypes
  <1>4. ASSUME NEW c \in Conns, c # d PROVE Order(c)' /\ Stream(c)'
    <2>1. SameConn(c)
      BY <1>0, <1>1, <1>4 DEF SameConn, ConnTypes
    <2>2. QED
      BY <1>1, <2>1, Frame DEF StreamInv, engine
  <1>5. live'[d] = FALSE /\ told'[d] = {} /\ flow'[d] = <<>>
    BY <1>0, <1>1 DEF ConnTypes
  <1>6. Order(d)'
    BY <1>0, <1>1, <1>5 DEF Order, engine
  <1>7. Stream(d)'
    BY <1>0, <1>1, <1>5 DEF Stream
  <1>8. QED
    BY <1>2, <1>3, <1>4, <1>6, <1>7 DEF StreamInv

\* The daemon stops: no connection is subscribed any more.
LEMMA StopStep ==
  ASSUME StreamInv, Stop PROVE StreamInv'
  <1>0. Types /\ ConnTypes /\ Len(script) \in Nat /\ now \in Nat
    BY ScriptsAssumption DEF StreamInv, Types
  <1>1. /\ now < Len(script) /\ now' = Len(script) /\ subs' = <<>> /\ snap' = <<>> /\ wrote' = FALSE
        /\ pc' = [c \in Conns |-> IF pc[c] \in {"idle", "ended", "failed"} THEN pc[c] ELSE "died"]
        /\ UNCHANGED <<script, rows, live, terminal, history, told, flow, buf, since, dropped>>
    BY DEF Stop
  <1>2. Types'
    <2>1. now' \in 0..Len(script') /\ \A n \in rows' : n <= now'
      BY <1>0, <1>1 DEF Types
    <2>2. QED
      BY <1>0, <1>1, <2>1, Empty DEF Types
  <1>3. ConnTypes'
    BY <1>0, <1>1 DEF ConnTypes, Pcs
  <1>4. ASSUME NEW c \in Conns PROVE Order(c)' /\ Stream(c)'
    <2>1. Order(c) /\ Stream(c) /\ since[c] \in Nat /\ history[c] \subseteq Int /\ told[c] \subseteq Int /\ dropped[c] \subseteq Nat
      BY <1>0 DEF StreamInv, ConnTypes
    <2>2. pc'[c] \in {"idle", "ended", "failed", "died"} /\ (pc'[c] # "died" => pc'[c] = pc[c])
      BY <1>0, <1>1 DEF ConnTypes
    <2>3. Order(c)'
      BY <1>0, <1>1, <2>1, <2>2, Empty DEF Order
    <2>4. Ended(c)' = Ended(c)
      BY <1>1 DEF Ended, Type
    <2>5. Stream(c)'
      BY <1>1, <2>1, <2>2, <2>4 DEF Stream, Fresh
    <2>6. QED
      BY <2>3, <2>5
  <1>5. QED
    BY <1>2, <1>3, <1>4 DEF StreamInv

\* Every step keeps the invariant.
LEMMA InvStep == StreamInv /\ [Next]_vars => StreamInv'
  <1>. SUFFICES ASSUME StreamInv, [Next]_vars PROVE StreamInv'
    OBVIOUS
  <1>1. CASE UNCHANGED vars
    <2>1. UNCHANGED <<rows, subs, engine, conn, buf, since, dropped>>
      BY <1>1 DEF vars
    <2>2. Types' /\ ConnTypes'
      BY <2>1 DEF StreamInv, Types, ConnTypes, engine, conn, Mine
    <2>3. ASSUME NEW c \in Conns PROVE Order(c)' /\ Stream(c)'
      BY <2>1, Frame DEF StreamInv, SameConn, engine, conn
    <2>4. QED
      BY <2>2, <2>3 DEF StreamInv
  <1>2. CASE Next
    BY <1>2, ServiceStep, EmitStep, CallStep, SendStep, OpenStep, SubscribeStep, PumpStep, UnsubscribeStep, GoneStep, StopStep
       DEF Next, EngineStep, Step
  <1>3. QED
    BY <1>1, <1>2

\* The invariant of every behaviour.
LEMMA Invariant == Spec => []StreamInv
  BY InitInv, InvStep, PTL DEF Spec

----------------------------------------------------------------------------
\* Replay and live never tell the same event, whatever other connections persist between
\* the read of the history and the subscription (standard_quest.go:601-683).
THEOREM ReplayThenLive == Spec => []ReplayLiveDisjoint
  <1>1. StreamInv => ReplayLiveDisjoint
    BY DEF StreamInv, Stream, ReplayLiveDisjoint
  <1>2. QED
    BY <1>1, Invariant, PTL

\* A connection that pumps has been sent exactly this quest's emissions since it
\* subscribed, in order, but for those that found its buffer full, whatever the size of the
\* buffer and however many others subscribe, cancel or stop reading (subscribe.go:36-98).
THEOREM NothingLost == Spec => []NoEventLost
  <1>1. StreamInv => NoEventLost
    BY DEF StreamInv, Stream, NoEventLost, Out
  <1>2. QED
    BY <1>1, Invariant, PTL

\* The client's nil is the end of the quest: a stream that was cut, refused or given up
\* is never taken for one that ended (client.go:347-460, sse.go:88-114).
THEOREM NilIsTheEnd == Spec => []NilMeansEnded
  <1>1. StreamInv => NilMeansEnded
    <2>. SUFFICES ASSUME StreamInv, NEW c \in Conns, ClientReturn(c) = "nil" PROVE Ended(c)
      BY DEF NilMeansEnded, Ended
    <2>1. live[c] /\ pc[c] = "ended"
      BY DEF ClientReturn
    <2>2. QED
      BY <2>1 DEF StreamInv, Stream
  <1>2. QED
    BY <1>1, Invariant, PTL
=============================================================================
