--------------------------- MODULE PlanningProofs ---------------------------
(***************************************************************************)
(* Proofs about the planner, the resolver with its cache and the hash that *)
(* pins a plan, for every set of command lines, every catalogue, every     *)
(* calendar, any number of commands and any faults.                        *)
(***************************************************************************)
EXTENDS Planning, FiniteSetTheorems, TLAPS

\* The goal of a command in a round.
Goal(c, n) == buildGoalFromOpts(req[c], n)

\* Venues whose days are known.
Zoned == {v \in Venues : v.tz # NoTZ}

\* A plan is what BuildPlan makes of the goal of its round, for some venue, some
\* calendar and some instant.
Made(c, n) ==
  \E v \in Zoned, b \in BOOLEAN, t \in 0..MaxNow : plan[c][n] = BuildPlan(Goal(c, n), v, b, t)

\* Where PlanQuest is after Validate.
Planned == {"lookup", "fetch", "write", "calendar", "build"}

\* What Validate and the flags have made sure of when a plan is made.
Sound(c, n) ==
  /\ Day(req[c]) - 1 \in Days
  /\ ~wallTimeAfter(Goal(c, n).start, Goal(c, n).end)

\* How a command comes to its plans.
Flow(c) ==
  /\ round[c] = 2 => req[c].cmd \in {"create", "direct"} /\ (req[c].cmd = "create" => Made(c, 1))
  /\ round[c] = 1 /\ req[c].cmd = "direct" => pc[c] \in {"idle", "ended"}
  /\ pc[c] = "idle" => round[c] = 1
  /\ req[c].cmd # "resolve" /\ pc[c] \in {"validate", "confirm", "replay"} \cup Planned => Day(req[c]) - 1 \in Days
  /\ req[c].cmd # "resolve" /\ pc[c] \in Planned => \A n \in 1..2 : round[c] = n => Sound(c, n)
  /\ pc[c] \in {"validate", "calendar", "build", "confirm"} => req[c].cmd # "resolve"
  /\ pc[c] \in {"replay", "record"} => round[c] = 2
  /\ pc[c] \in {"calendar", "build"} => venues[c] # {}
  /\ pc[c] = "confirm" => req[c].cmd = "create" /\ round[c] = 1 /\ Made(c, 1)

\* A call has made the quest that it answers with.
Own(c) == Accepted(c) /\ quest[c] = c

\* A plan that is there was made for its round, and the plan of a quest at CreateQuest's
\* own instant and, if a hash was pinned, under the hash of the plan that was shown.
Pinned(c) ==
  /\ \A n \in 1..2 : plan[c][n] # NoPlan => Made(c, n) /\ Sound(c, n)
  /\ answer[c] # "none" => pc[c] \in {"record", "ended"}
  /\ Accepted(c) /\ pc[c] = "record" => quest[c] = c
  /\ Own(c) =>
       /\ req[c].cmd = "create" => Made(c, 1) /\ Hash(plan[c][2]) = Hash(plan[c][1])
       /\ Day(req[c]) - 1 \in Days
       /\ \E v \in Zoned, b \in BOOLEAN : plan[c][2] = BuildPlan(Goal(c, 2), v, b, at[c])

\* Call d made the quest that key answers with for goal, and recorded it at t.
MadeBy(d, key, goal, t) ==
  /\ d \in Calls /\ Own(d)
  /\ req[d].idempotencyKey = key /\ Goal(d, 2) = goal /\ called[d] = t

\* A recorded quest is the one of the call that recorded it, and an answer with a
\* quest names the call's own or a recorded one that had not expired.
KeysInv ==
  /\ \A k \in keys : k.answer = "ok" => MadeBy(k.quest, k.key, k.goal, k.at)
  /\ \A c \in Calls : Accepted(c) =>
       \/ quest[c] = c
       \/ /\ MadeBy(quest[c], req[c].idempotencyKey, Goal(c, 2), called[quest[c]])
          /\ called[c] < called[quest[c]] + IdemTTL

\* A row of a cache holds what the service said at most RequestTime before it was written.
Faithful(k, r) ==
  r # NoRow =>
    /\ r.at \in 0..now
    /\ \E t \in 0..r.at : t >= r.at - RequestTime /\ r.venues \in seen[k][t]

\* The service says now what it is recorded to know, the caches hold what it said,
\* and a request's answer is not older than RequestTime while it is to be written.
CacheInv ==
  /\ \A k \in Keys : up[k] \in seen[k][now]
  /\ \A k \in Keys : Faithful(k, venuesCache[k]) /\ Faithful(k, nameSearchCache[k])
  /\ \A c \in Calls : since[c] <= now
  /\ \A c \in Calls : pc[c] = "write" =>
       /\ fetched[c] <= now /\ now <= fetched[c] + RequestTime
       /\ venues[c] \in seen[req[c].key][fetched[c]]

\* The inductive invariant.
PlanningInv ==
  /\ TypeOK
  /\ \A c \in Calls : Flow(c) /\ Pinned(c)
  /\ KeysInv
  /\ CacheInv
  /\ VenueRecent

----------------------------------------------------------------------------
(* The slots. *)

\* Whole steps and the rest.
LEMMA DivMod ==
  ASSUME NEW x \in Nat, NEW m \in Nat \ {0}
  PROVE  x \div m \in Nat /\ (x % m) \in 0..(m - 1) /\ x = m * (x \div m) + (x % m)
  OBVIOUS

\* A number is made of its quotient and its rest in one way.
LEMMA DivModOf ==
  ASSUME NEW q \in Nat, NEW r \in Nat, NEW m \in Nat \ {0}, r < m
  PROVE  (q * m + r) \div m = q /\ (q * m + r) % m = r
  OBVIOUS

\* As many whole steps as fit.
LEMMA DivBound ==
  ASSUME NEW x \in Nat, NEW n \in Nat, NEW m \in Nat \ {0}
  PROVE  /\ x < n * m => x \div m < n
         /\ n <= x \div m => n * m <= x
  OBVIOUS

\* Whole steps keep the order.
LEMMA DivMonotone ==
  ASSUME NEW x \in Nat, NEW y \in Nat, NEW m \in Nat \ {0}, x <= y
  PROVE  x \div m <= y \div m
  OBVIOUS

\* Multiples keep the order.
LEMMA TimesMonotone ==
  ASSUME NEW x \in Nat, NEW y \in Nat, NEW m \in Nat \ {0}
  PROVE  (x < y <=> x * m < y * m) /\ (x <= y => x * m <= y * m)
  OBVIOUS

\* Whole blocks before the last one.
LEMMA BlocksBefore ==
  ASSUME NEW k \in Nat \ {0}, NEW n \in Nat \ {0}, NEW m \in Nat \ {0}, k <= n
  PROVE  (k - 1) * m \in Nat /\ (k - 1) * m <= n * m - m
  <1>1. k - 1 \in Nat /\ n - 1 \in Nat /\ k - 1 <= n - 1
    OBVIOUS
  <1>2. (k - 1) * m <= (n - 1) * m
    BY <1>1, TimesMonotone
  <1>3. (n - 1) * m = n * m - m /\ (k - 1) * m \in Nat
    OBVIOUS
  <1>4. QED
    BY <1>2, <1>3

\* enumerateTimes: the k-th step is start + k * SlotStep, read from either end.
LEMMA TimesOf ==
  ASSUME NEW g, g.start \in WallTimes, g.end \in WallTimes, g.start[1] <= g.end[1]
  PROVE  LET n == ((g.end[1] - g.start[1]) \div SlotStep) + 1
             step(i) == IF g.priority = "later" THEN n - i ELSE i - 1
         IN  /\ n \in Nat \ {0}
             /\ DOMAIN enumerateTimes(g) = 1..n
             /\ Len(enumerateTimes(g)) = n
             /\ \A i \in 1..n : enumerateTimes(g)[i] = <<g.start[1] + step(i) * SlotStep, g.start[2]>>
  <1>. DEFINE n == ((g.end[1] - g.start[1]) \div SlotStep) + 1
              asc == [i \in 1..n |-> <<g.start[1] + (i - 1) * SlotStep, g.start[2]>>]
  <1>1. n \in Nat \ {0}
    <2>1. g.end[1] - g.start[1] \in Nat /\ SlotStep \in Nat \ {0}
      BY ProbeAssumption DEF WallTimes
    <2>2. QED
      BY <2>1, DivMod, SMTT(30)
  <1>2. Len(asc) = n /\ DOMAIN asc = 1..n /\ \A i \in 1..n : asc[i] = <<g.start[1] + (i - 1) * SlotStep, g.start[2]>>
    BY <1>1
  <1>3. enumerateTimes(g) = IF g.priority = "later" THEN Reverse(asc) ELSE asc
    BY Zenon DEF enumerateTimes
  <1>. HIDE DEF n, asc
  <1>4. CASE g.priority = "later"
    <2>1. enumerateTimes(g) = [i \in 1..n |-> asc[n - i + 1]]
      BY <1>2, <1>3, <1>4 DEF Reverse
    <2>2. ASSUME NEW i \in 1..n
          PROVE  enumerateTimes(g)[i] = <<g.start[1] + (n - i) * SlotStep, g.start[2]>>
      <3>1. n - i + 1 \in 1..n /\ (n - i + 1) - 1 = n - i
        BY <1>1
      <3>2. QED
        BY <1>2, <2>1, <3>1
    <2>3. Len(enumerateTimes(g)) = n /\ DOMAIN enumerateTimes(g) = 1..n
      BY <1>1, <2>1
    <2>4. QED
      BY <1>1, <1>4, <2>2, <2>3 DEF n
  <1>5. CASE g.priority # "later"
    BY <1>1, <1>2, <1>3, <1>5 DEF n
  <1>6. QED
    BY <1>4, <1>5

\* The slots s of n times T and m tables: m of them to a time.
Blocks(s, n, m, T, tables) ==
  /\ DOMAIN s = 1..(n * m) /\ Len(s) = n * m /\ n * m \in Nat
  /\ \A i \in 1..(n * m) : ((i - 1) \div m) + 1 \in 1..n /\ s[i].time = T[((i - 1) \div m) + 1]
  /\ \A k \in 1..n, l \in 1..m :
       (k - 1) * m + l \in 1..(n * m) /\ s[(k - 1) * m + l] = [time |-> T[k], table |-> tables[l]]

\* ExpandSlots: every time with every table, and nothing else.
LEMMA SlotsOf ==
  ASSUME NEW g, NEW n \in Nat \ {0}, NEW m \in Nat \ {0}, NEW T, NEW tables, NEW s,
         T = enumerateTimes(g), Len(T) = n, tables = normalizeTables(g), Len(tables) = m,
         s = ExpandSlots(g)
  PROVE  Blocks(s, n, m, T, tables)
  <1>1. n * m \in Nat
    OBVIOUS
  <1>2. s = [i \in 1..(n * m) |-> [time |-> T[((i - 1) \div m) + 1], table |-> tables[((i - 1) % m) + 1]]]
    BY DEF ExpandSlots
  <1>3. DOMAIN s = 1..(n * m) /\ Len(s) = n * m
    BY <1>1, <1>2
  <1>4. ASSUME NEW i \in 1..(n * m)
        PROVE  ((i - 1) \div m) + 1 \in 1..n /\ s[i].time = T[((i - 1) \div m) + 1]
    <2>1. i - 1 \in Nat /\ i - 1 < n * m
      BY <1>1
    <2>2. (i - 1) \div m \in Nat /\ (i - 1) \div m < n
      BY <2>1, DivMod, DivBound
    <2>3. QED
      BY <1>2, <2>2
  <1>5. ASSUME NEW k \in 1..n, NEW l \in 1..m
        PROVE  (k - 1) * m + l \in 1..(n * m) /\ s[(k - 1) * m + l] = [time |-> T[k], table |-> tables[l]]
    <2>. DEFINE i == (k - 1) * m + l
    <2>1. k - 1 \in Nat /\ l - 1 \in Nat /\ l - 1 < m /\ i - 1 = (k - 1) * m + (l - 1) /\ i \in Int
      OBVIOUS
    <2>2. (i - 1) \div m = k - 1 /\ (i - 1) % m = l - 1
      <3>. DEFINE q == k - 1
                  r == l - 1
      <3>1. q \in Nat /\ r \in Nat /\ r < m /\ i - 1 = q * m + r
        BY <2>1
      <3>. HIDE DEF q, r, i
      <3>2. (q * m + r) \div m = q /\ (q * m + r) % m = r
        BY <3>1, DivModOf
      <3>3. QED
        BY <3>1, <3>2 DEF q, r
    <2>3. (k - 1) * m <= (n - 1) * m /\ (n - 1) * m + m = n * m /\ 0 <= (k - 1) * m
      BY TimesMonotone
    <2>4. i \in 1..(n * m)
      BY <1>1, <2>1, <2>3
    <2>5. ((i - 1) \div m) + 1 = k /\ ((i - 1) % m) + 1 = l
      BY <2>2
    <2>. HIDE DEF i
    <2>6. s[i] = [time |-> T[k], table |-> tables[l]]
      BY <1>2, <2>4, <2>5
    <2>7. QED
      BY <2>4, <2>6 DEF i
  <1>6. QED
    BY <1>1, <1>3, <1>4, <1>5 DEF Blocks

\* The times of a window are as many as its steps.
LEMMA TimesCounted ==
  ASSUME NEW n \in Nat, NEW T, NEW S, S = {T[i] : i \in 1..n},
         \A i, j \in 1..n : T[i] = T[j] => i = j
  PROVE  Cardinality(S) = n
  <1>. DEFINE f == [i \in 1..n |-> T[i]]
  <1>1. f \in Bijection(1..n, S)
    <2>1. f \in [1..n -> S] /\ \A i \in 1..n : f[i] = T[i]
      OBVIOUS
    <2>2. \A t \in S : \E i \in 1..n : T[i] = t
      OBVIOUS
    <2>. HIDE DEF f
    <2>3. QED
      BY <2>1, <2>2 DEF Bijection, Injection, Surjection, IsInjective
  <1>2. ExistsBijection(1..n, S)
    BY <1>1 DEF ExistsBijection
  <1>3. IsFiniteSet(1..n) /\ Cardinality(1..n) = n
    BY FS_Interval
  <1>4. QED
    BY <1>2, <1>3, FS_Bijection

\* The slots of a goal whose window is not inverted cover it.
LEMMA SlotsCover ==
  ASSUME NEW g, g.start \in WallTimes, g.end \in WallTimes, g.tables \in Seq(STRING),
         g.any <=> g.tables = <<>>, ~wallTimeAfter(g.start, g.end)
  PROVE  CoversWindow(g) /\ Len(ExpandSlots(g)) \in Nat
  <1>. DEFINE a == g.start[1]
              b == g.end[1]
              n == ((b - a) \div SlotStep) + 1
              step(i) == IF g.priority = "later" THEN n - i ELSE i - 1
              T == enumerateTimes(g)
              tables == IF g.any THEN <<NoTable>> ELSE g.tables
              m == Len(tables)
              s == ExpandSlots(g)
              times == {x.time : x \in ToSet(s)}
              later == g.priority = "later"
  <1>1. a \in Nat /\ b \in Nat /\ a <= b /\ SlotStep \in Nat \ {0}
    BY ProbeAssumption DEF WallTimes, wallTimeAfter
  <1>2. /\ n \in Nat \ {0} /\ Len(T) = n
        /\ \A i \in 1..n : T[i] = <<a + step(i) * SlotStep, g.start[2]>>
    BY <1>1, TimesOf
  <1>3. tables = normalizeTables(g) /\ T = enumerateTimes(g) /\ m = Len(tables) /\ s = ExpandSlots(g)
    BY DEF normalizeTables
  <1>4. m \in Nat \ {0} /\ DOMAIN tables = 1..m
    <2>1. CASE g.any
      BY <2>1
    <2>2. CASE ~g.any
      BY <2>2
    <2>3. QED
      BY <2>1, <2>2
  <1>. HIDE DEF n, T, tables, m, s
  <1>5. /\ DOMAIN s = 1..(n * m) /\ Len(s) = n * m /\ n * m \in Nat
        /\ \A i \in 1..(n * m) : ((i - 1) \div m) + 1 \in 1..n /\ s[i].time = T[((i - 1) \div m) + 1]
        /\ \A k \in 1..n, l \in 1..m : /\ (k - 1) * m + l \in 1..(n * m)
                                      /\ s[(k - 1) * m + l] = [time |-> T[k], table |-> tables[l]]
    <2>1. n \in Nat \ {0} /\ m \in Nat \ {0} /\ Len(T) = n /\ Len(tables) = m
      BY <1>2, <1>3, <1>4
    <2>2. Blocks(s, n, m, T, tables)
      BY <1>3, <2>1, SlotsOf, Zenon
    <2>3. QED
      BY <2>2 DEF Blocks
  <1>6. \A i \in 1..n : step(i) \in 0..(n - 1) /\ T[i][1] = a + step(i) * SlotStep
    BY <1>2
  <1>7. times = {T[k] : k \in 1..n}
    <2>1. ASSUME NEW x \in ToSet(s) PROVE x.time \in {T[k] : k \in 1..n}
      <3>1. PICK i \in 1..(n * m) : x = s[i]
        BY <1>5 DEF ToSet
      <3>2. QED
        BY <1>5, <3>1
    <2>2. ASSUME NEW k \in 1..n PROVE T[k] \in times
      <3>1. 1 \in 1..m
        BY <1>4
      <3>2. \A l \in 1..m : /\ (k - 1) * m + l \in DOMAIN s
                            /\ s[(k - 1) * m + l] = [time |-> T[k], table |-> tables[l]]
        BY <1>5
      <3>. DEFINE i == (k - 1) * m + 1
      <3>3. i \in DOMAIN s /\ s[i] = [time |-> T[k], table |-> tables[1]]
        BY <3>1, <3>2, Zenon
      <3>. HIDE DEF i
      <3>4. QED
        BY <3>3 DEF ToSet
    <2>3. QED
      BY <2>1, <2>2
  <1>8. \A i, j \in 1..n : i < j => IF later THEN T[i][1] > T[j][1] ELSE T[i][1] < T[j][1]
    <2>1. SUFFICES ASSUME NEW i \in 1..n, NEW j \in 1..n, i < j
                   PROVE  IF later THEN T[i][1] > T[j][1] ELSE T[i][1] < T[j][1]
      OBVIOUS
    <2>2. CASE later
      <3>. DEFINE x == step(j)
                  y == step(i)
      <3>1. x \in Nat /\ y \in Nat /\ x < y
        BY <1>2, <2>1, <2>2
      <3>2. T[j][1] = a + x * SlotStep /\ T[i][1] = a + y * SlotStep
        BY <1>6
      <3>. HIDE DEF x, y
      <3>3. x * SlotStep < y * SlotStep
        BY <1>1, <3>1, TimesMonotone
      <3>4. QED
        BY <1>1, <2>2, <3>1, <3>2, <3>3, SMTT(30)
    <2>3. CASE ~later
      <3>. DEFINE x == step(i)
                  y == step(j)
      <3>1. x \in Nat /\ y \in Nat /\ x < y
        BY <1>2, <2>1, <2>3
      <3>2. T[i][1] = a + x * SlotStep /\ T[j][1] = a + y * SlotStep
        BY <1>6
      <3>. HIDE DEF x, y
      <3>3. x * SlotStep < y * SlotStep
        BY <1>1, <3>1, TimesMonotone
      <3>4. QED
        BY <1>1, <2>3, <3>1, <3>2, <3>3
    <2>4. QED
      BY <2>2, <2>3
  <1>9. {t[1] : t \in times} = {v \in a..b : (v - a) % SlotStep = 0}
    <2>1. ASSUME NEW t \in times PROVE t[1] \in {v \in a..b : (v - a) % SlotStep = 0}
      <3>1. PICK k \in 1..n : t = T[k]
        BY <1>7
      <3>. DEFINE q == step(k)
      <3>2. q \in 0..(n - 1) /\ t[1] = a + q * SlotStep
        BY <1>6, <3>1
      <3>. HIDE DEF q
      <3>2a. q \in Nat /\ q <= (b - a) \div SlotStep
        <4>1. b - a \in Nat
          BY <1>1
        <4>2. (b - a) \div SlotStep \in Nat
          BY <1>1, <4>1, DivMod
        <4>3. QED
          BY <3>2, <4>2 DEF n
      <3>3. q * SlotStep <= b - a /\ q * SlotStep \in Nat
        BY <1>1, <3>2a, DivBound, SMTT(30)
      <3>4. (q * SlotStep + 0) % SlotStep = 0
        BY <1>1, <3>2a, DivModOf
      <3>5. t[1] \in a..b /\ t[1] - a = q * SlotStep + 0
        BY <1>1, <3>2, <3>3
      <3>6. QED
        BY <3>4, <3>5
    <2>2. ASSUME NEW v \in a..b, (v - a) % SlotStep = 0 PROVE \E t \in times : t[1] = v
      <3>. DEFINE q == (v - a) \div SlotStep
                  k == IF later THEN n - q ELSE q + 1
      <3>1. v - a \in Nat /\ b - a \in Nat /\ v - a <= b - a
        BY <1>1
      <3>2. q \in Nat /\ v - a = SlotStep * q + 0
        BY <1>1, <2>2, <3>1, DivMod
      <3>3. q <= (b - a) \div SlotStep
        BY <1>1, <3>1, DivMonotone
      <3>4. (b - a) \div SlotStep = n - 1
        BY <1>1, <3>1, DivMod DEF n
      <3>. HIDE DEF q
      <3>5. k \in 1..n /\ step(k) = q
        BY <1>2, <3>2, <3>3, <3>4
      <3>6. T[k][1] = v
        BY <1>1, <1>6, <3>2, <3>5, SMTT(30)
      <3>7. QED
        BY <1>7, <3>5, <3>6
    <2>3. QED
      BY <2>1, <2>2
  <1>10. Cardinality(times) = n
    <2>1. \A i \in 1..n : T[i][1] \in Int
      BY <1>1, <1>6
    <2>2. \A i, j \in 1..n : T[i] = T[j] => i = j
      BY <1>2, <1>8, <2>1
    <2>3. n \in Nat
      BY <1>2
    <2>. HIDE DEF times
    <2>4. QED
      BY <1>7, <2>2, <2>3, TimesCounted
  <1>11. ASSUME NEW t \in times
         PROVE  \E o \in 0..(Len(s) - m) : \A i \in DOMAIN tables : s[o + i] = [time |-> t, table |-> tables[i]]
    <2>1. PICK k \in 1..n : t = T[k]
      BY <1>7
    <2>2. (k - 1) * m \in Nat /\ (k - 1) * m <= n * m - m
      <3>1. k \in Nat \ {0} /\ n \in Nat \ {0} /\ k <= n
        BY <1>2
      <3>2. QED
        BY <1>4, <3>1, BlocksBefore
    <2>3. (k - 1) * m \in 0..(Len(s) - m)
      BY <1>4, <1>5, <2>2
    <2>4. QED
      BY <1>4, <1>5, <2>1, <2>3
  <1>12. ASSUME NEW i \in DOMAIN s, NEW j \in DOMAIN s, i < j
         PROVE  \/ s[i].time = s[j].time
                \/ g.priority = "later" /\ s[i].time[1] > s[j].time[1]
                \/ g.priority # "later" /\ s[i].time[1] < s[j].time[1]
    <2>. DEFINE k == ((i - 1) \div m) + 1
                l == ((j - 1) \div m) + 1
    <2>1. i - 1 \in Nat /\ j - 1 \in Nat /\ i - 1 <= j - 1
      BY <1>5, <1>12
    <2>2. (i - 1) \div m <= (j - 1) \div m
      BY <1>4, <2>1, DivMonotone
    <2>3. k \in 1..n /\ l \in 1..n /\ s[i].time = T[k] /\ s[j].time = T[l]
      BY <1>5
    <2>3a. k <= l
      <3>1. (i - 1) \div m \in Nat /\ (j - 1) \div m \in Nat
        BY <1>4, <2>1, DivMod
      <3>2. QED
        BY <2>2, <3>1
    <2>. HIDE DEF k, l
    <2>4. QED
      BY <1>2, <1>8, <2>3, <2>3a
  <1>13. ASSUME NEW t \in times PROVE t[2] = g.start[2]
    <2>1. PICK k \in 1..n : t = T[k]
      BY <1>7
    <2>2. T[k] = <<a + step(k) * SlotStep, g.start[2]>>
      BY <1>2
    <2>. HIDE DEF a
    <2>3. QED
      BY <2>1, <2>2
  <1>14. QED
    BY <1>5, <1>9, <1>10, <1>11, <1>12, <1>13 DEF CoversWindow, m, s, tables

----------------------------------------------------------------------------
(* The strategy and the hash. *)

\* The day of an instant that the calendar covers has an end, and the instant is in it.
LEMMA DayOf ==
  ASSUME NEW z \in DOMAIN Midnight, NEW t \in 0..MaxNow
  PROVE  /\ LocalDay(t, z) \in Days /\ LocalDay(t, z) + 1 \in Days
         /\ Midnight[z][LocalDay(t, z)] <= t /\ t < Midnight[z][LocalDay(t, z) + 1]
  <1>1. PICK d \in Days : d + 1 \in Days /\ Midnight[z][d] <= t /\ t < Midnight[z][d + 1]
    BY CalendarAssumption
  <1>. DEFINE e == LocalDay(t, z)
  <1>2. e \in Days /\ Midnight[z][e] <= t /\ (e + 1 \in Days => t < Midnight[z][e + 1])
    BY <1>1 DEF LocalDay
  <1>. HIDE DEF e
  <1>3. d \in Int /\ e \in Int /\ t \in Int /\ \A h \in Days : Midnight[z][h] \in Int
    BY <1>1, <1>2, ZonesAssumption, TimeAssumption
  <1>4. e <= d
    <2>1. ASSUME e > d PROVE FALSE
      <3>1. Midnight[z][d + 1] <= Midnight[z][e]
        BY <1>1, <1>2, <1>3, <2>1, ZonesAssumption
      <3>2. QED
        BY <1>1, <1>2, <1>3, <3>1
    <2>2. QED
      BY <1>3, <2>1
  <1>5. e + 1 \in Days
    BY <1>1, <1>2, <1>3, <1>4, ZonesAssumption
  <1>6. QED
    BY <1>2, <1>5 DEF e

\* A window that is open at t, or one to poll that is over by less than a second.
OpenAt(s, t) == s.until >= t \/ (s.tag = "continuous" /\ s.until + Second > t)

\* SelectStrategy does not choose a window that has ended, but in the last second of a day.
LEMMA WindowOpen ==
  ASSUME NEW g, g.date - 1 \in Days, NEW v \in Zoned, NEW b \in BOOLEAN, NEW t \in 0..MaxNow
  PROVE  /\ SelectStrategy(g, v.tz, b, t) \in Strategies
         /\ OpenAt(SelectStrategy(g, v.tz, b, t), t)
  <1>1. /\ v.tz \in DOMAIN Midnight /\ t \in Int /\ \A h \in Days : Midnight[v.tz][h] \in Int
        /\ Second \in Nat
    BY ZonesAssumption, TimeAssumption, ProbeAssumption DEF Zoned, Venues
  <1>2. CASE b
    <2>1. endOfDayIn(t, v.tz) \in Int /\ endOfDayIn(t, v.tz) + Second > t
      BY <1>1, DayOf DEF endOfDayIn
    <2>2. QED
      BY <1>2, <2>1 DEF SelectStrategy, Continuous, Strategies, OpenAt
  <1>3. CASE ~b
    <2>1. dropGuess(g, v.tz, t) \in Int /\ dropGuess(g, v.tz, t) >= t
      BY <1>1 DEF dropGuess
    <2>2. QED
      BY <1>1, <1>3, <2>1, ProbeAssumption
         DEF SelectStrategy, bestEffortDiscoveredProbe, Discovered, Strategies, OpenAt
  <1>4. QED
    BY <1>2, <1>3

\* BuildPlan keeps the goal, and covers its window.
LEMMA PlanOf ==
  ASSUME NEW g \in Goals, g.date - 1 \in Days, g.any <=> g.tables = <<>>,
         ~wallTimeAfter(g.start, g.end),
         NEW v \in Zoned, NEW b \in BOOLEAN, NEW t \in 0..MaxNow, NEW p, p = BuildPlan(g, v, b, t)
  PROVE  /\ p \in Plans /\ p.goal = g
         /\ CoversWindow(g) /\ Len(p.fire) = Len(ExpandSlots(g))
  <1>. DEFINE s == SelectStrategy(g, v.tz, b, t)
              n == Len(ExpandSlots(g))
              f == [i \in 1..n |-> FireAt(s, t)]
  <1>1. s \in Strategies
    BY WindowOpen
  <1>2. CoversWindow(g) /\ n \in Nat
    BY SlotsCover DEF Goals
  <1>3. p = [goal |-> g, venue |-> v, strategy |-> s,
             drop |-> IF s.tag = "continuous" THEN t ELSE s.from, fire |-> f]
    BY DEF BuildPlan
  <1>. HIDE DEF s, n
  <1>4. FireAt(s, t) \in Int
    BY <1>1, TimeAssumption DEF FireAt, Strategies
  <1>5. f \in Seq(Int) /\ Len(f) = n
    BY <1>2, <1>4
  <1>. HIDE DEF f
  <1>6. (IF s.tag = "continuous" THEN t ELSE s.from) \in Int
    BY <1>1, TimeAssumption DEF Strategies
  <1>7. v \in Venues
    BY DEF Zoned
  <1>8. QED
    BY <1>1, <1>2, <1>3, <1>5, <1>6, <1>7 DEF Plans, n

\* A command line's goals are goals.
LEMMA GoalOf ==
  ASSUME NEW r \in CommandLines, NEW n \in 1..2
  PROVE  LET g == buildGoalFromOpts(r, n)
         IN  g \in Goals /\ g.date = Day(r) /\ (g.any <=> g.tables = <<>>)
  <1>1. /\ r.kind \in Kinds /\ r.key \in Keys /\ r.account \in STRING /\ r.date \in Dates /\ r.party \in Nat
        /\ r.url.date \in Dates /\ r.url.seats \in Int /\ r.prefs[n] \in Prefs
    BY DEF CommandLines
  <1>2. Hints(r).date \in Dates /\ Hints(r).party \in Int
    BY <1>1 DEF Hints, ParseResyURL, parsePartyParam, NoHint, Dates
  <1>3. Day(r) \in Dates /\ Party(r) \in Int
    BY <1>1, <1>2 DEF Day, Party
  <1>4. QED
    BY <1>1, <1>3 DEF buildGoalFromOpts, Goals, Prefs

\* Two plans of a command line with one hash differ at most in the order of the tables.
LEMMA HashPins ==
  ASSUME NEW r, NEW p, NEW q, NEW v, NEW b, NEW t, NEW w, NEW d, NEW u,
         p = BuildPlan(buildGoalFromOpts(r, 1), v, b, t),
         q = BuildPlan(buildGoalFromOpts(r, 2), w, d, u), Hash(q) = Hash(p)
  PROVE  /\ SortedTables(q.goal) = SortedTables(p.goal)
         /\ [q EXCEPT !.goal.tables = p.goal.tables] = p
  <1>. DEFINE g == buildGoalFromOpts(r, 1)
              h == buildGoalFromOpts(r, 2)
              S(x) == [query |-> x.query, account |-> x.account, date |-> x.date, party |-> x.party,
                       start |-> x.start, end |-> x.end, priority |-> x.priority,
                       tables |-> SortedTables(x), any |-> x.any]
  <1>1. canonicalGoal(g) = S(g) /\ canonicalGoal(h) = S(h)
    BY DEF canonicalGoal, buildGoalFromOpts
  <1>2. /\ p.goal = g /\ q.goal = h
        /\ p = [goal |-> g, venue |-> p.venue, strategy |-> p.strategy, drop |-> p.drop, fire |-> p.fire]
        /\ q = [goal |-> h, venue |-> q.venue, strategy |-> q.strategy, drop |-> q.drop, fire |-> q.fire]
    BY DEF BuildPlan
  <1>3. /\ g = [query |-> g.query, account |-> g.account, date |-> g.date, party |-> g.party, start |-> g.start,
                end |-> g.end, priority |-> g.priority, tables |-> g.tables, any |-> g.any]
        /\ h = [query |-> h.query, account |-> h.account, date |-> h.date, party |-> h.party, start |-> h.start,
                end |-> h.end, priority |-> h.priority, tables |-> h.tables, any |-> h.any]
    BY DEF buildGoalFromOpts
  <1>. HIDE DEF g, h
  <1>4. /\ S(g) = S(h) /\ q.venue = p.venue /\ q.strategy = p.strategy /\ q.drop = p.drop /\ q.fire = p.fire
    BY <1>1, <1>2 DEF Hash
  <1>5. /\ g.query = h.query /\ g.account = h.account /\ g.date = h.date /\ g.party = h.party /\ g.start = h.start
        /\ g.end = h.end /\ g.priority = h.priority /\ g.any = h.any /\ SortedTables(g) = SortedTables(h)
    BY <1>4
  <1>6. [h EXCEPT !.tables = g.tables] = g
    BY <1>3, <1>5
  <1>7. [q EXCEPT !.goal.tables = g.tables] = [q EXCEPT !.goal = [h EXCEPT !.tables = g.tables]]
    BY <1>2
  <1>8. [q EXCEPT !.goal = g] = p
    BY <1>2, <1>4
  <1>9. QED
    BY <1>2, <1>5, <1>6, <1>7, <1>8

----------------------------------------------------------------------------
(* The steps. *)

\* What the caches may answer has the type of their rows.
LEMMA ReadRows ==
  ASSUME TypeOK, NEW c \in Calls, NEW r \in Read(req[c])
  PROVE  /\ r \in CacheRows
         /\ r # NoRow => r \in {venuesCache[req[c].key], nameSearchCache[req[c].key]}
  <1>1. req[c].key \in Keys /\ NoRow \in CacheRows
    BY TimeAssumption DEF TypeOK, CommandLines, CacheRows, NoRow
  <1>2. r \in {NoRow, venuesCache[req[c].key], nameSearchCache[req[c].key]}
    BY DEF Read, noCacheReadShim, GetNameSearchCache, GetVenueCache, Misses
  <1>3. QED
    BY <1>1, <1>2 DEF TypeOK

\* Every variable starts with its type.
LEMMA InitTypes == Init => TypeOK
  <1>. SUFFICES ASSUME Init PROVE TypeOK
    OBVIOUS
  <1>1. now \in 0..MaxNow /\ changes \in 0..MaxChanges /\ NoRow \in CacheRows
    BY TimeAssumption DEF Init, NoRow, CacheRows
  <1>2. req \in [Calls -> CommandLines]
    BY ScenariosAssumption DEF Init
  <1>3. up \in [Keys -> SUBSET Venues]
    BY CatalogueAssumption DEF Init
  <1>4. seen \in [Keys -> [0..MaxNow -> SUBSET SUBSET Venues]]
    <2>1. \A k \in Keys : \A t \in 0..MaxNow : (IF t = 0 THEN {up[k]} ELSE {}) \in SUBSET SUBSET Venues
      BY <1>3
    <2>2. QED
      BY <2>1 DEF Init
  <1>5. plan \in [Calls -> [1..2 -> Plans \cup {NoPlan}]]
    BY DEF Init
  <1>6. pc \in [Calls -> Pcs] /\ answer \in [Calls -> Answers]
    BY DEF Init, Pcs, Answers
  <1>7. stale \in [Calls -> BOOLEAN] /\ snap \in [Calls -> BOOLEAN] /\ open \in BOOLEAN
    BY DEF Init
  <1>8. /\ quest \in [Calls -> Calls \cup {NoQuest}] /\ called \in [Calls -> 0..MaxNow]
        /\ fetched \in [Calls -> 0..MaxNow] /\ keys \subseteq KeyRows
    BY <1>1 DEF Init
  <1>9. QED
    BY <1>1, <1>2, <1>3, <1>4, <1>5, <1>6, <1>7, <1>8 DEF Init, TypeOK

\* The venue of a command that plans has a zone when BuildPlan takes it.
LEMMA VenueOf ==
  ASSUME TypeOK, NEW c \in Calls, Flow(c), pc[c] = "build", Venue(c).tz # NoTZ
  PROVE  Venue(c) \in Zoned
  <1>1. venues[c] # {} /\ venues[c] \subseteq Venues
    BY DEF TypeOK, Flow
  <1>2. Venue(c) \in venues[c]
    BY <1>1 DEF Venue
  <1>3. QED
    BY <1>1, <1>2 DEF Zoned

\* What Build puts into the round's plan.
LEMMA BuiltPlan ==
  ASSUME TypeOK, NEW c \in Calls, Flow(c), pc[c] = "build", Buildable(c), NEW p,
         p = BuildPlan(buildGoalFromOpts(req[c], round[c]), Venue(c), snap[c], at[c])
  PROVE  p \in Plans /\ Venue(c) \in Zoned /\ Sound(c, round[c])
  <1>1. Venue(c) \in Zoned
    BY VenueOf DEF Buildable
  <1>2. Sound(c, round[c]) /\ round[c] \in 1..2 /\ req[c] \in CommandLines /\ snap[c] \in BOOLEAN /\ at[c] \in 0..MaxNow
    BY DEF Flow, Planned, TypeOK
  <1>. DEFINE g == buildGoalFromOpts(req[c], round[c])
  <1>3. g \in Goals /\ g.date = Day(req[c]) /\ (g.any <=> g.tables = <<>>)
    BY <1>2, GoalOf
  <1>4. g.date - 1 \in Days /\ ~wallTimeAfter(g.start, g.end)
    BY <1>2, <1>3 DEF Sound, Goal
  <1>. HIDE DEF g
  <1>5. p = BuildPlan(g, Venue(c), snap[c], at[c])
    BY DEF g
  <1>6. p \in Plans
    BY <1>1, <1>2, <1>3, <1>4, <1>5, PlanOf
  <1>7. QED
    BY <1>1, <1>2, <1>6

\* Where a command goes next has its type.
LEMMA GotoTypes ==
  ASSUME TypeOK, NEW c \in Calls, NEW l \in Pcs, Goto(c, l)
  PROVE  pc' \in [Calls -> Pcs]
  BY DEF TypeOK, Goto

\* The end of a command and its answer have their types.
LEMMA AnswerTypes ==
  ASSUME TypeOK, NEW c \in Calls, NEW a \in Answers, Answer(c, a) \/ Return(c, a)
  PROVE  pc' \in [Calls -> Pcs] /\ answer' \in [Calls -> Answers]
  BY DEF TypeOK, Answer, Return, Goto, Pcs

\* A call of CreateQuest keeps the types.
LEMMA CallTypes ==
  ASSUME TypeOK, NEW c \in Calls, Call(c)
  PROVE  pc' \in [Calls -> Pcs] /\ round' \in [Calls -> 1..2] /\ called' \in [Calls -> 0..MaxNow]
  BY DEF TypeOK, Call, Goto, Pcs

\* A choice among the hits keeps the types.
LEMMA PickTypes ==
  ASSUME TypeOK, NEW c \in Calls, NEW vs \in SUBSET Venues, Pick(c, vs)
  PROVE  pc' \in [Calls -> Pcs] /\ answer' \in [Calls -> Answers] /\ venues' \in [Calls -> SUBSET Venues]
  <1>1. venues' \in [Calls -> SUBSET Venues]
    BY DEF TypeOK, Pick
  <1>2. \/ \E a \in {"notfound", "ambiguous", "ok"} : Answer(c, a)
        \/ Goto(c, "calendar") /\ UNCHANGED answer
    BY DEF Pick
  <1>3. CASE \E a \in {"notfound", "ambiguous", "ok"} : Answer(c, a)
    BY <1>1, <1>3, AnswerTypes DEF Answers
  <1>4. CASE Goto(c, "calendar") /\ UNCHANGED answer
    BY <1>1, <1>4, GotoTypes DEF Pcs, TypeOK
  <1>5. QED
    BY <1>2, <1>3, <1>4

\* Every step keeps the types.
LEMMA NextTypes ==
  ASSUME TypeOK, \A c \in Calls : Flow(c), [Next]_vars
  PROVE  TypeOK'
  <1>. USE DEF TypeOK
  <1>1. ASSUME NEW c \in Calls, Start(c) PROVE TypeOK'
    <2>1. /\ pc' \in [Calls -> Pcs] /\ answer' \in [Calls -> Answers] /\ round' \in [Calls -> 1..2]
          /\ called' \in [Calls -> 0..MaxNow]
      <3>1. CASE Return(c, "usage") /\ UNCHANGED <<round, called>>
        BY <3>1, AnswerTypes DEF Answers
      <3>2. CASE Call(c) /\ UNCHANGED answer
        BY <3>2, CallTypes
      <3>3. CASE (\E l \in {"lookup", "validate"} : Goto(c, l)) /\ UNCHANGED <<round, called, answer>>
        BY <3>3, GotoTypes DEF Pcs
      <3>4. QED
        BY <1>1, <3>1, <3>2, <3>3 DEF Start
    <2>2. QED
      BY <1>1, <2>1 DEF Start, envVars, cache
  <1>2. ASSUME NEW c \in Calls, Begin(c) PROVE TypeOK'
    <2>1. at' \in [Calls -> 0..MaxNow]
      BY <1>2 DEF Begin
    <2>2. pc' \in [Calls -> Pcs] /\ answer' \in [Calls -> Answers]
      BY <1>2, GotoTypes, AnswerTypes DEF Begin, Pcs, Answers
    <2>3. QED
      BY <1>2, <2>1, <2>2 DEF Begin, envVars, cache, quests
  <1>3. ASSUME NEW c \in Calls, Lookup(c) PROVE TypeOK'
    <2>1. PICK r \in Read(req[c]) :
            IF r # NoRow /\ ~isStale(r)
            THEN Pick(c, r.venues) /\ UNCHANGED row
            ELSE /\ Goto(c, "fetch")
                 /\ row' = [row EXCEPT ![c] = r]
                 /\ venues' = [venues EXCEPT ![c] = {}]
                 /\ UNCHANGED answer
      BY <1>3 DEF Lookup
    <2>2. r \in CacheRows /\ r.venues \in SUBSET Venues
      BY ReadRows DEF CacheRows
    <2>3. /\ pc' \in [Calls -> Pcs] /\ answer' \in [Calls -> Answers] /\ venues' \in [Calls -> SUBSET Venues]
          /\ row' \in [Calls -> CacheRows]
      <3>1. CASE r # NoRow /\ ~isStale(r)
        BY <2>1, <2>2, <3>1, PickTypes
      <3>2. CASE ~(r # NoRow /\ ~isStale(r))
        BY <2>1, <2>2, <3>2 DEF Goto, Pcs
      <3>3. QED
        BY <3>1, <3>2
    <2>4. since' \in [Calls -> 0..MaxNow] /\ stale' \in [Calls -> BOOLEAN]
      BY <1>3 DEF Lookup
    <2>5. QED
      BY <1>3, <2>3, <2>4 DEF Lookup, envVars, cache, quests
  <1>4. ASSUME NEW c \in Calls, Fetch(c) PROVE TypeOK'
    <2>1. NoRow \in CacheRows /\ req[c].key \in Keys
      BY TimeAssumption DEF NoRow, CacheRows, CommandLines
    <2>2. QED
      <3>1. /\ pc' \in [Calls -> Pcs] /\ answer' \in [Calls -> Answers] /\ venues' \in [Calls -> SUBSET Venues]
            /\ row' \in [Calls -> CacheRows] /\ fetched' \in [Calls -> 0..MaxNow]
        <4>1. row' \in [Calls -> CacheRows]
          BY <1>4, <2>1 DEF Fetch
        <4>2. CASE Answer(c, "notfound") /\ UNCHANGED <<venues, fetched>>
          BY <4>1, <4>2, AnswerTypes DEF Answers
        <4>3. CASE /\ Goto(c, "write") /\ venues' = [venues EXCEPT ![c] = up[req[c].key]]
                   /\ fetched' = [fetched EXCEPT ![c] = now] /\ UNCHANGED answer
          BY <2>1, <4>1, <4>3, GotoTypes DEF Pcs
        <4>4. QED
          BY <1>4, <4>2, <4>3 DEF Fetch
      <3>2. QED
        BY <1>4, <3>1 DEF Fetch, envVars, cache, quests
  <1>5. ASSUME NEW c \in Calls, FetchFails(c) PROVE TypeOK'
    <2>1. NoRow \in CacheRows /\ row[c].venues \in SUBSET Venues
      BY TimeAssumption DEF NoRow, CacheRows
    <2>2. QED
      <3>1. pc' \in [Calls -> Pcs] /\ answer' \in [Calls -> Answers] /\ venues' \in [Calls -> SUBSET Venues]
        BY <1>5, <2>1, PickTypes, AnswerTypes DEF FetchFails, Answers
      <3>2. row' \in [Calls -> CacheRows] /\ stale' \in [Calls -> BOOLEAN]
        BY <1>5, <2>1 DEF FetchFails
      <3>3. QED
        BY <1>5, <3>1, <3>2 DEF FetchFails, envVars, cache, quests
  <1>6. ASSUME NEW c \in Calls, Write(c) PROVE TypeOK'
    <2>1. [venues |-> venues[c], at |-> now] \in CacheRows /\ req[c].key \in Keys
      BY TimeAssumption DEF CacheRows, CommandLines
    <2>2. QED
      <3>1. pc' \in [Calls -> Pcs] /\ answer' \in [Calls -> Answers] /\ venues' \in [Calls -> SUBSET Venues]
        BY <1>6, PickTypes DEF Write
      <3>2. venuesCache' \in [Keys -> CacheRows] /\ nameSearchCache' \in [Keys -> CacheRows]
        BY <1>6, <2>1 DEF Write, UpsertNameSearchCache, UpsertVenueCache, cache
      <3>3. fetched' \in [Calls -> 0..MaxNow]
        BY <1>6, TimeAssumption DEF Write
      <3>4. QED
        BY <1>6, <3>1, <3>2, <3>3 DEF Write, envVars, quests
  <1>7. ASSUME NEW c \in Calls, Calendar(c) PROVE TypeOK'
    <2>1. PICK b \in {open} \cup (IF "upstream" \in Faults THEN {FALSE} ELSE {}) : snap' = [snap EXCEPT ![c] = b]
      BY <1>7, Zenon DEF Calendar
    <2>2. b \in BOOLEAN
      OBVIOUS
    <2>3. snap' \in [Calls -> BOOLEAN]
      BY <2>1, <2>2
    <2>4. pc' \in [Calls -> Pcs]
      BY <1>7 DEF Calendar, Goto, Pcs
    <2>5. QED
      BY <1>7, <2>3, <2>4 DEF Calendar, envVars, cache, quests
  <1>8. ASSUME NEW c \in Calls, Build(c) PROVE TypeOK'
    <2>1. snap' \in [Calls -> BOOLEAN]
      BY <1>8 DEF Build
    <2>2. plan' \in [Calls -> [1..2 -> Plans \cup {NoPlan}]]
      <3>1. CASE ~Buildable(c)
        BY <1>8, <3>1 DEF Build
      <3>2. CASE Buildable(c)
        <4>. DEFINE p == BuildPlan(buildGoalFromOpts(req[c], round[c]), Venue(c), snap[c], at[c])
        <4>1. p \in Plans
          BY <1>8, <3>2, BuiltPlan DEF Build
        <4>. HIDE DEF p
        <4>2. plan' = [plan EXCEPT ![c][round[c]] = p]
          BY <1>8, <3>2 DEF Build, p
        <4>3. QED
          BY <4>1, <4>2
      <3>3. QED
        BY <3>1, <3>2
    <2>3. /\ \/ Goto(c, "confirm") /\ answer' = answer
             \/ \E x \in {"error", "hash", "ok"} : Answer(c, x)
          /\ quest' = quest \/ quest' = [quest EXCEPT ![c] = c]
      BY <1>8 DEF Build, Persist
    <2>4. pc' \in [Calls -> Pcs] /\ answer' \in [Calls -> Answers]
      BY <2>3, GotoTypes, AnswerTypes DEF Pcs, Answers
    <2>5. quest' \in [Calls -> Calls \cup {NoQuest}]
      BY <2>3
    <2>6. UNCHANGED <<now, req, envVars, cache, keys, called, round, at, row, venues, since, stale, fetched, seen>>
      BY <1>8 DEF Build
    <2>7. QED
      BY <2>1, <2>2, <2>4, <2>5, <2>6 DEF envVars, cache
  <1>9. ASSUME NEW c \in Calls, Confirm(c) PROVE TypeOK'
    <2>1. /\ pc' \in [Calls -> Pcs] /\ answer' \in [Calls -> Answers] /\ round' \in [Calls -> 1..2]
          /\ called' \in [Calls -> 0..MaxNow]
      <3>1. CASE Call(c) /\ UNCHANGED answer
        BY <3>1, CallTypes
      <3>2. CASE Return(c, "declined") /\ UNCHANGED <<round, called>>
        BY <3>2, AnswerTypes DEF Answers
      <3>3. QED
        BY <1>9, <3>1, <3>2 DEF Confirm
    <2>2. QED
      BY <1>9, <2>1 DEF Confirm, envVars, cache
  <1>9a. ASSUME NEW c \in Calls, Replay(c) PROVE TypeOK'
    <2>1. /\ pc' \in [Calls -> Pcs] /\ answer' \in [Calls -> Answers]
          /\ quest' \in [Calls -> Calls \cup {NoQuest}]
      <3>1. ASSUME NEW k \in OfGoal(c), Recorded(c, k)
            PROVE  /\ pc' \in [Calls -> Pcs] /\ answer' \in [Calls -> Answers]
                   /\ quest' \in [Calls -> Calls \cup {NoQuest}]
        <4>1. k.answer \in Answers /\ k.quest \in Calls \cup {NoQuest}
          BY DEF OfGoal, OfKey, KeyRows
        <4>2. Return(c, k.answer) /\ quest' = [quest EXCEPT ![c] = k.quest]
          BY <3>1 DEF Recorded
        <4>3. QED
          BY <4>1, <4>2, AnswerTypes
      <3>2. CASE (\E x \in {"conflict", "error"} : Return(c, x)) /\ UNCHANGED quest
        BY <3>2, AnswerTypes DEF Answers
      <3>3. CASE Goto(c, "validate") /\ UNCHANGED <<answer, quest>>
        BY <3>3, GotoTypes DEF Pcs
      <3>4. QED
        BY <1>9a, <3>1, <3>2, <3>3 DEF Replay
    <2>2. QED
      BY <1>9a, <2>1 DEF Replay, envVars, cache
  <1>9b. ASSUME NEW c \in Calls, Record(c) PROVE TypeOK'
    <2>. DEFINE k == [key |-> req[c].idempotencyKey, goal |-> buildGoalFromOpts(req[c], 2),
                      answer |-> answer[c], quest |-> quest[c], at |-> called[c]]
    <2>1. k \in KeyRows
      <3>1. buildGoalFromOpts(req[c], 2) \in Goals
        BY GoalOf
      <3>2. req[c].idempotencyKey \in STRING
        BY DEF CommandLines
      <3>3. QED
        BY <3>1, <3>2 DEF KeyRows
    <2>2. keys' = (keys \ OfGoal(c)) \cup {k} \/ keys' = keys
      BY <1>9b DEF Record
    <2>. HIDE DEF k
    <2>3. keys' \subseteq KeyRows
      BY <2>1, <2>2
    <2>4. pc' \in [Calls -> Pcs]
      BY <1>9b DEF Record, Goto, Pcs
    <2>5. QED
      BY <1>9b, <2>3, <2>4 DEF Record, envVars, cache
  <1>10. CASE Tick
    <2>1. now + 1 \in 0..MaxNow
      BY <1>10, TimeAssumption DEF Tick
    <2>2. seen' \in [Keys -> [0..MaxNow -> SUBSET SUBSET Venues]]
      BY <1>10, <2>1 DEF Tick
    <2>3. QED
      BY <1>10, <2>1, <2>2 DEF Tick, envVars, cache, callVars
  <1>11. CASE Rename
    <2>1. PICK k \in {req[c].key : c \in Calls} : \E vs \in Catalogue[k] \ {up[k]} :
            /\ up' = [up EXCEPT ![k] = vs]
            /\ seen' = [seen EXCEPT ![k][now] = @ \cup {vs}]
      BY <1>11 DEF Rename
    <2>2. PICK vs \in Catalogue[k] :
            /\ up' = [up EXCEPT ![k] = vs]
            /\ seen' = [seen EXCEPT ![k][now] = @ \cup {vs}]
      BY <2>1
    <2>3. k \in Keys /\ vs \in SUBSET Venues
      BY CatalogueAssumption DEF CommandLines
    <2>4. up' \in [Keys -> SUBSET Venues] /\ seen' \in [Keys -> [0..MaxNow -> SUBSET SUBSET Venues]]
      <3>. DEFINE T == [0..MaxNow -> SUBSET SUBSET Venues]
                  f == [seen[k] EXCEPT ![now] = @ \cup {vs}]
      <3>1. seen[k] \in T /\ now \in 0..MaxNow
        BY <2>3
      <3>2. seen[k][now] \cup {vs} \in SUBSET SUBSET Venues
        BY <2>3, <3>1
      <3>3. f \in T
        BY <3>1, <3>2
      <3>4. seen' = [seen EXCEPT ![k] = f]
        BY <2>2
      <3>. HIDE DEF f
      <3>5. seen' \in [Keys -> T]
        BY <2>3, <3>3, <3>4
      <3>6. QED
        BY <2>2, <2>3, <3>5
    <2>5. changes + 1 \in 0..MaxChanges
      BY <1>11, TimeAssumption DEF Rename
    <2>6. QED
      BY <1>11, <2>4, <2>5 DEF Rename, cache, callVars
  <1>12. CASE OpenDate
    <2>1. changes + 1 \in 0..MaxChanges
      BY <1>12, TimeAssumption DEF OpenDate
    <2>2. QED
      BY <1>12, <2>1 DEF OpenDate, cache, callVars
  <1>13. CASE UNCHANGED vars
    BY <1>13 DEF vars, envVars, cache, callVars
  <1>14. QED
    BY <1>1, <1>2, <1>3, <1>4, <1>5, <1>6, <1>7, <1>8, <1>9, <1>9a, <1>9b, <1>10, <1>11, <1>12, <1>13 DEF Next

\* What a plan was made of stays what it was while the plan stays.
LEMMA SameMade ==
  ASSUME NEW c, req' = req
  PROVE  /\ Day(req[c])' = Day(req[c])
         /\ \A n : Sound(c, n)' <=> Sound(c, n)
         /\ \A n : plan'[c][n] = plan[c][n] => (Made(c, n)' <=> Made(c, n))
  BY DEF Sound, Made, Goal

\* A command that a step leaves alone keeps its part of the invariant.
LEMMA OtherCall ==
  ASSUME NEW c, Flow(c), Pinned(c), req' = req, pc'[c] = pc[c], round'[c] = round[c],
         venues'[c] = venues[c], plan'[c] = plan[c], answer'[c] = answer[c], quest'[c] = quest[c],
         at'[c] = at[c]
  PROVE  Flow(c)' /\ Pinned(c)'
  <1>1. Flow(c)'
    BY SameMade DEF Flow
  <1>2. Pinned(c)'
    BY SameMade DEF Pinned, Own, Accepted, Goal
  <1>3. QED
    BY <1>1, <1>2

\* A command that stays short of a quest of its own and keeps its plans keeps what is
\* known of them.
LEMMA StillPinned ==
  ASSUME NEW c, Pinned(c), req' = req, plan'[c] = plan[c],
         answer'[c] # "none" => pc'[c] \in {"record", "ended"},
         ~(req[c].cmd \in {"create", "direct"} /\ answer'[c] = "ok")
  PROVE  Pinned(c)'
  BY SameMade DEF Pinned, Own, Accepted

\* The end of a command, or the record of what it comes to.
LEMMA Answered ==
  ASSUME TypeOK, NEW c \in Calls, NEW a, Answer(c, a) \/ Return(c, a)
  PROVE  /\ pc'[c] \in {"record", "ended"} /\ answer'[c] = a
         /\ pc'[c] = "record" => round[c] = 2
         /\ \A d \in Calls \ {c} : pc'[d] = pc[d] /\ answer'[d] = answer[d]
  BY DEF TypeOK, Answer, Return, Goto

\* Pick ends a command or sends it to the calendar with a venue.
LEMMA Picked ==
  ASSUME TypeOK, NEW c \in Calls, NEW vs, Pick(c, vs)
  PROVE  /\ venues'[c] = vs
         /\ \/ /\ pc'[c] \in {"record", "ended"} /\ answer'[c] \in {"notfound", "ambiguous", "ok"}
               /\ pc'[c] = "record" => round[c] = 2
               /\ answer'[c] = "ok" => req[c].cmd = "resolve"
            \/ pc'[c] = "calendar" /\ answer'[c] = answer[c] /\ vs # {} /\ req[c].cmd # "resolve"
         /\ \A d \in Calls \ {c} : pc'[d] = pc[d] /\ answer'[d] = answer[d] /\ venues'[d] = venues[d]
  <1>1. venues' = [venues EXCEPT ![c] = vs]
    BY DEF Pick
  <1>2. CASE \E a \in {"notfound", "ambiguous", "ok"} : Answer(c, a) /\ (a = "ok" => req[c].cmd = "resolve")
    BY <1>1, <1>2, Answered DEF TypeOK
  <1>3. CASE Goto(c, "calendar") /\ UNCHANGED answer /\ vs # {} /\ req[c].cmd # "resolve"
    BY <1>1, <1>3 DEF Goto, TypeOK
  <1>4. QED
    BY <1>2, <1>3 DEF Pick

\* A call of CreateQuest begins the second round.
LEMMA Called ==
  ASSUME TypeOK, NEW c \in Calls, Call(c)
  PROVE  /\ pc'[c] \in {"validate", "replay"} /\ round'[c] = 2 /\ called'[c] = now
         /\ \A d \in Calls \ {c} : pc'[d] = pc[d] /\ round'[d] = round[d] /\ called'[d] = called[d]
  BY DEF TypeOK, Call, Goto

\* A step of a command.
Step(c) ==
  \/ Start(c) \/ Begin(c) \/ Lookup(c) \/ Fetch(c) \/ FetchFails(c) \/ Write(c)
  \/ Calendar(c) \/ Build(c) \/ Confirm(c) \/ Replay(c) \/ Record(c)

\* A step of a command keeps how the command comes to its plans and what it made of them.
LEMMA CallKeeps ==
  ASSUME TypeOK, NEW c \in Calls, Flow(c), Pinned(c), KeysInv, Step(c)
  PROVE  Flow(c)' /\ Pinned(c)'
  <1>0. /\ pc \in [Calls -> Pcs] /\ answer \in [Calls -> Answers] /\ round \in [Calls -> 1..2]
        /\ at \in [Calls -> 0..MaxNow] /\ venues \in [Calls -> SUBSET Venues]
    BY DEF TypeOK
  <1>1. CASE Start(c)
    <2>1. ~FlagError(req[c]) /\ req[c].cmd # "resolve" => Day(req[c]) - 1 \in Days
      <3>1. Day(req[c]) \in Dates
        BY GoalOf DEF TypeOK, Goals
      <3>2. QED
        BY <3>1 DEF FlagError, FlagMissing, Dates
    <2>2. /\ req' = req /\ plan' = plan /\ pc[c] = "idle" /\ round[c] = 1 /\ answer[c] = "none"
      BY <1>1 DEF Start, Flow, Pinned
    <2>3. CASE FlagError(req[c])
      <3>1. round' = round /\ pc'[c] = "ended" /\ answer'[c] = "usage"
        BY <1>0, <1>1, <2>3 DEF Start, Return, Goto
      <3>2. Flow(c)'
        BY <2>2, <3>1, SameMade DEF Flow, Planned
      <3>3. QED
        BY <2>2, <3>1, <3>2, StillPinned
    <2>4. CASE ~FlagError(req[c]) /\ req[c].cmd # "direct"
      <3>1. /\ round' = round /\ answer' = answer
            /\ \/ pc'[c] = "lookup" /\ req[c].cmd = "resolve"
               \/ pc'[c] = "validate" /\ req[c].cmd # "resolve"
        BY <1>0, <1>1, <2>4 DEF Start, Goto
      <3>2. Flow(c)'
        BY <2>1, <2>2, <2>4, <3>1, SameMade DEF Flow, Planned
      <3>3. QED
        BY <2>2, <3>1, <3>2, StillPinned
    <2>5. CASE ~FlagError(req[c]) /\ req[c].cmd = "direct"
      <3>1. round'[c] = 2 /\ answer' = answer /\ pc'[c] \in {"validate", "replay"}
        BY <1>1, <2>5, Called DEF Start
      <3>2. Flow(c)'
        BY <2>1, <2>2, <2>5, <3>1, SameMade DEF Flow, Planned
      <3>3. QED
        BY <2>2, <3>1, <3>2, StillPinned
    <2>6. QED
      BY <2>3, <2>4, <2>5
  <1>2. CASE Begin(c)
    <2>1. /\ req' = req /\ plan' = plan /\ round' = round /\ pc[c] = "validate"
          /\ \/ pc'[c] \in {"record", "ended"} /\ (pc'[c] = "record" => round[c] = 2) /\ answer'[c] = "invalid"
             \/ /\ pc'[c] = "lookup" /\ answer'[c] = answer[c]
                /\ Validate(buildGoalFromOpts(req[c], round[c]), now)
      BY <1>0, <1>2, Answered DEF Begin, Goto
    <2>2. answer[c] = "none"
      BY <2>1 DEF Pinned
    <2>3. \A n \in 1..2 : round[c] = n /\ Validate(buildGoalFromOpts(req[c], round[c]), now) => Sound(c, n)
      BY <2>1 DEF Validate, Sound, Goal, Flow
    <2>4. Flow(c)'
      BY <2>1, <2>3, SameMade DEF Flow, Planned
    <2>5. QED
      BY <2>1, <2>2, <2>4, StillPinned
  <1>3. CASE Lookup(c)
    <2>1. /\ req' = req /\ plan' = plan /\ round' = round /\ pc[c] = "lookup"
          /\ \/ \E vs : Pick(c, vs)
             \/ pc'[c] = "fetch" /\ answer'[c] = answer[c]
      BY <1>0, <1>3 DEF Lookup, Goto
    <2>2. answer[c] = "none"
      BY <2>1 DEF Pinned
    <2>3. CASE pc'[c] = "fetch" /\ answer'[c] = answer[c]
      <3>1. Flow(c)'
        BY <2>1, <2>3, SameMade DEF Flow, Planned
      <3>2. QED
        BY <2>1, <2>2, <2>3, <3>1, StillPinned
    <2>4. CASE \E vs : Pick(c, vs)
      <3>1. PICK vs : Pick(c, vs)
        BY <2>4
      <3>2. QED
        BY <2>1, <2>2, <3>1, Picked, SameMade, StillPinned DEF Flow, Planned
    <2>5. QED
      BY <2>1, <2>3, <2>4
  <1>4. CASE Fetch(c)
    <2>1. /\ req' = req /\ plan' = plan /\ round' = round /\ pc[c] = "fetch"
          /\ \/ pc'[c] \in {"record", "ended"} /\ (pc'[c] = "record" => round[c] = 2) /\ answer'[c] = "notfound"
             \/ pc'[c] = "write" /\ answer'[c] = answer[c]
      BY <1>0, <1>4, Answered DEF Fetch, Goto
    <2>2. answer[c] = "none"
      BY <2>1 DEF Pinned
    <2>3. Flow(c)'
      BY <2>1, SameMade DEF Flow, Planned
    <2>4. QED
      BY <2>1, <2>2, <2>3, StillPinned
  <1>5. CASE FetchFails(c)
    <2>1. /\ req' = req /\ plan' = plan /\ round' = round /\ pc[c] = "fetch"
          /\ \/ \E vs : Pick(c, vs)
             \/ pc'[c] \in {"record", "ended"} /\ (pc'[c] = "record" => round[c] = 2) /\ answer'[c] = "upstream"
      BY <1>0, <1>5, Answered DEF FetchFails, Goto
    <2>2. answer[c] = "none"
      BY <2>1 DEF Pinned
    <2>3. CASE pc'[c] \in {"record", "ended"} /\ (pc'[c] = "record" => round[c] = 2) /\ answer'[c] = "upstream"
      <3>1. Flow(c)'
        BY <2>1, <2>3, SameMade DEF Flow, Planned
      <3>2. QED
        BY <2>1, <2>2, <2>3, <3>1, StillPinned
    <2>4. CASE \E vs : Pick(c, vs)
      <3>1. PICK vs : Pick(c, vs)
        BY <2>4
      <3>2. QED
        BY <2>1, <2>2, <3>1, Picked, SameMade, StillPinned DEF Flow, Planned
    <2>5. QED
      BY <2>1, <2>3, <2>4
  <1>6. CASE Write(c)
    <2>1. req' = req /\ plan' = plan /\ round' = round /\ pc[c] = "write" /\ Pick(c, venues[c])
      BY <1>6 DEF Write
    <2>2. answer[c] = "none"
      BY <2>1 DEF Pinned
    <2>3. QED
      BY <2>1, <2>2, Picked, SameMade, StillPinned DEF Flow, Planned
  <1>7. CASE Calendar(c)
    <2>1. /\ req' = req /\ plan' = plan /\ round' = round /\ pc[c] = "calendar" /\ pc'[c] = "build"
          /\ answer' = answer /\ venues' = venues
      BY <1>0, <1>7 DEF Calendar, Goto
    <2>2. answer[c] = "none"
      BY <2>1 DEF Pinned
    <2>3. Flow(c)'
      BY <2>1, SameMade DEF Flow, Planned
    <2>4. QED
      BY <2>1, <2>2, <2>3, StillPinned
  <1>8. CASE Build(c)
    <2>1. /\ req' = req /\ round' = round /\ at' = at /\ pc[c] = "build" /\ answer[c] = "none"
          /\ req[c].cmd # "resolve" /\ Day(req[c]) - 1 \in Days
          /\ round[c] = 1 => req[c].cmd # "direct"
      BY <1>8 DEF Build, Flow, Pinned, Planned
    <2>2. CASE ~Buildable(c)
      <3>1. /\ plan' = plan /\ pc'[c] \in {"record", "ended"} /\ answer'[c] = "error"
            /\ pc'[c] = "record" => round[c] = 2
        BY <1>8, <2>2, Answered DEF Build
      <3>2. Flow(c)'
        BY <2>1, <3>1, SameMade DEF Flow, Planned
      <3>3. QED
        BY <2>1, <3>1, <3>2, StillPinned
    <2>3. CASE Buildable(c)
      <3>. DEFINE p == BuildPlan(buildGoalFromOpts(req[c], round[c]), Venue(c), snap[c], at[c])
      <3>1. Venue(c) \in Zoned /\ Sound(c, round[c]) /\ snap[c] \in BOOLEAN /\ at[c] \in 0..MaxNow /\ round[c] \in 1..2
        BY <2>1, <2>3, BuiltPlan DEF TypeOK
      <3>2. PICK n \in 1..2 : n = round[c]
        BY <3>1
      <3>3. /\ plan' = [plan EXCEPT ![c][n] = p]
            /\ pc'[c] = "record" => round[c] = 2
            /\ \/ n = 1 /\ req[c].cmd = "create" /\ pc'[c] = "confirm" /\ answer'[c] = answer[c]
               \/ n = 2 /\ pc'[c] \in {"record", "ended"} /\ answer'[c] \in {"hash", "error"}
               \/ /\ n = 2 /\ ~PlanHashDiffers(c, p) /\ pc'[c] \in {"record", "ended"}
                  /\ answer'[c] = "ok" /\ quest'[c] = c
               \/ n = 1 /\ req[c].cmd # "create" /\ pc'[c] \in {"record", "ended"} /\ answer'[c] = "ok"
        <4>1. plan' = [plan EXCEPT ![c][n] = p]
          BY <1>8, <2>3, <3>2 DEF Build
        <4>2. CASE n = 1 /\ req[c].cmd = "create"
          BY <1>0, <1>8, <2>3, <3>2, <4>1, <4>2 DEF Build, Goto
        <4>3. CASE n = 1 /\ req[c].cmd # "create"
          <5>1. Answer(c, "ok")
            BY <1>8, <2>3, <3>2, <4>3 DEF Build
          <5>2. QED
            BY <4>1, <4>3, <5>1, Answered
        <4>4. CASE n = 2 /\ PlanHashDiffers(c, p)
          <5>1. Answer(c, "hash")
            BY <1>8, <2>3, <3>2, <4>4 DEF Build
          <5>2. QED
            BY <4>1, <4>4, <5>1, Answered
        <4>5. CASE n = 2 /\ ~PlanHashDiffers(c, p)
          <5>1. Persist(c)
            BY <1>8, <2>3, <3>2, <4>5 DEF Build
          <5>2. \/ Answer(c, "error")
                \/ Answer(c, "ok") /\ quest' = [quest EXCEPT ![c] = c]
            BY <5>1 DEF Persist
          <5>3. QED
            BY <4>1, <4>5, <5>2, Answered DEF TypeOK
        <4>6. QED
          BY <3>2, <4>2, <4>3, <4>4, <4>5
      <3>4. plan'[c][n] = p /\ \A h \in 1..2 : h # n => plan'[c][h] = plan[c][h]
        BY <3>3 DEF TypeOK
      <3>5. p = BuildPlan(Goal(c, n), Venue(c), snap[c], at[c])
        BY <3>2 DEF Goal
      <3>. HIDE DEF p
      <3>6. Goal(c, n)' = Goal(c, n)
        BY <2>1 DEF Goal
      <3>7. \E v \in Zoned, b \in BOOLEAN : plan'[c][n] = BuildPlan(Goal(c, n)', v, b, at'[c])
        BY <2>1, <3>1, <3>4, <3>5, <3>6
      <3>8. Made(c, n)'
        BY <2>1, <3>1, <3>7 DEF Made
      <3>9. Sound(c, n)'
        BY <2>1, <3>1, <3>2, SameMade
      <3>10. n = 2 => req[c].cmd \in {"create", "direct"} /\ (req[c].cmd = "create" => Made(c, 1) /\ Made(c, 1)')
        BY <2>1, <3>2, <3>4, SameMade DEF Flow
      <3>11. Flow(c)'
        BY <2>1, <3>2, <3>3, <3>8, <3>10, SameMade DEF Flow, Planned
      <3>12. \A h \in 1..2 : plan'[c][h] # NoPlan => Made(c, h)' /\ Sound(c, h)'
        BY <2>1, <3>4, <3>8, <3>9, SameMade DEF Pinned
      <3>13. answer'[c] # "none" => pc'[c] \in {"record", "ended"}
        BY <2>1, <3>3
      <3>14. ASSUME req[c].cmd \in {"create", "direct"}, answer'[c] = "ok"
             PROVE  /\ quest'[c] = c
                    /\ req[c].cmd = "create" => Made(c, 1)' /\ Hash(plan'[c][2]) = Hash(plan'[c][1])
                    /\ \E v \in Zoned, b \in BOOLEAN : plan'[c][2] = BuildPlan(Goal(c, 2)', v, b, at'[c])
        <4>2. n = 2 /\ ~PlanHashDiffers(c, p) /\ quest'[c] = c
          BY <2>1, <3>2, <3>3, <3>14
        <4>3. plan'[c][2] = p /\ plan'[c][1] = plan[c][1]
          BY <3>4, <4>2
        <4>4. \E v \in Zoned, b \in BOOLEAN : plan'[c][2] = BuildPlan(Goal(c, 2)', v, b, at'[c])
          BY <3>7, <4>2
        <4>5. QED
          BY <3>10, <4>2, <4>3, <4>4 DEF PlanHashDiffers
      <3>15. Pinned(c)'
        BY <2>1, <3>12, <3>13, <3>14, SameMade DEF Pinned, Own, Accepted
      <3>16. QED
        BY <3>11, <3>15
    <2>4. QED
      BY <2>2, <2>3
  <1>9. CASE Confirm(c)
    <2>1. /\ req' = req /\ plan' = plan /\ pc[c] = "confirm"
          /\ \/ pc'[c] = "ended" /\ answer'[c] = "declined" /\ round' = round
             \/ pc'[c] \in {"validate", "replay"} /\ answer'[c] = answer[c] /\ round'[c] = 2
      BY <1>0, <1>9, Called DEF Confirm, Goto, Return
    <2>2. answer[c] = "none"
      BY <2>1 DEF Pinned
    <2>3. Flow(c)'
      BY <2>1, SameMade DEF Flow, Planned
    <2>4. QED
      BY <2>1, <2>2, <2>3, StillPinned
  <1>10. CASE Replay(c)
    <2>1. /\ req' = req /\ plan' = plan /\ round' = round /\ at' = at /\ venues' = venues
          /\ pc[c] = "replay" /\ answer[c] = "none"
      BY <1>10 DEF Replay, Pinned
    <2>2. \/ pc'[c] = "validate" /\ answer'[c] = answer[c]
          \/ pc'[c] = "ended" /\ answer'[c] \in {"conflict", "error"}
          \/ \E k \in keys : pc'[c] = "ended" /\ answer'[c] = k.answer /\ quest'[c] = k.quest
      <3>1. CASE Goto(c, "validate") /\ answer' = answer
        BY <1>0, <3>1 DEF Goto
      <3>2. CASE \E a \in {"conflict", "error"} : Return(c, a)
        BY <1>0, <3>2 DEF Return, Goto
      <3>3. CASE \E k \in OfGoal(c) : Recorded(c, k)
        <4>1. PICK k \in keys : Recorded(c, k)
          BY <3>3 DEF OfGoal, OfKey
        <4>2. pc'[c] = "ended" /\ answer'[c] = k.answer /\ quest'[c] = k.quest
          BY <1>0, <4>1 DEF Recorded, Return, Goto, TypeOK
        <4>3. QED
          BY <4>2
      <3>4. QED
        BY <1>10, <3>1, <3>2, <3>3 DEF Replay
    <2>3. answer'[c] = "ok" => quest'[c] # c
      BY <2>1, <2>2 DEF KeysInv, MadeBy, Own, Accepted
    <2>4. Flow(c)'
      BY <2>1, <2>2, SameMade DEF Flow, Planned
    <2>5. Pinned(c)'
      BY <2>1, <2>2, <2>3, SameMade DEF Pinned, Own, Accepted
    <2>6. QED
      BY <2>4, <2>5
  <1>11. CASE Record(c)
    <2>1. /\ UNCHANGED <<req, plan, round, at, venues, answer, quest>> /\ pc[c] = "record" /\ pc'[c] = "ended"
      BY <1>0, <1>11 DEF Record, Goto
    <2>2. Flow(c)'
      BY <2>1, SameMade DEF Flow, Planned
    <2>3. Pinned(c)'
      BY <2>1, SameMade DEF Pinned, Own, Accepted, Goal
    <2>4. QED
      BY <2>2, <2>3
  <1>12. QED
    BY <1>1, <1>2, <1>3, <1>4, <1>5, <1>6, <1>7, <1>8, <1>9, <1>10, <1>11 DEF Step

\* A step of a command leaves the world and the other commands alone.
LEMMA CallFrame ==
  ASSUME TypeOK, NEW c \in Calls, Step(c)
  PROVE  /\ now' = now /\ req' = req /\ up' = up /\ seen' = seen
         /\ \A d \in Calls \ {c} :
              /\ pc'[d] = pc[d] /\ round'[d] = round[d] /\ called'[d] = called[d] /\ at'[d] = at[d]
              /\ venues'[d] = venues[d] /\ plan'[d] = plan[d] /\ answer'[d] = answer[d] /\ quest'[d] = quest[d]
              /\ since'[d] = since[d] /\ stale'[d] = stale[d] /\ fetched'[d] = fetched[d]
  <1>0. /\ pc \in [Calls -> Pcs] /\ answer \in [Calls -> Answers] /\ round \in [Calls -> 1..2]
        /\ at \in [Calls -> 0..MaxNow] /\ venues \in [Calls -> SUBSET Venues]
        /\ since \in [Calls -> 0..MaxNow] /\ stale \in [Calls -> BOOLEAN] /\ fetched \in [Calls -> 0..MaxNow]
        /\ quest \in [Calls -> Calls \cup {NoQuest}]
    BY DEF TypeOK
  <1>1. now' = now /\ req' = req /\ up' = up /\ seen' = seen
    BY DEF Step, Start, Begin, Lookup, Fetch, FetchFails, Write, Calendar, Build, Confirm, Replay, Record, envVars
  <1>2. ASSUME NEW d \in Calls \ {c}
        PROVE  pc'[d] = pc[d] /\ answer'[d] = answer[d] /\ venues'[d] = venues[d]
    <2>1. \/ \E vs : Pick(c, vs)
          \/ /\ \/ \E a : Answer(c, a) \/ Return(c, a)
                \/ Call(c) /\ answer' = answer
                \/ \E l : Goto(c, l) /\ answer' = answer
             /\ venues' = venues \/ \E vs : venues' = [venues EXCEPT ![c] = vs]
      <3>1. CASE Start(c) \/ Begin(c) \/ Confirm(c)
        BY <3>1 DEF Start, Begin, Confirm
      <3>2. CASE Calendar(c) \/ Record(c)
        BY <3>2 DEF Calendar, Record
      <3>3. CASE Lookup(c)
        BY <3>3 DEF Lookup
      <3>4. CASE Fetch(c)
        BY <3>4 DEF Fetch
      <3>5. CASE FetchFails(c)
        BY <3>5 DEF FetchFails
      <3>6. CASE Write(c)
        BY <3>6 DEF Write
      <3>7. CASE Build(c)
        BY <3>7 DEF Build, Persist
      <3>8. CASE Replay(c)
        BY <3>8 DEF Replay, Recorded
      <3>9. QED
        BY <3>1, <3>2, <3>3, <3>4, <3>5, <3>6, <3>7, <3>8 DEF Step
    <2>2. CASE \E vs : Pick(c, vs)
      BY <2>2, Picked
    <2>3. CASE \E a : Answer(c, a) \/ Return(c, a)
      BY <1>0, <2>1, <2>2, <2>3, Answered
    <2>4. CASE Call(c) /\ answer' = answer
      BY <1>0, <2>1, <2>2, <2>4, Called
    <2>5. CASE \E l : Goto(c, l) /\ answer' = answer
      BY <1>0, <2>1, <2>2, <2>5 DEF Goto
    <2>6. QED
      BY <2>1, <2>2, <2>3, <2>4, <2>5
  <1>3. ASSUME NEW d \in Calls \ {c}
        PROVE  round'[d] = round[d] /\ called'[d] = called[d] /\ at'[d] = at[d]
    <2>1. CASE Call(c) /\ at' = at
      BY <2>1, Called
    <2>2. CASE round' = round /\ called' = called /\ at' = at
      BY <2>2
    <2>3. CASE round' = round /\ called' = called /\ at' = [at EXCEPT ![c] = now]
      BY <1>0, <2>3
    <2>4. QED
      BY <2>1, <2>2, <2>3 DEF Step, Start, Begin, Lookup, Fetch, FetchFails, Write, Calendar, Build, Confirm,
                              Replay, Record, quests
  <1>4. ASSUME NEW d \in Calls \ {c}
        PROVE  since'[d] = since[d] /\ stale'[d] = stale[d] /\ fetched'[d] = fetched[d]
    BY <1>0 DEF Step, Start, Begin, Lookup, Fetch, FetchFails, Write, Calendar, Build, Confirm, Replay, Record
  <1>5. ASSUME NEW d \in Calls \ {c} PROVE plan'[d] = plan[d]
    <2>1. plan' = plan \/ \E p : plan' = [plan EXCEPT ![c][round[c]] = p]
      BY DEF Step, Start, Begin, Lookup, Fetch, FetchFails, Write, Calendar, Build, Confirm, Replay, Record
    <2>2. QED
      BY <2>1 DEF TypeOK
  <1>6. ASSUME NEW d \in Calls \ {c} PROVE quest'[d] = quest[d]
    <2>1. quest' = quest \/ \E q : quest' = [quest EXCEPT ![c] = q]
      BY DEF Step, Start, Begin, Lookup, Fetch, FetchFails, Write, Calendar, Build, Confirm, Replay, Record,
             quests, Persist, Recorded
    <2>2. QED
      BY <1>0, <2>1
  <1>7. QED
    BY <1>1, <1>2, <1>3, <1>4, <1>5, <1>6

\* Every step keeps, for every command, how it comes to its plans and what it made of them.
LEMMA NextKeeps ==
  ASSUME TypeOK, \A c \in Calls : Flow(c) /\ Pinned(c), KeysInv, [Next]_vars
  PROVE  \A c \in Calls : Flow(c)' /\ Pinned(c)'
  <1>1. ASSUME NEW c \in Calls, Step(c), NEW d \in Calls PROVE Flow(d)' /\ Pinned(d)'
    <2>1. CASE d = c
      BY <1>1, <2>1, CallKeeps
    <2>2. CASE d # c
      <3>1. d \in Calls \ {c}
        BY <2>2
      <3>2. /\ req' = req /\ pc'[d] = pc[d] /\ round'[d] = round[d] /\ venues'[d] = venues[d]
            /\ plan'[d] = plan[d] /\ answer'[d] = answer[d] /\ quest'[d] = quest[d] /\ at'[d] = at[d]
        BY <1>1, <3>1, CallFrame
      <3>3. QED
        BY <3>2, OtherCall
    <2>3. QED
      BY <2>1, <2>2
  <1>2. ASSUME UNCHANGED <<req, callVars>>, NEW d \in Calls PROVE Flow(d)' /\ Pinned(d)'
    <2>1. /\ req' = req /\ pc'[d] = pc[d] /\ round'[d] = round[d] /\ venues'[d] = venues[d]
          /\ plan'[d] = plan[d] /\ answer'[d] = answer[d] /\ quest'[d] = quest[d] /\ at'[d] = at[d]
      BY <1>2 DEF callVars
    <2>2. QED
      BY <2>1, OtherCall
  <1>3. (\E c \in Calls : Step(c)) \/ UNCHANGED <<req, callVars>>
    BY DEF Next, Step, Tick, Rename, OpenDate, vars
  <1>4. QED
    BY <1>1, <1>2, <1>3

----------------------------------------------------------------------------
(* The idempotency keys. *)

\* A command that has an answer keeps it, and all that it was made of.
LEMMA Settled ==
  ASSUME TypeOK, \A c \in Calls : Pinned(c), [Next]_vars, NEW d \in Calls, answer[d] # "none"
  PROVE  req' = req /\ answer'[d] = answer[d] /\ quest'[d] = quest[d] /\ called'[d] = called[d]
  <1>1. CASE UNCHANGED <<req, callVars>>
    BY <1>1 DEF callVars
  <1>2. ASSUME NEW c \in Calls, Step(c)
        PROVE  req' = req /\ answer'[d] = answer[d] /\ quest'[d] = quest[d] /\ called'[d] = called[d]
    <2>1. CASE d # c
      BY <1>2, <2>1, CallFrame
    <2>2. CASE d = c
      <3>1. pc[c] \in {"record", "ended"}
        BY <2>2 DEF Pinned
      <3>2. Record(c)
        BY <1>2, <3>1 DEF Step, Start, Begin, Lookup, Fetch, FetchFails, Write, Calendar, Build, Confirm, Replay
      <3>3. QED
        BY <3>2 DEF Record
    <2>3. QED
      BY <2>1, <2>2
  <1>3. (\E c \in Calls : Step(c)) \/ UNCHANGED <<req, callVars>>
    BY DEF Next, Step, Tick, Rename, OpenDate, vars
  <1>4. QED
    BY <1>1, <1>2, <1>3

\* A quest stays the quest of the call that made it.
LEMMA StillMade ==
  ASSUME TypeOK, \A c \in Calls : Pinned(c), [Next]_vars
  PROVE  \A d, key, goal, t : MadeBy(d, key, goal, t) => MadeBy(d, key, goal, t)'
  <1>1. SUFFICES ASSUME NEW d, NEW key, NEW goal, NEW t, MadeBy(d, key, goal, t)
                 PROVE  MadeBy(d, key, goal, t)'
    OBVIOUS
  <1>2. d \in Calls /\ answer[d] # "none"
    BY <1>1 DEF MadeBy, Own, Accepted
  <1>3. req' = req /\ answer'[d] = answer[d] /\ quest'[d] = quest[d] /\ called'[d] = called[d]
    BY <1>2, Settled
  <1>4. Goal(d, 2)' = Goal(d, 2)
    BY <1>3 DEF Goal
  <1>5. QED
    BY <1>1, <1>3, <1>4 DEF MadeBy, Own, Accepted

\* A call comes to a quest by making it or by finding it under its key.
LEMMA QuestOf ==
  ASSUME TypeOK, NEW c \in Calls, Flow(c), Pinned(c), Step(c), answer[c] = "none",
         req[c].cmd \in {"create", "direct"}, answer'[c] = "ok"
  PROVE  \/ quest'[c] = c
         \/ \E k \in OfGoal(c) : /\ ~Expired(k, c) /\ k.answer = "ok" /\ quest'[c] = k.quest
                                 /\ called' = called
  <1>1. pc \in [Calls -> Pcs] /\ answer \in [Calls -> Answers] /\ quest \in [Calls -> Calls \cup {NoQuest}]
    BY DEF TypeOK
  <1>2. CASE Replay(c)
    <2>1. ~(\E a \in {"conflict", "error"} : Return(c, a)) /\ answer' # answer
      BY <1>1 DEF Return
    <2>2. PICK k \in OfGoal(c) : ~Expired(k, c) /\ Recorded(c, k)
      BY <1>2, <2>1 DEF Replay
    <2>3. k.answer = "ok" /\ quest'[c] = k.quest
      BY <1>1, <2>2 DEF Recorded, Return
    <2>4. QED
      BY <1>2, <2>2, <2>3 DEF Replay
  <1>3. CASE Build(c)
    <2>1. req[c].cmd = "direct" => round[c] # 1
      BY <1>3 DEF Build, Flow
    <2>2. ~(\E a \in {"error", "hash"} : Answer(c, a)) /\ answer' # answer
      BY <1>1 DEF Answer
    <2>3. Persist(c)
      BY <1>3, <2>1, <2>2 DEF Build
    <2>4. quest' = [quest EXCEPT ![c] = c]
      BY <2>2, <2>3 DEF Persist
    <2>5. QED
      BY <1>1, <2>4
  <1>4. CASE Lookup(c) \/ FetchFails(c) \/ Write(c)
    <2>1. (\E vs : Pick(c, vs)) \/ answer' = answer \/ Answer(c, "upstream")
      BY <1>4 DEF Lookup, FetchFails, Write
    <2>2. QED
      BY <1>1, <2>1, Picked, Answered
  <1>5. CASE Start(c) \/ Begin(c) \/ Fetch(c) \/ Calendar(c) \/ Confirm(c) \/ Record(c)
    <2>1. answer' = answer \/ \E a \in {"usage", "invalid", "notfound", "declined"} : Answer(c, a) \/ Return(c, a)
      BY <1>5 DEF Start, Begin, Fetch, Calendar, Confirm, Record
    <2>2. QED
      BY <1>1, <2>1, Answered
  <1>6. QED
    BY <1>2, <1>3, <1>4, <1>5 DEF Step

\* Every step keeps what the keys say of the quests.
LEMMA NextKeys ==
  ASSUME TypeOK, \A c \in Calls : Flow(c) /\ Pinned(c), KeysInv, [Next]_vars
  PROVE  KeysInv'
  <1>. DEFINE Made1 == \A d, key, goal, t : MadeBy(d, key, goal, t) => MadeBy(d, key, goal, t)'
  <1>0. Made1
    BY StillMade
  <1>1. req' = req
    BY DEF Next, vars, Start, Begin, Lookup, Fetch, FetchFails, Write, Calendar, Build, Confirm, Replay, Record,
           Tick, Rename, OpenDate
  <1>2. ASSUME NEW k \in keys', k.answer = "ok" PROVE MadeBy(k.quest, k.key, k.goal, k.at)'
    <2>1. CASE k \in keys
      BY <1>0, <1>2, <2>1, Zenon DEF KeysInv
    <2>2. CASE k \notin keys
      <3>1. PICK c \in Calls : Record(c)
        BY <1>2, <2>2 DEF Next, vars, cache, quests, Start, Begin, Lookup, Fetch, FetchFails, Write, Calendar,
                          Build, Confirm, Replay, Tick, Rename, OpenDate
      <3>2. k = [key |-> req[c].idempotencyKey, goal |-> buildGoalFromOpts(req[c], 2),
                 answer |-> answer[c], quest |-> quest[c], at |-> called[c]]
        BY <1>2, <2>2, <3>1 DEF Record
      <3>3. pc[c] = "record" /\ answer[c] = "ok" /\ round[c] = 2
        BY <1>2, <3>1, <3>2 DEF Record, Flow
      <3>4. Own(c)
        BY <3>3 DEF Flow, Pinned, Own, Accepted
      <3>5. MadeBy(k.quest, k.key, k.goal, k.at)
        BY <3>2, <3>4 DEF MadeBy, Own, Goal
      <3>6. QED
        BY <1>0, <3>5, Zenon
    <2>3. QED
      BY <2>1, <2>2
  <1>3. ASSUME NEW d \in Calls, Accepted(d)'
        PROVE  (\/ quest[d] = d
                \/ /\ MadeBy(quest[d], req[d].idempotencyKey, Goal(d, 2), called[quest[d]])
                   /\ called[d] < called[quest[d]] + IdemTTL)'
    <2>0. PICK q : q = quest'[d]
      OBVIOUS
    <2>. DEFINE Found(e, t) == /\ MadeBy(e, req[d].idempotencyKey, Goal(d, 2), t)
                           /\ called'[d] < t + IdemTTL
    <2>1. req[d].cmd \in {"create", "direct"} /\ answer'[d] = "ok" /\ Goal(d, 2)' = Goal(d, 2)
      BY <1>1, <1>3 DEF Accepted, Goal
    <2>2. q = d \/ \E t : Found(q, t)
      <3>1. CASE answer[d] # "none"
        <4>1. answer'[d] = answer[d] /\ quest'[d] = quest[d] /\ called'[d] = called[d]
          BY <3>1, Settled
        <4>2. Accepted(d)
          BY <2>1, <4>1 DEF Accepted
        <4>3. QED
          BY <2>0, <4>1, <4>2 DEF KeysInv
      <3>2. CASE answer[d] = "none"
        <4>1. PICK c \in Calls : Step(c)
          BY <2>1, <3>2 DEF Next, Step, vars, callVars, Tick, Rename, OpenDate
        <4>2. c = d
          BY <2>1, <3>2, <4>1, CallFrame
        <4>3. \/ q = d
              \/ \E k \in OfGoal(d) : /\ ~Expired(k, d) /\ k.answer = "ok" /\ q = k.quest
                                      /\ called' = called
          BY <2>0, <2>1, <3>2, <4>1, <4>2, QuestOf
        <4>4. ASSUME NEW k \in OfGoal(d), ~Expired(k, d), k.answer = "ok", q = k.quest, called' = called
              PROVE  Found(q, k.at)
          <5>1. k \in keys /\ k.key = req[d].idempotencyKey /\ k.goal = Goal(d, 2)
            BY <4>4 DEF OfGoal, OfKey, Goal
          <5>2. MadeBy(k.quest, k.key, k.goal, k.at)
            BY <4>4, <5>1 DEF KeysInv
          <5>3. k.at \in Int /\ called[d] \in Int /\ IdemTTL \in Int
            BY <5>1, TimeAssumption DEF TypeOK, KeyRows
          <5>4. called'[d] < k.at + IdemTTL
            BY <4>4, <5>3 DEF Expired
          <5>5. QED
            BY <4>4, <5>1, <5>2, <5>4
        <4>5. QED
          BY <4>3, <4>4
      <3>3. QED
        BY <3>1, <3>2
    <2>3. ASSUME NEW t, Found(q, t)
          PROVE  /\ MadeBy(q, req[d].idempotencyKey, Goal(d, 2), t)'
                 /\ called'[q] = t
      <3>1. MadeBy(q, req[d].idempotencyKey, Goal(d, 2), t)
        BY <2>3
      <3>2. q \in Calls /\ Own(q) /\ req[q].idempotencyKey = req[d].idempotencyKey /\ Goal(q, 2) = Goal(d, 2)
            /\ called[q] = t /\ answer[q] # "none"
        BY <3>1 DEF MadeBy, Own, Accepted
      <3>3. answer'[q] = answer[q] /\ quest'[q] = quest[q] /\ called'[q] = called[q]
        BY <3>2, Settled
      <3>4. Goal(q, 2)' = Goal(q, 2)
        BY <1>1, <3>3 DEF Goal
      <3>5. QED
        BY <1>1, <2>1, <3>2, <3>3, <3>4 DEF MadeBy, Own, Accepted
    <2>4. QED
      BY <2>0, <2>2, <2>3
  <1>4. QED
    BY <1>2, <1>3 DEF KeysInv

----------------------------------------------------------------------------
(* The cache. *)

\* What the caches and the service know of a command's query.
Recent(c) ==
  /\ since[c] <= now
  /\ pc[c] = "write" =>
       /\ fetched[c] <= now /\ now <= fetched[c] + RequestTime
       /\ venues[c] \in seen[req[c].key][fetched[c]]
  /\ \/ venues[c] = {} \/ stale[c]
     \/ \E t \in 0..now : t >= since[c] - TTL - RequestTime /\ venues[c] \in seen[req[c].key][t]

\* The invariant of the caches, command by command.
LEMMA CacheParts ==
  CacheInv /\ VenueRecent <=>
    /\ \A k \in Keys : /\ up[k] \in seen[k][now]
                       /\ Faithful(k, venuesCache[k]) /\ Faithful(k, nameSearchCache[k])
    /\ \A c \in Calls : Recent(c)
  BY DEF CacheInv, VenueRecent, Recent

\* A fresh row is an answer of the service within the TTL and RequestTime, the answer
\* to a request one of now, and only a failed request leaves an older one.
LEMMA CallRecent ==
  ASSUME TypeOK, CacheInv, NEW c \in Calls, Recent(c), Step(c)
  PROVE  Recent(c)'
  <1>0. /\ pc \in [Calls -> Pcs] /\ answer \in [Calls -> Answers] /\ venues \in [Calls -> SUBSET Venues]
        /\ since \in [Calls -> 0..MaxNow] /\ stale \in [Calls -> BOOLEAN]
        /\ fetched \in [Calls -> 0..MaxNow] /\ RequestTime \in Nat
        /\ now \in Nat /\ TTL \in Nat /\ now \in 0..now /\ req[c].key \in Keys /\ since[c] \in Nat
    BY TimeAssumption DEF TypeOK, CommandLines
  <1>1. now' = now /\ req' = req /\ seen' = seen
    BY CallFrame
  <1>2. CASE venues'[c] = venues[c] /\ since'[c] = since[c] /\ (stale[c] => stale'[c]) /\ pc'[c] # "write"
    BY <1>1, <1>2 DEF Recent
  <1>3. CASE Lookup(c)
    <2>1. since'[c] = now
      BY <1>0, <1>3 DEF Lookup
    <2>2. PICK r \in Read(req[c]) :
            \/ r # NoRow /\ ~isStale(r) /\ Pick(c, r.venues)
            \/ pc'[c] = "fetch" /\ venues'[c] = {}
      BY <1>0, <1>3 DEF Lookup, Goto
    <2>3. CASE pc'[c] = "fetch" /\ venues'[c] = {}
      BY <1>0, <1>1, <2>1, <2>3 DEF Recent
    <2>4. CASE r # NoRow /\ ~isStale(r) /\ Pick(c, r.venues)
      <3>1. venues'[c] = r.venues /\ pc'[c] # "write"
        BY <2>4, Picked
      <3>2. r.at \in 0..now /\ \E t \in 0..r.at : t >= r.at - RequestTime /\ r.venues \in seen[req[c].key][t]
        <4>1. r \in {venuesCache[req[c].key], nameSearchCache[req[c].key]}
          BY <2>4, ReadRows
        <4>2. Faithful(req[c].key, r)
          BY <1>0, <4>1 DEF CacheInv
        <4>3. QED
          BY <2>4, <4>2 DEF Faithful
      <3>3. r.at >= now - TTL
        BY <1>0, <2>4, <3>2 DEF isStale
      <3>4. PICK t \in 0..r.at : t >= r.at - RequestTime /\ r.venues \in seen[req[c].key][t]
        BY <3>2
      <3>5. t \in 0..now /\ t >= now - TTL - RequestTime
        BY <1>0, <3>2, <3>3, <3>4
      <3>6. QED
        BY <1>0, <1>1, <2>1, <3>1, <3>4, <3>5 DEF Recent
    <2>5. QED
      BY <2>2, <2>3, <2>4
  <1>4. CASE Fetch(c)
    <2>1. /\ since' = since /\ stale' = stale
          /\ \/ venues' = venues /\ pc'[c] # "write"
             \/ venues'[c] = up[req[c].key] /\ fetched'[c] = now
      BY <1>0, <1>4, Answered DEF Fetch
    <2>2. /\ up[req[c].key] \in seen[req[c].key][now] /\ now >= since[c] - TTL - RequestTime
          /\ now <= now /\ now <= now + RequestTime
      BY <1>0 DEF CacheInv
    <2>3. QED
      BY <1>0, <1>1, <2>1, <2>2 DEF Recent
  <1>5. CASE FetchFails(c)
    <2>1. since' = since /\ stale'[c] /\ pc'[c] # "write"
      BY <1>0, <1>5, Picked, Answered DEF FetchFails
    <2>2. QED
      BY <1>1, <2>1 DEF Recent
  <1>6. CASE Write(c)
    <2>1. venues'[c] = venues[c] /\ pc'[c] # "write" /\ since' = since /\ stale' = stale
      BY <1>6, Picked DEF Write
    <2>2. QED
      BY <1>2, <2>1
  <1>7. CASE Start(c) \/ Begin(c) \/ Calendar(c) \/ Build(c) \/ Confirm(c) \/ Replay(c) \/ Record(c)
    <2>1. venues' = venues /\ since' = since /\ stale' = stale
      BY <1>7 DEF Start, Begin, Calendar, Build, Confirm, Replay, Record
    <2>2. \/ \E l \in Pcs \ {"write"} : Goto(c, l)
          \/ (\E a : Answer(c, a) \/ Return(c, a)) \/ Call(c)
      BY <1>7 DEF Start, Begin, Calendar, Build, Persist, Confirm, Replay, Recorded, Record, Pcs
    <2>3. pc'[c] # "write"
      BY <1>0, <2>2, Answered, Called DEF Goto
    <2>4. QED
      BY <1>2, <2>1, <2>3
  <1>8. QED
    BY <1>3, <1>4, <1>5, <1>6, <1>7 DEF Step

\* A command that a step leaves alone stays as recent as it was: what the service
\* said then is not forgotten, and little time passes while an answer is written.
LEMMA StillRecent ==
  ASSUME TypeOK, NEW c \in Calls, Recent(c), now' \in Nat, now <= now',
         pc[c] = "write" => now' <= fetched[c] + RequestTime,
         \A t \in 0..now : seen[req[c].key][t] \subseteq seen'[req[c].key][t],
         req' = req, pc'[c] = pc[c], venues'[c] = venues[c], since'[c] = since[c], stale'[c] = stale[c],
         fetched'[c] = fetched[c]
  PROVE  Recent(c)'
  <1>0. now \in Nat /\ fetched[c] \in Nat /\ since[c] \in Int
    BY TimeAssumption DEF TypeOK
  <1>1. \A t \in 0..now : t \in 0..now'
    BY <1>0
  <1>2. since'[c] <= now'
    BY <1>0 DEF Recent
  <1>3. pc'[c] = "write" =>
          /\ fetched'[c] <= now' /\ now' <= fetched'[c] + RequestTime
          /\ venues'[c] \in seen'[req'[c].key][fetched'[c]]
    BY <1>0 DEF Recent
  <1>4. \/ venues'[c] = {} \/ stale'[c]
        \/ \E t \in 0..now' : t >= since'[c] - TTL - RequestTime /\ venues'[c] \in seen'[req'[c].key][t]
    BY <1>1 DEF Recent
  <1>5. QED
    BY <1>2, <1>3, <1>4 DEF Recent

\* A row r of query k holds at time t what s records that the service said.
RowOf(k, r, t, s) ==
  r # NoRow =>
    /\ r.at \in 0..t
    /\ \E u \in 0..r.at : u >= r.at - RequestTime /\ r.venues \in s[k][u]

\* A row stays what the service said.
LEMMA StillFaithful ==
  ASSUME NEW k, NEW r, Faithful(k, r), now \in Nat, now' \in Nat, now <= now',
         \A t \in 0..now : seen[k][t] \subseteq seen'[k][t]
  PROVE  RowOf(k, r, now', seen')
  <1>1. SUFFICES ASSUME r # NoRow
                 PROVE  r.at \in 0..now' /\ \E u \in 0..r.at : u >= r.at - RequestTime /\ r.venues \in seen'[k][u]
    BY DEF RowOf
  <1>2. r.at \in 0..now
    BY <1>1 DEF Faithful
  <1>3. PICK u \in 0..r.at : u >= r.at - RequestTime /\ r.venues \in seen[k][u]
    BY <1>1 DEF Faithful
  <1>4. r.at \in 0..now' /\ u \in 0..now
    BY <1>2, <1>3
  <1>5. QED
    BY <1>3, <1>4

\* A step of a command keeps the caches what the service said.
LEMMA CallCaches ==
  ASSUME TypeOK, CacheInv, NEW c \in Calls, Step(c), NEW k \in Keys
  PROVE  /\ (up[k] \in seen[k][now])'
         /\ Faithful(k, venuesCache[k])' /\ Faithful(k, nameSearchCache[k])'
  <1>1. now' = now /\ up' = up /\ seen' = seen
    BY CallFrame
  <1>2. UNCHANGED cache \/ Write(c)
    BY DEF Step, Start, Begin, Lookup, Fetch, FetchFails, Calendar, Build, Confirm, Replay, Record
  <1>3. CASE UNCHANGED cache
    BY <1>1, <1>3 DEF cache, CacheInv, Faithful
  <1>4. CASE Write(c)
    <2>. DEFINE r == [venues |-> venues[c], at |-> now]
    <2>1. /\ now \in Nat /\ RequestTime \in Nat /\ fetched[c] \in Nat /\ fetched[c] <= now
          /\ now <= fetched[c] + RequestTime /\ venues[c] \in seen[req[c].key][fetched[c]]
      BY <1>4, TimeAssumption DEF Write, CacheInv, TypeOK
    <2>2. RowOf(req[c].key, r, now', seen')
      <3>1. fetched[c] \in 0..now /\ fetched[c] >= now - RequestTime /\ now \in 0..now
        BY <2>1
      <3>2. QED
        BY <1>1, <2>1, <3>1 DEF RowOf
    <2>3. /\ venuesCache' = [venuesCache EXCEPT ![req[c].key] = r] \/ venuesCache' = venuesCache
          /\ nameSearchCache' = [nameSearchCache EXCEPT ![req[c].key] = r] \/ nameSearchCache' = nameSearchCache
      BY <1>4 DEF Write, UpsertNameSearchCache, UpsertVenueCache, cache
    <2>. HIDE DEF r
    <2>4. RowOf(k, venuesCache[k], now', seen') /\ RowOf(k, nameSearchCache[k], now', seen')
      BY <1>1 DEF CacheInv, Faithful, RowOf
    <2>5. /\ venuesCache'[k] = venuesCache[k] \/ (k = req[c].key /\ venuesCache'[k] = r)
          /\ nameSearchCache'[k] = nameSearchCache[k] \/ (k = req[c].key /\ nameSearchCache'[k] = r)
      BY <2>3 DEF TypeOK
    <2>6. RowOf(k, venuesCache'[k], now', seen') /\ RowOf(k, nameSearchCache'[k], now', seen')
      BY <2>2, <2>4, <2>5
    <2>7. QED
      BY <1>1, <2>6 DEF CacheInv, Faithful, RowOf
  <1>5. QED
    BY <1>2, <1>3, <1>4

\* Time and the service keep what was said: a moment's knowledge only grows.
LEMMA WorldCaches ==
  ASSUME TypeOK, CacheInv, \A c \in Calls : Recent(c), Tick \/ Rename \/ OpenDate \/ UNCHANGED vars
  PROVE  /\ \A k \in Keys : /\ (up[k] \in seen[k][now])'
                            /\ Faithful(k, venuesCache[k])' /\ Faithful(k, nameSearchCache[k])'
         /\ \A c \in Calls : Recent(c)'
  <1>0. /\ now \in Nat /\ now \in 0..MaxNow /\ MaxNow \in Nat /\ seen \in [Keys -> [0..MaxNow -> SUBSET SUBSET Venues]]
        /\ \A c \in Calls : fetched[c] \in Nat /\ (pc[c] = "write" => now <= fetched[c] + RequestTime)
        /\ RequestTime \in Nat
    BY TimeAssumption DEF TypeOK, Recent
  <1>1. /\ now' \in Nat /\ now <= now'
        /\ \A c \in Calls : pc[c] = "write" => now' <= fetched[c] + RequestTime
        /\ \A k \in Keys : \A t \in 0..now : seen[k][t] \subseteq seen'[k][t]
        /\ \A k \in Keys : up'[k] \in seen'[k][now']
    <2>1. CASE Tick
      <3>1. /\ now' = now + 1 /\ up' = up /\ now < MaxNow
            /\ \A c \in Calls : pc[c] = "write" => now < fetched[c] + RequestTime
            /\ seen' = [k \in Keys |-> [seen[k] EXCEPT ![now + 1] = {up[k]}]]
        BY <2>1 DEF Tick, envVars
      <3>2. \A k \in Keys : seen'[k] = [seen[k] EXCEPT ![now + 1] = {up[k]}]
        BY <3>1
      <3>3. \A k \in Keys : seen'[k][now + 1] = {up[k]} /\ \A t \in 0..now : seen'[k][t] = seen[k][t]
        BY <1>0, <3>1, <3>2
      <3>4. QED
        BY <1>0, <3>1, <3>3
    <2>2. CASE Rename
      <3>1. PICK q \in {req[c].key : c \in Calls} : \E vs \in Catalogue[q] :
              up' = [up EXCEPT ![q] = vs] /\ seen' = [seen EXCEPT ![q][now] = @ \cup {vs}]
        BY <2>2 DEF Rename
      <3>2. PICK vs \in Catalogue[q] :
              up' = [up EXCEPT ![q] = vs] /\ seen' = [seen EXCEPT ![q][now] = @ \cup {vs}]
        BY <3>1
      <3>3. q \in Keys /\ up \in [Keys -> SUBSET Venues]
        BY DEF TypeOK, CommandLines
      <3>4. /\ seen'[q][now] = seen[q][now] \cup {vs} /\ up'[q] = vs
            /\ \A t \in 0..now : seen[q][t] \subseteq seen'[q][t]
        BY <1>0, <3>2, <3>3
      <3>5. \A k \in Keys \ {q} : seen'[k] = seen[k] /\ up'[k] = up[k]
        BY <1>0, <3>2, <3>3
      <3>6. now' = now
        BY <2>2 DEF Rename
      <3>7. QED
        BY <1>0, <3>4, <3>5, <3>6 DEF CacheInv
    <2>3. CASE OpenDate \/ UNCHANGED vars
      <3>1. now' = now /\ up' = up /\ seen' = seen
        BY <2>3 DEF OpenDate, vars, envVars
      <3>2. QED
        BY <1>0, <3>1 DEF CacheInv
    <2>4. QED
      BY <2>1, <2>2, <2>3
  <1>2. req' = req /\ UNCHANGED callVars /\ UNCHANGED cache
    BY DEF Tick, Rename, OpenDate, vars
  <1>3. \A k \in Keys : Faithful(k, venuesCache[k])' /\ Faithful(k, nameSearchCache[k])'
    <2>1. SUFFICES ASSUME NEW k \in Keys
                   PROVE  Faithful(k, venuesCache[k])' /\ Faithful(k, nameSearchCache[k])'
      OBVIOUS
    <2>2. \A r : Faithful(k, r) => RowOf(k, r, now', seen')
      BY <1>0, <1>1, StillFaithful
    <2>3. RowOf(k, venuesCache[k], now', seen') /\ RowOf(k, nameSearchCache[k], now', seen')
      BY <2>2 DEF CacheInv
    <2>4. QED
      BY <1>2, <2>3 DEF Faithful, RowOf, cache
  <1>4. ASSUME NEW c \in Calls PROVE Recent(c)'
    <2>1. req[c].key \in Keys
      BY DEF TypeOK, CommandLines
    <2>2. /\ pc'[c] = pc[c] /\ venues'[c] = venues[c] /\ since'[c] = since[c] /\ stale'[c] = stale[c]
          /\ fetched'[c] = fetched[c]
      BY <1>2 DEF callVars
    <2>3. QED
      BY <1>1, <1>2, <2>1, <2>2, StillRecent
  <1>5. QED
    BY <1>1, <1>3, <1>4

\* Every step keeps the caches what the service said and the answers recent.
LEMMA NextCaches ==
  ASSUME TypeOK, CacheInv, VenueRecent, [Next]_vars
  PROVE  CacheInv' /\ VenueRecent'
  <1>. DEFINE Rows == \A k \in Keys : /\ up[k] \in seen[k][now]
                                     /\ Faithful(k, venuesCache[k]) /\ Faithful(k, nameSearchCache[k])
              All == \A c \in Calls : Recent(c)
  <1>1. All
    BY CacheParts
  <1>2. ASSUME NEW c \in Calls, Step(c) PROVE Rows' /\ All'
    <2>1. Rows'
      BY <1>2, CallCaches
    <2>2. ASSUME NEW d \in Calls PROVE Recent(d)'
      <3>1. CASE d = c
        BY <1>1, <1>2, <3>1, CallRecent
      <3>2. CASE d # c
        <4>1. /\ now' = now /\ seen' = seen /\ req' = req
              /\ pc'[d] = pc[d] /\ venues'[d] = venues[d] /\ since'[d] = since[d] /\ stale'[d] = stale[d]
              /\ fetched'[d] = fetched[d]
          BY <1>2, <3>2, CallFrame
        <4>2. now \in Nat /\ (pc[d] = "write" => now <= fetched[d] + RequestTime)
          BY <1>1, TimeAssumption DEF TypeOK, Recent
        <4>3. QED
          BY <1>1, <4>1, <4>2, StillRecent
      <3>3. QED
        BY <3>1, <3>2
    <2>3. QED
      BY <2>1, <2>2
  <1>3. ASSUME Tick \/ Rename \/ OpenDate \/ UNCHANGED vars PROVE Rows' /\ All'
    BY <1>1, <1>3, WorldCaches
  <1>4. Rows' /\ All'
    BY <1>2, <1>3 DEF Next, Step
  <1>5. QED
    BY <1>4 DEF CacheInv, VenueRecent, Recent

----------------------------------------------------------------------------
(* The theorems. *)

\* The first command has planned nothing and the caches are empty.
LEMMA InitPlanning == Init => PlanningInv
  <1>. SUFFICES ASSUME Init PROVE PlanningInv
    OBVIOUS
  <1>1. TypeOK
    BY InitTypes
  <1>2. ASSUME NEW c \in Calls PROVE Flow(c) /\ Pinned(c)
    <2>1. /\ pc[c] = "idle" /\ round[c] = 1 /\ answer[c] = "none"
          /\ \A n \in 1..2 : plan[c][n] = NoPlan
      BY DEF Init
    <2>2. QED
      BY <2>1 DEF Flow, Pinned, Own, Accepted, Planned
  <1>2a. KeysInv
    BY DEF Init, KeysInv, Accepted
  <1>3. CacheInv /\ VenueRecent
    <2>1. now = 0 /\ 0 \in 0..MaxNow
      BY TimeAssumption DEF Init
    <2>2. \A k \in Keys : up[k] \in seen[k][now]
      BY <2>1 DEF Init
    <2>3. \A k \in Keys : venuesCache[k] = NoRow /\ nameSearchCache[k] = NoRow
      BY DEF Init
    <2>4. \A c \in Calls : since[c] = 0 /\ pc[c] = "idle" /\ venues[c] = {}
      BY DEF Init
    <2>5. QED
      BY <2>1, <2>2, <2>3, <2>4 DEF CacheInv, VenueRecent, Faithful
  <1>4. QED
    BY <1>1, <1>2, <1>2a, <1>3 DEF PlanningInv

\* Every step keeps the inductive invariant.
LEMMA NextPlanning == PlanningInv /\ [Next]_vars => PlanningInv'
  <1>. SUFFICES ASSUME PlanningInv, [Next]_vars PROVE PlanningInv'
    OBVIOUS
  <1>1. TypeOK /\ KeysInv /\ CacheInv /\ VenueRecent /\ \A c \in Calls : Flow(c) /\ Pinned(c)
    BY DEF PlanningInv
  <1>2. TypeOK'
    BY <1>1, NextTypes
  <1>3. \A c \in Calls : Flow(c)' /\ Pinned(c)'
    BY <1>1, NextKeeps
  <1>4. KeysInv'
    BY <1>1, NextKeys
  <1>5. CacheInv' /\ VenueRecent'
    BY <1>1, NextCaches
  <1>6. QED
    BY <1>2, <1>3, <1>4, <1>5 DEF PlanningInv

\* The commands always satisfy the inductive invariant.
LEMMA PlanningInvariant == Spec => []PlanningInv
  BY InitPlanning, NextPlanning, PTL DEF Spec

\* A plan of the invariant is one of its goal: all that PlanOf says of it.
LEMMA MadePlan ==
  ASSUME TypeOK, NEW c \in Calls, NEW n \in 1..2, Sound(c, n), NEW v \in Zoned, NEW b \in BOOLEAN,
         NEW t \in 0..MaxNow, plan[c][n] = BuildPlan(Goal(c, n), v, b, t)
  PROVE  /\ plan[c][n].goal = Goal(c, n)
         /\ CoversWindow(Goal(c, n)) /\ Len(plan[c][n].fire) = Len(ExpandSlots(Goal(c, n)))
  <1>. DEFINE g == Goal(c, n)
  <1>1. req[c] \in CommandLines
    BY DEF TypeOK
  <1>2. g \in Goals /\ g.date = Day(req[c]) /\ (g.any <=> g.tables = <<>>)
    BY <1>1, GoalOf DEF Goal
  <1>3. g.date - 1 \in Days /\ ~wallTimeAfter(g.start, g.end)
    BY <1>2 DEF Sound
  <1>. HIDE DEF g
  <1>4. plan[c][n] = BuildPlan(g, v, b, t)
    BY DEF g
  <1>5. QED
    BY <1>2, <1>3, <1>4, PlanOf DEF g

\* CreateQuest answers with a quest of its own or with one that a call of the same key
\* and the same goal made less than the TTL before, and the call that made it, if it
\* pinned a hash, made the quest of the plan that it was shown, but for the order of
\* the tables (standard_quest.go:192-223, plan.go:142-149).
THEOREM PinnedHash == Spec => []HashPinsPlan
  <1>1. ASSUME TypeOK, NEW d \in Calls, Pinned(d), Own(d), req[d].cmd = "create" PROVE AsShown(d)
    <2>1. Made(d, 1) /\ Hash(plan[d][2]) = Hash(plan[d][1])
      BY <1>1 DEF Pinned
    <2>2. PICK v \in Zoned, b \in BOOLEAN, t \in 0..MaxNow : plan[d][1] = BuildPlan(Goal(d, 1), v, b, t)
      BY <2>1 DEF Made
    <2>3. PICK w \in Zoned, e \in BOOLEAN : plan[d][2] = BuildPlan(Goal(d, 2), w, e, at[d])
      BY <1>1 DEF Pinned
    <2>4. /\ plan[d][1] = BuildPlan(buildGoalFromOpts(req[d], 1), v, b, t)
          /\ plan[d][2] = BuildPlan(buildGoalFromOpts(req[d], 2), w, e, at[d])
      BY <2>2, <2>3, Zenon DEF Goal
    <2>5. /\ SortedTables(plan[d][2].goal) = SortedTables(plan[d][1].goal)
          /\ [plan[d][2] EXCEPT !.goal.tables = plan[d][1].goal.tables] = plan[d][1]
      BY <2>1, <2>4, HashPins
    <2>6. QED
      BY <2>5, Zenon DEF AsShown
  <1>2. PlanningInv => HashPinsPlan
    <2>1. SUFFICES ASSUME PlanningInv, NEW c \in Calls, Accepted(c)
                   PROVE  LET d == quest[c] IN
                            /\ d \in Calls /\ Accepted(d) /\ quest[d] = d
                            /\ req[d].cmd = "create" => AsShown(d)
                            /\ d # c => /\ req[d].idempotencyKey = req[c].idempotencyKey
                                        /\ plan[d][2].goal = buildGoalFromOpts(req[c], 2)
                                        /\ called[c] < called[d] + IdemTTL
      BY Zenon DEF HashPinsPlan
    <2>2. PICK d : d = quest[c]
      OBVIOUS
    <2>3. /\ d \in Calls /\ Own(d)
          /\ d # c => /\ req[d].idempotencyKey = req[c].idempotencyKey /\ Goal(d, 2) = Goal(c, 2)
                      /\ called[c] < called[d] + IdemTTL
      BY <2>1, <2>2 DEF PlanningInv, KeysInv, MadeBy, Own
    <2>4. TypeOK /\ Pinned(d)
      BY <2>1, <2>3 DEF PlanningInv
    <2>5. plan[d][2].goal = Goal(d, 2)
      <3>1. PICK w \in Zoned, e \in BOOLEAN : plan[d][2] = BuildPlan(Goal(d, 2), w, e, at[d])
        BY <2>3, <2>4 DEF Pinned
      <3>2. QED
        BY <3>1 DEF BuildPlan
    <2>6. req[d].cmd = "create" => AsShown(d)
      BY <1>1, <2>3, <2>4
    <2>7. QED
      BY <2>2, <2>3, <2>5, <2>6 DEF Own, Goal
  <1>3. QED
    BY <1>2, PlanningInvariant, PTL

\* An answer of the resolver is one that the service gave within the TTL and the time
\* that an answer needs to reach the cache, however many commands fill it and whatever
\* became of the venue; only a failed request makes it older (resolver.go:205-247,
\* 250-289).
THEOREM ResolverRecent == Spec => []VenueRecent
  <1>1. PlanningInv => VenueRecent
    BY DEF PlanningInv
  <1>2. QED
    BY <1>1, PlanningInvariant, PTL

\* No quest is made whose time to probe or to poll had run out when CreateQuest planned
\* it, with or without a hash, in any zone and around any change of its clocks, but for
\* a plan to poll that is made in the last second of the venue's day (strategy.go:174-177,
\* 205-238).
THEOREM WindowNotOver == Spec => []AcceptedWindowOpen
  <1>1. PlanningInv => AcceptedWindowOpen
    <2>1. SUFFICES ASSUME PlanningInv, NEW c \in Calls, Own(c)
                   PROVE  OpenAt(plan[c][2].strategy, at[c])
      BY DEF AcceptedWindowOpen, Own, OpenAt
    <2>2. Pinned(c) /\ Day(req[c]) - 1 \in Days /\ at[c] \in 0..MaxNow
      BY <2>1 DEF PlanningInv, Pinned, TypeOK
    <2>3. PICK v \in Zoned, b \in BOOLEAN : plan[c][2] = BuildPlan(Goal(c, 2), v, b, at[c])
      BY <2>1, <2>2 DEF Pinned
    <2>4. Goal(c, 2).date = Day(req[c])
      BY DEF Goal, buildGoalFromOpts
    <2>5. OpenAt(SelectStrategy(Goal(c, 2), v.tz, b, at[c]), at[c])
      BY <2>2, <2>4, WindowOpen
    <2>6. plan[c][2].strategy = SelectStrategy(Goal(c, 2), v.tz, b, at[c])
      BY <2>3 DEF BuildPlan
    <2>7. QED
      BY <2>5, <2>6
  <1>2. QED
    BY <1>1, PlanningInvariant, PTL

\* Every plan shows every step of its window at every table, ends included by the
\* minute, each once, in the order of the priority and of the user's tables, for every
\* window, every step and every list of tables, and schedules as many attempts
\* (slots.go:60-130, plan.go:98).
THEOREM WindowCovered == Spec => []SlotsCoverWindow
  <1>1. PlanningInv => SlotsCoverWindow
    <2>1. SUFFICES ASSUME PlanningInv, NEW c \in Calls, NEW n \in 1..2, plan[c][n] # NoPlan
                   PROVE  /\ CoversWindow(plan[c][n].goal)
                          /\ Len(plan[c][n].fire) = Len(ExpandSlots(plan[c][n].goal))
      BY DEF SlotsCoverWindow
    <2>2. TypeOK /\ Made(c, n) /\ Sound(c, n)
      BY <2>1 DEF PlanningInv, Pinned
    <2>3. PICK v \in Zoned, b \in BOOLEAN, t \in 0..MaxNow : plan[c][n] = BuildPlan(Goal(c, n), v, b, t)
      BY <2>2 DEF Made
    <2>4. /\ plan[c][n].goal = Goal(c, n) /\ CoversWindow(Goal(c, n))
          /\ Len(plan[c][n].fire) = Len(ExpandSlots(Goal(c, n)))
      BY <2>2, <2>3, MadePlan
    <2>5. QED
      BY <2>4, Zenon
  <1>2. QED
    BY <1>1, PlanningInvariant, PTL
=============================================================================
