-------------------------- MODULE RuleValvesProofs --------------------------
(***************************************************************************)
(* Proofs about RuleValves: the cooldown, the hourly cap and the           *)
(* dispatcher's records, for any rules, callers, vehicles and clock        *)
(* readings.                                                               *)
(***************************************************************************)
EXTENDS RuleValves, DetectorLemmas, FiniteSetTheorems

----------------------------------------------------------------------------
(* The loop over the firing log.                                           *)

\* One turn of the loop, and a table of its turns.
Turn(log, cut, x, i) == IF log[i] > cut THEN Append(x, log[i]) ELSE x
Table(log, cut, n, g) ==
    g = [i \in 0 .. n |-> IF i = 0 THEN <<>> ELSE Turn(log, cut, g[i - 1], i)]

\* By induction on its length there is such a table, so After is what the loop
\* computes.
LEMMA TableExists ==
    ASSUME NEW log, NEW cut PROVE \A n \in Nat : \E g : Table(log, cut, n, g)
<1> DEFINE S == {n \in Nat : \E g : Table(log, cut, n, g)}
<1>1. 0 \in S
  <2> DEFINE g == [i \in 0 .. 0 |-> <<>>]
  <2>1. Table(log, cut, 0, g)
    BY DEF Table
  <2>2. QED
    BY <2>1
<1>2. ASSUME NEW n \in S PROVE n + 1 \in S
  <2>1. PICK g : Table(log, cut, n, g)
    OBVIOUS
  <2> DEFINE h == [i \in 0 .. n + 1 |-> IF i <= n THEN g[i] ELSE Turn(log, cut, g[n], n + 1)]
  <2>2. n \in Nat
    OBVIOUS
  <2>3. \A i \in 0 .. n : g[i] = IF i = 0 THEN <<>> ELSE Turn(log, cut, g[i - 1], i)
    BY <2>1 DEF Table
  <2>4. \A i \in 0 .. n + 1 : h[i] = IF i = 0 THEN <<>> ELSE Turn(log, cut, h[i - 1], i)
    <3>1. ASSUME NEW i \in 0 .. n PROVE h[i] = IF i = 0 THEN <<>> ELSE Turn(log, cut, h[i - 1], i)
      <4>1. h[i] = g[i] /\ (i # 0 => h[i - 1] = g[i - 1])
        BY <2>2
      <4>2. QED
        BY <2>3, <4>1
    <3>2. h[n + 1] = Turn(log, cut, g[n], n + 1) /\ h[(n + 1) - 1] = g[n]
      BY <2>2
    <3>3. QED
      BY <2>2, <3>1, <3>2
  <2>5. DOMAIN h = 0 .. n + 1
    OBVIOUS
  <2>6. h = [i \in 0 .. n + 1 |-> h[i]]
    OBVIOUS
  <2> HIDE DEF h
  <2>7. Table(log, cut, n + 1, h)
    BY <2>4, <2>6 DEF Table
  <2>8. QED
    BY <2>2, <2>7
<1>3. S = Nat
  <2>1. S \in SUBSET Nat
    OBVIOUS
  <2> HIDE DEF S
  <2>2. QED
    BY <1>1, <1>2, <2>1, SetInduction
<1>4. QED
  BY <1>3

\* What the loop keeps of a log: nothing but firings after the cut, and as many
\* after any later time as the log has.
Later(log, t) == {i \in DOMAIN log : log[i] > t}

\* Counting what lies after t.
LEMMA LaterFinite ==
    ASSUME NEW log \in Seq(Int), NEW t
    PROVE  IsFiniteSet(Later(log, t)) /\ Cardinality(Later(log, t)) \in Nat
<1>1. IsFiniteSet(1 .. Len(log)) /\ Later(log, t) \subseteq 1 .. Len(log)
  BY FS_Interval DEF Later
<1>2. QED
  BY <1>1, FS_Subset, FS_CardinalityType

\* One firing more.
LEMMA LaterAppend ==
    ASSUME NEW log \in Seq(Int), NEW t, NEW x \in Int
    PROVE  Cardinality(Later(Append(log, x), t)) =
              Cardinality(Later(log, t)) + IF x > t THEN 1 ELSE 0
<1> DEFINE n == Len(log) + 1
           old == Later(log, t)
           new == Later(Append(log, x), t)
<1>1. /\ DOMAIN Append(log, x) = 1 .. n /\ DOMAIN log = 1 .. Len(log) /\ n \notin 1 .. Len(log)
      /\ 1 .. n = (1 .. Len(log)) \union {n}
      /\ Append(log, x)[n] = x /\ \A j \in 1 .. Len(log) : Append(log, x)[j] = log[j]
  OBVIOUS
<1>2. IsFiniteSet(old) /\ Cardinality(old) \in Nat
  BY LaterFinite
<1>3. CASE x > t
  <2>1. new = old \union {n} /\ n \notin old
    BY <1>1, <1>3 DEF Later
  <2> HIDE DEF old, new
  <2>2. Cardinality(new) = Cardinality(old) + 1
    BY <1>2, <2>1, FS_AddElement
  <2>3. QED
    BY <1>3, <2>2 DEF old, new
<1>4. CASE ~(x > t)
  <2>1. new = old
    BY <1>1, <1>4 DEF Later
  <2> HIDE DEF old, new
  <2>2. QED
    BY <1>2, <1>4, <2>1 DEF old, new
<1>5. QED
  BY <1>3, <1>4

Keeps(r, log, n, cut) ==
    /\ r \in Seq(Int)
    /\ \A i \in DOMAIN r : r[i] > cut
    /\ \A t \in Int : t >= cut =>
            Cardinality(Later(r, t)) = Cardinality({i \in 1 .. n : log[i] > t})

\* By induction on the length of the log.
LEMMA AfterKeeps ==
    ASSUME NEW log \in Seq(Int), NEW cut \in Int
    PROVE  Keeps(After(log, cut), log, Len(log), cut)
<1> DEFINE N == Len(log)
           f == CHOOSE g : g = [i \in 0 .. Len(log) |->
                    IF i = 0 THEN <<>>
                    ELSE IF log[i] > cut THEN Append(g[i - 1], log[i]) ELSE g[i - 1]]
<1>1. N \in Nat
  OBVIOUS
<1>2. PICK h : Table(log, cut, N, h)
  BY <1>1, TableExists
<1>3. f = [i \in 0 .. N |-> IF i = 0 THEN <<>>
                    ELSE IF log[i] > cut THEN Append(f[i - 1], log[i]) ELSE f[i - 1]]
  BY <1>2 DEF Table, Turn
<1>4. After(log, cut) = f[N]
  BY DEF After
<1> HIDE DEF f
<1> DEFINE S == {n \in Nat : n <= N => Keeps(f[n], log, n, cut)}
<1>5. 0 \in S
  <2>1. f[0] = <<>>
    BY <1>1, <1>3
  <2>2. \A t : Later(<<>>, t) = {} /\ {i \in 1 .. 0 : log[i] > t} = {}
    <3>1. 1 .. 0 = {} /\ DOMAIN <<>> = {}
      OBVIOUS
    <3>2. QED
      BY <3>1 DEF Later
  <2>3. Keeps(<<>>, log, 0, cut)
    <3>1. \A t : Cardinality(Later(<<>>, t)) = Cardinality({i \in 1 .. 0 : log[i] > t})
      BY <2>2
    <3>2. <<>> \in Seq(Int) /\ DOMAIN <<>> = {}
      OBVIOUS
    <3>3. QED
      BY <3>1, <3>2 DEF Keeps
  <2>4. QED
    BY <2>1, <2>3
<1>6. ASSUME NEW n \in S PROVE n + 1 \in S
  <2> SUFFICES ASSUME n + 1 <= N PROVE Keeps(f[n + 1], log, n + 1, cut)
    OBVIOUS
  <2>1. n \in Nat /\ n <= N /\ n + 1 \in 0 .. N /\ (n + 1) - 1 = n /\ n + 1 # 0
    BY <1>1
  <2>2. Keeps(f[n], log, n, cut)
    BY <2>1
  <2>3. f[n + 1] = IF log[n + 1] > cut THEN Append(f[n], log[n + 1]) ELSE f[n]
    BY <1>3, <2>1
  <2>4. log[n + 1] \in Int
    BY <2>1
  <2> DEFINE r == f[n]
             x == log[n + 1]
  <2>5. r \in Seq(Int) /\ \A i \in DOMAIN r : r[i] > cut
    BY <2>2 DEF Keeps
  <2>6. ASSUME NEW t \in Int, t >= cut
        PROVE  Cardinality(Later(f[n + 1], t)) = Cardinality({i \in 1 .. n + 1 : log[i] > t})
    <3> DEFINE old == {i \in 1 .. n : log[i] > t}
               new == {i \in 1 .. n + 1 : log[i] > t}
    <3>1. Cardinality(Later(r, t)) = Cardinality(old)
      BY <2>2, <2>6 DEF Keeps
    <3>2. IsFiniteSet(old) /\ Cardinality(old) \in Nat
      <4>1. IsFiniteSet(1 .. n) /\ old \subseteq 1 .. n
        BY <2>1, FS_Interval
      <4>2. QED
        BY <4>1, FS_Subset, FS_CardinalityType
    <3>3. CASE x > t
      <4>1. f[n + 1] = Append(r, x)
        BY <2>3, <2>4, <2>6, <3>3
      <4>2. new = old \union {n + 1} /\ n + 1 \notin old
        BY <2>1, <3>3
      <4>3. Cardinality(new) = Cardinality(old) + 1
        <5> HIDE DEF old, new
        <5>1. QED
          BY <3>2, <4>2, FS_AddElement
      <4>4. Cardinality(Later(Append(r, x), t)) = Cardinality(Later(r, t)) + 1
        <5> HIDE DEF r, x
        <5>1. QED
          BY <2>4, <2>5, <3>3, LaterAppend DEF x
      <4>5. QED
        BY <3>1, <4>1, <4>3, <4>4
    <3>4. CASE ~(x > t)
      <4>1. new = old
        BY <2>1, <3>4
      <4>2. Cardinality(Later(f[n + 1], t)) = Cardinality(Later(r, t))
        <5>1. CASE x > cut
          <6>1. f[n + 1] = Append(r, x)
            BY <2>3, <5>1
          <6>2. Cardinality(Later(Append(r, x), t)) = Cardinality(Later(r, t)) + 0
            <7>1. x \in Int
              BY <2>4
            <7> HIDE DEF r, x
            <7>2. QED
              BY <2>5, <3>4, <7>1, LaterAppend
          <6>3. Cardinality(Later(r, t)) \in Nat
            <7> HIDE DEF r
            <7>1. QED
              BY <2>5, LaterFinite
          <6>4. QED
            BY <6>1, <6>2, <6>3
        <5>2. CASE ~(x > cut)
          BY <2>3, <5>2
        <5>3. QED
          BY <5>1, <5>2
      <4>3. QED
        BY <3>1, <4>1, <4>2
    <3>5. QED
      BY <3>3, <3>4
  <2>7. f[n + 1] \in Seq(Int) /\ \A i \in DOMAIN f[n + 1] : f[n + 1][i] > cut
    <3>1. CASE x > cut
      <4>1. f[n + 1] = Append(r, x)
        BY <2>3, <3>1
      <4>2. x \in Int
        BY <2>4
      <4> HIDE DEF r, x
      <4>3. QED
        BY <2>5, <3>1, <4>1, <4>2
    <3>2. CASE ~(x > cut)
      BY <2>3, <2>5, <3>2
    <3>3. QED
      BY <3>1, <3>2
  <2>8. QED
    BY <2>6, <2>7 DEF Keeps
<1>7. S = Nat
  <2>1. S \in SUBSET Nat
    OBVIOUS
  <2> HIDE DEF S
  <2>2. QED
    BY <1>5, <1>6, <2>1, SetInduction
<1>8. N \in S
  BY <1>1, <1>7
<1>9. QED
  BY <1>4, <1>8

----------------------------------------------------------------------------
(* The valves and the firings they let through.                            *)

Parsed == {ParseSpec(r) : r \in Specs}
ValveKeys == {valveKey(r, v) : r \in Specs, v \in Vehicles}
Engines == [lastFire : [ValveKeys -> Int], fireLog : [ValveKeys -> Seq(Int)]]
Firings == [rule : Parsed, veh : Vehicles, at : Nat, json : BOOLEAN]
KeyOf(f) == valveKey(f.rule, f.veh)
FiredLater(fs, k, t) == {i \in DOMAIN fs : KeyOf(fs[i]) = k /\ fs[i].at > t}

\* The engine's memory at clock n against the firings so far: no firing is
\* later than the clock or than the last one its key remembers, and pruning
\* has lost none of the hour up to n.
Remembers(fs, e, n) ==
    /\ \A i \in DOMAIN fs : fs[i].at <= n /\ fs[i].at <= e.lastFire[KeyOf(fs[i])]
    /\ \A k \in ValveKeys, t \in Int :
            t >= n - Hour => Cardinality(FiredLater(fs, k, t)) = Cardinality(Later(e.fireLog[k], t))

\* What ParseSpec leaves of a rule file.
LEMMA ParsedFacts ==
    ASSUME NEW r \in Parsed
    PROVE  /\ r.cooldown \in Int /\ r.cap \in Int
           /\ \A v \in Vehicles : valveKey(r, v) \in ValveKeys
<1>1. PICK f \in Specs : r = ParseSpec(f)
  BY DEF Parsed
<1>2. f \in RuleFiles
  BY ValvesConfig
<1>3. r.cooldown = f.cooldown /\ r.id = f.id /\ r.version = f.version /\ r.cap \in Int
  BY <1>1, <1>2 DEF ParseSpec, RuleFiles, DefaultCap
<1>4. f.cooldown \in Int
  BY <1>2 DEF RuleFiles
<1>5. QED
  BY <1>3, <1>4 DEF ValveKeys, valveKey

\* The two valves use the same key as the firings they are about.
LEMMA SameKey ==
    ASSUME NEW f, NEW g PROVE Same(f, g) <=> KeyOf(f) = KeyOf(g)
BY DEF Same, KeyOf, ruleKey, valveKey

\* A firing is of a parsed rule and has a key of the valves.
LEMMA FiringsTyped ==
    ASSUME NEW fs \in Seq(Firings), NEW i \in DOMAIN fs
    PROVE  /\ fs[i].rule \in Parsed /\ fs[i].veh \in Vehicles /\ fs[i].at \in Nat
           /\ KeyOf(fs[i]) \in ValveKeys
<1>1. fs[i] \in Firings
  OBVIOUS
<1>2. fs[i].rule \in Parsed /\ fs[i].veh \in Vehicles /\ fs[i].at \in Nat
  BY <1>1 DEF Firings
<1>3. QED
  BY <1>2, ParsedFacts DEF KeyOf

\* Firings can be counted.
LEMMA FiredFinite ==
    ASSUME NEW fs \in Seq(Firings), NEW k, NEW t
    PROVE  IsFiniteSet(FiredLater(fs, k, t)) /\ Cardinality(FiredLater(fs, k, t)) \in Nat
<1>1. IsFiniteSet(1 .. Len(fs)) /\ FiredLater(fs, k, t) \subseteq 1 .. Len(fs)
  BY FS_Interval DEF FiredLater
<1>2. QED
  BY <1>1, FS_Subset, FS_CardinalityType

\* How a firing changes the count of its key.
LEMMA FiredAppend ==
    ASSUME NEW fs \in Seq(Firings), NEW k, NEW t, NEW f \in Firings
    PROVE  Cardinality(FiredLater(Append(fs, f), k, t)) =
              Cardinality(FiredLater(fs, k, t)) + IF KeyOf(f) = k /\ f.at > t THEN 1 ELSE 0
<1> DEFINE n == Len(fs) + 1
           old == FiredLater(fs, k, t)
           new == FiredLater(Append(fs, f), k, t)
           fits == KeyOf(f) = k /\ f.at > t
<1>1. /\ DOMAIN Append(fs, f) = 1 .. n /\ DOMAIN fs = 1 .. Len(fs) /\ n \notin 1 .. Len(fs)
      /\ 1 .. n = (1 .. Len(fs)) \union {n}
      /\ Append(fs, f)[n] = f /\ \A j \in 1 .. Len(fs) : Append(fs, f)[j] = fs[j]
  OBVIOUS
<1>2. IsFiniteSet(old) /\ Cardinality(old) \in Nat
  BY FiredFinite
<1>3. CASE fits
  <2>1. new = old \union {n} /\ n \notin old
    BY <1>1, <1>3 DEF FiredLater
  <2> HIDE DEF old, new
  <2>2. Cardinality(new) = Cardinality(old) + 1
    BY <1>2, <2>1, FS_AddElement
  <2>3. QED
    BY <1>3, <2>2 DEF old, new
<1>4. CASE ~fits
  <2>1. new = old
    BY <1>1, <1>4 DEF FiredLater
  <2> HIDE DEF old, new
  <2>2. QED
    BY <1>2, <1>4, <2>1 DEF old, new
<1>5. QED
  BY <1>3, <1>4

\* Time passes.
LEMMA RemembersLater ==
    ASSUME NEW fs \in Seq(Firings), NEW e, NEW n \in Nat, NEW m \in Nat, n <= m,
           Remembers(fs, e, n)
    PROVE  Remembers(fs, e, m)
<1>1. \A i \in DOMAIN fs : fs[i].at <= m
  BY FiringsTyped DEF Remembers
<1>2. \A t \in Int : t >= m - Hour => t >= n - Hour
  BY DEF Hour
<1>3. QED
  BY <1>1, <1>2 DEF Remembers

\* The trailing hour of a key's log.
LEMMA RecentKeeps ==
    ASSUME NEW e \in Engines, NEW r \in Parsed, NEW v \in Vehicles, NEW n \in Nat
    PROVE  /\ Recent(e, r, v, n) \in Seq(Int)
           /\ \A t \in Int : t >= n - Hour =>
                Cardinality(Later(Recent(e, r, v, n), t)) =
                    Cardinality(Later(e.fireLog[valveKey(r, v)], t))
           /\ Len(Recent(e, r, v, n)) =
                Cardinality(Later(e.fireLog[valveKey(r, v)], n - Hour))
<1> DEFINE log == e.fireLog[valveKey(r, v)]
           cut == n - Hour
           rec == After(log, cut)
<1>1. valveKey(r, v) \in ValveKeys
  BY ParsedFacts
<1>2. log \in Seq(Int) /\ cut \in Int
  BY <1>1 DEF Engines, Hour
<1>3. \A t : Later(log, t) = {i \in 1 .. Len(log) : log[i] > t}
  BY <1>2 DEF Later
<1>4. Recent(e, r, v, n) = rec
  BY DEF Recent
<1>5. Keeps(rec, log, Len(log), cut)
  <2> HIDE DEF log, cut
  <2>1. QED
    BY <1>2, AfterKeeps
<1> HIDE DEF log, rec
<1>6. rec \in Seq(Int) /\ \A i \in DOMAIN rec : rec[i] > cut
  BY <1>5 DEF Keeps
<1>7. \A t \in Int : t >= cut => Cardinality(Later(rec, t)) = Cardinality(Later(log, t))
  BY <1>3, <1>5 DEF Keeps
<1>8. Later(rec, cut) = 1 .. Len(rec)
  BY <1>6 DEF Later
<1>9. Len(rec) = Cardinality(Later(log, cut))
  <2>1. Len(rec) \in Nat /\ cut >= cut
    BY <1>2, <1>6
  <2>2. Cardinality(1 .. Len(rec)) = Len(rec)
    <3>1. \A l \in Nat : Cardinality(1 .. l) = IF 1 > l THEN 0 ELSE l - 1 + 1
      BY FS_Interval
    <3>2. \A l \in Nat : Cardinality(1 .. l) = l
      BY <3>1
    <3>3. QED
      BY <2>1, <3>2
  <2>3. QED
    BY <1>2, <1>7, <1>8, <2>1, <2>2
<1>10. QED
  BY <1>4, <1>6, <1>7, <1>9 DEF log

\* Pruning forgets nothing that counts.
LEMMA PruneRemembers ==
    ASSUME NEW fs \in Seq(Firings), NEW e \in Engines, NEW r \in Parsed, NEW v \in Vehicles,
           NEW n \in Nat, Remembers(fs, e, n)
    PROVE  Prune(e, r, v, n) \in Engines /\ Remembers(fs, Prune(e, r, v, n), n)
<1> DEFINE p == Prune(e, r, v, n)
           vk == valveKey(r, v)
           rec == Recent(e, r, v, n)
<1>1. vk \in ValveKeys /\ rec \in Seq(Int)
  BY ParsedFacts, RecentKeeps
<1>2. /\ \A t \in Int : t >= n - Hour =>
             Cardinality(Later(rec, t)) = Cardinality(Later(e.fireLog[vk], t))
  BY RecentKeeps
<1>3. p = [e EXCEPT !.fireLog[vk] = rec]
  BY DEF Prune
<1> HIDE DEF p, vk, rec
<1>4. p \in Engines
  BY <1>1, <1>3 DEF Engines
<1>5. /\ p.lastFire = e.lastFire
      /\ \A k \in ValveKeys : p.fireLog[k] = IF k = vk THEN rec ELSE e.fireLog[k]
  BY <1>1, <1>3 DEF Engines
<1>6. Remembers(fs, p, n)
  <2>1. \A k \in ValveKeys, t \in Int : t >= n - Hour =>
            Cardinality(Later(p.fireLog[k], t)) = Cardinality(Later(e.fireLog[k], t))
    BY <1>2, <1>5
  <2>2. QED
    BY <1>5, <2>1 DEF Remembers
<1>7. QED
  BY <1>4, <1>6 DEF p

\* A firing is remembered.
LEMMA FireRemembers ==
    ASSUME NEW fs \in Seq(Firings), NEW e \in Engines, NEW r \in Parsed, NEW v \in Vehicles,
           NEW n \in Nat, NEW js \in BOOLEAN, Remembers(fs, e, n)
    PROVE  /\ Fire(e, r, v, n) \in Engines
           /\ Remembers(Append(fs, [rule |-> r, veh |-> v, at |-> n, json |-> js]), Fire(e, r, v, n), n)
<1> DEFINE p == Fire(e, r, v, n)
           vk == valveKey(r, v)
           rec == Recent(e, r, v, n)
           f == [rule |-> r, veh |-> v, at |-> n, json |-> js]
           gs == Append(fs, f)
<1>1. vk \in ValveKeys /\ rec \in Seq(Int) /\ f \in Firings /\ KeyOf(f) = vk /\ f.at = n
  BY ParsedFacts, RecentKeeps DEF Firings, KeyOf
<1>2. \A t \in Int : t >= n - Hour =>
             Cardinality(Later(rec, t)) = Cardinality(Later(e.fireLog[vk], t))
  BY RecentKeeps
<1>3. p = [lastFire |-> [e.lastFire EXCEPT ![vk] = n],
           fireLog |-> [e.fireLog EXCEPT ![vk] = Append(rec, n)]]
  BY DEF Fire
<1>4. gs \in Seq(Firings) /\ \A i \in DOMAIN gs : gs[i] = f \/ (i \in DOMAIN fs /\ gs[i] = fs[i])
  BY <1>1
<1>5. \A k, t : Cardinality(FiredLater(gs, k, t)) =
            Cardinality(FiredLater(fs, k, t)) + IF vk = k /\ n > t THEN 1 ELSE 0
  <2> HIDE DEF vk, f
  <2>1. QED
    BY <1>1, FiredAppend
<1>6. \A t : Cardinality(Later(Append(rec, n), t)) =
            Cardinality(Later(rec, t)) + IF n > t THEN 1 ELSE 0
  <2> HIDE DEF rec
  <2>1. QED
    BY <1>1, LaterAppend
<1> HIDE DEF p, vk, rec, f, gs
<1>7. Append(rec, n) \in Seq(Int)
  BY <1>1
<1>8. p \in Engines
  BY <1>1, <1>3, <1>7 DEF Engines
<1>9. /\ p.lastFire[vk] = n /\ p.fireLog[vk] = Append(rec, n)
      /\ \A k \in ValveKeys : k # vk => p.lastFire[k] = e.lastFire[k] /\ p.fireLog[k] = e.fireLog[k]
  BY <1>1, <1>3 DEF Engines
<1>10. ASSUME NEW i \in DOMAIN gs
       PROVE  gs[i].at <= n /\ gs[i].at <= p.lastFire[KeyOf(gs[i])]
  <2>1. CASE gs[i] = f
    BY <1>1, <1>9, <2>1
  <2>2. CASE i \in DOMAIN fs /\ gs[i] = fs[i]
    <3>1. fs[i].at <= n /\ fs[i].at <= e.lastFire[KeyOf(fs[i])]
      BY <2>2 DEF Remembers
    <3>2. KeyOf(fs[i]) \in ValveKeys
      BY <2>2, FiringsTyped
    <3>3. QED
      BY <1>9, <2>2, <3>1, <3>2
  <2>3. QED
    BY <1>4, <2>1, <2>2
<1>11. ASSUME NEW k \in ValveKeys, NEW t \in Int, t >= n - Hour
       PROVE  Cardinality(FiredLater(gs, k, t)) = Cardinality(Later(p.fireLog[k], t))
  <2>1. Cardinality(FiredLater(fs, k, t)) = Cardinality(Later(e.fireLog[k], t))
    BY <1>11 DEF Remembers
  <2>2. Cardinality(FiredLater(fs, k, t)) \in Nat
    BY FiredFinite
  <2>3. CASE k = vk
    <3>1. Cardinality(Later(rec, t)) = Cardinality(FiredLater(fs, k, t))
      BY <1>2, <1>11, <2>1, <2>3
    <3>2. QED
      BY <1>5, <1>6, <1>9, <2>3, <3>1
  <2>4. CASE k # vk
    <3>1. Cardinality(FiredLater(gs, k, t)) = Cardinality(FiredLater(fs, k, t)) + 0
      BY <1>5, <2>4
    <3>2. QED
      BY <1>9, <2>1, <2>2, <2>4, <3>1
  <2>5. QED
    BY <2>3, <2>4
<1>12. Remembers(gs, p, n)
  BY <1>10, <1>11 DEF Remembers
<1>13. QED
  BY <1>8, <1>12 DEF p, gs, f

\* CooldownRespected and HourlyCapRespected of a sequence of firings.
Spaced(fs) ==
    \A i, j \in DOMAIN fs :
        (i < j /\ Same(fs[i], fs[j]) /\ fs[i].rule.cooldown > 0)
            => fs[j].at - fs[i].at >= fs[i].rule.cooldown
HourBefore(fs, j) ==
    {i \in 1 .. j : Same(fs[i], fs[j]) /\ fs[i].at > fs[j].at - Hour}
WithinCap(fs) == \A j \in DOMAIN fs : Cardinality(HourBefore(fs, j)) <= fs[j].rule.cap

\* An open cooldown valve keeps the firings apart.
LEMMA FireSpaced ==
    ASSUME NEW fs \in Seq(Firings), NEW e \in Engines, NEW r \in Parsed, NEW v \in Vehicles,
           NEW n \in Nat, NEW js \in BOOLEAN, Remembers(fs, e, n), Spaced(fs),
           \A i \in DOMAIN fs : ruleKey(fs[i].rule) = ruleKey(r) => fs[i].rule = r,
           ~CoolingDown(e, r, v, n)
    PROVE  Spaced(Append(fs, [rule |-> r, veh |-> v, at |-> n, json |-> js]))
<1> DEFINE f == [rule |-> r, veh |-> v, at |-> n, json |-> js]
           gs == Append(fs, f)
           vk == valveKey(r, v)
<1>1. /\ DOMAIN gs = 1 .. Len(fs) + 1 /\ DOMAIN fs = 1 .. Len(fs) /\ Len(fs) \in Nat
      /\ gs[Len(fs) + 1] = f /\ \A i \in DOMAIN fs : gs[i] = fs[i]
  OBVIOUS
<1>2. f.rule = r /\ f.veh = v /\ f.at = n /\ KeyOf(f) = vk
  BY DEF KeyOf
<1>3. vk \in ValveKeys /\ r.cooldown \in Int /\ e.lastFire[vk] \in Int
  BY ParsedFacts DEF Engines
<1>4. r.cooldown > 0 /\ e.lastFire[vk] # Never => n - e.lastFire[vk] >= r.cooldown
  BY <1>3 DEF CoolingDown
<1> HIDE DEF gs, f, vk
<1>5. ASSUME NEW i \in DOMAIN fs, Same(fs[i], f), fs[i].rule.cooldown > 0
      PROVE  n - fs[i].at >= fs[i].rule.cooldown
  <2>1. fs[i].rule = r
    BY <1>2, <1>5 DEF Same
  <2>2. KeyOf(fs[i]) = vk
    BY <1>2, <1>5, SameKey
  <2>3. fs[i].at \in Nat
    BY FiringsTyped
  <2>4. fs[i].at <= e.lastFire[vk]
    BY <2>2 DEF Remembers
  <2>5. e.lastFire[vk] # Never
    BY <1>3, <2>3, <2>4 DEF Never
  <2>6. QED
    BY <1>3, <1>4, <1>5, <2>1, <2>3, <2>4, <2>5
<1>6. Spaced(gs)
  <2> SUFFICES ASSUME NEW i \in DOMAIN gs, NEW j \in DOMAIN gs, i < j, Same(gs[i], gs[j]),
                      gs[i].rule.cooldown > 0
               PROVE  gs[j].at - gs[i].at >= gs[i].rule.cooldown
    BY DEF Spaced
  <2>1. i \in DOMAIN fs /\ gs[i] = fs[i]
    BY <1>1
  <2>2. CASE j \in DOMAIN fs
    <3>1. gs[j] = fs[j]
      BY <1>1, <2>2
    <3>2. QED
      BY <2>1, <2>2, <3>1 DEF Spaced
  <2>3. CASE j \notin DOMAIN fs
    <3>1. gs[j] = f
      BY <1>1, <2>3
    <3>2. QED
      BY <1>2, <1>5, <2>1, <3>1
  <2>4. QED
    BY <2>2, <2>3
<1>7. QED
  BY <1>6 DEF gs, f

\* An open cap valve leaves room for one more in the trailing hour.
LEMMA FireWithinCap ==
    ASSUME NEW fs \in Seq(Firings), NEW e \in Engines, NEW r \in Parsed, NEW v \in Vehicles,
           NEW n \in Nat, NEW js \in BOOLEAN, Remembers(fs, e, n), WithinCap(fs),
           ~Capped(e, r, v, n)
    PROVE  WithinCap(Append(fs, [rule |-> r, veh |-> v, at |-> n, json |-> js]))
<1> DEFINE f == [rule |-> r, veh |-> v, at |-> n, json |-> js]
           gs == Append(fs, f)
           vk == valveKey(r, v)
           cut == n - Hour
           old == FiredLater(fs, vk, cut)
           N == Len(fs) + 1
<1>1. /\ DOMAIN gs = 1 .. N /\ DOMAIN fs = 1 .. Len(fs) /\ Len(fs) \in Nat
      /\ gs[N] = f /\ \A i \in DOMAIN fs : gs[i] = fs[i]
  OBVIOUS
<1>2. f.rule = r /\ f.veh = v /\ f.at = n /\ KeyOf(f) = vk
  BY DEF KeyOf
<1>3. vk \in ValveKeys /\ r.cap \in Int /\ cut \in Int /\ cut >= cut /\ n > cut
  BY ParsedFacts DEF Hour
<1>4. Cardinality(old) < r.cap
  <2>1. Cardinality(old) = Cardinality(Later(e.fireLog[vk], cut))
    BY <1>3 DEF Remembers
  <2>2. Len(Recent(e, r, v, n)) = Cardinality(Later(e.fireLog[vk], cut))
    BY RecentKeeps
  <2>3. Len(Recent(e, r, v, n)) \in Nat
    BY RecentKeeps
  <2>4. QED
    BY <1>3, <2>1, <2>2, <2>3 DEF Capped
<1>5. IsFiniteSet(old) /\ Cardinality(old) \in Nat
  BY FiredFinite
<1> HIDE DEF gs, f, vk
<1>6. HourBefore(gs, N) = old \union {N} /\ N \notin old
  <2>1. 1 .. N = (DOMAIN fs) \union {N} /\ N \notin DOMAIN fs
    BY <1>1
  <2>2. \A i \in DOMAIN fs : Same(gs[i], gs[N]) <=> KeyOf(fs[i]) = vk
    BY <1>1, <1>2, SameKey
  <2>3. Same(gs[N], gs[N]) /\ gs[N].at = n
    BY <1>1, <1>2 DEF Same
  <2>4. \A i \in DOMAIN fs : gs[i].at = fs[i].at
    BY <1>1
  <2> HIDE DEF N
  <2>5. QED
    BY <1>3, <2>1, <2>2, <2>3, <2>4 DEF HourBefore, FiredLater
<1>7. Cardinality(HourBefore(gs, N)) <= r.cap
  <2> HIDE DEF old
  <2>1. Cardinality(HourBefore(gs, N)) = Cardinality(old) + 1
    BY <1>5, <1>6, FS_AddElement
  <2>2. QED
    BY <1>3, <1>4, <1>5, <2>1
<1>8. ASSUME NEW j \in DOMAIN fs PROVE Cardinality(HourBefore(gs, j)) <= gs[j].rule.cap
  <2>1. \A i \in 1 .. j : gs[i] = fs[i]
    BY <1>1
  <2>2. gs[j] = fs[j]
    BY <1>1
  <2>3. HourBefore(gs, j) = HourBefore(fs, j)
    BY <2>1, <2>2 DEF HourBefore
  <2>4. QED
    BY <2>2, <2>3 DEF WithinCap
<1>9. WithinCap(gs)
  <2>1. \A j \in DOMAIN gs : j \in DOMAIN fs \/ j = N
    BY <1>1
  <2>2. gs[N].rule.cap = r.cap
    BY <1>1, <1>2
  <2>3. QED
    BY <1>7, <1>8, <2>1, <2>2 DEF WithinCap
<1>10. QED
  BY <1>9 DEF gs, f

----------------------------------------------------------------------------
(* The engine's call.                                                      *)

Hooks == [phase : {"none", "send", "done"}, attempt : 0 .. MaxRetries + 1]

\* The call that holds the mutex reads the clock as it gets it, and works on
\* published rules; Dispatch is entered for a rule with a webhook only.
CallInv ==
    /\ TypeOK
    /\ run = [busy |-> run.busy, b |-> run.b, at |-> run.at, granted |-> run.granted,
              rules |-> run.rules, evs |-> run.evs, out |-> run.out, hook |-> run.hook]
    /\ run.busy => /\ run.at = run.granted /\ run.at <= now
                   /\ run.b \in Batches /\ run.rules \in Seq(published)
    /\ run.hook.phase # "none" => run.busy /\ ~Exhausted /\ CurRule.webhook # "none"

Clock == IF run.busy THEN run.at ELSE now

\* The clock of the engine is a natural number.
LEMMA ClockNat == CallInv => Clock \in Nat /\ now \in Nat
BY ValvesConfig DEF CallInv, TypeOK, Clock

\* On to the next rule and event.
LEMMA GoOnCall ==
    ASSUME CallInv, run.busy, ~Exhausted, NEW out, GoOn(out),
           UNCHANGED <<now, published, waiting, calls>>
    PROVE  CallInv' /\ Clock' = Clock /\ run'.hook.phase = "none"
<1>1. run.rules \in Seq(published) /\ run.rules # <<>>
  BY DEF CallInv, Exhausted
<1> DEFINE last == Len(run.evs) = 1
           rest == IF last THEN Tail(run.rules) ELSE run.rules
           todo == IF last THEN run.b.evs ELSE Tail(run.evs)
<1>2. rest \in Seq(published)
  BY <1>1
<1>3. run' = [busy |-> run.busy, b |-> run.b, at |-> run.at, granted |-> run.granted,
              rules |-> rest, evs |-> todo, out |-> out, hook |-> NoHook]
  <2>1. run = [busy |-> run.busy, b |-> run.b, at |-> run.at, granted |-> run.granted,
               rules |-> run.rules, evs |-> run.evs, out |-> run.out, hook |-> run.hook]
    BY DEF CallInv
  <2>2. run' = [run EXCEPT !.rules = rest, !.evs = todo, !.out = out, !.hook = NoHook]
    BY DEF GoOn
  <2> HIDE DEF rest, todo
  <2>3. QED
    BY <2>1, <2>2
<1> HIDE DEF rest, todo
<1>4. /\ run'.busy = run.busy /\ run'.b = run.b /\ run'.at = run.at /\ run'.granted = run.granted
      /\ run'.rules = rest /\ run'.evs = todo /\ run'.out = out /\ run'.hook = NoHook
  BY <1>3
<1>5. NoHook \in Hooks /\ NoHook.phase = "none"
  BY ValvesConfig DEF NoHook, Hooks
<1>6. TypeOK'
  BY <1>4, <1>5 DEF CallInv, TypeOK, Hooks
<1>7. QED
  BY <1>2, <1>3, <1>4, <1>5, <1>6 DEF CallInv, Clock

\* A turn of Dispatch.
LEMMA HookCall ==
    ASSUME CallInv, run.hook.phase = "send", NEW h \in Hooks,
           run' = [run EXCEPT !.hook = h], UNCHANGED <<now, published, waiting, calls>>
    PROVE  CallInv' /\ Clock' = Clock /\ run'.hook = h
<1>1. run = [busy |-> run.busy, b |-> run.b, at |-> run.at, granted |-> run.granted,
             rules |-> run.rules, evs |-> run.evs, out |-> run.out, hook |-> run.hook]
  BY DEF CallInv
<1>2. run' = [busy |-> run.busy, b |-> run.b, at |-> run.at, granted |-> run.granted,
              rules |-> run.rules, evs |-> run.evs, out |-> run.out, hook |-> h]
  BY <1>1
<1>3. /\ run'.busy = run.busy /\ run'.b = run.b /\ run'.at = run.at /\ run'.granted = run.granted
      /\ run'.rules = run.rules /\ run'.evs = run.evs /\ run'.out = run.out /\ run'.hook = h
  BY <1>2
<1>4. run.busy /\ ~Exhausted /\ CurRule.webhook # "none"
  BY DEF CallInv
<1>5. TypeOK'
  BY <1>3 DEF CallInv, TypeOK, Hooks
<1>6. QED
  BY <1>2, <1>3, <1>4, <1>5 DEF CallInv, Clock, Exhausted, CurRule

\* A firing enters Dispatch.
LEMMA EnterCall ==
    ASSUME CallInv, EnterDispatch
    PROVE  CallInv' /\ Clock' = Clock /\ run'.hook.phase = "send"
<1> DEFINE h == [phase |-> "send", attempt |-> run.hook.attempt]
           out == run.out \o Emission(CurRule, run.b.t)
<1>1. /\ run.busy /\ ~Exhausted /\ run.hook.phase = "none" /\ CurRule.webhook # "none"
      /\ UNCHANGED <<now, published, waiting, calls>>
  BY DEF EnterDispatch, Evaluating
<1>2. run.hook \in Hooks /\ [run.hook EXCEPT !.phase = "send"] = h /\ h \in Hooks
  BY DEF CallInv, TypeOK, Hooks
<1>3. run' = [run EXCEPT !.out = out, !.hook = h]
  <2>1. run' = [run EXCEPT !.out = out, !.hook.phase = "send"]
    BY DEF EnterDispatch
  <2> HIDE DEF out
  <2>2. QED
    BY <1>2, <2>1
<1> HIDE DEF h, out
<1>4. run' = [busy |-> run.busy, b |-> run.b, at |-> run.at, granted |-> run.granted,
              rules |-> run.rules, evs |-> run.evs, out |-> out, hook |-> h]
  <2>1. run = [busy |-> run.busy, b |-> run.b, at |-> run.at, granted |-> run.granted,
               rules |-> run.rules, evs |-> run.evs, out |-> run.out, hook |-> run.hook]
    BY DEF CallInv
  <2>2. QED
    BY <1>3, <2>1
<1>5. /\ run'.busy = run.busy /\ run'.b = run.b /\ run'.at = run.at /\ run'.granted = run.granted
      /\ run'.rules = run.rules /\ run'.evs = run.evs /\ run'.out = out /\ run'.hook = h
  BY <1>4
<1>6. h.phase = "send"
  BY DEF h
<1>7. TypeOK'
  BY <1>1, <1>2, <1>5 DEF CallInv, TypeOK, Hooks
<1>8. QED
  BY <1>1, <1>4, <1>5, <1>6, <1>7 DEF CallInv, Clock, Exhausted, CurRule

\* The mutex is granted, and given back.
LEMMA LockCall ==
    ASSUME CallInv, NEW c \in Callers, Lock(c)
    PROVE  CallInv' /\ Clock' = Clock /\ run'.hook.phase = "none"
<1>1. /\ ~run.busy /\ now' = now /\ published' = published /\ calls' = calls
      /\ waiting' = [waiting EXCEPT ![c] = Idle]
  BY DEF Lock, Start
<1>2. PICK o \in Orders :
        run' = [busy |-> TRUE, b |-> waiting[c].b, at |-> now, granted |-> now,
                rules |-> o, evs |-> waiting[c].b.evs, out |-> <<>>, hook |-> NoHook]
  BY DEF Lock, Start
<1>3. Cardinality(published) \in Nat
  <2>1. IsFiniteSet(Parsed)
    <3>1. IsFiniteSet(Specs)
      BY ValvesConfig
    <3> DEFINE F == [r \in Specs |-> ParseSpec(r)]
    <3>2. F \in Surjection(Specs, Parsed)
      BY DEF Surjection, Parsed
    <3> HIDE DEF F
    <3>3. QED
      BY <3>1, <3>2, FS_Surjection
  <2>2. published \subseteq Parsed
    BY DEF CallInv, TypeOK, Parsed
  <2>3. QED
    BY <2>1, <2>2, FS_Subset, FS_CardinalityType
<1>4. o \in Seq(published)
  BY <1>2, <1>3 DEF Orders
<1>5. now \in Nat /\ waiting[c].b \in Batches
  BY ValvesConfig DEF CallInv, TypeOK
<1>6. /\ run'.busy = TRUE /\ run'.b = waiting[c].b /\ run'.at = now /\ run'.granted = now
      /\ run'.rules = o /\ run'.hook = NoHook
  BY <1>2
<1>7. NoHook \in Hooks /\ NoHook.phase = "none"
  BY ValvesConfig DEF NoHook, Hooks
<1>8. Idle \in [b : Batches, since : Instants \union {-1}]
  BY ValvesConfig DEF Idle, NoBatch
<1>9. TypeOK'
  BY <1>1, <1>5, <1>6, <1>7, <1>8 DEF CallInv, TypeOK, Hooks
<1>10. run' = [busy |-> run'.busy, b |-> run'.b, at |-> run'.at, granted |-> run'.granted,
               rules |-> run'.rules, evs |-> run'.evs, out |-> run'.out, hook |-> run'.hook]
  BY <1>2
<1>11. QED
  BY <1>1, <1>4, <1>5, <1>6, <1>7, <1>9, <1>10 DEF CallInv, Clock

\* Unlock hands the clock on to the next call.
LEMMA UnlockCall ==
    ASSUME CallInv, Unlock
    PROVE  CallInv' /\ Clock <= Clock' /\ run'.hook.phase = "none" /\ run.hook.phase = "none"
<1>1. run' = NoCall /\ UNCHANGED <<now, published, waiting, calls>> /\ run.busy /\ Exhausted
  BY DEF Unlock
<1>2. /\ run'.busy = FALSE /\ run'.at = 0 /\ run'.granted = 0 /\ run'.hook = NoHook
      /\ run' = [busy |-> run'.busy, b |-> run'.b, at |-> run'.at, granted |-> run'.granted,
                 rules |-> run'.rules, evs |-> run'.evs, out |-> run'.out, hook |-> run'.hook]
  BY <1>1 DEF NoCall
<1>3. NoHook \in Hooks /\ NoHook.phase = "none"
  BY ValvesConfig DEF NoHook, Hooks
<1>4. TypeOK'
  <2>1. run'.busy \in BOOLEAN /\ run'.at \in Nat /\ run'.granted \in Nat /\ run'.hook \in Hooks
    <3>1. NoCall.busy \in BOOLEAN
      BY DEF NoCall
    <3>2. QED
      BY <1>1, <1>2, <1>3, <3>1
  <2>2. UNCHANGED <<now, published, waiting, calls>>
    BY <1>1
  <2>3. QED
    BY <2>1, <2>2 DEF CallInv, TypeOK, Hooks
<1>5. run.hook.phase = "none"
  BY <1>1 DEF CallInv
<1>6. QED
  BY <1>1, <1>2, <1>3, <1>4, <1>5 DEF CallInv, Clock

\* Publish does not change a version.
LEMMA PublishCall ==
    ASSUME CallInv, NEW r \in Specs, PublishRule(r)
    PROVE  CallInv' /\ Clock' = Clock
<1>1. /\ ~run.busy /\ UNCHANGED <<now, waiting, run, calls>>
      /\ published' = published \union {ParseSpec(r)}
      /\ \A q \in published : ruleKey(q) # ruleKey(r)
  BY DEF PublishRule
<1>2. ruleKey(ParseSpec(r)) = ruleKey(r)
  <2>1. r \in RuleFiles
    BY ValvesConfig
  <2>2. QED
    BY <2>1 DEF ParseSpec, ruleKey, RuleFiles
<1>3. /\ published' \subseteq Parsed
      /\ \A p, q \in published' : ruleKey(p) = ruleKey(q) => p = q
  <2>1. /\ published \subseteq Parsed
        /\ \A p, q \in published : ruleKey(p) = ruleKey(q) => p = q
    BY DEF CallInv, TypeOK, Parsed
  <2>2. QED
    BY <1>1, <1>2, <2>1 DEF Parsed
<1>4. TypeOK'
  BY <1>1, <1>3 DEF CallInv, TypeOK, Parsed
<1>5. QED
  BY <1>1, <1>4 DEF CallInv, Clock, Exhausted, CurRule

----------------------------------------------------------------------------
(* The firings.                                                            *)

FiringInv ==
    /\ eng \in Engines
    /\ fires \in Seq(Firings)
    /\ \A i \in DOMAIN fires : fires[i].rule \in published
    /\ Remembers(fires, eng, Clock)
    /\ Spaced(fires)
    /\ WithinCap(fires)

\* Steps that neither fire nor prune.
LEMMA QuietKeeps ==
    ASSUME CallInv, CallInv', FiringInv, eng' = eng, fires' = fires,
           published \subseteq published', Clock <= Clock'
    PROVE  FiringInv'
<1>1. Clock \in Nat /\ Clock' \in Nat
  BY ValvesConfig DEF CallInv, TypeOK, Clock
<1>2. Remembers(fires, eng, Clock) /\ fires \in Seq(Firings)
  BY DEF FiringInv
<1> DEFINE n == Clock
           m == Clock'
<1>3. Remembers(fires, eng, m)
  <2>1. n \in Nat /\ m \in Nat /\ n <= m /\ Remembers(fires, eng, n)
    BY <1>1, <1>2
  <2> HIDE DEF n, m
  <2>2. QED
    BY <1>2, <2>1, RemembersLater
<1>4. QED
  BY <1>3 DEF FiringInv

\* Skip changes the engine's memory by pruning at most.
LEMMA SkipEngine ==
    ASSUME Skip PROVE eng' = eng \/ eng' = Prune(eng, CurRule, Veh, run.at)
<1> DEFINE acc == [eng |-> eng, out |-> run.out]
           one == EvaluateOne(acc, CurRule, CurEvent, run.b.t, run.b.s, run.at)
           M == Matches(CurRule, run.b.t, run.b.s, CurEvent)
           C == CoolingDown(eng, CurRule, Veh, run.at)
           K == Capped(eng, CurRule, Veh, run.at)
<1>1. ~(M /\ ~C /\ ~K) /\ eng' = one.eng
  BY DEF Skip, Fires
<1>2. acc.eng = eng
  OBVIOUS
<1>3. CASE ~M \/ C
  <2>1. one = acc
    BY <1>2, <1>3 DEF EvaluateOne, Veh
  <2>2. QED
    BY <1>1, <1>2, <2>1
<1>4. CASE M /\ ~C
  <2>1. K
    BY <1>1, <1>4
  <2>2. one = [acc EXCEPT !.eng = Prune(acc.eng, CurRule, Veh, run.at)]
    BY <1>2, <1>4, <2>1 DEF EvaluateOne, Veh
  <2>3. one.eng = Prune(acc.eng, CurRule, Veh, run.at)
    BY <2>2
  <2>4. QED
    BY <1>1, <1>2, <2>3
<1>5. QED
  BY <1>3, <1>4

\* The rule in hand.
LEMMA InHand ==
    ASSUME CallInv, run.busy, ~Exhausted
    PROVE  /\ CurRule \in published /\ CurRule \in Parsed /\ Veh \in Vehicles
           /\ run.at \in Nat /\ run.at = run.granted /\ Clock = run.at
<1>1. run.rules \in Seq(published) /\ run.rules # <<>> /\ run.b \in Batches
  BY DEF CallInv, Exhausted
<1>2. CurRule \in published
  BY <1>1 DEF CurRule
<1>3. QED
  BY <1>1, <1>2, ValvesConfig DEF CallInv, TypeOK, Parsed, Veh, Clock

\* Skipping an event, and pruning the log as it does, forgets no firing that matters.
LEMMA SkipKeeps ==
    ASSUME CallInv, FiringInv, Skip, Clock' = Clock
    PROVE  FiringInv'
<1>1. run.busy /\ ~Exhausted /\ fires' = fires /\ published' = published
  BY DEF Skip, Evaluating
<1>2. CurRule \in Parsed /\ Veh \in Vehicles /\ run.at \in Nat /\ Clock = run.at
  BY <1>1, InHand
<1>3. fires \in Seq(Firings) /\ eng \in Engines /\ Remembers(fires, eng, run.at)
  BY <1>2 DEF FiringInv
<1>4. /\ Prune(eng, CurRule, Veh, run.at) \in Engines
      /\ Remembers(fires, Prune(eng, CurRule, Veh, run.at), run.at)
  BY <1>2, <1>3, PruneRemembers
<1>5. eng' \in Engines /\ Remembers(fires, eng', run.at)
  BY <1>3, <1>4, SkipEngine
<1>6. QED
  BY <1>1, <1>2, <1>5 DEF FiringInv

\* Whether the target has a JSON form is a truth value ...
LEMMA JsonBoolean == TargetHasJson \in BOOLEAN
BY DEF TargetHasJson, EventHasJson

\* ... that the call's place in its loops and the published rules decide, so
\* that it does not change during Dispatch.
LEMMA JsonStays ==
    ASSUME run'.out = run.out, run'.rules = run.rules, run'.evs = run.evs, run'.b = run.b,
           published' = published
    PROVE  TargetHasJson' <=> TargetHasJson
<1>1. CurRule' = CurRule /\ CurEvent' = CurEvent
  BY DEF CurRule, CurEvent
<1>2. Emitted' = Emitted
  BY <1>1 DEF Emitted
<1>3. Target' = Target
  BY <1>1, <1>2 DEF Target
<1>4. QED
  BY <1>1, <1>2, <1>3, Zenon DEF TargetHasJson

\* A firing both valves let through.
LEMMA FiredKeeps ==
    ASSUME CallInv, FiringInv, run.busy, ~Exhausted, NEW out, Fired(out), Clock' = Clock,
           ~CoolingDown(eng, CurRule, Veh, run.at), ~Capped(eng, CurRule, Veh, run.at)
    PROVE  FiringInv'
<1> DEFINE js == TargetHasJson
           f == [rule |-> CurRule, veh |-> Veh, at |-> run.at, json |-> js]
<1>1. /\ CurRule \in published /\ CurRule \in Parsed /\ Veh \in Vehicles
      /\ run.at \in Nat /\ run.at = run.granted /\ Clock = run.at /\ js \in BOOLEAN
  BY InHand, JsonBoolean
<1>2. /\ fires' = Append(fires, f) /\ published' = published
      /\ eng' = Fire(eng, CurRule, Veh, run.at)
  BY <1>1 DEF Fired
<1>3. /\ fires \in Seq(Firings) /\ eng \in Engines /\ Remembers(fires, eng, run.at)
      /\ Spaced(fires) /\ WithinCap(fires)
  BY <1>1 DEF FiringInv
<1>4. eng' \in Engines /\ Remembers(fires', eng', run.at)
  BY <1>1, <1>2, <1>3, FireRemembers
<1>5. Spaced(fires')
  <2>1. \A i \in DOMAIN fires : ruleKey(fires[i].rule) = ruleKey(CurRule) => fires[i].rule = CurRule
    BY <1>1 DEF FiringInv, CallInv, TypeOK
  <2>2. QED
    BY <1>1, <1>2, <1>3, <2>1, FireSpaced
<1>6. WithinCap(fires')
  BY <1>1, <1>2, <1>3, FireWithinCap
<1>7. f \in Firings /\ f.rule = CurRule
  BY <1>1 DEF Firings
<1>8. fires' \in Seq(Firings) /\ \A i \in DOMAIN fires' : fires'[i].rule \in published
  <2> HIDE DEF f
  <2>1. \A i \in DOMAIN fires' : fires'[i] = f \/ (i \in DOMAIN fires /\ fires'[i] = fires[i])
    BY <1>2, <1>3, <1>7
  <2>2. QED
    BY <1>1, <1>2, <1>3, <1>7, <2>1 DEF FiringInv
<1>9. QED
  BY <1>1, <1>2, <1>4, <1>5, <1>6, <1>8 DEF FiringInv

----------------------------------------------------------------------------
(* Dispatch and its records.                                               *)

\* While Dispatch runs, the valves it passed stay open: the mutex is held.
DispatchInv ==
    run.hook.phase # "none" => /\ ~CoolingDown(eng, CurRule, Veh, run.at)
                               /\ ~Capped(eng, CurRule, Veh, run.at)

\* The firings that owe a record.
Hooked(fs) == {i \in DOMAIN fs : fs[i].rule.webhook # "none" /\ fs[i].json}

RecordInv ==
    /\ \E S : records \in Seq(S)
    /\ Len(records) = Cardinality(Hooked(fires))
                      + (IF run.hook.phase = "done" /\ TargetHasJson THEN 1 ELSE 0)

\* How a firing changes the count of those that owe a record.
LEMMA HookedAppend ==
    ASSUME NEW fs \in Seq(Firings), NEW f \in Firings
    PROVE  /\ Cardinality(Hooked(fs)) \in Nat
           /\ Cardinality(Hooked(Append(fs, f))) =
                 Cardinality(Hooked(fs)) + IF f.rule.webhook # "none" /\ f.json THEN 1 ELSE 0
<1> DEFINE n == Len(fs) + 1
           old == Hooked(fs)
           new == Hooked(Append(fs, f))
<1>1. /\ DOMAIN Append(fs, f) = 1 .. n /\ DOMAIN fs = 1 .. Len(fs) /\ n \notin 1 .. Len(fs)
      /\ 1 .. n = (1 .. Len(fs)) \union {n}
      /\ Append(fs, f)[n] = f /\ \A j \in 1 .. Len(fs) : Append(fs, f)[j] = fs[j]
  OBVIOUS
<1>2. IsFiniteSet(old) /\ Cardinality(old) \in Nat
  <2>1. IsFiniteSet(1 .. Len(fs)) /\ old \subseteq 1 .. Len(fs)
    BY FS_Interval DEF Hooked
  <2>2. QED
    BY <2>1, FS_Subset, FS_CardinalityType
<1>3. CASE f.rule.webhook # "none" /\ f.json
  <2>1. new = old \union {n} /\ n \notin old
    BY <1>1, <1>3 DEF Hooked
  <2> HIDE DEF old, new
  <2>2. Cardinality(new) = Cardinality(old) + 1
    BY <1>2, <2>1, FS_AddElement
  <2>3. QED
    BY <1>2, <1>3, <2>2 DEF old, new
<1>4. CASE ~(f.rule.webhook # "none" /\ f.json)
  <2>1. new = old
    BY <1>1, <1>4 DEF Hooked
  <2> HIDE DEF old, new
  <2>2. QED
    BY <1>2, <1>4, <2>1 DEF old, new
<1>5. QED
  BY <1>3, <1>4

\* A turn of Dispatch goes round without a record, or leaves with one if the
\* event has a JSON form and without if not.
LEMMA DispatchTurn ==
    ASSUME CallInv, Dispatch
    PROVE  /\ run.hook.phase = "send" /\ UNCHANGED <<now, published, eng, waiting, calls, fires>>
           /\ \E h \in Hooks :
                /\ run' = [run EXCEPT !.hook = h]
                /\ \/ h.phase = "send" /\ records' = records
                   \/ h.phase = "done" /\ TargetHasJson /\ \E x : records' = Append(records, x)
                   \/ h.phase = "done" /\ ~TargetHasJson /\ records' = records
<1>1. run.hook \in Hooks /\ MaxRetries \in Nat
  BY ValvesConfig DEF CallInv, TypeOK, Hooks
<1>2. CASE Blocked \/ Succeeds \/ ClientError \/ DeadLetter
  <2> DEFINE h == [phase |-> "done", attempt |-> 0]
  <2>1. h \in Hooks /\ h.phase = "done"
    BY <1>1 DEF Hooks
  <2>2. /\ run.hook.phase = "send" /\ UNCHANGED <<now, published, eng, waiting, calls, fires>>
        /\ run' = [run EXCEPT !.hook = h] /\ TargetHasJson /\ \E x : records' = Append(records, x)
    BY <1>2 DEF Blocked, Succeeds, ClientError, DeadLetter, Request, Sending, HookTo, record
  <2> HIDE DEF h
  <2>3. QED
    BY <2>1, <2>2
<1>3. CASE RetryLater
  <2> DEFINE h == [phase |-> "send", attempt |-> run.hook.attempt + 1]
  <2>1. run.hook.attempt \in Nat /\ run.hook.attempt <= MaxRetries
    BY <1>1, <1>3 DEF RetryLater, Request, Hooks
  <2>2. h \in Hooks /\ h.phase = "send"
    BY <1>1, <2>1 DEF Hooks
  <2>3. /\ run.hook.phase = "send" /\ UNCHANGED <<now, published, eng, waiting, calls, fires>>
        /\ run' = [run EXCEPT !.hook = h] /\ records' = records
    BY <1>3 DEF RetryLater, Request, Sending, HookTo
  <2> HIDE DEF h
  <2>4. QED
    BY <2>2, <2>3
<1>4. CASE MarshalFails
  <2> DEFINE h == [phase |-> "done", attempt |-> 0]
  <2>1. h \in Hooks /\ h.phase = "done"
    BY <1>1 DEF Hooks
  <2>2. /\ run.hook.phase = "send" /\ UNCHANGED <<now, published, eng, waiting, calls, fires>>
        /\ run' = [run EXCEPT !.hook = h] /\ ~TargetHasJson /\ records' = records
    BY <1>4 DEF MarshalFails, HookTo
  <2> HIDE DEF h
  <2>3. QED
    BY <2>1, <2>2
<1>5. QED
  BY <1>2, <1>3, <1>4 DEF Dispatch

\* One record more.
LEMMA AppendRecord ==
    ASSUME NEW S, NEW q \in Seq(S), NEW x
    PROVE  (\E T : Append(q, x) \in Seq(T)) /\ Len(Append(q, x)) = Len(q) + 1
<1> DEFINE T == S \union {x}
<1>1. q \in Seq(T) /\ x \in T
  OBVIOUS
<1> HIDE DEF T
<1>2. Append(q, x) \in Seq(T) /\ Len(Append(q, x)) = Len(q) + 1
  BY <1>1
<1>3. QED
  BY <1>2

ValveInv == CallInv /\ FiringInv /\ DispatchInv /\ RecordInv

\* The invariant holds at first.
LEMMA ValveInit == Init => ValveInv
<1> SUFFICES ASSUME Init PROVE ValveInv
  OBVIOUS
<1>1. NoHook \in Hooks /\ NoHook.phase = "none"
  BY ValvesConfig DEF NoHook, Hooks
<1>2. NoCall.busy \in BOOLEAN /\ ~NoCall.busy /\ NoCall.at = 0 /\ NoCall.granted = 0 /\ NoCall.hook = NoHook
  BY DEF NoCall
<1>3. NoCall = [busy |-> NoCall.busy, b |-> NoCall.b, at |-> NoCall.at, granted |-> NoCall.granted,
              rules |-> NoCall.rules, evs |-> NoCall.evs, out |-> NoCall.out, hook |-> NoCall.hook]
  BY DEF NoCall
<1>4. Idle \in [b : Batches, since : Instants \union {-1}]
  BY ValvesConfig DEF Idle, NoBatch
<1>5. run = NoCall
  BY DEF Init
<1>6. TypeOK
  <2>1. run.busy \in BOOLEAN /\ run.at \in Nat /\ run.granted \in Nat /\ run.hook \in Hooks
    BY <1>1, <1>2, <1>5
  <2>2. MaxCalls \in Nat
    BY ValvesConfig
  <2>3. QED
    BY <1>4, <2>1, <2>2 DEF Init, TypeOK, Hooks
<1>7. CallInv
  BY <1>1, <1>2, <1>3, <1>5, <1>6 DEF CallInv
<1>8. eng \in Engines /\ \A k \in ValveKeys : eng.fireLog[k] = <<>>
  BY DEF Init, ZeroEngine, Engines, ValveKeys, Never
<1>9. fires = <<>> /\ records = <<>> /\ DOMAIN fires = {} /\ fires \in Seq(Firings)
  BY DEF Init
<1>10. Remembers(fires, eng, Clock)
  <2>1. \A k, t : FiredLater(fires, k, t) = {}
    BY <1>9 DEF FiredLater
  <2>2. \A k \in ValveKeys, t \in Int : Later(eng.fireLog[k], t) = {}
    BY <1>8 DEF Later
  <2>3. QED
    BY <1>9, <2>1, <2>2 DEF Remembers
<1>11. FiringInv
  BY <1>8, <1>9, <1>10 DEF FiringInv, Spaced, WithinCap
<1>12. DispatchInv
  BY <1>1, <1>2, <1>5 DEF DispatchInv
<1>13. RecordInv
  <2>1. Cardinality(Hooked(fires)) = 0
    BY <1>9, FS_EmptySet DEF Hooked
  <2>2. Len(records) = 0 /\ records \in Seq({})
    BY <1>9
  <2>3. run.hook.phase # "done"
    BY <1>1, <1>2, <1>5
  <2>4. QED
    BY <2>1, <2>2, <2>3 DEF RecordInv
<1>14. QED
  BY <1>7, <1>11, <1>12, <1>13 DEF ValveInv

\* Every step keeps the invariant: one case per action.
LEMMA ValveStep ==
    ASSUME ValveInv, [Next]_vars PROVE ValveInv'
<1> USE DEF ValveInv
<1>1. CASE \E r \in Specs : PublishRule(r)
  <2>1. PICK r \in Specs : PublishRule(r)
    BY <1>1
  <2>2. CallInv' /\ Clock' = Clock
    BY <2>1, PublishCall
  <2>3. /\ eng' = eng /\ fires' = fires /\ records' = records /\ run' = run
        /\ published \subseteq published'
    BY <2>1 DEF PublishRule
  <2>4. FiringInv'
    BY <2>2, <2>3, QuietKeeps, ClockNat
  <2>5. run.hook.phase = "none"
    BY <2>1 DEF PublishRule, CallInv
  <2>6. QED
    BY <2>2, <2>3, <2>4, <2>5 DEF DispatchInv, RecordInv
<1>2. CASE \E c \in Callers, b \in Batches : Call(c, b)
  <2>1. PICK c \in Callers, b \in Batches : Call(c, b)
    BY <1>2
  <2>2. /\ eng' = eng /\ fires' = fires /\ records' = records /\ run' = run
        /\ published' = published /\ now' = now /\ calls < MaxCalls /\ calls' = calls + 1
        /\ waiting' = [waiting EXCEPT ![c] = [b |-> b, since |-> now]]
    BY <2>1 DEF Call
  <2>3. TypeOK'
    <3>1. MaxCalls \in Nat
      BY ValvesConfig
    <3>2. waiting' \in [Callers -> [b : Batches, since : Instants \union {-1}]] /\ calls' \in 0 .. MaxCalls
      BY <2>2, <3>1 DEF CallInv, TypeOK
    <3>3. QED
      BY <2>2, <3>2 DEF CallInv, TypeOK
  <2>4. CallInv'
    BY <2>2, <2>3 DEF CallInv, Exhausted, CurRule
  <2>5. Clock' = Clock
    BY <2>2 DEF Clock
  <2>6. FiringInv'
    BY <2>2, <2>4, <2>5, QuietKeeps, ClockNat
  <2>7. RecordInv'
    BY <2>2, JsonStays DEF RecordInv
  <2>8. QED
    BY <2>2, <2>4, <2>6, <2>7 DEF DispatchInv, CurRule, Veh
<1>3. CASE \E c \in Callers : Lock(c)
  <2>1. PICK c \in Callers : Lock(c)
    BY <1>3
  <2>2. CallInv' /\ Clock' = Clock /\ run'.hook.phase = "none"
    BY <2>1, LockCall
  <2>3. /\ eng' = eng /\ fires' = fires /\ records' = records /\ published' = published /\ ~run.busy
    BY <2>1 DEF Lock, Start
  <2>4. run.hook.phase = "none"
    BY <2>3 DEF CallInv
  <2>5. FiringInv'
    BY <2>2, <2>3, QuietKeeps, ClockNat
  <2>6. QED
    BY <2>2, <2>3, <2>4, <2>5 DEF DispatchInv, RecordInv
<1>4. CASE Skip
  <2>1. /\ run.busy /\ ~Exhausted /\ run.hook.phase = "none" /\ GoOn(run.out)
        /\ UNCHANGED <<now, published, waiting, calls, fires, records>>
    BY <1>4 DEF Skip, Evaluating
  <2>2. CallInv' /\ Clock' = Clock /\ run'.hook.phase = "none"
    BY <2>1, GoOnCall
  <2>3. FiringInv'
    BY <1>4, <2>2, SkipKeeps
  <2>4. QED
    BY <2>1, <2>2, <2>3 DEF DispatchInv, RecordInv
<1>5. CASE FireQuietly \/ LeaveDispatch
  <2>1. PICK out : Fired(out)
    BY <1>5 DEF FireQuietly, LeaveDispatch
  <2>2. /\ run.busy /\ ~Exhausted /\ records' = records
        /\ ~CoolingDown(eng, CurRule, Veh, run.at) /\ ~Capped(eng, CurRule, Veh, run.at)
    BY <1>5 DEF FireQuietly, LeaveDispatch, Evaluating, Fires, DispatchInv, CallInv
  <2>3. run.hook.phase = IF CurRule.webhook = "none" THEN "none" ELSE "done"
    BY <1>5 DEF FireQuietly, LeaveDispatch, Evaluating, CallInv
  <2>4. /\ GoOn(out) /\ UNCHANGED <<now, published, waiting, calls>>
        /\ fires' = Append(fires, [rule |-> CurRule, veh |-> Veh, at |-> run.granted,
                                   json |-> TargetHasJson])
    BY <2>1 DEF Fired
  <2>5. CallInv' /\ Clock' = Clock /\ run'.hook.phase = "none"
    BY <2>2, <2>4, GoOnCall
  <2>6. FiringInv'
    BY <2>1, <2>2, <2>5, FiredKeeps
  <2>7. RecordInv'
    <3> DEFINE js == TargetHasJson
               f == [rule |-> CurRule, veh |-> Veh, at |-> run.granted, json |-> js]
    <3>0. js \in BOOLEAN
      BY JsonBoolean
    <3>1. f \in Firings /\ f.rule = CurRule /\ f.json = js
      <4> HIDE DEF js
      <4>1. QED
        BY <2>2, <3>0, InHand DEF Firings
    <3>2. fires \in Seq(Firings)
      BY DEF FiringInv
    <3> HIDE DEF f
    <3>3. /\ Cardinality(Hooked(fires)) \in Nat
          /\ Cardinality(Hooked(fires')) =
                Cardinality(Hooked(fires)) + IF CurRule.webhook # "none" /\ TargetHasJson THEN 1 ELSE 0
      BY <2>4, <3>1, <3>2, HookedAppend DEF f
    <3>4. QED
      BY <2>2, <2>3, <2>5, <3>3 DEF RecordInv
  <2>8. QED
    BY <2>5, <2>6, <2>7 DEF DispatchInv
<1>6. CASE EnterDispatch
  <2>1. CallInv' /\ Clock' = Clock /\ run'.hook.phase = "send"
    BY <1>6, EnterCall
  <2>2. /\ run.hook.phase = "none" /\ UNCHANGED <<published, eng, fires, records>>
        /\ ~CoolingDown(eng, CurRule, Veh, run.at) /\ ~Capped(eng, CurRule, Veh, run.at)
    BY <1>6 DEF EnterDispatch, Evaluating, Fires
  <2>3. FiringInv'
    BY <2>1, <2>2, QuietKeeps, ClockNat
  <2>4. run'.rules = run.rules /\ run'.b = run.b /\ run'.at = run.at
    BY <1>6 DEF EnterDispatch, CallInv
  <2>5. DispatchInv'
    BY <2>2, <2>4 DEF DispatchInv, CurRule, Veh
  <2>6. QED
    BY <2>1, <2>2, <2>3, <2>5 DEF RecordInv
<1>7. CASE Dispatch
  <2>1. run.hook.phase = "send" /\ UNCHANGED <<now, published, eng, waiting, calls, fires>>
    BY <1>7, DispatchTurn
  <2>2. PICK h \in Hooks :
                /\ run' = [run EXCEPT !.hook = h]
                /\ \/ h.phase = "send" /\ records' = records
                   \/ h.phase = "done" /\ TargetHasJson /\ \E x : records' = Append(records, x)
                   \/ h.phase = "done" /\ ~TargetHasJson /\ records' = records
    BY <1>7, DispatchTurn
  <2>3. CallInv' /\ Clock' = Clock /\ run'.hook = h
    BY <2>1, <2>2, HookCall
  <2>4. FiringInv'
    BY <2>1, <2>3, QuietKeeps, ClockNat
  <2>5. /\ run'.rules = run.rules /\ run'.b = run.b /\ run'.at = run.at
        /\ run'.out = run.out /\ run'.evs = run.evs
    BY <2>2 DEF CallInv
  <2>6. DispatchInv'
    BY <2>1, <2>5 DEF DispatchInv, CurRule, Veh
  <2>7. RecordInv'
    <3>1. Cardinality(Hooked(fires)) = Len(records)
      <4>1. PICK S : records \in Seq(S)
        BY DEF RecordInv
      <4>2. Len(records) \in Nat
        BY <4>1
      <4>3. Cardinality(Hooked(fires)) \in Nat
        <5>1. IsFiniteSet(1 .. Len(fires)) /\ Hooked(fires) \subseteq 1 .. Len(fires)
          BY FS_Interval DEF Hooked, FiringInv
        <5>2. QED
          BY <5>1, FS_Subset, FS_CardinalityType
      <4>4. QED
        BY <2>1, <4>2, <4>3 DEF RecordInv
    <3>2. PICK S : records \in Seq(S)
      BY DEF RecordInv
    <3>3. Len(records) \in Nat
      BY <3>2
    <3> DEFINE j == TargetHasJson
    <3>0. TargetHasJson' <=> j
      BY <2>1, <2>5, JsonStays
    <3> HIDE DEF j
    <3>4. CASE h.phase = "send" /\ records' = records
      BY <2>1, <2>3, <3>1, <3>2, <3>3, <3>4 DEF RecordInv
    <3>5. CASE h.phase = "done" /\ TargetHasJson /\ \E x : records' = Append(records, x)
      <4>1. PICK x : records' = Append(records, x)
        BY <3>5
      <4>2. (\E T : records' \in Seq(T)) /\ Len(records') = Len(records) + 1
        BY <3>2, <4>1, AppendRecord
      <4>3. QED
        BY <2>1, <2>3, <3>0, <3>1, <3>5, <4>2 DEF RecordInv, j
    <3>6. CASE h.phase = "done" /\ ~TargetHasJson /\ records' = records
      BY <2>1, <2>3, <3>0, <3>1, <3>2, <3>3, <3>6 DEF RecordInv, j
    <3>7. QED
      BY <2>2, <3>4, <3>5, <3>6
  <2>8. QED
    BY <2>3, <2>4, <2>6, <2>7
<1>8. CASE Unlock
  <2>1. CallInv' /\ Clock <= Clock' /\ run'.hook.phase = "none" /\ run.hook.phase = "none"
    BY <1>8, UnlockCall
  <2>2. UNCHANGED <<published, eng, fires, records>>
    BY <1>8 DEF Unlock
  <2>3. FiringInv'
    BY <2>1, <2>2, QuietKeeps
  <2>4. QED
    BY <2>1, <2>2, <2>3 DEF DispatchInv, RecordInv
<1>9. CASE Tick
  <2>1. /\ UNCHANGED <<published, eng, waiting, run, calls, fires, records>>
        /\ now' \in Instants /\ now' > now
    BY <1>9 DEF Tick
  <2>2. now \in Nat /\ now' \in Nat
    BY <2>1, ValvesConfig DEF CallInv, TypeOK
  <2>3. CallInv'
    <3>1. TypeOK'
      BY <2>1 DEF CallInv, TypeOK
    <3>2. run.busy => run.at <= now'
      BY <2>1, <2>2 DEF CallInv, TypeOK
    <3>3. QED
      BY <2>1, <3>1, <3>2 DEF CallInv, Exhausted, CurRule
  <2>4. Clock <= Clock'
    BY <2>1, <2>2 DEF Clock, CallInv, TypeOK
  <2>5. FiringInv'
    BY <2>1, <2>3, <2>4, QuietKeeps
  <2>6. RecordInv'
    BY <2>1, JsonStays DEF RecordInv
  <2>7. QED
    BY <2>1, <2>3, <2>5, <2>6 DEF DispatchInv, CurRule, Veh
<1>10. CASE UNCHANGED vars
  <2>1. UNCHANGED <<now, published, eng, waiting, run, calls, fires, records>>
    BY <1>10 DEF vars
  <2>2. TypeOK'
    BY <2>1 DEF CallInv, TypeOK
  <2>3. CallInv'
    BY <2>1, <2>2 DEF CallInv, Exhausted, CurRule
  <2>4. Clock' = Clock
    BY <2>1 DEF Clock
  <2>5. FiringInv'
    BY <2>1, <2>3, <2>4, QuietKeeps, ClockNat
  <2>6. RecordInv'
    BY <2>1, JsonStays DEF RecordInv
  <2>7. QED
    BY <2>1, <2>3, <2>5, <2>6 DEF DispatchInv, CurRule, Veh
<1>11. QED
  BY <1>1, <1>2, <1>3, <1>4, <1>5, <1>6, <1>7, <1>8, <1>9, <1>10 DEF Next, Holder

\* The invariant of the valves.
LEMMA ValveInvariant == Spec => []ValveInv
BY ValveInit, ValveStep, PTL DEF Spec

----------------------------------------------------------------------------
\* The engine's state is well typed and a published version keeps its content
\* (Engine.Publish, Evaluate).
THEOREM ValveTypes == Spec => []TypeOK
<1>1. ValveInv => TypeOK
  BY DEF ValveInv, CallInv
<1>2. QED
  BY <1>1, ValveInvariant, PTL

(***************************************************************************)
(* The calls in which a rule version fires on a vehicle get the mutex at   *)
(* least its cooldown apart, for any rules, batches, callers and clock     *)
(* readings, however long a webhook holds the mutex (Engine.Evaluate).     *)
(***************************************************************************)
THEOREM CooldownHolds == Spec => []CooldownRespected
<1>1. ValveInv => CooldownRespected
  BY DEF ValveInv, FiringInv, Spaced, CooldownRespected
<1>2. QED
  BY <1>1, ValveInvariant, PTL

\* In the hour up to any firing, a rule version fires on a vehicle at most
\* MaxActionsPerHour times: the pruned log never misses one (Engine.Evaluate).
THEOREM HourlyCapHolds == Spec => []HourlyCapRespected
<1>1. ValveInv => HourlyCapRespected
  BY DEF ValveInv, FiringInv, WithinCap, HourBefore, HourlyCapRespected
<1>2. QED
  BY <1>1, ValveInvariant, PTL

\* Every firing of a rule with a webhook leaves exactly one record if its event
\* has a JSON form and none if not, whatever the endpoint answers and for any
\* number of retries (Dispatcher.Dispatch).
THEOREM FiringsRecorded == Spec => []EveryFiringRecordedOnce
<1>1. ValveInv => EveryFiringRecordedOnce
  BY DEF ValveInv, RecordInv, Hooked, EveryFiringRecordedOnce
<1>2. QED
  BY <1>1, ValveInvariant, PTL
=============================================================================
