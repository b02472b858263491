---------------------------- MODULE SessionsProofs ----------------------------
(***************************************************************************)
(* Theorems about Sessions, for any symbols, prices, commands, sessions,   *)
(* restarts and any room in sendBuffers.                                   *)
(***************************************************************************)
EXTENDS Sessions, SequenceTheorems, WellFoundedInduction, TLAPS

------------------------------------------------------------------------------
(* The loop of UpdateTicks()                                               *)

(* Induction over the natural numbers, for sets.                           *)
LEMMA Least ==
  ASSUME NEW S \in SUBSET Nat, S # {}
  PROVE  \E n \in S : \A m \in S : n <= m
<1>1. PICK n \in S : \A m \in S : <<m, n>> \notin OpToRel(<, Nat)
  BY WFMin, NatLessThanWellFounded, Zenon
<1>2. ASSUME NEW m \in S PROVE ~(m < n)
  BY <1>1, Zenon DEF OpToRel
<1>3. \A k, m \in Nat : ~(m < k) => k <= m
  OBVIOUS
<1> QED BY <1>2, <1>3

LEMMA SetInduction ==
  ASSUME NEW S \in SUBSET Nat, 0 \in S, \A n \in S : n + 1 \in S
  PROVE  S = Nat
<1> SUFFICES ASSUME Nat \ S # {} PROVE FALSE
  OBVIOUS
<1>1. PICK m \in Nat \ S : \A n \in Nat \ S : m <= n
  BY Least
<1>2. m - 1 \in S /\ m - 1 \in Nat
  BY <1>1
<1> QED BY <1>1, <1>2

(* The prefixes of what a loop over 1..N collects: e[i] for each i in C.   *)
Collects(f, N, C, e) ==
  f = [i \in 0..N |->
         IF i = 0 THEN <<>>
         ELSE IF i \in C THEN Append(f[i - 1], e[i]) ELSE f[i - 1]]

LEMMA CollectsExists ==
  ASSUME NEW C, NEW e
  PROVE  \A n \in Nat : \E f : Collects(f, n, C, e)
<1> DEFINE S == {n \in Nat : \E f : Collects(f, n, C, e)}
<1>1. 0 \in S
  <2>1. Collects([i \in 0..0 |-> <<>>], 0, C, e)
    BY DEF Collects
  <2> QED BY <2>1
<1>2. ASSUME NEW n \in S PROVE n + 1 \in S
  <2>1. PICK f : Collects(f, n, C, e)
    OBVIOUS
  <2> DEFINE last == IF n + 1 \in C THEN Append(f[n], e[n + 1]) ELSE f[n]
             g == [i \in 0..(n + 1) |-> IF i = n + 1 THEN last ELSE f[i]]
  <2>2. n \in Nat /\ n + 1 \in Nat /\ n + 1 # 0 /\ (n + 1) - 1 = n
    OBVIOUS
  <2>3. \A i \in 0..n : /\ i # n + 1 /\ i \in 0..(n + 1)
                        /\ i # 0 => i - 1 \in 0..n /\ i - 1 # n + 1
    OBVIOUS
  <2>4. \A i \in 0..n : f[i] = IF i = 0 THEN <<>>
                               ELSE IF i \in C THEN Append(f[i - 1], e[i]) ELSE f[i - 1]
    BY <2>1 DEF Collects
  <2>5. \A i \in 0..n : g[i] = f[i]
    BY <2>3
  <2>6. g[n + 1] = last
    BY <2>2
  <2>7. \A i \in 0..(n + 1) : i \in 0..n \/ i = n + 1
    OBVIOUS
  <2>8. DOMAIN g = 0..(n + 1) /\ g = [i \in 0..(n + 1) |-> g[i]]
    OBVIOUS
  <2> HIDE DEF g
  <2>9. \A i \in 0..n : g[i] = IF i = 0 THEN <<>>
                               ELSE IF i \in C THEN Append(g[i - 1], e[i]) ELSE g[i - 1]
    BY <2>3, <2>4, <2>5
  <2>10. g[n + 1] = IF n + 1 \in C THEN Append(g[(n + 1) - 1], e[n + 1]) ELSE g[(n + 1) - 1]
    BY <2>2, <2>5, <2>6
  <2>11. Collects(g, n + 1, C, e)
    BY <2>2, <2>7, <2>8, <2>9, <2>10 DEF Collects
  <2> QED BY <2>2, <2>11
<1> HIDE DEF S
<1>3. S \in SUBSET Nat
  BY DEF S
<1>4. S = Nat
  BY <1>1, <1>2, <1>3, SetInduction
<1> QED BY <1>4 DEF S

(* The sequence s has the elements e[i] for i in C, and no others.         *)
Collected(s, n, C, V, e) ==
  /\ s \in Seq(V)
  /\ \A k \in DOMAIN s : \E i \in C \cap 1..n : s[k] = e[i]
  /\ \A i \in C \cap 1..n : \E k \in DOMAIN s : s[k] = e[i]

LEMMA CollectsContents ==
  ASSUME NEW N \in Nat, NEW C, NEW V, NEW e \in [1..N -> V], NEW f, Collects(f, N, C, e)
  PROVE  Collected(f[N], N, C, V, e)
<1> DEFINE P(n) == Collected(f[n], n, C, V, e)
           S == {n \in Nat : n <= N => P(n)}
<1>0. \A i \in 0..N : f[i] = IF i = 0 THEN <<>>
                             ELSE IF i \in C THEN Append(f[i - 1], e[i]) ELSE f[i - 1]
  BY DEF Collects
<1>1. 0 \in S
  <2>1. f[0] = <<>>
    BY <1>0
  <2>2. P(0)
    BY <2>1, EmptySeq DEF Collected
  <2> QED BY <2>2
<1>2. ASSUME NEW n \in S PROVE n + 1 \in S
  <2> SUFFICES ASSUME n + 1 <= N PROVE P(n + 1)
    OBVIOUS
  <2>1. n \in Nat /\ n <= N /\ n + 1 \in 1..N /\ n + 1 \in 0..N /\ (n + 1) - 1 = n /\ n + 1 # 0
    OBVIOUS
  <2>2. P(n)
    BY <2>1
  <2>3. f[n + 1] = IF n + 1 \in C THEN Append(f[n], e[n + 1]) ELSE f[n]
    BY <1>0, <2>1
  <2>4. \A i : i \in 1..(n + 1) <=> (i \in 1..n \/ i = n + 1)
    BY <2>1
  <2>5. e[n + 1] \in V
    BY <2>1
  <2>6. CASE n + 1 \notin C
    <3>1. f[n + 1] = f[n] /\ C \cap 1..(n + 1) = C \cap 1..n
      BY <2>3, <2>4, <2>6
    <3> QED BY <2>2, <3>1 DEF Collected
  <2>7. CASE n + 1 \in C
    <3>1. PICK s \in Seq(V) : s = f[n]
      BY <2>2 DEF Collected
    <3>2. PICK v \in V : v = e[n + 1]
      BY <2>5
    <3>3. PICK r : r = f[n + 1]
      OBVIOUS
    <3>4. /\ r \in Seq(V) /\ DOMAIN r = DOMAIN s \cup {Len(s) + 1}
          /\ \A k \in DOMAIN s : r[k] = s[k]
          /\ r[Len(s) + 1] = v
      <4>1. r = Append(s, v)
        BY <2>3, <2>7, <3>1, <3>2, <3>3
      <4>2. Len(s) \in Nat /\ DOMAIN s = 1..Len(s)
        BY LenProperties
      <4> QED BY <4>1, <4>2, AppendProperties
    <3>5. \A k \in DOMAIN r : \E i \in C \cap 1..(n + 1) : r[k] = e[i]
      BY <2>2, <2>4, <2>7, <3>1, <3>2, <3>4 DEF Collected
    <3>6. \A i \in C \cap 1..(n + 1) : \E k \in DOMAIN r : r[k] = e[i]
      BY <2>2, <2>4, <2>7, <3>1, <3>2, <3>4 DEF Collected
    <3> QED BY <3>3, <3>4, <3>5, <3>6 DEF Collected
  <2> QED BY <2>6, <2>7
<1> HIDE DEF S
<1>3. S \in SUBSET Nat
  BY DEF S
<1>4. S = Nat
  BY <1>1, <1>2, <1>3, SetInduction
<1>5. P(N)
  BY <1>4 DEF S
<1> QED BY <1>5

(* The prices sent are those of the symbols whose price has changed.       *)
LEMMA TicksContents ==
  ASSUME NEW t \in Tables, NEW m \in [Symbols -> Prices]
  PROVE  /\ Ticks(t, m) \in Seq([symbol : Symbols, price : Prices])
         /\ \A k \in DOMAIN Ticks(t, m) :
              \E i \in DOMAIN t.names : Changed(t, m, i) /\ Ticks(t, m)[k] = TickOf(t, m, i)
         /\ \A i \in DOMAIN t.names : Changed(t, m, i) =>
              \E k \in DOMAIN Ticks(t, m) : Ticks(t, m)[k] = TickOf(t, m, i)
<1> DEFINE N == Len(t.names)
           C == {i \in 1..N : Changed(t, m, i)}
           V == [symbol : Symbols, price : Prices]
           e == [i \in 1..N |-> TickOf(t, m, i)]
           Loop(f) == f = [i \in 0..N |->
                             IF i = 0 THEN <<>>
                             ELSE IF Changed(t, m, i)
                               THEN Append(f[i - 1], TickOf(t, m, i))
                               ELSE f[i - 1]]
<1>1. N \in Nat /\ DOMAIN t.names = 1..N /\ t.names \in Seq(Symbols)
  BY LenProperties DEF Tables
<1>2. e \in [1..N -> V]
  <2>1. \A i \in 1..N : t.names[i] \in Symbols
    BY <1>1, ElementOfSeq
  <2> QED BY <2>1 DEF TickOf
<1>3. \A f : Loop(f) <=> Collects(f, N, C, e)
  <2> SUFFICES ASSUME NEW f PROVE Loop(f) <=> Collects(f, N, C, e)
    OBVIOUS
  <2>1. \A i \in 0..N : i # 0 => i \in 1..N
    BY <1>1
  <2>2. [i \in 0..N |-> IF i = 0 THEN <<>>
                        ELSE IF Changed(t, m, i) THEN Append(f[i - 1], TickOf(t, m, i))
                             ELSE f[i - 1]]
        = [i \in 0..N |-> IF i = 0 THEN <<>>
                          ELSE IF i \in C THEN Append(f[i - 1], e[i]) ELSE f[i - 1]]
    BY <2>1
  <2> QED BY <2>2 DEF Collects
<1>4. PICK f : Loop(f) /\ Ticks(t, m) = f[N]
  <2>1. \E f : Loop(f)
    BY <1>1, <1>3, CollectsExists
  <2>2. Loop(CHOOSE f : Loop(f))
    BY <2>1, Zenon
  <2>3. Ticks(t, m) = (CHOOSE f : Loop(f))[N]
    BY DEF Ticks
  <2> QED BY <2>2, <2>3
<1>5. Collects(f, N, C, e)
  BY <1>3, <1>4
<1> HIDE DEF N, C, V, e
<1>6. Collected(f[N], N, C, V, e)
  BY <1>1, <1>2, <1>5, CollectsContents
<1>7. /\ \A i : i \in C <=> (i \in 1..N /\ Changed(t, m, i))
      /\ \A i \in 1..N : e[i] = TickOf(t, m, i)
  BY DEF C, e
<1>8. \A k \in DOMAIN f[N] :
        \E i \in DOMAIN t.names : Changed(t, m, i) /\ f[N][k] = TickOf(t, m, i)
  <2> SUFFICES ASSUME NEW k \in DOMAIN f[N]
               PROVE  \E i \in DOMAIN t.names : Changed(t, m, i) /\ f[N][k] = TickOf(t, m, i)
    OBVIOUS
  <2>1. PICK i \in C \cap 1..N : f[N][k] = e[i]
    BY <1>6 DEF Collected
  <2> QED BY <1>1, <1>7, <2>1
<1>9. ASSUME NEW i \in DOMAIN t.names, Changed(t, m, i)
      PROVE  \E k \in DOMAIN f[N] : f[N][k] = TickOf(t, m, i)
  <2>1. i \in C \cap 1..N
    BY <1>1, <1>7, <1>9
  <2>2. PICK k \in DOMAIN f[N] : f[N][k] = e[i]
    BY <1>6, <2>1 DEF Collected
  <2> QED BY <1>7, <2>1, <2>2
<1>10. f[N] \in Seq(V)
  BY <1>6 DEF Collected
<1> QED BY <1>4, <1>8, <1>9, <1>10 DEF V

------------------------------------------------------------------------------
(* The table of symbols                                                    *)

LEMMA TableFields ==
  ASSUME NEW t \in Tables
  PROVE  /\ t.names \in Seq(Symbols) /\ Len(t.names) \in Nat /\ DOMAIN t.names = 1..Len(t.names)
         /\ t.sent \in Seq(Prices \cup {Unset}) /\ Len(t.sent) \in Nat
         /\ DOMAIN t.sent = 1..Len(t.sent)
         /\ \A i \in DOMAIN t.names : t.names[i] \in Symbols
         /\ \A i \in DOMAIN t.sent : t.sent[i] \in Prices \cup {Unset}
         /\ \A s : Contains(t.names, s) <=> s \in ToSet(t.names)
<1>1. t.names \in Seq(Symbols) /\ t.sent \in Seq(Prices \cup {Unset})
  BY DEF Tables
<1>2. /\ Len(t.names) \in Nat /\ DOMAIN t.names = 1..Len(t.names)
      /\ Len(t.sent) \in Nat /\ DOMAIN t.sent = 1..Len(t.sent)
  BY <1>1, LenProperties
<1>3. /\ \A i \in DOMAIN t.names : t.names[i] \in Symbols
      /\ \A i \in DOMAIN t.sent : t.sent[i] \in Prices \cup {Unset}
  BY <1>1, <1>2, ElementOfSeq
<1>4. \A s : Contains(t.names, s) <=> s \in ToSet(t.names)
  BY <1>2 DEF Contains, ToSet
<1> QED BY <1>1, <1>2, <1>3, <1>4

LEMMA ZeroedType ==
  ASSUME NEW n \in Nat
  PROVE  /\ Zeroed(n) \in Seq(Prices \cup {Unset}) /\ Len(Zeroed(n)) = n
         /\ \A i \in DOMAIN Zeroed(n) : Zeroed(n)[i] = Unset
BY DEF Zeroed

(* Registering adds the symbol once; the prices sent are forgotten unless  *)
(* it was there.                                                           *)
LEMMA RegisterTable ==
  ASSUME NEW t \in Tables, NEW s \in Symbols, IsInjective(t.names)
  PROVE  /\ Register(t, s) \in Tables
         /\ IsInjective(Register(t, s).names)
         /\ ToSet(Register(t, s).names) = ToSet(t.names) \cup {s}
         /\ ~PastEnd(t) => ~PastEnd(Register(t, s))
         /\ \/ Register(t, s) = t
            \/ \A i \in DOMAIN Register(t, s).sent : Register(t, s).sent[i] = Unset
<1> DEFINE r == Register(t, s)
<1>1. CASE Contains(t.names, s)
  <2>1. r = t
    BY <1>1 DEF Register
  <2>2. s \in ToSet(t.names)
    BY <1>1, TableFields
  <2> QED BY <2>1, <2>2
<1>2. CASE ~Contains(t.names, s)
  <2>1. r = [names |-> Append(t.names, s), sent |-> Zeroed(Len(t.sent) + 1)]
    BY <1>2 DEF Register
  <2>2. PICK n \in Nat : n = Len(t.names)
    BY TableFields
  <2>3. PICK a \in Seq(Symbols) : a = t.names /\ DOMAIN a = 1..n
    BY <2>2, TableFields
  <2>4. PICK b : b = r.names
    OBVIOUS
  <2>5. /\ b \in Seq(Symbols) /\ DOMAIN b = 1..(n + 1) /\ Len(b) = n + 1
        /\ \A i \in 1..n : b[i] = a[i]
        /\ b[n + 1] = s
    BY <2>1, <2>2, <2>3, <2>4, AppendProperties
  <2>6. Len(t.sent) + 1 \in Nat /\ Len(t.sent) \in Nat
    BY TableFields
  <2>7. /\ r.sent \in Seq(Prices \cup {Unset}) /\ Len(r.sent) = Len(t.sent) + 1
        /\ \A i \in DOMAIN r.sent : r.sent[i] = Unset
    <3>1. PICK h \in Nat : h = Len(t.sent) + 1
      BY <2>6
    <3>2. r.sent = Zeroed(h)
      BY <2>1, <3>1
    <3> QED BY <3>1, <3>2, ZeroedType
  <2>8. r \in Tables
    BY <2>1, <2>4, <2>5, <2>7 DEF Tables
  <2>9. \A i \in 1..n : a[i] # s
    BY <1>2, <2>2, <2>3 DEF Contains
  <2>10. \A i \in 1..(n + 1) : i \in 1..n \/ i = n + 1
    OBVIOUS
  <2>11. IsInjective(b)
    BY <2>3, <2>5, <2>9, <2>10 DEF IsInjective
  <2>12. ToSet(b) = ToSet(a) \cup {s}
    <3>1. \A i \in 1..n : i \in 1..(n + 1)
      OBVIOUS
    <3>2. n + 1 \in 1..(n + 1)
      OBVIOUS
    <3> QED BY <2>3, <2>5, <2>10, <3>1, <3>2 DEF ToSet
  <2>13. ~PastEnd(t) => ~PastEnd(r)
    BY <2>2, <2>4, <2>5, <2>6, <2>7 DEF PastEnd
  <2> QED BY <2>3, <2>4, <2>7, <2>8, <2>11, <2>12, <2>13
<1> QED BY <1>1, <1>2

(* Unregistering takes the symbol away and shortens the prices, whether it *)
(* was there or not.                                                       *)
LEMMA UnregisterTable ==
  ASSUME NEW t \in Tables, NEW s \in Symbols, IsInjective(t.names)
  PROVE  /\ Unregister(t, s) \in Tables
         /\ IsInjective(Unregister(t, s).names)
         /\ ToSet(Unregister(t, s).names) = ToSet(t.names) \ {s}
         /\ ~PastEnd(t) /\ s \in ToSet(t.names) => ~PastEnd(Unregister(t, s))
         /\ \A i \in DOMAIN Unregister(t, s).sent : Unregister(t, s).sent[i] = Unset
<1> DEFINE r == Unregister(t, s)
<1>1. r = [names |-> Without(t.names, s), sent |-> Zeroed(Shorter(Len(t.sent)))]
  BY DEF Unregister
<1>2. PICK n \in Nat : n = Len(t.names)
  BY TableFields
<1>3. PICK a \in Seq(Symbols) : a = t.names /\ DOMAIN a = 1..n /\ Len(a) = n
  BY <1>2, TableFields
<1>4. PICK b : b = r.names
  OBVIOUS
<1>5. PICK h \in Nat : h = Len(t.sent)
  BY TableFields
<1>6. Shorter(h) \in Nat /\ (h > 0 => Shorter(h) = h - 1)
  BY DEF Shorter
<1>7. /\ r.sent \in Seq(Prices \cup {Unset}) /\ Len(r.sent) = Shorter(h)
      /\ \A i \in DOMAIN r.sent : r.sent[i] = Unset
  BY <1>1, <1>5, <1>6, ZeroedType
<1>8. \A i, j \in 1..n : a[i] = a[j] => i = j
  BY <1>3 DEF IsInjective
<1>9. CASE ~Contains(t.names, s)
  <2>1. b = a
    BY <1>1, <1>3, <1>4, <1>9 DEF Without
  <2>2. s \notin ToSet(t.names)
    BY <1>9, TableFields
  <2>3. r \in Tables
    BY <1>1, <1>4, <1>7, <2>1 DEF Tables
  <2> QED BY <1>3, <1>4, <1>7, <2>1, <2>2, <2>3
<1>10. CASE Contains(t.names, s)
  <2>1. PICK j \in 1..n : a[j] = s
    BY <1>2, <1>3, <1>10 DEF Contains
  <2>2. PICK k \in Nat : n = k + 1
    <3>1. n - 1 \in Nat /\ n = (n - 1) + 1
      OBVIOUS
    <3> QED BY <3>1
  <2> DEFINE g == [i \in 1..n |-> IF a[i] = s THEN a[n] ELSE a[i]]
  <2>3. \A i \in 1..n : a[i] \in Symbols
    BY <1>3, TableFields
  <2>4. g \in Seq(Symbols) /\ Len(g) = n
    BY <2>2, <2>3
  <2>5. b = SubSeq(g, 1, k)
    <3>1. b = Front(g)
      BY <1>1, <1>3, <1>4, <1>10 DEF Without, Last
    <3> QED BY <2>2, <2>4, <3>1 DEF Front
  <2>6. /\ b \in Seq(Symbols) /\ Len(b) = k /\ DOMAIN b = 1..k
        /\ \A i \in 1..k : b[i] = g[i]
    BY <2>2, <2>4, <2>5, SubSeqProperties
  <2>7. \A i \in 1..k : i \in 1..n /\ i # n
    BY <2>2
  <2>8. \A i \in 1..n : i \in 1..k \/ i = n
    BY <2>2
  <2>9. \A i \in 1..k : b[i] = IF a[i] = s THEN a[n] ELSE a[i]
    BY <2>6, <2>7
  <2>10. n \in 1..n
    BY <2>2
  <2> HIDE DEF g
  <2>11. IsInjective(b)
    <3> SUFFICES ASSUME NEW i \in 1..k, NEW l \in 1..k, b[i] = b[l] PROVE i = l
      BY <2>6 DEF IsInjective
    <3>1. b[i] = (IF a[i] = s THEN a[n] ELSE a[i]) /\ b[l] = (IF a[l] = s THEN a[n] ELSE a[l])
      BY <2>9
    <3>2. i \in 1..n /\ l \in 1..n /\ i # n /\ l # n
      BY <2>7
    <3> QED BY <1>8, <2>10, <3>1, <3>2
  <2>12. ToSet(b) = ToSet(a) \ {s}
    <3>1. \A v \in ToSet(b) : v \in ToSet(a) \ {s}
      BY <1>3, <1>8, <2>6, <2>7, <2>9, <2>10 DEF ToSet
    <3>2. ASSUME NEW v \in ToSet(a) \ {s} PROVE v \in ToSet(b)
      <4>1. PICK i \in 1..n : a[i] = v
        BY <1>3, <3>2 DEF ToSet
      <4>2. CASE i \in 1..k
        BY <2>6, <2>9, <3>2, <4>1, <4>2 DEF ToSet
      <4>3. CASE i = n
        <5>1. j \in 1..k
          BY <2>1, <2>8, <3>2, <4>1, <4>3
        <5>2. b[j] = v
          BY <2>1, <2>9, <4>1, <4>3, <5>1
        <5> QED BY <2>6, <5>1, <5>2 DEF ToSet
      <4> QED BY <2>8, <4>2, <4>3
    <3> QED BY <3>1, <3>2
  <2>13. ~PastEnd(t) => ~PastEnd(r)
    <3>1. PastEnd(t) <=> h < n
      BY <1>2, <1>5 DEF PastEnd
    <3>2. PastEnd(r) <=> Shorter(h) < k
      BY <1>4, <1>7, <2>6 DEF PastEnd
    <3>3. h >= n => Shorter(h) = h - 1
      BY <1>6, <2>2
    <3> QED BY <2>2, <3>1, <3>2, <3>3
  <2>14. r \in Tables
    BY <1>1, <1>4, <1>7, <2>6 DEF Tables
  <2> QED BY <1>3, <1>4, <1>7, <2>11, <2>12, <2>13, <2>14
<1> QED BY <1>9, <1>10

(* UpdateTicks() changes the prices sent and nothing else.                 *)
LEMMA TickedTable ==
  ASSUME NEW t \in Tables, NEW m \in [Symbols -> Prices]
  PROVE  /\ Ticked(t, m) \in Tables
         /\ Ticked(t, m).names = t.names
         /\ DOMAIN Ticked(t, m).sent = DOMAIN t.sent
         /\ PastEnd(Ticked(t, m)) <=> PastEnd(t)
         /\ \A i \in DOMAIN t.sent :
              Ticked(t, m).sent[i] = IF i \in Reached(t) THEN m[t.names[i]] ELSE t.sent[i]
<1> DEFINE p == [i \in DOMAIN t.sent |-> IF i \in Reached(t) THEN m[t.names[i]] ELSE t.sent[i]]
           r == Ticked(t, m)
<1>1. r = [t EXCEPT !.sent = p]
  BY DEF Ticked
<1>2. r.names = t.names /\ r.sent = p
  BY <1>1 DEF Tables
<1>3. /\ \A i \in DOMAIN t.sent : p[i] \in Prices \cup {Unset}
      /\ DOMAIN p = 1..Len(t.sent)
  BY TableFields DEF Reached
<1>4. p \in Seq(Prices \cup {Unset}) /\ Len(p) = Len(t.sent)
  <2>1. PICK h \in Nat : h = Len(t.sent) /\ DOMAIN t.sent = 1..h
    BY TableFields
  <2>2. \A q \in [1..h -> Prices \cup {Unset}] : q \in Seq(Prices \cup {Unset}) /\ Len(q) = h
    OBVIOUS
  <2>3. p \in [1..h -> Prices \cup {Unset}]
    BY <1>3, <2>1
  <2> QED BY <2>1, <2>2, <2>3
<1>5. r \in Tables
  BY <1>1, <1>4 DEF Tables
<1> QED BY <1>2, <1>3, <1>4, <1>5, TableFields DEF PastEnd

------------------------------------------------------------------------------
(* The invariant                                                           *)

(* What TypeOK leaves out: a session has a number, and the commands about  *)
(* symbols name one.                                                       *)
Types ==
  /\ TypeOK
  /\ connected => session >= 1
  /\ \A n \in Pipe!Numbers : received[n] = "symbol" => commands[n].symbol \in Symbols

(* A result was sent by a command executed in the session.                 *)
Answers == answered \subseteq ran /\ ran \subseteq done /\ ResultsAreFresh

(* The commands about symbols still in the queue.                          *)
Pending == {n \in Pipe!Numbers \ (done \cup gone) : received[n] = "symbol"}

(* Once the commands of P before n are executed, s is among the symbols of *)
(* the table, which are now those of T.                                    *)
Served(P, c, T, s, n) ==
  LET B == {m \in P : c[m].symbol = s /\ m < n}
  IN  IF B = {} THEN s \in T
                ELSE \E m \in B : c[m].register /\ \A k \in B : k <= m

(* An unregistration finds its symbol in the table when its turn comes,    *)
(* and so would one of a symbol that is asked for.                         *)
Backing ==
  /\ \A n \in Pending : ~commands[n].register =>
       Served(Pending, commands, ToSet(table.names), commands[n].symbol, n)
  /\ \A s \in asked :
       Served(Pending, commands, ToSet(table.names), s, Len(received) + 1)

TableInv ==
  /\ IsInjective(table.names)
  /\ ~stray => ~PastEnd(table) /\ ~halted /\ Backing

(* The last price of s on its way in o, or else the price v the plugins    *)
(* have, is p or none has come yet.                                        *)
TickAt(o, k, s) == k \in DOMAIN o /\ o[k].id = "Tick" /\ o[k].symbol = s
Shown(o, v, s, p) ==
  /\ \A k \in DOMAIN o :
       TickAt(o, k, s) /\ (\A j \in DOMAIN o : TickAt(o, j, s) => j <= k) => o[k].price = p
  /\ (\A k \in DOMAIN o : ~TickAt(o, k, s)) => v \in {Unset, p}

(* What the expert believes it has sent of a symbol it serves is what the  *)
(* plugins have, or will have when all is delivered.                       *)
PricesInv ==
  IF connected
    THEN \A i \in Reached(table) :
           table.sent[i] # Unset =>
             Shown(out, view[table.names[i]], table.names[i], table.sent[i])
    ELSE view = NoPrice

------------------------------------------------------------------------------
(* Packets on their way                                                    *)

(* The front packet is taken: every packet that stays had a place.         *)
LEMMA TailPackets ==
  ASSUME NEW s \in Seq(Packets), s # <<>>
  PROVE  /\ Head(s) = s[1] /\ s[1] \in Packets /\ 1 \in DOMAIN s /\ DOMAIN s \subseteq Nat
         /\ Tail(s) \in Seq(Packets) /\ Len(Tail(s)) <= Len(s)
         /\ \A i \in DOMAIN Tail(s) : i + 1 \in DOMAIN s /\ Tail(s)[i] = s[i + 1] /\ i \in Nat
         /\ \A i \in DOMAIN s : i = 1 \/ (i - 1 \in DOMAIN Tail(s) /\ Tail(s)[i - 1] = s[i])
         /\ \A i \in DOMAIN s : 1 <= i
<1>1. Len(s) \in Nat \ {0} /\ DOMAIN s = 1..Len(s)
  BY LenProperties, EmptySeq
<1>2. /\ Tail(s) \in Seq(Packets) /\ Len(Tail(s)) = Len(s) - 1
      /\ \A i \in 1..Len(Tail(s)) : Tail(s)[i] = s[i + 1]
      /\ Head(s) = s[1] /\ DOMAIN Tail(s) = 1..Len(Tail(s))
  BY HeadTailProperties, LenProperties
<1>3. s[1] \in Packets
  BY <1>1, ElementOfSeq
<1> QED BY <1>1, <1>2, <1>3

(* Packets are sent: they come after the others.                           *)
(* r is the packets of s, l of them, and those of p after them.            *)
Joins(r, s, p, l) ==
  /\ r \in Seq(Packets) /\ Len(r) = l + Len(p) /\ DOMAIN r \subseteq Nat
  /\ l \in Nat /\ DOMAIN s = 1..l
  /\ \A i \in DOMAIN s : i \in DOMAIN r /\ r[i] = s[i] /\ i \in Nat
  /\ \A j \in DOMAIN p : l + j \in DOMAIN r /\ r[l + j] = p[j] /\ j \in Nat /\ l + j \notin DOMAIN s
  /\ \A i \in DOMAIN r :
       \/ i \in DOMAIN s
       \/ i - l \in DOMAIN p /\ r[i] = p[i - l] /\ i = l + (i - l)

LEMMA ConcatPackets ==
  ASSUME NEW s \in Seq(Packets), NEW p \in Seq(Packets),
         NEW r, r = s \o p, NEW l, l = Len(s)
  PROVE  Joins(r, s, p, l)
<1>1. /\ l \in Nat /\ DOMAIN s = 1..l
      /\ Len(p) \in Nat /\ DOMAIN p = 1..Len(p)
  BY LenProperties
<1>2. /\ r \in Seq(Packets) /\ Len(r) = l + Len(p)
      /\ \A i \in 1..(l + Len(p)) :
           r[i] = IF i <= l THEN s[i] ELSE p[i - l]
  BY ConcatProperties
<1>3. DOMAIN r = 1..(l + Len(p))
  BY <1>2, LenProperties
<1> HIDE DEF Packets
<1>4. \A i \in DOMAIN s : i \in DOMAIN r /\ r[i] = s[i] /\ i \in Nat
  BY <1>1, <1>2, <1>3
<1>5. \A j \in DOMAIN p : /\ l + j \in DOMAIN r /\ r[l + j] = p[j]
                          /\ j \in Nat /\ l + j \notin DOMAIN s
  <2> SUFFICES ASSUME NEW j \in DOMAIN p
               PROVE  /\ l + j \in DOMAIN r /\ r[l + j] = p[j]
                      /\ j \in Nat /\ l + j \notin DOMAIN s
    OBVIOUS
  <2>1. /\ j \in Nat /\ l + j \in 1..(l + Len(p))
        /\ ~(l + j <= l) /\ (l + j) - l = j
    BY <1>1
  <2> QED BY <1>1, <1>2, <1>3, <2>1
<1>6. \A i \in DOMAIN r :
        \/ i \in DOMAIN s
        \/ i - l \in DOMAIN p /\ r[i] = p[i - l] /\ i = l + (i - l)
  BY <1>1, <1>2, <1>3
<1>7. DOMAIN r \subseteq Nat
  BY <1>1, <1>3
<1>8. /\ r \in Seq(Packets) /\ Len(r) = l + Len(p)
      /\ l \in Nat /\ DOMAIN s = 1..l
  BY <1>1, <1>2
<1> QED BY <1>4, <1>5, <1>6, <1>7, <1>8, Zenon DEF Joins

TickPackets(t, m) == [k \in DOMAIN Ticks(t, m) |-> Tick(Ticks(t, m)[k])]

LEMMA TickPacketsContents ==
  ASSUME NEW t \in Tables, NEW m \in [Symbols -> Prices]
  PROVE  /\ TickPackets(t, m) \in Seq(Packets)
         /\ \A k \in DOMAIN TickPackets(t, m) :
              /\ TickPackets(t, m)[k].id = "Tick"
              /\ \E i \in DOMAIN t.names :
                   /\ Changed(t, m, i)
                   /\ TickPackets(t, m)[k].symbol = t.names[i]
                   /\ TickPackets(t, m)[k].price = m[t.names[i]]
         /\ \A i \in DOMAIN t.names : Changed(t, m, i) =>
              \E k \in DOMAIN TickPackets(t, m) : TickPackets(t, m)[k].symbol = t.names[i]
<1>1. PICK s \in Seq([symbol : Symbols, price : Prices]) : s = Ticks(t, m)
  BY TicksContents
<1>2. /\ \A k \in DOMAIN s : \E i \in DOMAIN t.names : Changed(t, m, i) /\ s[k] = TickOf(t, m, i)
      /\ \A i \in DOMAIN t.names : Changed(t, m, i) => \E k \in DOMAIN s : s[k] = TickOf(t, m, i)
  BY <1>1, TicksContents
<1>3. PICK n \in Nat : n = Len(s) /\ DOMAIN s = 1..n
  BY LenProperties
<1>4. PICK p : p = TickPackets(t, m)
  OBVIOUS
<1>5. p = [k \in 1..n |-> Tick(s[k])]
  BY <1>1, <1>3, <1>4 DEF TickPackets
<1>6. \A k \in 1..n : s[k] \in [symbol : Symbols, price : Prices]
  BY <1>3, ElementOfSeq
<1>7. \A k \in 1..n : Tick(s[k]) \in Packets
  BY <1>6 DEF Tick, Packets
<1>8. p \in Seq(Packets)
  <2>1. \A q \in [1..n -> Packets] : q \in Seq(Packets)
    OBVIOUS
  <2> QED BY <1>5, <1>7, <2>1
<1>9. \A k \in DOMAIN p : k \in DOMAIN s /\ p[k].id = "Tick" /\ p[k].symbol = s[k].symbol
                            /\ p[k].price = s[k].price
  BY <1>3, <1>5 DEF Tick
<1>10. \A k \in DOMAIN s : k \in DOMAIN p
  BY <1>3, <1>5
<1>11. \A i : TickOf(t, m, i).symbol = t.names[i] /\ TickOf(t, m, i).price = m[t.names[i]]
  BY DEF TickOf
<1> QED BY <1>2, <1>4, <1>8, <1>9, <1>10, <1>11

------------------------------------------------------------------------------
(* Commands on their way                                                   *)

LEMMA Numbered ==
  ASSUME TypeOK
  PROVE  /\ Len(received) \in Nat /\ Pipe!Numbers = 1..Len(received)
         /\ Len(commands) = Len(received)
         /\ \A n \in Pipe!Numbers :
              /\ received[n] \in {"trade", "symbol"}
              /\ commands[n] \in [session : 1..MaxSessions, symbol : Symbols \cup {"none"},
                                  register : BOOLEAN]
         /\ done \subseteq Pipe!Numbers /\ gone \subseteq Pipe!Numbers
         /\ \A n \in Pipe!Numbers : n \in Nat
<1> DEFINE R == [session : 1..MaxSessions, symbol : Symbols \cup {"none"}, register : BOOLEAN]
<1>1. received \in Seq({"trade", "symbol"}) /\ commands \in Seq(R)
  BY DEF TypeOK
<1>2. Len(received) \in Nat /\ Len(commands) = Len(received) /\ Pipe!Numbers = 1..Len(received)
  BY <1>1, LenProperties DEF TypeOK, Pipe!Numbers
<1> HIDE DEF R
<1>3. \A n \in Pipe!Numbers : received[n] \in {"trade", "symbol"}
  BY <1>1, <1>2, ElementOfSeq
<1>4. \A n \in Pipe!Numbers : commands[n] \in R
  BY <1>1, <1>2, ElementOfSeq
<1> QED BY <1>2, <1>3, <1>4 DEF TypeOK, R

(* A command sent becomes the last of those received.                      *)
(* What Send() leaves: command number L + 1.                               *)
Sends(kind, symbol, register, L) ==
  /\ received' \in Seq({"trade", "symbol"}) /\ Len(received') = L + 1 /\ L \in Nat
  /\ Len(commands') = L + 1
  /\ commands' \in
       Seq([session : 1..MaxSessions, symbol : Symbols \cup {"none"}, register : BOOLEAN])
  /\ \A n \in 1..L : received'[n] = received[n] /\ commands'[n] = commands[n]
  /\ received'[L + 1] = kind
  /\ commands'[L + 1] = [session |-> session, symbol |-> symbol, register |-> register]
  /\ Pipe!Numbers' = Pipe!Numbers \cup {L + 1} /\ L + 1 \notin Pipe!Numbers
  /\ Pipe!Numbers = 1..L

LEMMA Sent ==
  ASSUME Types, NEW kind \in {"trade", "symbol"}, NEW symbol \in Symbols \cup {"none"},
         NEW register \in BOOLEAN, Send(kind, symbol, register),
         NEW L, L = Len(received)
  PROVE  Sends(kind, symbol, register, L)
<1> DEFINE R == [session : 1..MaxSessions, symbol : Symbols \cup {"none"}, register : BOOLEAN]
<1>1. /\ received \in Seq({"trade", "symbol"}) /\ commands \in Seq(R)
      /\ Len(commands) = L /\ L \in Nat
  BY Numbered DEF Types, TypeOK
<1>2. PICK c : c = [session |-> session, symbol |-> symbol, register |-> register]
  OBVIOUS
<1>3. c \in R
  BY <1>2 DEF Types, TypeOK, Send
<1>4. received' = Append(received, kind) /\ commands' = Append(commands, c)
  BY <1>2 DEF Send, Pipe!Receive
<1> HIDE DEF R
<1>5. /\ received' \in Seq({"trade", "symbol"}) /\ Len(received') = L + 1
      /\ \A n \in 1..L : received'[n] = received[n]
      /\ received'[L + 1] = kind
  BY <1>1, <1>4, AppendProperties
<1>6. /\ commands' \in Seq(R) /\ Len(commands') = L + 1
      /\ \A n \in 1..L : commands'[n] = commands[n]
      /\ commands'[L + 1] = c
  BY <1>1, <1>3, <1>4, AppendProperties
<1>7. Pipe!Numbers = 1..L /\ Pipe!Numbers' = 1..(L + 1)
  BY <1>5 DEF Pipe!Numbers
<1>8. 1..(L + 1) = 1..L \cup {L + 1} /\ L + 1 \notin 1..L
  BY <1>1
<1> QED BY <1>1, <1>2, <1>5, <1>6, <1>7, <1>8 DEF R, Sends

------------------------------------------------------------------------------
(* Type correctness                                                        *)

Inv == Types /\ Answers /\ TableInv /\ PricesInv

LEMMA TypesInit == Init => Types
<1> SUFFICES ASSUME Init PROVE Types
  OBVIOUS
<1>1. market \in [Symbols -> Prices]
  <2>1. PICK p \in Prices : TRUE
    BY SymbolTicksAssumption
  <2>2. [s \in Symbols |-> p] \in [Symbols -> Prices]
    OBVIOUS
  <2>3. (CHOOSE m \in [Symbols -> Prices] : TRUE) \in [Symbols -> Prices]
    BY <2>2, Zenon
  <2> QED BY <2>3 DEF Init
<1>2. received = <<>> /\ done = {} /\ gone = {} /\ Pipe!Numbers = {}
  BY DEF Init, Pipe!Init, Pipe!Numbers
<1>3. table \in Tables
  BY DEF Init, EmptyTable, Tables
<1>4. 0 \in 0..MaxSessions /\ 0 \in 0..MaxRestarts /\ 0 <= MaxPackets
  BY SessionsAssumption
<1>5. <<>> \in Seq(Packets) /\ Len(<<>>) = 0
  BY EmptySeq
<1>6. /\ commands \in Seq([session : 1..MaxSessions, symbol : Symbols \cup {"none"},
                           register : BOOLEAN])
      /\ Len(commands) = Len(received)
  BY <1>2 DEF Init
<1>7. received \in Seq({"trade", "symbol"})
  BY <1>2, EmptySeq
<1>8. view \in [Symbols -> Prices \cup {Unset}]
  BY DEF Init, NoPrice
<1>9. out \in Seq(Packets) /\ Len(out) <= MaxPackets
  BY <1>4, <1>5 DEF Init
<1> HIDE DEF Packets
<1>10. TypeOK
  BY <1>1, <1>2, <1>3, <1>4, <1>6, <1>7, <1>8, <1>9 DEF Init, TypeOK
<1> QED BY <1>2, <1>10 DEF Init, Types

LEMMA TypesStep == Inv /\ [Next]_vars => Types'
<1> SUFFICES ASSUME Inv, [Next]_vars PROVE Types'
  OBVIOUS
<1>0. Types /\ TypeOK /\ Answers /\ TableInv /\ IsInjective(table.names)
  BY DEF Inv, Types, TableInv
<1>1. ASSUME NEW kind \in {"trade", "symbol"}, NEW symbol \in Symbols \cup {"none"},
             NEW register \in BOOLEAN, Send(kind, symbol, register),
             kind = "symbol" => symbol \in Symbols, asked' \subseteq Symbols, stray' \in BOOLEAN
      PROVE  Types'
  <2>1. PICK L : L = Len(received)
    OBVIOUS
  <2>2. /\ received' \in Seq({"trade", "symbol"}) /\ Len(received') = L + 1 /\ L \in Nat
        /\ Len(commands') = L + 1
        /\ commands' \in
             Seq([session : 1..MaxSessions, symbol : Symbols \cup {"none"}, register : BOOLEAN])
        /\ \A n \in 1..L : received'[n] = received[n] /\ commands'[n] = commands[n]
        /\ received'[L + 1] = kind
        /\ commands'[L + 1] = [session |-> session, symbol |-> symbol, register |-> register]
        /\ Pipe!Numbers' = Pipe!Numbers \cup {L + 1} /\ Pipe!Numbers = 1..L
    <3>1. Sends(kind, symbol, register, L)
      BY <1>0, <1>1, <2>1, Sent
    <3> QED BY <3>1 DEF Sends
  <2>3. UNCHANGED <<view, answered, link, market, expert, restarts, done, gone>>
    BY <1>1 DEF Send, Pipe!Receive
  <2>4. \A n \in Pipe!Numbers' : received'[n] = "symbol" => commands'[n].symbol \in Symbols
    BY <1>0, <1>1, <2>2 DEF Types
  <2> QED BY <1>0, <1>1, <2>2, <2>3, <2>4 DEF Types, TypeOK, link, expert
<1>2. CASE Trade
  BY <1>0, <1>1, <1>2 DEF Trade, TypeOK
<1>3. ASSUME NEW s \in Symbols, RegisterSymbol(s) PROVE Types'
  BY <1>0, <1>1, <1>3 DEF RegisterSymbol, TypeOK
<1>4. ASSUME NEW s \in Symbols, UnregisterSymbol(s) PROVE Types'
  <2>1. asked' \subseteq Symbols /\ stray' \in BOOLEAN
    BY <1>0, <1>4 DEF UnregisterSymbol, TypeOK
  <2> QED BY <1>0, <1>1, <1>4, <2>1 DEF UnregisterSymbol
<1>5. CASE SessionEnds
  BY <1>0, <1>5 DEF SessionEnds, Forget, pipe, Types, TypeOK, NoPrice, Pipe!Numbers
<1>6. CASE Connect
  <2>1. session' \in 0..MaxSessions /\ session' >= 1
    BY <1>0, <1>6, SessionsAssumption DEF Connect, NewSession, TypeOK
  <2>2. out' \in Seq(Packets) /\ Len(out') <= MaxPackets
    BY <1>6, SessionsAssumption, EmptySeq DEF Connect
  <2> QED BY <1>0, <1>6, <2>1, <2>2 
          DEF Connect, NewSession, plugin, pipe, Types, TypeOK, Pipe!Numbers
<1>7. CASE Deliver
  <2>1. out \in Seq(Packets) /\ out # <<>> /\ Len(out) <= MaxPackets
    BY <1>0, <1>7 DEF Deliver, TypeOK
  <2>2. /\ Head(out) = out[1] /\ out[1] \in Packets /\ 1 \in DOMAIN out
        /\ Tail(out) \in Seq(Packets) /\ Len(Tail(out)) <= Len(out)
    BY <2>1, TailPackets
  <2>3. out' \in Seq(Packets) /\ Len(out') <= MaxPackets
    <3>1. Len(Tail(out)) \in Nat /\ Len(out) \in Nat
      BY <2>1, <2>2, LenProperties
    <3> QED BY <1>7, <2>1, <2>2, <3>1, SessionsAssumption DEF Deliver
  <2>4. answered' \subseteq Pipe!Numbers
    <3>1. out[1].id = "Command" => out[1].n \in ran
      BY <1>0, <1>7, <2>2 DEF Answers, ResultsAreFresh, Results, Deliver
    <3> QED BY <1>0, <1>7, <2>2, <3>1 DEF Deliver, TypeOK
  <2>5. view' \in [Symbols -> Prices \cup {Unset}]
    <3>1. out[1].id # "Command" => out[1].price \in Prices /\ out[1].symbol \in Symbols
      BY <2>2 DEF Packets
    <3> QED BY <1>0, <1>7, <2>2, <3>1 DEF Deliver, TypeOK
  <2> QED BY <1>0, <1>7, <2>3, <2>4, <2>5 
          DEF Deliver, pipe, link, Types, TypeOK, Pipe!Numbers
<1>8. ASSUME NEW n \in Pipe!Numbers, ExecuteTrade(n) PROVE Types'
  <2>1. <<Result(n)>> \in Seq(Packets) /\ Len(<<Result(n)>>) = 1
    BY <1>0, Numbered DEF Packets, Result
  <2>2. out' \in Seq(Packets) /\ Len(out') <= MaxPackets
    BY <1>0, <1>8, <2>1, ConcatPackets DEF ExecuteTrade, Emit, TypeOK
  <2> QED BY <1>0, <1>8, <2>2 
          DEF ExecuteTrade, Pipe!Execute, plugin, link, Types, TypeOK, Pipe!Numbers
<1>9. ASSUME NEW n \in Pipe!Numbers, HandleRegisterSymbol(n) PROVE Types'
  <2>1. commands[n].symbol \in Symbols /\ table \in Tables
    BY <1>0, <1>9 DEF HandleRegisterSymbol, Types, TypeOK
  <2>2. table' \in Tables
    BY <1>0, <1>9, <2>1, RegisterTable, UnregisterTable DEF HandleRegisterSymbol
  <2>3. fresh' \subseteq ToSet(table'.names)
    BY <1>9 DEF HandleRegisterSymbol
  <2> QED BY <1>0, <1>9, <2>2, <2>3 
          DEF HandleRegisterSymbol, Pipe!Execute, plugin, link, Types, TypeOK, Pipe!Numbers
<1>10. CASE UpdateTicks
  <2>1. table \in Tables /\ market \in [Symbols -> Prices] /\ out \in Seq(Packets)
    BY <1>0 DEF TypeOK
  <2>2. PICK p : p = TickPackets(table, market)
    OBVIOUS
  <2>3. p \in Seq(Packets)
    BY <2>1, <2>2, TickPacketsContents
  <2>4. Len(out) + Len(p) <= MaxPackets /\ out' = out \o p
    BY <1>10, <2>2 DEF UpdateTicks, Emit, TickPackets
  <2>5. out' \in Seq(Packets) /\ Len(out') <= MaxPackets
    <3>1. Joins(out', out, p, Len(out))
      BY <2>1, <2>3, <2>4, ConcatPackets
    <3> QED BY <2>4, <3>1 DEF Joins
  <2>6. table' \in Tables /\ table'.names = table.names
    BY <1>10, <2>1, TickedTable DEF UpdateTicks
  <2>7. halted' \in BOOLEAN
    BY <1>10 DEF UpdateTicks, PastEnd
  <2> QED BY <1>0, <1>10, <2>5, <2>6, <2>7 
          DEF UpdateTicks, plugin, link, pipe, Types, TypeOK, Pipe!Numbers
<1>11. CASE Restart
  <2>1. restarts' \in 0..MaxRestarts
    BY <1>0, <1>11, SessionsAssumption DEF Restart, TypeOK
  <2>2. table' \in Tables
    BY <1>11 DEF Restart, EmptyTable, Tables
  <2>3. out' \in Seq(Packets) /\ Len(out') <= MaxPackets
    BY <1>11, SessionsAssumption, EmptySeq DEF Restart
  <2> QED BY <1>0, <1>11, <2>1, <2>2, <2>3
          DEF Restart, Pipe!Drop, Forget, NoPrice, Types, TypeOK, Pipe!Numbers
<1>12. ASSUME NEW s \in Symbols, MarketMoves(s) PROVE Types'
  <2>1. market' \in [Symbols -> Prices]
    BY <1>0, <1>12 DEF MarketMoves, TypeOK
  <2> QED BY <1>0, <1>12, <2>1 
          DEF MarketMoves, plugin, link, pipe, expert, Types, TypeOK, Pipe!Numbers
<1>13. CASE UNCHANGED vars
  BY <1>0, <1>13 DEF vars, plugin, link, pipe, expert, Types, TypeOK, Pipe!Numbers
<1> QED BY <1>2, <1>3, <1>4, <1>5, <1>6, <1>7, <1>8, <1>9, <1>10, <1>11, <1>12, <1>13
        DEF Next, Trades, Registrations

------------------------------------------------------------------------------
(* Results                                                                 *)

LEMMA AnswersStep == Inv /\ [Next]_vars => Answers'
<1> SUFFICES ASSUME Inv, [Next]_vars PROVE Answers'
  OBVIOUS
<1>0. Types /\ TypeOK /\ Answers /\ answered \subseteq ran /\ ran \subseteq done /\ ResultsAreFresh
  BY DEF Inv, Types, Answers
<1>1. ASSUME UNCHANGED <<answered, ran, connected, out>>, done \subseteq done' PROVE Answers'
  BY <1>0, <1>1 DEF Answers, ResultsAreFresh, Results
<1>2. ASSUME NEW kind, NEW symbol, NEW register, Send(kind, symbol, register) PROVE Answers'
  BY <1>1, <1>2 DEF Send, Pipe!Receive, link, expert
<1>3. CASE Trade
  BY <1>2, <1>3 DEF Trade
<1>4. ASSUME NEW s \in Symbols, RegisterSymbol(s) PROVE Answers'
  BY <1>2, <1>4 DEF RegisterSymbol
<1>5. ASSUME NEW s \in Symbols, UnregisterSymbol(s) PROVE Answers'
  BY <1>2, <1>5 DEF UnregisterSymbol
<1>6. CASE SessionEnds
  BY <1>0, <1>6 DEF SessionEnds, Forget, pipe, Answers, ResultsAreFresh
<1>7. CASE Connect
  BY <1>0, <1>7 DEF Connect, NewSession, plugin, pipe, Answers, ResultsAreFresh, Results
<1>8. CASE Deliver
  <2>1. PICK o \in Seq(Packets) : o = out /\ o # <<>>
    BY <1>0, <1>8 DEF Deliver, TypeOK
  <2>2. PICK q : q = Tail(o)
    OBVIOUS
  <2>3. /\ Head(o) = o[1] /\ o[1] \in Packets /\ 1 \in DOMAIN o
        /\ \A i \in DOMAIN q : i + 1 \in DOMAIN o /\ q[i] = o[i + 1] /\ i \in Nat
    BY <2>1, <2>2, TailPackets
  <2>4. \A i \in DOMAIN o : \A j \in DOMAIN o :
          o[i].id = "Command" /\ o[j].id = "Command" /\ o[i].n = o[j].n => i = j
    BY <1>0, <1>8, <2>1 DEF Deliver, ResultsAreFresh, Results
  <2>5. \A i \in DOMAIN o : o[i].id = "Command" => o[i].n \in ran /\ o[i].n \notin answered
    BY <1>0, <1>8, <2>1 DEF Deliver, ResultsAreFresh, Results
  <2>6. /\ out' = q /\ ran' = ran /\ done' = done
        /\ answered' = IF o[1].id = "Command" THEN answered \cup {o[1].n} ELSE answered
    BY <1>8, <2>1, <2>2, <2>3 DEF Deliver, pipe
  <2>7. \A i, j \in DOMAIN q : i + 1 = j + 1 => i = j
    BY <2>3
  <2>8. \A i \in DOMAIN q : i + 1 # 1
    BY <2>3
  <2>9. \A i \in DOMAIN q : q[i].id = "Command" => q[i].n \in ran' /\ q[i].n \notin answered'
    BY <2>3, <2>4, <2>5, <2>6, <2>8
  <2>10. \A i, j \in DOMAIN q :
           q[i].id = "Command" /\ q[j].id = "Command" /\ q[i].n = q[j].n => i = j
    BY <2>3, <2>4, <2>7
  <2>11. answered' \subseteq ran' /\ ran' \subseteq done'
    BY <1>0, <2>3, <2>5, <2>6
  <2> QED BY <2>6, <2>9, <2>10, <2>11 DEF Answers, ResultsAreFresh, Results
<1>9. ASSUME NEW n \in Pipe!Numbers, ExecuteTrade(n) PROVE Answers'
  <2>1. PICK o \in Seq(Packets) : o = out
    BY <1>0 DEF TypeOK
  <2>2. PICK q : q = <<Result(n)>>
    OBVIOUS
  <2>3. q \in Seq(Packets) /\ DOMAIN q = {1} /\ q[1].id = "Command" /\ q[1].n = n
    BY <1>0, <2>2, Numbered DEF Packets, Result
  <2>4. PICK r : r = o \o q
    OBVIOUS
  <2>5. \A i \in DOMAIN r :
          (i \in DOMAIN o /\ r[i] = o[i]) \/ (i - Len(o) \in DOMAIN q /\ r[i] = q[i - Len(o)])
    <3>1. Joins(r, o, q, Len(o))
      BY <2>1, <2>3, <2>4, ConcatPackets
    <3> QED BY <3>1 DEF Joins
  <2>6. \A i \in DOMAIN r :
          (i \in DOMAIN o /\ r[i] = o[i]) \/ (i = Len(o) + 1 /\ r[i].n = n)
    <3>0. Joins(r, o, q, Len(o))
      BY <2>1, <2>3, <2>4, ConcatPackets
    <3>1. DOMAIN r \subseteq Nat /\ Len(o) \in Nat
      BY <3>0 DEF Joins
    <3>2. \A i, l \in Nat : i - l = 1 => i = l + 1
      OBVIOUS
    <3> QED BY <2>3, <2>5, <3>1, <3>2
  <2>7. /\ out' = r /\ n \notin done /\ done' = done \cup {n}
        /\ UNCHANGED <<connected, answered>>
        /\ ran' = IF connected THEN ran \cup {n} ELSE ran
    BY <1>9, <2>1, <2>2, <2>4 DEF ExecuteTrade, Emit, Pipe!Execute, plugin, link
  <2>8. n \notin ran /\ n \notin answered
    BY <1>0, <2>7
  <2>9. connected => \A i \in DOMAIN o : o[i].id = "Command" => o[i].n \in ran \ answered
    BY <1>0, <2>1 DEF ResultsAreFresh, Results
  <2>10. connected => \A i, j \in DOMAIN o :
           o[i].id = "Command" /\ o[j].id = "Command" /\ o[i].n = o[j].n => i = j
    BY <1>0, <2>1 DEF ResultsAreFresh, Results
  <2>11. connected => \A i \in DOMAIN r : r[i].id = "Command" => r[i].n \in ran' \ answered'
    BY <2>6, <2>7, <2>8, <2>9
  <2>12. connected => \A i, j \in DOMAIN r :
           r[i].id = "Command" /\ r[j].id = "Command" /\ r[i].n = r[j].n => i = j
    BY <2>6, <2>8, <2>9, <2>10
  <2>13. answered' \subseteq ran' /\ ran' \subseteq done'
    BY <1>0, <2>7
  <2> QED BY <2>7, <2>11, <2>12, <2>13 DEF Answers, ResultsAreFresh, Results
<1>10. ASSUME NEW n \in Pipe!Numbers, HandleRegisterSymbol(n) PROVE Answers'
  BY <1>1, <1>10 DEF HandleRegisterSymbol, Pipe!Execute, plugin, link
<1>11. CASE UpdateTicks
  <2>1. PICK o \in Seq(Packets) : o = out
    BY <1>0 DEF TypeOK
  <2>2. PICK q : q = TickPackets(table, market)
    OBVIOUS
  <2>3. q \in Seq(Packets) /\ \A k \in DOMAIN q : q[k].id = "Tick"
    BY <1>0, <2>2, TickPacketsContents DEF TypeOK
  <2>4. PICK r : r = o \o q
    OBVIOUS
  <2>5. \A i \in DOMAIN r :
          (i \in DOMAIN o /\ r[i] = o[i]) \/ (i - Len(o) \in DOMAIN q /\ r[i] = q[i - Len(o)])
    <3>1. Joins(r, o, q, Len(o))
      BY <2>1, <2>3, <2>4, ConcatPackets
    <3> QED BY <3>1 DEF Joins
  <2>6. \A i \in DOMAIN r : r[i].id = "Command" => i \in DOMAIN o /\ r[i] = o[i]
    <3>1. "Tick" # "Command"
      OBVIOUS
    <3> QED BY <2>3, <2>5, <3>1
  <2>7. out' = r /\ UNCHANGED <<done, connected, answered, ran>>
    BY <1>11, <2>1, <2>2, <2>4 DEF UpdateTicks, Emit, TickPackets, plugin, link, pipe
  <2> QED BY <1>0, <2>1, <2>6, <2>7 DEF Answers, ResultsAreFresh, Results
<1>12. CASE Restart
  BY <1>12 DEF Restart, Forget, Pipe!Drop, Answers, ResultsAreFresh
<1>13. ASSUME NEW s \in Symbols, MarketMoves(s) PROVE Answers'
  BY <1>1, <1>13 DEF MarketMoves, plugin, link, pipe, expert
<1>14. CASE UNCHANGED vars
  BY <1>1, <1>14 DEF vars, plugin, link, pipe, expert
<1> QED BY <1>3, <1>4, <1>5, <1>6, <1>7, <1>8, <1>9, <1>10, <1>11, <1>12, <1>13, <1>14
        DEF Next, Trades, Registrations

------------------------------------------------------------------------------
(* The table                                                               *)

(* Commands that come later, or from which n is not reached, change        *)
(* nothing for those before n.                                             *)
LEMMA ServedSame ==
  ASSUME NEW P \in SUBSET Nat, NEW Q \in SUBSET Nat, NEW c, NEW d, NEW T, NEW s, NEW n,
         \A m \in Nat : m < n => ((m \in P <=> m \in Q) /\ (m \in P => c[m] = d[m])),
         Served(P, c, T, s, n)
  PROVE  Served(Q, d, T, s, n)
<1>1. {m \in P : c[m].symbol = s /\ m < n} = {m \in Q : d[m].symbol = s /\ m < n}
  OBVIOUS
<1> QED BY <1>1 DEF Served

LEMMA ServedLater ==
  ASSUME NEW P \in SUBSET Nat, NEW c, NEW T, NEW s, NEW n \in Nat,
         n \in P => c[n].symbol # s, Served(P, c, T, s, n)
  PROVE  Served(P, c, T, s, n + 1)
<1>1. \A m \in Nat : m < n + 1 <=> m < n \/ m = n
  OBVIOUS
<1>2. {m \in P : c[m].symbol = s /\ m < n + 1} = {m \in P : c[m].symbol = s /\ m < n}
  BY <1>1
<1> QED BY <1>2 DEF Served

(* A registration comes last.                                              *)
LEMMA ServedRegister ==
  ASSUME NEW P \in SUBSET Nat, NEW c, NEW T, NEW s, NEW n \in Nat,
         n \in P, \A m \in P : m <= n, c[n].symbol = s, c[n].register
  PROVE  Served(P, c, T, s, n + 1)
<1> DEFINE B == {m \in P : c[m].symbol = s /\ m < n + 1}
<1>1. n \in B /\ \A k \in B : k <= n
  OBVIOUS
<1> QED BY <1>1 DEF Served

(* The first command of P is executed.                                     *)
LEMMA ServedNext ==
  ASSUME NEW P \in SUBSET Nat, NEW c, NEW T, NEW U, NEW s, NEW n \in P, NEW k \in Nat,
         \A m \in P : n <= m, n < k, Served(P, c, T, s, k),
         U = IF c[n].register THEN T \cup {c[n].symbol} ELSE T \ {c[n].symbol}
  PROVE  Served(P \ {n}, c, U, s, k)
<1> DEFINE B == {m \in P : c[m].symbol = s /\ m < k}
           D == {m \in P \ {n} : c[m].symbol = s /\ m < k}
<1>1. D = B \ {n} /\ B \subseteq P
  OBVIOUS
<1>2. IF B = {} THEN s \in T ELSE \E m \in B : c[m].register /\ \A j \in B : j <= m
  BY DEF Served
<1>3. n \in B <=> c[n].symbol = s
  OBVIOUS
<1>4. \A j \in B : j <= n => j = n
  OBVIOUS
<1> HIDE DEF B, D
<1>5. IF D = {} THEN s \in U ELSE \E m \in D : c[m].register /\ \A j \in D : j <= m
  <2>1. CASE B = {}
    BY <1>1, <1>2, <1>3, <2>1
  <2>2. CASE B # {}
    <3>1. PICK m \in B : c[m].register /\ \A j \in B : j <= m
      BY <1>2, <2>2
    <3>2. CASE m = n
      <4>1. B = {n}
        BY <1>4, <3>1, <3>2
      <4> QED BY <1>1, <1>3, <3>1, <3>2, <4>1
    <3>3. CASE m # n
      BY <1>1, <3>1, <3>3
    <3> QED BY <3>2, <3>3
  <2> QED BY <2>1, <2>2
<1> QED BY <1>5 DEF D, Served

LEMMA TableInit == Init => TableInv
<1> SUFFICES ASSUME Init PROVE TableInv
  OBVIOUS
<1>1. table.names = <<>> /\ table.sent = <<>> /\ asked = {} /\ halted = FALSE
  BY DEF Init, EmptyTable
<1>2. Pending = {}
  BY DEF Init, Pipe!Init, Pipe!Numbers, Pending
<1>3. IsInjective(table.names)
  BY <1>1 DEF IsInjective
<1>4. ~PastEnd(table)
  BY <1>1 DEF PastEnd
<1> QED BY <1>1, <1>2, <1>3, <1>4 DEF TableInv, Backing

LEMMA TableStep == Inv /\ [Next]_vars => TableInv'
<1> SUFFICES ASSUME Inv, [Next]_vars PROVE TableInv'
  OBVIOUS
<1>0. /\ Types /\ TypeOK /\ TableInv /\ IsInjective(table.names) /\ table \in Tables
      /\ ~stray => ~PastEnd(table) /\ ~halted /\ Backing
  BY DEF Inv, Types, TypeOK, TableInv
<1>1. Pending \in SUBSET Nat /\ Pending \subseteq Pipe!Numbers
  BY <1>0, Numbered DEF Pending
<1>2. ASSUME stray' = stray, halted' = halted \/ halted' = PastEnd(table), asked' \subseteq asked,
             Pending' = Pending, commands' = commands, Len(received') = Len(received),
             table'.names = table.names, PastEnd(table)' = PastEnd(table)
      PROVE  TableInv'
  BY <1>0, <1>2 DEF TableInv, Backing
<1>3. ASSUME UNCHANGED <<received, done, gone>> PROVE Pending' = Pending
  BY <1>3 DEF Pending, Pipe!Numbers
<1>4. ASSUME NEW kind \in {"trade", "symbol"}, NEW symbol \in Symbols \cup {"none"},
             NEW register \in BOOLEAN, Send(kind, symbol, register)
      PROVE  /\ UNCHANGED <<table, halted>> /\ Len(received') = Len(received) + 1
             /\ Len(received) \in Nat /\ Pending \subseteq 1..Len(received)
             /\ Pending' = IF kind = "symbol" THEN Pending \cup {Len(received) + 1} ELSE Pending
             /\ commands'[Len(received) + 1] =
                  [session |-> session, symbol |-> symbol, register |-> register]
             /\ \A n \in Pending : commands'[n] = commands[n]
  <2>1. PICK L : L = Len(received)
    OBVIOUS
  <2>2. /\ Len(received') = L + 1 /\ L \in Nat
        /\ \A n \in 1..L : received'[n] = received[n] /\ commands'[n] = commands[n]
        /\ received'[L + 1] = kind
        /\ commands'[L + 1] = [session |-> session, symbol |-> symbol, register |-> register]
        /\ Pipe!Numbers' = Pipe!Numbers \cup {L + 1} /\ L + 1 \notin Pipe!Numbers
        /\ Pipe!Numbers = 1..L
    <3>1. Sends(kind, symbol, register, L)
      BY <1>0, <1>4, <2>1, Sent
    <3> QED BY <3>1 DEF Sends
  <2>3. UNCHANGED <<table, halted, done, gone>>
    BY <1>4 DEF Send, Pipe!Receive, expert
  <2>4. Pending' = IF kind = "symbol" THEN Pending \cup {L + 1} ELSE Pending
    <3>1. L + 1 \notin done \cup gone
      BY <1>0, <2>2, Numbered
    <3>2. \A n : n \in Pending' <=>
                   n \in Pending \/ (n = L + 1 /\ kind = "symbol")
      BY <2>2, <2>3, <3>1 DEF Pending
    <3> QED BY <3>2
  <2> QED BY <1>1, <2>1, <2>2, <2>3, <2>4
<1>5. ASSUME NEW s \in Symbols, NEW register \in BOOLEAN, Send("symbol", s, register),
             asked' = IF register THEN asked \cup {s} ELSE asked \ {s},
             stray' = (stray \/ (~register /\ s \notin asked))
      PROVE  TableInv'
  <2>1. PICK L \in Nat : L = Len(received)
    BY <1>0, Numbered
  <2>2. /\ UNCHANGED <<table, halted>> /\ Len(received') = L + 1
        /\ Pending \subseteq 1..L /\ Pending' = Pending \cup {L + 1}
        /\ commands'[L + 1].symbol = s /\ commands'[L + 1].register = register
        /\ \A n \in Pending : commands'[n] = commands[n]
    <3>1. "symbol" \in {"trade", "symbol"} /\ s \in Symbols \cup {"none"}
      OBVIOUS
    <3>2. commands'[L + 1] = [session |-> session, symbol |-> s, register |-> register]
      BY <1>4, <1>5, <2>1, <3>1
    <3> QED BY <1>4, <1>5, <2>1, <3>1, <3>2
  <2> SUFFICES ASSUME ~stray' PROVE Backing'
    BY <1>0, <1>5, <2>2 DEF TableInv
  <2>3. Backing /\ (register \/ s \in asked)
    BY <1>0, <1>5
  <2>4. PICK P, T, c, d, Q :
          /\ P = Pending /\ T = ToSet(table.names) /\ c = commands /\ d = commands'
          /\ Q = Pending \cup {L + 1}
    OBVIOUS
  <2>5. /\ ToSet(table'.names) = T /\ Pending' = Q /\ Q = P \cup {L + 1}
        /\ \A n \in P : d[n] = c[n] /\ n <= L
        /\ d[L + 1].symbol = s /\ d[L + 1].register = register
        /\ P \in SUBSET Nat /\ Q \in SUBSET Nat
    <3>1. P \in SUBSET Nat /\ Q \in SUBSET Nat /\ Q = P \cup {L + 1} /\ Pending' = Q
      <4>1. P = Pending /\ Q = P \cup {L + 1} /\ Pending' = Q
        BY <2>2, <2>4
      <4>2. \A x \in P \cup {L + 1} : x \in Nat
        BY <1>1, <4>1
      <4> QED BY <4>1, <4>2
    <3>2. ToSet(table'.names) = T
      BY <2>2, <2>4
    <3>3. \A n \in P : d[n] = c[n] /\ n <= L
      <4>1. \A n \in 1..L : n <= L
        OBVIOUS
      <4> QED BY <2>2, <2>4, <4>1
    <3> QED BY <2>2, <2>4, <3>1, <3>2, <3>3
  <2>6. \A n \in Nat : n <= L + 1 =>
          \A m \in Nat : m < n => ((m \in P <=> m \in Q) /\ (m \in P => c[m] = d[m]))
    <3>1. \A n, m \in Nat : n <= L + 1 /\ m < n => m # L + 1
      OBVIOUS
    <3> QED BY <2>5, <3>1
  <2>7. ASSUME NEW x, NEW n \in Nat, n <= L + 1, Served(P, c, T, x, n) PROVE Served(Q, d, T, x, n)
    BY <2>5, <2>6, <2>7, ServedSame
  <2>8. /\ \A n \in P : ~c[n].register => Served(P, c, T, c[n].symbol, n)
        /\ \A x \in asked : Served(P, c, T, x, L + 1)
    BY <2>1, <2>3, <2>4 DEF Backing
  <2>9. ASSUME NEW n \in Q, ~d[n].register PROVE Served(Q, d, T, d[n].symbol, n)
    <3>1. CASE n \in P
      <4>1. n \in Nat /\ n <= L /\ d[n] = c[n]
        BY <2>5, <3>1
      <4>2. n <= L + 1
        BY <4>1
      <4>3. Served(P, c, T, c[n].symbol, n)
        BY <2>8, <2>9, <3>1, <4>1
      <4> QED BY <2>7, <4>1, <4>2, <4>3
    <3>2. CASE n = L + 1
      <4>1. Served(P, c, T, s, L + 1)
        BY <2>3, <2>5, <2>8, <2>9, <3>2
      <4>2. L + 1 \in Nat /\ L + 1 <= L + 1
        OBVIOUS
      <4>3. Served(Q, d, T, s, L + 1)
        BY <2>7, <4>1, <4>2
      <4> QED BY <2>5, <3>2, <4>3
    <3> QED BY <2>5, <3>1, <3>2
  <2>10. ASSUME NEW x \in asked' PROVE Served(Q, d, T, x, (L + 1) + 1)
    <3>1. CASE x = s
      <4>1. register
        BY <1>5, <2>10, <3>1
      <4>2. L + 1 \in Q /\ L + 1 \in Nat /\ \A m \in Q : m <= L + 1
        BY <2>5
      <4> QED BY <2>5, <3>1, <4>1, <4>2, ServedRegister
    <3>2. CASE x # s
      <4>1. x \in asked
        BY <1>5, <2>10, <3>2
      <4>2. Served(Q, d, T, x, L + 1)
        BY <2>7, <2>8, <4>1
      <4>3. d[L + 1].symbol # x /\ L + 1 \in Nat
        BY <2>5, <3>2
      <4> QED BY <2>5, <4>2, <4>3, ServedLater
    <3> QED BY <3>1, <3>2
  <2> QED BY <2>2, <2>4, <2>5, <2>9, <2>10 DEF Backing
<1>6. CASE Trade
  <2>1. PICK L \in Nat : L = Len(received)
    BY <1>0, Numbered
  <2>2. /\ UNCHANGED <<table, halted, stray, asked>> /\ Len(received') = L + 1
        /\ Pending' = Pending /\ Pending \subseteq 1..L
        /\ \A n \in Pending : commands'[n] = commands[n]
    BY <1>4, <1>6, <2>1 DEF Trade
  <2> SUFFICES ASSUME ~stray' PROVE Backing'
    BY <1>0, <2>2 DEF TableInv
  <2>3. PICK P, T, c, d :
          P = Pending /\ T = ToSet(table.names) /\ c = commands /\ d = commands'
    OBVIOUS
  <2>4. /\ ToSet(table'.names) = T /\ Pending' = P /\ asked' = asked
        /\ \A n \in P : d[n] = c[n] /\ n <= L /\ n \in Nat
    <3>1. ToSet(table'.names) = T /\ Pending' = P /\ asked' = asked
      BY <2>2, <2>3, Zenon
    <3>2. \A n \in P : d[n] = c[n] /\ n \in 1..L
      BY <2>2, <2>3, Zenon
    <3>3. \A n \in 1..L : n <= L /\ n \in Nat
      BY <2>1
    <3> QED BY <3>1, <3>2, <3>3, Zenon
  <2>5. /\ \A n \in P : ~c[n].register => Served(P, c, T, c[n].symbol, n)
        /\ \A x \in asked : Served(P, c, T, x, L + 1)
    BY <1>0, <2>1, <2>2, <2>3 DEF Backing
  <2>6. ASSUME NEW n \in P, ~d[n].register PROVE Served(P, d, T, d[n].symbol, n)
    BY <2>4, <2>5, <2>6, ServedSame
  <2>7. ASSUME NEW x \in asked PROVE Served(P, d, T, x, (L + 1) + 1)
    <3>1. P \in SUBSET Nat /\ L + 1 \in Nat /\ L + 1 \notin P
      BY <2>4
    <3>2. Served(P, d, T, x, L + 1)
      BY <2>4, <2>5, <3>1, ServedSame
    <3> QED BY <3>1, <3>2, ServedLater
  <2> QED BY <2>2, <2>3, <2>4, <2>6, <2>7 DEF Backing
<1>7. ASSUME NEW s \in Symbols, RegisterSymbol(s) PROVE TableInv'
  <2>1. asked' = IF TRUE THEN asked \cup {s} ELSE asked \ {s}
    BY <1>7 DEF RegisterSymbol
  <2>2. stray' = (stray \/ (~TRUE /\ s \notin asked))
    <3>1. stray \in BOOLEAN /\ stray' = stray
      BY <1>0, <1>7 DEF TypeOK, RegisterSymbol
    <3> QED BY <3>1
  <2>3. Send("symbol", s, TRUE)
    BY <1>7 DEF RegisterSymbol
  <2> QED BY <1>5, <2>1, <2>2, <2>3
<1>8. ASSUME NEW s \in Symbols, UnregisterSymbol(s) PROVE TableInv'
  BY <1>5, <1>8 DEF UnregisterSymbol
<1>9. CASE SessionEnds
  BY <1>2, <1>3, <1>9 DEF SessionEnds, Forget, pipe
<1>10. CASE Connect
  BY <1>2, <1>3, <1>10 DEF Connect, NewSession, plugin, pipe
<1>11. CASE Deliver
  BY <1>2, <1>3, <1>11 DEF Deliver, pipe
<1>12. ASSUME NEW n \in Pipe!Numbers, ExecuteTrade(n) PROVE TableInv'
  <2>1. Pending' = Pending
    BY <1>12 DEF ExecuteTrade, Pipe!Execute, Pending, Pipe!Numbers
  <2> QED BY <1>2, <1>12, <2>1 DEF ExecuteTrade, Pipe!Execute, plugin
<1>13. ASSUME NEW n \in Pipe!Numbers, HandleRegisterSymbol(n) PROVE TableInv'
  <2>1. PICK s \in Symbols, register \in BOOLEAN :
          s = commands[n].symbol /\ register = commands[n].register
    BY <1>0, <1>13, Numbered DEF HandleRegisterSymbol, Types
  <2>2. table' = IF register THEN Register(table, s) ELSE Unregister(table, s)
    BY <1>13, <2>1 DEF HandleRegisterSymbol
  <2>3. /\ IsInjective(table'.names)
        /\ ToSet(table'.names) = IF register THEN ToSet(table.names) \cup {s}
                                             ELSE ToSet(table.names) \ {s}
        /\ ~PastEnd(table) /\ (register \/ s \in ToSet(table.names)) => ~PastEnd(table')
    BY <1>0, <2>2, RegisterTable, UnregisterTable
  <2>4. /\ n \in Pending /\ Pending' = Pending \ {n}
        /\ \A m \in Pending : ~(m < n)
        /\ UNCHANGED <<received, gone, asked, stray, commands, halted>>
    BY <1>13 DEF HandleRegisterSymbol, Pipe!Execute, Pending, Pipe!Numbers, plugin
  <2>5. \A m \in Pending : n <= m
    BY <1>1, <2>4
  <2> SUFFICES ASSUME ~stray PROVE ~PastEnd(table') /\ Backing'
    BY <1>0, <2>3, <2>4 DEF TableInv
  <2>6. PICK P, T, U, c, L :
          /\ P = Pending /\ T = ToSet(table.names) /\ U = ToSet(table'.names)
          /\ c = commands /\ L = Len(received)
    OBVIOUS
  <2>7. /\ \A k \in P : ~c[k].register => Served(P, c, T, c[k].symbol, k)
        /\ \A x \in asked : Served(P, c, T, x, L + 1)
    BY <1>0, <2>6 DEF Backing
  <2>8. register \/ s \in T
    <3>1. {m \in P : c[m].symbol = s /\ m < n} = {}
      BY <2>4, <2>6
    <3> QED BY <2>1, <2>4, <2>6, <2>7, <3>1 DEF Served
  <2>9. U = IF c[n].register THEN T \cup {c[n].symbol} ELSE T \ {c[n].symbol}
    BY <2>1, <2>3, <2>6
  <2>10. n \in P /\ (\A m \in P : n <= m) /\ P \in SUBSET Nat /\ L \in Nat
    BY <1>0, <1>1, <2>4, <2>5, <2>6, Numbered
  <2>11. ASSUME NEW x, NEW k \in Nat, n < k, Served(P, c, T, x, k)
         PROVE  Served(P \ {n}, c, U, x, k)
    BY <2>9, <2>10, <2>11, ServedNext
  <2>12. ASSUME NEW k \in P \ {n}, ~c[k].register PROVE Served(P \ {n}, c, U, c[k].symbol, k)
    <3>1. n < k /\ k \in Nat
      BY <2>10
    <3> QED BY <2>7, <2>11, <2>12, <3>1
  <2>13. ASSUME NEW x \in asked PROVE Served(P \ {n}, c, U, x, L + 1)
    <3>1. n < L + 1 /\ L + 1 \in Nat
      BY <1>0, <2>6, <2>10, Numbered
    <3> QED BY <2>7, <2>11, <3>1
  <2> QED BY <1>0, <2>3, <2>4, <2>6, <2>8, <2>12, <2>13 DEF Backing
<1>14. CASE UpdateTicks
  <2>1. market \in [Symbols -> Prices]
    BY <1>0 DEF TypeOK
  <2>2. table'.names = table.names /\ PastEnd(table') = PastEnd(table)
    <3>1. PastEnd(table') \in BOOLEAN /\ PastEnd(table) \in BOOLEAN
      BY DEF PastEnd
    <3> QED BY <1>0, <1>14, <2>1, <3>1, TickedTable DEF UpdateTicks
  <2> QED BY <1>2, <1>3, <1>14, <2>2 DEF UpdateTicks, plugin, pipe
<1>15. CASE Restart
  <2>1. table'.names = <<>> /\ table'.sent = <<>> /\ asked' = {} /\ halted' = FALSE
    BY <1>15 DEF Restart, Forget, EmptyTable
  <2>2. Pending' = {}
    BY <1>15 DEF Restart, Pipe!Drop, Pending, Pipe!Numbers
  <2>3. IsInjective(table'.names)
    BY <2>1 DEF IsInjective
  <2>4. ~PastEnd(table')
    BY <2>1 DEF PastEnd
  <2> QED BY <2>1, <2>2, <2>3, <2>4 DEF TableInv, Backing
<1>16. ASSUME NEW s \in Symbols, MarketMoves(s) PROVE TableInv'
  BY <1>2, <1>3, <1>16 DEF MarketMoves, plugin, pipe, expert
<1>17. CASE UNCHANGED vars
  BY <1>2, <1>3, <1>17 DEF vars, plugin, pipe, expert
<1> QED BY <1>6, <1>7, <1>8, <1>9, <1>10, <1>11, <1>12, <1>13, <1>14, <1>15, <1>16, <1>17
        DEF Next, Trades, Registrations

------------------------------------------------------------------------------
(* Prices                                                                  *)

(* The packet at the front arrives.                                        *)
LEMMA ShownTail ==
  ASSUME NEW o \in Seq(Packets), o # <<>>, NEW v, NEW s, NEW p, Shown(o, v, s, p),
         NEW w, w = IF TickAt(o, 1, s) THEN o[1].price ELSE v
  PROVE  Shown(Tail(o), w, s, p)
<1>1. PICK q : q = Tail(o)
  OBVIOUS
<1>2. /\ 1 \in DOMAIN o /\ DOMAIN o \subseteq Nat
      /\ \A i \in DOMAIN q : i + 1 \in DOMAIN o /\ q[i] = o[i + 1] /\ i \in Nat
      /\ \A i \in DOMAIN o : i = 1 \/ (i - 1 \in DOMAIN q /\ q[i - 1] = o[i])
      /\ \A i \in DOMAIN o : 1 <= i
  BY <1>1, TailPackets
<1>3. \A i \in DOMAIN q : TickAt(q, i, s) <=> TickAt(o, i + 1, s)
  BY <1>2 DEF TickAt
<1>4. \A i \in DOMAIN o : i = 1 \/ (i - 1 \in DOMAIN q /\ (TickAt(o, i, s) => TickAt(q, i - 1, s)))
  BY <1>2 DEF TickAt
<1>5. ASSUME NEW k \in DOMAIN q, TickAt(q, k, s), \A j \in DOMAIN q : TickAt(q, j, s) => j <= k
      PROVE  q[k].price = p
  <2>1. k + 1 \in DOMAIN o /\ TickAt(o, k + 1, s) /\ q[k] = o[k + 1] /\ k \in Nat
    BY <1>2, <1>3, <1>5
  <2>2. \A j \in DOMAIN o : TickAt(o, j, s) => j <= k + 1
    <3> SUFFICES ASSUME NEW j \in DOMAIN o, TickAt(o, j, s) PROVE j <= k + 1
      OBVIOUS
    <3>1. j \in Nat
      BY <1>2
    <3>2. j = 1 \/ j - 1 <= k
      BY <1>4, <1>5
    <3> QED BY <2>1, <3>1, <3>2
  <2> QED BY <2>1, <2>2 DEF Shown
<1>6. ASSUME \A k \in DOMAIN q : ~TickAt(q, k, s) PROVE w \in {Unset, p}
  <2>1. \A j \in DOMAIN o : TickAt(o, j, s) => j = 1
    BY <1>4, <1>6
  <2>2. CASE TickAt(o, 1, s)
    <3>1. \A j \in DOMAIN o : TickAt(o, j, s) => j <= 1
      BY <2>1
    <3> QED BY <1>2, <2>2, <3>1 DEF Shown
  <2>3. CASE ~TickAt(o, 1, s)
    BY <2>1, <2>3 DEF Shown
  <2> QED BY <2>2, <2>3
<1> QED BY <1>1, <1>5, <1>6 DEF Shown

(* Packets are sent whose prices of s, if any, are p.                      *)
LEMMA ShownConcat ==
  ASSUME NEW o \in Seq(Packets), NEW q \in Seq(Packets), NEW v, NEW s, NEW p,
         \A k \in DOMAIN q : TickAt(q, k, s) => q[k].price = p,
         Shown(o, v, s, p) \/ \E k \in DOMAIN q : TickAt(q, k, s)
  PROVE  Shown(o \o q, v, s, p)
<1>1. PICK r : r = o \o q
  OBVIOUS
<1>2. PICK l \in Nat : l = Len(o)
  BY LenProperties
<1>3. /\ DOMAIN o = 1..l /\ DOMAIN r \subseteq Nat
      /\ \A i \in DOMAIN o : i \in DOMAIN r /\ r[i] = o[i] /\ i \in Nat
      /\ \A j \in DOMAIN q : l + j \in DOMAIN r /\ r[l + j] = q[j] /\ j \in Nat /\ l + j \notin DOMAIN o
      /\ \A i \in DOMAIN r :
           \/ i \in DOMAIN o
           \/ i - l \in DOMAIN q /\ r[i] = q[i - l] /\ i = l + (i - l)
  <2>1. Joins(r, o, q, l)
    BY <1>1, <1>2, ConcatPackets
  <2> QED BY <2>1, Zenon DEF Joins
<1>4. \A i \in DOMAIN o : TickAt(r, i, s) <=> TickAt(o, i, s)
  <2>1. \A i \in DOMAIN o : i \in DOMAIN r /\ r[i] = o[i]
    BY <1>3
  <2> QED BY <2>1, Zenon DEF TickAt
<1>5. \A j \in DOMAIN q : TickAt(r, l + j, s) <=> TickAt(q, j, s)
  <2>1. \A j \in DOMAIN q : l + j \in DOMAIN r /\ r[l + j] = q[j]
    BY <1>3
  <2> QED BY <2>1, Zenon DEF TickAt
<1>6. \A i \in DOMAIN r : i \in DOMAIN o \/ (i - l \in DOMAIN q /\ r[i] = q[i - l] /\ i = l + (i - l))
  BY <1>3
<1>7. ASSUME NEW k \in DOMAIN r, TickAt(r, k, s), \A j \in DOMAIN r : TickAt(r, j, s) => j <= k
      PROVE  r[k].price = p
  <2>1. CASE k \in DOMAIN o
    <3>1. \A j \in DOMAIN o : TickAt(o, j, s) => j <= k
      BY <1>3, <1>4, <1>7
    <3>2. \A j \in DOMAIN q : ~TickAt(q, j, s)
      <4> SUFFICES ASSUME NEW j \in DOMAIN q, TickAt(q, j, s) PROVE FALSE
        OBVIOUS
      <4>1. l + j <= k
        BY <1>3, <1>5, <1>7
      <4>2. k <= l /\ k \in Nat /\ j \in Nat /\ l + j \notin 1..l
        BY <1>3, <2>1
      <4>3. 1 <= k
        BY <1>3, <2>1
      <4>4. j # 0 => ~(l + j <= l)
        BY <4>2
      <4>5. j = 0 => l + j \in 1..l
        BY <4>1, <4>2, <4>3
      <4> QED BY <4>1, <4>2, <4>4, <4>5
    <3>3. TickAt(o, k, s) /\ r[k] = o[k]
      BY <1>3, <1>4, <1>7, <2>1
    <3> QED BY <2>1, <3>1, <3>2, <3>3 DEF Shown
  <2>2. CASE k - l \in DOMAIN q /\ r[k] = q[k - l] /\ k = l + (k - l)
    <3>1. TickAt(q, k - l, s)
      BY <1>5, <1>7, <2>2
    <3> QED BY <2>2, <3>1
  <2> QED BY <1>6, <2>1, <2>2
<1>8. ASSUME \A k \in DOMAIN r : ~TickAt(r, k, s) PROVE v \in {Unset, p}
  <2>1. \A j \in DOMAIN q : ~TickAt(q, j, s)
    BY <1>3, <1>5, <1>8
  <2>2. \A i \in DOMAIN o : ~TickAt(o, i, s)
    BY <1>3, <1>4, <1>8
  <2> QED BY <2>1, <2>2 DEF Shown
<1> QED BY <1>1, <1>7, <1>8 DEF Shown

LEMMA PricesStep == Inv /\ [Next]_vars => PricesInv'
<1> SUFFICES ASSUME Inv, [Next]_vars PROVE PricesInv'
  OBVIOUS
<1>0. /\ Types /\ TypeOK /\ PricesInv /\ IsInjective(table.names) /\ table \in Tables
      /\ market \in [Symbols -> Prices] /\ out \in Seq(Packets)
  BY DEF Inv, Types, TypeOK, TableInv
<1>1. ASSUME UNCHANGED <<view, table, connected, out>> PROVE PricesInv'
  BY <1>0, <1>1 DEF PricesInv, Reached
<1>2. ASSUME NEW kind, NEW symbol, NEW register, Send(kind, symbol, register) PROVE PricesInv'
  BY <1>1, <1>2 DEF Send, link, expert
<1>3. CASE Trade
  BY <1>2, <1>3 DEF Trade
<1>4. ASSUME NEW s \in Symbols, RegisterSymbol(s) PROVE PricesInv'
  BY <1>2, <1>4 DEF RegisterSymbol
<1>5. ASSUME NEW s \in Symbols, UnregisterSymbol(s) PROVE PricesInv'
  BY <1>2, <1>5 DEF UnregisterSymbol
<1>6. CASE SessionEnds
  BY <1>6 DEF SessionEnds, Forget, PricesInv
<1>7. CASE Connect
  <2>1. view' = NoPrice /\ out' = <<>> /\ table' = table /\ connected'
    BY <1>0, <1>7 DEF Connect, NewSession, plugin, PricesInv
  <2>2. \A s \in Symbols : view'[s] = Unset
    BY <2>1 DEF NoPrice
  <2>3. \A s, p : Shown(<<>>, Unset, s, p)
    BY DEF Shown
  <2>4. \A i \in Reached(table) : table.names[i] \in Symbols
    BY <1>0, TableFields DEF Reached
  <2> QED BY <2>1, <2>2, <2>3, <2>4 DEF PricesInv
<1>8. CASE Deliver
  <2>1. out # <<>> /\ out' = Tail(out) /\ connected /\ UNCHANGED <<connected, table>>
    BY <1>8 DEF Deliver, link
  <2>2. Head(out) = out[1] /\ out[1] \in Packets /\ 1 \in DOMAIN out
    BY <1>0, <2>1, TailPackets
  <2>3. \A s \in Symbols : view'[s] = IF TickAt(out, 1, s) THEN out[1].price ELSE view[s]
    <3>1. CASE out[1].id = "Command"
      BY <1>8, <2>2, <3>1 DEF Deliver, TickAt
    <3>2. CASE out[1].id # "Command"
      <4>1. out[1].id = "Tick" /\ out[1].symbol \in Symbols
        BY <2>2, <3>2 DEF Packets
      <4>2. view' = [view EXCEPT ![out[1].symbol] = out[1].price] /\ view \in [Symbols -> Prices \cup {Unset}]
        BY <1>0, <1>8, <2>2, <3>2 DEF Deliver, TypeOK
      <4> QED BY <2>2, <4>1, <4>2 DEF TickAt
    <3> QED BY <3>1, <3>2
  <2>4. \A i \in Reached(table) : table.names[i] \in Symbols
    BY <1>0, TableFields DEF Reached
  <2> SUFFICES ASSUME NEW i \in Reached(table), table.sent[i] # Unset
               PROVE  Shown(out', view'[table.names[i]], table.names[i], table.sent[i])
    BY <2>1 DEF PricesInv
  <2>5. Shown(out, view[table.names[i]], table.names[i], table.sent[i])
    BY <1>0, <2>1 DEF PricesInv
  <2> QED BY <1>0, <2>1, <2>3, <2>4, <2>5, ShownTail
<1>9. ASSUME NEW n \in Pipe!Numbers, ExecuteTrade(n) PROVE PricesInv'
  <2>1. PICK q : q = <<Result(n)>>
    OBVIOUS
  <2>2. q \in Seq(Packets) /\ DOMAIN q = {1} /\ q[1].id = "Command"
    BY <1>0, <2>1, Numbered DEF Packets, Result
  <2>3. out' = out \o q /\ UNCHANGED <<view, table, connected>>
    BY <1>9, <2>1 DEF ExecuteTrade, Emit, plugin, link
  <2>4. \A k \in DOMAIN q : \A s : ~TickAt(q, k, s)
    BY <2>2 DEF TickAt
  <2>5. \A s, p, v : Shown(out, v, s, p) => Shown(out \o q, v, s, p)
    BY <1>0, <2>2, <2>4, ShownConcat
  <2> QED BY <1>0, <2>3, <2>5 DEF PricesInv, Reached
<1>10. ASSUME NEW n \in Pipe!Numbers, HandleRegisterSymbol(n) PROVE PricesInv'
  <2>1. commands[n].symbol \in Symbols
    BY <1>0, <1>10 DEF HandleRegisterSymbol, Types
  <2>2. table' = table \/ \A i \in DOMAIN table'.sent : table'.sent[i] = Unset
    BY <1>0, <1>10, <2>1, RegisterTable, UnregisterTable DEF HandleRegisterSymbol
  <2>3. UNCHANGED <<view, connected, out>>
    BY <1>10 DEF HandleRegisterSymbol, plugin, link
  <2>4. CASE table' = table
    BY <1>1, <2>3, <2>4
  <2>5. CASE \A i \in DOMAIN table'.sent : table'.sent[i] = Unset
    BY <1>0, <2>3, <2>5 DEF PricesInv, Reached
  <2> QED BY <2>2, <2>4, <2>5
<1>11. CASE UpdateTicks
  <2>1. PICK q : q = TickPackets(table, market)
    OBVIOUS
  <2>2. /\ q \in Seq(Packets)
        /\ \A k \in DOMAIN q :
             /\ q[k].id = "Tick"
             /\ \E i \in DOMAIN table.names :
                  /\ Changed(table, market, i)
                  /\ q[k].symbol = table.names[i]
                  /\ q[k].price = market[table.names[i]]
        /\ \A i \in DOMAIN table.names : Changed(table, market, i) =>
             \E k \in DOMAIN q : q[k].symbol = table.names[i]
    BY <1>0, <2>1, TickPacketsContents
  <2>3. out' = out \o q /\ UNCHANGED <<view, connected>> /\ table' = Ticked(table, market)
    BY <1>11, <2>1 DEF UpdateTicks, Emit, TickPackets, plugin, link
  <2>4. /\ table'.names = table.names /\ Reached(table') = Reached(table)
        /\ \A i \in Reached(table) : table'.sent[i] = market[table.names[i]]
    BY <1>0, <2>3, TickedTable DEF Reached
  <2>5. CASE ~connected
    BY <1>0, <2>3, <2>5 DEF PricesInv
  <2>6. CASE connected
    <3> SUFFICES ASSUME NEW i \in Reached(table)
                 PROVE  Shown(out \o q, view[table.names[i]], table.names[i], market[table.names[i]])
      BY <2>3, <2>4, <2>6 DEF PricesInv
    <3>1. i \in DOMAIN table.names /\ table.names[i] \in Symbols /\ market[table.names[i]] \in Prices
      BY <1>0, TableFields DEF Reached
    <3>2. \A k \in DOMAIN q : TickAt(q, k, table.names[i]) => q[k].price = market[table.names[i]]
      BY <2>2 DEF TickAt
    <3>3. \/ Shown(out, view[table.names[i]], table.names[i], market[table.names[i]])
          \/ \E k \in DOMAIN q : TickAt(q, k, table.names[i])
      <4>1. CASE Changed(table, market, i)
        BY <2>2, <3>1, <4>1 DEF TickAt
      <4>2. CASE ~Changed(table, market, i)
        <5>1. table.sent[i] = market[table.names[i]] /\ table.sent[i] # Unset
          BY <3>1, <4>2, SymbolTicksAssumption DEF Changed
        <5> QED BY <1>0, <2>6, <5>1 DEF PricesInv
      <4> QED BY <4>1, <4>2
    <3> QED BY <1>0, <2>2, <3>2, <3>3, ShownConcat
  <2> QED BY <2>5, <2>6
<1>12. CASE Restart
  BY <1>12 DEF Restart, Forget, PricesInv
<1>13. ASSUME NEW s \in Symbols, MarketMoves(s) PROVE PricesInv'
  BY <1>1, <1>13 DEF MarketMoves, plugin, link, expert
<1>14. CASE UNCHANGED vars
  BY <1>1, <1>14 DEF vars, plugin, link, expert
<1> QED BY <1>3, <1>4, <1>5, <1>6, <1>7, <1>8, <1>9, <1>10, <1>11, <1>12, <1>13, <1>14
        DEF Next, Trades, Registrations

------------------------------------------------------------------------------
LEMMA Invariance == Spec => []Inv
<1>1. Init => Inv
  <2>1. Init => Answers
    BY DEF Init, Answers, ResultsAreFresh
  <2>2. Init => PricesInv
    BY DEF Init, PricesInv
  <2> QED BY <2>1, <2>2, TypesInit, TableInit DEF Inv
<1>2. Inv /\ [Next]_vars => Inv'
  BY TypesStep, AnswersStep, TableStep, PricesStep DEF Inv
<1> QED BY <1>1, <1>2, PTL DEF Spec

(* The variables keep the types that TypeOK gives them: the expert's table *)
(* and the buffers of the connector, over any number of sessions.          *)
THEOREM TypeCorrect == Spec => []TypeOK
<1>1. Inv => TypeOK
  BY DEF Inv, Types
<1> QED BY <1>1, Invariance, PTL

(* A result on its way is the only one of a command that was executed in   *)
(* this session and that no plugin has heard of.                           *)
THEOREM FreshCorrect == Spec => []ResultsAreFresh
<1>1. Inv => ResultsAreFresh
  BY DEF Inv, Answers
<1> QED BY <1>1, Invariance, PTL

(* Unless a plugin unregisters what it has not registered, HandleRegister- *)
(* Symbol() never leaves fewer prices than symbols, whatever sessions do;  *)
(* and the symbols of the table never repeat.                              *)
THEOREM TableCorrect == Spec => []TableHolds
<1>1. Inv => TableHolds
  BY DEF Inv, TableInv, TableHolds
<1> QED BY <1>1, Invariance, PTL

(* When nothing is on its way and UpdateTicks() finds nothing to send, the *)
(* plugins have the market's price of a symbol served, or none yet.        *)
THEOREM PricesCorrect == Spec => []PricesNeverStale
<1>1. Inv => PricesNeverStale
  <2> SUFFICES ASSUME Inv, connected, out = <<>>, Ticks(table, market) = <<>>,
                      NEW i \in Reached(table)
               PROVE  view[table.names[i]] \in {Unset, market[table.names[i]]}
    BY DEF PricesNeverStale
  <2>1. table \in Tables /\ market \in [Symbols -> Prices]
    BY DEF Inv, Types, TypeOK
  <2>2. i \in DOMAIN table.names /\ table.names[i] \in Symbols
    BY <2>1, TableFields DEF Reached
  <2>3. ~Changed(table, market, i)
    <3>1. DOMAIN Ticks(table, market) = {}
      OBVIOUS
    <3> QED BY <2>1, <2>2, <3>1, TicksContents
  <2>4. table.sent[i] = market[table.names[i]] /\ table.sent[i] # Unset
    BY <2>1, <2>2, <2>3, SymbolTicksAssumption DEF Changed
  <2>5. Shown(<<>>, view[table.names[i]], table.names[i], market[table.names[i]])
    BY <2>4 DEF Inv, PricesInv
  <2> QED BY <2>5 DEF Shown
<1> QED BY <1>1, Invariance, PTL

==============================================================================
