--------------------------- MODULE FramingProofs ---------------------------
(***************************************************************************)
(* Theorems about Framing, for any sizes of the header, of the messages    *)
(* and of a read, and any number of messages and sessions.                 *)
(***************************************************************************)
EXTENDS Framing, SequenceTheorems, WellFoundedInduction, TLAPS

------------------------------------------------------------------------------
(* Induction over the natural numbers, for sets.                           *)
LEMMA Least ==
  ASSUME NEW S \in SUBSET Nat, S # {}
  PROVE  \E n \in S : \A m \in S : n <= m
<1>1. PICK n \in S : \A m \in S : <<m, n>> \notin OpToRel(<, Nat)
  BY WFMin, NatLessThanWellFounded, Zenon
<1>2. ASSUME NEW m \in S PROVE ~(m < n)
  BY <1>1, Zenon DEF OpToRel
<1>3. \A k, m \in Nat : ~(m < k) => k <= m
  OBVIOUS
<1> QED BY <1>2, <1>3

LEMMA SetInduction ==
  ASSUME NEW S \in SUBSET Nat, 0 \in S, \A n \in S : n + 1 \in S
  PROVE  S = Nat
<1> SUFFICES ASSUME Nat \ S # {} PROVE FALSE
  OBVIOUS
<1>1. PICK m \in Nat \ S : \A n \in Nat \ S : m <= n
  BY Least
<1>2. m - 1 \in S /\ m - 1 \in Nat
  BY <1>1
<1> QED BY <1>1, <1>2

------------------------------------------------------------------------------
(* Cutting and joining sequences                                           *)

Upto(s, n) == SubSeq(s, 1, n)
After(s, n) == SubSeq(s, n + 1, Len(s))

LEMMA SplitAt ==
  ASSUME NEW S, NEW s \in Seq(S), NEW n \in Nat, n <= Len(s),
         NEW a, a = Upto(s, n), NEW b, b = After(s, n)
  PROVE  /\ Len(s) \in Nat
         /\ a \in Seq(S) /\ Len(a) = n /\ \A i \in 1..n : a[i] = s[i]
         /\ b \in Seq(S) /\ Len(b) = Len(s) - n /\ \A i \in 1..(Len(s) - n) : b[i] = s[n + i]
         /\ a \o b = s
<1>1. PICK l \in Nat : l = Len(s) /\ DOMAIN s = 1..l
  BY LenProperties
<1>2. \A i \in 1..l : s[i] \in S
  BY <1>1, ElementOfSeq
<1>3. a \in Seq(S) /\ Len(a) = n /\ \A i \in 1..n : a[i] = s[i]
  BY <1>1, <1>2 DEF Upto
<1>4. b \in Seq(S) /\ Len(b) = l - n /\ \A i \in 1..(l - n) : b[i] = s[n + i]
  BY <1>1, <1>2 DEF After
<1>5. a \o b = s
  <2>1. 1 \in 1..(l + 1) /\ n \in (1 - 1)..l /\ l \in n..l
    BY <1>1
  <2>2. SubSeq(s, 1, n) \o SubSeq(s, n + 1, l) = SubSeq(s, 1, l)
    BY <1>1, <2>1, ConcatAdjacentSubSeq
  <2> QED BY <1>1, <2>2, SubSeqFull DEF Upto, After
<1> QED BY <1>1, <1>3, <1>4, <1>5

LEMMA SplitTypes ==
  ASSUME NEW S, NEW s \in Seq(S), NEW n \in Nat, n <= Len(s)
  PROVE  /\ Upto(s, n) \in Seq(S) /\ Len(Upto(s, n)) = n
         /\ After(s, n) \in Seq(S) /\ Len(After(s, n)) = Len(s) - n
BY SplitAt

LEMMA SplitJoins ==
  ASSUME NEW S, NEW s \in Seq(S), NEW n \in Nat, n <= Len(s)
  PROVE  Upto(s, n) \o After(s, n) = s
BY SplitAt

LEMMA Joined ==
  ASSUME NEW S, NEW a \in Seq(S), NEW b \in Seq(S), NEW r, r = a \o b
  PROVE  /\ r \in Seq(S) /\ Len(a) \in Nat /\ Len(b) \in Nat /\ Len(r) = Len(a) + Len(b)
         /\ DOMAIN r = 1..Len(r) /\ DOMAIN a = 1..Len(a) /\ DOMAIN b = 1..Len(b)
         /\ \A i \in 1..Len(a) : i \in DOMAIN r /\ r[i] = a[i]
         /\ \A i \in 1..Len(b) : Len(a) + i \in DOMAIN r /\ r[Len(a) + i] = b[i]
<1>1. PICK m \in Nat : m = Len(a) /\ DOMAIN a = 1..m
  BY LenProperties
<1>2. PICK n \in Nat : n = Len(b) /\ DOMAIN b = 1..n
  BY LenProperties
<1>3. /\ r \in Seq(S) /\ Len(r) = m + n
      /\ \A i \in 1..(m + n) : r[i] = IF i <= m THEN a[i] ELSE b[i - m]
  BY <1>1, <1>2, ConcatProperties
<1>4. DOMAIN r = 1..(m + n)
  BY <1>3, LenProperties
<1>5. \A i \in 1..m : i \in 1..(m + n) /\ i <= m
  OBVIOUS
<1>6. \A i \in 1..n : m + i \in 1..(m + n) /\ ~(m + i <= m) /\ (m + i) - m = i
  OBVIOUS
<1> QED BY <1>1, <1>2, <1>3, <1>4, <1>5, <1>6

LEMMA Regroup ==
  ASSUME NEW S, NEW a \in Seq(S), NEW b \in Seq(S), NEW c \in Seq(S)
  PROVE  (a \o b) \o c = a \o (b \o c) /\ a \o b \in Seq(S)
<1>1. a \o b \in Seq(S)
  BY ConcatProperties
<1>2. (a \o b) \o c = a \o (b \o c)
  BY ConcatAssociative
<1> QED BY <1>1, <1>2

------------------------------------------------------------------------------
(* The bytes between the handlers and the server                           *)

(* The bytes of r are those of whole messages one after the other: the     *)
(* first is number h + 1, the last number s.                               *)
Flow(r, h, s) ==
  /\ \A i \in DOMAIN r : r[i].off \in 1..r[i].len
  /\ Contiguous(r)
  /\ IF r = <<>>
       THEN h = s
       ELSE /\ r[1].msg = h + 1 /\ r[1].off = 1
            /\ r[Len(r)].msg = s /\ r[Len(r)].off = r[Len(r)].len

LEMMA ByteFields ==
  ASSUME NEW b \in Bytes
  PROVE  b.msg \in Nat /\ b.len \in Nat /\ b.off \in Nat /\ b.len \in Lengths /\ b.len >= HeaderSize
         /\ b.msg \in 1..MaxMessages
<1>1. b.msg \in 1..MaxMessages /\ b.len \in Lengths /\ b.off \in UNION {1..l : l \in Lengths}
  BY DEF Bytes
<1>2. PICK l \in Lengths : b.off \in 1..l
  BY <1>1
<1>3. l \in Nat /\ b.len \in Nat /\ b.len >= HeaderSize
  BY <1>1, FramingAssumption
<1> QED BY <1>1, <1>2, <1>3, FramingAssumption

LEMMA NextByte ==
  ASSUME NEW b \in Bytes, NEW c, c = [b EXCEPT !.off = @ + 1]
  PROVE  c.msg = b.msg /\ c.len = b.len /\ c.off = b.off + 1
BY DEF Bytes

(* The first bytes are those of one message.                               *)
LEMMA FlowFront ==
  ASSUME NEW r \in Seq(Bytes), r # <<>>, NEW h, NEW s, Flow(r, h, s),
         NEW i \in 1..Len(r), i <= r[1].len
  PROVE  r[i].msg = r[1].msg /\ r[i].len = r[1].len /\ r[i].off = i
<1>1. PICK n \in Nat : n = Len(r) /\ DOMAIN r = 1..n /\ n # 0
  BY LenProperties, EmptySeq
<1>2. \A j \in 1..n : r[j] \in Bytes
  BY <1>1, ElementOfSeq
<1> DEFINE P(j) == r[j].msg = r[1].msg /\ r[j].len = r[1].len /\ r[j].off = j
           S == {j \in Nat : j + 1 <= n /\ j + 1 <= r[1].len => P(j + 1)}
<1>3. 0 \in S
  <2>1. P(1)
    BY <1>1 DEF Flow
  <2> QED BY <2>1
<1>4. ASSUME NEW j \in S PROVE j + 1 \in S
  <2> SUFFICES ASSUME (j + 1) + 1 <= n, (j + 1) + 1 <= r[1].len PROVE P((j + 1) + 1)
    OBVIOUS
  <2>1. PICK k \in Nat : k = j + 1
    OBVIOUS
  <2>2. r[1].len \in Nat /\ 1 \in 1..n
    BY <1>1, <1>2, ByteFields
  <2>3. /\ j + 1 <= n /\ j + 1 <= r[1].len /\ k \in 1..n /\ k + 1 \in 1..n /\ k \in 1..(n - 1)
        /\ k # r[1].len
    BY <2>1, <2>2
  <2>4. P(k)
    BY <2>1, <2>3
  <2>5. \/ r[k + 1] = [r[k] EXCEPT !.off = @ + 1]
        \/ r[k].off = r[k].len /\ r[k + 1].off = 1 /\ r[k + 1].msg = r[k].msg + 1
    BY <1>1, <2>3 DEF Flow, Contiguous
  <2>6. r[k + 1] = [r[k] EXCEPT !.off = @ + 1]
    BY <2>3, <2>4, <2>5
  <2>7. r[k + 1].msg = r[k].msg /\ r[k + 1].len = r[k].len /\ r[k + 1].off = r[k].off + 1
    BY <1>2, <2>3, <2>6, NextByte
  <2> QED BY <2>1, <2>4, <2>7
<1> HIDE DEF S
<1>5. S \in SUBSET Nat
  BY DEF S
<1>6. S = Nat
  BY <1>3, <1>4, <1>5, SetInduction
<1>7. i - 1 \in Nat /\ (i - 1) + 1 = i
  BY <1>1
<1>8. P((i - 1) + 1)
  <2>1. i - 1 \in S /\ (i - 1) + 1 <= n
    BY <1>1, <1>6, <1>7
  <2> QED BY <1>7, <2>1 DEF S
<1> QED BY <1>7, <1>8

(* The first message is taken off.                                         *)
LEMMA FlowErase ==
  ASSUME NEW r \in Seq(Bytes), r # <<>>, NEW h \in Nat, NEW s \in Nat, Flow(r, h, s),
         NEW l, l = r[1].len, l <= Len(r),
         NEW q \in Seq(Bytes), Len(q) = Len(r) - l, \A i \in 1..Len(q) : q[i] = r[l + i]
  PROVE  Flow(q, h + 1, s)
<1>1. PICK n \in Nat : n = Len(r) /\ DOMAIN r = 1..n /\ n # 0
  BY LenProperties, EmptySeq
<1>2. PICK m \in Nat : m = Len(q) /\ DOMAIN q = 1..m
  BY LenProperties
<1>3. /\ \A i \in 1..n : r[i] \in Bytes /\ r[i].off \in 1..r[i].len
      /\ \A i \in 1..n : r[i].len \in Nat
      /\ \A i \in 1..(n - 1) :
           \/ r[i + 1] = [r[i] EXCEPT !.off = @ + 1]
           \/ r[i].off = r[i].len /\ r[i + 1].off = 1 /\ r[i + 1].msg = r[i].msg + 1
  <2>1. \A i \in 1..n : r[i] \in Bytes
    BY <1>1, ElementOfSeq
  <2> QED BY <1>1, <2>1, ByteFields DEF Flow, Contiguous
<1>4. PICK k \in Nat : k = l /\ k >= HeaderSize
  <2>1. r[1] \in Bytes /\ r[1].len \in Nat /\ r[1].len >= HeaderSize
    BY <1>1, <1>3, ByteFields
  <2> QED BY <2>1
<1>11. m = n - k
  BY <1>1, <1>2, <1>4
<1>12. k # 0 /\ m + k = n
  <2>1. k # 0
    BY <1>4, FramingAssumption
  <2> QED BY <1>11, <2>1
<1>5. r[k].msg = h + 1 /\ r[k].off = k /\ r[k].len = k
  <2>1. k \in 1..n /\ k <= k
    BY <1>12
  <2> QED BY <1>1, <1>4, <2>1, FlowFront DEF Flow
<1>6. \A i \in 1..m : q[i] = r[k + i] /\ k + i \in 1..n
  <2>1. \A i \in 1..m : q[i] = r[k + i]
    BY <1>2, <1>4
  <2>2. \A i \in 1..m : k + i \in 1..n
    <3>1. \A a, b \in Nat : \A i \in 1..a : b + i \in 1..(a + b)
      OBVIOUS
    <3> QED BY <1>12, <3>1, Zenon
  <2> QED BY <2>1, <2>2
<1>7. \A i \in DOMAIN q : q[i].off \in 1..q[i].len
  BY <1>2, <1>3, <1>6
<1>8. Contiguous(q)
  <2> SUFFICES ASSUME NEW i \in 1..(m - 1)
               PROVE  \/ q[i + 1] = [q[i] EXCEPT !.off = @ + 1]
                      \/ q[i].off = q[i].len /\ q[i + 1].off = 1 /\ q[i + 1].msg = q[i].msg + 1
    BY <1>2 DEF Contiguous
  <2>1. k + i \in 1..(n - 1) /\ i \in 1..m /\ i + 1 \in 1..m /\ k + (i + 1) = (k + i) + 1
    BY <1>12
  <2>2. q[i] = r[k + i] /\ q[i + 1] = r[(k + i) + 1]
    BY <1>6, <2>1
  <2> QED BY <1>3, <2>1, <2>2
<1>9. CASE m = 0
  <2>1. q = <<>> /\ k = n
    BY <1>2, <1>9, <1>12, EmptySeq
  <2>2. h + 1 = s
    BY <1>1, <1>5, <2>1 DEF Flow
  <2> QED BY <1>7, <1>8, <2>1, <2>2 DEF Flow
<1>10. CASE m # 0
  <2>1. k \in 1..(n - 1) /\ 1 \in 1..m /\ m \in 1..m /\ q # <<>> /\ k + m = n /\ k + 1 \in 1..n
    BY <1>2, <1>10, <1>12, EmptySeq
  <2>2. q[1] = r[k + 1] /\ q[m] = r[n]
    BY <1>6, <2>1
  <2>3. r[k + 1] # [r[k] EXCEPT !.off = @ + 1]
    <3> SUFFICES ASSUME r[k + 1] = [r[k] EXCEPT !.off = @ + 1] PROVE FALSE
      OBVIOUS
    <3>1. r[k + 1].off = k + 1 /\ r[k + 1].len = k
      <4>1. r[k] \in Bytes
        BY <1>3, <2>1
      <4> QED BY <1>5, <4>1, NextByte
    <3>2. r[k + 1].off \in 1..r[k + 1].len
      BY <1>3, <2>1
    <3> QED BY <3>1, <3>2
  <2>4. r[k + 1].off = 1 /\ r[k + 1].msg = (h + 1) + 1
    BY <1>3, <1>5, <2>1, <2>3
  <2>5. r[n].msg = s /\ r[n].off = r[n].len
    BY <1>1 DEF Flow
  <2> QED BY <1>2, <1>7, <1>8, <2>1, <2>2, <2>4, <2>5 DEF Flow
<1> QED BY <1>9, <1>10

(* A message comes after the others.                                       *)
LEMMA FlowAppend ==
  ASSUME NEW r \in Seq(Bytes), NEW h \in Nat, NEW s \in Nat, Flow(r, h, s),
         NEW l \in Lengths, s + 1 \in 1..MaxMessages,
         NEW p, p = [i \in 1..l |-> Byte(s + 1, l, i)]
  PROVE  p \in Seq(Bytes) /\ Flow(r \o p, h, s + 1)
<1>1. l \in Nat /\ l # 0
  BY FramingAssumption
<1>2. /\ \A i \in 1..l : p[i] \in Bytes
      /\ \A i \in 1..l : p[i].msg = s + 1 /\ p[i].len = l /\ p[i].off = i
      /\ \A i \in 1..(l - 1) : p[i + 1] = [p[i] EXCEPT !.off = @ + 1]
  <2>1. \A i \in 1..l : Byte(s + 1, l, i) \in Bytes
    BY DEF Byte, Bytes
  <2>2. \A i \in 1..l : p[i] = [msg |-> s + 1, len |-> l, off |-> i]
    BY DEF Byte
  <2>3. \A i \in 1..(l - 1) : i \in 1..l /\ i + 1 \in 1..l
    BY <1>1
  <2>4. ASSUME NEW i \in 1..(l - 1) PROVE p[i + 1] = [p[i] EXCEPT !.off = @ + 1]
    <3>1. PICK b : b = [msg |-> s + 1, len |-> l, off |-> i]
      OBVIOUS
    <3>2. [b EXCEPT !.off = @ + 1] = [msg |-> s + 1, len |-> l, off |-> i + 1]
      BY <3>1
    <3>3. p[i] = b /\ p[i + 1] = [msg |-> s + 1, len |-> l, off |-> i + 1]
      BY <2>2, <2>3, <3>1
    <3> QED BY <3>2, <3>3, Zenon
  <2>5. \A i \in 1..l : p[i].msg = s + 1 /\ p[i].len = l /\ p[i].off = i
    <3> SUFFICES ASSUME NEW i \in 1..l PROVE p[i].msg = s + 1 /\ p[i].len = l /\ p[i].off = i
      OBVIOUS
    <3>1. PICK b : b = [msg |-> s + 1, len |-> l, off |-> i]
      OBVIOUS
    <3>2. b.msg = s + 1 /\ b.len = l /\ b.off = i
      BY <3>1
    <3> QED BY <2>2, <3>1, <3>2, Zenon
  <2>6. \A i \in 1..l : p[i] \in Bytes
    BY <2>1
  <2> QED BY <2>4, <2>5, <2>6
<1>3. p \in Seq(Bytes) /\ Len(p) = l
  BY <1>1, <1>2
<1>4. PICK t : t = r \o p
  OBVIOUS
<1>5. PICK n \in Nat : n = Len(r) /\ DOMAIN r = 1..n
  BY LenProperties
<1>6. /\ t \in Seq(Bytes) /\ Len(t) = n + l /\ DOMAIN t = 1..(n + l)
      /\ \A i \in 1..n : t[i] = r[i]
      /\ \A i \in 1..l : t[n + i] = p[i]
  <2>1. PICK u \in Seq(Bytes) : u = p /\ Len(u) = l
    BY <1>3
  <2>2. t = r \o u
    BY <1>4, <2>1
  <2>3. /\ t \in Seq(Bytes) /\ Len(t) = Len(r) + Len(u) /\ DOMAIN t = 1..Len(t)
        /\ \A i \in 1..Len(r) : t[i] = r[i]
        /\ \A i \in 1..Len(u) : t[Len(r) + i] = u[i]
    BY <2>2, Joined
  <2> QED BY <1>5, <2>1, <2>3
<1>7. \A i \in 1..(n + l) : i \in 1..n \/ (i - n \in 1..l /\ n + (i - n) = i)
  BY <1>1
<1>8. \A i \in DOMAIN t : t[i].off \in 1..t[i].len
  <2>1. \A i \in 1..n : t[i].off \in 1..t[i].len
    BY <1>5, <1>6 DEF Flow
  <2>2. \A i \in 1..l : t[n + i].off \in 1..t[n + i].len
    BY <1>2, <1>6
  <2> QED BY <1>6, <1>7, <2>1, <2>2
<1>9. \A i \in 1..(n - 1) :
        \/ r[i + 1] = [r[i] EXCEPT !.off = @ + 1]
        \/ r[i].off = r[i].len /\ r[i + 1].off = 1 /\ r[i + 1].msg = r[i].msg + 1
  BY <1>5 DEF Flow, Contiguous
<1>10. Contiguous(t)
  <2> SUFFICES ASSUME NEW i \in 1..((n + l) - 1)
               PROVE  \/ t[i + 1] = [t[i] EXCEPT !.off = @ + 1]
                      \/ t[i].off = t[i].len /\ t[i + 1].off = 1 /\ t[i + 1].msg = t[i].msg + 1
    BY <1>6 DEF Contiguous
  <2>1. CASE i < n
    <3>1. i \in 1..(n - 1) /\ i \in 1..n /\ i + 1 \in 1..n
      BY <2>1
    <3>2. t[i] = r[i] /\ t[i + 1] = r[i + 1]
      BY <1>6, <3>1
    <3> QED BY <1>9, <3>1, <3>2
  <2>2. CASE i = n
    <3>1. n \in 1..n /\ 1 \in 1..l /\ r # <<>>
      BY <1>1, <1>5, <2>2
    <3>2. t[i] = r[n] /\ t[i + 1] = p[1]
      BY <1>6, <2>2, <3>1
    <3>3. r[n].msg = s /\ r[n].off = r[n].len
      BY <1>5, <3>1 DEF Flow
    <3> QED BY <1>2, <3>1, <3>2, <3>3
  <2>3. CASE i > n
    <3>1. PICK j \in 1..(l - 1) : i = n + j
      <4>1. i - n \in 1..(l - 1) /\ i = n + (i - n)
        BY <1>1, <2>3
      <4> QED BY <4>1
    <3>2. j \in 1..l /\ j + 1 \in 1..l /\ i + 1 = n + (j + 1)
      BY <1>1, <3>1
    <3>3. t[i] = p[j] /\ t[i + 1] = p[j + 1]
      BY <1>6, <3>1, <3>2
    <3> QED BY <1>2, <3>1, <3>3
  <2> QED BY <2>1, <2>2, <2>3
<1>11. t # <<>> /\ t[Len(t)].msg = s + 1 /\ t[Len(t)].off = t[Len(t)].len
  <2>1. l \in 1..l /\ n + l # 0
    BY <1>1
  <2> QED BY <1>2, <1>6, <2>1, EmptySeq
<1>12. t[1].msg = h + 1 /\ t[1].off = 1
  <2>1. CASE r = <<>>
    <3>1. n = 0 /\ 1 \in 1..l /\ 0 + 1 = 1 /\ h = s
      BY <1>1, <1>5, <2>1, EmptySeq DEF Flow
    <3> QED BY <1>2, <1>6, <3>1
  <2>2. CASE r # <<>>
    <3>1. 1 \in 1..n
      BY <1>5, <2>2, EmptySeq
    <3> QED BY <1>6, <2>2, <3>1 DEF Flow
  <2> QED BY <2>1, <2>2
<1> QED BY <1>3, <1>4, <1>8, <1>10, <1>11, <1>12 DEF Flow

------------------------------------------------------------------------------
(* The invariant                                                           *)

(* While the io thread waits, what handlePackets() has left is no header.  *)
Types == TypeOK /\ (pc = "waiting" => Len(recvBuffer) < HeaderSize)

InOrder == \A i \in DOMAIN handled : handled[i] = i

FirstSession ==
  sessions = 1 =>
    ~corrupt /\ InOrder /\ Flow(recvBuffer \o wire, Len(handled), sent)

Inv == Types /\ FirstSession

LEMMA Initial == Init => Inv
<1> SUFFICES ASSUME Init PROVE Inv
  OBVIOUS
<1>1. /\ wire = <<>> /\ recvBuffer = <<>> /\ handled = <<>> /\ sent = 0 /\ corrupt = FALSE
      /\ pc = "waiting" /\ sessions = 1
  BY DEF Init
<1>2. Len(recvBuffer) = 0 /\ Len(handled) = 0
  BY <1>1, EmptySeq
<1>3. TypeOK
  <2>1. wire \in Seq(Bytes) /\ recvBuffer \in Seq(Bytes) /\ handled \in Seq(1..MaxMessages)
    BY <1>1, EmptySeq
  <2>2. 0 < HeaderSize + BufferSize /\ 0 \in 0..MaxMessages /\ 1 \in 1..MaxSessions
    BY FramingAssumption
  <2> QED BY <1>1, <1>2, <2>1, <2>2 DEF TypeOK
<1>4. recvBuffer \o wire = <<>>
  <2>1. \A s \in Seq(Bytes) : s \o <<>> = s
    BY ConcatEmptySeq
  <2>2. <<>> \in Seq(Bytes)
    BY EmptySeq
  <2> QED BY <1>1, <2>1, <2>2
<1>5. Contiguous(<<>>)
  <2>1. Len(<<>>) = 0 /\ \A i : i \notin 1..(0 - 1)
    OBVIOUS
  <2> QED BY <2>1 DEF Contiguous
<1>6. Flow(<<>>, 0, 0)
  BY <1>5 DEF Flow
<1>7. InOrder
  BY <1>1 DEF InOrder
<1> QED BY <1>1, <1>2, <1>3, <1>4, <1>6, <1>7, FramingAssumption DEF Inv, Types, FirstSession

(* What a header at the front of the bytes says.                           *)
LEMMA HeaderIsRead ==
  ASSUME Inv, ~LoopEnds
  PROVE  /\ 1 \in DOMAIN recvBuffer /\ recvBuffer[1] \in Bytes
         /\ \A l \in LengthField : l \in Nat
         /\ sessions = 1 => Aligned
<1>1. PICK b \in Seq(Bytes) : b = recvBuffer
  BY DEF Inv, Types, TypeOK
<1>2. PICK n \in Nat : n = Len(b) /\ DOMAIN b = 1..n
  BY LenProperties
<1>3. HeaderSize <= n /\ HeaderSize \in Nat /\ HeaderSize # 0
  BY <1>1, <1>2, FramingAssumption DEF LoopEnds
<1>4. 1 \in 1..n /\ b[1] \in Bytes
  BY <1>2, <1>3, ElementOfSeq
<1>5. \A l \in LengthField : l \in Nat
  <2>1. b[1].len \in Nat
    BY <1>4, ByteFields
  <2>2. \A l \in 0..(n + 1) : l \in Nat
    OBVIOUS
  <2> QED BY <1>1, <1>2, <2>1, <2>2 DEF LengthField
<1>6. ASSUME sessions = 1 PROVE Aligned
  <2>1. PICK w \in Seq(Bytes) : w = wire
    BY DEF Inv, Types, TypeOK
  <2>2. PICK r : r = b \o w
    OBVIOUS
  <2>3. Flow(r, Len(handled), sent)
    BY <1>1, <1>6, <2>1, <2>2 DEF Inv, FirstSession
  <2>4. /\ r \in Seq(Bytes) /\ Len(r) = n + Len(w) /\ Len(w) \in Nat
        /\ \A i \in 1..n : r[i] = b[i]
    BY <1>2, <2>2, Joined
  <2>5. r # <<>>
    BY <1>3, <2>4, EmptySeq
  <2>6. \A i \in 1..HeaderSize : i \in 1..n /\ i \in 1..Len(r) /\ i <= b[1].len
    <3>1. b[1].len \in Nat /\ b[1].len >= HeaderSize
      BY <1>4, ByteFields
    <3> QED BY <1>3, <2>4, <3>1
  <2>7. \A i \in 1..HeaderSize : r[i].msg = r[1].msg /\ r[i].off = i
    BY <1>4, <2>3, <2>4, <2>5, <2>6, FlowFront
  <2> QED BY <1>1, <1>4, <2>4, <2>6, <2>7 DEF Aligned
<1> QED BY <1>1, <1>2, <1>4, <1>5, <1>6

LEMMA Step == Inv /\ [Next]_vars => Inv'
<1> SUFFICES ASSUME Inv, [Next]_vars PROVE Inv'
  OBVIOUS
<1> DEFINE rest == recvBuffer \o wire
<1>0. /\ Types /\ TypeOK /\ FirstSession
      /\ wire \in Seq(Bytes) /\ recvBuffer \in Seq(Bytes)
      /\ Len(recvBuffer) < HeaderSize + BufferSize
      /\ pc = "waiting" => Len(recvBuffer) < HeaderSize
      /\ sent \in 0..MaxMessages /\ handled \in Seq(1..MaxMessages)
      /\ corrupt \in BOOLEAN /\ sessions \in 1..MaxSessions
      /\ HeaderSize \in Nat /\ BufferSize \in Nat /\ MaxMessages \in Nat /\ MaxSessions \in Nat
      /\ Len(recvBuffer) \in Nat /\ Len(wire) \in Nat /\ Len(handled) \in Nat
  BY LenProperties, FramingAssumption DEF Inv, Types, TypeOK
<1>6. \A x, y, z \in Seq(Bytes) : (x \o y) \o z = x \o (y \o z)
  BY Regroup
<1>7. wire \in Seq(Bytes) /\ recvBuffer \in Seq(Bytes)
  BY <1>0
<1>1. ASSUME NEW l \in Lengths, ServerSends(l) PROVE Inv'
  <2>1. PICK s \in Nat : s = sent /\ s + 1 \in 0..MaxMessages /\ s + 1 \in 1..MaxMessages
    BY <1>0, <1>1 DEF ServerSends
  <2>2. PICK p : p = [i \in 1..l |-> Byte(s + 1, l, i)]
    OBVIOUS
  <2>3. /\ sent' = s + 1 /\ wire' = wire \o p
        /\ UNCHANGED <<recvBuffer, pc, handled, corrupt, sessions>>
    BY <1>1, <2>1, <2>2 DEF ServerSends
  <2>4. p \in Seq(Bytes)
    <3>1. l \in Nat
      BY FramingAssumption
    <3>2. \A i \in 1..l : p[i] \in Bytes
      BY <2>1, <2>2 DEF Byte, Bytes
    <3> QED BY <2>2, <3>1, <3>2
  <2>5. wire' \in Seq(Bytes)
    BY <1>0, <2>3, <2>4, ConcatProperties
  <2>6. Types'
    BY <1>0, <2>1, <2>3, <2>5 DEF Types, TypeOK
  <2>7. ASSUME sessions = 1 PROVE Flow(recvBuffer \o wire', Len(handled), s + 1)
    <3>1. PICK r \in Seq(Bytes) : r = rest
      BY <1>0, ConcatProperties
    <3>2. Flow(r, Len(handled), s)
      BY <1>0, <2>1, <2>7, <3>1 DEF FirstSession
    <3>3. Flow(r \o p, Len(handled), s + 1)
      BY <1>0, <2>1, <2>2, <3>2, FlowAppend
    <3>4. recvBuffer \o wire' = r \o p
      <4>1. (recvBuffer \o wire) \o p = recvBuffer \o (wire \o p)
        BY <1>6, <1>7, <2>4, Zenon
      <4> QED BY <2>3, <3>1, <4>1, Zenon
    <3> QED BY <3>3, <3>4
  <2> QED BY <1>0, <2>3, <2>6, <2>7 DEF Inv, FirstSession, InOrder
<1>2. ASSUME NEW n \in 1..BufferSize, HandleRead(n) PROVE Inv'
  <2>1. PICK a : a = Upto(wire, n)
    OBVIOUS
  <2>2. PICK b : b = After(wire, n)
    OBVIOUS
  <2>3. /\ pc = "waiting" /\ n <= Len(wire) /\ recvBuffer' = recvBuffer \o a /\ wire' = b
        /\ pc' = "parsing" /\ UNCHANGED <<sent, handled, corrupt, sessions>>
    BY <1>2, <2>1, <2>2 DEF HandleRead, Upto, After
  <2>4. a \in Seq(Bytes) /\ Len(a) = n /\ b \in Seq(Bytes) /\ a \o b = wire
    <3>1. n \in Nat /\ n <= Len(wire)
      BY <1>0, <2>3
    <3>2. a \in Seq(Bytes) /\ Len(a) = n /\ b \in Seq(Bytes)
      BY <1>7, <2>1, <2>2, <3>1, SplitTypes
    <3>3. a \o b = wire
      BY <1>7, <2>1, <2>2, <3>1, SplitJoins, Zenon
    <3> QED BY <3>2, <3>3, Zenon
  <2>5. recvBuffer' \in Seq(Bytes) /\ Len(recvBuffer') = Len(recvBuffer) + n
    BY <1>0, <2>3, <2>4, ConcatProperties
  <2>6. Len(recvBuffer') < HeaderSize + BufferSize
    BY <1>0, <2>3, <2>5
  <2>7. Types'
    BY <1>0, <2>3, <2>4, <2>5, <2>6 DEF Types, TypeOK
  <2>8. recvBuffer' \o wire' = rest
    <3>1. (recvBuffer \o a) \o b = recvBuffer \o (a \o b)
      BY <1>6, <1>7, <2>4, Zenon
    <3> QED BY <2>3, <2>4, <3>1, Zenon
  <2> QED BY <1>0, <2>3, <2>7, <2>8 DEF Inv, FirstSession, InOrder
<1>3. CASE Parse
  <2>1. CASE LoopEnds /\ pc' = "waiting" /\ UNCHANGED <<wire, recvBuffer, sent, handled, corrupt, sessions>>
    BY <1>0, <2>1 DEF LoopEnds, Inv, Types, TypeOK, FirstSession, InOrder
  <2>2. ASSUME ~LoopEnds, NEW l \in LengthField, Iterate(l) PROVE Inv'
    <3>0. /\ 1 \in DOMAIN recvBuffer /\ recvBuffer[1] \in Bytes /\ l \in Nat
          /\ sessions = 1 => Aligned
      BY <2>2, HeaderIsRead
    <3>1. /\ corrupt' = (corrupt \/ ~Aligned) /\ UNCHANGED <<wire, sent, sessions>>
      BY <2>2 DEF Iterate
    <3>2. corrupt' \in BOOLEAN /\ (sessions = 1 => corrupt' = corrupt)
      <4>1. Aligned \in BOOLEAN
        BY DEF Aligned
      <4> QED BY <1>0, <3>0, <3>1, <4>1
    <3>3. ASSUME Len(recvBuffer) >= l,
                 handled' = IF Aligned THEN Append(handled, recvBuffer[1].msg) ELSE handled,
                 Erase(l), pc' = IF l = 0 THEN "spinning" ELSE "parsing"
          PROVE  Inv'
      <4>1. PICK a : a = Upto(recvBuffer, l)
        OBVIOUS
      <4>2. PICK b : b = After(recvBuffer, l)
        OBVIOUS
      <4>3. /\ a \in Seq(Bytes) /\ Len(a) = l
            /\ b \in Seq(Bytes) /\ Len(b) = Len(recvBuffer) - l /\ a \o b = recvBuffer
        <5>1. l \in Nat /\ l <= Len(recvBuffer)
          BY <1>0, <3>0, <3>3
        <5>2. a \in Seq(Bytes) /\ Len(a) = l /\ b \in Seq(Bytes) /\ Len(b) = Len(recvBuffer) - l
          BY <1>7, <4>1, <4>2, <5>1, SplitTypes
        <5>3. a \o b = recvBuffer
          BY <1>7, <4>1, <4>2, <5>1, SplitJoins, Zenon
        <5> QED BY <5>2, <5>3, Zenon
      <4>4. recvBuffer' = b
        BY <3>3, <4>2 DEF Erase, After
      <4>5. recvBuffer[1].msg \in 1..MaxMessages
        BY <3>0, ByteFields
      <4>6. handled' \in Seq(1..MaxMessages)
        BY <1>0, <3>3, <4>5, AppendProperties
      <4>7. Len(b) < HeaderSize + BufferSize
        BY <1>0, <3>0, <4>3
      <4>8. Types'
        <5>1. pc' \in {"waiting", "parsing", "spinning"} /\ pc' # "waiting"
          BY <3>3
        <5> QED BY <1>0, <3>1, <3>2, <4>3, <4>4, <4>6, <4>7, <5>1 DEF Types, TypeOK
      <4>9. ASSUME sessions = 1
            PROVE  InOrder' /\ Flow(recvBuffer' \o wire', Len(handled'), sent')
        <5>1. PICK r \in Seq(Bytes) : r = rest
          BY <1>0, ConcatProperties
        <5>2. PICK h \in Nat : h = Len(handled) /\ DOMAIN handled = 1..h
          BY <1>0, LenProperties
        <5>3. Flow(r, h, sent) /\ InOrder
          BY <1>0, <4>9, <5>1, <5>2 DEF FirstSession
        <5>4. Aligned /\ l = recvBuffer[1].len
          BY <3>0, <4>9 DEF LengthField
        <5>5. PICK q \in Seq(Bytes) : q = b \o wire
          BY <1>0, <4>3, ConcatProperties
        <5>6. r = a \o q
          <6>1. (a \o b) \o wire = a \o (b \o wire)
            <7>1. PICK x \in Seq(Bytes), y \in Seq(Bytes) : x = a /\ y = b
              BY <4>3
            <7>2. (x \o y) \o wire = x \o (y \o wire)
              BY <1>6, <1>7, Zenon
            <7> QED BY <7>1, <7>2, Zenon
          <6> QED BY <4>3, <5>1, <5>5, <6>1, Zenon
        <5>7. /\ Len(r) = l + Len(q) /\ Len(q) \in Nat
              /\ \A i \in 1..Len(q) : q[i] = r[l + i]
          <6>1. PICK c \in Seq(Bytes) : c = a /\ Len(c) = l
            BY <4>3
          <6>2. r = c \o q
            BY <5>6, <6>1
          <6>3. /\ Len(r) = Len(c) + Len(q) /\ Len(q) \in Nat
                /\ \A i \in 1..Len(q) : r[Len(c) + i] = q[i]
            BY <6>2, Joined
          <6> QED BY <6>1, <6>3
        <5>8. r[1] = recvBuffer[1] /\ r # <<>>
          <6>1. 1 \in 1..Len(recvBuffer)
            BY <1>0, <3>0, LenProperties
          <6>2. r[1] = recvBuffer[1] /\ 1 \in DOMAIN r
            BY <1>0, <5>1, <6>1, Joined
          <6> QED BY <6>2
        <5>9. Flow(q, h + 1, sent)
          <6>1. sent \in Nat
            BY <1>0
          <6>2. PICK k \in Nat : k = l
            BY <3>0
          <6>3. PICK m \in Nat : m = Len(q)
            BY <5>7
          <6>4. Len(r) = k + m /\ k = r[1].len
            BY <5>4, <5>7, <5>8, <6>2, <6>3
          <6>5. k <= Len(r) /\ Len(q) = Len(r) - k
            BY <6>3, <6>4
          <6> QED BY <5>3, <5>7, <5>8, <6>1, <6>2, <6>4, <6>5, FlowErase
        <5>10. handled' = Append(handled, h + 1)
          <6>1. r[1].msg = h + 1
            BY <5>3, <5>8 DEF Flow
          <6> QED BY <3>3, <5>4, <5>8, <6>1
        <5>11. Len(handled') = h + 1 /\ InOrder'
          <6>1. h + 1 \in 1..MaxMessages
            BY <4>5, <5>3, <5>8 DEF Flow
          <6>2. /\ Len(handled') = h + 1 /\ DOMAIN handled' = 1..(h + 1)
                /\ \A i \in 1..h : handled'[i] = handled[i]
                /\ handled'[h + 1] = h + 1
            BY <1>0, <4>6, <5>2, <5>10, <6>1, AppendProperties, LenProperties
          <6>3. \A i \in 1..(h + 1) : i \in 1..h \/ i = h + 1
            OBVIOUS
          <6> QED BY <5>2, <5>3, <6>2, <6>3 DEF InOrder
        <5> QED BY <3>1, <4>4, <5>5, <5>9, <5>11
      <4> QED BY <1>0, <3>1, <3>2, <4>8, <4>9 DEF Inv, FirstSession
    <3>4. ASSUME pc' = "spinning", UNCHANGED <<recvBuffer, handled>> PROVE Inv'
      <4>1. Types'
        BY <1>0, <3>1, <3>2, <3>4 DEF Types, TypeOK
      <4>2. FirstSession'
        BY <1>0, <3>1, <3>2, <3>4 DEF FirstSession, InOrder
      <4> QED BY <4>1, <4>2 DEF Inv
    <3> QED BY <2>2, <3>3, <3>4 DEF Iterate
  <2> QED BY <1>3, <2>1, <2>2 DEF Parse
<1>4. CASE Reconnect
  <2>1. /\ pc = "waiting" /\ wire' = <<>> /\ sessions' \in 1..MaxSessions /\ sessions' # 1
        /\ UNCHANGED <<recvBuffer, pc, sent, handled, corrupt>>
    BY <1>0, <1>4 DEF Reconnect
  <2>2. wire' \in Seq(Bytes)
    BY <2>1, EmptySeq
  <2>3. Types'
    BY <1>0, <2>1, <2>2 DEF Types, TypeOK
  <2> QED BY <2>1, <2>3 DEF Inv, FirstSession
<1>5. CASE UNCHANGED vars
  BY <1>0, <1>5 DEF vars, Inv, Types, TypeOK, FirstSession, InOrder
<1> QED BY <1>1, <1>2, <1>3, <1>4, <1>5 DEF Next, Read

LEMMA Invariance == Spec => []Inv
BY Initial, Step, PTL DEF Spec

(* The buffers hold bytes, recvBuffer never more than a read beyond what   *)
(* is no header, and the rest keeps the types that TypeOK gives it.        *)
THEOREM TypeCorrect == Spec => []TypeOK
<1>1. Inv => TypeOK
  BY DEF Inv, Types
<1> QED BY <1>1, Invariance, PTL

(* Until the first reconnection handlePackets() gives every message to its *)
(* handler, once and in order, however reads cut the bytes; those not yet  *)
(* handled are the messages that follow, whole.                            *)
THEOREM NothingLostCorrect == Spec => []NothingLost
<1>1. Inv => NothingLost
  <2> SUFFICES ASSUME Inv, sessions = 1 PROVE NothingLost
    BY DEF NothingLost
  <2>1. ~corrupt /\ InOrder /\ Flow(recvBuffer \o wire, Len(handled), sent)
    BY DEF Inv, FirstSession
  <2> QED BY <2>1 DEF Flow, InOrder, NothingLost, Last
<1> QED BY <1>1, Invariance, PTL

==============================================================================
