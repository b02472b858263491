------------------------- MODULE PluginManagerProofs -------------------------
(***************************************************************************)
(* Theorems about PluginManager, for any plugins, names and calls of       *)
(* Stop().                                                                 *)
(***************************************************************************)
EXTENDS PluginManager, SequenceTheorems, WellFoundedInduction, TLAPS

------------------------------------------------------------------------------
(* Lists                                                                   *)

LEMMA MinOf ==
  ASSUME NEW S \in SUBSET Nat, S # {}
  PROVE  Min(S) \in S
<1>1. PICK n \in S : \A m \in S : <<m, n>> \notin OpToRel(<, Nat)
  BY WFMin, NatLessThanWellFounded, Zenon
<1>2. ASSUME NEW m \in S PROVE ~(m < n)
  BY <1>1, Zenon DEF OpToRel
<1>3. \A k, m \in Nat : ~(m < k) => k <= m
  OBVIOUS
<1>4. \A m \in S : n <= m
  BY <1>2, <1>3
<1> QED BY <1>4, Zenon DEF Min

(* List.Remove() on a list without repetitions takes the plugin away and   *)
(* leaves the others as they were.                                         *)
LEMMA RemoveFirstList ==
  ASSUME NEW S, NEW s \in Seq(S), IsInjective(s), NEW e
  PROVE  /\ RemoveFirst(s, e) \in Seq(S)
         /\ IsInjective(RemoveFirst(s, e))
         /\ ToSet(RemoveFirst(s, e)) = ToSet(s) \ {e}
<1>1. PICK n \in Nat : n = Len(s) /\ DOMAIN s = 1..n
  BY LenProperties
<1>2. CASE ~ \E i \in 1..n : s[i] = e
  <2>1. RemoveFirst(s, e) = s
    BY <1>1, <1>2 DEF RemoveFirst
  <2>2. e \notin ToSet(s)
    BY <1>1, <1>2 DEF ToSet
  <2> QED BY <2>1, <2>2
<1>3. CASE \E i \in 1..n : s[i] = e
  <2> DEFINE I == {i \in 1..n : s[i] = e}
  <2>1. Min(I) \in I
    <3>1. I \in SUBSET Nat /\ I # {}
      BY <1>3
    <3> QED BY <3>1, MinOf, Zenon
  <2>2. PICK k \in 1..n : k = Min(I) /\ s[k] = e
    BY <2>1
  <2>3. RemoveFirst(s, e) = RemoveAt(s, k)
    BY <1>1, <1>3, <2>2 DEF RemoveFirst, SelectInSeq
  <2> HIDE DEF I
  <2>4. PICK a : a = SubSeq(s, 1, k - 1)
    OBVIOUS
  <2>5. PICK b : b = SubSeq(s, k + 1, n)
    OBVIOUS
  <2>6. /\ \A i \in 1..(k - 1) : i \in 1..n
        /\ \A i \in (k + 1)..n : i \in 1..n
        /\ k - 1 \in Nat /\ n - k \in Nat
    OBVIOUS
  <2>7. \A i \in 1..n : s[i] \in S
    BY <1>1, ElementOfSeq
  <2>8. /\ a \in Seq(S) /\ Len(a) = k - 1
        /\ \A i \in 1..(k - 1) : a[i] = s[i]
    BY <2>4, <2>6, <2>7
  <2>9. /\ b \in Seq(S) /\ Len(b) = n - k
        /\ \A i \in 1..(n - k) : b[i] = s[k + i]
    BY <2>5, <2>6, <2>7
  <2>10. PICK r : r = a \o b
    OBVIOUS
  <2>11. /\ r \in Seq(S) /\ Len(r) = n - 1 /\ DOMAIN r = 1..(n - 1)
         /\ \A i \in 1..(n - 1) : r[i] = IF i < k THEN s[i] ELSE s[i + 1]
    <3>1. /\ r \in Seq(S) /\ Len(r) = Len(a) + Len(b)
          /\ \A i \in 1..(Len(a) + Len(b)) :
               r[i] = IF i <= Len(a) THEN a[i] ELSE b[i - Len(a)]
      BY <2>8, <2>9, <2>10, ConcatProperties
    <3>2. (k - 1) + (n - k) = n - 1 /\ n - 1 \in Nat
      OBVIOUS
    <3>3. \A i \in 1..(n - 1) : i < k => i \in 1..(k - 1) /\ i <= k - 1
      OBVIOUS
    <3>4. \A i \in 1..(n - 1) :
            ~(i < k) => ~(i <= k - 1) /\ i - (k - 1) \in 1..(n - k) /\ k + (i - (k - 1)) = i + 1
      OBVIOUS
    <3>5. DOMAIN r = 1..(n - 1)
      BY <2>8, <2>9, <3>1, <3>2, LenProperties
    <3> QED BY <2>8, <2>9, <3>1, <3>2, <3>3, <3>4, <3>5
  <2>12. RemoveFirst(s, e) = r
    BY <1>1, <2>3, <2>4, <2>5, <2>10 DEF RemoveAt
  <2>13. \A i, j \in 1..n : s[i] = s[j] => i = j
    BY <1>1 DEF IsInjective
  <2>14. \A i \in 1..(n - 1) : i \in 1..n /\ i + 1 \in 1..n /\ (i < k \/ k < i + 1)
    OBVIOUS
  <2>15. IsInjective(r)
    <3> SUFFICES ASSUME NEW i \in 1..(n - 1), NEW j \in 1..(n - 1), r[i] = r[j] PROVE i = j
      BY <2>11 DEF IsInjective
    <3>1. CASE i < k /\ j < k
      BY <2>11, <2>13, <2>14, <3>1
    <3>2. CASE ~(i < k) /\ ~(j < k)
      <4>1. s[i + 1] = s[j + 1]
        BY <2>11, <3>2
      <4>2. i + 1 = j + 1
        BY <2>13, <2>14, <4>1
      <4> QED BY <4>2
    <3>3. CASE i < k /\ ~(j < k)
      <4>1. s[i] = s[j + 1]
        BY <2>11, <3>3
      <4>2. i = j + 1
        BY <2>13, <2>14, <4>1
      <4> QED BY <3>3, <4>2
    <3>4. CASE ~(i < k) /\ j < k
      <4>1. s[i + 1] = s[j]
        BY <2>11, <3>4
      <4>2. i + 1 = j
        BY <2>13, <2>14, <4>1
      <4> QED BY <3>4, <4>2
    <3> QED BY <3>1, <3>2, <3>3, <3>4
  <2>16. ASSUME NEW v \in ToSet(r) PROVE v \in ToSet(s) \ {e}
    <3>1. PICK i \in 1..(n - 1) : r[i] = v
      BY <2>11, <2>16 DEF ToSet
    <3>2. PICK j \in 1..n : s[j] = v /\ j # k
      BY <2>11, <2>14, <3>1
    <3> QED BY <1>1, <2>2, <2>13, <3>2 DEF ToSet
  <2>17. ASSUME NEW v \in ToSet(s) \ {e} PROVE v \in ToSet(r)
    <3>1. PICK j \in 1..n : s[j] = v
      BY <1>1, <2>17 DEF ToSet
    <3>2. j # k
      BY <2>2, <2>17, <3>1
    <3>3. CASE j < k
      <4>1. j \in 1..(n - 1)
        BY <3>3
      <4> QED BY <2>11, <3>1, <3>3, <4>1 DEF ToSet
    <3>4. CASE ~(j < k)
      <4>1. j - 1 \in 1..(n - 1) /\ ~(j - 1 < k) /\ (j - 1) + 1 = j
        BY <3>2, <3>4
      <4> QED BY <2>11, <3>1, <4>1 DEF ToSet
    <3> QED BY <3>3, <3>4
  <2> QED BY <2>11, <2>12, <2>15, <2>16, <2>17
<1> QED BY <1>2, <1>3

(* List.Add() of a plugin that is not in the list.                         *)
LEMMA AppendList ==
  ASSUME NEW S, NEW s \in Seq(S), IsInjective(s), NEW e \in S, e \notin ToSet(s)
  PROVE  /\ Append(s, e) \in Seq(S)
         /\ IsInjective(Append(s, e))
         /\ ToSet(Append(s, e)) = ToSet(s) \cup {e}
<1>1. PICK n \in Nat : n = Len(s) /\ DOMAIN s = 1..n
  BY LenProperties
<1>2. PICK r : r = Append(s, e)
  OBVIOUS
<1>3. /\ r \in Seq(S) /\ Len(r) = n + 1 /\ DOMAIN r = 1..(n + 1)
      /\ \A i \in 1..n : r[i] = s[i]
      /\ r[n + 1] = e
  BY <1>1, <1>2, AppendProperties
<1>4. \A i \in 1..(n + 1) : i \in 1..n \/ i = n + 1
  OBVIOUS
<1>5. n + 1 \in 1..(n + 1) /\ \A i \in 1..n : i \in 1..(n + 1)
  OBVIOUS
<1>6. \A i \in 1..n : s[i] # e
  BY <1>1 DEF ToSet
<1>7. IsInjective(r)
  BY <1>1, <1>3, <1>4, <1>6 DEF IsInjective
<1>8. ToSet(r) = ToSet(s) \cup {e}
  BY <1>1, <1>3, <1>4, <1>5 DEF ToSet
<1> QED BY <1>2, <1>3, <1>7, <1>8

(* Seq.tryFind() finds a plugin of the name when the list holds one.       *)
LEMMA FirstNamedIs ==
  ASSUME runningPlugins \in Seq(Plugins), NEW n, Named(runningPlugins, n) # {}
  PROVE  FirstNamed(n) \in ToSet(runningPlugins) /\ name[FirstNamed(n)] = n
<1>1. PICK l \in Nat : l = Len(runningPlugins) /\ DOMAIN runningPlugins = 1..l
  BY LenProperties
<1> DEFINE I == {i \in 1..l : name[runningPlugins[i]] = n}
<1>2. I # {}
  BY <1>1 DEF Named, ToSet
<1>3. Min(I) \in I
  <2>1. I \in SUBSET Nat
    OBVIOUS
  <2> QED BY <1>2, <2>1, MinOf, Zenon
<1>4. FirstNamed(n) = runningPlugins[Min(I)]
  BY <1>1, <1>2 DEF FirstNamed, SelectInSeq
<1> QED BY <1>1, <1>3, <1>4 DEF ToSet

------------------------------------------------------------------------------
(* The invariant                                                           *)

(* Only a plugin that was started and had a task is asked to stop; the end *)
(* of a task is awaited once it has ended.                                 *)
Started ==
  /\ TypeOK
  /\ \A p \in asked : task[p] \in {"running", "ended"}
  /\ \A p \in ending : task[p] = "ended"

(* When Stop() returns, the plugin it asked is off the list for good.      *)
ReturnedIsOff ==
  \A c \in Calls :
    calls[c].state = "returned" => calls[c].plugin \notin ToSet(runningPlugins)

(* So that it is not started again.                                        *)
CallsAsked == \A c \in Calls : calls[c].state # "none" => calls[c].plugin \in asked

CallsInv == ReturnedIsOff /\ CallsAsked

Inv == Started /\ ListedExactly /\ CallsInv

LEMMA Initial == Init => Inv
<1> SUFFICES ASSUME Init PROVE Inv
  OBVIOUS
<1>1. TypeOK
  BY DEF Init, TypeOK, NotCalled
<1>2. IsInjective(runningPlugins) /\ ToSet(runningPlugins) = {}
  BY DEF Init, IsInjective, ToSet
<1>3. Live = {} /\ {p \in Plugins : task[p] = "failed"} = {}
  BY DEF Init, Live
<1>4. CallsInv
  BY DEF Init, CallsInv, ReturnedIsOff, CallsAsked, NotCalled
<1> QED BY <1>1, <1>2, <1>3, <1>4 DEF Init, Inv, Started, ListedExactly

(* Some plugins of the list are asked to stop.                             *)
LEMMA TryStopKeeps ==
  ASSUME Inv, NEW ps \in Seq(Plugins), ToSet(ps) \subseteq ToSet(runningPlugins),
         NEW throws \in BOOLEAN, TryStop(ps, throws)
  PROVE  /\ UNCHANGED <<name, task, ending, subscribed>>
         /\ runningPlugins' \in Seq(Plugins)
         /\ asked' = asked \cup ToSet(ps) /\ asked' \subseteq Plugins /\ refused' \subseteq asked'
         /\ \A p \in asked' : task[p] \in {"running", "ended"}
         /\ ListedExactly'
         /\ ToSet(runningPlugins') \subseteq ToSet(runningPlugins)
<1>1. UNCHANGED <<name, task, ending, subscribed>> /\ asked' = asked \cup ToSet(ps)
  BY DEF TryStop, plugins
<1>2. /\ runningPlugins \in Seq(Plugins) /\ IsInjective(runningPlugins)
      /\ ToSet(runningPlugins) = Live \ refused
      /\ subscribed = Live \cup {p \in Plugins : task[p] = "failed"}
      /\ asked \subseteq Plugins /\ ending \subseteq Plugins /\ refused \subseteq asked
      /\ \A p \in asked : task[p] \in {"running", "ended"}
      /\ \A p \in ending : task[p] = "ended"
  BY DEF Inv, Started, TypeOK, ListedExactly
<1>3. \A p \in Live : p \in Plugins /\ task[p] \in {"running", "ended"}
  BY <1>2 DEF Live
<1>4. \A p \in asked' : p \in Plugins /\ task[p] \in {"running", "ended"}
  BY <1>1, <1>2, <1>3
<1>5. Live' = Live /\ {p \in Plugins : task[p] = "failed"}' = {p \in Plugins : task[p] = "failed"}
  BY <1>1 DEF Live
<1>6. CASE ~throws
  <2>1. UNCHANGED <<refused, runningPlugins>>
    BY <1>6 DEF TryStop
  <2> QED BY <1>1, <1>2, <1>4, <1>5, <2>1 DEF ListedExactly
<1>7. CASE throws
  <2>1. PICK q : q = Last(ps)
    OBVIOUS
  <2>2. ps # <<>> /\ refused' = refused \cup {q} /\ runningPlugins' = RemoveFirst(runningPlugins, q)
    BY <1>7, <2>1 DEF TryStop
  <2>3. q \in ToSet(ps)
    <3>1. Len(ps) \in Nat /\ Len(ps) # 0 /\ DOMAIN ps = 1..Len(ps)
      BY <2>2, LenProperties, EmptySeq
    <3>2. Len(ps) \in DOMAIN ps
      BY <3>1
    <3> QED BY <2>1, <3>2 DEF Last, ToSet
  <2>4. /\ runningPlugins' \in Seq(Plugins) /\ IsInjective(runningPlugins')
        /\ ToSet(runningPlugins') = ToSet(runningPlugins) \ {q}
    BY <1>2, <2>2, RemoveFirstList
  <2>5. ToSet(runningPlugins') = Live \ refused'
    BY <1>2, <2>2, <2>4
  <2>6. refused' \subseteq asked'
    BY <1>1, <1>2, <2>2, <2>3
  <2> QED BY <1>1, <1>2, <1>4, <1>5, <2>4, <2>5, <2>6 DEF ListedExactly
<1> QED BY <1>6, <1>7

LEMMA Step == Inv /\ [Next]_vars => Inv'
<1> SUFFICES ASSUME Inv, [Next]_vars PROVE Inv'
  OBVIOUS
<1>0. /\ Started /\ TypeOK /\ ListedExactly /\ CallsInv
      /\ runningPlugins \in Seq(Plugins) /\ IsInjective(runningPlugins)
      /\ ToSet(runningPlugins) = Live \ refused
      /\ subscribed = Live \cup {p \in Plugins : task[p] = "failed"}
      /\ task \in [Plugins -> {"none", "running", "ended", "failed"}]
      /\ asked \subseteq Plugins /\ ending \subseteq Plugins /\ refused \subseteq asked
      /\ \A p \in asked : task[p] \in {"running", "ended"}
      /\ \A p \in ending : task[p] = "ended"
      /\ subscribed \subseteq Plugins
  BY DEF Inv, Started, TypeOK, ListedExactly
<1>1. ASSUME NEW p \in Plugins, NEW n \in Names, Start(p, n) PROVE Inv'
  <2>1. PICK t \in {"running", "ended", "failed"} :
          /\ task' = [task EXCEPT ![p] = t]
          /\ ending' = IF t = "ended" THEN ending \cup {p} ELSE ending
          /\ runningPlugins' = IF t = "failed" THEN runningPlugins ELSE Append(runningPlugins, p)
    BY <1>1 DEF Start
  <2>2. /\ task[p] = "none" /\ name' = [name EXCEPT ![p] = n] /\ subscribed' = subscribed \cup {p}
        /\ UNCHANGED <<asked, refused, calls>>
    BY <1>1 DEF Start, stops
  <2>3. p \notin asked /\ p \notin ending /\ p \notin Live
    BY <1>0, <2>2 DEF Live
  <2>4. /\ runningPlugins' \in Seq(Plugins) /\ IsInjective(runningPlugins')
        /\ ToSet(runningPlugins') = IF t = "failed" THEN ToSet(runningPlugins)
                                                     ELSE ToSet(runningPlugins) \cup {p}
    BY <1>0, <2>1, <2>3, AppendList
  <2>5. \A q \in Plugins : task'[q] = IF q = p THEN t ELSE task[q]
    BY <1>0, <2>1
  <2>6. Live' = IF t = "failed" THEN Live ELSE Live \cup {p}
    BY <1>0, <2>1, <2>2, <2>5 DEF Live
  <2>7. ToSet(runningPlugins') = Live' \ refused'
    BY <1>0, <2>2, <2>3, <2>4, <2>6
  <2>8. subscribed' = Live' \cup {q \in Plugins : task'[q] = "failed"}
    BY <1>0, <2>2, <2>5, <2>6
  <2>9. Started'
    <3>1. name' \in [Plugins -> Names \cup {"none"}]
      BY <1>0, <2>2 DEF TypeOK
    <3>2. \A q \in asked' : task'[q] \in {"running", "ended"}
      BY <1>0, <2>2, <2>3, <2>5
    <3>3. \A q \in ending' : task'[q] = "ended"
      BY <1>0, <2>1, <2>3, <2>5
    <3> QED BY <1>0, <2>1, <2>2, <2>4, <3>1, <3>2, <3>3 DEF Started, TypeOK
  <2>10. CallsInv'
    BY <1>0, <2>2, <2>3, <2>4 DEF CallsInv, ReturnedIsOff, CallsAsked
  <2> QED BY <2>4, <2>7, <2>8, <2>9, <2>10 DEF Inv, ListedExactly
<1>2. ASSUME NEW p \in Plugins, TaskEnds(p) PROVE Inv'
  <2>1. /\ task[p] = "running" /\ task' = [task EXCEPT ![p] = "ended"]
        /\ ending' = ending \cup {p}
        /\ UNCHANGED <<name, subscribed, runningPlugins, asked, refused, calls>>
    BY <1>2 DEF TaskEnds, stops
  <2>2. \A q \in Plugins : task'[q] = IF q = p THEN "ended" ELSE task[q]
    BY <1>0, <2>1
  <2>3. Live' = Live
    BY <1>0, <2>1, <2>2 DEF Live
  <2>4. {q \in Plugins : task'[q] = "failed"} = {q \in Plugins : task[q] = "failed"}
    BY <2>1, <2>2
  <2>5. Started'
    BY <1>0, <2>1, <2>2 DEF Started, TypeOK
  <2>6. ListedExactly'
    BY <1>0, <2>1, <2>3, <2>4 DEF ListedExactly
  <2>7. CallsInv'
    BY <1>0, <2>1 DEF CallsInv, ReturnedIsOff, CallsAsked
  <2> QED BY <2>5, <2>6, <2>7 DEF Inv
<1>3. ASSUME NEW p \in Plugins, HandleEnd(p) PROVE Inv'
  <2>1. /\ p \in ending /\ ending' = ending \ {p} /\ subscribed' = subscribed \ {p}
        /\ runningPlugins' = RemoveFirst(runningPlugins, p)
        /\ UNCHANGED <<name, task, asked, refused, calls>>
    BY <1>3 DEF HandleEnd, stops
  <2>2. /\ runningPlugins' \in Seq(Plugins) /\ IsInjective(runningPlugins')
        /\ ToSet(runningPlugins') = ToSet(runningPlugins) \ {p}
    BY <1>0, <2>1, RemoveFirstList
  <2>3. Live' = Live \ {p} /\ task[p] = "ended"
    BY <1>0, <2>1 DEF Live
  <2>4. Started'
    BY <1>0, <2>1, <2>2 DEF Started, TypeOK
  <2>5. ListedExactly'
    BY <1>0, <2>1, <2>2, <2>3 DEF ListedExactly
  <2>6. CallsInv'
    BY <1>0, <2>1, <2>2 DEF CallsInv, ReturnedIsOff, CallsAsked
  <2> QED BY <2>4, <2>5, <2>6 DEF Inv
<1>4. ASSUME NEW ps \in Seq(Plugins), ToSet(ps) \subseteq ToSet(runningPlugins),
             NEW throws \in BOOLEAN, TryStop(ps, throws), calls' = calls
      PROVE  Inv'
  <2>1. /\ UNCHANGED <<name, task, ending, subscribed>>
        /\ runningPlugins' \in Seq(Plugins)
        /\ asked' = asked \cup ToSet(ps) /\ asked' \subseteq Plugins /\ refused' \subseteq asked'
        /\ \A p \in asked' : task[p] \in {"running", "ended"}
        /\ ListedExactly'
        /\ ToSet(runningPlugins') \subseteq ToSet(runningPlugins)
    BY <1>4, TryStopKeeps
  <2>2. Started'
    BY <1>0, <1>4, <2>1 DEF Started, TypeOK
  <2>3. CallsInv'
    BY <1>0, <1>4, <2>1 DEF CallsInv, ReturnedIsOff, CallsAsked
  <2> QED BY <2>1, <2>2, <2>3 DEF Inv
<1>5. ASSUME NEW n, Named(runningPlugins, n) # {}
      PROVE  /\ FirstNamed(n) \in Plugins /\ <<FirstNamed(n)>> \in Seq(Plugins)
             /\ ToSet(<<FirstNamed(n)>>) = {FirstNamed(n)}
             /\ FirstNamed(n) \in ToSet(runningPlugins) /\ name[FirstNamed(n)] = n
  <2>1. FirstNamed(n) \in ToSet(runningPlugins) /\ name[FirstNamed(n)] = n
    BY <1>0, <1>5, FirstNamedIs
  <2>2. PICK f \in Plugins : f = FirstNamed(n)
    BY <1>0, <2>1 DEF Live
  <2>3. <<f>> \in Seq(Plugins) /\ ToSet(<<f>>) = {f}
    BY DEF ToSet
  <2> QED BY <2>1, <2>2, <2>3
<1>6. ASSUME NEW n \in Names, SignalStop(n) PROVE Inv'
  BY <1>4, <1>5, <1>6 DEF SignalStop, TryStopPlugin
<1>7. ASSUME NEW n \in Names, NEW c \in Calls, Stop(c, n) PROVE Inv'
  <2>1. PICK f \in Plugins : f = FirstNamed(n) /\ f \in ToSet(runningPlugins) /\ name[f] = n
    BY <1>5, <1>7 DEF Stop
  <2>2. PICK throws \in BOOLEAN : TryStop(<<f>>, throws)
    BY <1>7, <2>1 DEF Stop, TryStopPlugin
  <2>3. <<f>> \in Seq(Plugins) /\ ToSet(<<f>>) = {f}
    BY <1>5, <1>7, <2>1 DEF Stop
  <2>4. /\ UNCHANGED <<name, task, ending, subscribed>>
        /\ runningPlugins' \in Seq(Plugins)
        /\ asked' = asked \cup {f} /\ asked' \subseteq Plugins /\ refused' \subseteq asked'
        /\ \A p \in asked' : task[p] \in {"running", "ended"}
        /\ ListedExactly'
        /\ ToSet(runningPlugins') \subseteq ToSet(runningPlugins)
    BY <2>1, <2>2, <2>3, TryStopKeeps
  <2>5. PICK r : r = [state |-> IF Named(runningPlugins', n) = {} THEN "returned" ELSE "waiting",
                      plugin |-> f]
    OBVIOUS
  <2>6. calls' = [calls EXCEPT ![c] = r]
    BY <1>7, <2>1, <2>5 DEF Stop
  <2>7. /\ r \in [state : {"waiting", "returned", "failed"}, plugin : Plugins] /\ r.plugin = f
        /\ r.state = "returned" => f \notin ToSet(runningPlugins')
    BY <2>1, <2>5 DEF Named
  <2>8. Started'
    BY <1>0, <2>4, <2>6, <2>7 DEF Started, TypeOK
  <2>9. CallsInv'
    <3>1. \A d \in Calls : calls'[d] = IF d = c THEN r ELSE calls[d]
      BY <1>0, <2>6 DEF TypeOK
    <3> QED BY <1>0, <2>4, <2>7, <3>1 DEF CallsInv, ReturnedIsOff, CallsAsked
  <2> QED BY <2>4, <2>8, <2>9 DEF Inv
<1>8. CASE SignalStopAll
  <2>1. CASE TryStop(runningPlugins, FALSE)
    BY <1>0, <1>4, <1>8, <2>1 DEF SignalStopAll
  <2>2. ASSUME NEW i \in DOMAIN runningPlugins, TryStop(SubSeq(runningPlugins, 1, i), TRUE)
        PROVE  Inv'
    <3>1. PICK s \in Seq(Plugins) : s = runningPlugins
      BY <1>0
    <3>2. PICK l \in Nat : DOMAIN s = 1..l
      BY LenProperties
    <3>3. \A j \in 1..i : j \in 1..l /\ s[j] \in Plugins
      BY <2>2, <3>1, <3>2, ElementOfSeq
    <3>4. PICK a : a = SubSeq(s, 1, i)
      OBVIOUS
    <3>5. a \in Seq(Plugins) /\ DOMAIN a = 1..i /\ \A j \in 1..i : a[j] = s[j]
      BY <2>2, <3>1, <3>2, <3>3, <3>4
    <3>6. ToSet(a) \subseteq ToSet(s)
      BY <3>2, <3>3, <3>5 DEF ToSet
    <3>7. TryStop(a, TRUE) /\ calls' = calls
      BY <1>8, <2>2, <3>1, <3>4 DEF SignalStopAll
    <3> QED BY <1>4, <3>1, <3>5, <3>6, <3>7
  <2> QED BY <1>8, <2>1, <2>2 DEF SignalStopAll
<1>9. ASSUME NEW c \in Calls, NEW state \in {"returned", "failed"}, Waiting(c),
             calls' = [calls EXCEPT ![c].state = state],
             UNCHANGED <<plugins, runningPlugins, stops>>,
             state = "returned" => Others(c) = {}
      PROVE  Inv'
  <2>1. PICK r \in [state : {"waiting", "returned", "failed"}, plugin : Plugins] :
          r = calls[c] /\ r.state = "waiting"
    BY <1>0, <1>9 DEF Waiting, TypeOK, NotCalled
  <2>2. PICK q : q = [r EXCEPT !.state = state]
    OBVIOUS
  <2>3. /\ q \in [state : {"waiting", "returned", "failed"}, plugin : Plugins]
        /\ q.state = state /\ q.plugin = r.plugin
    BY <2>2
  <2>4. calls' = [calls EXCEPT ![c] = q]
    BY <1>9, <2>1, <2>2
  <2>5. \A d \in Calls : calls'[d] = IF d = c THEN q ELSE calls[d]
    BY <1>0, <2>4 DEF TypeOK
  <2>6. UNCHANGED <<name, task, ending, subscribed, runningPlugins, asked, refused>>
    BY <1>9 DEF plugins, stops
  <2>7. Started'
    BY <1>0, <2>3, <2>4, <2>6 DEF Started, TypeOK
  <2>8. ListedExactly'
    BY <1>0, <2>6 DEF ListedExactly, Live
  <2>9. r.plugin \in asked
    BY <1>0, <2>1 DEF CallsInv, CallsAsked
  <2>10. state = "returned" => r.plugin \notin ToSet(runningPlugins)
    BY <1>9, <2>1 DEF Others, Named
  <2>11. CallsInv'
    BY <1>0, <2>3, <2>5, <2>6, <2>9, <2>10 DEF CallsInv, ReturnedIsOff, CallsAsked
  <2> QED BY <2>7, <2>8, <2>11 DEF Inv
<1>10. ASSUME NEW c \in Calls, Resume(c) PROVE Inv'
  BY <1>9, <1>10 DEF Resume
<1>11. ASSUME NEW c \in Calls, Cancel(c) PROVE Inv'
  BY <1>9, <1>11 DEF Cancel
<1>12. CASE UNCHANGED vars
  BY <1>0, <1>12 DEF vars, plugins, stops, Inv, Started, TypeOK, ListedExactly, Live, CallsInv, ReturnedIsOff, CallsAsked
<1> QED BY <1>1, <1>2, <1>3, <1>6, <1>7, <1>8, <1>10, <1>11, <1>12 DEF Next

LEMMA Invariance == Spec => []Inv
BY Initial, Step, PTL DEF Spec

(* The manager's list, its subscriptions, the plugins' tasks and the calls *)
(* of Stop() keep the types that TypeOK gives them.                        *)
THEOREM TypeCorrect == Spec => []TypeOK
<1>1. Inv => TypeOK
  BY DEF Inv, Started
<1> QED BY <1>1, Invariance, PTL

(* runningPlugins holds exactly the plugins whose end is to come and whose *)
(* Stop() did not throw, each once, and their status is subscribed to as   *)
(* long, whatever plugins do and whichever names they share.               *)
THEOREM ListedCorrect == Spec => []ListedExactly
<1>1. Inv => ListedExactly
  BY DEF Inv
<1> QED BY <1>1, Invariance, PTL

(* Stop() returns only when the plugin it asked is off the list, and it    *)
(* never comes back to it.                                                 *)
THEOREM ReturnsCorrect == Spec => []ReturnedIsOff
<1>1. Inv => ReturnedIsOff
  BY DEF Inv, CallsInv
<1> QED BY <1>1, Invariance, PTL

==============================================================================
