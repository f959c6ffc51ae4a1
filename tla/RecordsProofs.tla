--------------------------- MODULE RecordsProofs ----------------------------
(***************************************************************************)
(* The trade journal, the shadow book and the error events, for any number *)
(* of rows, processes, threads, plans and prices.  Each has an invariant   *)
(* of its own, since they share nothing but the last close: JInv, BInv and *)
(* EInv.  The first part is what has to be known of SumFunction.           *)
(***************************************************************************)
EXTENDS Records, SequenceTheorems, FiniteSetTheorems, WellFoundedInduction, TLAPS

----------------------------------------------------------------------------
(* Sums over the values of a function.                                     *)

Sum(f, S) == SumFunctionOnSet(f, S)

\* A set of naturals that holds zero and every successor of its members holds all.
LEMMA SetInduction ==
    ASSUME NEW S, S \subseteq Nat, 0 \in S, \A n \in S : n + 1 \in S
    PROVE  Nat \subseteq S
<1> DEFINE T == Nat \ S
           R == OpToRel(<, Nat)
<1>1. SUFFICES ASSUME T # {} PROVE FALSE
  OBVIOUS
<1>2. IsWellFoundedOn(R, Nat)
  BY NatLessThanWellFounded
<1>3. \A x, y \in Nat : y < x => <<y, x>> \in R
  BY DEF OpToRel
<1>4. PICK x \in T : \A y \in T : ~(<<y, x>> \in R)
  <2> HIDE DEF T, R
  <2>1. T \subseteq Nat
    BY DEF T
  <2> QED BY <1>1, <1>2, <2>1, WFMin
<1> HIDE DEF R
<1>5. x # 0 /\ x \in Nat /\ x - 1 \in Nat /\ x - 1 < x /\ x - 1 + 1 = x
  OBVIOUS
<1>6. x - 1 \in S
  BY <1>3, <1>4, <1>5
<1> QED BY <1>5, <1>6

\* What SumFunctionOnSet is, with the function in place of the operator.
LEMMA Unfold ==
    ASSUME NEW f, NEW S
    PROVE Sum(f, S) = LET iter[s \in SUBSET S] ==
        IF s = {} THEN 0
        ELSE LET x == CHOOSE y \in s : TRUE
             IN  f[x] + iter[s \ {x}]
    IN iter[S]
BY DEF Sum, SumFunctionOnSet, FoldFunctionOnSet, MapThenFoldSet

\* g sums f over every subset of U, whichever element is taken out first.
Sums(g, f, U) ==
  /\ g \in [SUBSET U -> Int]
  /\ g[{}] = 0
  /\ \A t \in SUBSET U : \A x \in t : g[t] = f[x] + g[t \ {x}]

\* By induction on the size: adding the two last elements in either order is the same.
LEMMA SumsExist ==
    ASSUME NEW U, IsFiniteSet(U), NEW f, \A x \in U : f[x] \in Int
    PROVE  \E g : Sums(g, f, U)
<1> DEFINE Upto(g, n) ==
      /\ g \in [SUBSET U -> Int]
      /\ g[{}] = 0
      /\ \A t \in SUBSET U : Cardinality(t) <= n => \A x \in t : g[t] = f[x] + g[t \ {x}]
    N == {n \in Nat : \E g : Upto(g, n)}
<1>1. \A t \in SUBSET U : IsFiniteSet(t) /\ Cardinality(t) \in Nat
  BY FS_Subset, FS_CardinalityType
<1>2. \A t \in SUBSET U : \A x \in t : Cardinality(t \ {x}) = Cardinality(t) - 1 /\ t \ {x} \in SUBSET U
  BY <1>1, FS_RemoveElement
<1>3. 0 \in N
  <2> DEFINE z == [t \in SUBSET U |-> 0]
  <2>1. \A t \in SUBSET U : Cardinality(t) <= 0 => t = {}
    BY <1>1, FS_EmptySet
  <2>2. Upto(z, 0)
    BY <2>1
  <2> QED BY <2>2
<1>4. \A n \in N : n + 1 \in N
  <2> TAKE n \in N
  <2>1. PICK g : Upto(g, n)
    OBVIOUS
  <2> DEFINE p(t) == CHOOSE x \in t : TRUE
             h == [t \in SUBSET U |-> IF Cardinality(t) <= n THEN g[t] ELSE f[p(t)] + g[t \ {p(t)}]]
  <2> HIDE DEF N
  <2>2. n \in Nat
    BY DEF N
  <2>3. \A t \in SUBSET U : t # {} => p(t) \in t /\ p(t) \in U /\ f[p(t)] \in Int
    OBVIOUS
  <2>4. \A t \in SUBSET U : ~(Cardinality(t) <= n) => t # {}
    BY <2>2, <1>1, FS_EmptySet
  <2> HIDE DEF p
  <2>5. h \in [SUBSET U -> Int]
    <3> SUFFICES ASSUME NEW t \in SUBSET U PROVE h[t] \in Int
      OBVIOUS
    <3>1. CASE Cardinality(t) <= n
      BY <2>1, <3>1
    <3>2. CASE ~(Cardinality(t) <= n)
      <4>1. p(t) \in t /\ f[p(t)] \in Int
        BY <2>3, <2>4, <3>2
      <4>2. g[t \ {p(t)}] \in Int
        BY <2>1
      <4> QED BY <3>2, <4>1, <4>2
    <3> QED BY <3>1, <3>2
  <2>6. h[{}] = 0
    BY <2>1, <2>2, FS_EmptySet
  <2>7. ASSUME NEW t \in SUBSET U, Cardinality(t) <= n + 1, NEW x \in t
        PROVE  h[t] = f[x] + h[t \ {x}]
    <3>1. Cardinality(t \ {x}) <= n /\ t \ {x} \in SUBSET U
      BY <1>1, <1>2, <2>7, <2>2
    <3>2. h[t \ {x}] = g[t \ {x}]
      BY <3>1
    <3>3. CASE Cardinality(t) <= n
      BY <2>1, <3>2, <3>3
    <3>4. CASE ~(Cardinality(t) <= n)
      <4> DEFINE q == p(t)
      <4>1. h[t] = f[q] + g[t \ {q}] /\ q \in t
        BY <2>3, <2>4, <3>4
      <4>2. CASE q = x
        BY <4>1, <4>2, <3>2
      <4>3. CASE q # x
        <5> DEFINE a == t \ {q}
                   b == t \ {x}
                   c == t \ {q, x}
        <5>1. a \in SUBSET U /\ Cardinality(a) <= n /\ x \in a /\ a \ {x} = c
          BY <4>1, <4>3, <1>1, <1>2, <2>7, <2>2
        <5>2. b \in SUBSET U /\ Cardinality(b) <= n /\ q \in b /\ b \ {q} = c
          BY <4>1, <4>3, <1>1, <1>2, <2>7, <2>2
        <5>3. g[a] = f[x] + g[c] /\ g[b] = f[q] + g[c]
          <6>1. \A s \in SUBSET U : Cardinality(s) <= n => \A y \in s : g[s] = f[y] + g[s \ {y}]
            BY <2>1
          <6> HIDE DEF a, b, c, q
          <6>2. g[a] = f[x] + g[a \ {x}]
            BY <6>1, <5>1
          <6>3. g[b] = f[q] + g[b \ {q}]
            BY <6>1, <5>2
          <6> QED BY <5>1, <5>2, <6>2, <6>3
        <5>4. f[x] \in Int /\ f[q] \in Int /\ g[c] \in Int
          BY <4>1, <2>1
        <5> QED BY <5>3, <5>4, <4>1, <3>2
      <4> QED BY <4>2, <4>3
    <3> QED BY <3>3, <3>4
  <2>8. Upto(h, n + 1)
    BY <2>5, <2>6, <2>7
  <2>9. n + 1 \in Nat /\ \E k : Upto(k, n + 1)
    <3> HIDE DEF h, Upto
    <3> QED BY <2>2, <2>8
  <2> QED BY <2>9 DEF N
<1>5. PICK g : Upto(g, Cardinality(U))
  <2>1. Nat \subseteq N
    <3> HIDE DEF N
    <3>1. N \subseteq Nat
      BY DEF N
    <3> QED BY <1>3, <1>4, <3>1, SetInduction
  <2>2. Cardinality(U) \in Nat
    BY <1>1
  <2> HIDE DEF Upto
  <2> QED BY <2>1, <2>2
<1>6. \A t \in SUBSET U : Cardinality(t) <= Cardinality(U)
  BY FS_Subset
<1> QED BY <1>5, <1>6 DEF Sums

\* A set that holds t as soon as it holds t without any one element holds all of U's subsets.
LEMMA SetsInduction ==
    ASSUME NEW U, IsFiniteSet(U), NEW P,
           \A t \in SUBSET U : (\A x \in t : t \ {x} \in P) => t \in P
    PROVE  \A t \in SUBSET U : t \in P
<1> DEFINE N == {n \in Nat : \A t \in SUBSET U : Cardinality(t) = n => t \in P}
<1>1. \A t \in SUBSET U : IsFiniteSet(t) /\ Cardinality(t) \in Nat
  BY FS_Subset, FS_CardinalityType
<1>2. 0 \in N
  BY <1>1, FS_EmptySet
<1>3. \A n \in N : n + 1 \in N
  <2> TAKE n \in N
  <2> SUFFICES ASSUME NEW t \in SUBSET U, Cardinality(t) = n + 1 PROVE t \in P
    OBVIOUS
  <2>1. ASSUME NEW x \in t PROVE t \ {x} \in P
    <3>1. Cardinality(t \ {x}) = n
      BY <1>1, FS_RemoveElement
    <3> QED BY <3>1
  <2> QED BY <2>1
<1>4. Nat \subseteq N
  <2> HIDE DEF N
  <2>1. N \subseteq Nat
    BY DEF N
  <2> QED BY <1>2, <1>3, <2>1, SetInduction
<1> QED BY <1>1, <1>4

\* The fold chooses the elements in some order; it finds the same sum.
LEMMA SumIs ==
    ASSUME NEW U, IsFiniteSet(U), NEW f, NEW g, Sums(g, f, U), NEW S \in SUBSET U
    PROVE  Sum(f, S) = g[S]
<1> DEFINE p(s) == CHOOSE y \in s : TRUE
           Fold(h) == h = [s \in SUBSET S |-> IF s = {} THEN 0 ELSE f[p(s)] + h[s \ {p(s)}]]
           iter == CHOOSE h : Fold(h)
<1>1. Sum(f, S) = iter[S]
  BY Unfold
<1>2. \A s \in SUBSET S : s # {} => p(s) \in s
  OBVIOUS
<1> HIDE DEF p
<1>3. Fold([s \in SUBSET S |-> g[s]])
  <2> SUFFICES ASSUME NEW s \in SUBSET S
               PROVE  g[s] = IF s = {} THEN 0 ELSE f[p(s)] + g[s \ {p(s)}]
    BY <1>2
  <2> QED BY <1>2 DEF Sums
<1>4. Fold(iter)
  <2> HIDE DEF Fold
  <2> QED BY <1>3
<1> HIDE DEF iter
<1> DEFINE P == {s \in SUBSET S : iter[s] = g[s]}
<1>5. {} \in P
  BY <1>4 DEF Sums
<1>6. \A t \in SUBSET S : (\A x \in t : t \ {x} \in P) => t \in P
  <2> SUFFICES ASSUME NEW t \in SUBSET S, t # {}, \A x \in t : t \ {x} \in P PROVE t \in P
    BY <1>5
  <2>1. p(t) \in t /\ t \in SUBSET U
    BY <1>2
  <2>2. iter[t] = f[p(t)] + iter[t \ {p(t)}]
    BY <1>4
  <2>3. g[t] = f[p(t)] + g[t \ {p(t)}]
    BY <2>1 DEF Sums
  <2> QED BY <2>1, <2>2, <2>3
<1>7. S \in P
  <2>1. IsFiniteSet(S)
    BY FS_Subset
  <2> HIDE DEF P
  <2> QED BY <1>6, <2>1, SetsInduction
<1> QED BY <1>1, <1>7

\* A sum is an element's value and the sum of the rest.
LEMMA SumTakes ==
    ASSUME NEW S, IsFiniteSet(S), NEW f, \A c \in S : f[c] \in Int
    PROVE  /\ Sum(f, {}) = 0
           /\ Sum(f, S) \in Int
           /\ \A x \in S : Sum(f, S) = f[x] + Sum(f, S \ {x})
<1>1. PICK g : Sums(g, f, S)
  BY SumsExist
<1>2. \A t \in SUBSET S : Sum(f, t) = g[t]
  BY <1>1, SumIs
<1>3. g \in [SUBSET S -> Int] /\ g[{}] = 0 /\ \A x \in S : g[S] = f[x] + g[S \ {x}]
  BY <1>1 DEF Sums
<1>4. Sum(f, {}) = 0
  BY <1>2, <1>3
<1>5. Sum(f, S) \in Int
  BY <1>2, <1>3
<1>6. \A x \in S : Sum(f, S) = f[x] + Sum(f, S \ {x})
  BY <1>2, <1>3
<1> QED BY <1>4, <1>5, <1>6

LEMMA SumAdds ==
    ASSUME NEW S, IsFiniteSet(S), NEW f, NEW x, x \notin S, f[x] \in Int, \A c \in S : f[c] \in Int
    PROVE  Sum(f, S \cup {x}) = f[x] + Sum(f, S)
<1>1. IsFiniteSet(S \cup {x})
  BY FS_AddElement
<1>2. (S \cup {x}) \ {x} = S
  OBVIOUS
<1>3. \A c \in S \cup {x} : f[c] \in Int
  OBVIOUS
<1> QED BY <1>1, <1>2, <1>3, SumTakes

----------------------------------------------------------------------------
(* The trade journal.                                                      *)

Alerts == [trade : Nat, kind : {"stop_hit", "target_hit", "approaching_stop", "time_stop"}]

Checks == [at : {"over", "look", "send"}, todo : SUBSET Nat, alerts : Seq(Alerts),
           found : Seq(Alerts), told : SUBSET Nat]

TradeRows == [plan : Plans, held : 0..MaxHold, exit : Prices \union {Open}, pnl : Int]

\* The alert is still to be sent, and none before it ends the run.
Pending(alert, alerts) ==
    \E k \in DOMAIN alerts : alerts[k] = alert /\ \A j \in 1..k - 1 : ~Raises(alerts[j])

\* Each trade found at its target is told of, or will be, or comes after one that
\* ends the run ...
Accounted(alerts, found, told) ==
    \A n \in DOMAIN found : found[n].kind = "target_hit" =>
      \/ found[n].trade \in told
      \/ \E m \in 1..n - 1 : Raises(found[m])
      \/ Pending(found[n], alerts)

\* ... and what will end the run was found.
RaisesFound(alerts, found) ==
    (\E k \in DOMAIN alerts : Raises(alerts[k])) => \E m \in DOMAIN found : Raises(found[m])

InTable(alerts, ids) == \A k \in DOMAIN alerts : alerts[k].trade \in ids

Sound(c, ids) ==
    /\ c.todo \union c.told \subseteq ids
    /\ InTable(c.alerts, ids)
    /\ c.at = "over" => c.alerts = <<>>
    /\ c.at = "send" => c.alerts # <<>>
    /\ RaisesFound(c.alerts, c.found)
    /\ Accounted(c.alerts, c.found, c.told)

JInv ==
    /\ quote \in Prices
    /\ trades \in Seq(TradeRows)
    /\ check \in [Checkers -> Checks]
    /\ \A p \in Checkers : Sound(check[p], DOMAIN trades)

LEMMA PnlIsInt == ASSUME NEW plan \in Plans, NEW price \in Prices PROVE Pnl(plan, price) \in Int
<1>1. plan.entry \in Int /\ price \in Int
  BY MarketPlans, MarketPrices
<1> QED BY <1>1 DEF Pnl

\* An alert with a price is the newest of both lists.
LEMMA FoundIsAccounted ==
    ASSUME NEW alerts \in Seq(Alerts), NEW found \in Seq(Alerts), NEW told, NEW a \in Alerts,
           RaisesFound(alerts, found), Accounted(alerts, found, told)
    PROVE  /\ RaisesFound(Append(alerts, a), Append(found, a))
           /\ Accounted(Append(alerts, a), Append(found, a), told)
<1> DEFINE al == Append(alerts, a)
           fo == Append(found, a)
<1>1. /\ Len(alerts) \in Nat /\ DOMAIN alerts = 1..Len(alerts)
      /\ Len(found) \in Nat /\ DOMAIN found = 1..Len(found)
  BY LenProperties
<1>2. /\ al \in Seq(Alerts) /\ Len(al) = Len(alerts) + 1 /\ al[Len(alerts) + 1] = a
      /\ \A k \in 1..Len(alerts) : al[k] = alerts[k]
      /\ fo \in Seq(Alerts) /\ Len(fo) = Len(found) + 1 /\ fo[Len(found) + 1] = a
      /\ \A n \in 1..Len(found) : fo[n] = found[n]
  BY AppendProperties
<1>3. DOMAIN al = 1..Len(alerts) + 1 /\ DOMAIN fo = 1..Len(found) + 1
  BY <1>2, LenProperties
<1> HIDE DEF al, fo
<1>4. RaisesFound(al, fo)
  <2> SUFFICES ASSUME NEW k \in DOMAIN al, Raises(al[k])
               PROVE  \E m \in DOMAIN fo : Raises(fo[m])
    BY DEF RaisesFound
  <2>1. CASE k \in 1..Len(alerts)
    <3>1. PICK m \in DOMAIN found : Raises(found[m])
      BY <1>1, <1>2, <2>1 DEF RaisesFound
    <3> QED BY <1>1, <1>2, <1>3, <3>1
  <2>2. CASE k = Len(alerts) + 1
    BY <1>1, <1>2, <1>3, <2>2
  <2> QED BY <1>1, <1>3, <2>1, <2>2
<1>5. Accounted(al, fo, told)
  <2> SUFFICES ASSUME NEW n \in DOMAIN fo, fo[n].kind = "target_hit", fo[n].trade \notin told,
                      \A m \in 1..n - 1 : ~Raises(fo[m])
               PROVE  Pending(fo[n], al)
    BY DEF Accounted
  <2>1. CASE n \in 1..Len(found)
    <3>1. fo[n] = found[n] /\ \A m \in 1..n - 1 : fo[m] = found[m]
      BY <1>1, <1>2, <2>1
    <3>2. Pending(found[n], alerts)
      BY <1>1, <2>1, <3>1 DEF Accounted
    <3>3. PICK k \in DOMAIN alerts : alerts[k] = found[n] /\ \A j \in 1..k - 1 : ~Raises(alerts[j])
      BY <3>2 DEF Pending
    <3>4. k \in DOMAIN al /\ al[k] = fo[n] /\ \A j \in 1..k - 1 : al[j] = alerts[j]
      BY <1>1, <1>2, <1>3, <3>1, <3>3
    <3> QED BY <3>3, <3>4 DEF Pending
  <2>2. CASE n = Len(found) + 1
    <3>1. \A m \in DOMAIN found : ~Raises(found[m])
      BY <1>1, <1>2, <2>2
    <3>2. \A j \in 1..Len(alerts) : ~Raises(al[j])
      BY <1>1, <1>2, <3>1 DEF RaisesFound
    <3>3. Len(alerts) + 1 \in DOMAIN al /\ al[Len(alerts) + 1] = fo[n]
          /\ Len(alerts) + 1 - 1 = Len(alerts)
      BY <1>1, <1>2, <1>3, <2>2
    <3> QED BY <3>2, <3>3 DEF Pending
  <2> QED BY <1>1, <1>3, <2>1, <2>2
<1> QED BY <1>4, <1>5 DEF al, fo

\* An alert that ends no run and has no price is the newest of its list.
LEMMA TimeStopIsAccounted ==
    ASSUME NEW alerts \in Seq(Alerts), NEW found \in Seq(Alerts), NEW told, NEW a \in Alerts,
           ~Raises(a), RaisesFound(alerts, found), Accounted(alerts, found, told)
    PROVE  RaisesFound(Append(alerts, a), found) /\ Accounted(Append(alerts, a), found, told)
<1> DEFINE al == Append(alerts, a)
<1>1. Len(alerts) \in Nat /\ DOMAIN alerts = 1..Len(alerts)
  BY LenProperties
<1>2. /\ al \in Seq(Alerts) /\ Len(al) = Len(alerts) + 1 /\ al[Len(alerts) + 1] = a
      /\ \A k \in 1..Len(alerts) : al[k] = alerts[k]
  BY AppendProperties
<1>3. DOMAIN al = 1..Len(alerts) + 1
  BY <1>2, LenProperties
<1> HIDE DEF al
<1>4. RaisesFound(al, found)
  <2>1. \A k \in DOMAIN al : Raises(al[k]) => k \in DOMAIN alerts /\ Raises(alerts[k])
    BY <1>1, <1>2, <1>3
  <2> QED BY <2>1 DEF RaisesFound
<1>5. ASSUME NEW b, Pending(b, alerts) PROVE Pending(b, al)
  <2>1. PICK k \in DOMAIN alerts : alerts[k] = b /\ \A j \in 1..k - 1 : ~Raises(alerts[j])
    BY <1>5 DEF Pending
  <2>2. k \in DOMAIN al /\ al[k] = b /\ \A j \in 1..k - 1 : al[j] = alerts[j]
    BY <1>1, <1>2, <1>3, <2>1
  <2> QED BY <2>1, <2>2 DEF Pending
<1>6. Accounted(al, found, told)
  BY <1>5 DEF Accounted
<1> QED BY <1>4, <1>6 DEF al

LEMMA InTableAppend ==
    ASSUME NEW alerts \in Seq(Alerts), NEW ids, NEW a \in Alerts, InTable(alerts, ids), a.trade \in ids
    PROVE  InTable(Append(alerts, a), ids)
<1> DEFINE al == Append(alerts, a)
<1>1. Len(alerts) \in Nat /\ DOMAIN alerts = 1..Len(alerts)
  BY LenProperties
<1>2. /\ al \in Seq(Alerts) /\ Len(al) = Len(alerts) + 1 /\ al[Len(alerts) + 1] = a
      /\ \A k \in 1..Len(alerts) : al[k] = alerts[k]
  BY AppendProperties
<1>3. DOMAIN al = 1..Len(alerts) + 1
  BY <1>2, LenProperties
<1> HIDE DEF al
<1>4. InTable(al, ids)
  BY <1>1, <1>2, <1>3 DEF InTable
<1> QED BY <1>4 DEF al

\* What looking at one trade adds to the lists.
LEMMA LooksAreAccounted ==
    ASSUME JInv, NEW i \in DOMAIN trades, NEW ids, i \in ids,
           NEW alerts \in Seq(Alerts), NEW found \in Seq(Alerts), NEW told,
           RaisesFound(alerts, found), Accounted(alerts, found, told), InTable(alerts, ids)
    PROVE  /\ alerts \o AlertsFor(i) \in Seq(Alerts) /\ found \o PriceAlert(i) \in Seq(Alerts)
           /\ RaisesFound(alerts \o AlertsFor(i), found \o PriceAlert(i))
           /\ Accounted(alerts \o AlertsFor(i), found \o PriceAlert(i), told)
           /\ InTable(alerts \o AlertsFor(i), ids)
<1> DEFINE kind == AlertOn(trades[i].plan, quote)
           a == [trade |-> i, kind |-> kind]
           b == [trade |-> i, kind |-> "time_stop"]
<1>1. i \in Nat
  BY LenProperties DEF JInv
<1>2. kind \in {"stop_hit", "target_hit", "approaching_stop", "none"}
  BY DEF AlertOn
<1>3. b \in Alerts /\ ~Raises(b) /\ b.trade \in ids /\ (kind # "none" => a \in Alerts) /\ a.trade \in ids
  BY <1>1, <1>2 DEF Alerts, Raises
<1>4. /\ PriceAlert(i) = IF kind = "none" THEN <<>> ELSE <<a>>
      /\ TimeAlert(i) = <<>> \/ TimeAlert(i) = <<b>>
  BY DEF PriceAlert, TimeAlert
<1> HIDE DEF a, b, kind
<1>5. /\ PriceAlert(i) \in Seq(Alerts) /\ TimeAlert(i) \in Seq(Alerts)
      /\ alerts \o AlertsFor(i) = (alerts \o PriceAlert(i)) \o TimeAlert(i)
  <2>1. <<>> \in Seq(Alerts) /\ (a \in Alerts => <<a>> \in Seq(Alerts)) /\ <<b>> \in Seq(Alerts)
    BY <1>3
  <2>2. PriceAlert(i) \in Seq(Alerts) /\ TimeAlert(i) \in Seq(Alerts)
    BY <1>3, <1>4, <2>1
  <2> QED BY <2>2, ConcatAssociative DEF AlertsFor
<1> DEFINE al == alerts \o PriceAlert(i)
           fo == found \o PriceAlert(i)
<1>6. /\ al \in Seq(Alerts) /\ fo \in Seq(Alerts) /\ RaisesFound(al, fo) /\ Accounted(al, fo, told)
      /\ InTable(al, ids)
  <2>1. CASE kind = "none"
    <3>1. al = alerts /\ fo = found
      BY <1>4, <2>1, ConcatEmptySeq
    <3> QED BY <3>1
  <2>2. CASE kind # "none"
    <3>1. a \in Alerts /\ al = Append(alerts, a) /\ fo = Append(found, a)
      BY <1>3, <1>4, <2>2, AppendIsConcat
    <3>2. Append(alerts, a) \in Seq(Alerts) /\ Append(found, a) \in Seq(Alerts)
      BY <3>1, AppendProperties
    <3> HIDE DEF al, fo
    <3> QED BY <1>3, <3>1, <3>2, FoundIsAccounted, InTableAppend
  <2> QED BY <2>1, <2>2
<1> HIDE DEF al, fo
<1>7. CASE TimeAlert(i) = <<>>
  <2>1. al \o TimeAlert(i) = al
    BY <1>6, <1>7, ConcatEmptySeq
  <2> QED BY <1>5, <1>6, <2>1 DEF al, fo
<1>8. CASE TimeAlert(i) = <<b>>
  <2>1. al \o TimeAlert(i) = Append(al, b)
    BY <1>3, <1>6, <1>8, AppendIsConcat
  <2>2. /\ Append(al, b) \in Seq(Alerts) /\ RaisesFound(Append(al, b), fo)
        /\ Accounted(Append(al, b), fo, told) /\ InTable(Append(al, b), ids)
    BY <1>3, <1>6, AppendProperties, TimeStopIsAccounted, InTableAppend
  <2> QED BY <1>5, <1>6, <2>1, <2>2 DEF al, fo
<1> QED BY <1>4, <1>7, <1>8

\* The first alert is sent, or ends the run.
LEMMA SendIsAccounted ==
    ASSUME NEW c \in Checks, NEW ids, Sound(c, ids), c.at = "send",
           NEW d \in Checks, d.found = c.found, d.todo = c.todo,
           d.told = IF Head(c.alerts).kind = "target_hit" THEN c.told \union {Head(c.alerts).trade}
                    ELSE c.told,
           d.alerts = IF Raises(Head(c.alerts)) THEN <<>> ELSE Tail(c.alerts),
           d.at = IF Raises(Head(c.alerts)) \/ Len(c.alerts) = 1 THEN "over" ELSE "send"
    PROVE  Sound(d, ids)
<1> DEFINE s == c.alerts
           a == Head(s)
<1>1. s \in Seq(Alerts) /\ s # <<>> /\ c.found \in Seq(Alerts) /\ d.alerts \in Seq(Alerts)
  BY DEF Sound, Checks
<1>2. /\ a = s[1] /\ Len(s) \in Nat /\ Len(s) > 0 /\ DOMAIN s = 1..Len(s)
      /\ Tail(s) \in Seq(Alerts) /\ Len(Tail(s)) = Len(s) - 1
      /\ DOMAIN Tail(s) = 1..Len(s) - 1 /\ \A k \in 1..Len(s) - 1 : Tail(s)[k] = s[k + 1]
  BY <1>1, HeadTailProperties, LenProperties
<1>3. InTable(s, ids) /\ RaisesFound(s, c.found) /\ Accounted(s, c.found, c.told)
      /\ c.todo \union c.told \subseteq ids
  BY DEF Sound
<1> HIDE DEF s, a
<1>4. a.trade \in ids
  BY <1>2, <1>3 DEF InTable
<1>5. InTable(Tail(s), ids) /\ RaisesFound(Tail(s), c.found)
  <2>1. \A k \in DOMAIN Tail(s) : k + 1 \in DOMAIN s /\ Tail(s)[k] = s[k + 1]
    BY <1>2
  <2> QED BY <1>3, <2>1 DEF InTable, RaisesFound
<1>6. InTable(<<>>, ids) /\ RaisesFound(<<>>, c.found)
  BY DEF InTable, RaisesFound
<1>7. Accounted(d.alerts, c.found, d.told)
  <2> SUFFICES ASSUME NEW n \in DOMAIN c.found, c.found[n].kind = "target_hit",
                      c.found[n].trade \notin d.told,
                      \A m \in 1..n - 1 : ~Raises(c.found[m])
               PROVE  Pending(c.found[n], d.alerts)
    BY DEF Accounted
  <2>1. c.found[n].trade \notin c.told
    BY DEF a, s
  <2>2. PICK k \in DOMAIN s : s[k] = c.found[n] /\ \A j \in 1..k - 1 : ~Raises(s[j])
    BY <1>3, <2>1 DEF Accounted, Pending
  <2>3. k # 1
    <3> SUFFICES ASSUME k = 1 PROVE FALSE
      OBVIOUS
    <3>1. a = c.found[n]
      BY <1>2, <2>2
    <3>2. d.told = c.told \union {a.trade}
      BY <3>1 DEF a, s
    <3> QED BY <3>1, <3>2
  <2>4. ~Raises(a)
    BY <1>2, <2>2, <2>3
  <2>5. d.alerts = Tail(s)
    BY <2>4 DEF a, s
  <2>6. k - 1 \in DOMAIN Tail(s) /\ Tail(s)[k - 1] = c.found[n]
    BY <1>2, <2>2, <2>3
  <2>7. \A j \in 1..(k - 1) - 1 : ~Raises(Tail(s)[j])
    BY <1>2, <2>2, <2>3
  <2> QED BY <2>5, <2>6, <2>7 DEF Pending
<1>8. /\ InTable(d.alerts, ids) /\ RaisesFound(d.alerts, d.found)
      /\ d.todo \union d.told \subseteq ids
  BY <1>3, <1>4, <1>5, <1>6 DEF a, s
<1>9. /\ d.at = "over" => d.alerts = <<>>
      /\ d.at = "send" => d.alerts # <<>>
  <2>1. Len(s) = 1 => Tail(s) = <<>>
    BY <1>2, EmptySeq
  <2>2. Len(s) # 1 => Tail(s) # <<>>
    BY <1>2, EmptySeq
  <2> QED BY <2>1, <2>2 DEF a, s
<1> QED BY <1>7, <1>8, <1>9 DEF Sound

LEMMA InitialJournal == Init => JInv
<1> SUFFICES ASSUME Init PROVE JInv
  OBVIOUS
<1>1. NoCheck \in Checks /\ \A ids : Sound(NoCheck, ids)
  BY DEF NoCheck, Checks, Sound, InTable, RaisesFound, Accounted
<1>2. check \in [Checkers -> Checks] /\ \A p \in Checkers : check[p] = NoCheck
  BY <1>1 DEF Init, JournalInit
<1> QED BY <1>1, <1>2 DEF Init, JournalInit, JInv

\* The table changes, and keeps its rows.
LEMMA TableKeeps ==
    ASSUME JInv, trades' \in Seq(TradeRows), DOMAIN trades \subseteq DOMAIN trades',
           quote' \in Prices, check' = check
    PROVE  JInv'
<1>1. \A p \in Checkers : Sound(check[p], DOMAIN trades')
  BY DEF JInv, Sound, InTable
<1> QED BY <1>1 DEF JInv

\* A run goes on.
LEMMA CheckKeeps ==
    ASSUME JInv, NEW p \in Checkers, NEW c \in Checks, Sound(c, DOMAIN trades),
           check' = [check EXCEPT ![p] = c], UNCHANGED <<quote, trades>>
    PROVE  JInv'
<1>1. check' \in [Checkers -> Checks] /\ check'[p] = c /\ \A o \in Checkers \ {p} : check'[o] = check[o]
  BY DEF JInv
<1>2. \A o \in Checkers : Sound(check'[o], DOMAIN trades)
  BY <1>1 DEF JInv
<1> QED BY <1>1, <1>2 DEF JInv

LEMMA RequestsKeep ==
    ASSUME JInv, \/ \E plan \in Plans : LogEntry(plan)
                 \/ \E i \in 1..MaxTrades, price \in Prices : LogExit(i, price)
                 \/ JournalDay \/ JournalQuote
    PROVE  JInv'
<1>1. /\ quote \in Prices /\ trades \in Seq(TradeRows) /\ DOMAIN trades = 1..Len(trades)
      /\ trades \in [1..Len(trades) -> TradeRows] /\ Len(trades) \in Nat
  BY LenProperties DEF JInv
<1>2. ASSUME NEW plan \in Plans, LogEntry(plan) PROVE JInv'
  <2> DEFINE row == [plan |-> plan, held |-> 0, exit |-> Open, pnl |-> 0]
  <2>1. row \in TradeRows
    BY JournalBounds DEF TradeRows
  <2>2. trades' = Append(trades, row) /\ quote' = quote /\ check' = check
    BY <1>2 DEF LogEntry
  <2> HIDE DEF row
  <2> QED BY <1>1, <2>1, <2>2, AppendProperties, TableKeeps
<1>3. ASSUME NEW i \in 1..MaxTrades, NEW price \in Prices, LogExit(i, price) PROVE JInv'
  <2> DEFINE row == [trades[i] EXCEPT !.exit = price, !.pnl = Pnl(trades[i].plan, price)]
  <2>1. i \in DOMAIN trades /\ trades[i] \in TradeRows /\ trades[i].plan \in Plans
    BY <1>1, <1>3 DEF LogExit, TradeRows
  <2>2. row \in TradeRows
    BY <2>1, PnlIsInt DEF TradeRows
  <2>3. trades' = [trades EXCEPT ![i] = row] /\ quote' = quote /\ check' = check
    BY <1>3, <2>1 DEF LogExit
  <2> HIDE DEF row
  <2> QED BY <1>1, <2>1, <2>2, <2>3, ExceptSeq, TableKeeps
<1>4. CASE JournalDay
  <2> DEFINE row(i) == [trades[i] EXCEPT !.held = IF @ < MaxHold THEN @ + 1 ELSE @]
  <2>1. ASSUME NEW i \in DOMAIN trades PROVE row(i) \in TradeRows
    <3> DEFINE held == IF trades[i].held < MaxHold THEN trades[i].held + 1 ELSE trades[i].held
    <3>1. trades[i] \in TradeRows /\ trades[i].held \in 0..MaxHold
      BY <1>1 DEF TradeRows
    <3>2. held \in 0..MaxHold
      BY <3>1, JournalBounds
    <3>3. row(i) = [trades[i] EXCEPT !.held = held]
      OBVIOUS
    <3> HIDE DEF held, row
    <3> QED BY <3>1, <3>2, <3>3 DEF TradeRows
  <2>2. trades' = [i \in DOMAIN trades |-> row(i)] /\ quote' = quote /\ check' = check
    BY <1>4 DEF JournalDay
  <2> HIDE DEF row
  <2> QED BY <1>1, <2>1, <2>2, TableKeeps
<1>5. CASE JournalQuote
  BY <1>1, <1>5, TableKeeps DEF JournalQuote, NewQuote
<1> QED BY <1>2, <1>3, <1>4, <1>5

LEMMA ChecksKeep ==
    ASSUME JInv, NEW p \in Checkers,
           \/ BeginCheck(p) \/ Look(p) \/ LookFails(p) \/ BeginSending(p) \/ Send(p)
           \/ RunDies(p)
    PROVE  JInv'
<1> DEFINE c == check[p]
<1>1. c \in Checks /\ Sound(c, DOMAIN trades) /\ check \in [Checkers -> Checks] /\ DOMAIN trades \subseteq Nat
  BY LenProperties DEF JInv
<1>2. UNCHANGED <<quote, trades>>
  BY DEF BeginCheck, Look, LookFails, BeginSending, Send, RunDies
<1>3. CASE BeginCheck(p)
  <2> DEFINE d == [NoCheck EXCEPT !.at = "look", !.todo = ActiveTrades]
  <2>1. ActiveTrades \subseteq DOMAIN trades
    BY DEF ActiveTrades
  <2>2. d \in Checks
    <3>1. ActiveTrades \in SUBSET Nat
      BY <1>1, <2>1
    <3>2. NoCheck \in Checks
      BY DEF NoCheck, Checks
    <3> QED BY <3>1, <3>2 DEF Checks
  <2>3. Sound(d, DOMAIN trades)
    BY <2>1 DEF NoCheck, Sound, InTable, RaisesFound, Accounted
  <2>4. check' = [check EXCEPT ![p] = d]
    BY <1>3 DEF BeginCheck
  <2> HIDE DEF d
  <2> QED BY <1>2, <2>2, <2>3, <2>4, CheckKeeps
<1>4. CASE Look(p)
  <2>1. PICK i \in c.todo :
          check' = [check EXCEPT ![p].todo = @ \ {i},
                                 ![p].alerts = @ \o AlertsFor(i),
                                 ![p].found = @ \o PriceAlert(i)]
    BY <1>4 DEF Look
  <2> DEFINE d == [c EXCEPT !.todo = @ \ {i}, !.alerts = @ \o AlertsFor(i),
                            !.found = @ \o PriceAlert(i)]
  <2>2. check' = [check EXCEPT ![p] = d] /\ c.at = "look"
    BY <1>1, <1>4, <2>1 DEF Look
  <2>3. /\ c.alerts \in Seq(Alerts) /\ c.found \in Seq(Alerts) /\ c.todo \in SUBSET Nat
        /\ RaisesFound(c.alerts, c.found) /\ Accounted(c.alerts, c.found, c.told)
        /\ InTable(c.alerts, DOMAIN trades) /\ i \in DOMAIN trades
        /\ c.todo \union c.told \subseteq DOMAIN trades
    BY <1>1 DEF Checks, Sound
  <2>4. /\ c.alerts \o AlertsFor(i) \in Seq(Alerts) /\ c.found \o PriceAlert(i) \in Seq(Alerts)
        /\ RaisesFound(c.alerts \o AlertsFor(i), c.found \o PriceAlert(i))
        /\ Accounted(c.alerts \o AlertsFor(i), c.found \o PriceAlert(i), c.told)
        /\ InTable(c.alerts \o AlertsFor(i), DOMAIN trades)
    <3> HIDE DEF c
    <3> QED BY <2>3, LooksAreAccounted
  <2>5. d \in Checks
    BY <1>1, <2>3, <2>4 DEF Checks
  <2>6. /\ d.alerts = c.alerts \o AlertsFor(i) /\ d.found = c.found \o PriceAlert(i)
        /\ d.told = c.told /\ d.at = "look" /\ d.todo = c.todo \ {i}
    BY <1>1, <2>2 DEF Checks
  <2> HIDE DEF d, c
  <2>7. Sound(d, DOMAIN trades)
    BY <2>3, <2>4, <2>6 DEF Sound
  <2> QED BY <1>2, <2>2, <2>5, <2>7, CheckKeeps
<1>5. CASE LookFails(p)
  <2>1. PICK i \in c.todo : check' = [check EXCEPT ![p].todo = @ \ {i}]
    BY <1>5 DEF LookFails
  <2> DEFINE d == [c EXCEPT !.todo = @ \ {i}]
  <2>2. check' = [check EXCEPT ![p] = d] /\ d \in Checks
    BY <1>1, <2>1 DEF Checks
  <2>3. Sound(d, DOMAIN trades)
    BY <1>1 DEF Sound, Checks
  <2> HIDE DEF d
  <2> QED BY <1>2, <2>2, <2>3, CheckKeeps
<1>6. CASE BeginSending(p)
  <2> DEFINE d == [c EXCEPT !.at = IF c.alerts = <<>> THEN "over" ELSE "send"]
  <2>1. check' = [check EXCEPT ![p] = d] /\ d \in Checks
    BY <1>1, <1>6 DEF BeginSending, Checks
  <2>2. Sound(d, DOMAIN trades)
    BY <1>1 DEF Sound, Checks
  <2> HIDE DEF d
  <2> QED BY <1>2, <2>1, <2>2, CheckKeeps
<1>7. CASE Send(p)
  <2> DEFINE a == Head(c.alerts)
             told == IF a.kind = "target_hit" THEN c.told \union {a.trade} ELSE c.told
             alerts == IF Raises(a) THEN <<>> ELSE Tail(c.alerts)
             at == IF Raises(a) \/ Len(c.alerts) = 1 THEN "over" ELSE "send"
             d == [c EXCEPT !.told = told, !.alerts = alerts, !.at = at]
  <2>1. c.at = "send" /\ c.alerts # <<>> /\ c.alerts \in Seq(Alerts) /\ c.told \in SUBSET Nat
    BY <1>1, <1>7 DEF Send, Sound, Checks
  <2>2. a \in Alerts /\ Tail(c.alerts) \in Seq(Alerts)
    BY <2>1, HeadTailProperties
  <2>3. told \in SUBSET Nat /\ alerts \in Seq(Alerts) /\ at \in {"over", "send"}
    BY <2>1, <2>2 DEF Alerts
  <2>4. check' = [check EXCEPT ![p] = d]
    BY <1>1, <1>7 DEF Send
  <2>5. d \in Checks /\ d.found = c.found /\ d.todo = c.todo /\ d.told = told /\ d.alerts = alerts
        /\ d.at = at
    <3> HIDE DEF told, alerts, at
    <3> QED BY <1>1, <2>3 DEF Checks
  <2> HIDE DEF d, c
  <2>6. Sound(d, DOMAIN trades)
    BY <1>1, <2>1, <2>5, SendIsAccounted
  <2> QED BY <1>2, <2>4, <2>5, <2>6, CheckKeeps
<1>8. CASE RunDies(p)
  <2>1. NoCheck \in Checks
    BY DEF NoCheck, Checks
  <2>2. Sound(NoCheck, DOMAIN trades)
    BY DEF NoCheck, Sound, InTable, RaisesFound, Accounted
  <2> QED BY <1>2, <1>8, <2>1, <2>2, CheckKeeps DEF RunDies
<1> QED BY <1>3, <1>4, <1>5, <1>6, <1>7, <1>8

LEMMA JournalStep == JInv /\ [Next]_vars => JInv'
<1> SUFFICES ASSUME JInv, [Next]_vars PROVE JInv'
  OBVIOUS
<1>1. ASSUME quote' \in Prices, UNCHANGED <<trades, check>> PROVE JInv'
  BY <1>1, TableKeeps DEF JInv
<1>2. CASE BookNext /\ UNCHANGED journalVars
  <2>1. quote' = quote \/ quote' \in Prices
    BY <1>2 DEF BookNext, LogSignalsToShadowBook, LogSwingPicksToShadowBook, LogPhantom, BeginUpdate,
                PassOver, FindEnded, WriteOutcome, RunEnds, BookDay, BookQuote, NewQuote
  <2> QED BY <1>1, <1>2, <2>1 DEF journalVars, JInv
<1>3. CASE UNCHANGED <<quote, trades, check>>
  BY <1>1, <1>3 DEF JInv
<1>4. CASE JournalNext
  BY <1>4, RequestsKeep, ChecksKeep DEF JournalNext
<1> QED BY <1>2, <1>3, <1>4 DEF Next, vars, journalVars

----------------------------------------------------------------------------
(* The shadow book.                                                        *)

Exits == Prices \union {Unpriced}
Ages == 0..EvidenceDays + 1

Runs == [at : {"over", "look", "write"}, todo : SUBSET Nat, row : Nat, price : Exits]

Rows == [plan : Plans, regime : Regimes \union {NoRegime}, age : Ages, exit : Exits]

BookTyped ==
    /\ quote \in Prices /\ met \subseteq DOMAIN phantoms
    /\ phantoms \in Seq(Rows)
    /\ update \in [Updaters -> Runs]
    /\ \A p \in Updaters :
         /\ ToDo(p) \subseteq DOMAIN phantoms
         /\ update[p].at = "over" <=> ToDo(p) = {}
         /\ update[p].at = "write" => update[p].row \in ToDo(p)

\* A row is still open for the run that has it to do ...
StillOpen == \A p \in Updaters : \A i \in ToDo(p) \ met : ~Resolved(i)

\* ... because no other run has it to do, unless they met.
DoneByOne ==
    \A p, o \in Updaters : p # o => ToDo(p) \intersect ToDo(o) \subseteq met

BInv == BookTyped /\ StillOpen /\ DoneByOne

LEMMA RecordUpdate ==
    ASSUME NEW P, NEW R, NEW A, NEW E, NEW r \in [plan : P, regime : R, age : A, exit : E],
           NEW a \in A, NEW e \in E
    PROVE  /\ [r EXCEPT !.exit = e] \in [plan : P, regime : R, age : A, exit : E]
           /\ [r EXCEPT !.age = a] \in [plan : P, regime : R, age : A, exit : E]
           /\ [r EXCEPT !.exit = e].exit = e /\ [r EXCEPT !.age = a].exit = r.exit
  OBVIOUS

LEMMA RowFields ==
    ASSUME NEW r \in Rows
    PROVE  /\ \A e \in Exits : [r EXCEPT !.exit = e] \in Rows /\ [r EXCEPT !.exit = e].exit = e
           /\ \A a \in Ages : [r EXCEPT !.age = a] \in Rows /\ [r EXCEPT !.age = a].exit = r.exit
<1>1. 0 \in Ages /\ Unpriced \in Exits
  BY BookBounds DEF Ages, Exits
<1> QED BY <1>1, RecordUpdate DEF Rows

LEMMA RowAge == ASSUME NEW r \in Rows PROVE r.age \in Ages
  BY DEF Rows

LEMMA RowUpdate ==
    ASSUME NEW s \in Seq(Rows), NEW i \in DOMAIN s, NEW price \in Exits
    PROVE  LET r == [s EXCEPT ![i].exit = price]
           IN  /\ r \in Seq(Rows) /\ DOMAIN r = DOMAIN s /\ r[i].exit = price
               /\ \A j \in DOMAIN s \ {i} : r[j] = s[j]
<1> DEFINE v == [s[i] EXCEPT !.exit = price]
           r == [s EXCEPT ![i].exit = price]
<1>1. s[i] \in Rows /\ s \in [1..Len(s) -> Rows] /\ Len(s) \in Nat /\ DOMAIN s = 1..Len(s)
  OBVIOUS
<1>2. v \in Rows /\ v.exit = price
  <2>1. s[i] \in Rows /\ s[i].age \in Ages
    BY <1>1, RowAge
  <2> QED BY <2>1, RowFields
<1>3. r = [s EXCEPT ![i] = v]
  OBVIOUS
<1> HIDE DEF v, r
<1>4. r \in [1..Len(s) -> Rows] /\ r[i] = v /\ \A j \in DOMAIN s \ {i} : r[j] = s[j]
  BY <1>1, <1>2, <1>3
<1>5. r \in Seq(Rows)
  BY <1>1, <1>2, <1>3, ExceptSeq
<1>6. DOMAIN r = DOMAIN s
  BY <1>1, <1>4
<1> QED BY <1>2, <1>4, <1>5, <1>6 DEF r

LEMMA InitialBook == Init => BInv
<1> SUFFICES ASSUME Init PROVE BInv
  OBVIOUS
<1>1. quote \in Prices /\ phantoms = <<>> /\ met = {}
  BY DEF Init, BookInit
<1>2. NoUpdate \in Runs /\ NoUpdate.todo = {} /\ NoUpdate.at = "over"
  BY DEF NoUpdate, Runs, Unpriced, Exits
<1>3. update \in [Updaters -> Runs] /\ \A p \in Updaters : update[p] = NoUpdate
  BY <1>2 DEF Init, BookInit
<1> QED BY <1>1, <1>2, <1>3 DEF BInv, BookTyped, StillOpen, DoneByOne, ToDo

\* What is left of a run.
LEMMA OnwardFacts ==
    ASSUME BInv, NEW p \in Updaters, NEW i \in ToDo(p)
    PROVE  /\ Onward(p, i) \in Runs /\ Onward(p, i).todo = ToDo(p) \ {i}
           /\ Onward(p, i).at \in {"over", "look"}
           /\ Onward(p, i).at = "over" <=> ToDo(p) \ {i} = {}
<1>1. ToDo(p) \in SUBSET Nat /\ ToDo(p) \ {i} \in SUBSET Nat
  BY DEF BInv, BookTyped, Runs, ToDo
<1>2. NoUpdate \in Runs /\ NoUpdate.at = "over" /\ NoUpdate.todo = {}
  BY DEF NoUpdate, Runs, Unpriced, Exits
<1>3. CASE ToDo(p) \ {i} = {}
  BY <1>2, <1>3 DEF Onward
<1>4. CASE ToDo(p) \ {i} # {}
  BY <1>1, <1>2, <1>4 DEF Onward, Runs
<1> QED BY <1>3, <1>4

\* A run goes on, or ends, without a change of the rows.
LEMMA RunShrinks ==
    ASSUME BInv, NEW p \in Updaters, NEW u \in Runs, update' = [update EXCEPT ![p] = u],
           u.todo \subseteq ToDo(p), (u.at = "over") <=> (u.todo = {}),
           u.at = "write" => u.row \in u.todo, UNCHANGED <<quote, phantoms, met>>
    PROVE  BInv'
<1>1. /\ update' \in [Updaters -> Runs] /\ update'[p] = u
      /\ \A o \in Updaters \ {p} : update'[o] = update[o]
  BY DEF BInv, BookTyped
<1>2. \A o \in Updaters : ToDo(o)' \subseteq ToDo(o)
  BY <1>1 DEF ToDo
<1>3. BookTyped'
  BY <1>1, <1>2 DEF BInv, BookTyped, ToDo
<1>4. StillOpen'
  BY <1>2 DEF BInv, StillOpen, Resolved
<1>5. DoneByOne'
  BY <1>2 DEF BInv, DoneByOne
<1> QED BY <1>3, <1>4, <1>5 DEF BInv

LEMMA BeginKeeps == ASSUME BInv, NEW p \in Updaters, BeginUpdate(p) PROVE BInv'
<1> DEFINE u == [NoUpdate EXCEPT !.at = "look", !.todo = OpenPhantoms]
<1>1. OpenPhantoms \subseteq DOMAIN phantoms /\ DOMAIN phantoms \subseteq Nat
  BY DEF OpenPhantoms, BInv, BookTyped
<1>2. u \in Runs /\ u.at = "look" /\ u.todo = OpenPhantoms
  BY <1>1 DEF NoUpdate, Runs, Unpriced, Exits
<1>3. /\ update' = [update EXCEPT ![p] = u] /\ UNCHANGED <<quote, phantoms>>
      /\ met' = met \union UNION {ToDo(o) \intersect OpenPhantoms : o \in Updaters \ {p}}
  BY DEF BeginUpdate
<1> HIDE DEF u
<1>4. /\ update' \in [Updaters -> Runs] /\ update'[p] = u
      /\ \A o \in Updaters \ {p} : update'[o] = update[o]
  BY <1>2, <1>3 DEF BInv, BookTyped
<1>5. ToDo(p)' = OpenPhantoms /\ \A o \in Updaters \ {p} : ToDo(o)' = ToDo(o)
  BY <1>2, <1>4 DEF ToDo
<1>6. BookTyped'
  <2>1. OpenPhantoms # {} /\ met \subseteq DOMAIN phantoms
    BY DEF BeginUpdate, BInv, BookTyped
  <2>2. met' \subseteq DOMAIN phantoms
    BY <1>1, <1>3, <2>1
  <2>3. phantoms' = phantoms /\ quote' = quote /\ phantoms \in Seq(Rows) /\ quote \in Prices
    BY <1>3 DEF BInv, BookTyped
  <2>4. ASSUME NEW o \in Updaters
        PROVE  /\ ToDo(o)' \subseteq DOMAIN phantoms
               /\ update'[o].at = "over" <=> ToDo(o)' = {}
               /\ update'[o].at = "write" => update'[o].row \in ToDo(o)'
    <3>1. CASE o = p
      BY <1>1, <1>2, <1>4, <1>5, <2>1, <3>1
    <3>2. CASE o # p
      BY <1>4, <1>5, <3>2 DEF BInv, BookTyped
    <3> QED BY <3>1, <3>2
  <2> QED BY <1>4, <2>2, <2>3, <2>4 DEF BookTyped
<1>7. StillOpen'
  <2>1. \A i \in OpenPhantoms : ~Resolved(i)'
    BY <1>3 DEF OpenPhantoms, Resolved
  <2> QED BY <1>3, <1>5, <2>1 DEF BInv, StillOpen, Resolved
<1>8. DoneByOne'
  <2>1. \A o \in Updaters \ {p} : ToDo(o) \intersect OpenPhantoms \subseteq met'
    BY <1>3
  <2> QED BY <1>3, <1>5, <2>1 DEF BInv, DoneByOne
<1> QED BY <1>6, <1>7, <1>8 DEF BInv

\* The write: the row is nobody else's, unless they met.
LEMMA WriteKeeps == ASSUME BInv, NEW p \in Updaters, WriteOutcome(p) PROVE BInv'
<1> DEFINE i == update[p].row
<1> DEFINE u == Onward(p, i)
<1>1. i \in ToDo(p) /\ i \in DOMAIN phantoms /\ update[p].price \in Exits
  BY DEF WriteOutcome, BInv, BookTyped, Runs
<1>2. /\ u \in Runs /\ u.todo = ToDo(p) \ {i} /\ u.at \in {"over", "look"}
      /\ u.at = "over" <=> u.todo = {}
  BY <1>1, OnwardFacts
<1>3. /\ update' = [update EXCEPT ![p] = u] /\ UNCHANGED <<quote, met>>
      /\ phantoms' = [phantoms EXCEPT ![i].exit = update[p].price]
  BY DEF WriteOutcome
<1> HIDE DEF u, i
<1>4. /\ update' \in [Updaters -> Runs] /\ update'[p] = u
      /\ \A o \in Updaters \ {p} : update'[o] = update[o]
  BY <1>2, <1>3 DEF BInv, BookTyped
<1>5. /\ phantoms' \in Seq(Rows) /\ DOMAIN phantoms' = DOMAIN phantoms
      /\ \A j \in DOMAIN phantoms \ {i} : phantoms'[j] = phantoms[j]
  BY <1>1, <1>3, RowUpdate DEF BInv, BookTyped
<1>6. ToDo(p)' = ToDo(p) \ {i} /\ \A o \in Updaters \ {p} : ToDo(o)' = ToDo(o)
  BY <1>2, <1>4 DEF ToDo
<1>7. BookTyped'
  BY <1>2, <1>3, <1>4, <1>5, <1>6 DEF BInv, BookTyped, ToDo
<1>8. StillOpen'
  <2> SUFFICES ASSUME NEW o \in Updaters, NEW j \in ToDo(o)', j \notin met PROVE ~Resolved(j)'
    BY <1>3 DEF StillOpen
  <2>1. j # i
    BY <1>1, <1>6 DEF BInv, DoneByOne
  <2>2. j \in ToDo(o) /\ j \in DOMAIN phantoms
    BY <1>6 DEF BInv, BookTyped
  <2> QED BY <1>5, <2>1, <2>2 DEF BInv, StillOpen, Resolved
<1>9. DoneByOne'
  BY <1>3, <1>6 DEF BInv, DoneByOne
<1> QED BY <1>7, <1>8, <1>9 DEF BInv

\* Rows are added or grow older; their exits stay.
LEMMA RowsKept ==
    ASSUME BInv, phantoms' \in Seq(Rows), quote' \in Prices,
           DOMAIN phantoms \subseteq DOMAIN phantoms',
           \A i \in DOMAIN phantoms : phantoms'[i].exit = phantoms[i].exit,
           UNCHANGED <<update, met>>
    PROVE  BInv'
<1>1. \A p \in Updaters : ToDo(p)' = ToDo(p)
  BY DEF ToDo
<1>2. BookTyped'
  BY <1>1 DEF BInv, BookTyped
<1>3. StillOpen'
  BY <1>1 DEF BInv, BookTyped, StillOpen, Resolved
<1>4. DoneByOne'
  BY <1>1 DEF BInv, DoneByOne
<1> QED BY <1>2, <1>3, <1>4 DEF BInv

\* What the steps that write no outcome do to the rows.
LEMMA ExitsStay ==
    ASSUME BInv, \/ \E plan \in Plans, r \in Regimes \union {NoRegime} : LogPhantom(plan, r)
                 \/ BookDay
    PROVE  /\ phantoms' \in Seq(Rows) /\ quote' \in Prices
           /\ DOMAIN phantoms \subseteq DOMAIN phantoms'
           /\ \A i \in DOMAIN phantoms : phantoms'[i].exit = phantoms[i].exit
           /\ UNCHANGED <<update, met>>
<1>1. phantoms \in Seq(Rows) /\ quote \in Prices
  BY DEF BInv, BookTyped
<1>2. ASSUME NEW plan \in Plans, NEW r \in Regimes \union {NoRegime}, LogPhantom(plan, r)
      PROVE  /\ phantoms' \in Seq(Rows) /\ quote' \in Prices
             /\ DOMAIN phantoms \subseteq DOMAIN phantoms'
             /\ \A i \in DOMAIN phantoms : phantoms'[i].exit = phantoms[i].exit
             /\ UNCHANGED <<update, met>>
  <2> DEFINE row == [plan |-> plan, regime |-> r, age |-> 0, exit |-> Unpriced]
  <2>1. row \in Rows
    <3>1. 0 \in Ages /\ Unpriced \in Exits
      BY BookBounds DEF Ages, Exits
    <3> QED BY <3>1 DEF Rows
  <2>2. phantoms' = Append(phantoms, row) /\ UNCHANGED <<quote, update, met>>
    BY <1>2 DEF LogPhantom
  <2> HIDE DEF row
  <2> QED BY <1>1, <2>1, <2>2
<1>3. ASSUME BookDay
      PROVE  /\ phantoms' \in Seq(Rows) /\ quote' \in Prices
             /\ DOMAIN phantoms \subseteq DOMAIN phantoms'
             /\ \A i \in DOMAIN phantoms : phantoms'[i].exit = phantoms[i].exit
             /\ UNCHANGED <<update, met>>
  <2> DEFINE older(i) == [phantoms[i] EXCEPT !.age = IF @ <= EvidenceDays THEN @ + 1 ELSE @]
  <2>1. ASSUME NEW i \in DOMAIN phantoms
        PROVE  older(i) \in Rows /\ older(i).exit = phantoms[i].exit
    <3> DEFINE age == IF phantoms[i].age <= EvidenceDays THEN phantoms[i].age + 1
                      ELSE phantoms[i].age
    <3>1. phantoms[i] \in Rows
      BY <1>1
    <3>2. age \in Ages
      <4>1. phantoms[i].age \in Ages
        BY <3>1, RowAge
      <4> QED BY <4>1, BookBounds DEF Ages
    <3>3. older(i) = [phantoms[i] EXCEPT !.age = age]
      OBVIOUS
    <3> HIDE DEF age, older
    <3>4. /\ [phantoms[i] EXCEPT !.age = age] \in Rows
          /\ [phantoms[i] EXCEPT !.age = age].exit = phantoms[i].exit
      BY <3>1, <3>2, RowFields
    <3> QED BY <3>3, <3>4
  <2>2. phantoms' = [i \in DOMAIN phantoms |-> older(i)] /\ UNCHANGED <<quote, update, met>>
    BY <1>3 DEF BookDay
  <2> HIDE DEF older
  <2> QED BY <1>1, <2>1, <2>2
<1> QED BY <1>2, <1>3

LEMMA BookStep == ASSUME BInv, BookNext PROVE BInv'
<1>1. ASSUME NEW plan \in Plans, LogSignalsToShadowBook(plan) \/ LogSwingPicksToShadowBook(plan)
      PROVE  BInv'
  <2>1. \E r \in Regimes \union {NoRegime} : LogPhantom(plan, r)
    BY <1>1 DEF LogSignalsToShadowBook, LogSwingPicksToShadowBook
  <2> QED BY <2>1, ExitsStay, RowsKept
<1>2. CASE BookDay
  BY <1>2, ExitsStay, RowsKept
<1>3. CASE BookQuote
  <2>1. UNCHANGED <<phantoms, update, met>> /\ quote' \in Prices
    BY <1>3, MarketPrices DEF BookQuote, NewQuote
  <2> QED BY <2>1, RowsKept DEF BInv, BookTyped
<1>4. ASSUME NEW p \in Updaters, PassOver(p) PROVE BInv'
  <2>1. PICK i \in ToDo(p) : update' = [update EXCEPT ![p] = Onward(p, i)]
    BY <1>4 DEF PassOver
  <2>2. UNCHANGED <<quote, phantoms, met>>
    BY <1>4 DEF PassOver
  <2>3. /\ Onward(p, i) \in Runs /\ Onward(p, i).todo = ToDo(p) \ {i}
        /\ Onward(p, i).at \in {"over", "look"}
        /\ Onward(p, i).at = "over" <=> ToDo(p) \ {i} = {}
    BY OnwardFacts
  <2> DEFINE u == Onward(p, i)
  <2>4. /\ u \in Runs /\ u.todo \subseteq ToDo(p) /\ u.at # "write"
        /\ update' = [update EXCEPT ![p] = u]
        /\ u.at = "over" <=> u.todo = {}
    BY <2>1, <2>3
  <2>5. u.at = "write" => u.row \in u.todo
    BY <2>4
  <2> HIDE DEF u
  <2> QED BY <2>2, <2>4, <2>5, RunShrinks
<1>5. ASSUME NEW p \in Updaters, FindEnded(p) PROVE BInv'
  <2>1. PICK i \in ToDo(p) :
          update' = [update EXCEPT ![p].at = "write", ![p].row = i, ![p].price = quote]
    BY <1>5 DEF FindEnded
  <2>2. UNCHANGED <<quote, phantoms, met>>
    BY <1>5 DEF FindEnded
  <2>3. /\ update \in [Updaters -> Runs] /\ update[p] \in Runs /\ quote \in Exits
        /\ ToDo(p) \subseteq Nat
    BY DEF BInv, BookTyped, Runs, ToDo, Exits
  <2> DEFINE u == [update[p] EXCEPT !.at = "write", !.row = i, !.price = quote]
  <2>4. u \in Runs /\ u.todo = ToDo(p) /\ u.at = "write" /\ u.row = i
    BY <2>3 DEF Runs, ToDo
  <2>5. update' = [update EXCEPT ![p] = u]
    BY <2>1, <2>3
  <2> HIDE DEF u
  <2> QED BY <2>2, <2>4, <2>5, RunShrinks
<1>6. ASSUME NEW p \in Updaters, RunEnds(p) PROVE BInv'
  <2>1. NoUpdate \in Runs /\ NoUpdate.at = "over" /\ NoUpdate.todo = {}
    BY DEF NoUpdate, Runs, Unpriced, Exits
  <2> QED BY <1>6, <2>1, RunShrinks DEF RunEnds
<1> QED BY <1>1, <1>2, <1>3, <1>4, <1>5, <1>6, BeginKeeps, WriteKeeps DEF BookNext

\* The other parts leave the shadow book alone; they may change the quote.
LEMMA RecordsStep == BInv /\ [Next]_vars => BInv'
<1> SUFFICES ASSUME BInv, [Next]_vars PROVE BInv'
  OBVIOUS
<1>1. CASE BookNext
  BY <1>1, BookStep
<1>2. CASE UNCHANGED <<phantoms, update, met>> /\ quote' \in Prices
  BY <1>2, RowsKept DEF BInv, BookTyped
<1>3. quote' \in Prices \/ quote' = quote \/ BookNext
  BY DEF Next, JournalNext, LogEntry, LogExit, BeginCheck, Look, LookFails, BeginSending,
         Send, RunDies, JournalDay, JournalQuote, NewQuote, vars
<1>4. BookNext \/ UNCHANGED <<phantoms, update, met>>
  BY DEF Next, vars, bookVars
<1>5. quote \in Prices
  BY DEF BInv, BookTyped
<1> QED BY <1>1, <1>2, <1>3, <1>4, <1>5, MarketPrices

----------------------------------------------------------------------------
(* The error events.                                                       *)

Reports == [at : {"idle", "found"}, id : Nat, count : Nat]
ErrorRows == [count : Nat, resolved : BOOLEAN, gone : BOOLEAN]

Counts == [i \in DOMAIN events |-> events[i].count]

ErrorsTyped ==
    /\ stored \in 0..MaxReports /\ disturbed \in BOOLEAN
    /\ events \in Seq(ErrorRows)
    /\ writer \in [Writers -> Reports]
    /\ \A i \in DOMAIN events : /\ events[i].count \in 1..stored
                                /\ events[i].gone => events[i].resolved
    /\ \A w \in Writers : writer[w].id \in 0..Len(events) /\ writer[w].count \in 0..stored

\* One thread at a time has looked the error up ...
OneWriter == \A w, v \in Writers : AboutToWrite(w) /\ AboutToWrite(v) => w = v

\* ... what it has read is still so ...
ReadHolds ==
    \A w \in Writers : AboutToWrite(w) =>
        \/ writer[w].id = 0 /\ Unresolved = {}
        \/ /\ writer[w].id \in Unresolved
           /\ events[writer[w].id].count = writer[w].count

\* ... and one row at most is unresolved.
OneUnresolved == \A i, j \in Unresolved : i = j

EInv ==
    /\ ErrorsTyped
    /\ ~disturbed => OneWriter /\ ReadHolds /\ OneUnresolved /\ Sum(Counts, DOMAIN events) = stored

\* The sum depends on the values in the set.
LEMMA SumSame ==
    ASSUME NEW S, IsFiniteSet(S), NEW f, NEW g, \A x \in S : f[x] \in Int /\ g[x] = f[x]
    PROVE  Sum(f, S) = Sum(g, S)
<1>1. PICK h : Sums(h, f, S)
  BY SumsExist
<1>2. Sums(h, g, S)
  BY <1>1 DEF Sums
<1> QED BY <1>1, <1>2, SumIs

\* A value changes by one.
LEMMA SumChanges ==
    ASSUME NEW S, IsFiniteSet(S), NEW f, NEW g, NEW x \in S, \A y \in S : f[y] \in Int /\ g[y] \in Int,
           g[x] = f[x] + 1, \A y \in S \ {x} : g[y] = f[y]
    PROVE  Sum(g, S) = Sum(f, S) + 1
<1> DEFINE R == S \ {x}
<1>1. IsFiniteSet(R)
  BY FS_Subset
<1>2. Sum(f, S) = f[x] + Sum(f, R) /\ Sum(g, S) = g[x] + Sum(g, R)
  BY SumTakes
<1>3. Sum(f, R) = Sum(g, R) /\ Sum(f, R) \in Int
  BY <1>1, SumTakes, SumSame
<1> QED BY <1>2, <1>3

\* A value is added.
LEMMA SumGrows ==
    ASSUME NEW S, IsFiniteSet(S), NEW f, NEW g, NEW x, x \notin S, g[x] = 1,
           \A y \in S : f[y] \in Int /\ g[y] = f[y]
    PROVE  Sum(g, S \union {x}) = Sum(f, S) + 1
<1>1. Sum(g, S \union {x}) = 1 + Sum(g, S)
  BY SumAdds
<1>2. Sum(f, S) = Sum(g, S) /\ Sum(f, S) \in Int
  BY SumTakes, SumSame
<1> QED BY <1>1, <1>2

LEMMA ErrorFacts ==
    ASSUME ErrorsTyped
    PROVE  /\ Len(events) \in Nat /\ DOMAIN events = 1..Len(events) /\ IsFiniteSet(DOMAIN events)
           /\ \A i \in DOMAIN events : events[i] \in ErrorRows /\ Counts[i] = events[i].count
           /\ \A i \in DOMAIN events : events[i].count \in Int
           /\ Unresolved \subseteq DOMAIN events
<1>1. Len(events) \in Nat /\ DOMAIN events = 1..Len(events) /\ events \in [1..Len(events) -> ErrorRows]
  BY LenProperties DEF ErrorsTyped
<1>2. IsFiniteSet(1..Len(events))
  BY <1>1, FS_Interval
<1>3. \A i \in DOMAIN events : events[i] \in ErrorRows /\ Counts[i] = events[i].count /\ events[i].count \in Int
  BY <1>1 DEF Counts, ErrorRows
<1> QED BY <1>1, <1>2, <1>3 DEF Unresolved

LEMMA InitialErrors == Init => EInv
<1> SUFFICES ASSUME Init PROVE EInv
  OBVIOUS
<1>1. events = <<>> /\ stored = 0 /\ disturbed = FALSE /\ writer = [w \in Writers |-> NoReport]
  BY DEF Init, ErrorsInit
<1>2. NoReport \in Reports /\ NoReport.at = "idle" /\ NoReport.id = 0 /\ NoReport.count = 0
  BY DEF NoReport, Reports
<1>3. DOMAIN events = {} /\ Len(events) = 0 /\ events \in Seq(ErrorRows)
  BY <1>1
<1>4. ErrorsTyped
  <2>1. 0 \in 0..MaxReports /\ writer \in [Writers -> Reports] /\ 0 \in 0..0
    BY <1>1, <1>2, ErrorBounds
  <2>2. \A w \in Writers : writer[w] = NoReport
    BY <1>1
  <2> QED BY <1>1, <1>2, <1>3, <2>1, <2>2 DEF ErrorsTyped
<1>5. Unresolved = {} /\ \A w \in Writers : ~AboutToWrite(w)
  BY <1>1, <1>2, <1>3 DEF Unresolved, AboutToWrite
<1>6. Sum(Counts, DOMAIN events) = 0
  BY <1>3, SumTakes, FS_EmptySet
<1> QED BY <1>1, <1>4, <1>5, <1>6 DEF EInv, OneWriter, ReadHolds, OneUnresolved

\* A thread goes on, without a change of the rows.
LEMMA WriterFacts ==
    ASSUME ErrorsTyped, NEW w \in Writers, NEW r \in Reports, writer' = [writer EXCEPT ![w] = r]
    PROVE  /\ writer' \in [Writers -> Reports] /\ writer'[w] = r
           /\ \A v \in Writers \ {w} : writer'[v] = writer[v]
  BY DEF ErrorsTyped

LEMMA NoReportFacts == NoReport \in Reports /\ NoReport.at = "idle" /\ NoReport.id = 0 /\ NoReport.count = 0
  BY DEF NoReport, Reports

LEMMA LookUpKeeps == ASSUME EInv, NEW w \in Writers, LookUp(w) PROVE EInv'
<1>1. ErrorsTyped /\ UNCHANGED <<events, stored>>
      /\ disturbed' = (disturbed \/ \E v \in Writers \ {w} : AboutToWrite(v))
  BY DEF EInv, LookUp
<1>2. PICK r \in Reports :
        /\ writer' = [writer EXCEPT ![w] = r] /\ r.at = "found"
        /\ \/ r.id \in Unresolved /\ r.count = events[r.id].count
           \/ r.id = 0 /\ r.count = 0 /\ Unresolved = {}
  <2>1. ASSUME NEW i \in Unresolved
        PROVE  [at |-> "found", id |-> i, count |-> events[i].count] \in Reports
    <3>1. i \in Nat /\ events[i].count \in Nat
      <4>1. i \in DOMAIN events /\ DOMAIN events = 1..Len(events)
        BY <1>1, ErrorFacts
      <4>2. events[i].count \in 1..stored
        BY <1>1, <4>1 DEF ErrorsTyped
      <4> QED BY <4>1, <4>2
    <3> QED BY <3>1 DEF Reports
  <2>2. [at |-> "found", id |-> 0, count |-> 0] \in Reports
    BY DEF Reports
  <2> QED BY <2>1, <2>2 DEF LookUp
<1>3. /\ writer' \in [Writers -> Reports] /\ writer'[w] = r
      /\ \A v \in Writers \ {w} : writer'[v] = writer[v]
  BY <1>1, <1>2, WriterFacts
<1>4. r.id \in 0..Len(events) /\ r.count \in 0..stored
  <2>1. CASE r.id \in Unresolved /\ r.count = events[r.id].count
    <3>1. r.id \in DOMAIN events /\ DOMAIN events = 1..Len(events) /\ Len(events) \in Nat
      BY <1>1, <2>1, ErrorFacts
    <3>2. events[r.id].count \in 1..stored
      BY <1>1, <3>1 DEF ErrorsTyped
    <3> QED BY <2>1, <3>1, <3>2
  <2>2. CASE r.id = 0 /\ r.count = 0
    <3>1. Len(events) \in Nat /\ stored \in Nat
      BY <1>1, ErrorFacts DEF ErrorsTyped
    <3> QED BY <2>2, <3>1
  <2> QED BY <1>2, <2>1, <2>2
<1>5. \A v \in Writers : writer'[v].id \in 0..Len(events) /\ writer'[v].count \in 0..stored
  BY <1>1, <1>3, <1>4 DEF ErrorsTyped
<1>6. disturbed' \in BOOLEAN
  BY <1>1
<1>7. ErrorsTyped'
  BY <1>1, <1>3, <1>5, <1>6 DEF ErrorsTyped
<1>8. Unresolved' = Unresolved /\ Counts' = Counts
  BY <1>1 DEF Unresolved, Counts
<1>9. ASSUME ~disturbed'
      PROVE  OneWriter' /\ ReadHolds' /\ OneUnresolved' /\ Sum(Counts, DOMAIN events)' = stored'
  <2>1. ~disturbed /\ \A v \in Writers \ {w} : ~AboutToWrite(v)
    BY <1>1, <1>9
  <2>2. \A v \in Writers : AboutToWrite(v)' => v = w
    BY <1>3, <2>1 DEF AboutToWrite
  <2>3. OneWriter'
    BY <2>2 DEF OneWriter
  <2>4. ReadHolds'
    BY <1>1, <1>2, <1>3, <1>8, <2>2 DEF ReadHolds
  <2>5. OneUnresolved /\ Sum(Counts, DOMAIN events) = stored
    BY <2>1 DEF EInv
  <2> QED BY <1>1, <1>8, <2>3, <2>4, <2>5 DEF OneUnresolved
<1> QED BY <1>7, <1>9 DEF EInv

\* What the write of one report makes of the rows.
LEMMA UpsertFacts ==
    ASSUME ErrorsTyped, NEW w \in Writers, events' = Upserted(w), stored' = stored + 1,
           stored < MaxReports
    PROVE  /\ events' \in Seq(ErrorRows) /\ Len(events) <= Len(events')
           /\ \A i \in DOMAIN events' : /\ events'[i].count \in 1..stored'
                                        /\ events'[i].gone => events'[i].resolved
<1>1. /\ Len(events) \in Nat /\ DOMAIN events = 1..Len(events) /\ stored \in Nat
      /\ events \in Seq(ErrorRows)
  BY ErrorFacts DEF ErrorsTyped
<1>2. \A i \in DOMAIN events : /\ events[i] \in ErrorRows /\ events[i].count \in 1..stored'
                               /\ events[i].gone => events[i].resolved
  <2>1. \A i \in DOMAIN events : /\ events[i] \in ErrorRows /\ events[i].count \in 1..stored
                                 /\ events[i].gone => events[i].resolved
    BY ErrorFacts DEF ErrorsTyped
  <2>2. 1..stored \subseteq 1..stored'
    BY <1>1
  <2> QED BY <2>1, <2>2
<1>3. CASE writer[w].id = 0
  <2>1. NewRow \in ErrorRows /\ NewRow.count = 1 /\ ~NewRow.gone
    BY DEF NewRow, ErrorRows
  <2>2. events' = Append(events, NewRow)
    BY <1>3 DEF Upserted
  <2>3. /\ events' \in Seq(ErrorRows) /\ Len(events') = Len(events) + 1
        /\ \A i \in 1..Len(events) : events'[i] = events[i]
        /\ events'[Len(events) + 1] = NewRow
    BY <1>1, <2>1, <2>2, AppendProperties
  <2>4. DOMAIN events' = DOMAIN events \union {Len(events) + 1}
    BY <1>1, <2>3, LenProperties
  <2>5. 1 \in 1..stored' /\ Len(events) <= Len(events')
    BY <1>1, <2>3
  <2> QED BY <1>1, <1>2, <2>1, <2>3, <2>4, <2>5
<1>4. CASE events' = events
  BY <1>1, <1>2, <1>4
<1>5. CASE writer[w].id # 0 /\ events' # events
  <2> DEFINE i == writer[w].id
             row == [events[i] EXCEPT !.count = writer[w].count + 1]
  <2>1. i \in DOMAIN events /\ writer[w].count + 1 \in 1..stored' /\ writer[w].count + 1 \in Nat
    BY <1>1, <1>5 DEF ErrorsTyped
  <2>2. /\ row \in ErrorRows /\ row.count = writer[w].count + 1
        /\ row.gone = events[i].gone /\ row.resolved = events[i].resolved
    <3>1. events[i] \in ErrorRows
      BY <1>2, <2>1
    <3> DEFINE n == writer[w].count + 1
    <3>2. n \in Nat
      BY <2>1
    <3>3. row = [events[i] EXCEPT !.count = n]
      OBVIOUS
    <3> HIDE DEF i, n, row
    <3>4. /\ [events[i] EXCEPT !.count = n] \in ErrorRows
          /\ [events[i] EXCEPT !.count = n].count = n
      BY <3>1, <3>2 DEF ErrorRows
    <3>5. /\ [events[i] EXCEPT !.count = n].gone = events[i].gone
          /\ [events[i] EXCEPT !.count = n].resolved = events[i].resolved
      BY <3>1 DEF ErrorRows
    <3> QED BY <3>3, <3>4, <3>5 DEF n
  <2>3. events' = [events EXCEPT ![i] = row]
    BY <1>5, <2>1 DEF Upserted
  <2> HIDE DEF row, i
  <2>4. /\ events' \in Seq(ErrorRows) /\ Len(events') = Len(events)
        /\ \A j \in 1..Len(events) : events'[j] = IF j = i THEN row ELSE events[j]
    BY <1>1, <2>1, <2>2, <2>3, ExceptSeq
  <2>5. DOMAIN events' = DOMAIN events /\ Len(events) <= Len(events')
    BY <1>1, <2>4, LenProperties
  <2>6. row.count \in 1..stored' /\ (row.gone => row.resolved)
    <3>1. row.count \in 1..stored'
      BY <2>1, <2>2 DEF i
    <3>2. row.gone => row.resolved
      BY <1>2, <2>1, <2>2
    <3> QED BY <3>1, <3>2
  <2> QED BY <1>1, <1>2, <2>4, <2>5, <2>6
<1> QED BY <1>3, <1>4, <1>5

LEMMA StoreKeeps == ASSUME EInv, NEW w \in Writers, Store(w) PROVE EInv'
<1>1. /\ ErrorsTyped /\ AboutToWrite(w) /\ stored < MaxReports /\ stored' = stored + 1
      /\ events' = Upserted(w) /\ writer' = [writer EXCEPT ![w] = NoReport] /\ disturbed' = disturbed
  BY DEF EInv, Store
<1>2. /\ writer' \in [Writers -> Reports] /\ writer'[w] = NoReport
      /\ \A v \in Writers \ {w} : writer'[v] = writer[v]
  BY <1>1, WriterFacts, NoReportFacts
<1>3. /\ events' \in Seq(ErrorRows) /\ Len(events) <= Len(events')
      /\ \A i \in DOMAIN events' : /\ events'[i].count \in 1..stored'
                                   /\ events'[i].gone => events'[i].resolved
  BY <1>1, UpsertFacts
<1>4. ErrorsTyped'
  <2>1. /\ Len(events) \in Nat /\ Len(events') \in Nat /\ stored \in Nat /\ MaxReports \in Nat
        /\ disturbed \in BOOLEAN
    BY <1>1, <1>3, ErrorFacts, LenProperties, ErrorBounds DEF ErrorsTyped
  <2>2. \A v \in Writers : writer'[v].id \in 0..Len(events') /\ writer'[v].count \in 0..stored'
    <3>1. \A v \in Writers : writer[v].id \in 0..Len(events) /\ writer[v].count \in 0..stored
      BY <1>1 DEF ErrorsTyped
    <3>2. /\ 0..Len(events) \subseteq 0..Len(events') /\ 0..stored \subseteq 0..stored'
          /\ 0 \in 0..Len(events) /\ 0 \in 0..stored
      BY <1>1, <1>3, <2>1
    <3> QED BY <1>2, <3>1, <3>2, NoReportFacts
  <2>3. stored' \in 0..MaxReports
    BY <1>1, <2>1
  <2> QED BY <1>1, <1>2, <1>3, <2>1, <2>2, <2>3 DEF ErrorsTyped
<1>5. ASSUME ~disturbed
      PROVE  /\ OneWriter' /\ ReadHolds' /\ OneUnresolved'
             /\ Sum(Counts, DOMAIN events)' = stored'
  <2>1. OneWriter /\ ReadHolds /\ OneUnresolved /\ Sum(Counts, DOMAIN events) = stored
    BY <1>5 DEF EInv
  <2>2. \A v \in Writers : ~AboutToWrite(v)'
    BY <1>1, <1>2, <2>1, NoReportFacts DEF OneWriter, AboutToWrite
  <2>3. OneWriter' /\ ReadHolds'
    BY <2>2 DEF OneWriter, ReadHolds
  <2>4. /\ Len(events) \in Nat /\ DOMAIN events = 1..Len(events) /\ IsFiniteSet(DOMAIN events)
        /\ events \in Seq(ErrorRows)
        /\ \A i \in DOMAIN events : /\ events[i] \in ErrorRows /\ Counts[i] = events[i].count
                                    /\ events[i].count \in Int
    BY <1>1, ErrorFacts DEF ErrorsTyped
  <2>5. CASE writer[w].id = 0
    <3>1. Unresolved = {}
      <4>1. writer[w].id \notin DOMAIN events
        BY <2>4, <2>5
      <4> QED BY <1>1, <2>1, <4>1 DEF ReadHolds, Unresolved
    <3>2. events' = Append(events, NewRow) /\ NewRow \in ErrorRows /\ NewRow.count = 1
      BY <1>1, <2>5 DEF Upserted, NewRow, ErrorRows
    <3> DEFINE n == Len(events) + 1
    <3>3. /\ events' \in Seq(ErrorRows) /\ Len(events') = n /\ events'[n] = NewRow
          /\ \A i \in 1..Len(events) : events'[i] = events[i]
      BY <2>4, <3>2, AppendProperties
    <3>4. DOMAIN events' = DOMAIN events \union {n} /\ n \notin DOMAIN events
      BY <2>4, <3>3, LenProperties
    <3> HIDE DEF n
    <3>5. Unresolved' \subseteq {n}
      BY <2>4, <3>1, <3>3, <3>4 DEF Unresolved
    <3>6. Counts'[n] = 1 /\ \A i \in DOMAIN events : Counts[i] \in Int /\ Counts'[i] = Counts[i]
      BY <2>4, <3>2, <3>3, <3>4 DEF Counts
    <3>7. Sum(Counts', DOMAIN events \union {n}) = Sum(Counts, DOMAIN events) + 1
      BY <2>4, <3>4, <3>6, SumGrows
    <3>8. Sum(Counts', DOMAIN events') = stored'
      BY <1>1, <2>1, <3>4, <3>7
    <3> QED BY <2>3, <3>5, <3>8 DEF OneUnresolved, Sum
  <2>6. CASE writer[w].id # 0
    <3> DEFINE i == writer[w].id
               n == writer[w].count + 1
               row == [events[i] EXCEPT !.count = n]
    <3>1. i \in Unresolved /\ events[i].count = writer[w].count /\ i \in DOMAIN events
      BY <1>1, <2>1, <2>6 DEF ReadHolds, Unresolved
    <3>2. ~events[i].gone
      BY <1>1, <3>1 DEF ErrorsTyped, Unresolved
    <3>3. events' = [events EXCEPT ![i] = row]
      BY <1>1, <2>6, <3>2 DEF Upserted
    <3>4. n \in Nat /\ n = events[i].count + 1
      BY <1>1, <3>1 DEF ErrorsTyped
    <3> HIDE DEF n, i
    <3>5. row \in ErrorRows /\ row.count = n /\ row.resolved = events[i].resolved
      <4>1. events[i] \in ErrorRows
        BY <2>4, <3>1
      <4> QED BY <3>4, <4>1 DEF ErrorRows
    <3> HIDE DEF row
    <3>6. /\ events' \in Seq(ErrorRows) /\ Len(events') = Len(events)
          /\ \A j \in 1..Len(events) : events'[j] = IF j = i THEN row ELSE events[j]
      BY <2>4, <3>1, <3>3, <3>5, ExceptSeq
    <3>7. DOMAIN events' = DOMAIN events
      BY <2>4, <3>6, LenProperties
    <3>8. Unresolved' = Unresolved
      BY <2>4, <3>5, <3>6, <3>7 DEF Unresolved
    <3>9. /\ Counts'[i] = Counts[i] + 1 /\ \A j \in DOMAIN events \ {i} : Counts'[j] = Counts[j]
          /\ \A j \in DOMAIN events : Counts[j] \in Int /\ Counts'[j] \in Int
      <4>1. \A j \in DOMAIN events : Counts'[j] = IF j = i THEN n ELSE Counts[j]
        BY <2>4, <3>5, <3>6, <3>7 DEF Counts
      <4> QED BY <2>4, <3>1, <3>4, <4>1
    <3>10. Sum(Counts', DOMAIN events) = Sum(Counts, DOMAIN events) + 1
      BY <2>4, <3>1, <3>9, SumChanges
    <3> QED BY <1>1, <2>1, <2>3, <3>7, <3>8, <3>10 DEF OneUnresolved, Sum
  <2> QED BY <2>5, <2>6
<1> QED BY <1>1, <1>4, <1>5 DEF EInv

LEMMA StoreFailsKeeps == ASSUME EInv, NEW w \in Writers, StoreFails(w) PROVE EInv'
<1>1. /\ ErrorsTyped /\ writer' = [writer EXCEPT ![w] = NoReport]
      /\ events' = events /\ stored' = stored /\ disturbed' = disturbed
  BY DEF EInv, StoreFails
<1>2. /\ writer' \in [Writers -> Reports] /\ writer'[w] = NoReport
      /\ \A v \in Writers \ {w} : writer'[v] = writer[v]
  BY <1>1, WriterFacts, NoReportFacts
<1>3. Len(events) \in Nat /\ stored \in Nat
  BY <1>1, ErrorFacts DEF ErrorsTyped
<1>4. \A v \in Writers : writer'[v].id \in 0..Len(events) /\ writer'[v].count \in 0..stored
  BY <1>1, <1>2, <1>3, NoReportFacts DEF ErrorsTyped
<1>5. ErrorsTyped'
  BY <1>1, <1>2, <1>4 DEF ErrorsTyped
<1>6. \A v \in Writers : AboutToWrite(v)' => v # w /\ AboutToWrite(v)
  BY <1>2, NoReportFacts DEF AboutToWrite
<1>7. Unresolved' = Unresolved /\ Counts' = Counts
  BY <1>1 DEF Unresolved, Counts
<1>8. OneWriter /\ ReadHolds => OneWriter' /\ ReadHolds'
  BY <1>1, <1>2, <1>6, <1>7 DEF OneWriter, ReadHolds
<1> QED BY <1>1, <1>5, <1>7, <1>8 DEF EInv, OneUnresolved

\* Rows are resolved or go; their counts stay.
LEMMA RowsMarked ==
    ASSUME EInv, events' \in Seq(ErrorRows), Len(events') = Len(events), UNCHANGED <<writer, stored>>,
           \A i \in DOMAIN events : /\ events'[i].count = events[i].count
                                    /\ events'[i].gone => events'[i].resolved
                                    /\ events[i].resolved => events'[i].resolved,
           disturbed' \in BOOLEAN,
           \/ disturbed'
           \/ ~disturbed /\ \A w \in Writers : ~AboutToWrite(w)
           \/ disturbed' = disturbed /\ \A i \in DOMAIN events : events'[i].resolved = events[i].resolved
    PROVE  EInv'
<1>1. ErrorsTyped
  BY DEF EInv
<1>2. /\ Len(events) \in Nat /\ DOMAIN events = 1..Len(events) /\ DOMAIN events' = DOMAIN events
      /\ IsFiniteSet(DOMAIN events)
      /\ \A i \in DOMAIN events : Counts[i] = events[i].count /\ events[i].count \in Int
  BY <1>1, ErrorFacts, LenProperties
<1>3. ErrorsTyped'
  BY <1>1, <1>2 DEF ErrorsTyped
<1>4. Unresolved' \subseteq Unresolved
  BY <1>2 DEF Unresolved
<1>5. Sum(Counts', DOMAIN events') = Sum(Counts, DOMAIN events)
  <2>1. \A i \in DOMAIN events : Counts[i] \in Int /\ Counts'[i] = Counts[i]
    BY <1>2 DEF Counts
  <2>2. Sum(Counts, DOMAIN events) = Sum(Counts', DOMAIN events)
    BY <1>2, <2>1, SumSame
  <2> QED BY <1>2, <2>2
<1>6. ASSUME ~disturbed'
      PROVE  OneWriter' /\ ReadHolds' /\ OneUnresolved' /\ Sum(Counts, DOMAIN events)' = stored'
  <2>1. ~disturbed
    BY <1>6
  <2>2. OneWriter /\ ReadHolds /\ OneUnresolved /\ Sum(Counts, DOMAIN events) = stored
    BY <2>1 DEF EInv
  <2>3. OneWriter' /\ OneUnresolved' /\ Sum(Counts, DOMAIN events)' = stored'
    BY <1>4, <1>5, <2>2 DEF OneWriter, OneUnresolved, AboutToWrite, Sum
  <2>4. ReadHolds'
    <3>1. CASE \A w \in Writers : ~AboutToWrite(w)
      BY <3>1 DEF ReadHolds, AboutToWrite
    <3>2. CASE \A i \in DOMAIN events : events'[i].resolved = events[i].resolved
      <4>1. Unresolved' = Unresolved
        BY <1>2, <3>2 DEF Unresolved
      <4>2. \A i \in Unresolved : events'[i].count = events[i].count
        BY DEF Unresolved
      <4> QED BY <2>2, <4>1, <4>2 DEF ReadHolds, AboutToWrite
    <3> QED BY <1>6, <3>1, <3>2
  <2> QED BY <2>3, <2>4
<1> QED BY <1>3, <1>6 DEF EInv

LEMMA UsersKeep ==
    ASSUME EInv, \/ \E i \in 1..MaxReports : ResolveError(i)
                 \/ \E old \in SUBSET (1..MaxReports) : CleanupOldErrors(old)
    PROVE  EInv'
<1>1. ErrorsTyped /\ events \in Seq(ErrorRows)
  BY DEF EInv, ErrorsTyped
<1>2. /\ Len(events) \in Nat /\ DOMAIN events = 1..Len(events)
      /\ \A i \in DOMAIN events : events[i] \in ErrorRows /\ (events[i].gone => events[i].resolved)
  BY <1>1, ErrorFacts DEF ErrorsTyped
<1>3. ASSUME NEW i \in 1..MaxReports, ResolveError(i) PROVE EInv'
  <2> DEFINE row == [events[i] EXCEPT !.resolved = TRUE]
  <2>1. i \in DOMAIN events
    BY <1>3 DEF ResolveError, Unresolved
  <2>2. row \in ErrorRows /\ row.resolved = TRUE /\ row.count = events[i].count
    BY <1>2, <2>1 DEF ErrorRows
  <2>3. events' = [events EXCEPT ![i] = row] /\ UNCHANGED <<writer, stored>>
        /\ disturbed' = (disturbed \/ \E w \in Writers : AboutToWrite(w))
    BY <1>3 DEF ResolveError
  <2> HIDE DEF row
  <2>4. /\ events' \in Seq(ErrorRows) /\ Len(events') = Len(events)
        /\ \A j \in 1..Len(events) : events'[j] = IF j = i THEN row ELSE events[j]
    BY <1>1, <1>2, <2>1, <2>2, <2>3, ExceptSeq
  <2>5. \A j \in DOMAIN events : /\ events'[j].count = events[j].count
                                 /\ events'[j].gone => events'[j].resolved
                                 /\ events[j].resolved => events'[j].resolved
    BY <1>2, <2>2, <2>4
  <2>6. disturbed' \in BOOLEAN /\ (disturbed' \/ (~disturbed /\ \A w \in Writers : ~AboutToWrite(w)))
    BY <2>3
  <2> QED BY <2>3, <2>4, <2>5, <2>6, RowsMarked
<1>4. ASSUME NEW old, CleanupOldErrors(old) PROVE EInv'
  <2> DEFINE row(i) == [events[i] EXCEPT !.gone = @ \/ i \in old]
  <2>1. old \subseteq {i \in DOMAIN events : events[i].resolved /\ ~events[i].gone}
    BY <1>4 DEF CleanupOldErrors
  <2>2. ASSUME NEW i \in DOMAIN events
        PROVE  /\ row(i) \in ErrorRows /\ row(i).count = events[i].count
               /\ row(i).resolved = events[i].resolved /\ (row(i).gone => row(i).resolved)
    <3> DEFINE gone == events[i].gone \/ i \in old
    <3>1. row(i) = [events[i] EXCEPT !.gone = gone] /\ events[i] \in ErrorRows /\ gone \in BOOLEAN
      BY <1>2
    <3>2. gone => events[i].resolved
      BY <1>2, <2>1
    <3> HIDE DEF gone, row
    <3>3. [events[i] EXCEPT !.gone = gone] \in ErrorRows
      BY <3>1 DEF ErrorRows
    <3>4. /\ [events[i] EXCEPT !.gone = gone].gone = gone
          /\ [events[i] EXCEPT !.gone = gone].count = events[i].count
          /\ [events[i] EXCEPT !.gone = gone].resolved = events[i].resolved
      BY <3>1 DEF ErrorRows
    <3> QED BY <3>1, <3>2, <3>3, <3>4
  <2>3. /\ events' = [i \in DOMAIN events |-> row(i)] /\ UNCHANGED <<writer, stored>>
        /\ disturbed' = disturbed
    BY <1>4 DEF CleanupOldErrors
  <2> HIDE DEF row
  <2>4. /\ events' \in Seq(ErrorRows) /\ Len(events') = Len(events)
        /\ \A i \in DOMAIN events : events'[i] = row(i)
    BY <1>2, <2>2, <2>3
  <2>5. disturbed' \in BOOLEAN
    BY <1>1, <2>3 DEF ErrorsTyped
  <2> QED BY <2>2, <2>3, <2>4, <2>5, RowsMarked
<1> QED BY <1>3, <1>4

LEMMA ErrorsStep == EInv /\ [Next]_vars => EInv'
<1> SUFFICES ASSUME EInv, [Next]_vars PROVE EInv'
  OBVIOUS
<1>1. CASE UNCHANGED errorVars
  <2>1. events' = events /\ writer' = writer /\ stored' = stored /\ disturbed' = disturbed
    BY <1>1 DEF errorVars
  <2> QED BY <2>1 DEF EInv, ErrorsTyped, OneWriter, ReadHolds, OneUnresolved, Unresolved, AboutToWrite,
                     Counts, Sum
<1>2. CASE ErrorsNext
  BY <1>2, LookUpKeeps, StoreKeeps, StoreFailsKeeps, UsersKeep DEF ErrorsNext
<1> QED BY <1>1, <1>2 DEF Next, vars

----------------------------------------------------------------------------
(* The theorems.                                                           *)

\* Rows, runs and reports keep their types: what a run has to do and what it has
\* told are trades of the table, the row it writes is one it has to do, and no
\* count exceeds the reports.
THEOREM RecordsTypes == Spec => []TypeOK
<1>1. JInv => JournalTypeOK /\ quote \in Prices
  <2> SUFFICES ASSUME JInv PROVE JournalTypeOK
    BY DEF JInv
  <2>1. \A i \in DOMAIN trades : trades[i] \in TradeRows
    BY LenProperties DEF JInv
  <2>2. \A p \in Checkers : check[p] \in Checks /\ Sound(check[p], DOMAIN trades)
    BY DEF JInv
  <2> QED BY <2>1, <2>2 DEF JournalTypeOK, TradeRows, Checks, Sound, InTable
<1>2. BInv => BookTypeOK
  <2> SUFFICES ASSUME BInv PROVE BookTypeOK
    OBVIOUS
  <2>1. \A i \in DOMAIN phantoms : phantoms[i] \in Rows
    BY LenProperties DEF BInv, BookTyped
  <2>2. \A p \in Updaters : update[p] \in Runs
    BY DEF BInv, BookTyped
  <2> QED BY <2>1, <2>2 DEF BInv, BookTyped, BookTypeOK, Rows, Runs, Ages, Exits
<1>3. EInv => ErrorsTypeOK
  <2> SUFFICES ASSUME EInv PROVE ErrorsTypeOK
    OBVIOUS
  <2>1. ErrorsTyped /\ stored \in Nat /\ stored <= MaxReports /\ MaxReports \in Nat
    BY ErrorBounds DEF EInv, ErrorsTyped
  <2>2. ASSUME NEW i \in DOMAIN events
        PROVE  events[i].count \in 1..MaxReports /\ {events[i].resolved, events[i].gone} \subseteq BOOLEAN
    <3>1. events[i].count \in 1..stored
      BY <2>1 DEF ErrorsTyped
    <3>2. events[i].count \in 1..MaxReports
      BY <2>1, <3>1
    <3>3. events[i] \in ErrorRows
      BY <2>1, ErrorFacts
    <3> QED BY <3>2, <3>3 DEF ErrorRows
  <2>3. \A w \in Writers : writer[w].at \in {"idle", "found"} /\ writer[w].id \in 0..Len(events)
    <3>1. \A w \in Writers : writer[w] \in Reports /\ writer[w].id \in 0..Len(events)
      BY <2>1 DEF ErrorsTyped
    <3> QED BY <3>1 DEF Reports
  <2>4. stored \in 0..MaxReports /\ disturbed \in BOOLEAN
    BY <2>1 DEF ErrorsTyped
  <2> QED BY <2>2, <2>3, <2>4 DEF ErrorsTypeOK
<1> QED BY <1>1, <1>2, <1>3, InitialJournal, JournalStep, InitialBook, RecordsStep, InitialErrors,
           ErrorsStep, PTL DEF Spec, TypeOK

\* A run of the alert job that is over has told of every trade it found at its
\* target, unless it had looked before at one whose stop alert ends the run.
\* (scheduler._check_trade_alerts, dispatcher.send_stop_alert)
THEOREM TargetsAreTold == Spec => []TargetsTold
<1>1. JInv => TargetsTold
  <2> SUFFICES ASSUME JInv, NEW p \in Checkers, check[p].at = "over",
                      NEW n \in DOMAIN check[p].found, check[p].found[n].kind = "target_hit",
                      \A m \in 1..n - 1 : ~Raises(check[p].found[m])
               PROVE  check[p].found[n].trade \in check[p].told
    BY DEF TargetsTold
  <2>1. check[p].alerts = <<>> /\ Accounted(check[p].alerts, check[p].found, check[p].told)
    BY DEF JInv, Sound
  <2> QED BY <2>1 DEF Accounted, Pending
<1> QED BY <1>1, InitialJournal, JournalStep, PTL DEF Spec

\* Once a row has an outcome, it keeps it, unless two runs had it before them at the
\* same time.  (update_phantom_outcomes)
THEOREM OutcomesAreFinal == Spec => OutcomesStand
<1> DEFINE Kept == \A i \in DOMAIN phantoms : Resolved(i) /\ i \notin met =>
                        phantoms'[i].exit = phantoms[i].exit
<1>1. BInv /\ [Next]_vars => [Kept]_vars
  <2> SUFFICES ASSUME BInv, Next PROVE Kept
    OBVIOUS
  <2>1. CASE UNCHANGED phantoms
    BY <2>1
  <2>2. ASSUME NEW p \in Updaters, WriteOutcome(p) PROVE Kept
    <3>1. update[p].row \in ToDo(p) /\ update[p].row \in DOMAIN phantoms /\ update[p].price \in Exits
      BY <2>2 DEF WriteOutcome, BInv, BookTyped, Runs
    <3>2. \A j \in DOMAIN phantoms \ {update[p].row} : phantoms'[j] = phantoms[j]
      BY <2>2, <3>1, RowUpdate DEF WriteOutcome, BInv, BookTyped
    <3>3. Resolved(update[p].row) => update[p].row \in met
      BY <3>1 DEF BInv, StillOpen
    <3> QED BY <3>2, <3>3
  <2>3. ASSUME \/ \E plan \in Plans, r \in Regimes \union {NoRegime} : LogPhantom(plan, r)
               \/ BookDay
        PROVE  Kept
    BY <2>3, ExitsStay
  <2>4. \/ UNCHANGED phantoms
        \/ \E p \in Updaters : WriteOutcome(p)
        \/ \E plan \in Plans, r \in Regimes \union {NoRegime} : LogPhantom(plan, r)
        \/ BookDay
    BY DEF Next, bookVars, BookNext, LogSignalsToShadowBook, LogSwingPicksToShadowBook,
           BeginUpdate, PassOver, FindEnded, RunEnds, BookQuote
  <2> QED BY <2>1, <2>2, <2>3, <2>4
<1> QED BY <1>1, InitialBook, RecordsStep, PTL DEF Spec, OutcomesStand

\* A signal is recommended without reserve, and weighed in full, only if the closed
\* rows like it gained, and by its strategy's health only if the strategy's did.
\* (_enrich_signals, get_similar_signal_evidence, compute_strategy_health)
THEOREM TradesRestOnGains == Spec => []TradesOnGains
<1>1. TradesOnGains
  <2> SUFFICES ASSUME NEW direction \in Directions, NEW regime \in Regimes, NEW unfavorable \in BOOLEAN,
                      Recommendation(TRUE, Evidence(direction, regime)) = "trade",
                      ShadowSizeFactor(Evidence(direction, regime)) = 100
               PROVE  /\ Gains(Evidence(direction, regime)) > 0
                      /\ SizeAdjustment(unfavorable) = 100 => Gains(Closed(HealthDays)) > 0
    BY DEF TradesOnGains
  <2> DEFINE rows == Evidence(direction, regime)
  <2> HIDE DEF rows
  <2>1. HasEnough(rows)
    BY DEF Recommendation, rows
  <2>2. SharpeReachesHalf(rows)
    BY <2>1 DEF ShadowSizeFactor, rows
  <2>3. Gains(rows) > 0
    BY <2>2 DEF SharpeReachesHalf
  <2>4. ASSUME SizeAdjustment(unfavorable) = 100 PROVE Gains(Closed(HealthDays)) > 0
    <3>1. Health \in {"insufficient_data", "paused", "degraded", "healthy"}
      BY DEF Health
    <3>2. Health = "healthy"
      BY <2>4, <3>1 DEF SizeAdjustment
    <3>3. SharpeReachesHalf(Closed(HealthDays))
      BY <3>2 DEF Health
    <3> QED BY <3>3 DEF SharpeReachesHalf
  <2> QED BY <2>3, <2>4 DEF rows
<1> QED BY <1>1, PTL

\* While no thread looked the error up, and no user resolved it, between another
\* thread's read and its write, the table counts every report once, in one row that
\* is unresolved.  (error_tracking._persist_error, errors.resolve_error)
THEOREM ErrorsAreCounted == Spec => []ErrorsCounted
<1>1. EInv => ErrorsCounted
  <2> SUFFICES ASSUME EInv, ~disturbed
               PROVE  Cardinality(Unresolved) <= 1 /\ SumFunction(Counts) = stored
    BY DEF ErrorsCounted, Counts
  <2>1. OneUnresolved /\ Sum(Counts, DOMAIN events) = stored
    BY DEF EInv
  <2>2. Unresolved = {} \/ \E i : Unresolved = {i}
    BY <2>1 DEF OneUnresolved
  <2>3. Cardinality(Unresolved) <= 1
    BY <2>2, FS_EmptySet, FS_Singleton
  <2>4. DOMAIN Counts = DOMAIN events
    BY DEF Counts
  <2> QED BY <2>1, <2>3, <2>4 DEF Sum, SumFunction
<1> QED BY <1>1, InitialErrors, ErrorsStep, PTL DEF Spec
=============================================================================
