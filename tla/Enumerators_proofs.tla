-------------------------- MODULE Enumerators_proofs --------------------------
(***************************************************************************)
(* Proofs about enumerators, for any number of them, of clients and of     *)
(* elements: references add up whatever is enumerated and cloned and       *)
(* whoever lets go first, and each enumerator keeps what COM promises.     *)
(***************************************************************************)
EXTENDS Enumerators, FiniteSetTheorems, SequenceTheorems, WellFoundedInduction, TLAPS

-----------------------------------------------------------------------------
(* Sums.                                                                   *)

\* There are n numbers from 1 to n.
LEMMA UpTo == \A n \in Nat : IsFiniteSet(1..n) /\ Cardinality(1..n) = n
<1> SUFFICES ASSUME NEW n \in Nat
             PROVE  IsFiniteSet(1..n) /\ Cardinality(1..n) = n
  OBVIOUS
<1>1. IsFiniteSet(1..n) /\ Cardinality(1..n) = IF 1 > n THEN 0 ELSE n - 1 + 1
  BY FS_Interval
<1> QED BY <1>1

Counted(f, e) == {e} \X (1..f[e])

\* The numbers counted off for one e are as many as f[e].
LEMMA CountedOne ==
  ASSUME NEW f, NEW e, f[e] \in Nat
  PROVE  /\ IsFiniteSet(Counted(f, e))
         /\ Cardinality(Counted(f, e)) = f[e]
<1>1. IsFiniteSet({e}) /\ Cardinality({e}) = 1
  BY FS_Singleton
<1>2. IsFiniteSet(1..f[e]) /\ Cardinality(1..f[e]) = f[e]
  BY UpTo
<1>3. /\ IsFiniteSet({e} \X (1..f[e]))
      /\ Cardinality({e} \X (1..f[e])) = Cardinality({e}) * Cardinality(1..f[e])
  BY <1>1, <1>2, FS_Product, Zenon
<1>4. Cardinality({e}) * Cardinality(1..f[e]) = f[e]
  BY <1>1, <1>2
<1> QED BY <1>3, <1>4 DEF Counted

\* A sum of natural numbers is one; changing one of them changes it by the
\* difference.
LEMMA TotalChanges ==
  ASSUME NEW S, IsFiniteSet(S), NEW f \in [S -> Nat],
         NEW e \in S, NEW n \in Nat
  PROVE  /\ Total(f) \in Nat
         /\ Total([f EXCEPT ![e] = n]) = Total(f) - f[e] + n
<1> DEFINE rest == UNION {Counted(f, d) : d \in S \ {e}}
           g == [f EXCEPT ![e] = n]
<1>1. IsFiniteSet(S \ {e})
  BY FS_RemoveElement
<1>2. IsFiniteSet(rest)
  <2> DEFINE h == [d \in S \ {e} |-> Counted(f, d)]
             parts == {Counted(f, d) : d \in S \ {e}}
  <2>1. h \in Surjection(S \ {e}, parts)
    BY DEF Surjection
  <2>2. IsFiniteSet(parts)
    BY <1>1, <2>1, FS_Surjection, Zenon
  <2>3. ASSUME NEW T \in parts
        PROVE  IsFiniteSet(T)
    <3>1. PICK d \in S \ {e} : T = Counted(f, d)
      OBVIOUS
    <3>2. f[d] \in Nat
      OBVIOUS
    <3> QED BY <3>1, <3>2, CountedOne, Zenon
  <2> QED BY <2>2, <2>3, FS_UNION, Zenon
<1>3. ASSUME NEW k \in Nat, NEW h \in [S -> Nat],
             h[e] = k, \A d \in S \ {e} : h[d] = f[d]
      PROVE  /\ IsFiniteSet(rest \cup Counted(h, e))
             /\ Total(h) = Cardinality(rest) + k
  <2>1. UNION {{d} \X (1..h[d]) : d \in DOMAIN h} = rest \cup Counted(h, e)
    BY <1>3 DEF Counted
  <2>2. rest \cap Counted(h, e) = {}
    BY DEF Counted
  <2>3. IsFiniteSet(Counted(h, e)) /\ Cardinality(Counted(h, e)) = k
    BY <1>3, CountedOne, Zenon
  <2> HIDE DEF rest
  <2>4. /\ IsFiniteSet(rest \cup Counted(h, e))
        /\ Cardinality(rest \cup Counted(h, e)) =
             Cardinality(rest) + Cardinality(Counted(h, e)) - Cardinality(rest \cap Counted(h, e))
    BY <1>2, <2>3, FS_Union, Zenon
  <2>5. Cardinality(rest \cap Counted(h, e)) = 0
    BY <2>2, FS_EmptySet, Zenon
  <2>6. Cardinality(rest) \in Nat
    BY <1>2, FS_CardinalityType
  <2>7. Total(h) = Cardinality(rest \cup Counted(h, e))
    BY <2>1, Zenon DEF Total
  <2>8. Cardinality(rest \cup Counted(h, e)) = Cardinality(rest) + k
    BY <2>3, <2>4, <2>5, <2>6
  <2> QED BY <2>4, <2>7, <2>8
<1>4. g \in [S -> Nat] /\ g[e] = n /\ \A d \in S \ {e} : g[d] = f[d]
  OBVIOUS
<1>5. Cardinality(rest) \in Nat
  BY <1>2, FS_CardinalityType
<1>6. f[e] \in Nat
  OBVIOUS
<1> HIDE DEF g, rest
<1>7. Total(f) = Cardinality(rest) + f[e]
  BY <1>3, <1>6
<1>8. Total(g) = Cardinality(rest) + n
  BY <1>3, <1>4
<1>9. Total(f) \in Nat /\ Total(g) = Total(f) - f[e] + n
  BY <1>5, <1>6, <1>7, <1>8
<1> QED BY <1>9 DEF g

\* A sum of zeros.
LEMMA TotalZero ==
  ASSUME NEW S, NEW f, DOMAIN f = S, \A e \in S : f[e] = 0
  PROVE  Total(f) = 0
<1>1. UNION {{e} \X (1..f[e]) : e \in DOMAIN f} = {}
  OBVIOUS
<1> QED BY <1>1, FS_EmptySet DEF Total

-----------------------------------------------------------------------------
(* How often an element is in a sequence.                                  *)

Places(k, s) == {i \in 1..Len(s) : s[i] = k}

\* The places of k in s are counted by Times.
LEMMA TimesPlaces ==
  ASSUME NEW S, NEW s \in Seq(S), NEW k
  PROVE  /\ IsFiniteSet(Places(k, s))
         /\ Times(k, s) = Cardinality(Places(k, s))
         /\ Times(k, s) \in Nat
<1>1. Len(s) \in Nat /\ DOMAIN s = 1..Len(s)
  OBVIOUS
<1>2. IsFiniteSet(1..Len(s))
  BY <1>1, FS_Interval
<1>3. Places(k, s) \in SUBSET (1..Len(s))
  BY DEF Places
<1>4. IsFiniteSet(Places(k, s))
  BY <1>2, <1>3, FS_Subset, Zenon
<1>5. Times(k, s) = Cardinality(Places(k, s))
  BY <1>1 DEF Times, Places
<1> QED BY <1>4, <1>5, FS_CardinalityType

\* An empty sequence has no elements.
LEMMA TimesEmpty == \A k : Times(k, <<>>) = 0
<1> SUFFICES ASSUME NEW k PROVE Times(k, <<>>) = 0
  OBVIOUS
<1>1. {i \in DOMAIN <<>> : <<>>[i] = k} = {}
  OBVIOUS
<1> QED BY <1>1, FS_EmptySet DEF Times

\* s with x in place i, as an operator for lemmas to name.
Put(s, i, x) == [s EXCEPT ![i] = x]

\* Putting x in place i of s counts for x, and what was there does not.
LEMMA TimesPut ==
  ASSUME NEW s \in Seq(Int), NEW i \in 1..Len(s), NEW x \in Int, NEW k \in Int, s[i] # x,
         NEW t, t = Put(s, i, x)
  PROVE  Times(k, t) = Times(k, s) + (IF k = x THEN 1 ELSE 0) - (IF k = s[i] THEN 1 ELSE 0)
<1>1. t \in Seq(Int) /\ Len(t) = Len(s) /\ t[i] = x /\ \A j \in 1..Len(s) : j # i => t[j] = s[j]
  BY DEF Put
<1>2. /\ IsFiniteSet(Places(k, s)) /\ Times(k, s) = Cardinality(Places(k, s)) /\ Times(k, s) \in Nat
      /\ Times(k, t) = Cardinality(Places(k, t))
  BY <1>1, TimesPlaces, Zenon
<1>3. CASE k = x
  <2>1. Places(k, t) = Places(k, s) \cup {i} /\ i \notin Places(k, s)
    BY <1>1, <1>3 DEF Places
  <2>2. Cardinality(Places(k, s) \cup {i}) =
          IF i \in Places(k, s) THEN Cardinality(Places(k, s)) ELSE Cardinality(Places(k, s)) + 1
    BY <1>2, FS_AddElement, Zenon
  <2>3. Times(k, t) = Times(k, s) + 1
    BY <1>2, <2>1, <2>2
  <2>4. Times(k, s) + 1 = Times(k, s) + (IF k = x THEN 1 ELSE 0) - (IF k = s[i] THEN 1 ELSE 0)
    BY <1>2, <1>3
  <2> QED BY <2>3, <2>4
<1>4. CASE k = s[i]
  <2>1. Places(k, t) = Places(k, s) \ {i} /\ i \in Places(k, s)
    BY <1>1, <1>4 DEF Places
  <2>2. Cardinality(Places(k, s) \ {i}) =
          IF i \in Places(k, s) THEN Cardinality(Places(k, s)) - 1 ELSE Cardinality(Places(k, s))
    BY <1>2, FS_RemoveElement, Zenon
  <2>3. Times(k, t) = Times(k, s) - 1
    BY <1>2, <2>1, <2>2
  <2>4. Times(k, s) - 1 = Times(k, s) + (IF k = x THEN 1 ELSE 0) - (IF k = s[i] THEN 1 ELSE 0)
    BY <1>2, <1>4
  <2> QED BY <2>3, <2>4
<1>5. CASE k # x /\ k # s[i]
  <2>1. Places(k, t) = Places(k, s)
    BY <1>1, <1>5 DEF Places
  <2> QED BY <1>2, <1>5, <2>1
<1> QED BY <1>3, <1>4, <1>5

\* An appended element counts once more.
LEMMA TimesAppend ==
  ASSUME NEW s \in Seq(Int), NEW x \in Int, NEW k \in Int
  PROVE  Times(k, Append(s, x)) = Times(k, s) + (IF k = x THEN 1 ELSE 0)
<1> DEFINE t == Append(s, x)
           n == Len(s) + 1
<1>1. /\ t \in Seq(Int) /\ Len(t) = n /\ t[n] = x /\ \A j \in 1..Len(s) : t[j] = s[j]
      /\ n \notin 1..Len(s) /\ 1..n = (1..Len(s)) \cup {n}
  OBVIOUS
<1> HIDE DEF t, n
<1>2. /\ IsFiniteSet(Places(k, s)) /\ Times(k, s) = Cardinality(Places(k, s)) /\ Times(k, s) \in Nat
      /\ Times(k, t) = Cardinality(Places(k, t))
  BY <1>1, TimesPlaces, Zenon
<1>3. CASE k = x
  <2>1. Places(k, t) = Places(k, s) \cup {n} /\ n \notin Places(k, s)
    BY <1>1, <1>3 DEF Places
  <2>2. Cardinality(Places(k, s) \cup {n}) =
          IF n \in Places(k, s) THEN Cardinality(Places(k, s)) ELSE Cardinality(Places(k, s)) + 1
    BY <1>2, FS_AddElement, Zenon
  <2> QED BY <1>2, <1>3, <2>1, <2>2 DEF t
<1>4. CASE k # x
  <2>1. Places(k, t) = Places(k, s)
    BY <1>1, <1>4 DEF Places
  <2> QED BY <1>2, <1>4, <2>1 DEF t
<1> QED BY <1>3, <1>4

-----------------------------------------------------------------------------
(* The snapshot of the connections of a point.                             *)

\* The least element of a nonempty set of numbers.
Least(S) == CHOOSE n \in S : \A m \in S : n <= m

\* A nonempty set of natural numbers has a least element.
LEMMA LeastOf ==
  ASSUME NEW S \in SUBSET Nat, S # {}
  PROVE  Least(S) \in S /\ \A j \in S : Least(S) <= j
<1> DEFINE Lower == {pair \in Nat \X Nat : pair[1] < pair[2]}
<1>1. IsWellFoundedOn(Lower, Nat)
  BY NatLessThanWellFounded DEF OpToRel
<1> HIDE DEF Lower
<1>2. PICK i \in S : \A j \in S : ~(<<j, i>> \in Lower)
  BY <1>1, WFMin
<1>3. ASSUME NEW j \in S PROVE i <= j
  <2>1. i \in Nat /\ j \in Nat
    OBVIOUS
  <2>2. <<j, i>> \in Lower <=> j < i
    BY <2>1 DEF Lower
  <2> QED BY <1>2, <2>1, <2>2
<1> QED BY <1>3 DEF Least

Below(m) == {j \in Filled : j <= m}

\* A snapshot has the cookies of the clients that are connected, and no zero.
LEMMA SnapshotFits ==
  ASSUME slots \in Seq(0..MaxCookie)
  PROVE  /\ Snapshot \in Seq(Cookies)
         /\ Len(Snapshot) <= Len(slots)
<1>1. Len(slots) \in Nat /\ DOMAIN slots = 1..Len(slots) /\ MaxCookie \in Nat
  BY EnumeratorsAssumption
<1>2. IsFiniteSet(1..Len(slots)) /\ Cardinality(1..Len(slots)) = Len(slots)
  BY <1>1, UpTo, Zenon
<1>3. Filled \in SUBSET (1..Len(slots))
  BY <1>1 DEF Filled
<1>4. IsFiniteSet(Filled) /\ Cardinality(Filled) <= Len(slots)
  <2>1. IsFiniteSet(Filled) /\ Cardinality(Filled) <= Cardinality(1..Len(slots))
    BY <1>2, <1>3, FS_Subset, Zenon
  <2> QED BY <1>2, <2>1, Zenon
<1>5. Cardinality(Filled) \in Nat
  BY <1>4, FS_CardinalityType
<1>6. ASSUME NEW m \in Nat
      PROVE  IsFiniteSet(Below(m)) /\ Cardinality(Below(m)) \in Nat
  <2>1. Below(m) \in SUBSET Filled
    BY DEF Below
  <2>2. IsFiniteSet(Below(m))
    BY <1>4, <2>1, FS_Subset, Zenon
  <2> QED BY <2>2, FS_CardinalityType, Zenon
<1>7. ASSUME NEW n \in 1..Cardinality(Filled)
      PROVE  \E i \in Filled : Rank(i) = n
  <2> DEFINE Reach == {m \in 0..Len(slots) : Cardinality(Below(m)) >= n}
             i == Least(Reach)
  <2>1. Len(slots) \in Reach
    <3>1. \A j \in Filled : j <= Len(slots)
      BY <1>1, <1>3
    <3>2. Below(Len(slots)) = Filled
      BY <3>1 DEF Below
    <3> QED BY <1>1, <1>5, <3>2
  <2>2. Reach \in SUBSET Nat
    OBVIOUS
  <2>3. i \in Reach /\ \A m \in Reach : i <= m
    <3> HIDE DEF Reach
    <3> QED BY <2>1, <2>2, LeastOf
  <2>4. i \in 0..Len(slots) /\ Cardinality(Below(i)) >= n /\ n >= 1 /\ n \in Nat
    BY <1>5, <2>3
  <2> HIDE DEF i
  <2>5. i # 0
    <3>1. \A j \in Filled : ~(j <= 0)
      BY <1>1, <1>3
    <3>2. Below(0) = {}
      BY <3>1 DEF Below
    <3>3. Cardinality(Below(0)) = 0
      BY <3>2, FS_EmptySet, Zenon
    <3> QED BY <2>4, <3>3
  <2> DEFINE h == i - 1
  <2>6. h \in 0..Len(slots) /\ h \in Nat /\ i \in Nat /\ i = h + 1 /\ ~(i <= h)
    BY <1>1, <2>4, <2>5
  <2>7. h \notin Reach
    <3> HIDE DEF Reach
    <3> QED BY <2>3, <2>6
  <2> HIDE DEF h
  <2>8. Cardinality(Below(h)) < n /\ Cardinality(Below(h)) \in Nat
    BY <1>6, <2>4, <2>6, <2>7
  <2>9. Below(i) = Below(h) \cup ({i} \cap Filled)
    <3>1. \A j \in Filled : j <= i <=> (j <= h \/ j = i)
      BY <1>1, <1>3, <2>6
    <3> QED BY <3>1, <2>6 DEF Below
  <2>10. i \in Filled
    <3>1. SUFFICES ASSUME i \notin Filled PROVE FALSE
      OBVIOUS
    <3>2. Below(i) = Below(h)
      BY <2>9, <3>1
    <3> QED BY <2>4, <2>8, <3>2
  <2>11. Cardinality(Below(i)) = Cardinality(Below(h)) + 1
    <3>1. i \notin Below(h)
      BY <2>6 DEF Below
    <3>2. Below(i) = Below(h) \cup {i}
      BY <2>9, <2>10
    <3>3. Cardinality(Below(h) \cup {i}) =
            IF i \in Below(h) THEN Cardinality(Below(h)) ELSE Cardinality(Below(h)) + 1
      BY <1>6, <2>6, FS_AddElement, Zenon
    <3> QED BY <3>1, <3>2, <3>3, Zenon
  <2>12. Rank(i) = n
    <3>1. Rank(i) = Cardinality(Below(i))
      BY DEF Rank, Below
    <3>2. Cardinality(Below(i)) = n
      BY <2>4, <2>8, <2>11
    <3> QED BY <3>1, <3>2
  <2> QED BY <2>10, <2>12
<1>8. ASSUME NEW n \in 1..Cardinality(Filled)
      PROVE  slots[CHOOSE i \in Filled : Rank(i) = n] \in Cookies
  <2>1. PICK i \in Filled : i = (CHOOSE j \in Filled : Rank(j) = n)
    BY <1>7, Zenon
  <2>2. i \in 1..Len(slots) /\ slots[i] # 0
    BY <1>1 DEF Filled
  <2>3. slots[i] \in Cookies
    BY <1>1, <2>2 DEF Cookies
  <2> QED BY <2>1, <2>3, Zenon
<1>9. Snapshot \in [1..Cardinality(Filled) -> Cookies]
  BY <1>8 DEF Snapshot
<1>10. Snapshot \in Seq(Cookies) /\ Len(Snapshot) = Cardinality(Filled)
  BY <1>5, <1>9
<1> QED BY <1>4, <1>10

-----------------------------------------------------------------------------
(* The inductive invariant.                                                *)

Kinds == Local \cup {"verbs", "values", "none"}
Enumerator == [kind : Kinds, items : Seq(Int), next : Nat, refs : Nat]
Loop == [at : {"none", "running", "done", "failed"}, seen : Seq(Int)]

\* An enumerator that exists goes through something there is to enumerate, and
\* somebody refers to it.
EnumeratorKept(x) ==
  /\ x.next <= Len(x.items) /\ x.refs <= MaxRefs
  /\ x.kind = "none" => x = Nobody
  /\ x.kind # "none" => x.refs > 0 /\ x.items \in Listings

EnumeratorsKept ==
  /\ enums \in [Ids -> Enumerator] /\ loop \in [Ids -> Loop]
  /\ \A e \in Ids : EnumeratorKept(enums[e])
  /\ \A e \in Ids : loop[e].at # "none" => enums[e].kind = "values"

PointKept ==
  /\ refs \in Int /\ user \in Nat /\ given \in 0..MaxGiven
  /\ made \in 0..MaxCookie
  /\ slots \in Seq(0..made) /\ Len(slots) <= made
  /\ pins \in [Cookies -> Int] /\ taken \in [Cookies -> 0..MaxGiven]

EnumeratorsInv == EnumeratorsKept /\ PointKept /\ Accounted

\* What one enumerator counts for: references to the object, and to the
\* client of cookie k.
Weight(x) == IF x.kind \in Local
             THEN x.refs + (IF x.kind = "points" THEN Len(x.items) ELSE 0) ELSE 0
Mentions(k, x) == Times(k, IF x.kind = "connections" THEN x.items ELSE <<>>)

OwedTotal(es) == Total([e \in Ids |-> Weight(es[e])])
NamedTotal(k, es) == Total([e \in Ids |-> Mentions(k, es[e])])

\* These are natural numbers, and nobody's enumerator counts for nothing.
LEMMA Weights ==
  /\ \A x \in Enumerator : Weight(x) \in Nat /\ \A k : Mentions(k, x) \in Nat
  /\ Weight(Nobody) = 0 /\ \A k : Mentions(k, Nobody) = 0
<1>1. ASSUME NEW x \in Enumerator, NEW k
      PROVE  Weight(x) \in Nat /\ Mentions(k, x) \in Nat
  <2>1. x.items \in Seq(Int) /\ x.refs \in Nat /\ <<>> \in Seq(Int)
    BY DEF Enumerator
  <2>2. Times(k, x.items) \in Nat /\ Times(k, <<>>) \in Nat
    BY <2>1, TimesPlaces, Zenon
  <2>3. Len(x.items) \in Nat
    BY <2>1
  <2> QED BY <2>1, <2>2, <2>3 DEF Weight, Mentions
<1>2. Weight(Nobody) = 0
  BY DEF Weight, Nobody, Local
<1>3. ASSUME NEW k PROVE Mentions(k, Nobody) = 0
  <2>1. Mentions(k, Nobody) = Times(k, <<>>)
    BY DEF Mentions, Nobody
  <2> QED BY <2>1, TimesEmpty
<1> QED BY <1>1, <1>2, <1>3

\* Changing one enumerator changes the totals by the difference.
LEMMA TotalsMove ==
  ASSUME NEW es \in [Ids -> Enumerator], NEW e \in Ids, NEW x \in Enumerator, NEW k,
         NEW fs, fs = Put(es, e, x)
  PROVE  /\ OwedTotal(es) \in Nat /\ NamedTotal(k, es) \in Nat
         /\ OwedTotal(fs) = OwedTotal(es) - Weight(es[e]) + Weight(x)
         /\ NamedTotal(k, fs) = NamedTotal(k, es) - Mentions(k, es[e]) + Mentions(k, x)
<1> USE DEF Put
<1>1. /\ \A d \in Ids : Weight(es[d]) \in Nat /\ Mentions(k, es[d]) \in Nat
      /\ Weight(x) \in Nat /\ Mentions(k, x) \in Nat
  <2>1. \A d \in Ids : es[d] \in Enumerator
    OBVIOUS
  <2> QED BY <2>1, Weights, Zenon
<1>2. IsFiniteSet(Ids)
  BY EnumeratorsAssumption
<1>3. OwedTotal(es) \in Nat /\ OwedTotal(fs) = OwedTotal(es) - Weight(es[e]) + Weight(x)
  <2> DEFINE f == [d \in Ids |-> Weight(es[d])]
             g == [d \in Ids |-> Weight(fs[d])]
             w == Weight(x)
  <2>1. f \in [Ids -> Nat] /\ f[e] = Weight(es[e]) /\ w \in Nat
    BY <1>1
  <2>2. g = [f EXCEPT ![e] = w]
    OBVIOUS
  <2>3. OwedTotal(es) = Total(f) /\ OwedTotal(fs) = Total(g)
    BY DEF OwedTotal
  <2> HIDE DEF f, g, w
  <2>4. Total(f) \in Nat /\ Total([f EXCEPT ![e] = w]) = Total(f) - f[e] + w
    BY <1>2, <2>1, TotalChanges, Zenon
  <2> QED BY <2>1, <2>2, <2>3, <2>4, Zenon DEF w
<1>4. /\ NamedTotal(k, es) \in Nat
      /\ NamedTotal(k, fs) = NamedTotal(k, es) - Mentions(k, es[e]) + Mentions(k, x)
  <2> DEFINE f == [d \in Ids |-> Mentions(k, es[d])]
             g == [d \in Ids |-> Mentions(k, fs[d])]
             w == Mentions(k, x)
  <2>1. f \in [Ids -> Nat] /\ f[e] = Mentions(k, es[e]) /\ w \in Nat
    BY <1>1
  <2>2. g = [f EXCEPT ![e] = w]
    OBVIOUS
  <2>3. NamedTotal(k, es) = Total(f) /\ NamedTotal(k, fs) = Total(g)
    BY DEF NamedTotal
  <2> HIDE DEF f, g, w
  <2>4. Total(f) \in Nat /\ Total([f EXCEPT ![e] = w]) = Total(f) - f[e] + w
    BY <1>2, <2>1, TotalChanges, Zenon
  <2> QED BY <2>1, <2>2, <2>3, <2>4, Zenon DEF w
<1> QED BY <1>3, <1>4, Zenon

\* Accounted in these terms.
AddsUp ==
  /\ refs = user + given + OwedTotal(enums)
  /\ \A k \in Cookies : pins[k] = taken[k] + Times(k, slots) + NamedTotal(k, enums)
  /\ names = 0

\* It says the same.
LEMMA AccountedIs == Accounted <=> AddsUp
<1>1. [e \in Ids |-> IF enums[e].kind \in Local THEN enums[e].refs + Points(e) ELSE 0]
        = [e \in Ids |-> Weight(enums[e])]
  BY DEF Weight, Points
<1>2. ASSUME NEW k
      PROVE  [e \in Ids |-> Times(k, OfKind(e, "connections"))]
               = [e \in Ids |-> Mentions(k, enums[e])]
  BY DEF Mentions, OfKind
<1> QED BY <1>1, <1>2, Zenon DEF AddsUp, Accounted, OwedTotal, NamedTotal

Numbers ==
  /\ OwedTotal(enums) \in Nat
  /\ \A k \in Cookies : /\ NamedTotal(k, enums) \in Nat /\ Times(k, slots) \in Nat
                        /\ pins[k] \in Int /\ taken[k] \in Nat

\* The counts of a state with typed variables are numbers.
LEMMA Numeric == EnumeratorsKept /\ PointKept => Numbers
<1> SUFFICES ASSUME EnumeratorsKept, PointKept PROVE Numbers
  OBVIOUS
<1>1. OwedTotal(enums) \in Nat /\ \A k \in Cookies : NamedTotal(k, enums) \in Nat
  <2>1. CASE Ids = {}
    <3>1. /\ OwedTotal(enums) = 0
          /\ \A k : NamedTotal(k, enums) = 0
      <4>1. OwedTotal(enums) = 0
        BY <2>1, TotalZero DEF OwedTotal
      <4>2. ASSUME NEW k PROVE NamedTotal(k, enums) = 0
        BY <2>1, TotalZero DEF NamedTotal
      <4> QED BY <4>1, <4>2
    <3> QED BY <3>1
  <2>2. CASE Ids # {}
    <3>1. PICK e \in Ids : TRUE
      BY <2>2
    <3>2. enums \in [Ids -> Enumerator] /\ enums[e] \in Enumerator
      BY <3>1 DEF EnumeratorsKept
    <3>3. PICK es \in [Ids -> Enumerator], x \in Enumerator : es = enums /\ x = enums[e]
      BY <3>2
    <3>4. OwedTotal(es) \in Nat /\ \A k : NamedTotal(k, es) \in Nat
      BY <3>1, TotalsMove
    <3> QED BY <3>3, <3>4
  <2> QED BY <2>1, <2>2
<1>2. ASSUME NEW k \in Cookies
      PROVE  Times(k, slots) \in Nat /\ pins[k] \in Int /\ taken[k] \in Nat
  <2>1. slots \in Seq(0..made) /\ MaxGiven \in Nat
    BY EnumeratorsAssumption DEF PointKept
  <2>2. Times(k, slots) \in Nat
    BY <2>1, TimesPlaces, Zenon
  <2> QED BY <2>1, <2>2 DEF PointKept
<1> QED BY <1>1, <1>2 DEF Numbers

\* A step that changes one enumerator and keeps the difference between what is
\* counted and what counts.
LEMMA MoveKeeps ==
  ASSUME EnumeratorsInv, PointKept', names' = names,
         NEW e \in Ids, NEW x \in Enumerator, NEW l \in Loop,
         enums' = [enums EXCEPT ![e] = x], loop' = [loop EXCEPT ![e] = l],
         EnumeratorKept(x), l.at # "none" => x.kind = "values",
         refs' - user' - given' = refs - user - given - Weight(enums[e]) + Weight(x),
         \A k \in Cookies : pins'[k] - taken'[k] - Times(k, slots')
            = pins[k] - taken[k] - Times(k, slots) - Mentions(k, enums[e]) + Mentions(k, x)
  PROVE  EnumeratorsInv'
<1>1. EnumeratorsKept'
  BY DEF EnumeratorsInv, EnumeratorsKept
<1>2. Accounted'
  <2>1. enums \in [Ids -> Enumerator]
    BY DEF EnumeratorsInv, EnumeratorsKept
  <2>2. PICK es \in [Ids -> Enumerator] : es = enums
    BY <2>1
  <2>3. /\ OwedTotal(enums') = OwedTotal(enums) - Weight(enums[e]) + Weight(x)
        /\ \A k \in Cookies :
             NamedTotal(k, enums') = NamedTotal(k, enums) - Mentions(k, enums[e]) + Mentions(k, x)
    <3>1. PICK fs : fs = enums'
      OBVIOUS
    <3>2. fs = Put(es, e, x)
      BY <2>2, <3>1 DEF Put
    <3>3. \A k : /\ OwedTotal(fs) = OwedTotal(es) - Weight(es[e]) + Weight(x)
                 /\ NamedTotal(k, fs) = NamedTotal(k, es) - Mentions(k, es[e]) + Mentions(k, x)
      BY <3>2, TotalsMove
    <3> QED BY <2>2, <3>1, <3>3
  <2>4. /\ Weight(x) \in Nat /\ \A k \in Cookies : Mentions(k, x) \in Nat
        /\ Weight(enums[e]) \in Nat /\ \A k \in Cookies : Mentions(k, enums[e]) \in Nat
    BY <2>1, Weights
  <2>5. Numbers
    BY Numeric DEF EnumeratorsInv
  <2>6. Numbers'
    BY <1>1, Numeric, PTL
  <2>7. refs \in Int /\ user \in Int /\ given \in Int /\ refs' \in Int /\ user' \in Int /\ given' \in Int
    BY DEF EnumeratorsInv, PointKept
  <2>8. AddsUp
    BY AccountedIs DEF EnumeratorsInv
  <2>9. refs' = user' + given' + OwedTotal(enums')
    BY <2>3, <2>4, <2>5, <2>7, <2>8 DEF AddsUp, Numbers
  <2>10. \A k \in Cookies : pins'[k] = taken'[k] + Times(k, slots') + NamedTotal(k, enums')
    <3> SUFFICES ASSUME NEW k \in Cookies
                 PROVE  pins'[k] = taken'[k] + Times(k, slots') + NamedTotal(k, enums')
      OBVIOUS
    <3>1. pins'[k] - taken'[k] - Times(k, slots')
            = pins[k] - taken[k] - Times(k, slots) - Mentions(k, enums[e]) + Mentions(k, x)
      OBVIOUS
    <3>2. /\ NamedTotal(k, enums') = NamedTotal(k, enums) - Mentions(k, enums[e]) + Mentions(k, x)
          /\ Mentions(k, x) \in Nat /\ Mentions(k, enums[e]) \in Nat
      BY <2>3, <2>4
    <3>3. /\ pins[k] = taken[k] + Times(k, slots) + NamedTotal(k, enums)
          /\ NamedTotal(k, enums) \in Nat /\ Times(k, slots) \in Nat
          /\ pins[k] \in Int /\ taken[k] \in Nat
      BY <2>5, <2>8 DEF AddsUp, Numbers
    <3>4. Times(k, slots') \in Nat /\ pins'[k] \in Int /\ taken'[k] \in Nat
      BY <2>6 DEF Numbers
    <3> QED BY <3>1, <3>2, <3>3, <3>4
  <2>11. names' = 0
    BY <2>8 DEF AddsUp
  <2>12. AddsUp'
    BY <2>9, <2>10, <2>11 DEF AddsUp
  <2> QED BY <2>12, AccountedIs, PTL
<1> QED BY <1>1, <1>2 DEF EnumeratorsInv

\* The same for a step that leaves the enumerators alone.
LEMMA StayKeeps ==
  ASSUME EnumeratorsInv, PointKept', names' = names, enums' = enums, loop' = loop,
         refs' - user' - given' = refs - user - given,
         \A k \in Cookies : pins'[k] - taken'[k] - Times(k, slots')
                              = pins[k] - taken[k] - Times(k, slots)
  PROVE  EnumeratorsInv'
<1>1. EnumeratorsKept'
  BY DEF EnumeratorsInv, EnumeratorsKept
<1>2. Accounted'
  <2>1. OwedTotal(enums') = OwedTotal(enums) /\ \A k : NamedTotal(k, enums') = NamedTotal(k, enums)
    OBVIOUS
  <2>2. Numbers
    BY Numeric DEF EnumeratorsInv
  <2>3. Numbers'
    BY <1>1, Numeric, PTL
  <2>4. refs \in Int /\ user \in Int /\ given \in Int /\ refs' \in Int /\ user' \in Int /\ given' \in Int
    BY DEF EnumeratorsInv, PointKept
  <2>5. AddsUp
    BY AccountedIs DEF EnumeratorsInv
  <2>6. refs' = user' + given' + OwedTotal(enums')
    BY <2>1, <2>2, <2>4, <2>5 DEF AddsUp, Numbers
  <2>7. \A k \in Cookies : pins'[k] = taken'[k] + Times(k, slots') + NamedTotal(k, enums')
    BY <2>1, <2>2, <2>3, <2>5 DEF AddsUp, Numbers
  <2>8. names' = 0
    BY <2>5 DEF AddsUp
  <2>9. AddsUp'
    BY <2>6, <2>7, <2>8 DEF AddsUp
  <2> QED BY <2>9, AccountedIs, PTL
<1> QED BY <1>1, <1>2 DEF EnumeratorsInv

-----------------------------------------------------------------------------
(* Steps of the object and of its point.                                   *)

\* A cookie can be told from the point, and is a number.
LEMMA CookiesAre ==
  /\ Cookies \subseteq Int /\ 0 \notin Cookies /\ MaxCookie \in Nat /\ MaxGiven \in Nat
  /\ MaxRefs \in Nat /\ MaxRefs > 0
<1> QED BY EnumeratorsAssumption DEF Cookies

\* The point goes with the last reference to the object, and lets go of the
\* clients in its slots.
LEMMA CountsKeeps ==
  ASSUME EnumeratorsInv, Counts(-1), UNCHANGED <<made, taken, enums, names, loop>>,
         user' \in Nat, given' \in 0..MaxGiven, user' + given' = user + given - 1
  PROVE  EnumeratorsInv'
<1>1. /\ refs \in Int /\ slots \in Seq(0..made) /\ pins \in [Cookies -> Int]
      /\ Len(slots) <= made /\ made \in 0..MaxCookie /\ taken \in [Cookies -> 0..MaxGiven]
      /\ user \in Nat /\ given \in Nat
  BY CookiesAre DEF EnumeratorsInv, PointKept
<1>2. \A k \in Cookies : Times(k, slots) \in Nat
  BY <1>1, TimesPlaces, Zenon
<1>3. refs' = refs - 1 /\ refs' - user' - given' = refs - user - given
  <2>1. refs' = refs - 1
    BY <1>1 DEF Counts
  <2>2. user' \in Int /\ given' \in Int
    BY CookiesAre
  <2>3. user' + given' = user + given - 1
    OBVIOUS
  <2> DEFINE u == user'
             g == given'
  <2>4. u \in Int /\ g \in Int
    BY <2>2
  <2>5. user \in Int /\ given \in Int
    BY <1>1
  <2>6. u + g = user + given - 1
    BY <2>3
  <2> HIDE DEF u, g
  <2>7. (refs - 1) - u - g = refs - user - given
    BY <1>1, <2>4, <2>5, <2>6
  <2> QED BY <2>1, <2>7 DEF u, g
<1>4. CASE slots' = slots /\ pins' = pins
  <2>1. PointKept'
    BY <1>1, <1>3, <1>4 DEF PointKept
  <2>2. refs' - user' - given' = refs - user - given
    BY <1>3
  <2>3. \A k \in Cookies : pins'[k] - taken'[k] - Times(k, slots')
                             = pins[k] - taken[k] - Times(k, slots)
    BY <1>4
  <2> QED BY <2>1, <2>2, <2>3, StayKeeps
<1>5. CASE slots' = <<>> /\ pins' = [k \in Cookies |-> pins[k] - Times(k, slots)]
  <2>1. PointKept'
    <3>1. pins' \in [Cookies -> Int]
      BY <1>1, <1>2, <1>5
    <3>2. slots' \in Seq(0..made') /\ Len(slots') <= made'
      BY <1>1, <1>5
    <3> QED BY <1>1, <1>3, <3>1, <3>2 DEF PointKept
  <2>2. refs' - user' - given' = refs - user - given
    BY <1>3
  <2>3. ASSUME NEW k \in Cookies
        PROVE  pins'[k] - taken'[k] - Times(k, slots') = pins[k] - taken[k] - Times(k, slots)
    <3>1. Times(k, slots') = 0
      BY <1>5, TimesEmpty
    <3>2. pins'[k] = pins[k] - Times(k, slots) /\ taken'[k] = taken[k]
      BY <1>5
    <3>3. pins[k] \in Int /\ taken[k] \in Int /\ Times(k, slots) \in Nat
      BY <1>1, <1>2
    <3> QED BY <3>1, <3>2, <3>3
  <2> QED BY <2>1, <2>2, <2>3, StayKeeps
<1> QED BY <1>4, <1>5 DEF Counts

\* FindConnectionPoint, Release of the point and of the object.
LEMMA ObjectSteps ==
  ASSUME EnumeratorsInv, FindConnectionPoint \/ ReleasePoint \/ ReleaseObject
  PROVE  EnumeratorsInv'
<1>1. user \in Nat /\ given \in 0..MaxGiven /\ refs \in Int /\ MaxGiven \in Nat
  BY CookiesAre DEF EnumeratorsInv, PointKept
<1>2. CASE FindConnectionPoint
  <2>1. refs' - user' - given' = refs - user - given
    BY <1>1, <1>2 DEF FindConnectionPoint
  <2>2. PointKept'
    BY <1>1, <1>2 DEF FindConnectionPoint, EnumeratorsInv, PointKept, point
  <2> QED BY <1>2, <2>1, <2>2, StayKeeps DEF FindConnectionPoint, point
<1>3. CASE ReleasePoint
  <2>1. user' \in Nat /\ given' \in 0..MaxGiven /\ user' + given' = user + given - 1
    BY <1>1, <1>3 DEF ReleasePoint
  <2> QED BY <1>3, <2>1, CountsKeeps DEF ReleasePoint
<1>4. CASE ReleaseObject
  <2>1. user' \in Nat /\ given' \in 0..MaxGiven /\ user' + given' = user + given - 1
    BY <1>1, <1>4 DEF ReleaseObject
  <2> QED BY <1>4, <2>1, CountsKeeps DEF ReleaseObject
<1> QED BY <1>2, <1>3, <1>4

\* Advise takes a slot nobody has, or one more, for a cookie that is new.
LEMMA AdviseKeeps ==
  ASSUME EnumeratorsInv, Advise
  PROVE  EnumeratorsInv'
<1>1. /\ refs \in Int /\ slots \in Seq(0..made) /\ pins \in [Cookies -> Int]
      /\ Len(slots) <= made /\ made \in 0..MaxCookie /\ taken \in [Cookies -> 0..MaxGiven]
      /\ user \in Nat /\ given \in 0..MaxGiven
  BY DEF EnumeratorsInv, PointKept
<1> DEFINE m == made + 1
<1>2. /\ m \in Cookies /\ m \in Int /\ m \in 0..MaxCookie /\ m \in 0..m
      /\ made' = m /\ pins' = [pins EXCEPT ![m] = @ + 1]
      /\ UNCHANGED <<refs, user, given, taken, enums, names, loop>>
  BY <1>1, CookiesAre DEF Advise, Cookies, object
<1>3. slots \in Seq(0..m) /\ slots \in Seq(Int) /\ Len(slots) + 1 <= m /\ m # 0
  BY <1>1
<1>4. \/ \E i \in 1..Len(slots) : slots[i] = 0 /\ slots' = [slots EXCEPT ![i] = m]
      \/ slots' = Append(slots, m)
  BY DEF Advise, Firsts
<1> HIDE DEF m
<1>5. ASSUME NEW k \in Cookies
      PROVE  Times(k, slots') = Times(k, slots) + (IF k = m THEN 1 ELSE 0)
  <2>1. k \in Int /\ k # 0
    BY CookiesAre
  <2>2. CASE slots' = Append(slots, m)
    BY <1>2, <1>3, <2>1, <2>2, TimesAppend
  <2>3. ASSUME NEW i \in 1..Len(slots), slots[i] = 0, slots' = [slots EXCEPT ![i] = m]
        PROVE  Times(k, slots') = Times(k, slots) + (IF k = m THEN 1 ELSE 0)
    <3>1. PICK s \in Seq(Int) : s = slots
      BY <1>3
    <3>2. PICK t : t = Put(s, i, m)
      OBVIOUS
    <3>3. s[i] # m /\ i \in 1..Len(s) /\ m \in Int
      BY <1>2, <1>3, <2>3, <3>1
    <3>4. Times(k, t) = Times(k, s) + (IF k = m THEN 1 ELSE 0) - (IF k = s[i] THEN 1 ELSE 0)
      BY <2>1, <3>2, <3>3, TimesPut
    <3>5. Times(k, s) \in Nat
      BY TimesPlaces
    <3>6. slots' = t /\ s[i] # k
      BY <2>1, <2>3, <3>1, <3>2 DEF Put
    <3> QED BY <3>1, <3>4, <3>5, <3>6
  <2> QED BY <1>4, <2>2, <2>3
<1>6. PointKept'
  <2>1. slots' \in Seq(0..m) /\ Len(slots') <= m
    <3>1. CASE slots' = Append(slots, m)
      BY <1>2, <1>3, <3>1
    <3>2. ASSUME NEW i \in 1..Len(slots), slots' = [slots EXCEPT ![i] = m]
          PROVE  slots' \in Seq(0..m) /\ Len(slots') <= m
      <4>1. Len(slots) \in Nat /\ m \in Int
        BY <1>2, <1>3
      <4>2. slots' \in Seq(0..m) /\ Len(slots') = Len(slots)
        BY <1>2, <1>3, <3>2
      <4> QED BY <1>3, <4>1, <4>2
    <3> QED BY <1>4, <3>1, <3>2
  <2>2. pins' \in [Cookies -> Int]
    BY <1>1, <1>2
  <2> QED BY <1>1, <1>2, <2>1, <2>2 DEF PointKept
<1>7. refs' - user' - given' = refs - user - given
  BY <1>2
<1>8. ASSUME NEW k \in Cookies
      PROVE  pins'[k] - taken'[k] - Times(k, slots') = pins[k] - taken[k] - Times(k, slots)
  <2>1. pins[k] \in Int /\ taken[k] \in Int /\ taken'[k] = taken[k]
    BY <1>1, <1>2
  <2>2. pins'[k] = pins[k] + (IF k = m THEN 1 ELSE 0)
    BY <1>1, <1>2
  <2>3. Times(k, slots) \in Nat
    BY <1>3, TimesPlaces, Zenon
  <2> QED BY <1>5, <2>1, <2>2, <2>3
<1> QED BY <1>2, <1>6, <1>7, <1>8, StayKeeps

\* Unadvise empties one slot and gives up its reference.
LEMMA UnadviseKeeps ==
  ASSUME EnumeratorsInv, NEW c \in Cookies, Unadvise(c)
  PROVE  EnumeratorsInv'
<1>1. /\ refs \in Int /\ slots \in Seq(0..made) /\ pins \in [Cookies -> Int]
      /\ Len(slots) <= made /\ made \in 0..MaxCookie /\ taken \in [Cookies -> 0..MaxGiven]
      /\ user \in Nat /\ given \in 0..MaxGiven
  BY DEF EnumeratorsInv, PointKept
<1>2. /\ pins' = [pins EXCEPT ![c] = @ - 1]
      /\ UNCHANGED <<refs, user, given, made, taken, enums, names, loop>>
  BY DEF Unadvise, object
<1>3. PICK i \in 1..Len(slots) : slots[i] = c /\ slots' = [slots EXCEPT ![i] = 0]
  <2>1. DOMAIN slots = 1..Len(slots)
    BY <1>1
  <2> QED BY <2>1 DEF Unadvise
<1>4. PICK s \in Seq(Int) : s = slots
  BY <1>1
<1>5. ASSUME NEW k \in Cookies
      PROVE  Times(k, slots') = Times(k, slots) - (IF k = c THEN 1 ELSE 0)
  <2>1. k \in Int /\ k # 0 /\ c # 0
    BY CookiesAre
  <2>2. Times(k, slots') = Times(k, s) - (IF k = s[i] THEN 1 ELSE 0)
    <3>1. s[i] # 0 /\ i \in 1..Len(s)
      BY <1>3, <1>4, <2>1
    <3>2. PICK z \in Int : z = 0
      OBVIOUS
    <3>3. PICK t : t = Put(s, i, z)
      OBVIOUS
    <3>4. s[i] # z /\ i \in 1..Len(s) /\ k \in Int
      BY <2>1, <3>1, <3>2
    <3>5. Times(k, t) = Times(k, s) + (IF k = z THEN 1 ELSE 0) - (IF k = s[i] THEN 1 ELSE 0)
      BY <3>3, <3>4, TimesPut
    <3>6. slots' = t
      BY <1>3, <1>4, <3>2, <3>3 DEF Put
    <3>7. Times(k, s) \in Nat
      BY TimesPlaces
    <3> QED BY <2>1, <3>2, <3>4, <3>5, <3>6, <3>7
  <2>3. Times(k, s) \in Nat
    BY TimesPlaces
  <2> QED BY <1>3, <1>4, <2>1, <2>2, <2>3
<1>6. PointKept'
  <2>1. slots' \in Seq(0..made) /\ Len(slots') = Len(slots)
    BY <1>1, <1>3
  <2>2. pins' \in [Cookies -> Int]
    BY <1>1, <1>2
  <2> QED BY <1>1, <1>2, <2>1, <2>2 DEF PointKept
<1>7. refs' - user' - given' = refs - user - given
  BY <1>2
<1>8. ASSUME NEW k \in Cookies
      PROVE  pins'[k] - taken'[k] - Times(k, slots') = pins[k] - taken[k] - Times(k, slots)
  <2>1. pins[k] \in Int /\ taken[k] \in Int /\ taken'[k] = taken[k]
    BY <1>1, <1>2
  <2>2. pins'[k] = pins[k] - (IF k = c THEN 1 ELSE 0)
    BY <1>1, <1>2
  <2>3. Times(k, slots) \in Nat
    BY <1>4, TimesPlaces, Zenon
  <2> QED BY <1>5, <2>1, <2>2, <2>3
<1> QED BY <1>2, <1>6, <1>7, <1>8, StayKeeps

\* A caller lets go of a client that Next passed on to it.
LEMMA ReleaseClientKeeps ==
  ASSUME EnumeratorsInv, NEW c \in Cookies, ReleaseClient(c)
  PROVE  EnumeratorsInv'
<1>1. /\ pins \in [Cookies -> Int] /\ taken \in [Cookies -> 0..MaxGiven]
      /\ slots \in Seq(0..made) /\ refs \in Int /\ user \in Nat /\ given \in 0..MaxGiven
  BY DEF EnumeratorsInv, PointKept
<1>2. /\ pins' = [pins EXCEPT ![c] = @ - 1] /\ taken' = [taken EXCEPT ![c] = @ - 1]
      /\ taken[c] > 0
      /\ UNCHANGED <<refs, user, given, slots, made, enums, names, loop>>
  BY DEF ReleaseClient, object
<1>3. PointKept'
  <2>1. taken[c] - 1 \in 0..MaxGiven
    BY <1>1, <1>2, CookiesAre
  <2>2. taken' \in [Cookies -> 0..MaxGiven]
    BY <1>1, <1>2, <2>1
  <2>3. pins' \in [Cookies -> Int]
    BY <1>1, <1>2
  <2> QED BY <1>2, <2>2, <2>3 DEF EnumeratorsInv, PointKept
<1>4. refs' - user' - given' = refs - user - given
  BY <1>2
<1>5. ASSUME NEW k \in Cookies
      PROVE  pins'[k] - taken'[k] - Times(k, slots') = pins[k] - taken[k] - Times(k, slots)
  <2>1. pins[k] \in Int /\ taken[k] \in Int
    BY <1>1
  <2>2. /\ pins'[k] = pins[k] - (IF k = c THEN 1 ELSE 0)
        /\ taken'[k] = taken[k] - (IF k = c THEN 1 ELSE 0)
    BY <1>1, <1>2
  <2>3. pins'[k] - taken'[k] = pins[k] - taken[k]
    BY <2>1, <2>2
  <2> QED BY <1>2, <2>3
<1> QED BY <1>2, <1>3, <1>4, <1>5, StayKeeps

-----------------------------------------------------------------------------
(* Steps of the enumerators.                                               *)

\* What there is to enumerate is a sequence of numbers.
LEMMA ListingsAre ==
  /\ \A s \in Listings : s \in Seq(Int) /\ Len(s) \in Nat
  /\ Verbs \in Listings /\ <<Point>> \in Listings
  /\ \A s \in Collections : s \in Listings
  /\ \A s \in Seq(Cookies) : Len(s) <= MaxCookie => s \in Listings
<1>1. ASSUME NEW s \in Listings PROVE s \in Seq(Int)
  <2>1. CASE s = Verbs \/ s \in Collections
    BY <2>1, EnumeratorsAssumption
  <2>2. CASE s = <<Point>>
    BY <2>2 DEF Point
  <2>3. ASSUME NEW n \in 0..MaxCookie, s \in [1..n -> Cookies]
        PROVE  s \in Seq(Int)
    <3>1. n \in Nat /\ Cookies \subseteq Int
      BY CookiesAre
    <3>2. s \in [1..n -> Int]
      BY <2>3, <3>1
    <3> QED BY <3>1, <3>2
  <2> QED BY <2>1, <2>2, <2>3 DEF Listings
<1>2. ASSUME NEW s \in Seq(Cookies), Len(s) <= MaxCookie
      PROVE  s \in Listings
  <2>1. Len(s) \in 0..MaxCookie /\ s \in [1..Len(s) -> Cookies]
    BY <1>2, CookiesAre
  <2> QED BY <2>1 DEF Listings
<1>3. /\ Verbs \in Listings /\ <<Point>> \in Listings
      /\ \A s \in Collections : s \in Listings
  BY DEF Listings
<1> QED BY <1>1, <1>2, <1>3

\* An enumerator that has just been made.
LEMMA NewKept ==
  ASSUME NEW kind \in Kinds \ {"none"}, NEW items \in Listings, NEW next \in Nat,
         next <= Len(items)
  PROVE  LET x == New(kind, items, next) IN
         /\ x \in Enumerator /\ EnumeratorKept(x)
         /\ Weight(x) = IF kind \in Local
                        THEN 1 + (IF kind = "points" THEN Len(items) ELSE 0) ELSE 0
         /\ \A k : Mentions(k, x) = IF kind = "connections" THEN Times(k, items) ELSE 0
<1> DEFINE x == New(kind, items, next)
<1>1. items \in Seq(Int)
  BY ListingsAre
<1>2. x = [kind |-> kind, items |-> items, next |-> next, refs |-> 1]
  BY DEF New
<1> HIDE DEF x
<1>3. x.kind = kind /\ x.items = items /\ x.next = next /\ x.refs = 1
  BY <1>2
<1>4. x \in Enumerator
  BY <1>1, <1>2 DEF Enumerator
<1>5. EnumeratorKept(x)
  BY <1>3, CookiesAre DEF EnumeratorKept
<1>6. Weight(x) = IF kind \in Local
                  THEN 1 + (IF kind = "points" THEN Len(items) ELSE 0) ELSE 0
  BY <1>3, Zenon DEF Weight
<1>7. ASSUME NEW k
      PROVE  Mentions(k, x) = IF kind = "connections" THEN Times(k, items) ELSE 0
  BY <1>3, TimesEmpty, Zenon DEF Mentions
<1> QED BY <1>4, <1>5, <1>6, <1>7 DEF x

\* What the invariant says of one enumerator.
LEMMA OneKept ==
  ASSUME EnumeratorsInv, NEW e \in Ids
  PROVE  /\ enums[e] \in Enumerator /\ EnumeratorKept(enums[e])
         /\ enums[e].items \in Seq(Int) /\ Len(enums[e].items) \in Nat
         /\ enums[e].next \in 0..Len(enums[e].items) /\ enums[e].refs \in Nat
         /\ loop[e] \in Loop
         /\ loop[e].at # "none" => enums[e].kind = "values"
         /\ ~Free(e) => enums[e].refs > 0 /\ enums[e].items \in Listings
<1>1. enums[e] \in Enumerator /\ EnumeratorKept(enums[e]) /\ loop[e] \in Loop
      /\ (loop[e].at # "none" => enums[e].kind = "values")
  BY DEF EnumeratorsInv, EnumeratorsKept
<1>2. enums[e].items \in Seq(Int) /\ enums[e].next \in Nat /\ enums[e].refs \in Nat
  BY <1>1 DEF Enumerator
<1>3. Len(enums[e].items) \in Nat
  BY <1>2
<1>4. enums[e].next \in 0..Len(enums[e].items)
  BY <1>1, <1>2, <1>3 DEF EnumeratorKept
<1> QED BY <1>1, <1>2, <1>3, <1>4 DEF EnumeratorKept, Free

\* A step that puts x in the place of an enumerator, while no loop has it.
LEMMA PutKeeps ==
  ASSUME EnumeratorsInv, PointKept', names' = names,
         NEW e \in Ids, NEW x \in Enumerator,
         enums' = [enums EXCEPT ![e] = x], loop' = loop,
         loop[e].at = "none" \/ x.kind = "values",
         EnumeratorKept(x),
         refs' - user' - given' = refs - user - given - Weight(enums[e]) + Weight(x),
         \A k \in Cookies : pins'[k] - taken'[k] - Times(k, slots')
            = pins[k] - taken[k] - Times(k, slots) - Mentions(k, enums[e]) + Mentions(k, x)
  PROVE  EnumeratorsInv'
<1>1. PICK l \in Loop : l = loop[e]
  BY OneKept
<1>2. loop' = [loop EXCEPT ![e] = l]
  BY <1>1 DEF EnumeratorsInv, EnumeratorsKept
<1>3. l.at # "none" => x.kind = "values"
  BY <1>1
<1> QED BY <1>2, <1>3, MoveKeeps

\* The same with a free place, where x comes into being.
LEMMA MakeKeeps ==
  ASSUME EnumeratorsInv, PointKept', names' = names,
         NEW e \in Ids, NEW x \in Enumerator, Free(e),
         enums' = [enums EXCEPT ![e] = x], loop' = loop, EnumeratorKept(x),
         refs' - user' - given' = refs - user - given + Weight(x),
         \A k \in Cookies : pins'[k] - taken'[k] - Times(k, slots')
            = pins[k] - taken[k] - Times(k, slots) + Mentions(k, x)
  PROVE  EnumeratorsInv'
<1>1. enums[e] = Nobody /\ loop[e].at = "none"
  BY OneKept DEF Free, EnumeratorKept
<1>2. Weight(enums[e]) = 0 /\ \A k : Mentions(k, enums[e]) = 0
  BY <1>1, Weights
<1>3. /\ refs \in Int /\ user \in Int /\ given \in Int
      /\ \A k \in Cookies : Times(k, slots) \in Nat /\ pins[k] \in Int /\ taken[k] \in Nat
  <2>1. refs \in Int /\ user \in Int /\ given \in Int
    BY DEF EnumeratorsInv, PointKept
  <2> QED BY <2>1, Numeric DEF Numbers, EnumeratorsInv
<1>4. refs' - user' - given' = refs - user - given - Weight(enums[e]) + Weight(x)
  BY <1>2, <1>3
<1>5. ASSUME NEW k \in Cookies
      PROVE  pins'[k] - taken'[k] - Times(k, slots')
               = pins[k] - taken[k] - Times(k, slots) - Mentions(k, enums[e]) + Mentions(k, x)
  <2>1. pins'[k] - taken'[k] - Times(k, slots')
          = pins[k] - taken[k] - Times(k, slots) + Mentions(k, x)
    OBVIOUS
  <2>2. pins[k] - taken[k] - Times(k, slots) - Mentions(k, enums[e])
          = pins[k] - taken[k] - Times(k, slots)
    BY <1>2, <1>3
  <2> QED BY <2>1, <2>2
<1> QED BY <1>1, <1>4, <1>5, PutKeeps

\* EnumConnectionPoints: the object's point, and two references to the object.
LEMMA EnumConnectionPointsKeeps ==
  ASSUME EnumeratorsInv, NEW e \in Ids, EnumConnectionPoints(e)
  PROVE  EnumeratorsInv'
<1>1. /\ Free(e) /\ enums' = [enums EXCEPT ![e] = New("points", <<Point>>, 0)]
      /\ refs' = refs + 1 + 1
      /\ UNCHANGED <<user, given, slots, made, pins, taken, names, loop>>
  BY DEF EnumConnectionPoints, point
<1>2. <<Point>> \in Listings /\ Len(<<Point>>) = 1
  BY ListingsAre
<1>3. PICK x : x = New("points", <<Point>>, 0)
  OBVIOUS
<1>4. x \in Enumerator /\ EnumeratorKept(x) /\ Weight(x) = 2 /\ \A k : Mentions(k, x) = 0
  <2>1. "points" \in Kinds \ {"none"} /\ 0 \in Nat /\ 0 <= Len(<<Point>>) /\ "points" \in Local
    BY <1>2 DEF Kinds, Local
  <2>2. PICK kind \in Kinds \ {"none"}, items \in Listings, next \in Nat :
          kind = "points" /\ items = <<Point>> /\ next = 0
    BY <1>2, <2>1
  <2>3. next <= Len(items)
    BY <1>2, <2>2
  <2>4. LET z == New(kind, items, next) IN
         /\ z \in Enumerator /\ EnumeratorKept(z)
         /\ Weight(z) = IF kind \in Local
                        THEN 1 + (IF kind = "points" THEN Len(items) ELSE 0) ELSE 0
         /\ \A k : Mentions(k, z) = IF kind = "connections" THEN Times(k, items) ELSE 0
    BY <2>3, NewKept
  <2> QED BY <1>2, <1>3, <2>1, <2>2, <2>4
<1>5. PointKept'
  BY <1>1 DEF EnumeratorsInv, PointKept
<1>6. refs' - user' - given' = refs - user - given + Weight(x)
  BY <1>1, <1>4 DEF EnumeratorsInv, PointKept
<1>7. ASSUME NEW k \in Cookies
      PROVE  pins'[k] - taken'[k] - Times(k, slots')
               = pins[k] - taken[k] - Times(k, slots) + Mentions(k, x)
  <2>1. Times(k, slots) \in Nat /\ pins[k] \in Int /\ taken[k] \in Nat
    BY Numeric DEF Numbers, EnumeratorsInv
  <2> QED BY <1>1, <1>4, <2>1
<1> QED BY <1>1, <1>3, <1>4, <1>5, <1>6, <1>7, MakeKeeps

\* EnumConnections: the connections of the moment, kept alive by the snapshot.
LEMMA EnumConnectionsKeeps ==
  ASSUME EnumeratorsInv, NEW e \in Ids, EnumConnections(e)
  PROVE  EnumeratorsInv'
<1>1. /\ Free(e) /\ enums' = [enums EXCEPT ![e] = New("connections", Snapshot, 0)]
      /\ refs' = refs + 1 /\ pins' = [k \in Cookies |-> pins[k] + Times(k, Snapshot)]
      /\ UNCHANGED <<user, given, slots, made, taken, names, loop>>
  BY DEF EnumConnections
<1>2. PICK items \in Listings : items = Snapshot
  <2>1. slots \in Seq(0..made) /\ made \in 0..MaxCookie /\ Len(slots) <= made
    BY DEF EnumeratorsInv, PointKept
  <2>2. slots \in Seq(0..MaxCookie) /\ Len(slots) \in Nat
    BY <2>1, CookiesAre
  <2>3. Snapshot \in Seq(Cookies) /\ Len(Snapshot) <= Len(slots)
    BY <2>2, SnapshotFits
  <2>4. Len(Snapshot) <= MaxCookie
    <3>1. Len(Snapshot) \in Nat
      BY <2>3
    <3> QED BY <2>1, <2>2, <2>3, <3>1, CookiesAre
  <2>5. Snapshot \in Listings
    BY <2>3, <2>4, ListingsAre
  <2> QED BY <2>5
<1>3. PICK x : x = New("connections", items, 0)
  OBVIOUS
<1>4. /\ x \in Enumerator /\ EnumeratorKept(x) /\ Weight(x) = 1
      /\ \A k : Mentions(k, x) = Times(k, items)
  <2>1. "connections" \in Kinds \ {"none"} /\ 0 \in Nat /\ 0 <= Len(items) /\ "connections" \in Local
    BY ListingsAre DEF Kinds, Local
  <2>2. PICK kind \in Kinds \ {"none"}, next \in Nat : kind = "connections" /\ next = 0
    BY <2>1
  <2>3. next <= Len(items)
    BY <2>1, <2>2
  <2>4. LET z == New(kind, items, next) IN
         /\ z \in Enumerator /\ EnumeratorKept(z)
         /\ Weight(z) = IF kind \in Local
                        THEN 1 + (IF kind = "points" THEN Len(items) ELSE 0) ELSE 0
         /\ \A k : Mentions(k, z) = IF kind = "connections" THEN Times(k, items) ELSE 0
    BY <2>3, NewKept
  <2> QED BY <1>3, <2>1, <2>2, <2>4
<1>5. ASSUME NEW k \in Cookies
      PROVE  /\ Times(k, slots) \in Nat /\ pins[k] \in Int /\ taken[k] \in Nat
             /\ Times(k, items) \in Nat /\ pins'[k] = pins[k] + Times(k, items)
  <2>1. Times(k, slots) \in Nat /\ pins[k] \in Int /\ taken[k] \in Nat
    BY Numeric DEF Numbers, EnumeratorsInv
  <2>2. items \in Seq(Int)
    BY ListingsAre
  <2>3. Times(k, items) \in Nat
    BY <2>2, TimesPlaces, Zenon
  <2> QED BY <1>1, <1>2, <2>1, <2>3
<1>6. PointKept'
  <2>1. pins' \in [Cookies -> Int]
    BY <1>1, <1>2, <1>5
  <2> QED BY <1>1, <2>1 DEF EnumeratorsInv, PointKept
<1>7. refs' - user' - given' = refs - user - given + Weight(x)
  BY <1>1, <1>4 DEF EnumeratorsInv, PointKept
<1>8. ASSUME NEW k \in Cookies
      PROVE  pins'[k] - taken'[k] - Times(k, slots')
               = pins[k] - taken[k] - Times(k, slots) + Mentions(k, x)
  <2>1. Mentions(k, x) = Times(k, items) /\ slots' = slots /\ taken' = taken
    BY <1>1, <1>4
  <2> QED BY <1>5, <2>1
<1> QED BY <1>1, <1>2, <1>3, <1>4, <1>6, <1>7, <1>8, MakeKeeps

\* EnumVerbs and GetEnumerator: what these enumerate counts for nobody.
LEMMA EnumOthersKeeps ==
  ASSUME EnumeratorsInv, NEW e \in Ids, EnumVerbs(e) \/ GetEnumerator(e)
  PROVE  EnumeratorsInv'
<1>1. /\ Free(e) /\ UNCHANGED <<refs, user, given, slots, made, pins, taken, names, loop>>
  BY DEF EnumVerbs, GetEnumerator, object, point
<1>2. PICK kind \in {"verbs", "values"}, items \in Listings :
        enums' = [enums EXCEPT ![e] = New(kind, items, 0)]
  BY ListingsAre DEF EnumVerbs, GetEnumerator
<1>3. PICK x : x = New(kind, items, 0)
  OBVIOUS
<1>4. x \in Enumerator /\ EnumeratorKept(x) /\ Weight(x) = 0 /\ \A k : Mentions(k, x) = 0
  <2>1. kind \in Kinds \ {"none"} /\ 0 \in Nat /\ 0 <= Len(items) /\ kind \notin Local
        /\ kind # "connections"
    BY ListingsAre DEF Kinds, Local
  <2>2. PICK next \in Nat : next = 0
    OBVIOUS
  <2>3. next <= Len(items)
    BY <2>1, <2>2
  <2>4. LET z == New(kind, items, next) IN
         /\ z \in Enumerator /\ EnumeratorKept(z)
         /\ Weight(z) = IF kind \in Local
                        THEN 1 + (IF kind = "points" THEN Len(items) ELSE 0) ELSE 0
         /\ \A k : Mentions(k, z) = IF kind = "connections" THEN Times(k, items) ELSE 0
    BY <2>1, <2>3, NewKept
  <2> QED BY <1>3, <2>1, <2>2, <2>4
<1>5. PointKept'
  BY <1>1 DEF EnumeratorsInv, PointKept
<1>6. refs' - user' - given' = refs - user - given + Weight(x)
  BY <1>1, <1>4 DEF EnumeratorsInv, PointKept
<1>7. ASSUME NEW k \in Cookies
      PROVE  pins'[k] - taken'[k] - Times(k, slots')
               = pins[k] - taken[k] - Times(k, slots) + Mentions(k, x)
  <2>1. Times(k, slots) \in Nat /\ pins[k] \in Int /\ taken[k] \in Nat
    BY Numeric DEF Numbers, EnumeratorsInv
  <2> QED BY <1>1, <1>4, <2>1
<1> QED BY <1>1, <1>2, <1>3, <1>4, <1>5, <1>6, <1>7, MakeKeeps

\* Clone: the same elements from the same place, and the same references again.
LEMMA CloneKeeps ==
  ASSUME EnumeratorsInv, NEW e \in Ids, NEW f \in Ids, Clone(e, f)
  PROVE  EnumeratorsInv'
<1> DEFINE y == enums[e]
<1>1. /\ ~Free(e) /\ Free(f)
      /\ enums' = [enums EXCEPT ![f] = New(y.kind, y.items, y.next)]
      /\ refs' = IF y.kind \in Local THEN refs + 1 + Points(e) ELSE refs
      /\ pins' = [k \in Cookies |-> pins[k] + IF y.kind = "connections" THEN Times(k, y.items) ELSE 0]
      /\ UNCHANGED <<user, given, slots, made, taken, names, loop>>
  BY DEF Clone, Pinned
<1>2. PICK kind \in Kinds \ {"none"}, items \in Listings, next \in Nat :
        kind = y.kind /\ items = y.items /\ next = y.next
  <2>1. /\ y \in Enumerator /\ y.items \in Listings /\ y.next \in Nat
    BY <1>1, OneKept
  <2>2. y.kind \in Kinds \ {"none"}
    BY <1>1, <2>1 DEF Enumerator, Free
  <2> QED BY <2>1, <2>2
<1>3. next <= Len(items) /\ Len(items) \in Nat
  BY <1>2, OneKept
<1>4. PICK x : x = New(kind, items, next)
  OBVIOUS
<1>5. /\ x \in Enumerator /\ EnumeratorKept(x)
      /\ Weight(x) = IF kind \in Local
                     THEN 1 + (IF kind = "points" THEN Len(items) ELSE 0) ELSE 0
      /\ \A k : Mentions(k, x) = IF kind = "connections" THEN Times(k, items) ELSE 0
  BY <1>3, <1>4, NewKept
<1>6. refs' = refs + Weight(x)
  <2>1. Points(e) = IF kind = "points" THEN Len(items) ELSE 0
    BY <1>2 DEF Points
  <2>2. refs \in Int
    BY DEF EnumeratorsInv, PointKept
  <2>3. refs' = IF kind \in Local THEN refs + 1 + Points(e) ELSE refs
    BY <1>1, <1>2
  <2>4. CASE kind \in Local
    <3>1. Weight(x) = 1 + Points(e) /\ Points(e) \in Int
      BY <1>3, <1>5, <2>1, <2>4
    <3> QED BY <2>2, <2>3, <2>4, <3>1
  <2>5. CASE kind \notin Local
    BY <1>5, <2>2, <2>3, <2>5
  <2> QED BY <2>4, <2>5
<1>7. ASSUME NEW k \in Cookies
      PROVE  /\ Times(k, slots) \in Nat /\ pins[k] \in Int /\ taken[k] \in Nat
             /\ Mentions(k, x) \in Nat /\ pins'[k] = pins[k] + Mentions(k, x)
  <2>1. Times(k, slots) \in Nat /\ pins[k] \in Int /\ taken[k] \in Nat
    BY Numeric DEF Numbers, EnumeratorsInv
  <2>2. Mentions(k, x) \in Nat
    BY <1>5, Weights
  <2>3. pins'[k] = pins[k] + Mentions(k, x)
    BY <1>1, <1>2, <1>5
  <2> QED BY <2>1, <2>2, <2>3
<1>8. PointKept'
  <2>1. refs \in Int /\ Weight(x) \in Nat
    BY <1>5, Weights DEF EnumeratorsInv, PointKept
  <2>2. pins' \in [Cookies -> Int]
    <3>1. \A k \in Cookies : pins'[k] \in Int
      BY <1>7
    <3> QED BY <1>1, <3>1
  <2> QED BY <1>1, <1>6, <2>1, <2>2 DEF EnumeratorsInv, PointKept
<1>9. refs' - user' - given' = refs - user - given + Weight(x)
  <2>1. refs \in Int /\ user \in Int /\ given \in Int /\ Weight(x) \in Int
    BY <1>5, Weights DEF EnumeratorsInv, PointKept
  <2> QED BY <1>1, <1>6, <2>1
<1>10. ASSUME NEW k \in Cookies
       PROVE  pins'[k] - taken'[k] - Times(k, slots')
                = pins[k] - taken[k] - Times(k, slots) + Mentions(k, x)
  <2>1. slots' = slots /\ taken' = taken
    BY <1>1
  <2> QED BY <1>7, <2>1
<1>11. enums' = [enums EXCEPT ![f] = x]
  BY <1>1, <1>2, <1>4
<1> QED BY <1>1, <1>5, <1>8, <1>9, <1>10, <1>11, MakeKeeps

\* An enumerator moved to another place counts for the same.
LEMMA MovedKept ==
  ASSUME EnumeratorsInv, NEW e \in Ids, ~Free(e), NEW m \in 0..Len(enums[e].items)
  PROVE  LET x == [enums[e] EXCEPT !.next = m] IN
         /\ x \in Enumerator /\ EnumeratorKept(x) /\ x.kind = enums[e].kind
         /\ Weight(x) = Weight(enums[e])
         /\ \A k : Mentions(k, x) = Mentions(k, enums[e])
<1> DEFINE y == enums[e]
           x == [y EXCEPT !.next = m]
<1>1. /\ y \in Enumerator /\ EnumeratorKept(y) /\ y.kind # "none"
      /\ m \in Nat /\ m <= Len(y.items)
  BY OneKept DEF Free
<1> HIDE DEF y
<1>2. /\ x \in Enumerator
      /\ x.kind = y.kind /\ x.items = y.items /\ x.refs = y.refs /\ x.next = m
  BY <1>1 DEF Enumerator
<1> HIDE DEF x
<1>3. EnumeratorKept(x)
  BY <1>1, <1>2 DEF EnumeratorKept
<1>4. Weight(x) = Weight(y) /\ \A k : Mentions(k, x) = Mentions(k, y)
  BY <1>2 DEF Weight, Mentions
<1> QED BY <1>2, <1>3, <1>4 DEF x, y

\* A step that only moves an enumerator, no loop having it.
LEMMA MovesOnly ==
  ASSUME EnumeratorsInv, NEW e \in Ids, ~Free(e), loop[e].at = "none",
         NEW m \in 0..Len(enums[e].items),
         enums' = [enums EXCEPT ![e].next = m],
         UNCHANGED <<object, point, names, loop>>
  PROVE  EnumeratorsInv'
<1>1. PICK x : x = [enums[e] EXCEPT !.next = m]
  OBVIOUS
<1>2. /\ x \in Enumerator /\ EnumeratorKept(x)
      /\ Weight(x) = Weight(enums[e])
      /\ \A k : Mentions(k, x) = Mentions(k, enums[e])
  BY <1>1, MovedKept
<1>3. enums' = [enums EXCEPT ![e] = x]
  BY <1>1
<1>4. UNCHANGED <<refs, user, given, slots, made, pins, taken>>
  BY DEF object, point
<1>5. PointKept'
  BY <1>4 DEF EnumeratorsInv, PointKept
<1>6. /\ refs' - user' - given' = refs - user - given - Weight(enums[e]) + Weight(x)
      /\ \A k \in Cookies : pins'[k] - taken'[k] - Times(k, slots')
            = pins[k] - taken[k] - Times(k, slots) - Mentions(k, enums[e]) + Mentions(k, x)
  <2>1. /\ refs \in Int /\ user \in Int /\ given \in Int
        /\ Weight(x) \in Int /\ \A k : Mentions(k, x) \in Int
    BY <1>2, Weights DEF EnumeratorsInv, PointKept
  <2>2. refs' - user' - given' = refs - user - given - Weight(enums[e]) + Weight(x)
    BY <1>2, <1>4, <2>1
  <2>3. ASSUME NEW k \in Cookies
        PROVE  pins'[k] - taken'[k] - Times(k, slots')
                 = pins[k] - taken[k] - Times(k, slots) - Mentions(k, enums[e]) + Mentions(k, x)
    <3>1. Times(k, slots) \in Nat /\ pins[k] \in Int /\ taken[k] \in Nat
      BY Numeric DEF Numbers, EnumeratorsInv
    <3> QED BY <1>2, <1>4, <2>1, <3>1
  <2> QED BY <2>2, <2>3
<1> QED BY <1>2, <1>3, <1>5, <1>6, PutKeeps

\* Next hands out what is left, as far as it was asked for.
LEMMA GotIs ==
  ASSUME EnumeratorsInv, NEW e \in Ids, NEW n \in Nat
  PROVE  /\ Left(e) \in Nat /\ Fetched(e, n) \in 0..Left(e)
         /\ Got(e, n) \in Seq(Int) /\ Len(Got(e, n)) = Fetched(e, n)
         /\ enums[e].next + Fetched(e, n) \in 0..Len(enums[e].items)
<1>1. /\ enums[e].items \in Seq(Int) /\ Len(enums[e].items) \in Nat
      /\ enums[e].next \in 0..Len(enums[e].items)
  BY OneKept
<1>2. Left(e) \in Nat /\ Left(e) = Len(enums[e].items) - enums[e].next
  BY <1>1 DEF Left
<1>3. Fetched(e, n) \in 0..Left(e)
  BY <1>2 DEF Fetched
<1>4. enums[e].next + Fetched(e, n) \in 0..Len(enums[e].items)
  BY <1>1, <1>2, <1>3
<1>5. Got(e, n) \in Seq(Int) /\ Len(Got(e, n)) = Fetched(e, n)
  <2> DEFINE s == enums[e].items
             a == enums[e].next + 1
             b == enums[e].next + Fetched(e, n)
  <2>1. /\ s \in Seq(Int) /\ a \in 1..(Len(s) + 1) /\ b \in 0..Len(s)
        /\ b - a + 1 = Fetched(e, n) /\ Fetched(e, n) \in Nat
        /\ (a <= b \/ Fetched(e, n) = 0)
    <3>1. /\ s \in Seq(Int) /\ Len(s) \in Nat /\ b \in 0..Len(s)
          /\ enums[e].next \in Nat /\ enums[e].next <= Len(s)
      BY <1>1, <1>4
    <3>2. Fetched(e, n) \in Nat
      BY <1>2, <1>3
    <3>3. b - a + 1 = Fetched(e, n) /\ a \in 1..(Len(s) + 1)
      <4>1. PICK p \in Nat, q \in Nat, l \in Nat :
              p = enums[e].next /\ q = Fetched(e, n) /\ l = Len(s)
        BY <3>1, <3>2
      <4>2. p <= l /\ a = p + 1 /\ b = p + q
        BY <3>1, <4>1
      <4>3. (p + q) - (p + 1) + 1 = q /\ p + 1 \in 1..(l + 1)
        BY <4>2
      <4> HIDE DEF a, b, s
      <4> QED BY <4>1, <4>2, <4>3
    <3>4. a <= b \/ Fetched(e, n) = 0
      BY <3>1, <3>2
    <3> QED BY <3>1, <3>2, <3>3, <3>4
  <2>2. Got(e, n) = SubSeq(s, a, b)
    BY DEF Got
  <2> HIDE DEF s, a, b
  <2>3. SubSeq(s, a, b) \in Seq(Int) /\ Len(SubSeq(s, a, b)) = IF a <= b THEN b - a + 1 ELSE 0
    BY <2>1
  <2> QED BY <2>1, <2>2, <2>3
<1> QED BY <1>2, <1>3, <1>4, <1>5

\* Skip and Reset.
LEMMA SkipResetKeeps ==
  ASSUME EnumeratorsInv, NEW e \in Ids, NEW n \in Requests, Skip(e, n) \/ Reset(e)
  PROVE  EnumeratorsInv'
<1>1. PICK m \in 0..Len(enums[e].items) :
        enums' = [enums EXCEPT ![e].next = m]
  <2>1. /\ Len(enums[e].items) \in Nat /\ enums[e].next \in 0..Len(enums[e].items)
        /\ n \in Nat
    BY OneKept, EnumeratorsAssumption
  <2>2. SkipsTo(e, n) \in 0..Len(enums[e].items)
    BY <2>1 DEF SkipsTo, Left
  <2>3. 0 \in 0..Len(enums[e].items)
    BY <2>1
  <2> QED BY <2>2, <2>3 DEF Skip, Reset
<1>2. ~Free(e) /\ loop[e].at = "none" /\ UNCHANGED <<object, point, names, loop>>
  BY DEF Skip, Reset
<1> QED BY <1>1, <1>2, MovesOnly

\* A name of a verb that cannot be allocated: those before it are freed.
LEMMA NextRunsOutKeeps ==
  ASSUME EnumeratorsInv, NEW e \in Ids, NEW n \in Requests, NextRunsOut(e, n)
  PROVE  EnumeratorsInv'
<1>1. PICK i \in 0..(Fetched(e, n) - 1) : names' = names + i - Freed(i)
  BY DEF NextRunsOut
<1>2. n \in Nat
  BY EnumeratorsAssumption
<1>3. Fetched(e, n) \in Int
  BY <1>2, GotIs
<1>4. i \in Int /\ names = 0
  BY <1>1, <1>3 DEF EnumeratorsInv, Accounted
<1>5. names' = names
  BY <1>1, <1>4 DEF Freed
<1>6. UNCHANGED <<refs, user, given, slots, made, pins, taken, enums, loop>>
  BY DEF NextRunsOut, object, point
<1>7. PointKept'
  BY <1>6 DEF EnumeratorsInv, PointKept
<1> QED BY <1>5, <1>6, <1>7, StayKeeps

\* A step that moves an enumerator, and perhaps its loop, and hands out
\* references that it counts.
LEMMA MovesKeeps ==
  ASSUME EnumeratorsInv, PointKept', names' = names, NEW e \in Ids, ~Free(e),
         NEW m \in 0..Len(enums[e].items), NEW l \in Loop,
         enums' = [enums EXCEPT ![e].next = m], loop' = [loop EXCEPT ![e] = l],
         l.at # "none" => enums[e].kind = "values",
         refs' - user' - given' = refs - user - given,
         \A k \in Cookies : pins'[k] - taken'[k] - Times(k, slots')
                              = pins[k] - taken[k] - Times(k, slots)
  PROVE  EnumeratorsInv'
<1>1. PICK x : x = [enums[e] EXCEPT !.next = m]
  OBVIOUS
<1>2. /\ x \in Enumerator /\ EnumeratorKept(x) /\ x.kind = enums[e].kind
      /\ Weight(x) = Weight(enums[e])
      /\ \A k : Mentions(k, x) = Mentions(k, enums[e])
  BY <1>1, MovedKept
<1>3. enums' = [enums EXCEPT ![e] = x]
  BY <1>1
<1>4. /\ refs \in Int /\ user \in Int /\ given \in Int
      /\ Weight(x) \in Int /\ \A k : Mentions(k, x) \in Int
  BY <1>2, Weights DEF EnumeratorsInv, PointKept
<1>5. refs' - user' - given' = refs - user - given - Weight(enums[e]) + Weight(x)
  BY <1>2, <1>4
<1>6. ASSUME NEW k \in Cookies
      PROVE  pins'[k] - taken'[k] - Times(k, slots')
               = pins[k] - taken[k] - Times(k, slots) - Mentions(k, enums[e]) + Mentions(k, x)
  <2>1. Times(k, slots) \in Nat /\ pins[k] \in Int /\ taken[k] \in Nat
    BY Numeric DEF Numbers, EnumeratorsInv
  <2>2. pins'[k] - taken'[k] - Times(k, slots') = pins[k] - taken[k] - Times(k, slots)
    OBVIOUS
  <2>3. pins[k] - taken[k] - Times(k, slots) - Mentions(k, enums[e]) + Mentions(k, x)
          = pins[k] - taken[k] - Times(k, slots)
    BY <1>2, <1>4, <2>1
  <2> QED BY <2>2, <2>3
<1> QED BY <1>2, <1>3, <1>5, <1>6, MoveKeeps

\* Next: what it passes on is counted where it comes from.
LEMMA NextElementsKeeps ==
  ASSUME EnumeratorsInv, NEW e \in Ids, NEW n \in Requests, NextElements(e, n)
  PROVE  EnumeratorsInv'
<1> DEFINE got == Got(e, n)
           g == Len(got)
<1>1. n \in Nat
  BY EnumeratorsAssumption
<1>2. got \in Seq(Int) /\ g \in Nat /\ enums[e].next + g \in 0..Len(enums[e].items)
  <2>1. /\ got \in Seq(Int) /\ g = Fetched(e, n)
        /\ enums[e].next + Fetched(e, n) \in 0..Len(enums[e].items)
    BY <1>1, GotIs
  <2> QED BY <2>1
<1>3. /\ ~Free(e) /\ loop[e].at = "none"
      /\ enums' = [enums EXCEPT ![e].next = @ + g]
      /\ UNCHANGED <<user, slots, made, names, loop>>
  BY DEF NextElements
<1>4. \/ /\ given + g <= MaxGiven /\ given' = given + g /\ refs' = refs + g
         /\ UNCHANGED <<pins, taken>>
      \/ /\ \A k \in Cookies : taken[k] + Times(k, got) <= MaxGiven
         /\ pins' = [k \in Cookies |-> pins[k] + Times(k, got)]
         /\ taken' = [k \in Cookies |-> taken[k] + Times(k, got)]
         /\ UNCHANGED <<refs, given>>
      \/ UNCHANGED <<refs, given, pins, taken>>
  BY DEF NextElements
<1> HIDE DEF g, got
<1>5. /\ refs \in Int /\ user \in Nat /\ given \in 0..MaxGiven /\ given \in Nat
      /\ pins \in [Cookies -> Int] /\ taken \in [Cookies -> 0..MaxGiven]
      /\ \A k \in Cookies : /\ Times(k, slots) \in Nat /\ pins[k] \in Int /\ taken[k] \in Nat
                            /\ Times(k, got) \in Nat
  <2>1. \A k \in Cookies : Times(k, got) \in Nat
    BY <1>2, TimesPlaces, Zenon
  <2>2. \A k \in Cookies : Times(k, slots) \in Nat /\ pins[k] \in Int /\ taken[k] \in Nat
    BY Numeric DEF Numbers, EnumeratorsInv
  <2> QED BY <2>1, <2>2, CookiesAre DEF EnumeratorsInv, PointKept
<1>6. /\ PointKept'
      /\ refs' - user' - given' = refs - user - given
      /\ \A k \in Cookies : pins'[k] - taken'[k] - Times(k, slots')
                              = pins[k] - taken[k] - Times(k, slots)
  <2>1. CASE /\ given + g <= MaxGiven /\ given' = given + g /\ refs' = refs + g
             /\ UNCHANGED <<pins, taken>>
    <3>1. given' \in 0..MaxGiven /\ refs' \in Int
      BY <1>2, <1>5, <2>1, CookiesAre
    <3>2. PointKept'
      BY <1>3, <2>1, <3>1 DEF EnumeratorsInv, PointKept
    <3>3. refs' - user' - given' = refs - user - given
      <4>1. (refs + g) - user - (given + g) = refs - user - given
        BY <1>2, <1>5
      <4> QED BY <1>3, <2>1, <4>1
    <3> QED BY <1>3, <2>1, <3>2, <3>3
  <2>2. CASE /\ \A k \in Cookies : taken[k] + Times(k, got) <= MaxGiven
             /\ pins' = [k \in Cookies |-> pins[k] + Times(k, got)]
             /\ taken' = [k \in Cookies |-> taken[k] + Times(k, got)]
             /\ UNCHANGED <<refs, given>>
    <3>1. pins' \in [Cookies -> Int] /\ taken' \in [Cookies -> 0..MaxGiven]
      <4>1. \A k \in Cookies : taken[k] + Times(k, got) \in 0..MaxGiven /\ pins[k] + Times(k, got) \in Int
        BY <1>5, <2>2, CookiesAre
      <4> QED BY <2>2, <4>1
    <3>2. PointKept'
      BY <1>3, <2>2, <3>1 DEF EnumeratorsInv, PointKept
    <3>3. ASSUME NEW k \in Cookies
          PROVE  pins'[k] - taken'[k] - Times(k, slots') = pins[k] - taken[k] - Times(k, slots)
      <4>1. pins'[k] = pins[k] + Times(k, got) /\ taken'[k] = taken[k] + Times(k, got)
        BY <2>2
      <4>2. pins'[k] - taken'[k] = pins[k] - taken[k]
        BY <1>5, <4>1
      <4> QED BY <1>3, <4>2
    <3>4. refs' - user' - given' = refs - user - given
      BY <1>3, <2>2
    <3> QED BY <3>2, <3>3, <3>4
  <2>3. CASE UNCHANGED <<refs, given, pins, taken>>
    <3>1. PointKept'
      BY <1>3, <2>3 DEF EnumeratorsInv, PointKept
    <3> QED BY <1>3, <2>3, <3>1
  <2> QED BY <1>4, <2>1, <2>2, <2>3
<1>7. PICK m \in 0..Len(enums[e].items) : m = enums[e].next + g
  BY <1>2
<1>8. enums' = [enums EXCEPT ![e].next = m]
  BY <1>3, <1>7
<1>9. PICK l \in Loop : l = loop[e]
  BY OneKept
<1>10. loop' = [loop EXCEPT ![e] = l] /\ l.at = "none"
  BY <1>3, <1>9 DEF EnumeratorsInv, EnumeratorsKept
<1> QED BY <1>3, <1>6, <1>8, <1>10, MovesKeeps

\* AddRef of an enumerator, which counts on the object itself if it is one of
\* the object's.
LEMMA AddRefKeeps ==
  ASSUME EnumeratorsInv, NEW e \in Ids, AddRef(e)
  PROVE  EnumeratorsInv'
<1> DEFINE y == enums[e]
<1>1. /\ ~Free(e) /\ y.kind # "values" /\ y.refs < MaxRefs
      /\ enums' = [enums EXCEPT ![e].refs = @ + 1]
      /\ refs' = IF y.kind \in Local THEN refs + 1 ELSE refs
      /\ UNCHANGED <<user, given, slots, made, pins, taken, names, loop>>
  BY DEF AddRef, point
<1>2. /\ y \in Enumerator /\ EnumeratorKept(y) /\ y.kind # "none" /\ y.refs \in Nat
      /\ y.items \in Seq(Int)
  BY <1>1, OneKept DEF Free
<1>3. y.refs + 1 \in Nat /\ y.refs + 1 > 0 /\ y.refs + 1 <= MaxRefs
  BY <1>1, <1>2, CookiesAre
<1>4. PICK x : x = [y EXCEPT !.refs = y.refs + 1]
  OBVIOUS
<1>5. enums' = [enums EXCEPT ![e] = x]
  BY <1>1, <1>4
<1> HIDE DEF y
<1>6. /\ x \in Enumerator
      /\ x.kind = y.kind /\ x.items = y.items /\ x.refs = y.refs + 1 /\ x.next = y.next
  BY <1>2, <1>3, <1>4 DEF Enumerator
<1>7. EnumeratorKept(x)
  BY <1>2, <1>3, <1>6 DEF EnumeratorKept
<1>8. /\ Weight(x) = Weight(y) + (IF y.kind \in Local THEN 1 ELSE 0)
      /\ \A k : Mentions(k, x) = Mentions(k, y)
  <2>1. Len(y.items) \in Nat
    BY <1>2
  <2>2. Weight(x) = Weight(y) + (IF y.kind \in Local THEN 1 ELSE 0)
    BY <1>2, <1>6, <2>1 DEF Weight
  <2>3. \A k : Mentions(k, x) = Mentions(k, y)
    BY <1>6 DEF Mentions
  <2> QED BY <2>2, <2>3
<1>9. Weight(x) \in Int /\ Weight(y) \in Int /\ \A k : Mentions(k, y) \in Int
  BY <1>2, <1>6, Weights
<1>10. refs \in Int /\ user \in Int /\ given \in Int
  BY DEF EnumeratorsInv, PointKept
<1>11. PointKept'
  BY <1>1, <1>10 DEF EnumeratorsInv, PointKept
<1>12. refs' - user' - given' = refs - user - given - Weight(y) + Weight(x)
  BY <1>1, <1>8, <1>9, <1>10
<1>13. ASSUME NEW k \in Cookies
       PROVE  pins'[k] - taken'[k] - Times(k, slots')
                = pins[k] - taken[k] - Times(k, slots) - Mentions(k, y) + Mentions(k, x)
  <2>1. Times(k, slots) \in Nat /\ pins[k] \in Int /\ taken[k] \in Nat
    BY Numeric DEF Numbers, EnumeratorsInv
  <2> QED BY <1>1, <1>8, <1>9, <2>1
<1>14. loop[e].at = "none"
  BY <1>1, OneKept DEF y
<1> QED BY <1>1, <1>5, <1>6, <1>7, <1>11, <1>12, <1>13, <1>14, PutKeeps DEF y

\* Release of an enumerator, or its finalizer: it gives up what it counts for,
\* and the object goes, with its point, if nobody else refers to it.
LEMMA ReleaseKeeps ==
  ASSUME EnumeratorsInv, NEW e \in Ids, Release(e)
  PROVE  EnumeratorsInv'
<1> DEFINE y == enums[e]
           last == y.refs = 1
           kept == IF last /\ y.kind = "connections" THEN y.items ELSE <<>>
           gone == IF y.kind \in Local THEN 1 + (IF last THEN Points(e) ELSE 0) ELSE 0
           left == IF refs = gone THEN slots ELSE <<>>
<1>1. /\ ~Free(e) /\ loop[e].at = "none"
      /\ enums' = [enums EXCEPT ![e] = IF last THEN Nobody ELSE [y EXCEPT !.refs = @ - 1]]
      /\ refs' = refs - gone
      /\ slots' = IF refs = gone THEN <<>> ELSE slots
      /\ pins' = [k \in Cookies |-> pins[k] - Times(k, kept) - Times(k, left)]
      /\ UNCHANGED <<user, given, made, taken, names, loop>>
  BY DEF Release
<1>2. /\ y \in Enumerator /\ EnumeratorKept(y) /\ y.kind # "none" /\ y.refs \in Nat
      /\ y.refs > 0 /\ y.items \in Seq(Int) /\ Len(y.items) \in Nat
  BY <1>1, OneKept DEF Free
<1>3. PICK x : x = IF last THEN Nobody ELSE [y EXCEPT !.refs = y.refs - 1]
  OBVIOUS
<1>4. enums' = [enums EXCEPT ![e] = x]
  BY <1>1, <1>3
<1>5. Points(e) = IF y.kind = "points" THEN Len(y.items) ELSE 0
  BY DEF Points
<1>6. gone \in Int /\ kept \in Seq(Int)
  <2>1. gone \in Int
    BY <1>2, <1>5
  <2>2. kept \in Seq(Int)
    BY <1>2
  <2> QED BY <2>1, <2>2
<1>7. /\ x \in Enumerator /\ EnumeratorKept(x)
      /\ Weight(y) = Weight(x) + gone
      /\ \A k : Mentions(k, y) = Mentions(k, x) + Times(k, kept)
  <2>1. CASE last
    <3>1. x = Nobody
      BY <1>3, <2>1
    <3>2. x \in Enumerator
      BY <3>1 DEF Enumerator, Kinds, Nobody
    <3>3. EnumeratorKept(x)
      BY <3>1, CookiesAre DEF EnumeratorKept, Nobody
    <3>4. Weight(y) = gone
      <4>1. y.refs = 1
        BY <2>1
      <4>2. CASE y.kind \in Local
        <5>1. Weight(y) = y.refs + (IF y.kind = "points" THEN Len(y.items) ELSE 0)
          BY <4>2 DEF Weight
        <5>2. gone = 1 + Points(e)
          BY <2>1, <4>2
        <5> QED BY <1>5, <4>1, <5>1, <5>2
      <4>3. CASE y.kind \notin Local
        BY <4>3 DEF Weight
      <4> QED BY <4>2, <4>3
    <3>5. Weight(y) = Weight(x) + gone
      BY <1>6, <3>1, <3>4, Weights
    <3>6. ASSUME NEW k PROVE Mentions(k, y) = Mentions(k, x) + Times(k, kept)
      <4>1. Mentions(k, x) = 0
        BY <3>1, Weights
      <4>2. Mentions(k, y) = Times(k, kept)
        BY <2>1 DEF Mentions
      <4>3. Mentions(k, y) \in Nat
        BY <1>2, Weights
      <4> QED BY <4>1, <4>2, <4>3
    <3> QED BY <3>2, <3>3, <3>5, <3>6
  <2>2. CASE ~last
    <3>1. y.refs - 1 \in Nat /\ y.refs - 1 > 0 /\ y.refs <= MaxRefs /\ y.refs - 1 <= MaxRefs
      <4>1. y.refs <= MaxRefs
        BY <1>2 DEF EnumeratorKept
      <4> QED BY <1>2, <2>2, <4>1, CookiesAre
    <3>2. x = [y EXCEPT !.refs = y.refs - 1]
      BY <1>3, <2>2
    <3>3. gone = (IF y.kind \in Local THEN 1 ELSE 0) /\ kept = <<>>
      BY <2>2
    <3> HIDE DEF y, gone, kept
    <3>4. /\ x \in Enumerator
          /\ x.kind = y.kind /\ x.items = y.items /\ x.refs = y.refs - 1 /\ x.next = y.next
      BY <1>2, <3>1, <3>2 DEF Enumerator
    <3>5. EnumeratorKept(x)
      BY <1>2, <3>1, <3>4 DEF EnumeratorKept
    <3>6. Weight(y) = Weight(x) + gone
      BY <1>2, <3>3, <3>4 DEF Weight
    <3>7. ASSUME NEW k PROVE Mentions(k, y) = Mentions(k, x) + Times(k, kept)
      <4>1. Mentions(k, y) = Mentions(k, x)
        BY <3>4 DEF Mentions
      <4>2. Mentions(k, x) \in Nat
        BY <3>4, Weights
      <4>3. Times(k, kept) = 0
        BY <3>3, TimesEmpty
      <4> QED BY <4>1, <4>2, <4>3
    <3> QED BY <2>1, <3>2, <3>4, <3>5, <3>6, <3>7
  <2> QED BY <2>1, <2>2
<1>8. /\ refs \in Int /\ user \in Int /\ given \in Int /\ made \in Nat
      /\ slots \in Seq(0..made) /\ Len(slots) <= made
  BY CookiesAre DEF EnumeratorsInv, PointKept
<1>9. Weight(x) \in Int /\ Weight(y) \in Int /\ \A k : Mentions(k, y) \in Int /\ Mentions(k, x) \in Int
  BY <1>2, <1>7, Weights
<1> HIDE DEF y, gone, kept, last
<1>10. refs' - user' - given' = refs - user - given - Weight(y) + Weight(x)
  BY <1>1, <1>6, <1>7, <1>8, <1>9
<1>11. ASSUME NEW k \in Cookies
       PROVE  /\ pins[k] \in Int /\ taken[k] \in Nat /\ Times(k, slots) \in Nat
              /\ Times(k, kept) \in Nat
              /\ pins'[k] = pins[k] - Times(k, kept) - Times(k, left)
              /\ Times(k, left) \in Nat
              /\ Times(k, slots') = Times(k, slots) - Times(k, left)
  <2>1. pins[k] \in Int /\ taken[k] \in Nat /\ Times(k, slots) \in Nat
    BY Numeric DEF Numbers, EnumeratorsInv
  <2>2. Times(k, kept) \in Nat
    BY <1>6, TimesPlaces, Zenon
  <2>3. pins'[k] = pins[k] - Times(k, kept) - Times(k, left)
    BY <1>1
  <2>4. Times(k, <<>>) = 0
    BY TimesEmpty
  <2>5. CASE refs = gone
    <3>1. left = slots /\ slots' = <<>>
      BY <1>1, <2>5
    <3> HIDE DEF left
    <3> QED BY <2>1, <2>2, <2>3, <2>4, <3>1
  <2>6. CASE refs # gone
    <3>1. left = <<>> /\ slots' = slots
      BY <1>1, <2>6
    <3> HIDE DEF left
    <3> QED BY <2>1, <2>2, <2>3, <2>4, <3>1
  <2> QED BY <2>5, <2>6
<1> HIDE DEF left
<1>12. ASSUME NEW k \in Cookies
       PROVE  pins'[k] - taken'[k] - Times(k, slots')
                = pins[k] - taken[k] - Times(k, slots) - Mentions(k, y) + Mentions(k, x)
  <2>1. taken'[k] = taken[k]
    BY <1>1
  <2>2. Mentions(k, y) = Mentions(k, x) + Times(k, kept)
    BY <1>7
  <2>3. Mentions(k, x) \in Int /\ Mentions(k, y) \in Int
    BY <1>9
  <2> QED BY <1>11, <2>1, <2>2, <2>3
<1>13. PointKept'
  <2>1. pins' \in [Cookies -> Int]
    <3>1. \A k \in Cookies : pins[k] - Times(k, kept) - Times(k, left) \in Int
      BY <1>11
    <3> QED BY <1>1, <3>1
  <2>2. slots' \in Seq(0..made) /\ Len(slots') <= made
    <3>1. CASE slots' = slots
      BY <1>8, <3>1
    <3>2. CASE slots' = <<>>
      BY <1>8, <3>2
    <3> QED BY <1>1, <3>1, <3>2
  <2>3. refs' \in Int
    BY <1>1, <1>6, <1>8
  <2> QED BY <1>1, <2>1, <2>2, <2>3 DEF EnumeratorsInv, PointKept
<1> QED BY <1>1, <1>4, <1>7, <1>10, <1>12, <1>13, PutKeeps DEF y

-----------------------------------------------------------------------------
(* Steps of luacom.pairs.                                                  *)

\* An enumerator of values counts for nobody.
LEMMA ValuesWeigh ==
  ASSUME NEW x \in Enumerator, x.kind = "values"
  PROVE  Weight(x) = 0 /\ \A k : Mentions(k, x) = 0
<1> QED BY TimesEmpty DEF Weight, Mentions, Local

\* While something is left, the next element is one of the sequence.
LEMMA RoomLeft ==
  ASSUME EnumeratorsInv, NEW e \in Ids, Left(e) > 0
  PROVE  enums[e].next + 1 \in 1..Len(enums[e].items)
<1>1. Len(enums[e].items) \in Nat /\ enums[e].next \in 0..Len(enums[e].items)
  BY OneKept
<1>2. PICK l \in Nat, p \in Nat : l = Len(enums[e].items) /\ p = enums[e].next
  BY <1>1
<1>3. p <= l /\ l - p > 0
  BY <1>1, <1>2 DEF Left
<1>4. p + 1 \in 1..l
  BY <1>3
<1> QED BY <1>2, <1>4

\* What a loop does to its enumerator is nobody else's concern.
LEMMA LoopKeeps ==
  ASSUME EnumeratorsInv, NEW e \in Ids,
         LoopStarts(e) \/ LoopSteps(e) \/ LoopFails(e) \/ LoopForgotten(e)
  PROVE  EnumeratorsInv'
<1>1. /\ enums[e].kind = "values" /\ ~Free(e)
      /\ UNCHANGED <<refs, user, given, slots, made, pins, taken, names>>
  BY OneKept DEF LoopStarts, LoopSteps, LoopFails, LoopForgotten, object, point, Free
<1>2. /\ PointKept'
      /\ refs' - user' - given' = refs - user - given
      /\ \A k \in Cookies : pins'[k] - taken'[k] - Times(k, slots')
                              = pins[k] - taken[k] - Times(k, slots)
  BY <1>1 DEF EnumeratorsInv, PointKept
<1>3. CASE LoopForgotten(e)
  <2>1. PICK x \in Enumerator : x = Nobody
    <3>1. Nobody \in Enumerator
      BY DEF Nobody, Enumerator, Kinds
    <3> QED BY <3>1
  <2>2. EnumeratorKept(x) /\ Weight(x) = 0 /\ \A k : Mentions(k, x) = 0
    BY <2>1, Weights, CookiesAre DEF EnumeratorKept, Nobody
  <2>3. Weight(enums[e]) = 0 /\ \A k : Mentions(k, enums[e]) = 0
    BY <1>1, OneKept, ValuesWeigh
  <2>4. PICK l \in Loop : l = [at |-> "none", seen |-> <<>>]
    <3>1. [at |-> "none", seen |-> <<>>] \in Loop
      BY DEF Loop
    <3> QED BY <3>1
  <2>5. enums' = [enums EXCEPT ![e] = x] /\ loop' = [loop EXCEPT ![e] = l] /\ l.at = "none"
    BY <1>3, <2>1, <2>4 DEF LoopForgotten
  <2>6. refs' - user' - given' = refs - user - given - Weight(enums[e]) + Weight(x)
    BY <1>1, <2>2, <2>3 DEF EnumeratorsInv, PointKept
  <2>7. ASSUME NEW k \in Cookies
        PROVE  pins'[k] - taken'[k] - Times(k, slots')
                 = pins[k] - taken[k] - Times(k, slots) - Mentions(k, enums[e]) + Mentions(k, x)
    <3>1. Times(k, slots) \in Nat /\ pins[k] \in Int /\ taken[k] \in Nat
      BY Numeric DEF Numbers, EnumeratorsInv
    <3> QED BY <1>1, <2>2, <2>3, <3>1
  <2> QED BY <1>1, <1>2, <2>2, <2>5, <2>6, <2>7, MoveKeeps
<1>4. ASSUME LoopStarts(e) \/ LoopSteps(e) \/ LoopFails(e)
      PROVE  EnumeratorsInv'
  <2>1. /\ Len(enums[e].items) \in Nat /\ enums[e].next \in 0..Len(enums[e].items)
        /\ enums[e].items \in Seq(Int) /\ Left(e) \in Nat /\ Fetched(e, 1) \in 0..Left(e)
        /\ enums[e].next + Fetched(e, 1) \in 0..Len(enums[e].items)
    BY OneKept, GotIs
  <2>2. loop \in [Ids -> Loop] /\ enums \in [Ids -> Enumerator] /\ loop[e].seen \in Seq(Int)
    BY DEF EnumeratorsInv, EnumeratorsKept, Loop
  <2>3. PICK m \in 0..Len(enums[e].items) : enums' = [enums EXCEPT ![e].next = m]
    <3>1. CASE LoopStarts(e)
      <4>1. enums' = [enums EXCEPT ![e].next = 0] /\ 0 \in 0..Len(enums[e].items)
        BY <2>1, <2>2, <3>1 DEF LoopStarts, Enumerator
      <4> QED BY <4>1
    <3>2. CASE LoopSteps(e)
      BY <2>1, <3>2 DEF LoopSteps
    <3>3. CASE LoopFails(e)
      <4>1. enums[e].next + 1 \in 0..Len(enums[e].items)
        <5>1. Left(e) > 0
          BY <3>3 DEF LoopFails
        <5>2. enums[e].next + 1 \in 1..Len(enums[e].items)
          BY <5>1, RoomLeft
        <5> QED BY <2>1, <5>2
      <4> QED BY <3>3, <4>1 DEF LoopFails
    <3> QED BY <1>4, <3>1, <3>2, <3>3
  <2>4. PICK l \in Loop : loop' = [loop EXCEPT ![e] = l]
    <3>1. CASE LoopStarts(e)
      <4>1. [at |-> "running", seen |-> <<>>] \in Loop
        BY DEF Loop
      <4> QED BY <3>1, <4>1 DEF LoopStarts
    <3>2. CASE LoopSteps(e)
      <4>1. CASE LoopOver(e)
        <5>1. loop' = [loop EXCEPT ![e] = [loop[e] EXCEPT !.at = "done"]]
          BY <3>2, <4>1 DEF LoopSteps
        <5>2. [loop[e] EXCEPT !.at = "done"] \in Loop
          BY <2>2 DEF Loop
        <5> QED BY <5>1, <5>2
      <4>2. CASE ~LoopOver(e)
        <5>1. loop' = [loop EXCEPT ![e] = [loop[e] EXCEPT !.seen = Append(loop[e].seen, Value(e))]]
          BY <3>2, <4>2 DEF LoopSteps
        <5>2. Value(e) \in Int
          <6>1. Left(e) # 0
            BY <4>2 DEF LoopOver
          <6>2. enums[e].next + 1 \in 1..Len(enums[e].items)
            <7>1. Left(e) > 0
              BY <2>1, <6>1
            <7> QED BY <7>1, RoomLeft
          <6> QED BY <2>1, <6>2 DEF Value
        <5>3. Append(loop[e].seen, Value(e)) \in Seq(Int)
          BY <2>2, <5>2
        <5>4. [loop[e] EXCEPT !.seen = Append(loop[e].seen, Value(e))] \in Loop
          BY <2>2, <5>3 DEF Loop
        <5> QED BY <5>1, <5>4
      <4> QED BY <4>1, <4>2
    <3>3. CASE LoopFails(e)
      <4>1. loop' = [loop EXCEPT ![e] = [loop[e] EXCEPT !.at = "failed"]]
        BY <3>3 DEF LoopFails
      <4>2. [loop[e] EXCEPT !.at = "failed"] \in Loop
        BY <2>2 DEF Loop
      <4> QED BY <4>1, <4>2
    <3> QED BY <1>4, <3>1, <3>2, <3>3
  <2> QED BY <1>1, <1>2, <2>3, <2>4, MovesKeeps
<1> QED BY <1>3, <1>4

-----------------------------------------------------------------------------
(* The invariant, and what follows.                                        *)

\* The invariant holds at first.
LEMMA InitKept == Init => EnumeratorsInv
<1> SUFFICES ASSUME Init PROVE EnumeratorsInv
  OBVIOUS
<1>1. PointKept
  <2>1. made \in 0..MaxCookie /\ given \in 0..MaxGiven /\ slots \in Seq(0..made) /\ Len(slots) <= made
    BY CookiesAre DEF Init
  <2>2. pins \in [Cookies -> Int] /\ taken \in [Cookies -> 0..MaxGiven]
    BY CookiesAre DEF Init
  <2> QED BY <2>1, <2>2 DEF Init, PointKept
<1>2. EnumeratorsKept
  <2>1. Nobody \in Enumerator
    BY DEF Nobody, Enumerator, Kinds
  <2>2. EnumeratorKept(Nobody)
    BY CookiesAre DEF EnumeratorKept, Nobody
  <2>3. [at |-> "none", seen |-> <<>>] \in Loop
    BY DEF Loop
  <2> QED BY <2>1, <2>2, <2>3 DEF Init, EnumeratorsKept
<1>3. Accounted
  <2>1. \A e \in Ids : Weight(enums[e]) = 0 /\ \A k : Mentions(k, enums[e]) = 0
    BY Weights DEF Init
  <2>2. OwedTotal(enums) = 0
    <3>1. PICK f : f = [e \in Ids |-> Weight(enums[e])]
      OBVIOUS
    <3>2. DOMAIN f = Ids /\ \A e \in Ids : f[e] = 0
      BY <2>1, <3>1
    <3>3. Total(f) = 0
      BY <3>2, TotalZero
    <3> QED BY <3>1, <3>3 DEF OwedTotal
  <2>3. ASSUME NEW k PROVE NamedTotal(k, enums) = 0
    <3>1. PICK f : f = [e \in Ids |-> Mentions(k, enums[e])]
      OBVIOUS
    <3>2. DOMAIN f = Ids /\ \A e \in Ids : f[e] = 0
      BY <2>1, <3>1
    <3>3. Total(f) = 0
      BY <3>2, TotalZero
    <3> QED BY <3>1, <3>3 DEF NamedTotal
  <2>4. \A k : Times(k, slots) = 0
    BY TimesEmpty DEF Init
  <2>5. AddsUp
    BY <2>2, <2>3, <2>4 DEF AddsUp, Init
  <2> QED BY <2>5, AccountedIs
<1> QED BY <1>1, <1>2, <1>3 DEF EnumeratorsInv

\* Every step keeps it.
LEMMA NextKept == EnumeratorsInv /\ [Next]_vars => EnumeratorsInv'
<1> SUFFICES ASSUME EnumeratorsInv, [Next]_vars PROVE EnumeratorsInv'
  OBVIOUS
<1>1. CASE FindConnectionPoint \/ ReleasePoint \/ ReleaseObject
  BY <1>1, ObjectSteps
<1>2. CASE Advise
  BY <1>2, AdviseKeeps
<1>3. ASSUME NEW k \in Cookies, Unadvise(k) \/ ReleaseClient(k)
      PROVE  EnumeratorsInv'
  BY <1>3, UnadviseKeeps, ReleaseClientKeeps
<1>4. ASSUME NEW e \in Ids,
             EnumConnectionPoints(e) \/ EnumConnections(e) \/ EnumVerbs(e) \/ GetEnumerator(e)
      PROVE  EnumeratorsInv'
  BY <1>4, EnumConnectionPointsKeeps, EnumConnectionsKeeps, EnumOthersKeeps
<1>5. ASSUME NEW e \in Ids, AddRef(e) \/ Release(e) \/ \E f \in Ids : Clone(e, f)
      PROVE  EnumeratorsInv'
  BY <1>5, AddRefKeeps, ReleaseKeeps, CloneKeeps
<1>6. ASSUME NEW e \in Ids, NEW n \in Requests,
             NextElements(e, n) \/ NextRunsOut(e, n) \/ Skip(e, n)
      PROVE  EnumeratorsInv'
  BY <1>6, NextElementsKeeps, NextRunsOutKeeps, SkipResetKeeps
<1>7. ASSUME NEW e \in Ids, Reset(e)
      PROVE  EnumeratorsInv'
  BY <1>7, SkipResetKeeps, EnumeratorsAssumption
<1>8. ASSUME NEW e \in Ids, LoopStarts(e) \/ LoopSteps(e) \/ LoopFails(e) \/ LoopForgotten(e)
      PROVE  EnumeratorsInv'
  BY <1>8, LoopKeeps
<1>9. CASE UNCHANGED vars
  <2>1. UNCHANGED <<refs, user, given, slots, made, pins, taken, enums, names, loop>>
    BY <1>9 DEF vars, object, point
  <2>2. PointKept'
    BY <2>1 DEF EnumeratorsInv, PointKept
  <2> QED BY <2>1, <2>2, StayKeeps
<1> QED BY <1>1, <1>2, <1>3, <1>4, <1>5, <1>6, <1>7, <1>8, <1>9 DEF Next

\* The inductive invariant is one.
LEMMA AlwaysKept == Spec => []EnumeratorsInv
<1> QED BY InitKept, NextKept, PTL DEF Spec

\* References add up: to the object, to every client, and names of verbs,
\* whatever is enumerated, cloned and passed on, in whatever order (the
\* AddRef, Release, Init, Next and Clone of all the enumerators).
THEOREM AlwaysAccounted == Spec => []Accounted
<1>1. EnumeratorsInv => Accounted
  BY DEF EnumeratorsInv
<1> QED BY <1>1, AlwaysKept, PTL

\* Every variable keeps its type; no count of references goes below zero, and
\* no enumerator stands past its end (Next, Skip).
THEOREM EnumeratorTypes == Spec => []TypeOK
<1>1. ASSUME EnumeratorsInv PROVE TypeOK
  <2>1. AddsUp /\ Numbers /\ PointKept
    BY <1>1, AccountedIs, Numeric DEF EnumeratorsInv
  <2>2. given \in 0..MaxGiven /\ given \in Nat /\ user \in Nat
    BY <2>1, CookiesAre DEF PointKept
  <2>3. refs \in Nat
    BY <2>1, <2>2 DEF AddsUp, Numbers
  <2>4. pins \in [Cookies -> Nat]
    <3>1. \A k \in Cookies : pins[k] \in Nat
      BY <2>1 DEF AddsUp, Numbers
    <3> QED BY <2>1, <3>1 DEF PointKept
  <2>5. ASSUME NEW e \in Ids
        PROVE  /\ enums[e].kind \in Local \cup {"verbs", "values", "none"}
               /\ enums[e].next \in 0..Len(enums[e].items) /\ enums[e].refs \in 0..MaxRefs
               /\ loop[e].at \in {"none", "running", "done", "failed"}
    <3>1. /\ enums[e] \in Enumerator /\ EnumeratorKept(enums[e]) /\ loop[e] \in Loop
          /\ enums[e].next \in 0..Len(enums[e].items) /\ enums[e].refs \in Nat
      BY <1>1, OneKept
    <3>2. enums[e].refs \in 0..MaxRefs
      BY <3>1, CookiesAre DEF EnumeratorKept
    <3> QED BY <3>1, <3>2 DEF Enumerator, Kinds, Loop
  <2>6. names \in Int
    BY <2>1 DEF AddsUp
  <2> QED BY <2>1, <2>2, <2>3, <2>4, <2>5, <2>6 DEF TypeOK, PointKept
<1> QED BY <1>1, AlwaysKept, PTL

-----------------------------------------------------------------------------
(* Each enumerator keeps what COM promises of it.                          *)

Rest(s, a) == SubSeq(s, a + 1, Len(s))

\* What is left of a sequence after its first a elements, of these after k
\* more, and these k.
LEMMA RestIs ==
  ASSUME NEW s \in Seq(Int), NEW a \in 0..Len(s), NEW k \in 0..(Len(s) - a)
  PROVE  /\ Len(Rest(s, a)) = Len(s) - a
         /\ SubSeq(Rest(s, a), k + 1, Len(Rest(s, a))) = Rest(s, a + k)
         /\ SubSeq(Rest(s, a), 1, k) = SubSeq(s, a + 1, a + k)
<1>1. PICK l \in Nat : l = Len(s)
  OBVIOUS
<1>2. a \in 0..l /\ a \in Nat /\ k \in 0..(l - a) /\ k \in Nat
  BY <1>1
<1> DEFINE r == SubSeq(s, a + 1, l)
<1>3. \A i \in 1..l : s[i] \in Int
  BY <1>1
<1>4. r = Rest(s, a) /\ Rest(s, a + k) = SubSeq(s, a + k + 1, l)
  BY <1>1 DEF Rest
<1>5. r \in Seq(Int) /\ Len(r) = l - a
  <2>1. a + 1 \in Int /\ l \in Int /\ \A i \in (a + 1)..l : s[i] \in Int
    BY <1>2, <1>3
  <2>2. r \in Seq(Int) /\ Len(r) = IF a + 1 <= l THEN l - (a + 1) + 1 ELSE 0
    BY <2>1, SubSeqProperties
  <2>3. (IF a + 1 <= l THEN l - (a + 1) + 1 ELSE 0) = l - a
    BY <1>1, <1>2
  <2> QED BY <2>2, <2>3
<1>6. SubSeq(r, k + 1, l - a) = SubSeq(s, a + k + 1, l)
  <2>1. CASE k = l - a
    <3>1. l - a < k + 1 /\ k + 1 \in Int /\ l - a \in Int /\ l < a + k + 1 /\ a + k + 1 \in Int /\ l \in Int
      BY <1>1, <1>2, <2>1
    <3>2. SubSeq(r, k + 1, l - a) = <<>>
      BY <3>1, SubSeqEmpty
    <3>3. SubSeq(s, a + k + 1, l) = <<>>
      BY <3>1, SubSeqEmpty
    <3> QED BY <3>2, <3>3
  <2>2. CASE k < l - a
    <3>1. /\ a + 1 \in 1..Len(s) /\ l \in 1..Len(s)
          /\ k + 1 \in 1..(l - (a + 1) + 1) /\ l - a \in 1..(l - (a + 1) + 1)
      BY <1>1, <1>2, <2>2
    <3>2. PICK i \in 1..Len(s), j \in 1..Len(s) : i = a + 1 /\ j = l
      BY <3>1
    <3>3. PICK m \in 1..(j - i + 1), n \in 1..(j - i + 1) : m = k + 1 /\ n = l - a
      BY <3>1, <3>2
    <3>4. SubSeq(SubSeq(s, i, j), m, n) = SubSeq(s, i + m - 1, i + n - 1)
      BY SubSeqOfSubSeq
    <3>5. i + m - 1 = a + k + 1 /\ i + n - 1 = l
      BY <1>1, <1>2, <3>2, <3>3
    <3> QED BY <3>2, <3>3, <3>4, <3>5
  <2> QED BY <1>1, <1>2, <2>1, <2>2
<1>7. SubSeq(r, 1, k) = SubSeq(s, a + 1, a + k)
  <2>1. CASE k = 0
    <3>1. k < 1 /\ 1 \in Int /\ k \in Int /\ a + k < a + 1 /\ a + 1 \in Int /\ a + k \in Int
      BY <1>2, <2>1
    <3>2. SubSeq(r, 1, k) = <<>>
      BY <3>1, SubSeqEmpty
    <3>3. SubSeq(s, a + 1, a + k) = <<>>
      BY <3>1, SubSeqEmpty
    <3> QED BY <3>2, <3>3
  <2>2. CASE k > 0
    <3>1. /\ a + 1 \in 1..Len(s) /\ l \in 1..Len(s)
          /\ 1 \in 1..(l - (a + 1) + 1) /\ k \in 1..(l - (a + 1) + 1)
      BY <1>1, <1>2, <2>2
    <3>2. PICK i \in 1..Len(s), j \in 1..Len(s) : i = a + 1 /\ j = l
      BY <3>1
    <3>3. PICK m \in 1..(j - i + 1), n \in 1..(j - i + 1) : m = 1 /\ n = k
      BY <3>1, <3>2
    <3>4. SubSeq(SubSeq(s, i, j), m, n) = SubSeq(s, i + m - 1, i + n - 1)
      BY SubSeqOfSubSeq
    <3>5. i + m - 1 = a + 1 /\ i + n - 1 = a + k
      BY <1>1, <1>2, <3>2, <3>3
    <3> QED BY <3>2, <3>3, <3>4, <3>5
  <2> QED BY <1>2, <2>1, <2>2
<1> HIDE DEF r
<1> QED BY <1>1, <1>4, <1>5, <1>6, <1>7

\* A mark in front of a sequence says that it is there, and comes off again.
LEMMA MarkIs ==
  ASSUME NEW s \in Seq(Int)
  PROVE  /\ <<-1>> \o s # <<>> /\ Tail(<<-1>> \o s) = s
         /\ Rest(s, 0) = s
<1>1. <<-1>> \in Seq(Int) /\ Len(<<-1>>) = 1
  OBVIOUS
<1> DEFINE t == <<-1>> \o s
<1>2. /\ t \in Seq(Int) /\ Len(t) = Len(s) + 1
      /\ \A i \in 1..(Len(s) + 1) : t[i] = IF i <= 1 THEN -1 ELSE s[i - 1]
  BY <1>1
<1> HIDE DEF t
<1>3. t # <<>>
  BY <1>2
<1>4. Tail(t) \in Seq(Int) /\ Len(Tail(t)) = Len(s) /\ \A i \in 1..Len(s) : Tail(t)[i] = t[i + 1]
  BY <1>2, <1>3, HeadTailProperties
<1>5. ASSUME NEW i \in 1..Len(s) PROVE Tail(t)[i] = s[i]
  <2>1. Tail(t)[i] = t[i + 1]
    BY <1>4
  <2>2. i + 1 \in 1..(Len(s) + 1) /\ ~(i + 1 <= 1) /\ (i + 1) - 1 = i
    OBVIOUS
  <2>3. t[i + 1] = s[(i + 1) - 1]
    BY <1>2, <2>2
  <2> QED BY <2>1, <2>2, <2>3
<1>6. Tail(t) = s
  <2> DEFINE u == Tail(t)
  <2>1. u \in Seq(Int) /\ Len(u) = Len(s) /\ \A i \in 1..Len(s) : u[i] = s[i]
    BY <1>4, <1>5
  <2> HIDE DEF u
  <2>2. u = [i \in 1..Len(s) |-> u[i]] /\ s = [i \in 1..Len(s) |-> s[i]]
    BY <2>1
  <2>3. u = s
    BY <2>1, <2>2
  <2> QED BY <2>3 DEF u
<1>7. Rest(s, 0) = s
  BY SubSeqFull DEF Rest
<1> QED BY <1>3, <1>6, <1>7 DEF t

lists == [e \in Ids |-> IF Free(e) THEN <<>> ELSE <<-1>> \o enums[e].items]
rests == [e \in Ids |-> SubSeq(enums[e].items, enums[e].next + 1, Len(enums[e].items))]

\* What one enumerator is to the promise.
ListOf(x) == IF x.kind = "none" THEN <<>> ELSE <<-1>> \o x.items
RestOf(x) == Rest(x.items, x.next)

\* Changing an enumerator changes its list, and what is left of it.
LEMMA MapsPut ==
  ASSUME EnumeratorsInv, NEW e \in Ids, NEW x, enums' = [enums EXCEPT ![e] = x]
  PROVE  /\ lists' = [lists EXCEPT ![e] = ListOf(x)]
         /\ rests' = [rests EXCEPT ![e] = RestOf(x)]
<1>1. enums \in [Ids -> Enumerator]
  BY DEF EnumeratorsInv, EnumeratorsKept
<1>2. /\ lists = [d \in Ids |-> ListOf(enums[d])] /\ lists' = [d \in Ids |-> ListOf(enums'[d])]
      /\ rests = [d \in Ids |-> RestOf(enums[d])] /\ rests' = [d \in Ids |-> RestOf(enums'[d])]
  BY DEF lists, rests, ListOf, RestOf, Rest, Free
<1>3. enums'[e] = x /\ \A d \in Ids \ {e} : enums'[d] = enums[d]
  BY <1>1
<1>4. lists' = [lists EXCEPT ![e] = ListOf(x)]
  <2>1. PICK fs, gs, y : fs = lists /\ gs = lists' /\ y = ListOf(x)
    OBVIOUS
  <2>2. fs = [d \in Ids |-> ListOf(enums[d])] /\ gs = [d \in Ids |-> ListOf(enums'[d])]
    BY <1>2, <2>1
  <2>3. gs = [d \in Ids |-> IF d = e THEN y ELSE fs[d]]
    <3>1. \A d \in Ids : ListOf(enums'[d]) = IF d = e THEN y ELSE fs[d]
      BY <1>3, <2>1, <2>2
    <3> QED BY <2>2, <3>1
  <2>4. gs = [fs EXCEPT ![e] = y]
    <3>1. fs = [d \in Ids |-> fs[d]]
      BY <2>2
    <3> QED BY <2>3, <3>1
  <2> QED BY <2>1, <2>4
<1>5. rests' = [rests EXCEPT ![e] = RestOf(x)]
  <2>1. PICK fs, gs, y : fs = rests /\ gs = rests' /\ y = RestOf(x)
    OBVIOUS
  <2>2. fs = [d \in Ids |-> RestOf(enums[d])] /\ gs = [d \in Ids |-> RestOf(enums'[d])]
    BY <1>2, <2>1
  <2>3. gs = [d \in Ids |-> IF d = e THEN y ELSE fs[d]]
    <3>1. \A d \in Ids : RestOf(enums'[d]) = IF d = e THEN y ELSE fs[d]
      BY <1>3, <2>1, <2>2
    <3> QED BY <2>2, <3>1
  <2>4. gs = [fs EXCEPT ![e] = y]
    <3>1. fs = [d \in Ids |-> fs[d]]
      BY <2>2
    <3> QED BY <2>3, <3>1
  <2> QED BY <2>1, <2>4
<1> QED BY <1>4, <1>5

\* The list and the rest of one enumerator.
LEMMA MapsAt ==
  ASSUME EnumeratorsInv, NEW e \in Ids
  PROVE  /\ lists[e] = ListOf(enums[e]) /\ rests[e] = RestOf(enums[e])
         /\ lists[e] = <<>> <=> Free(e)
         /\ Len(rests[e]) = Left(e)
<1>1. /\ enums[e].items \in Seq(Int) /\ Len(enums[e].items) \in Nat
      /\ enums[e].next \in 0..Len(enums[e].items)
  BY OneKept
<1>2. lists[e] = ListOf(enums[e]) /\ rests[e] = RestOf(enums[e])
  BY DEF lists, rests, ListOf, RestOf, Rest, Free
<1>3. lists[e] = <<>> <=> Free(e)
  BY <1>1, <1>2, MarkIs DEF ListOf, Free
<1>4. PICK s \in Seq(Int), a \in 0..Len(enums[e].items), k \in Nat :
        s = enums[e].items /\ a = enums[e].next /\ k = 0
  BY <1>1
<1>5. Len(Rest(s, a)) = Len(s) - a
  <2>1. k \in 0..(Len(s) - a) /\ a \in 0..Len(s)
    BY <1>1, <1>4
  <2> QED BY <2>1, RestIs
<1> QED BY <1>2, <1>3, <1>4, <1>5 DEF RestOf, Left

\* An enumerator that is made goes through a list of its own, from its start.
LEMMA MakeMaps ==
  ASSUME EnumeratorsInv, NEW e \in Ids, NEW x, Free(e),
         enums' = [enums EXCEPT ![e] = x],
         x.kind # "none", x.items \in Listings, x.next = 0, answer' = <<>>
  PROVE  Contract!Next
<1>1. PICK s \in Listings : s = x.items
  OBVIOUS
<1>2. lists[e] = <<>>
  BY MapsAt
<1>3. ListOf(x) = <<-1>> \o s /\ RestOf(x) = s
  <2>1. s \in Seq(Int)
    BY ListingsAre
  <2> QED BY <1>1, <2>1, MarkIs DEF ListOf, RestOf
<1>4. lists' = [lists EXCEPT ![e] = <<-1>> \o s] /\ rests' = [rests EXCEPT ![e] = s]
  <2>1. lists' = [lists EXCEPT ![e] = ListOf(x)] /\ rests' = [rests EXCEPT ![e] = RestOf(x)]
    BY MapsPut
  <2> QED BY <1>3, <2>1, Zenon
<1>5. Contract!Make(e, s)
  BY <1>2, <1>4 DEF Contract!Make, Contract!Exists, Contract!Open, Contract!Quiet, lists, rests
<1> QED BY <1>5 DEF Contract!Next

\* One that goes is out of the promise.
LEMMA CloseMaps ==
  ASSUME EnumeratorsInv, NEW e \in Ids, ~Free(e),
         enums' = [enums EXCEPT ![e] = Nobody], answer' = <<>>
  PROVE  Contract!Next
<1>1. lists[e] # <<>>
  BY MapsAt
<1>2. PICK x : x = Nobody
  OBVIOUS
<1>3. ListOf(x) = <<>> /\ RestOf(x) = <<>>
  <2>1. <<>> \in Seq(Int)
    OBVIOUS
  <2>2. Rest(<<>>, 0) = <<>>
    BY <2>1, MarkIs, Zenon
  <2> QED BY <1>2, <2>2 DEF ListOf, RestOf, Nobody
<1>4. lists' = [lists EXCEPT ![e] = <<>>] /\ rests' = [rests EXCEPT ![e] = <<>>]
  <2>1. enums' = [enums EXCEPT ![e] = x]
    BY <1>2
  <2>2. /\ lists' = [lists EXCEPT ![e] = ListOf(x)]
        /\ rests' = [rests EXCEPT ![e] = RestOf(x)]
    BY <2>1, MapsPut
  <2> QED BY <1>3, <2>2
<1>5. Contract!Close(e)
  BY <1>1, <1>4 DEF Contract!Close, Contract!Exists, Contract!Quiet, lists, rests
<1> QED BY <1>5 DEF Contract!Next

\* A step that moves nobody and answers nothing is none of the promise's.
LEMMA OtherMaps ==
  ASSUME lists' = lists, rests' = rests, answer' = <<>>
  PROVE  Contract!Next
<1>1. Contract!Other
  BY DEF Contract!Other, Contract!Quiet, lists, rests
<1> QED BY <1>1 DEF Contract!Next

\* A step that leaves elements and place of an enumerator alone.
LEMMA SameMaps ==
  ASSUME EnumeratorsInv, NEW e \in Ids, NEW x, enums' = [enums EXCEPT ![e] = x],
         x.kind = enums[e].kind, x.items = enums[e].items, x.next = enums[e].next
  PROVE  lists' = lists /\ rests' = rests
<1>1. ListOf(x) = lists[e] /\ RestOf(x) = rests[e]
  BY MapsAt DEF ListOf, RestOf
<1>2. lists' = [lists EXCEPT ![e] = ListOf(x)] /\ rests' = [rests EXCEPT ![e] = RestOf(x)]
  BY MapsPut
<1>3. lists = [d \in Ids |-> lists[d]] /\ rests = [d \in Ids |-> rests[d]]
  BY DEF lists, rests
<1> QED BY <1>1, <1>2, <1>3

\* One that moves on by k elements has these no longer left.
LEMMA MoveMaps ==
  ASSUME EnumeratorsInv, NEW e \in Ids, NEW k \in 0..Left(e),
         enums' = [enums EXCEPT ![e].next = @ + k]
  PROVE  /\ lists' = lists
         /\ rests' = [rests EXCEPT ![e] = SubSeq(@, k + 1, Len(@))]
         /\ SubSeq(rests[e], 1, k)
              = SubSeq(enums[e].items, enums[e].next + 1, enums[e].next + k)
<1>1. /\ enums[e].items \in Seq(Int) /\ enums[e].next \in 0..Len(enums[e].items)
      /\ Left(e) = Len(enums[e].items) - enums[e].next /\ enums[e] \in Enumerator
  BY OneKept DEF Left
<1>2. PICK x : x = [enums[e] EXCEPT !.next = enums[e].next + k]
  OBVIOUS
<1>3. enums' = [enums EXCEPT ![e] = x]
  BY <1>2
<1>4. x.kind = enums[e].kind /\ x.items = enums[e].items /\ x.next = enums[e].next + k
  BY <1>1, <1>2 DEF Enumerator
<1>5. PICK s \in Seq(Int) : s = enums[e].items
  BY <1>1
<1>6. PICK a \in 0..Len(s) : a = enums[e].next
  BY <1>1, <1>5
<1>7. k \in 0..(Len(s) - a)
  BY <1>1, <1>5, <1>6
<1>8. /\ SubSeq(Rest(s, a), k + 1, Len(Rest(s, a))) = Rest(s, a + k)
      /\ SubSeq(Rest(s, a), 1, k) = SubSeq(s, a + 1, a + k)
  BY <1>7, RestIs
<1>9. rests[e] = Rest(s, a) /\ RestOf(x) = Rest(s, a + k)
  BY <1>4, <1>5, <1>6, MapsAt DEF RestOf
<1>10. lists' = [lists EXCEPT ![e] = ListOf(x)] /\ rests' = [rests EXCEPT ![e] = RestOf(x)]
  BY <1>3, MapsPut
<1>11. ListOf(x) = lists[e]
  BY <1>4, MapsAt DEF ListOf
<1>12. lists' = lists
  <2>1. lists = [d \in Ids |-> lists[d]]
    BY DEF lists
  <2> QED BY <1>10, <1>11, <2>1
<1>13. rests' = [rests EXCEPT ![e] = SubSeq(@, k + 1, Len(@))]
  BY <1>8, <1>9, <1>10
<1> QED BY <1>5, <1>6, <1>8, <1>9, <1>12, <1>13

\* Whatever becomes of the object, of its point and of the clients, nobody's
\* elements change.
LEMMA ElsewhereMaps ==
  ASSUME EnumeratorsInv, NEW k \in Cookies,
         \/ FindConnectionPoint \/ ReleasePoint \/ ReleaseObject
         \/ Advise \/ Unadvise(k) \/ ReleaseClient(k)
  PROVE  Contract!Next
<1>1. enums' = enums /\ answer' = <<>>
  BY DEF FindConnectionPoint, ReleasePoint, ReleaseObject, Advise, Unadvise, ReleaseClient, Quiet
<1>2. lists' = lists /\ rests' = rests
  BY <1>1 DEF lists, rests, Free
<1> QED BY <1>1, <1>2, OtherMaps

\* The four operations that make an enumerator.
LEMMA EnumMaps ==
  ASSUME EnumeratorsInv, NEW e \in Ids,
         EnumConnectionPoints(e) \/ EnumConnections(e) \/ EnumVerbs(e) \/ GetEnumerator(e)
  PROVE  Contract!Next
<1>1. Snapshot \in Listings
  <2>1. slots \in Seq(0..made) /\ made \in 0..MaxCookie /\ Len(slots) <= made
    BY DEF EnumeratorsInv, PointKept
  <2>2. slots \in Seq(0..MaxCookie) /\ Len(slots) \in Nat
    BY <2>1, CookiesAre
  <2>3. Snapshot \in Seq(Cookies) /\ Len(Snapshot) <= Len(slots)
    BY <2>2, SnapshotFits
  <2>4. Len(Snapshot) <= MaxCookie
    <3>1. Len(Snapshot) \in Nat
      BY <2>3
    <3> QED BY <2>1, <2>2, <2>3, <3>1, CookiesAre
  <2> QED BY <2>3, <2>4, ListingsAre
<1>2. PICK kind \in Kinds \ {"none"}, items \in Listings :
        enums' = [enums EXCEPT ![e] = New(kind, items, 0)]
  <2>1. {"points", "connections", "verbs", "values"} \subseteq Kinds \ {"none"}
    BY DEF Kinds, Local
  <2> QED BY <1>1, <2>1, ListingsAre
       DEF EnumConnectionPoints, EnumConnections, EnumVerbs, GetEnumerator
<1>3. Free(e) /\ answer' = <<>>
  BY DEF EnumConnectionPoints, EnumConnections, EnumVerbs, GetEnumerator, Quiet
<1>4. PICK x : x = New(kind, items, 0)
  OBVIOUS
<1>5. x.kind # "none" /\ x.items \in Listings /\ x.next = 0
  BY <1>4 DEF New
<1> QED BY <1>2, <1>3, <1>4, <1>5, MakeMaps

\* Clone goes on where its original stands.
LEMMA CloneMaps ==
  ASSUME EnumeratorsInv, NEW e \in Ids, NEW f \in Ids, Clone(e, f)
  PROVE  Contract!Next
<1>1. /\ ~Free(e) /\ Free(f) /\ CloneIs(e, f)
      /\ enums' = [enums EXCEPT ![f] = New(enums[e].kind, enums[e].items, enums[e].next)]
  BY DEF Clone
<1>2. PICK x : x = New(enums[e].kind, enums[e].items, enums[e].next)
  OBVIOUS
<1>3. ListOf(x) = lists[e] /\ RestOf(x) = rests[e]
  <2>1. x.kind = enums[e].kind /\ x.items = enums[e].items /\ x.next = enums[e].next
    BY <1>2 DEF New
  <2> QED BY <2>1, MapsAt DEF ListOf, RestOf
<1>4. lists' = [lists EXCEPT ![f] = ListOf(x)] /\ rests' = [rests EXCEPT ![f] = RestOf(x)]
  BY <1>1, <1>2, MapsPut
<1>5. lists' = [lists EXCEPT ![f] = lists[e]] /\ rests' = [rests EXCEPT ![f] = rests[e]]
  BY <1>3, <1>4, Zenon
<1>6. lists[e] # <<>> /\ lists[f] = <<>>
  BY <1>1, MapsAt
<1>7. Contract!Clone(e, f)
  BY <1>1, <1>5, <1>6 DEF Contract!Clone, Contract!Exists, Contract!CloneIs, CloneIs, lists, rests
<1> QED BY <1>7 DEF Contract!Next

\* AddRef, and Release, which may be the last.
LEMMA CountMaps ==
  ASSUME EnumeratorsInv, NEW e \in Ids, AddRef(e) \/ Release(e)
  PROVE  Contract!Next
<1>1. enums[e] \in Enumerator /\ answer' = <<>> /\ ~Free(e)
  BY OneKept DEF AddRef, Release, Quiet
<1>2. CASE enums' = [enums EXCEPT ![e] = Nobody]
  BY <1>1, <1>2, CloseMaps
<1>3. ASSUME NEW r, enums' = [enums EXCEPT ![e] = [enums[e] EXCEPT !.refs = r]]
      PROVE  Contract!Next
  <2>1. PICK x : x = [enums[e] EXCEPT !.refs = r]
    OBVIOUS
  <2>2. x.kind = enums[e].kind /\ x.items = enums[e].items /\ x.next = enums[e].next
    BY <1>1, <2>1 DEF Enumerator
  <2>3. lists' = lists /\ rests' = rests
    BY <1>3, <2>1, <2>2, SameMaps
  <2> QED BY <1>1, <2>3, OtherMaps
<1>4. \/ enums' = [enums EXCEPT ![e] = Nobody]
      \/ \E r : enums' = [enums EXCEPT ![e] = [enums[e] EXCEPT !.refs = r]]
  <2>1. CASE AddRef(e)
    <3>1. enums' = [enums EXCEPT ![e] = [enums[e] EXCEPT !.refs = enums[e].refs + 1]]
      BY <2>1 DEF AddRef
    <3> QED BY <3>1
  <2>2. CASE Release(e)
    <3>1. \/ enums' = [enums EXCEPT ![e] = Nobody]
          \/ enums' = [enums EXCEPT ![e] = [enums[e] EXCEPT !.refs = enums[e].refs - 1]]
      BY <2>2 DEF Release
    <3> QED BY <3>1
  <2> QED BY <2>1, <2>2
<1> QED BY <1>2, <1>3, <1>4

\* Next, and a step of a loop, which is one: the answer is the first elements
\* that are left, and says whether they are all that were asked for.
LEMMA NextMaps ==
  ASSUME EnumeratorsInv, NEW e \in Ids, NEW n \in Requests, ~Free(e),
         enums' = [enums EXCEPT ![e].next = @ + Fetched(e, n)],
         Says(e, Fetched(e, n) = n, Got(e, n))
  PROVE  Contract!Next
<1>1. n \in Nat
  BY EnumeratorsAssumption
<1>2. PICK k \in 0..Left(e) : k = Fetched(e, n)
  BY <1>1, GotIs
<1>3. enums' = [enums EXCEPT ![e].next = @ + k]
  BY <1>2
<1>4. /\ lists' = lists
      /\ rests' = [rests EXCEPT ![e] = SubSeq(@, k + 1, Len(@))]
      /\ SubSeq(rests[e], 1, k) = SubSeq(enums[e].items, enums[e].next + 1, enums[e].next + k)
  BY <1>3, MoveMaps
<1>5. Got(e, n) = SubSeq(rests[e], 1, k)
  BY <1>2, <1>4 DEF Got
<1>6. k = IF n < Len(rests[e]) THEN n ELSE Len(rests[e])
  BY <1>2, MapsAt DEF Fetched
<1>7. answer' = <<[id |-> e, ok |-> (k = n), got |-> SubSeq(rests[e], 1, k)]>>
  BY <1>2, <1>5 DEF Says
<1>8. lists[e] # <<>>
  BY MapsAt
<1>9. Contract!NextElements(e, n)
  BY <1>4, <1>6, <1>7, <1>8
     DEF Contract!NextElements, Contract!Exists, Contract!Moves, Contract!Taken,
         Contract!Says, lists, rests
<1> QED BY <1>9 DEF Contract!Next

\* Skip passes over what is left, as far as it was asked to.
LEMMA SkipMaps ==
  ASSUME EnumeratorsInv, NEW e \in Ids, NEW n \in Requests, Skip(e, n)
  PROVE  Contract!Next
<1>1. n \in Nat
  BY EnumeratorsAssumption
<1>2. PICK k \in 0..Left(e) : k = Fetched(e, n)
  BY <1>1, GotIs
<1>3. /\ Len(enums[e].items) \in Nat /\ enums[e].next \in 0..Len(enums[e].items)
      /\ Left(e) = Len(enums[e].items) - enums[e].next /\ Left(e) \in Nat
  BY <1>1, OneKept, GotIs DEF Left
<1>4. SkipsTo(e, n) = enums[e].next + k /\ (n <= Left(e) <=> k = n)
  <2>1. CASE n > Left(e)
    <3>1. k = Left(e) /\ k # n /\ ~(n <= Left(e))
      BY <1>1, <1>2, <1>3, <2>1 DEF Fetched
    <3>2. SkipsTo(e, n) = Len(enums[e].items)
      BY <2>1 DEF SkipsTo
    <3>3. enums[e].next + Left(e) = Len(enums[e].items)
      BY <1>3
    <3> QED BY <3>1, <3>2, <3>3
  <2>2. CASE ~(n > Left(e))
    <3>1. k = n /\ n <= Left(e)
      BY <1>1, <1>2, <1>3, <2>2 DEF Fetched
    <3> QED BY <2>2, <3>1 DEF SkipsTo
  <2> QED BY <2>1, <2>2
<1>5. enums' = [enums EXCEPT ![e].next = @ + k]
  BY <1>4 DEF Skip
<1>6. /\ lists' = lists
      /\ rests' = [rests EXCEPT ![e] = SubSeq(@, k + 1, Len(@))]
  BY <1>5, MoveMaps
<1>7. k = IF n < Len(rests[e]) THEN n ELSE Len(rests[e])
  BY <1>2, MapsAt DEF Fetched
<1>8. answer' = <<[id |-> e, ok |-> (k = n), got |-> <<>>]>>
  <2>1. answer' = <<[id |-> e, ok |-> (n <= Left(e)), got |-> <<>>]>>
    BY DEF Skip, Says
  <2>2. (n <= Left(e)) = (k = n)
    BY <1>4
  <2> QED BY <2>1, <2>2
<1>9. lists[e] # <<>>
  BY MapsAt DEF Skip
<1>10. Contract!Skip(e, n)
  BY <1>6, <1>7, <1>8, <1>9
     DEF Contract!Skip, Contract!Exists, Contract!Moves, Contract!Taken, Contract!Says,
         lists, rests
<1> QED BY <1>10 DEF Contract!Next

\* Reset goes back to the start of the list.
LEMMA ResetMaps ==
  ASSUME EnumeratorsInv, NEW e \in Ids, Reset(e)
  PROVE  Contract!Next
<1>1. /\ ~Free(e) /\ answer' = <<>> /\ enums[e] \in Enumerator
      /\ enums' = [enums EXCEPT ![e].next = 0]
  BY OneKept DEF Reset, Quiet
<1>2. PICK x : x = [enums[e] EXCEPT !.next = 0]
  OBVIOUS
<1>3. x.kind = enums[e].kind /\ x.items = enums[e].items /\ x.next = 0
  BY <1>1, <1>2 DEF Enumerator
<1>4. lists' = [lists EXCEPT ![e] = ListOf(x)] /\ rests' = [rests EXCEPT ![e] = RestOf(x)]
  BY <1>1, <1>2, MapsPut
<1>5. ListOf(x) = lists[e]
  BY <1>3, MapsAt DEF ListOf
<1>6. RestOf(x) = Tail(lists[e])
  <2>1. PICK s \in Seq(Int) : s = enums[e].items
    BY OneKept
  <2>2. lists[e] = <<-1>> \o s
    BY <1>1, <2>1, MapsAt DEF ListOf, Free
  <2>3. RestOf(x) = Rest(s, 0)
    BY <1>3, <2>1 DEF RestOf
  <2>4. Tail(<<-1>> \o s) = s /\ Rest(s, 0) = s
    BY MarkIs
  <2> QED BY <2>2, <2>3, <2>4
<1>7. lists' = lists
  <2>1. lists = [d \in Ids |-> lists[d]]
    BY DEF lists
  <2> QED BY <1>4, <1>5, <2>1
<1>8. rests' = [rests EXCEPT ![e] = Tail(lists[e])]
  BY <1>4, <1>6, Zenon
<1>9. lists[e] # <<>>
  BY <1>1, MapsAt
<1>10. Contract!Reset(e)
  BY <1>1, <1>7, <1>8, <1>9 DEF Contract!Reset, Contract!Exists, Contract!Quiet, lists, rests
<1> QED BY <1>10 DEF Contract!Next

\* A failed answer moves nothing.
LEMMA RunsOutMaps ==
  ASSUME EnumeratorsInv, NEW e \in Ids, NEW n \in Requests, NextRunsOut(e, n)
  PROVE  Contract!Next
<1>1. enums' = enums /\ Says(e, FALSE, <<>>) /\ ~Free(e)
  BY DEF NextRunsOut, Free
<1>2. lists' = lists /\ rests' = rests
  BY <1>1 DEF lists, rests, Free
<1>3. lists[e] # <<>>
  BY <1>1, MapsAt
<1>4. Contract!Fail(e)
  BY <1>1, <1>2, <1>3 DEF Contract!Fail, Contract!Exists, Contract!Says, Says, lists, rests
<1> QED BY <1>4 DEF Contract!Next

\* The steps of a loop of luacom.pairs are calls of Next for one element.
LEMMA LoopMaps ==
  ASSUME EnumeratorsInv, NEW e \in Ids,
         LoopStarts(e) \/ LoopSteps(e) \/ LoopFails(e) \/ LoopForgotten(e)
  PROVE  Contract!Next
<1>1. ~Free(e) /\ 1 \in Requests /\ Left(e) \in Nat
  <2>1. ~Free(e)
    BY OneKept DEF LoopStarts, LoopSteps, LoopFails, LoopForgotten, Free
  <2>2. PICK n \in Nat : n = 1
    OBVIOUS
  <2>3. Left(e) \in Nat
    BY <2>2, GotIs
  <2> QED BY <2>1, <2>3, EnumeratorsAssumption
<1>2. CASE LoopStarts(e)
  <2>1. enums' = enums /\ answer' = <<>>
    BY <1>2 DEF LoopStarts, Quiet
  <2>2. lists' = lists /\ rests' = rests
    BY <2>1 DEF lists, rests, Free
  <2> QED BY <2>1, <2>2, OtherMaps
<1>3. CASE LoopSteps(e)
  <2>1. PICK n \in Requests : n = 1
    BY <1>1
  <2>2. (Left(e) > 0) = (Fetched(e, n) = n)
    BY <1>1, <2>1 DEF Fetched
  <2>3. Says(e, Fetched(e, n) = n, Got(e, n))
    BY <1>3, <2>1, <2>2 DEF LoopSteps, Says
  <2>4. enums' = [enums EXCEPT ![e].next = @ + Fetched(e, n)]
    BY <1>3, <2>1 DEF LoopSteps
  <2> QED BY <1>1, <2>3, <2>4, NextMaps
<1>4. CASE LoopFails(e)
  <2>1. PICK n \in Requests : n = 1
    BY <1>1
  <2>2. Fetched(e, n) = n
    BY <1>1, <1>4, <2>1 DEF Fetched, LoopFails
  <2>3. (Fetched(e, n) = n) = TRUE
    BY <2>2
  <2>4. Says(e, Fetched(e, n) = n, Got(e, n))
    BY <1>4, <2>1, <2>3 DEF LoopFails, Says
  <2>5. enums' = [enums EXCEPT ![e].next = @ + Fetched(e, n)]
    BY <1>4, <2>1, <2>2 DEF LoopFails
  <2> QED BY <1>1, <2>4, <2>5, NextMaps
<1>5. CASE LoopForgotten(e)
  <2>1. enums' = [enums EXCEPT ![e] = Nobody] /\ answer' = <<>>
    BY <1>5 DEF LoopForgotten, Quiet
  <2> QED BY <1>1, <2>1, CloseMaps
<1> QED BY <1>2, <1>3, <1>4, <1>5

\* Every enumerator keeps COM's contract over its own list, whatever happens to
\* the object, its point, the clients and the other enumerators (Next, Skip,
\* Reset and Clone of the four kinds, and luacom.pairs).
THEOREM AlwaysKeepsContract == Spec => KeepsContract
<1>1. Init => Contract!Init
  <2> SUFFICES ASSUME Init PROVE Contract!Init
    OBVIOUS
  <2>1. enums = [e \in Ids |-> Nobody] /\ answer = <<>>
    BY DEF Init
  <2>2. lists = [e \in Ids |-> <<>>]
    BY <2>1 DEF lists, Free, Nobody
  <2>3. Nobody.items = <<>> /\ Nobody.next = 0
    BY DEF Nobody
  <2>4. SubSeq(<<>>, 0 + 1, Len(<<>>)) = <<>>
    <3>1. <<>> \in Seq(Int)
      OBVIOUS
    <3>2. Rest(<<>>, 0) = <<>>
      BY <3>1, MarkIs, Zenon
    <3> QED BY <3>2 DEF Rest
  <2>5. \A e \in Ids : SubSeq(enums[e].items, enums[e].next + 1, Len(enums[e].items)) = <<>>
    BY <2>1, <2>3, <2>4
  <2>6. rests = [e \in Ids |-> <<>>]
    BY <2>5 DEF rests
  <2> QED BY <2>1, <2>2, <2>6 DEF Contract!Init, lists, rests
<1>2. EnumeratorsInv /\ [Next]_vars => [Contract!Next]_(Contract!cvars)
  <2> SUFFICES ASSUME EnumeratorsInv, [Next]_vars
               PROVE  Contract!Next \/ UNCHANGED Contract!cvars
    OBVIOUS
  <2>1. ASSUME NEW k \in Cookies, Unadvise(k) \/ ReleaseClient(k)
        PROVE  Contract!Next
    BY <2>1, ElsewhereMaps
  <2>2. CASE FindConnectionPoint \/ ReleasePoint \/ ReleaseObject \/ Advise
    <3>1. enums' = enums /\ answer' = <<>>
      BY <2>2 DEF FindConnectionPoint, ReleasePoint, ReleaseObject, Advise, Quiet
    <3>2. lists' = lists /\ rests' = rests
      BY <3>1 DEF lists, rests, Free
    <3> QED BY <3>1, <3>2, OtherMaps
  <2>3. ASSUME NEW e \in Ids,
               EnumConnectionPoints(e) \/ EnumConnections(e) \/ EnumVerbs(e) \/ GetEnumerator(e)
        PROVE  Contract!Next
    BY <2>3, EnumMaps
  <2>4. ASSUME NEW e \in Ids, AddRef(e) \/ Release(e)
        PROVE  Contract!Next
    BY <2>4, CountMaps
  <2>5. ASSUME NEW e \in Ids, NEW f \in Ids, Clone(e, f)
        PROVE  Contract!Next
    BY <2>5, CloneMaps
  <2>6. ASSUME NEW e \in Ids, Reset(e)
        PROVE  Contract!Next
    BY <2>6, ResetMaps
  <2>7. ASSUME NEW e \in Ids, NEW n \in Requests,
               NextElements(e, n) \/ NextRunsOut(e, n) \/ Skip(e, n)
        PROVE  Contract!Next
    <3>1. CASE NextElements(e, n)
      <4>1. Len(Got(e, n)) = Fetched(e, n)
        BY GotIs, EnumeratorsAssumption
      <4>2. PICK g : g = Len(Got(e, n))
        OBVIOUS
      <4>3. enums' = [enums EXCEPT ![e].next = @ + g] /\ Says(e, g = n, Got(e, n)) /\ ~Free(e)
        BY <3>1, <4>2 DEF NextElements
      <4>4. /\ enums' = [enums EXCEPT ![e].next = @ + Fetched(e, n)]
            /\ Says(e, Fetched(e, n) = n, Got(e, n))
        BY <4>1, <4>2, <4>3
      <4> QED BY <4>3, <4>4, NextMaps
    <3> QED BY <2>7, <3>1, RunsOutMaps, SkipMaps
  <2>8. ASSUME NEW e \in Ids, LoopStarts(e) \/ LoopSteps(e) \/ LoopFails(e) \/ LoopForgotten(e)
        PROVE  Contract!Next
    BY <2>8, LoopMaps
  <2>9. CASE UNCHANGED vars
    <3>1. enums' = enums /\ answer' = answer
      BY <2>9 DEF vars
    <3>2. lists' = lists /\ rests' = rests
      BY <3>1 DEF lists, rests, Free
    <3> QED BY <3>1, <3>2 DEF Contract!cvars, lists, rests
  <2> QED BY <2>1, <2>2, <2>3, <2>4, <2>5, <2>6, <2>7, <2>8, <2>9 DEF Next
<1> QED BY <1>1, <1>2, AlwaysKept, PTL DEF Spec, KeepsContract, Contract!Spec

=============================================================================
