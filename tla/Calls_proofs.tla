------------------------------ MODULE Calls_proofs ------------------------------
(***************************************************************************)
(* Arguments, results and blocks of a call, for any members and however    *)
(* many results.  The invariant describes DISPPARAMS by what the client    *)
(* meant it to hold: each argument is the value or in a block of its own,  *)
(* and each block is some argument's.                                      *)
(*                                                                         *)
(* After these, AssignedIsRead for every set of members and of values.  By *)
(* itself it says nothing of a state in which the script has not just read *)
(* the name.  MembersInv adds where the last assignment went: into the     *)
(* table, or else into the property - and what the table has although the  *)
(* script has not redefined the member cannot be a member.                 *)
(***************************************************************************)
EXTENDS Calls, Members, FiniteSetTheorems, SequenceTheorems, WellFoundedInduction, TLAPS

-----------------------------------------------------------------------------
(* Cells.                                                                  *)

\* There are n numbers from 1 to n.
LEMMA UpTo == \A n \in Nat : IsFiniteSet(1..n) /\ Cardinality(1..n) = n
<1> SUFFICES ASSUME NEW n \in Nat
             PROVE  IsFiniteSet(1..n) /\ Cardinality(1..n) = n
  OBVIOUS
<1>1. IsFiniteSet(1..n) /\ Cardinality(1..n) = IF 1 > n THEN 0 ELSE n - 1 + 1
  BY FS_Interval
<1> QED BY <1>1

Least(S) == CHOOSE n \in S : \A m \in S : n <= m

\* A nonempty set of natural numbers has a least element.
LEMMA LeastOf ==
  ASSUME NEW S \in SUBSET Nat, S # {}
  PROVE  Least(S) \in S /\ \A j \in S : Least(S) <= j
<1> DEFINE Lower == {pair \in Nat \X Nat : pair[1] < pair[2]}
<1>1. IsWellFoundedOn(Lower, Nat)
  BY NatLessThanWellFounded DEF OpToRel
<1> HIDE DEF Lower
<1>2. PICK i \in S : \A j \in S : ~(<<j, i>> \in Lower)
  BY <1>1, WFMin
<1>3. ASSUME NEW j \in S PROVE i <= j
  <2>1. i \in Nat /\ j \in Nat
    OBVIOUS
  <2>2. <<j, i>> \in Lower <=> j < i
    BY <2>1 DEF Lower
  <2> QED BY <1>2, <2>1, <2>2
<1> QED BY <1>3 DEF Least

Upto(B, i) == {j \in B : j <= i}
CellIn(B, i) == IF i \in B THEN Cardinality(Upto(B, i)) ELSE 0

\* The elements of a set of numbers are counted off by their cells.
LEMMA Ranks ==
  ASSUME NEW n \in Nat, NEW B \in SUBSET (1..n)
  PROVE  /\ Cardinality(B) \in Nat
         /\ \A i \in B : CellIn(B, i) \in 1..Cardinality(B)
         /\ \A i, j \in B : CellIn(B, i) = CellIn(B, j) => i = j
         /\ \A c \in 1..Cardinality(B) : \E i \in B : CellIn(B, i) = c
<1>1. IsFiniteSet(B) /\ Cardinality(B) \in Nat
  <2>1. IsFiniteSet(1..n)
    BY UpTo
  <2>2. IsFiniteSet(B)
    BY <2>1, FS_Subset, Zenon
  <2> QED BY <2>2, FS_CardinalityType, Zenon
<1>2. ASSUME NEW i \in B
      PROVE  /\ IsFiniteSet(Upto(B, i)) /\ Cardinality(Upto(B, i)) \in Nat
             /\ Cardinality(Upto(B, i)) <= Cardinality(B)
             /\ Cardinality(Upto(B, i)) # 0
  <2>1. Upto(B, i) \in SUBSET B
    BY DEF Upto
  <2>2. IsFiniteSet(Upto(B, i)) /\ Cardinality(Upto(B, i)) <= Cardinality(B)
    BY <1>1, <2>1, FS_Subset, Zenon
  <2>3. i \in Upto(B, i)
    BY DEF Upto
  <2>4. Cardinality(Upto(B, i)) # 0
    BY <2>2, <2>3, FS_EmptySet, Zenon
  <2> QED BY <2>2, <2>4, FS_CardinalityType, Zenon
<1>3. ASSUME NEW i \in B PROVE CellIn(B, i) \in 1..Cardinality(B)
  <2>1. CellIn(B, i) = Cardinality(Upto(B, i))
    BY DEF CellIn
  <2> QED BY <1>1, <1>2, <2>1
<1>4. ASSUME NEW i \in B, NEW j \in B, i < j
      PROVE  CellIn(B, i) # CellIn(B, j)
  <2>1. i \in Int /\ j \in Int /\ \A k \in B : k \in Int
    OBVIOUS
  <2>2. j \in Upto(B, j) /\ j \notin Upto(B, i)
    BY <1>4, <2>1 DEF Upto
  <2>3. Upto(B, i) \in SUBSET Upto(B, j)
    <3>1. \A k \in B : k <= i => k <= j
      BY <1>4, <2>1
    <3> QED BY <3>1 DEF Upto
  <2>4. Cardinality(Upto(B, i)) # Cardinality(Upto(B, j))
    BY <1>2, <2>2, <2>3, FS_Subset, Zenon
  <2> QED BY <2>4 DEF CellIn
<1>5. ASSUME NEW i \in B, NEW j \in B, CellIn(B, i) = CellIn(B, j)
      PROVE  i = j
  BY <1>4, <1>5
<1>6. ASSUME NEW c \in 1..Cardinality(B) PROVE \E i \in B : CellIn(B, i) = c
  <2> DEFINE f == [i \in B |-> CellIn(B, i)]
  <2>1. f \in Injection(B, 1..Cardinality(B))
    BY <1>3, <1>5 DEF Injection, IsInjective
  <2>2. IsFiniteSet(1..Cardinality(B)) /\ Cardinality(1..Cardinality(B)) = Cardinality(B)
    BY <1>1, UpTo, Zenon
  <2> HIDE DEF f
  <2>3. f \in Surjection(B, 1..Cardinality(B))
    BY <2>1, <2>2, FS_Injection, Zenon
  <2>4. \E i \in B : f[i] = c
    BY <2>3 DEF Surjection
  <2> QED BY <2>4 DEF f
<1> QED BY <1>1, <1>3, <1>5, <1>6

AnyValue == {"a1", "a2", "a3", "r1", "r2", "r3", "r4", "byref",
             Nil, Empty, Missing, Zero, Default, Bad}
Type == {"VT_I4", "VT_VARIANT"}

\* Conversions of values are values.
LEMMA ConvertedIs ==
  ASSUME NEW v \in AnyValue, NEW type
  PROVE  /\ Converted(v, type) \in AnyValue /\ Blank(type) \in AnyValue
         /\ FromLua(v) \in AnyValue /\ ToLua(v) \in AnyValue
BY DEF Converted, Blank, FromLua, ToLua, AnyValue

Arg == [cell : Nat, type : Type, val : AnyValue]
Block == [val : AnyValue, freed : Nat]

\* What the arguments are laid out as: the i-th holds its value, or refers to
\* a block of its own that does.
IsLaid(ar, m, values, types, B) ==
  /\ ar \in Seq(Arg) /\ Len(ar) = Len(values)
  /\ m \in Seq(Block)
  /\ \A c \in 1..Len(m) : m[c].freed = 0 /\ \E i \in B : ar[i].cell = c
  /\ \A i \in 1..Len(values) :
       /\ ar[i].type = types[i]
       /\ i \notin B => ar[i].cell = 0 /\ ar[i].val = values[i]
       /\ i \in B => ar[i].cell \in 1..Len(m)
                     /\ m[ar[i].cell].val = Converted(values[i], types[i])
  /\ \A i, j \in B : ar[i].cell = ar[j].cell => i = j

\* Laid lays them out.
LEMMA LaidIs ==
  ASSUME NEW values \in Seq(AnyValue), NEW types,
         \A i \in 1..Len(values) : types[i] \in Type, NEW B \in SUBSET (1..Len(values))
  PROVE  IsLaid(Laid(values, types, B)[1], Laid(values, types, B)[2], values, types, B)
<1> DEFINE ar == Laid(values, types, B)[1]
           m == Laid(values, types, B)[2]
           C == Cardinality(B)
           At(c) == CHOOSE i \in B : CellIn(B, i) = c
<1>1. /\ Len(values) \in Nat /\ DOMAIN values = 1..Len(values)
      /\ \A i \in 1..Len(values) : values[i] \in AnyValue /\ types[i] \in Type
  OBVIOUS
<1>2. /\ C \in Nat
      /\ \A i \in B : CellIn(B, i) \in 1..C
      /\ \A i, j \in B : CellIn(B, i) = CellIn(B, j) => i = j
      /\ \A c \in 1..C : \E i \in B : CellIn(B, i) = c
  BY <1>1, Ranks, Zenon
<1>3. /\ ar = [i \in 1..Len(values) |->
                [cell |-> CellIn(B, i), type |-> types[i],
                 val |-> IF i \in B THEN "byref" ELSE values[i]]]
      /\ m = [c \in 1..C |-> [val |-> Converted(values[At(c)], types[At(c)]), freed |-> 0]]
  BY <1>1 DEF Laid, CellIn, Upto
<1> HIDE DEF ar, m, C
<1>4. ASSUME NEW c \in 1..C PROVE At(c) \in B /\ CellIn(B, At(c)) = c
  BY <1>2
<1>5. ASSUME NEW i \in B PROVE At(CellIn(B, i)) = i
  BY <1>2, <1>4
<1> HIDE DEF At
<1>6. \A i \in 1..Len(values) : CellIn(B, i) \in Nat /\ (i \notin B => CellIn(B, i) = 0)
  BY <1>2 DEF CellIn
<1>7. ar \in Seq(Arg) /\ Len(ar) = Len(values)
  <2>1. ASSUME NEW i \in 1..Len(values) PROVE ar[i] \in Arg
    <3>1. types[i] \in Type /\ (IF i \in B THEN "byref" ELSE values[i]) \in AnyValue
      BY <1>1 DEF AnyValue
    <3>2. ar[i] = [cell |-> CellIn(B, i), type |-> types[i],
                   val |-> IF i \in B THEN "byref" ELSE values[i]]
      BY <1>3
    <3> QED BY <1>6, <3>1, <3>2 DEF Arg
  <2> QED BY <1>1, <1>3, <2>1
<1>8. m \in Seq(Block) /\ Len(m) = C
  <2>1. ASSUME NEW c \in 1..C PROVE m[c] \in Block
    <3>1. PICK i \in 1..Len(values) : i = At(c)
      BY <1>4
    <3>2. Converted(values[i], types[i]) \in AnyValue
      BY <1>1, ConvertedIs
    <3> QED BY <1>3, <3>1, <3>2 DEF Block
  <2> QED BY <1>2, <1>3, <2>1
<1>9. \A c \in 1..Len(m) : m[c].freed = 0 /\ \E i \in B : ar[i].cell = c
  BY <1>2, <1>3, <1>8
<1>10. ASSUME NEW i \in 1..Len(values)
       PROVE /\ ar[i].type = types[i]
             /\ i \notin B => ar[i].cell = 0 /\ ar[i].val = values[i]
             /\ i \in B => ar[i].cell \in 1..Len(m)
                           /\ m[ar[i].cell].val = Converted(values[i], types[i])
  <2>1. /\ ar[i].type = types[i] /\ ar[i].cell = CellIn(B, i)
        /\ i \notin B => ar[i].cell = 0 /\ ar[i].val = values[i]
    BY <1>3, <1>6
  <2>2. ASSUME i \in B
        PROVE  CellIn(B, i) \in 1..C /\ m[CellIn(B, i)].val = Converted(values[i], types[i])
    BY <1>2, <1>3, <1>5, <2>2
  <2> QED BY <1>8, <2>1, <2>2
<1>11. \A i, j \in B : ar[i].cell = ar[j].cell => i = j
  BY <1>2, <1>3
<1> QED BY <1>7, <1>8, <1>9, <1>10, <1>11 DEF IsLaid, ar, m

-----------------------------------------------------------------------------
(* A script's message.                                                     *)

\* The arguments in the order of the parameters.
Turned(s) == [i \in 1..Len(s) |-> s[Len(s) + 1 - i]]

\* A sequence read backwards.
LEMMA ReverseIs ==
  ASSUME NEW S, NEW s \in Seq(S)
  PROVE  /\ Reverse(s) \in Seq(S) /\ Len(Reverse(s)) = Len(s)
         /\ \A i \in 1..Len(s) : Reverse(s)[i] = s[Len(s) + 1 - i]
         /\ Turned(Reverse(s)) = s
<1>1. Len(s) \in Nat /\ DOMAIN s = 1..Len(s) /\ s = [i \in 1..Len(s) |-> s[i]]
  OBVIOUS
<1>2. \A i \in 1..Len(s) : Len(s) + 1 - i \in 1..Len(s)
  BY <1>1
<1>3. Reverse(s) = [i \in 1..Len(s) |-> s[Len(s) + 1 - i]]
  BY <1>1 DEF Reverse
<1> DEFINE r == Reverse(s)
<1>4. r \in Seq(S) /\ Len(r) = Len(s) /\ \A i \in 1..Len(s) : r[i] = s[Len(s) + 1 - i]
  BY <1>1, <1>2, <1>3
<1> HIDE DEF r
<1>5. \A i \in 1..Len(s) : r[Len(s) + 1 - i] = s[i]
  <2> SUFFICES ASSUME NEW i \in 1..Len(s) PROVE r[Len(s) + 1 - i] = s[i]
    OBVIOUS
  <2>1. r[Len(s) + 1 - i] = s[Len(s) + 1 - (Len(s) + 1 - i)]
    BY <1>2, <1>4
  <2>2. Len(s) + 1 - (Len(s) + 1 - i) = i
    BY <1>1
  <2> QED BY <2>1, <2>2
<1>6. Turned(r) = s
  BY <1>1, <1>4, <1>5 DEF Turned
<1> QED BY <1>4, <1>6 DEF r

\* Freeing what the arguments refer to: each block that one of them has.
LEMMA ReleasedIs ==
  ASSUME NEW ar \in Seq(Arg), NEW m \in Seq(Block),
         \A c \in 1..Len(m) : m[c].freed = 0
  PROVE  /\ ReleaseVariants(m, ar) \in Seq(Block)
         /\ Len(ReleaseVariants(m, ar)) = Len(m)
         /\ \A c \in 1..Len(m) : \A k \in 1..Len(ar) :
              ar[k].cell = c /\ (\A l \in 1..Len(ar) : ar[l].cell = c => l = k)
                => ReleaseVariants(m, ar)[c].freed = 1
         /\ \A c \in 1..Len(m) : (\A l \in 1..Len(ar) : ar[l].cell # c)
                => ReleaseVariants(m, ar)[c].freed = 0
<1> DEFINE Holders(c) == {k \in 1..Len(ar) : ar[k].cell = c}
           r == ReleaseVariants(m, ar)
<1> HIDE DEF r, Holders
<1>1. /\ Len(ar) \in Nat /\ DOMAIN ar = 1..Len(ar)
      /\ Len(m) \in Nat /\ DOMAIN m = 1..Len(m) /\ \A c \in 1..Len(m) : m[c] \in Block
  <2>1. Len(ar) \in Nat /\ DOMAIN ar = 1..Len(ar)
    <3>1. \A s \in Seq(Arg) : Len(s) \in Nat /\ DOMAIN s = 1..Len(s)
      OBVIOUS
    <3> QED BY <3>1, Zenon
  <2>2. Len(m) \in Nat /\ DOMAIN m = 1..Len(m) /\ \A c \in 1..Len(m) : m[c] \in Block
    OBVIOUS
  <2> QED BY <2>1, <2>2
<1>2. r = [c \in 1..Len(m) |-> [m[c] EXCEPT !.freed = m[c].freed + Cardinality(Holders(c))]]
  BY <1>1 DEF ReleaseVariants, r, Holders
<1>3. ASSUME NEW c PROVE IsFiniteSet(Holders(c)) /\ Cardinality(Holders(c)) \in Nat
  <2>1. IsFiniteSet(1..Len(ar)) /\ Holders(c) \in SUBSET (1..Len(ar))
    BY <1>1, UpTo DEF Holders
  <2>2. IsFiniteSet(Holders(c))
    BY <2>1, FS_Subset, Zenon
  <2> QED BY <2>2, FS_CardinalityType, Zenon
<1>4. ASSUME NEW c \in 1..Len(m)
      PROVE  r[c] \in Block /\ r[c].freed = Cardinality(Holders(c))
  <2>1. m[c] \in Block /\ m[c].freed = 0
    BY <1>1
  <2>2. r[c] = [m[c] EXCEPT !.freed = m[c].freed + Cardinality(Holders(c))]
    BY <1>2
  <2>3. r[c] = [val |-> m[c].val, freed |-> Cardinality(Holders(c))]
    BY <1>3, <2>1, <2>2 DEF Block
  <2> QED BY <1>3, <2>1, <2>3 DEF Block
<1>5. r \in Seq(Block) /\ Len(r) = Len(m)
  <2>1. r \in [1..Len(m) -> Block]
    BY <1>2, <1>4
  <2> QED BY <1>1, <2>1
<1>6. ASSUME NEW c \in 1..Len(m), NEW k \in 1..Len(ar), ar[k].cell = c,
             \A l \in 1..Len(ar) : ar[l].cell = c => l = k
      PROVE  r[c].freed = 1
  <2>1. Holders(c) = {k}
    BY <1>6 DEF Holders
  <2> QED BY <1>4, <2>1, FS_Singleton
<1>7. ASSUME NEW c \in 1..Len(m), \A l \in 1..Len(ar) : ar[l].cell # c
      PROVE  r[c].freed = 0
  <2>1. Holders(c) = {}
    BY <1>7 DEF Holders
  <2> QED BY <1>4, <2>1, FS_EmptySet
<1> QED BY <1>5, <1>6, <1>7 DEF r

\* What a script's call leaves: a message, or nothing but freed blocks.
Sends(values, types, B) ==
  /\ pc' = "sent" /\ hr' = "none" /\ rgvarg' = sent'
  /\ sent' \in Seq(Arg) /\ Len(sent') = Len(values)
  /\ IsLaid(Turned(sent'), mem', values, types, B)
Throws ==
  /\ pc' = "answered" /\ hr' = "thrown" /\ rgvarg' = <<>>
  /\ mem' \in Seq(Block) /\ \A c \in 1..Len(mem') : mem'[c].freed = 1

\* fillDispParams sends what it is to send, or takes everything back.
LEMMA FillSends ==
  ASSUME NEW values \in Seq(AnyValue), NEW types,
         \A i \in 1..Len(values) : types[i] \in Type, NEW B \in SUBSET (1..Len(values)),
         FillDispParams(values, types, B)
  PROVE  Sends(values, types, B) \/ Throws
<1> DEFINE bad == {i \in B : ~Convertible(values[i], types[i])}
           first == CHOOSE i \in bad : \A j \in bad : i <= j
           n == IF bad = {} THEN Len(values) ELSE first
           laid == Laid(SubSeq(values, 1, n), types, B \cap 1..n)
<1>1. /\ sent' = Reverse(laid[1])
      /\ IF bad = {}
         THEN rgvarg' = Reverse(laid[1]) /\ mem' = laid[2] /\ pc' = "sent" /\ hr' = "none"
         ELSE CleanUp(laid[2], laid[1]) /\ pc' = "answered" /\ hr' = "thrown"
  BY DEF FillDispParams
<1>2. Len(values) \in Nat /\ DOMAIN values = 1..Len(values)
  OBVIOUS
<1>3. CASE bad = {}
  <2>1. n = Len(values) /\ SubSeq(values, 1, Len(values)) = values /\ B \cap 1..Len(values) = B
    <3>1. n = Len(values) /\ B \cap 1..Len(values) = B
      BY <1>3
    <3>2. SubSeq(values, 1, Len(values)) = values
      BY <1>2
    <3> QED BY <3>1, <3>2
  <2>2. laid = Laid(values, types, B)
    BY <2>1
  <2> HIDE DEF bad, laid, n
  <2>3. IsLaid(laid[1], laid[2], values, types, B)
    BY <2>2, LaidIs
  <2>4. laid[1] \in Seq(Arg) /\ Len(laid[1]) = Len(values)
    BY <2>3 DEF IsLaid
  <2>5. /\ Reverse(laid[1]) \in Seq(Arg) /\ Len(Reverse(laid[1])) = Len(laid[1])
        /\ Turned(Reverse(laid[1])) = laid[1]
    BY <2>4, ReverseIs, Zenon
  <2> QED BY <1>1, <1>3, <2>3, <2>4, <2>5 DEF Sends
<1>4. CASE bad # {}
  <2>1. bad \in SUBSET Nat /\ bad \in SUBSET (1..Len(values))
    <3>1. bad \in SUBSET B /\ B \in SUBSET Nat
      OBVIOUS
    <3> HIDE DEF bad
    <3> QED BY <3>1
  <2>2. first \in bad
    <3> HIDE DEF bad
    <3>1. Least(bad) \in bad
      BY <1>4, <2>1, LeastOf
    <3> QED BY <3>1 DEF Least
  <2>3. n \in 1..Len(values)
    BY <1>4, <2>1, <2>2
  <2> DEFINE vs == SubSeq(values, 1, n)
             C == B \cap 1..n
  <2> HIDE DEF bad, first, n
  <2>4. vs \in Seq(AnyValue) /\ Len(vs) = n /\ \A i \in 1..Len(vs) : types[i] \in Type
    BY <1>2, <2>3
  <2>5. C \in SUBSET (1..Len(vs))
    BY <2>4
  <2>6. laid = Laid(vs, types, C)
    OBVIOUS
  <2> HIDE DEF laid, vs, C
  <2>7. IsLaid(laid[1], laid[2], vs, types, C)
    BY <2>4, <2>5, <2>6, LaidIs
  <2>8. /\ laid[1] \in Seq(Arg) /\ laid[2] \in Seq(Block)
        /\ \A c \in 1..Len(laid[2]) : laid[2][c].freed = 0
    BY <2>7 DEF IsLaid
  <2>9. \A c \in 1..Len(laid[2]) : \E k \in 1..Len(laid[1]) :
           laid[1][k].cell = c /\ \A l \in 1..Len(laid[1]) : laid[1][l].cell = c => l = k
    <3> SUFFICES ASSUME NEW c \in 1..Len(laid[2])
                 PROVE  \E k \in 1..Len(laid[1]) :
                          laid[1][k].cell = c /\ \A l \in 1..Len(laid[1]) : laid[1][l].cell = c => l = k
      OBVIOUS
    <3>1. PICK i \in C : laid[1][i].cell = c
      BY <2>7 DEF IsLaid
    <3>2. Len(laid[1]) = Len(vs) /\ i \in 1..Len(laid[1]) /\ c # 0
      BY <2>5, <2>7, <3>1 DEF IsLaid
    <3>3. ASSUME NEW l \in 1..Len(laid[1]), laid[1][l].cell = c PROVE l = i
      <4>1. l \in C
        BY <2>7, <3>2, <3>3 DEF IsLaid
      <4> QED BY <2>7, <3>1, <3>3, <4>1 DEF IsLaid
    <3> QED BY <3>1, <3>2, <3>3
  <2>10. mem' = ReleaseVariants(laid[2], laid[1]) /\ rgvarg' = <<>> /\ pc' = "answered" /\ hr' = "thrown"
    BY <1>1, <1>4 DEF CleanUp
  <2>11. PICK ar \in Seq(Arg), m \in Seq(Block) : ar = laid[1] /\ m = laid[2]
    BY <2>8
  <2>12. \A c \in 1..Len(m) : m[c].freed = 0
    BY <2>8, <2>11
  <2>13. /\ ReleaseVariants(m, ar) \in Seq(Block) /\ Len(ReleaseVariants(m, ar)) = Len(m)
         /\ \A c \in 1..Len(m) : \A k \in 1..Len(ar) :
              ar[k].cell = c /\ (\A l \in 1..Len(ar) : ar[l].cell = c => l = k)
                => ReleaseVariants(m, ar)[c].freed = 1
    BY <2>12, ReleasedIs
  <2>14. \A c \in 1..Len(m) : ReleaseVariants(m, ar)[c].freed = 1
    BY <2>9, <2>11, <2>13
  <2> QED BY <2>10, <2>11, <2>13, <2>14 DEF Throws
<1> QED BY <1>3, <1>4

-----------------------------------------------------------------------------
(* The inductive invariant.                                                *)

ArgValue == {"a1", "a2", "a3", Nil, Bad}
ResultValue == {"r1", "r2", "r3", "r4", Nil, Bad}

\* What the client puts into the message for the i-th parameter, and how.
Count == IF client = "typed" THEN Len(desc.params) ELSE Len(args)
ValueOf(i) == CASE client = "typed" -> TypedValue(desc.params, args, i)
                [] client = "untyped" -> FromLua(args[i])
                [] client = "foreign" -> IF args[i] = Nil THEN Missing ELSE args[i]
TypeOf(i) == IF client = "untyped" THEN "VT_VARIANT" ELSE desc.params[i].type
ByRef == CASE client = "typed" -> {i \in 1..Count : TypedByRef(desc.params, args, i)}
           [] client = "untyped" -> 1..Count
           [] client = "foreign" -> {i \in 1..Count : desc.params[i].byref /\ args[i] # Nil}

ValuesMeant == [i \in 1..Count |-> ValueOf(i)]
TypesMeant == [i \in 1..Count |-> TypeOf(i)]

\* Where it is: IndexOf, which setOutValues and pushLuaArgs ask for, in a
\* message of as many arguments as were sent.
Where(i) == IF i <= Len(sent) - Len(named) THEN Len(sent) - i + 1
            ELSE IF \E k \in DOMAIN named : named[k] = i
                 THEN CHOOSE k \in DOMAIN named : named[k] = i
                 ELSE 0
InOrder(s) == [i \in 1..Count |-> s[Where(i)]]

Asked ==
  /\ client \in {"typed", "untyped", "foreign"}
  /\ desc \in FuncDescs
  /\ args \in Seq(ArgValue) /\ Len(args) <= Len(desc.params)
  /\ asks \in BOOLEAN
  /\ client # "foreign" => asks /\ named = <<>>
  /\ named # <<>> => flags = {"func"}
  /\ flags = IF client = "untyped" /\ desc.invkind # "put" THEN {"func", "get"} ELSE {desc.invkind}

\* The message carries what the client meant, each argument in its place.
Carries(m) ==
  /\ sent \in Seq(Arg) /\ Len(sent) = Count
  /\ \A i \in 1..Count : Where(i) \in 1..Count
  /\ \A i, j \in 1..Count : Where(i) = Where(j) => i = j
  /\ IsLaid(InOrder(sent), m, ValuesMeant, TypesMeant, ByRef)

Untouched == rgvarg = sent /\ Carries(mem) /\ outs = <<>> /\ result = Empty

Received ==
  IF attempt = "func"
  THEN /\ "func" \in flags /\ got = PushLuaArgs
       /\ \A i \in DOMAIN rgvarg : ~PushFails(i)
  ELSE /\ attempt \in {"get", "put"} /\ attempt \in flags /\ got = PushAll

\* An argument that is output only has been replaced.
Replaced(c) == \E i \in 1..Len(rgvarg) : /\ PureOut(desc.params[i])
                                         /\ sent[Where(i)].cell = c
                                         /\ rgvarg[Where(i)].cell # c
Holds(c, k) == /\ k \in 1..Len(rgvarg) /\ rgvarg[k].cell = c
               /\ \A l \in 1..Len(rgvarg) : rgvarg[l].cell = c => l = k

\* Before ~CallContext: the blocks are still there, each of them some argument's
\* or replaced.
Unreleased ==
  /\ rgvarg \in Seq(Arg) /\ Len(rgvarg) = Len(sent) /\ mem \in Seq(Block)
  /\ \A c \in 1..Len(mem) : mem[c].freed = 0
  /\ client # "foreign" => \A c \in 1..Len(mem) :
       IF Replaced(c) THEN \A k \in 1..Len(rgvarg) : rgvarg[k].cell # c
       ELSE \E k \in 1..Len(rgvarg) : Holds(c, k)

Thrown ==
  /\ client # "foreign" /\ hr = "thrown" /\ rgvarg = <<>>
  /\ mem \in Seq(Block) /\ \A c \in 1..Len(mem) : mem[c].freed = 1

\* After a method that succeeded: the results are the return value and in the
\* arguments of the parameters that are references, the others are as sent.
ResultType(i) == IF PureOut(desc.params[i]) \/ i \notin ByRef THEN desc.params[i].type
                 ELSE TypeOf(i)
Placed(i) ==
  IF Assigned(i)
  THEN /\ rgvarg[Where(i)].cell # 0
       /\ mem[rgvarg[Where(i)].cell].val = Converted(FromLua(outs[ResultFor(i)]), ResultType(i))
       /\ ~PureOut(desc.params[i]) /\ i \in ByRef => rgvarg[Where(i)] = sent[Where(i)]
  ELSE /\ rgvarg[Where(i)] = sent[Where(i)]
       /\ Content(mem, rgvarg[Where(i)])
            = IF i \in ByRef THEN Converted(ValueOf(i), TypeOf(i)) ELSE ValueOf(i)
Delivered ==
  /\ "func" \in flags /\ outs \in Seq(ResultValue)
  /\ result = IF RetvalTaken /\ outs # <<>> THEN FromLua(outs[1]) ELSE Empty
  /\ Len(sent) = Count
  /\ \A i \in 1..Count : /\ Where(i) \in 1..Count
                         /\ i \in 1..Len(desc.params) /\ desc.params[i] \in ParamDesc
                         /\ sent[Where(i)].cell # 0 <=> i \in ByRef
                         /\ asks \/ desc.void => Placed(i)

\* A call that sends every argument, or leaves some out at the end.
Whole ==
  /\ pc \in {"idle", "sent", "running", "answered", "done"}
  /\ pc = "idle" => attempt = "none" /\ outs = <<>> /\ result = Empty
  /\ pc # "idle" => Asked
  /\ pc = "sent" => Untouched /\ attempt = "none" /\ hr = "none"
  /\ pc = "running" => Untouched /\ Received
  /\ pc = "answered" => Thrown \/ Unreleased
  /\ pc = "answered" /\ hr = "S_OK" /\ attempt = "func" => Delivered
  /\ pc = "done" => BlocksFreed /\ ResultsReturn

\* A call that leaves out one before another that goes by name: its blocks are
\* the client's.
Untold(rg, m) ==
  /\ rg \in Seq(Arg) /\ Len(rg) = Len(sent)
  /\ m \in Seq(Block) /\ \A c \in 1..Len(m) : m[c].freed = 0

WithGap ==
  /\ pc \in {"sent", "running", "answered", "done"} /\ client = "foreign"
  /\ Gapped /\ desc \in FuncDescs /\ flags = {"func"}
  /\ Len(sent) <= Len(desc.params)
  /\ pc = "running" => attempt = "func"
  /\ Untold(rgvarg, mem)

CallsInv == Whole \/ WithGap

-----------------------------------------------------------------------------
(* What clients and functions give.                                        *)

\* The members that are described.
LEMMA DescIs ==
  ASSUME NEW f \in FuncDescs
  PROVE  /\ f.invkind \in {"func", "get", "put"} /\ f.void \in BOOLEAN
         /\ f.params \in Seq(ParamDesc) /\ Len(f.params) \in 0..3
         /\ \A i \in 1..Len(f.params) : f.params[i] \in ParamDesc
<1>1. IsFuncDesc(f)
  BY CallsAssumption
<1>2. f.params \in Seq(ParamDesc)
  BY <1>1 DEF IsFuncDesc
<1>3. Len(f.params) \in Nat /\ \A i \in 1..Len(f.params) : f.params[i] \in ParamDesc
  BY <1>2
<1>4. Len(Given) = 3
  BY DEF Given
<1>5. f.invkind \in {"func", "get", "put"} /\ f.void \in BOOLEAN /\ Len(f.params) <= 3
  BY <1>1, <1>4, Zenon DEF IsFuncDesc
<1>6. Len(f.params) \in 0..3
  <2>1. PICK n \in Nat : n = Len(f.params)
    BY <1>3, Zenon
  <2>2. n <= 3
    BY <1>5, <2>1, Zenon
  <2>3. n \in 0..3
    BY <2>2
  <2> QED BY <2>1, <2>3, Zenon
<1> QED BY <1>2, <1>3, <1>5, <1>6, Zenon

\* A list is values from the front, one of them perhaps nil or no number.
LEMMA ListIs ==
  ASSUME NEW S, NEW values \in Seq(S), NEW n \in 0..Len(values), NEW s \in Lists(values, n)
  PROVE  s \in Seq(S \cup {Nil, Bad}) /\ Len(s) <= n
<1>1. Len(values) \in Nat
  OBVIOUS
<1>2. PICK k \in 0..n : \/ s = SubSeq(values, 1, k)
                        \/ \E j \in 1..k, x \in {Nil, Bad} : s = [SubSeq(values, 1, k) EXCEPT ![j] = x]
  BY DEF Lists
<1>3. PICK t : t = SubSeq(values, 1, k)
  OBVIOUS
<1>4. t \in Seq(S) /\ Len(t) = k
  BY <1>1, <1>3
<1>5. t \in Seq(S \cup {Nil, Bad})
  BY <1>4
<1>6. ASSUME NEW j \in 1..k, NEW x \in {Nil, Bad}, s = [t EXCEPT ![j] = x]
      PROVE  s \in Seq(S \cup {Nil, Bad}) /\ Len(s) = k
  BY <1>4, <1>5, <1>6
<1> QED BY <1>1, <1>2, <1>3, <1>4, <1>5, <1>6

LEMMA ArgsAre ==
  ASSUME NEW n \in 0..3, NEW s \in Lists(Given, n)
  PROVE  s \in Seq(ArgValue) /\ Len(s) <= n /\ \A i \in 1..Len(s) : s[i] \in ArgValue
<1>1. Given \in Seq({"a1", "a2", "a3"}) /\ Len(Given) = 3
  BY DEF Given
<1>2. s \in Seq({"a1", "a2", "a3"} \cup {Nil, Bad}) /\ Len(s) <= n
  BY <1>1, ListIs
<1>3. {"a1", "a2", "a3"} \cup {Nil, Bad} = ArgValue
  BY DEF ArgValue
<1>4. s \in Seq(ArgValue)
  BY <1>2, <1>3
<1> QED BY <1>2, <1>4

LEMMA ResultsAre ==
  ASSUME NEW s \in Lists(Returned, MaxResults)
  PROVE  s \in Seq(ResultValue)
<1>1. Returned \in Seq({"r1", "r2", "r3", "r4"}) /\ Len(Returned) = 4
  BY DEF Returned
<1>2. MaxResults \in 0..Len(Returned)
  BY CallsAssumption
<1>3. s \in Seq({"r1", "r2", "r3", "r4"} \cup {Nil, Bad})
  BY <1>1, <1>2, ListIs
<1>4. {"r1", "r2", "r3", "r4"} \cup {Nil, Bad} = ResultValue
  BY DEF ResultValue
<1> QED BY <1>3, <1>4

\* With type information every argument is a value.
LEMMA TypedIs ==
  ASSUME NEW f \in FuncDescs, NEW s \in Seq(ArgValue), NEW i \in 1..Len(f.params)
  PROVE  TypedValue(f.params, s, i) \in AnyValue \ {Nil, "byref"}
<1>1. \A k : GetParam(s, k) \in ArgValue
  BY DEF GetParam, ArgValue
<1>2. PICK v : v = GetParam(s, CountUpTo(f.params, i, TakesArgument))
  OBVIOUS
<1>3. v \in ArgValue
  BY <1>1, <1>2
<1>4. TypedValue(f.params, s, i) \in {v, Blank(f.params[i].type), Default, Missing, Empty}
      /\ (TypedValue(f.params, s, i) = v => v # Nil)
  BY <1>2 DEF TypedValue, Default, Missing, Empty, Nil, Blank, Zero
<1>5. Blank(f.params[i].type) \in {Empty, Zero}
  BY DEF Blank
<1> QED
  BY <1>3, <1>4, <1>5 DEF AnyValue, ArgValue, Nil, Empty, Missing, Zero, Default, Bad

-----------------------------------------------------------------------------
(* Calls.                                                                  *)

\* Without names the arguments are in reverse order.
LEMMA Backwards == named = <<>> /\ sent \in Seq(Arg) /\ Count = Len(sent) =>
  /\ \A i \in 1..Count : Where(i) = Count + 1 - i
  /\ \A i \in 1..Count : Where(i) \in 1..Count
  /\ \A i, j \in 1..Count : Where(i) = Where(j) => i = j
  /\ InOrder(sent) = Turned(sent)
<1> SUFFICES ASSUME named = <<>>, sent \in Seq(Arg), Count = Len(sent)
             PROVE  /\ \A i \in 1..Count : Where(i) = Count + 1 - i
                    /\ \A i \in 1..Count : Where(i) \in 1..Count
                    /\ \A i, j \in 1..Count : Where(i) = Where(j) => i = j
                    /\ InOrder(sent) = Turned(sent)
  OBVIOUS
<1>1. Len(sent) \in Nat /\ Len(named) = 0
  OBVIOUS
<1>2. \A i \in 1..Count : Where(i) = Count + 1 - i
  BY <1>1 DEF Where
<1>3. \A i \in 1..Count : Where(i) \in 1..Count
  BY <1>1, <1>2
<1>4. \A i, j \in 1..Count : Where(i) = Where(j) => i = j
  BY <1>1, <1>2
<1>5. InOrder(sent) = Turned(sent)
  BY <1>2 DEF InOrder, Turned
<1> QED BY <1>2, <1>3, <1>4, <1>5

\* A script's call.
LEMMA ScriptKeeps ==
  ASSUME Whole, pc = "idle", Asked', client' # "foreign",
         UNCHANGED <<attempt, outs, result>>,
         NEW values \in Seq(AnyValue), NEW types,
         \A i \in 1..Len(values) : types[i] \in Type, NEW B \in SUBSET (1..Len(values)),
         FillDispParams(values, types, B),
         Count' = Len(values), ValuesMeant' = values, TypesMeant' = types, ByRef' = B
  PROVE  Whole'
<1>1. Sends(values, types, B) \/ Throws
  BY FillSends
<1>2. CASE Throws
  <2>1. Thrown'
    BY <1>2 DEF Throws, Thrown
  <2> QED BY <1>2, <2>1 DEF Throws, Whole
<1>3. CASE Sends(values, types, B)
  <2>1. named' = <<>>
    BY DEF Asked
  <2>2. sent' \in Seq(Arg) /\ Count' = Len(sent')
    BY <1>3 DEF Sends
  <2>3. /\ \A i \in 1..Count' : Where(i)' \in 1..Count'
        /\ \A i, j \in 1..Count' : Where(i)' = Where(j)' => i = j
        /\ InOrder(sent)' = Turned(sent')
    <3>1. (named = <<>> /\ sent \in Seq(Arg) /\ Count = Len(sent))'
      BY <2>1, <2>2
    <3>2. /\ (\A i \in 1..Count : Where(i) \in 1..Count)'
          /\ (\A i, j \in 1..Count : Where(i) = Where(j) => i = j)'
          /\ (InOrder(sent) = Turned(sent))'
      BY <3>1, Backwards, PTL
    <3> QED BY <3>2 DEF Turned
  <2>4. Carries(mem)'
    BY <1>3, <2>2, <2>3 DEF Carries, Sends
  <2>5. Untouched'
    BY <1>3, <2>4 DEF Whole, Untouched, Sends
  <2> QED BY <1>3, <2>5 DEF Whole, Sends
<1> QED BY <1>1, <1>2, <1>3

LEMMA CallTypedKeeps ==
  ASSUME Whole, pc = "idle", NEW f \in FuncDescs, NEW s \in Lists(Given, Len(f.params)),
         CallTyped(f, s)
  PROVE  Whole'
<1>1. /\ f.invkind \in {"func", "get", "put"} /\ f.params \in Seq(ParamDesc) /\ Len(f.params) \in 0..3
      /\ \A i \in 1..Len(f.params) : f.params[i] \in ParamDesc
  BY DescIs
<1>2. s \in Seq(ArgValue) /\ Len(s) <= Len(f.params)
  BY <1>1, ArgsAre
<1>3. PICK values, types, B :
        /\ values = [i \in 1..Len(f.params) |-> TypedValue(f.params, s, i)]
        /\ types = [i \in 1..Len(f.params) |-> f.params[i].type]
        /\ B = {i \in 1..Len(f.params) : TypedByRef(f.params, s, i)}
  OBVIOUS
<1>4. /\ client' = "typed" /\ desc' = f /\ args' = s /\ asks' = TRUE /\ named' = <<>>
      /\ flags' = {f.invkind} /\ UNCHANGED <<attempt, outs, result>>
      /\ FillDispParams(values, types, B)
  <2>1. DOMAIN f.params = 1..Len(f.params)
    BY <1>1
  <2> QED BY <1>3, <2>1 DEF CallTyped, Start
<1>5. /\ values \in Seq(AnyValue) /\ Len(values) = Len(f.params) /\ B \in SUBSET (1..Len(values))
      /\ \A i \in 1..Len(values) : types[i] \in Type
  <2>1. \A i \in 1..Len(f.params) : TypedValue(f.params, s, i) \in AnyValue
    BY <1>2, TypedIs
  <2>2. values \in Seq(AnyValue) /\ Len(values) = Len(f.params)
    BY <1>1, <1>3, <2>1
  <2>3. \A i \in 1..Len(f.params) : f.params[i].type \in Type
    BY <1>1 DEF ParamDesc, Type
  <2> QED BY <1>3, <2>2, <2>3
<1>6. Asked'
  BY <1>2, <1>4 DEF Asked
<1>7. Count' = Len(values) /\ ValuesMeant' = values /\ TypesMeant' = types /\ ByRef' = B
  <2>1. Count' = Len(f.params)
    BY <1>4 DEF Count
  <2>2. \A i : ValueOf(i)' = TypedValue(f.params, s, i) /\ TypeOf(i)' = f.params[i].type
    BY <1>4 DEF ValueOf, TypeOf
  <2>3. ByRef' = {i \in 1..Len(f.params) : TypedByRef(f.params, s, i)}
    BY <1>4, <2>1 DEF ByRef
  <2> QED BY <1>3, <1>5, <2>1, <2>2, <2>3 DEF ValuesMeant, TypesMeant
<1> QED BY <1>4, <1>5, <1>6, <1>7, ScriptKeeps

LEMMA CallUntypedKeeps ==
  ASSUME Whole, pc = "idle", NEW f \in FuncDescs, NEW s \in Lists(Given, Len(f.params)),
         CallUntyped(f, s)
  PROVE  Whole'
<1>1. f.invkind \in {"func", "get", "put"} /\ Len(f.params) \in 0..3
  BY DescIs
<1>2. s \in Seq(ArgValue) /\ Len(s) <= Len(f.params) /\ Len(s) \in Nat /\ DOMAIN s = 1..Len(s)
      /\ \A i \in 1..Len(s) : s[i] \in ArgValue
  <2>1. s \in Seq(ArgValue) /\ Len(s) <= Len(f.params) /\ \A i \in 1..Len(s) : s[i] \in ArgValue
    BY <1>1, ArgsAre
  <2>2. \A q \in Seq(ArgValue) : Len(q) \in Nat /\ DOMAIN q = 1..Len(q)
    OBVIOUS
  <2> QED BY <2>1, <2>2, Zenon
<1>3. PICK values, types, B :
        /\ values = [i \in 1..Len(s) |-> FromLua(s[i])]
        /\ types = [i \in 1..Len(s) |-> "VT_VARIANT"]
        /\ B = 1..Len(s)
  OBVIOUS
<1>4. /\ client' = "untyped" /\ desc' = f /\ args' = s /\ asks' = TRUE /\ named' = <<>>
      /\ flags' = (IF f.invkind = "put" THEN {"put"} ELSE {"func", "get"})
      /\ UNCHANGED <<attempt, outs, result>>
      /\ FillDispParams(values, types, B)
  BY <1>2, <1>3 DEF CallUntyped, Start
<1>5. /\ values \in Seq(AnyValue) /\ Len(values) = Len(s) /\ B \in SUBSET (1..Len(values))
      /\ \A i \in 1..Len(values) : types[i] \in Type
  <2>1. \A i \in 1..Len(s) : FromLua(s[i]) \in AnyValue
    BY <1>2 DEF ArgValue, AnyValue, FromLua
  <2>2. values \in Seq(AnyValue) /\ Len(values) = Len(s)
    BY <1>2, <1>3, <2>1
  <2> QED BY <1>3, <2>2 DEF Type
<1>6. Asked'
  BY <1>2, <1>4 DEF Asked
<1>7. Count' = Len(values) /\ ValuesMeant' = values /\ TypesMeant' = types /\ ByRef' = B
  <2>1. Count' = Len(s)
    BY <1>4 DEF Count
  <2>2. \A i : ValueOf(i)' = FromLua(s[i]) /\ TypeOf(i)' = "VT_VARIANT"
    BY <1>4 DEF ValueOf, TypeOf
  <2>3. ByRef' = 1..Len(s)
    BY <1>4, <2>1 DEF ByRef
  <2> QED BY <1>3, <1>5, <2>1, <2>2, <2>3 DEF ValuesMeant, TypesMeant
<1> QED BY <1>4, <1>5, <1>6, <1>7, ScriptKeeps

\* Where a name or a place puts the argument for each position.
Place(n, b, up) == [k \in 1..n |-> IF k <= up THEN n - b + k ELSE n + 1 - k]
Names(n, b, up) == [k \in 1..b |-> Place(n, b, up)[k]]
PlaceOf(i, n, b, up) == IF i > n - b /\ up = b THEN i - (n - b) ELSE n + 1 - i

PlacesOK(n, b, up) ==
  /\ \A k \in 1..n : Place(n, b, up)[k] \in 1..n
  /\ Names(n, b, up) \in Seq(1..n) /\ Len(Names(n, b, up)) = b
  /\ \A i \in 1..n : /\ PlaceOf(i, n, b, up) \in 1..n
                     /\ Place(n, b, up)[PlaceOf(i, n, b, up)] = i
                     /\ i > n - b => PlaceOf(i, n, b, up) \in 1..b
  /\ \A k, l \in 1..b : Names(n, b, up)[k] = Names(n, b, up)[l] => k = l
  /\ \A k \in 1..b : Names(n, b, up)[k] = Place(n, b, up)[k]

LEMMA Places == \A n \in Nat : \A b \in 0..n : \A up \in {0, b} : PlacesOK(n, b, up)
<1> SUFFICES ASSUME NEW n \in Nat, NEW b \in 0..n, NEW up \in {0, b}
             PROVE  PlacesOK(n, b, up)
  OBVIOUS
<1> DEFINE q == Place(n, b, up)
<1>1. q = [k \in 1..n |-> IF k <= up THEN n - b + k ELSE n + 1 - k]
  BY DEF Place
<1> HIDE DEF q
<1>2. \A k \in 1..n : q[k] \in 1..n
  BY <1>1
<1>3. q \in Seq(1..n) /\ Len(q) = n
  BY <1>1, <1>2
<1>4. /\ [k \in 1..b |-> q[k]] \in Seq(1..n) /\ Len([k \in 1..b |-> q[k]]) = b
      /\ \A k \in 1..b : [l \in 1..b |-> q[l]][k] = q[k]
  BY <1>2
<1>5. \A i \in 1..n : /\ PlaceOf(i, n, b, up) \in 1..n
                      /\ q[PlaceOf(i, n, b, up)] = i
                      /\ i > n - b => PlaceOf(i, n, b, up) \in 1..b
  BY <1>1 DEF PlaceOf
<1>6. \A k, l \in 1..b : q[k] = q[l] => k = l
  BY <1>1
<1>7. Names(n, b, up) = [k \in 1..b |-> q[k]]
  BY DEF Names, q
<1> QED BY <1>2, <1>4, <1>5, <1>6, <1>7 DEF q, PlacesOK

LEMMA CallForeignKeeps ==
  ASSUME Whole, pc = "idle", NEW f \in FuncDescs, NEW s \in Lists(Given, Len(f.params)),
         NEW b \in 0..Len(s), NEW falling \in BOOLEAN, NEW wants \in BOOLEAN,
         b > 0 => f.invkind = "func", CallForeign(f, s, b, falling, 0, wants)
  PROVE  Whole'
<1>1. /\ f.invkind \in {"func", "get", "put"} /\ Len(f.params) \in 0..3
      /\ \A i \in 1..Len(f.params) : f.params[i] \in ParamDesc
  BY DescIs
<1>2. s \in Seq(ArgValue) /\ Len(s) <= Len(f.params) /\ Len(s) \in Nat /\ DOMAIN s = 1..Len(s)
      /\ \A i \in 1..Len(s) : s[i] \in ArgValue
  <2>1. s \in Seq(ArgValue) /\ Len(s) <= Len(f.params) /\ \A i \in 1..Len(s) : s[i] \in ArgValue
    BY <1>1, ArgsAre
  <2>2. \A q \in Seq(ArgValue) : Len(q) \in Nat /\ DOMAIN q = 1..Len(q)
    OBVIOUS
  <2> QED BY <2>1, <2>2, Zenon
<1>3. PICK n \in Nat : n = Len(s)
  BY <1>2
<1>0. PICK up \in {0, b} : up = IF falling THEN 0 ELSE b
  OBVIOUS
<1>4. PICK values, types, B, position :
        /\ values = [i \in 1..n |-> IF s[i] = Nil THEN Missing ELSE s[i]]
        /\ types = [i \in 1..n |-> f.params[i].type]
        /\ B = {i \in 1..n : f.params[i].byref /\ s[i] # Nil}
        /\ position = [k \in 1..n |-> IF k <= b /\ ~falling THEN n - b + k ELSE n + 1 - k]
        /\ position = Place(n, b, up)
  <2>1. [k \in 1..n |-> IF k <= b /\ ~falling THEN n - b + k ELSE n + 1 - k] = Place(n, b, up)
    BY <1>0 DEF Place
  <2> QED BY <2>1
<1>5. PICK ar, m : ar = Laid(values, types, B)[1] /\ m = Laid(values, types, B)[2]
  OBVIOUS
<1>6. /\ client' = "foreign" /\ desc' = f /\ args' = s /\ asks' = wants
      /\ flags' = {f.invkind} /\ UNCHANGED <<attempt, outs, result>>
      /\ named' = [k \in 1..b |-> position[k]]
      /\ sent' = [k \in 1..n |-> ar[position[k]]]
      /\ rgvarg' = sent' /\ mem' = m /\ pc' = "sent" /\ hr' = "none"
  <2>1. n - 0 = n /\ b - 0 = b
    BY <1>3
  <2> QED BY <1>3, <1>4, <1>5, <2>1 DEF CallForeign, Start
<1>7. /\ values \in Seq(AnyValue) /\ Len(values) = n /\ B \in SUBSET (1..Len(values))
      /\ \A i \in 1..Len(values) : types[i] \in Type
  <2>1. \A i \in 1..n : (IF s[i] = Nil THEN Missing ELSE s[i]) \in AnyValue
    BY <1>2, <1>3 DEF ArgValue, AnyValue
  <2>2. values \in Seq(AnyValue) /\ Len(values) = n
    BY <1>4, <2>1
  <2>3. \A i \in 1..n : f.params[i].type \in Type
    BY <1>1, <1>2, <1>3 DEF ParamDesc, Type
  <2> QED BY <1>4, <2>2, <2>3
<1>8. IsLaid(ar, m, values, types, B)
  BY <1>5, <1>7, LaidIs
<1>9. ar \in Seq(Arg) /\ Len(ar) = n
  BY <1>7, <1>8 DEF IsLaid
<1>10. b \in 0..n
  BY <1>3
<1>11. /\ \A k \in 1..n : position[k] \in 1..n
       /\ named' \in Seq(1..n) /\ Len(named') = b
       /\ \A i \in 1..n : /\ PlaceOf(i, n, b, up) \in 1..n
                          /\ position[PlaceOf(i, n, b, up)] = i
                          /\ i > n - b => PlaceOf(i, n, b, up) \in 1..b
       /\ \A k, l \in 1..b : named'[k] = named'[l] => k = l
       /\ \A k \in 1..b : named'[k] = position[k]
  <2>1. PICK q : q = [k \in 1..b |-> position[k]]
    OBVIOUS
  <2>2. PlacesOK(n, b, up)
    BY <1>10, Places, Zenon
  <2>3. named' = q /\ q = Names(n, b, up) /\ position = Place(n, b, up)
    BY <1>4, <1>6, <2>1 DEF Names
  <2> QED BY <2>2, <2>3, Zenon DEF PlacesOK
<1>12. sent' \in Seq(Arg) /\ Len(sent') = n /\ \A k \in 1..n : sent'[k] = ar[position[k]]
  BY <1>6, <1>9, <1>11, SMTT(30)
<1>13. ASSUME NEW i \in 1..n PROVE Where(i)' = PlaceOf(i, n, b, up)
  <2>1. DOMAIN named' = 1..b
    BY <1>11
  <2>2. Where(i)' = IF i <= n - b THEN n - i + 1
                    ELSE IF \E k \in 1..b : named'[k] = i
                         THEN CHOOSE k \in 1..b : named'[k] = i ELSE 0
    BY <1>11, <1>12, <2>1, Zenon DEF Where
  <2>3. CASE i <= n - b
    BY <1>10, <2>2, <2>3 DEF PlaceOf
  <2>4. CASE ~(i <= n - b)
    <3>1. PlaceOf(i, n, b, up) \in 1..b /\ named'[PlaceOf(i, n, b, up)] = i
      <4>1. i > n - b
        BY <1>10, <2>4
      <4>2. PICK k : k = PlaceOf(i, n, b, up)
        OBVIOUS
      <4>3. k \in 1..b /\ position[k] = i
        BY <1>11, <4>1, <4>2, Zenon
      <4> QED BY <1>11, <4>2, <4>3, Zenon
    <3>2. \A k \in 1..b : named'[k] = i => k = PlaceOf(i, n, b, up)
      BY <1>11, <3>1
    <3> QED BY <2>2, <2>4, <3>1, <3>2
  <2> QED BY <2>3, <2>4
<1>14. Count' = n
  BY <1>3, <1>6 DEF Count
<1>15. /\ \A i \in 1..n : Where(i)' \in 1..n /\ position[Where(i)'] = i
       /\ \A i, j \in 1..n : Where(i)' = Where(j)' => i = j
  <2>1. \A i \in 1..n : Where(i)' \in 1..n /\ position[Where(i)'] = i
    <3> SUFFICES ASSUME NEW i \in 1..n PROVE Where(i)' \in 1..n /\ position[Where(i)'] = i
      OBVIOUS
    <3>1. Where(i)' = PlaceOf(i, n, b, up)
      BY <1>13
    <3>2. PICK k : k = PlaceOf(i, n, b, up)
      OBVIOUS
    <3>3. k \in 1..n /\ position[k] = i
      BY <1>11, <3>2
    <3> QED BY <3>1, <3>2, <3>3, Zenon
  <2> QED BY <2>1, Zenon
<1>16. InOrder(sent)' = ar
  <2>1. \A i \in 1..n : sent'[Where(i)'] = ar[i]
    <3>1. \A i \in 1..n : Where(i)' \in 1..n /\ position[Where(i)'] = i
      BY <1>15
    <3> QED BY <1>12, <3>1, Zenon
  <2>2. InOrder(sent)' = [i \in 1..n |-> sent'[Where(i)']]
    BY <1>14 DEF InOrder
  <2>3. ar = [i \in 1..n |-> ar[i]]
    BY <1>9
  <2> QED BY <2>1, <2>2, <2>3
<1>17. ValuesMeant' = values /\ TypesMeant' = types /\ ByRef' = B
  <2>1. \A i : /\ ValueOf(i)' = IF s[i] = Nil THEN Missing ELSE s[i]
               /\ TypeOf(i)' = f.params[i].type
    BY <1>6 DEF ValueOf, TypeOf
  <2>2. ByRef' = {i \in 1..n : f.params[i].byref /\ s[i] # Nil}
    BY <1>6, <1>14 DEF ByRef
  <2> QED BY <1>4, <1>14, <2>1, <2>2 DEF ValuesMeant, TypesMeant
<1>18. Carries(mem)'
  BY <1>6, <1>8, <1>12, <1>14, <1>15, <1>16, <1>17 DEF Carries
<1>19. Asked'
  <2>1. named' # <<>> => f.invkind = "func"
    BY <1>11
  <2> QED BY <1>2, <1>6, <2>1 DEF Asked
<1> QED BY <1>6, <1>18, <1>19 DEF Whole, Untouched

-----------------------------------------------------------------------------
(* The table is asked.                                                     *)

\* A message that nobody has changed yet: its blocks are all arguments'.
LEMMA UntouchedHolds == Asked /\ Untouched => Unreleased
<1> SUFFICES ASSUME Asked, Untouched PROVE Unreleased
  OBVIOUS
<1>1. /\ rgvarg = sent /\ sent \in Seq(Arg) /\ Len(sent) = Count
      /\ IsLaid(InOrder(sent), mem, ValuesMeant, TypesMeant, ByRef)
  BY DEF Untouched, Carries
<1>2. mem \in Seq(Block) /\ \A c \in 1..Len(mem) : mem[c].freed = 0
  BY <1>1 DEF IsLaid
<1>3. ASSUME client # "foreign", NEW c \in 1..Len(mem)
      PROVE  ~Replaced(c) /\ \E k \in 1..Len(rgvarg) : Holds(c, k)
  <2>1. ~Replaced(c)
    BY <1>1 DEF Replaced
  <2>2. /\ \A i \in 1..Count : Where(i) = Count + 1 - i
        /\ \A i \in 1..Count : Where(i) \in 1..Count
    BY <1>1, <1>3, Backwards DEF Asked
  <2>3. PICK i \in ByRef : InOrder(sent)[i].cell = c
    BY <1>1 DEF IsLaid
  <2>4. Count \in Nat /\ Len(ValuesMeant) = Count /\ c # 0
    <3>1. Count \in Nat
      BY <1>1
    <3> QED BY <3>1 DEF ValuesMeant
  <2>5. i \in 1..Count
    BY <1>3 DEF ByRef, Asked
  <2>6. \A j \in 1..Count : InOrder(sent)[j] = sent[Where(j)]
    BY DEF InOrder
  <2>7. ASSUME NEW l \in 1..Len(rgvarg), rgvarg[l].cell = c PROVE l = Where(i)
    <3>1. PICK j \in 1..Count : Where(j) = l
      <4>1. Count + 1 - l \in 1..Count /\ Count + 1 - (Count + 1 - l) = l
        BY <1>1, <2>4
      <4> QED BY <2>2, <4>1
    <3>2. InOrder(sent)[j].cell = c
      BY <1>1, <2>6, <2>7, <3>1
    <3>3. j \in ByRef
      BY <1>1, <2>4, <3>2 DEF IsLaid
    <3>4. j = i
      BY <1>1, <2>3, <3>2, <3>3 DEF IsLaid
    <3> QED BY <3>1, <3>4
  <2>8. Where(i) \in 1..Len(rgvarg) /\ rgvarg[Where(i)].cell = c
    BY <1>1, <2>2, <2>3, <2>5, <2>6
  <2>9. PICK w : w = Where(i)
    OBVIOUS
  <2>10. Holds(c, w)
    BY <2>7, <2>8, <2>9 DEF Holds
  <2> QED BY <2>1, <2>8, <2>9, <2>10
<1> QED BY <1>1, <1>2, <1>3 DEF Unreleased

LEMMA StaysUnreleased ==
  ASSUME Unreleased, UNCHANGED <<rgvarg, sent, mem, client, desc, named>>
  PROVE  Unreleased'
<1>1. \A i : Where(i)' = Where(i)
  BY DEF Where
<1>2. \A c : Replaced(c)' <=> Replaced(c)
  BY <1>1 DEF Replaced
<1>3. \A c, k : Holds(c, k)' <=> Holds(c, k)
  BY DEF Holds
<1> QED BY <1>2, <1>3 DEF Unreleased

LEMMA StaysUntouched ==
  ASSUME Untouched, UNCHANGED <<client, desc, args, named, rgvarg, sent, mem, outs, result>>
  PROVE  Untouched'
<1>1. Count' = Count
  BY DEF Count
<1>2. \A i : Where(i)' = Where(i) /\ ValueOf(i)' = ValueOf(i) /\ TypeOf(i)' = TypeOf(i)
  BY DEF Where, ValueOf, TypeOf
<1>3. /\ InOrder(sent)' = InOrder(sent) /\ ValuesMeant' = ValuesMeant
      /\ TypesMeant' = TypesMeant /\ ByRef' = ByRef
  BY <1>1, <1>2 DEF InOrder, ValuesMeant, TypesMeant, ByRef
<1>4. Carries(mem)'
  BY <1>1, <1>2, <1>3 DEF Carries, Untouched
<1> QED BY <1>4 DEF Untouched

\* What the function receives depends on the message alone.
LEMMA PushedStays ==
  ASSUME UNCHANGED <<desc, named, rgvarg, mem>>
  PROVE  /\ PushAll' = PushAll /\ PushLuaArgs' = PushLuaArgs
         /\ \A i : PushFails(i)' <=> PushFails(i)
<1>1. \A i : IndexOf(i)' = IndexOf(i)
  BY DEF IndexOf
<1>2. PushAll' = PushAll
  BY DEF PushAll, Content, Reverse
<1>3. \A i : Pushed(i)' = Pushed(i)
  BY <1>1 DEF Pushed, Content
<1>4. \A i : PushFails(i)' <=> PushFails(i)
  BY <1>1 DEF PushFails, Content
<1>5. PushLuaArgs' = PushLuaArgs
  <2>1. [i \in DOMAIN rgvarg |-> Pushed(i)]' = [i \in DOMAIN rgvarg |-> Pushed(i)]
    BY <1>3
  <2> QED BY <2>1 DEF PushLuaArgs
<1> QED BY <1>2, <1>4, <1>5

\* An attempt answers, or leaves the function running.
Attempted == \/ pc' = "answered" /\ ~(hr' = "S_OK" /\ attempt' = "func")
             \/ pc' = "running" /\ result' = result /\ Received'

LEMMA GetAttempts ==
  ASSUME "get" \in flags, NEW member \in {"function", "container", "value", "nothing"},
         PropertyGet(member), UNCHANGED <<flags, desc, named, rgvarg, mem>>
  PROVE  Attempted
<1>1. attempt' = "get"
  BY DEF PropertyGet
<1>2. CASE member = "function"
  <2>1. got' = PushAll /\ pc' = "running" /\ result' = result
    BY <1>2 DEF PropertyGet
  <2>2. PushAll' = PushAll
    BY PushedStays
  <2> QED BY <1>1, <2>1, <2>2 DEF Attempted, Received
<1>3. CASE member # "function"
  BY <1>3 DEF PropertyGet, Answer, Attempted
<1> QED BY <1>2, <1>3

LEMMA PutAttempts ==
  ASSUME "put" \in flags, NEW member, PropertyPut(member),
         UNCHANGED <<flags, desc, named, rgvarg, mem>>
  PROVE  Attempted
<1>1. attempt' = "put" /\ result' = result
  BY DEF PropertyPut
<1>2. CASE pc' = "answered"
  BY <1>1, <1>2 DEF Attempted
<1>3. CASE pc' # "answered"
  <2>1. got' = PushAll /\ pc' = "running"
    BY <1>3 DEF PropertyPut, Answer
  <2>2. PushAll' = PushAll
    BY PushedStays
  <2> QED BY <1>1, <2>1, <2>2 DEF Attempted, Received
<1> QED BY <1>2, <1>3

LEMMA FailureAttempts ==
  ASSUME NEW h, h # "S_OK", NEW member \in {"function", "container", "value", "nothing"},
         MethodFails(h, member), UNCHANGED <<flags, desc, named, rgvarg, mem>>
  PROVE  Attempted
<1>1. CASE "get" \in flags
  BY <1>1, GetAttempts DEF MethodFails
<1>2. CASE "get" \notin flags
  BY <1>2 DEF MethodFails, Answer, Attempted
<1> QED BY <1>1, <1>2

LEMMA MethodAttempts ==
  ASSUME "func" \in flags, NEW member \in {"function", "container", "value", "nothing"},
         Method(member), UNCHANGED <<flags, desc, named, rgvarg, mem>>
  PROVE  Attempted
<1>1. CASE member # "function"
  <2>1. MethodFails("DISP_E_MEMBERNOTFOUND", member)
    BY <1>1 DEF Method
  <2> QED BY <2>1, FailureAttempts
<1>2. CASE member = "function" /\ \E i \in DOMAIN rgvarg : PushFails(i)
  BY <1>2 DEF Method, Answer, Attempted
<1>3. CASE member = "function" /\ ~\E i \in DOMAIN rgvarg : PushFails(i)
  <2>1. got' = PushLuaArgs /\ attempt' = "func" /\ pc' = "running" /\ result' = result
    BY <1>3 DEF Method
  <2>2. PushLuaArgs' = PushLuaArgs /\ \A i : PushFails(i)' <=> PushFails(i)
    BY PushedStays
  <2> QED BY <1>3, <2>1, <2>2 DEF Attempted, Received
<1> QED BY <1>1, <1>2, <1>3

\* Every attempt keeps the invariant.
LEMMA AttemptKeeps ==
  ASSUME Asked, Untouched, Attempted,
         UNCHANGED <<client, desc, flags, args, rgvarg, named, asks, mem, sent, outs>>
  PROVE  Whole'
<1>1. Asked'
  BY DEF Asked
<1>2. Unreleased'
  BY UntouchedHolds, StaysUnreleased
<1>3. CASE pc' = "answered" /\ ~(hr' = "S_OK" /\ attempt' = "func")
  BY <1>1, <1>2, <1>3 DEF Whole
<1>4. CASE pc' = "running" /\ result' = result /\ Received'
  <2>1. Untouched'
    BY <1>4, StaysUntouched
  <2> QED BY <1>1, <1>4, <2>1 DEF Whole
<1> QED BY <1>3, <1>4 DEF Attempted

LEMMA InvokeKeeps ==
  ASSUME Whole, NEW member \in {"function", "container", "value", "nothing"}, Invoke(member)
  PROVE  Whole'
<1>1. /\ Asked /\ Untouched
      /\ UNCHANGED <<client, desc, flags, args, rgvarg, named, asks, mem, sent, outs>>
  BY DEF Whole, Invoke
<1>2. Attempted
  <2>0. flags = {"func", "get"} \/ flags \in {{"func"}, {"get"}, {"put"}}
    <3>1. desc.invkind \in {"func", "get", "put"}
      BY <1>1, DescIs DEF Asked
    <3> QED BY <1>1, <3>1 DEF Asked
  <2>1. CASE "put" \in flags
    <3>1. PropertyPut(member)
      <4>1. "func" \notin flags /\ flags # {"get"}
        BY <2>0, <2>1
      <4> QED BY <2>1, <4>1 DEF Invoke
    <3> QED BY <1>1, <2>1, <3>1, PutAttempts
  <2>2. CASE flags = {"get"}
    <3>1. PropertyGet(member)
      BY <2>2 DEF Invoke
    <3> QED BY <1>1, <2>2, <3>1, GetAttempts
  <2>3. CASE "func" \in flags /\ "put" \notin flags
    <3>1. Method(member)
      BY <2>3 DEF Invoke
    <3> QED BY <1>1, <2>3, <3>1, MethodAttempts
  <2> QED BY <2>0, <2>1, <2>2, <2>3
<1> QED BY <1>1, <1>2, AttemptKeeps

LEMMA RaisesKeeps ==
  ASSUME Whole, Raises
  PROVE  Whole'
<1>1. /\ Asked /\ Untouched
      /\ UNCHANGED <<client, desc, flags, args, rgvarg, named, asks, mem, sent, outs>>
  BY DEF Whole, Raises
<1>2. Attempted
  <2>1. CASE attempt = "func"
    BY <1>1, <2>1, FailureAttempts DEF Raises
  <2>2. CASE attempt # "func"
    BY <2>2 DEF Raises, Answer, Attempted
  <2> QED BY <2>1, <2>2
<1> QED BY <1>1, <1>2, AttemptKeeps

-----------------------------------------------------------------------------
(* setOutValues.                                                           *)

Begun(rs) == [rg |-> rgvarg, mem |-> mem, left |-> rs, failed |-> FALSE]
Passes(g, rs, k) == g = [i \in 0..k |-> IF i = 0 THEN Begun(rs) ELSE SetOutValue(g[i-1], i)]

\* The pass over the parameters exists and takes one after the other.
LEMMA OutValuesIs ==
  ASSUME NEW rs, NEW n \in Nat, Len(rgvarg) = n
  PROVE  /\ OutValues(rs)[0] = Begun(rs)
         /\ \A i \in 1..n : OutValues(rs)[i] = SetOutValue(OutValues(rs)[i-1], i)
<1> DEFINE S == {k \in 0..n : \A g : ~Passes(g, rs, k)}
<1>1. S = {}
  <2> SUFFICES ASSUME S # {} PROVE FALSE
    OBVIOUS
  <2>1. S \in SUBSET Nat
    OBVIOUS
  <2>2. PICK m : m = Least(S)
    OBVIOUS
  <2>3. m \in S /\ \A j \in S : m <= j
    <3> HIDE DEF S
    <3> QED BY <2>1, <2>2, LeastOf
  <2>4. CASE m = 0
    <3> DEFINE g == [i \in 0..0 |-> Begun(rs)]
    <3>1. Passes(g, rs, 0)
      BY DEF Passes
    <3> QED BY <2>3, <2>4, <3>1
  <2>5. CASE m # 0
    <3>1. m - 1 \in 0..n /\ m - 1 \notin S /\ m \in 1..n
      BY <2>3, <2>5
    <3>2. PICK g : Passes(g, rs, m - 1)
      BY <3>1
    <3> DEFINE h == [i \in 0..m |-> IF i = m THEN SetOutValue(g[m - 1], m) ELSE g[i]]
    <3>3. ASSUME NEW i \in 0..m
          PROVE  h[i] = IF i = 0 THEN Begun(rs) ELSE SetOutValue(h[i-1], i)
      <4>1. CASE i = m
        <5>1. m - 1 \in 0..m /\ m - 1 # m
          BY <3>1
        <5>2. h[m - 1] = g[m - 1]
          BY <5>1
        <5>3. h[m] = SetOutValue(g[m - 1], m)
          BY <3>1
        <5> QED BY <3>1, <4>1, <5>2, <5>3
      <4>2. CASE i # m
        <5>1. i \in 0..(m - 1) /\ h[i] = g[i]
          BY <3>1, <4>2
        <5>2. g[i] = IF i = 0 THEN Begun(rs) ELSE SetOutValue(g[i-1], i)
          BY <3>2, <5>1 DEF Passes
        <5>3. i # 0 => h[i-1] = g[i-1]
          BY <3>1, <4>2
        <5> QED BY <5>1, <5>2, <5>3
      <4> QED BY <4>1, <4>2
    <3>4. DOMAIN h = 0..m /\ h = [i \in 0..m |-> h[i]]
      OBVIOUS
    <3> HIDE DEF h
    <3>5. h = [i \in 0..m |-> IF i = 0 THEN Begun(rs) ELSE SetOutValue(h[i-1], i)]
      BY <3>3, <3>4
    <3>6. Passes(h, rs, m)
      BY <3>5 DEF Passes
    <3> QED BY <2>3, <3>6
  <2> QED BY <2>4, <2>5
<1>2. PICK g : Passes(g, rs, n)
  <2>1. n \in 0..n
    OBVIOUS
  <2>2. n \notin S
    <3> HIDE DEF S
    <3> QED BY <1>1
  <2> QED BY <2>1, <2>2
<1> DEFINE f == OutValues(rs)
<1>3. f = CHOOSE a : a = [i \in 0..n |-> IF i = 0 THEN Begun(rs) ELSE SetOutValue(a[i-1], i)]
  BY DEF OutValues, Begun
<1> HIDE DEF f
<1>4. f = [i \in 0..n |-> IF i = 0 THEN Begun(rs) ELSE SetOutValue(f[i-1], i)]
  BY <1>2, <1>3 DEF Passes
<1>5. 0 \in 0..n /\ \A i \in 1..n : i \in 0..n /\ i # 0
  OBVIOUS
<1>6. f[0] = Begun(rs)
  BY <1>4, <1>5
<1>7. \A i \in 1..n : f[i] = SetOutValue(f[i-1], i)
  BY <1>4, <1>5
<1> QED BY <1>6, <1>7 DEF f

HoldsIn(rg, c, k) == /\ k \in 1..Len(rg) /\ rg[k].cell = c
                     /\ \A l \in 1..Len(rg) : rg[l].cell = c => l = k
ReplacedIn(rg, c) == \E i \in 1..Len(rg) : /\ PureOut(desc.params[i])
                                           /\ sent[Where(i)].cell = c
                                           /\ rg[Where(i)].cell # c
Accounted(rg, c) == IF ReplacedIn(rg, c) THEN \A k \in 1..Len(rg) : rg[k].cell # c
                    ELSE \E k \in 1..Len(rg) : HoldsIn(rg, c, k)

\* After the first i parameters: the others' arguments are as they were, and every
\* block is some argument's or replaced.
Passed(rg, m, left, i) ==
  /\ rg \in Seq(Arg) /\ Len(rg) = Len(sent)
  /\ m \in Seq(Block) /\ Len(m) >= Len(mem) /\ \A c \in 1..Len(m) : m[c].freed = 0
  /\ left \in Seq(ResultValue)
  /\ \A k \in 1..Len(rg) : rg[k].cell <= Len(m)
  /\ \A j \in 1..Len(rg) : j > i => rg[Where(j)] = sent[Where(j)]
  /\ client # "foreign" => \A c \in 1..Len(m) : Accounted(rg, c)

\* A new block for the i-th parameter's argument.
FreshBlock(n, rg, m, left, i, k, type, holds, rgn, mn) ==
  /\ n \in Nat /\ Len(sent) = n
  /\ \A j \in 1..n : Where(j) \in 1..n
  /\ \A j, l \in 1..n : Where(j) = Where(l) => j = l
  /\ \A l \in 1..n : sent[l].cell <= Len(mem)
  /\ mem \in Seq(Block) /\ i \in 1..n /\ Passed(rg, m, left, i - 1)
  /\ k = Where(i) /\ (PureOut(desc.params[i]) \/ rg[k].cell = 0)
  /\ type \in Type /\ holds \in Block /\ holds.freed = 0 /\ left # <<>>
  /\ rgn = [rg EXCEPT ![k] = [cell |-> Len(m) + 1, type |-> type, val |-> "byref"]]
  /\ mn = Append(m, holds)

LEMMA FreshKeeps ==
  ASSUME NEW n, NEW rg, NEW m, NEW left, NEW i, NEW k, NEW type, NEW holds, NEW rgn, NEW mn,
         FreshBlock(n, rg, m, left, i, k, type, holds, rgn, mn)
  PROVE  Passed(rgn, mn, Tail(left), i)
<1> SUFFICES
      ASSUME n \in Nat, Len(sent) = n, \A j \in 1..n : Where(j) \in 1..n,
             \A j, l \in 1..n : Where(j) = Where(l) => j = l,
             \A l \in 1..n : sent[l].cell <= Len(mem), mem \in Seq(Block),
             i \in 1..n, Passed(rg, m, left, i - 1),
             k = Where(i), PureOut(desc.params[i]) \/ rg[k].cell = 0,
             type \in Type, holds \in Block, holds.freed = 0, left # <<>>,
             rgn = [rg EXCEPT ![k] = [cell |-> Len(m) + 1, type |-> type, val |-> "byref"]],
             mn = Append(m, holds)
      PROVE  Passed(rgn, mn, Tail(left), i)
  BY Zenon DEF FreshBlock
<1>1. /\ rg \in Seq(Arg) /\ Len(rg) = n /\ k \in 1..n /\ m \in Seq(Block) /\ Len(m) \in Nat
      /\ Len(mem) \in Nat /\ Len(m) >= Len(mem)
  BY SMTT(30) DEF Passed
<1>2. PICK new : new = [cell |-> Len(m) + 1, type |-> type, val |-> "byref"]
  OBVIOUS
<1>3. new \in Arg /\ new.cell = Len(m) + 1
  BY <1>1, <1>2 DEF Arg, AnyValue
<1>4. /\ rgn \in Seq(Arg) /\ Len(rgn) = n /\ rgn[k] = new
      /\ \A l \in 1..n : l # k => rgn[l] = rg[l]
  BY <1>1, <1>2, <1>3
<1>5. /\ mn \in Seq(Block) /\ Len(mn) = Len(m) + 1 /\ mn[Len(m) + 1] = holds
      /\ \A c \in 1..Len(m) : mn[c] = m[c]
  BY <1>1
<1>0. PICK lm \in Nat : lm = Len(m)
  BY <1>1
<1>a. \A c \in 1..Len(mn) : c # Len(m) + 1 => c \in 1..Len(m) /\ c # 0
  <2>1. \A c \in 1..(lm + 1) : c # lm + 1 => c \in 1..lm /\ c # 0
    OBVIOUS
  <2> QED BY <1>0, <1>5, <2>1, Zenon
<1>6. \A c \in 1..Len(mn) : mn[c].freed = 0
  <2>1. \A c \in 1..Len(m) : mn[c].freed = 0
    BY <1>5, Zenon DEF Passed
  <2> QED BY <1>a, <1>5, <2>1, Zenon
<1>7. Tail(left) \in Seq(ResultValue)
  BY DEF Passed
<1>8. \A l \in 1..n : rg[l] \in Arg /\ rg[l].cell \in Nat /\ rg[l].cell <= Len(m)
  <2>1. \A l \in 1..Len(rg) : rg[l] \in Arg /\ rg[l].cell \in Nat
    <3>1. \A l \in 1..Len(rg) : rg[l] \in Arg
      BY <1>1
    <3>2. \A a \in Arg : a.cell \in Nat
      BY DEF Arg
    <3> QED BY <3>1, <3>2, Zenon
  <2>2. \A l \in 1..Len(rg) : rg[l].cell <= Len(m)
    BY Zenon DEF Passed
  <2> QED BY <1>1, <2>1, <2>2, Zenon
<1>9. \A l \in 1..n : rgn[l].cell <= Len(mn)
  <2> SUFFICES ASSUME NEW l \in 1..n PROVE rgn[l].cell <= Len(mn)
    OBVIOUS
  <2>1. CASE l = k
    BY <1>1, <1>3, <1>4, <1>5, <2>1
  <2>2. CASE l # k
    <3>1. PICK x \in Nat : x = rg[l].cell /\ x <= lm
      BY <1>0, <1>8, Zenon
    <3>2. rgn[l].cell = x
      BY <1>4, <2>2, <3>1, Zenon
    <3>3. \A y, z \in Nat : y <= z => y <= z + 1
      OBVIOUS
    <3>4. x <= lm + 1
      BY <3>1, <3>3, Zenon
    <3>5. Len(mn) = lm + 1
      BY <1>0, <1>5, Zenon
    <3> QED BY <3>2, <3>4, <3>5, Zenon
  <2> QED BY <2>1, <2>2
<1>10. \A j \in 1..n : j > i => rgn[Where(j)] = sent[Where(j)]
  <2> SUFFICES ASSUME NEW j \in 1..n, j > i PROVE rgn[Where(j)] = sent[Where(j)]
    OBVIOUS
  <2>1. j # i /\ j > i - 1
    BY SMTT(30)
  <2>2. Where(j) # k /\ Where(j) \in 1..n
    BY <2>1
  <2>3. rg[Where(j)] = sent[Where(j)]
    BY <1>1, <2>1 DEF Passed
  <2> QED BY <1>4, <2>2, <2>3
<1>11. rg[k] = sent[k]
  <2>1. i > i - 1
    OBVIOUS
  <2> QED BY <1>1, <2>1 DEF Passed
<1>12. ASSUME client # "foreign", NEW c \in 1..Len(mn) PROVE Accounted(rgn, c)
  <2>1. CASE c = Len(m) + 1
    <3>1. ~ReplacedIn(rgn, c)
      <4> SUFFICES ASSUME NEW j \in 1..n, sent[Where(j)].cell = c PROVE FALSE
        BY <1>4 DEF ReplacedIn
      <4>1. PICK w \in 1..n : w = Where(j)
        OBVIOUS
      <4>2. sent[w].cell <= Len(mem) /\ sent[w].cell = Len(m) + 1
        BY <2>1, <4>1
      <4> QED BY <1>1, <4>2
    <3>2. HoldsIn(rgn, c, k)
      <4>1. \A l \in 1..n : l # k => rgn[l].cell # c
        BY <1>1, <1>4, <1>8, <2>1
      <4> QED BY <1>1, <1>3, <1>4, <2>1, <4>1 DEF HoldsIn
    <3> QED BY <1>1, <1>4, <3>1, <3>2 DEF Accounted
  <2>2. CASE c # Len(m) + 1
    <3>1. c \in 1..Len(m) /\ c # 0
      BY <1>a, <2>2, Zenon
    <3>2. Accounted(rg, c)
      BY <1>12, <3>1 DEF Passed
    <3>3. CASE rg[k].cell = c
      <4>1. PureOut(desc.params[i])
        BY <3>1, <3>3
      <4>2. ReplacedIn(rgn, c)
        BY <1>3, <1>4, <1>11, <2>2, <3>3, <4>1 DEF ReplacedIn
      <4>3. HoldsIn(rg, c, k)
        <5>1. PICK l \in 1..n : HoldsIn(rg, c, l)
          BY <1>1, <3>2, <3>3 DEF Accounted
        <5>2. l = k
          BY <1>1, <3>3, <5>1 DEF HoldsIn
        <5> QED BY <5>1, <5>2
      <4>4. \A l \in 1..n : rgn[l].cell # c
        <5>1. \A l \in 1..n : l # k => rg[l].cell # c
          BY <1>1, <4>3, Zenon DEF HoldsIn
        <5>2. rgn[k].cell # c
          BY <1>3, <1>4, <2>2, Zenon
        <5> QED BY <1>4, <5>1, <5>2, Zenon
      <4> QED BY <1>4, <4>2, <4>4 DEF Accounted
    <3>4. CASE rg[k].cell # c
      <4>1. \A l \in 1..n : rgn[l].cell = c <=> rg[l].cell = c
        BY <1>3, <1>4, <2>2, <3>4
      <4>2. ReplacedIn(rgn, c) <=> ReplacedIn(rg, c)
        BY <1>1, <1>4, <4>1, ZenonT(30) DEF ReplacedIn
      <4>3. \A l : HoldsIn(rgn, c, l) <=> HoldsIn(rg, c, l)
        BY <1>1, <1>4, <4>1 DEF HoldsIn
      <4> QED BY <1>1, <1>4, <3>2, <4>1, <4>2, <4>3 DEF Accounted
    <3> QED BY <3>3, <3>4
  <2> QED BY <2>1, <2>2
<1>13. Len(mn) >= Len(mem)
  BY <1>1, <1>5
<1> QED BY <1>4, <1>5, <1>6, <1>7, <1>9, <1>10, <1>12, <1>13 DEF Passed

\* Every argument is some parameter's.
LEMMA WhereOnto ==
  ASSUME NEW n \in Nat, \A i \in 1..n : Where(i) \in 1..n,
         \A i, j \in 1..n : Where(i) = Where(j) => i = j
  PROVE  \A k \in 1..n : \E i \in 1..n : Where(i) = k
<1> DEFINE f == [i \in 1..n |-> Where(i)]
<1>1. f \in Injection(1..n, 1..n)
  BY DEF Injection, IsInjective
<1>2. IsFiniteSet(1..n)
  BY UpTo
<1> HIDE DEF f
<1>3. f \in Surjection(1..n, 1..n)
  BY <1>1, <1>2, FS_Injection, Zenon
<1>4. \A k \in 1..n : \E i \in 1..n : f[i] = k
  BY <1>3 DEF Surjection
<1> QED BY <1>4 DEF f

\* What a message looks like to setOutValues.
LEMMA Message ==
  ASSUME Asked, Untouched
  PROVE  /\ rgvarg = sent /\ sent \in Seq(Arg) /\ mem \in Seq(Block)
         /\ \A c \in 1..Len(mem) : mem[c].freed = 0
         /\ Len(sent) \in Nat /\ DOMAIN sent = 1..Len(sent) /\ Len(mem) \in Nat
         /\ Len(sent) <= Len(desc.params) /\ Len(sent) = Count
         /\ \A i \in 1..Len(sent) : Where(i) \in 1..Len(sent)
         /\ \A i, j \in 1..Len(sent) : Where(i) = Where(j) => i = j
         /\ \A k \in 1..Len(sent) : sent[k].cell <= Len(mem)
         /\ \A i \in 1..Len(sent) : desc.params[i] \in ParamDesc
<1>1. /\ rgvarg = sent /\ sent \in Seq(Arg) /\ Len(sent) = Count
      /\ \A i \in 1..Count : Where(i) \in 1..Count
      /\ \A i, j \in 1..Count : Where(i) = Where(j) => i = j
      /\ IsLaid(InOrder(sent), mem, ValuesMeant, TypesMeant, ByRef)
  BY DEF Untouched, Carries
<1>2. mem \in Seq(Block) /\ \A c \in 1..Len(mem) : mem[c].freed = 0
  BY <1>1, Zenon DEF IsLaid
<1>3. Len(sent) \in Nat /\ DOMAIN sent = 1..Len(sent) /\ Len(mem) \in Nat
  BY <1>1, <1>2
<1>4. /\ desc \in FuncDescs /\ args \in Seq(ArgValue) /\ Len(args) <= Len(desc.params)
      /\ Len(desc.params) \in 0..3 /\ \A i \in 1..Len(desc.params) : desc.params[i] \in ParamDesc
  BY DescIs DEF Asked
<1>5. Count <= Len(desc.params)
  BY <1>4 DEF Count
<1>6. ASSUME NEW k \in 1..Len(sent) PROVE sent[k].cell <= Len(mem)
  <2>1. PICK i \in 1..Count : Where(i) = k
    BY <1>1, <1>3, WhereOnto
  <2>2. Len(ValuesMeant) = Count
    BY <1>1, <1>3 DEF ValuesMeant
  <2>3. InOrder(sent)[i] = sent[k]
    BY <2>1 DEF InOrder
  <2>4. PICK x : x = sent[k].cell
    OBVIOUS
  <2>5. x = 0 \/ x \in 1..Len(mem)
    BY <1>1, <2>2, <2>3, <2>4, Zenon DEF IsLaid
  <2> QED BY <1>3, <2>4, <2>5
<1>7. \A i \in 1..Len(sent) : desc.params[i] \in ParamDesc
  <2>1. PICK n \in Nat, p \in Nat : n = Len(sent) /\ p = Len(desc.params) /\ n <= p
    <3>1. Len(desc.params) \in Nat
      BY <1>4
    <3> QED BY <1>1, <1>3, <1>5, <3>1
  <2>2. \A i \in 1..n : i \in 1..p
    BY <2>1
  <2> QED BY <1>4, <2>1, <2>2, Zenon
<1> QED BY <1>1, <1>2, <1>3, <1>5, <1>6, <1>7, Zenon

\* A value written into the block that the argument already has.
LEMMA OldKeeps ==
  ASSUME NEW i \in Nat, NEW rg, NEW m, NEW left, Passed(rg, m, left, i), left # <<>>,
         NEW cell, NEW holds \in Block, holds.freed = 0
  PROVE  Passed(rg, [m EXCEPT ![cell] = holds], Tail(left), i)
<1>1. PICK mn : mn = [m EXCEPT ![cell] = holds]
  OBVIOUS
<1>2. m \in Seq(Block) /\ \A c \in 1..Len(m) : m[c].freed = 0
  BY Zenon DEF Passed
<1>3. mn \in Seq(Block) /\ Len(mn) = Len(m) /\ \A c \in 1..Len(m) : mn[c] = m[c] \/ mn[c] = holds
  <2>1. Len(m) \in Nat /\ DOMAIN m = 1..Len(m) /\ \A c \in 1..Len(m) : m[c] \in Block
    BY <1>2
  <2>2. mn = [c \in 1..Len(m) |-> IF c = cell THEN holds ELSE m[c]]
    BY <1>1, <2>1
  <2>3. mn \in [1..Len(m) -> Block] /\ \A c \in 1..Len(m) : mn[c] = m[c] \/ mn[c] = holds
    BY <2>1, <2>2
  <2>4. \A n \in Nat : \A f \in [1..n -> Block] : f \in Seq(Block) /\ Len(f) = n
    OBVIOUS
  <2> QED BY <2>1, <2>3, <2>4, Zenon
<1>4. \A c \in 1..Len(mn) : mn[c].freed = 0
  BY <1>2, <1>3, Zenon
<1>5. left \in Seq(ResultValue)
  BY Zenon DEF Passed
<1>6. Tail(left) \in Seq(ResultValue)
  BY <1>5
<1> QED BY <1>1, <1>3, <1>4, <1>6, Zenon DEF Passed

LEMMA TailKeeps ==
  ASSUME NEW i \in Nat, NEW rg, NEW m, NEW left, Passed(rg, m, left, i), left # <<>>
  PROVE  Passed(rg, m, Tail(left), i)
<1>1. left \in Seq(ResultValue)
  BY Zenon DEF Passed
<1>2. Tail(left) \in Seq(ResultValue)
  BY <1>1
<1> QED BY <1>2, Zenon DEF Passed

LEMMA NextParameter ==
  ASSUME NEW i \in Nat, NEW rg, NEW m, NEW left, Passed(rg, m, left, i),
         NEW j \in Nat, j = i + 1
  PROVE  Passed(rg, m, left, j)
<1>1. \A k \in 1..Len(rg) : k > j => k > i
  <2>1. \A k \in Int : k > j => k > i
    OBVIOUS
  <2> QED BY <2>1
<1> QED BY <1>1, Zenon DEF Passed

\* One parameter of the pass.
LEMMA PassKeeps ==
  ASSUME Asked, Untouched, NEW st, NEW i \in 1..Len(sent),
         Passed(st.rg, st.mem, st.left, i - 1),
         NEW next, next = SetOutValue(st, i)
  PROVE  Passed(next.rg, next.mem, next.left, i)
<1>1. /\ rgvarg = sent /\ sent \in Seq(Arg) /\ mem \in Seq(Block)
      /\ Len(sent) \in Nat /\ DOMAIN sent = 1..Len(sent) /\ Len(mem) \in Nat
      /\ \A j \in 1..Len(sent) : Where(j) \in 1..Len(sent)
      /\ \A j, l \in 1..Len(sent) : Where(j) = Where(l) => j = l
      /\ \A k \in 1..Len(sent) : sent[k].cell <= Len(mem)
      /\ desc.params[i] \in ParamDesc
  BY Message, Zenon
<1>2. PICK n \in Nat : n = Len(sent)
  BY <1>1
<1>3. PICK k : k = Where(i)
  OBVIOUS
<1>4. k \in 1..n /\ IndexOf(i) = k
  <2>1. k \in 1..n
    BY <1>1, <1>2, <1>3, Zenon
  <2>2. IndexOf(i) = Where(i)
    BY <1>1 DEF IndexOf, Where
  <2> QED BY <1>3, <2>1, <2>2
<1>5. PICK p, fresh, type, cell, v, holds :
        /\ p = desc.params[i]
        /\ fresh = (PureOut(p) \/ st.rg[k].cell = 0)
        /\ type = IF fresh THEN p.type ELSE Hint(st.mem, st.rg[k])
        /\ cell = IF fresh THEN Len(st.mem) + 1 ELSE st.rg[k].cell
        /\ v = FromLua(Head(st.left))
        /\ holds = [val |-> IF Convertible(v, type) THEN Converted(v, type) ELSE Blank(type),
                    freed |-> 0]
  OBVIOUS
<1>6. \/ next = st
      \/ /\ st.left # <<>>
         /\ next = [rg |-> IF fresh THEN [st.rg EXCEPT ![k] = [cell |-> cell, type |-> type,
                                                             val |-> "byref"]] ELSE st.rg,
                    mem |-> IF fresh THEN Append(st.mem, holds)
                            ELSE IF Convertible(v, type) THEN [st.mem EXCEPT ![cell] = holds]
                            ELSE st.mem,
                    left |-> Tail(st.left),
                    failed |-> ~Convertible(v, type)]
  <2>1. IndexOf(i) = k /\ k # 0
    BY <1>4
  <2> QED BY <1>5, <2>1, Zenon DEF SetOutValue
<1>7. i - 1 \in Nat /\ i \in Nat /\ i = i - 1 + 1
  BY <1>1
<1>8. Passed(st.rg, st.mem, st.left, i)
  BY <1>7, NextParameter
<1>9. CASE next = st
  BY <1>8, <1>9
<1>10. CASE next # st
  <2>1. /\ st.left # <<>> /\ next.left = Tail(st.left)
        /\ next.rg = IF fresh THEN [st.rg EXCEPT ![k] = [cell |-> cell, type |-> type,
                                                       val |-> "byref"]] ELSE st.rg
        /\ next.mem = IF fresh THEN Append(st.mem, holds)
                      ELSE IF Convertible(v, type) THEN [st.mem EXCEPT ![cell] = holds]
                      ELSE st.mem
    <3>1. PICK nrg, nmem :
            /\ nrg = IF fresh THEN [st.rg EXCEPT ![k] = [cell |-> cell, type |-> type,
                                                        val |-> "byref"]] ELSE st.rg
            /\ nmem = IF fresh THEN Append(st.mem, holds)
                      ELSE IF Convertible(v, type) THEN [st.mem EXCEPT ![cell] = holds]
                      ELSE st.mem
      OBVIOUS
    <3>2. /\ st.left # <<>>
          /\ next = [rg |-> nrg, mem |-> nmem, left |-> Tail(st.left), failed |-> ~Convertible(v, type)]
      BY <1>6, <1>10, <3>1, Zenon
    <3>3. next.rg = nrg /\ next.mem = nmem /\ next.left = Tail(st.left)
      BY <3>2
    <3> QED BY <3>1, <3>2, <3>3, Zenon
  <2>2. st.rg \in Seq(Arg) /\ Len(st.rg) = n /\ st.left \in Seq(ResultValue)
    BY <1>2, <1>8, Zenon DEF Passed
  <2>3. fresh => type \in Type
    BY <1>1, <1>5 DEF ParamDesc, Type
  <2>4. holds \in Block /\ holds.freed = 0
    <3>1. PICK h : h = Head(st.left)
      OBVIOUS
    <3>2. h \in ResultValue
      BY <2>1, <2>2, <3>1
    <3>3. h \in AnyValue
      BY <3>2 DEF ResultValue, AnyValue
    <3>4. v \in AnyValue
      BY <1>5, <3>1, <3>3, ConvertedIs, Zenon
    <3>5. Converted(v, type) \in AnyValue /\ Blank(type) \in AnyValue
      BY <3>4, ConvertedIs, Zenon
    <3> QED BY <1>5, <3>5 DEF Block
  <2>5. CASE fresh
    <3>1. PureOut(desc.params[i]) \/ st.rg[k].cell = 0
      BY <1>5, <2>5
    <3>2. /\ next.rg = [st.rg EXCEPT ![k] = [cell |-> Len(st.mem) + 1, type |-> type, val |-> "byref"]]
          /\ next.mem = Append(st.mem, holds) /\ next.left = Tail(st.left)
      BY <1>5, <2>1, <2>5
    <3>3. PICK rg, m, left, rgn, mn :
            /\ rg = st.rg /\ m = st.mem /\ left = st.left
            /\ rgn = [rg EXCEPT ![k] = [cell |-> Len(m) + 1, type |-> type, val |-> "byref"]]
            /\ mn = Append(m, holds)
      OBVIOUS
    <3>4. /\ Len(sent) = n /\ i \in 1..n /\ k = Where(i)
          /\ \A j \in 1..n : Where(j) \in 1..n
          /\ \A j, l \in 1..n : Where(j) = Where(l) => j = l
          /\ \A l \in 1..n : sent[l].cell <= Len(mem)
      BY <1>1, <1>2, <1>3, Zenon
    <3>5. /\ Passed(rg, m, left, i - 1) /\ left # <<>>
          /\ PureOut(desc.params[i]) \/ rg[k].cell = 0
      BY <2>1, <3>1, <3>3
    <3>6. FreshBlock(n, rg, m, left, i, k, type, holds, rgn, mn)
      BY <1>1, <1>2, <2>3, <2>4, <2>5, <3>3, <3>4, <3>5, Zenon DEF FreshBlock
    <3>8. Passed(rgn, mn, Tail(left), i)
      BY <3>6, FreshKeeps, Zenon
    <3>7. next.rg = rgn /\ next.mem = mn /\ next.left = Tail(left)
      BY <3>2, <3>3, Zenon
    <3> QED BY <3>7, <3>8
  <2>6. CASE ~fresh /\ Convertible(v, type)
    <3>1. /\ next.rg = st.rg /\ next.mem = [st.mem EXCEPT ![cell] = holds]
          /\ next.left = Tail(st.left)
      BY <2>1, <2>6
    <3>2. Passed(st.rg, [st.mem EXCEPT ![cell] = holds], Tail(st.left), i)
      BY <1>7, <1>8, <2>1, <2>4, OldKeeps
    <3> QED BY <3>1, <3>2
  <2>7. CASE ~fresh /\ ~Convertible(v, type)
    <3>1. next.rg = st.rg /\ next.mem = st.mem /\ next.left = Tail(st.left)
      BY <2>1, <2>7
    <3>2. Passed(st.rg, st.mem, Tail(st.left), i)
      BY <1>7, <1>8, <2>1, TailKeeps
    <3> QED BY <3>1, <3>2
  <2> QED BY <2>5, <2>6, <2>7
<1> QED BY <1>9, <1>10

\* Before the pass every block is some argument's.
LEMMA FirstPassed ==
  ASSUME Asked, Untouched, NEW rs \in Seq(ResultValue)
  PROVE  Passed(sent, mem, rs, 0)
<1>1. /\ rgvarg = sent /\ sent \in Seq(Arg) /\ mem \in Seq(Block)
      /\ \A c \in 1..Len(mem) : mem[c].freed = 0
      /\ Len(sent) \in Nat /\ Len(mem) \in Nat
      /\ \A k \in 1..Len(sent) : sent[k].cell <= Len(mem)
  BY Message, Zenon
<1>2. Unreleased
  BY UntouchedHolds
<1>3. ASSUME client # "foreign", NEW c \in 1..Len(mem)
      PROVE  Accounted(sent, c)
  <2>1. ~Replaced(c) /\ ~ReplacedIn(sent, c)
    BY <1>1 DEF Replaced, ReplacedIn
  <2>2. \E k \in 1..Len(rgvarg) : Holds(c, k)
    BY <1>2, <1>3, <2>1 DEF Unreleased
  <2>3. PICK k \in 1..Len(sent) : HoldsIn(sent, c, k)
    BY <1>1, <2>2 DEF Holds, HoldsIn
  <2> QED BY <2>1, <2>3 DEF Accounted
<1>4. Len(mem) >= Len(mem) /\ \A j \in 1..Len(sent) : sent[Where(j)] = sent[Where(j)]
  BY <1>1
<1> QED BY <1>1, <1>3, <1>4, Zenon DEF Passed

\* No two arguments share a block.
LEMMA SentDistinct ==
  ASSUME Asked, Untouched
  PROVE  \A k, l \in 1..Len(sent) : sent[k].cell = sent[l].cell /\ sent[k].cell # 0 => k = l
<1> SUFFICES ASSUME NEW k \in 1..Len(sent), NEW l \in 1..Len(sent),
                    sent[k].cell = sent[l].cell, sent[k].cell # 0
             PROVE  k = l
  OBVIOUS
<1>1. /\ Len(sent) \in Nat /\ Len(sent) = Count
      /\ \A i \in 1..Count : Where(i) \in 1..Count
      /\ \A i, j \in 1..Count : Where(i) = Where(j) => i = j
      /\ IsLaid(InOrder(sent), mem, ValuesMeant, TypesMeant, ByRef)
  <2>1. Len(sent) \in Nat
    BY Message, Zenon
  <2> QED BY <2>1 DEF Untouched, Carries
<1>2. PICK i \in 1..Count, j \in 1..Count : Where(i) = k /\ Where(j) = l
  BY <1>1, WhereOnto, ZenonT(30)
<1>3. InOrder(sent)[i] = sent[k] /\ InOrder(sent)[j] = sent[l]
  BY <1>2 DEF InOrder
<1>4. Len(ValuesMeant) = Count
  BY <1>1 DEF ValuesMeant
<1>5. PICK ar, vs, ts, B : ar = InOrder(sent) /\ vs = ValuesMeant /\ ts = TypesMeant /\ B = ByRef
  OBVIOUS
<1>6. IsLaid(ar, mem, vs, ts, B) /\ i \in 1..Len(vs) /\ j \in 1..Len(vs)
  BY <1>1, <1>4, <1>5, Zenon
<1>7. ar[i].cell # 0 /\ ar[j].cell # 0 /\ ar[i].cell = ar[j].cell
  BY <1>3, <1>5
<1>8. \A h \in 1..Len(vs) : ar[h].cell # 0 => h \in B
  BY <1>6, Zenon DEF IsLaid
<1>9. \A h1, h2 \in B : ar[h1].cell = ar[h2].cell => h1 = h2
  BY <1>6, Zenon DEF IsLaid
<1>10. i = j
  BY <1>6, <1>7, <1>8, <1>9, Zenon
<1> QED BY <1>2, <1>10

-----------------------------------------------------------------------------
(* Where the results go.                                                   *)

\* The references are counted off in the order of the parameters.
LEMMA OutForIs ==
  ASSUME NEW n \in Nat, DOMAIN rgvarg = 1..n
  PROVE  /\ OutFor(0) = 0
         /\ \A i \in 1..n : /\ OutFor(i) \in Nat /\ OutFor(i - 1) \in Nat
                            /\ OutFor(i) = IF desc.params[i].byref THEN OutFor(i - 1) + 1
                                           ELSE OutFor(i - 1)
<1> DEFINE B == ByRefParams
<1>1. B = {i \in 1..n : desc.params[i].byref}
  BY DEF ByRefParams
<1> HIDE DEF B
<1>2. ASSUME NEW i PROVE IsFiniteSet(Upto(B, i)) /\ Cardinality(Upto(B, i)) \in Nat
  <2>1. IsFiniteSet(1..n)
    BY UpTo
  <2>2. Upto(B, i) \in SUBSET (1..n)
    BY <1>1 DEF Upto
  <2>3. IsFiniteSet(Upto(B, i))
    BY <2>1, <2>2, FS_Subset, Zenon
  <2> QED BY <2>3, FS_CardinalityType, Zenon
<1>3. \A i : OutFor(i) = Cardinality(Upto(B, i))
  BY DEF OutFor, Upto, B
<1>4. OutFor(0) = 0
  <2>1. Upto(B, 0) = {}
    BY <1>1 DEF Upto
  <2> QED BY <1>3, <2>1, FS_EmptySet
<1>5. ASSUME NEW i \in 1..n, desc.params[i].byref PROVE OutFor(i) = OutFor(i - 1) + 1
  <2>1. Upto(B, i) = Upto(B, i - 1) \cup {i} /\ i \notin Upto(B, i - 1)
    BY <1>1, <1>5 DEF Upto
  <2>2. Cardinality(Upto(B, i - 1) \cup {i}) = Cardinality(Upto(B, i - 1)) + 1
    BY <1>2, <2>1, FS_AddElement
  <2> QED BY <1>3, <2>1, <2>2
<1>6. ASSUME NEW i \in 1..n, ~desc.params[i].byref PROVE OutFor(i) = OutFor(i - 1)
  <2>1. Upto(B, i) = Upto(B, i - 1)
    BY <1>1, <1>6 DEF Upto
  <2> QED BY <1>3, <2>1
<1> QED BY <1>2, <1>3, <1>4, <1>5, <1>6

\* What is left of rs after u values.
Rest(left, rs, u) ==
  /\ Len(left) = IF u <= Len(rs) THEN Len(rs) - u ELSE 0
  /\ \A x \in 1..Len(left) : left[x] = rs[u + x]

LEMMA RestOfAll ==
  ASSUME NEW rs \in Seq(ResultValue)
  PROVE  Rest(rs, rs, 0)
BY DEF Rest

LEMMA RestIs ==
  ASSUME NEW rs \in Seq(ResultValue), NEW left \in Seq(ResultValue), NEW u \in Nat,
         Rest(left, rs, u)
  PROVE  /\ left = <<>> => u + 1 > Len(rs) /\ Rest(left, rs, u + 1)
         /\ left # <<>> => /\ u + 1 \in 1..Len(rs) /\ Head(left) = rs[u + 1]
                           /\ Rest(Tail(left), rs, u + 1)
<1>1. PICK r \in Nat, l \in Nat : r = Len(rs) /\ l = Len(left)
  OBVIOUS
<1>2. l = (IF u <= r THEN r - u ELSE 0) /\ \A x \in 1..l : left[x] = rs[u + x]
  BY <1>1 DEF Rest
<1>3. CASE left = <<>>
  <2>1. l = 0
    BY <1>1, <1>3
  <2> QED BY <1>1, <1>2, <1>3, <2>1 DEF Rest
<1>4. CASE left # <<>>
  <2>1. l # 0 /\ Head(left) = left[1]
    BY <1>1, <1>4
  <2>2. u + 1 \in 1..r /\ l = r - u
    BY <1>2, <2>1
  <2>3. Head(left) = rs[u + 1]
    BY <1>2, <2>1, <2>2
  <2>4. PICK t : t = Tail(left)
    OBVIOUS
  <2>5. Len(t) = l - 1 /\ \A x \in 1..(l - 1) : t[x] = left[x + 1]
    BY <1>1, <1>4, <2>4
  <2>6. \A x \in 1..(l - 1) : x + 1 \in 1..l /\ u + (x + 1) = (u + 1) + x
    BY <2>1
  <2>7. \A x \in 1..(l - 1) : t[x] = rs[(u + 1) + x]
    BY <1>2, <2>5, <2>6
  <2>8. Len(t) = IF u + 1 <= r THEN r - (u + 1) ELSE 0
    BY <2>2, <2>5
  <2>9. Rest(t, rs, u + 1)
    BY <1>1, <2>2, <2>5, <2>7, <2>8 DEF Rest
  <2> QED BY <1>1, <1>4, <2>2, <2>3, <2>4, <2>9
<1> QED BY <1>3, <1>4

Distinct(rg) == \A k, l \in 1..Len(rg) : rg[k].cell = rg[l].cell /\ rg[k].cell # 0 => k = l

Renewed(i) == PureOut(desc.params[i]) \/ sent[Where(i)].cell = 0
FinalType(i) == IF Renewed(i) THEN desc.params[i].type ELSE sent[Where(i)].type
HasResult(i, rs) == desc.params[i].byref /\ OutFor(i) <= Len(rs)

\* The parameter's argument refers to its result, or is as it was sent.
GotResult(rg, m, rs, j) ==
  /\ rg[Where(j)].cell # 0
  /\ m[rg[Where(j)].cell].val = Converted(FromLua(rs[OutFor(j)]), FinalType(j))
  /\ ~Renewed(j) => rg[Where(j)] = sent[Where(j)]
AsSent(rg, m, j) ==
  /\ rg[Where(j)] = sent[Where(j)]
  /\ Content(m, rg[Where(j)]) = Content(mem, sent[Where(j)])

Delivers(rg, m, left, i, rs) ==
  /\ Distinct(rg) /\ Rest(left, rs, OutFor(i))
  /\ \A j \in 1..Len(sent) : IF j <= i /\ HasResult(j, rs) THEN GotResult(rg, m, rs, j)
                             ELSE AsSent(rg, m, j)

\* An argument that a step leaves alone.
LEMMA OthersKeep ==
  ASSUME NEW rg, NEW m, NEW rgn, NEW mn, NEW rs, NEW j, rgn[Where(j)] = rg[Where(j)],
         rg[Where(j)].cell # 0 => mn[rg[Where(j)].cell] = m[rg[Where(j)].cell]
  PROVE  /\ GotResult(rg, m, rs, j) => GotResult(rgn, mn, rs, j)
         /\ AsSent(rg, m, j) => AsSent(rgn, mn, j)
BY DEF GotResult, AsSent, Content

\* The parameters but one are as before, and that one has its result.
OneResult(n, i, rg, m, left, rs, rgn, mn, rest) ==
  /\ n \in Nat /\ Len(sent) = n /\ i \in 1..n
  /\ Delivers(rg, m, left, i - 1, rs)
  /\ Distinct(rgn) /\ Rest(rest, rs, OutFor(i)) /\ HasResult(i, rs)
  /\ GotResult(rgn, mn, rs, i)
  /\ \A j \in 1..n : j # i => /\ rgn[Where(j)] = rg[Where(j)]
                              /\ rg[Where(j)].cell # 0
                                   => mn[rg[Where(j)].cell] = m[rg[Where(j)].cell]

LEMMA OneMore ==
  ASSUME NEW n, NEW i, NEW rg, NEW m, NEW left, NEW rs, NEW rgn, NEW mn, NEW rest,
         OneResult(n, i, rg, m, left, rs, rgn, mn, rest)
  PROVE  Delivers(rgn, mn, rest, i, rs)
<1> SUFFICES
      ASSUME n \in Nat, Len(sent) = n, i \in 1..n, Delivers(rg, m, left, i - 1, rs),
             Distinct(rgn), Rest(rest, rs, OutFor(i)), HasResult(i, rs),
             GotResult(rgn, mn, rs, i),
             \A j \in 1..n : j # i => /\ rgn[Where(j)] = rg[Where(j)]
                                      /\ rg[Where(j)].cell # 0
                                           => mn[rg[Where(j)].cell] = m[rg[Where(j)].cell]
      PROVE  Delivers(rgn, mn, rest, i, rs)
  BY Zenon DEF OneResult
<1>1. ASSUME NEW j \in 1..n
      PROVE  IF j <= i /\ HasResult(j, rs) THEN GotResult(rgn, mn, rs, j)
             ELSE AsSent(rgn, mn, j)
  <2>1. CASE j = i
    <3>1. j <= i
      BY <2>1
    <3> QED BY <2>1, <3>1
  <2>2. CASE j # i
    <3>1. IF j <= i - 1 /\ HasResult(j, rs) THEN GotResult(rg, m, rs, j) ELSE AsSent(rg, m, j)
      BY Zenon DEF Delivers
    <3>2. j <= i <=> j <= i - 1
      BY <2>2
    <3>3. /\ GotResult(rg, m, rs, j) => GotResult(rgn, mn, rs, j)
          /\ AsSent(rg, m, j) => AsSent(rgn, mn, j)
      BY <2>2, OthersKeep, Zenon
    <3> QED BY <3>1, <3>2, <3>3
  <2> QED BY <2>1, <2>2
<1> QED BY <1>1, Zenon DEF Delivers

LEMMA FreshDelivers ==
  ASSUME NEW n, NEW rg, NEW m, NEW left, NEW i, NEW k, NEW type, NEW holds, NEW rgn, NEW mn,
         FreshBlock(n, rg, m, left, i, k, type, holds, rgn, mn),
         NEW rs \in Seq(ResultValue), Delivers(rg, m, left, i - 1, rs), DOMAIN rgvarg = 1..n,
         desc.params[i].byref, type = desc.params[i].type,
         holds.val = Converted(FromLua(Head(left)), type)
  PROVE  Delivers(rgn, mn, Tail(left), i, rs)
<1>1. /\ n \in Nat /\ Len(sent) = n /\ i \in 1..n /\ left # <<>> /\ k = Where(i)
      /\ \A j \in 1..n : Where(j) \in 1..n
      /\ \A j, l \in 1..n : Where(j) = Where(l) => j = l
      /\ Passed(rg, m, left, i - 1) /\ (PureOut(desc.params[i]) \/ rg[k].cell = 0)
      /\ type \in Type /\ holds \in Block
      /\ rgn = [rg EXCEPT ![k] = [cell |-> Len(m) + 1, type |-> type, val |-> "byref"]]
      /\ mn = Append(m, holds)
  BY Zenon DEF FreshBlock
<1>2. /\ rg \in Seq(Arg) /\ Len(rg) = n /\ m \in Seq(Block) /\ left \in Seq(ResultValue)
      /\ \A l \in 1..n : rg[l].cell <= Len(m)
      /\ \A j \in 1..n : j > i - 1 => rg[Where(j)] = sent[Where(j)]
  BY <1>1, Zenon DEF Passed
<1>3. k \in 1..n
  BY <1>1
<1>4. PICK lm \in Nat : lm = Len(m)
  <2>1. \A s \in Seq(Block) : Len(s) \in Nat
    OBVIOUS
  <2> QED BY <1>2, <2>1, Zenon
<1>5. /\ rgn[k] = [cell |-> lm + 1, type |-> type, val |-> "byref"]
      /\ \A l \in 1..n : l # k => rgn[l] = rg[l]
      /\ DOMAIN rgn = 1..n /\ DOMAIN rgn = DOMAIN rg
  BY <1>1, <1>2, <1>3, <1>4
<1>6. mn[lm + 1] = holds /\ \A c \in 1..lm : mn[c] = m[c]
  BY <1>1, <1>2, <1>4
<1>7. rgn[k].cell = lm + 1 /\ lm + 1 # 0
  BY <1>5
<1>8. \A l \in 1..n : rg[l].cell \in Nat /\ rg[l].cell <= lm
  <2>1. \A l \in 1..n : rg[l] \in Arg
    BY <1>2
  <2>2. \A a \in Arg : a.cell \in Nat
    BY DEF Arg
  <2> QED BY <1>2, <1>4, <2>1, <2>2, Zenon
<1>9. Len(rgn) = n
  <2>1. \A f, g : f \in Seq(Arg) /\ DOMAIN g = DOMAIN f /\ g = [f EXCEPT ![k] = g[k]] => Len(g) = Len(f)
    OBVIOUS
  <2> QED BY <1>1, <1>2
<1>10. Distinct(rgn)
  <2>1. ASSUME NEW l \in 1..n, l # k PROVE rgn[l].cell # lm + 1
    BY <1>5, <1>8, <2>1
  <2>2. Distinct(rg)
    BY Zenon DEF Delivers
  <2>3. \A l1, l2 \in 1..n : rg[l1].cell = rg[l2].cell /\ rg[l1].cell # 0 => l1 = l2
    BY <1>2, <2>2, Zenon DEF Distinct
  <2>4. \A l1, l2 \in 1..n : rgn[l1].cell = rgn[l2].cell /\ rgn[l1].cell # 0 => l1 = l2
    BY <1>5, <1>7, <2>1, <2>3, ZenonT(30)
  <2> QED BY <1>9, <2>4, Zenon DEF Distinct
<1>11. Rest(left, rs, OutFor(i - 1))
  BY Zenon DEF Delivers
<1>12. OutFor(i) = OutFor(i - 1) + 1 /\ OutFor(i - 1) \in Nat
  BY <1>1, OutForIs
<1>13. /\ OutFor(i) \in 1..Len(rs) /\ Head(left) = rs[OutFor(i)]
       /\ Rest(Tail(left), rs, OutFor(i))
  <2>1. PICK u \in Nat : u = OutFor(i - 1)
    BY <1>12
  <2>2. /\ u + 1 \in 1..Len(rs) /\ Head(left) = rs[u + 1]
        /\ Rest(Tail(left), rs, u + 1)
    BY <1>1, <1>2, <1>11, <2>1, RestIs
  <2> QED BY <1>12, <2>1, <2>2, Zenon
<1>14. HasResult(i, rs)
  BY <1>13 DEF HasResult
<1>15. Renewed(i)
  <2>1. i > i - 1
    BY <1>1
  <2>2. rg[k] = sent[k]
    BY <1>1, <1>2, <2>1, Zenon
  <2> QED BY <1>1, <2>2 DEF Renewed
<1>16. GotResult(rgn, mn, rs, i)
  <2>1. mn[rgn[k].cell].val = Converted(FromLua(Head(left)), type)
    BY <1>6, <1>7
  <2>2. FinalType(i) = type
    BY <1>15 DEF FinalType
  <2> QED BY <1>1, <1>7, <1>13, <1>15, <2>1, <2>2, Zenon DEF GotResult
<1>17. ASSUME NEW j \in 1..n, j # i
       PROVE  /\ rgn[Where(j)] = rg[Where(j)]
              /\ rg[Where(j)].cell # 0 => mn[rg[Where(j)].cell] = m[rg[Where(j)].cell]
  <2>1. PICK w \in 1..n : w = Where(j) /\ w # k
    BY <1>1, <1>17
  <2>2. rg[w].cell # 0 => rg[w].cell \in 1..lm
    BY <1>8
  <2> QED BY <1>5, <1>6, <2>1, <2>2
<1>18. OneResult(n, i, rg, m, left, rs, rgn, mn, Tail(left))
  BY <1>1, <1>10, <1>13, <1>14, <1>16, <1>17, Zenon DEF OneResult
<1> QED BY <1>18, OneMore, Zenon

LEMMA OldDelivers ==
  ASSUME NEW n \in Nat, Len(sent) = n, NEW i \in 1..n, DOMAIN rgvarg = 1..n,
         \A j \in 1..n : Where(j) \in 1..n, \A j, l \in 1..n : Where(j) = Where(l) => j = l,
         NEW rg, NEW m, NEW left, Passed(rg, m, left, i - 1), left # <<>>,
         NEW rs \in Seq(ResultValue), Delivers(rg, m, left, i - 1, rs),
         NEW k, k = Where(i), desc.params[i].byref, ~PureOut(desc.params[i]), rg[k].cell # 0,
         NEW holds, holds.val = Converted(FromLua(Head(left)), rg[k].type),
         NEW mn, mn = [m EXCEPT ![rg[k].cell] = holds]
  PROVE  Delivers(rg, mn, Tail(left), i, rs)
<1>1. /\ rg \in Seq(Arg) /\ Len(rg) = n /\ m \in Seq(Block) /\ left \in Seq(ResultValue)
      /\ \A l \in 1..n : rg[l].cell <= Len(m)
      /\ \A j \in 1..n : j > i - 1 => rg[Where(j)] = sent[Where(j)]
  BY Zenon DEF Passed
<1>2. k \in 1..n
  OBVIOUS
<1>3. Distinct(rg) /\ Rest(left, rs, OutFor(i - 1))
  BY Zenon DEF Delivers
<1>4. rg[k].cell \in DOMAIN m
  <2>1. \A s \in Seq(Block) : Len(s) \in Nat /\ DOMAIN s = 1..Len(s)
    OBVIOUS
  <2>2. \A s \in Seq(Arg) : \A l \in 1..Len(s) : s[l] \in Arg
    OBVIOUS
  <2>3. \A a \in Arg : a.cell \in Nat
    BY DEF Arg
  <2>4. PICK x \in Nat, lm \in Nat : x = rg[k].cell /\ lm = Len(m)
    BY <1>1, <1>2, <2>1, <2>2, <2>3, Zenon
  <2>5. DOMAIN m = 1..lm /\ x <= lm /\ x # 0
    BY <1>1, <1>2, <2>1, <2>4, Zenon
  <2>6. x \in 1..lm
    BY <2>5
  <2> QED BY <2>4, <2>5, <2>6, Zenon
<1>5. mn[rg[k].cell] = holds /\ \A c : c # rg[k].cell => mn[c] = m[c]
  BY <1>4
<1>6. OutFor(i) = OutFor(i - 1) + 1 /\ OutFor(i - 1) \in Nat
  BY OutForIs
<1>7. /\ OutFor(i) \in 1..Len(rs) /\ Head(left) = rs[OutFor(i)]
      /\ Rest(Tail(left), rs, OutFor(i))
  <2>1. PICK u \in Nat : u = OutFor(i - 1)
    BY <1>6
  <2>2. /\ u + 1 \in 1..Len(rs) /\ Head(left) = rs[u + 1]
        /\ Rest(Tail(left), rs, u + 1)
    BY <1>1, <1>3, <2>1, RestIs
  <2> QED BY <1>6, <2>1, <2>2, Zenon
<1>8. HasResult(i, rs)
  BY <1>7 DEF HasResult
<1>9. rg[k] = sent[k] /\ ~Renewed(i)
  <2>1. i > i - 1
    OBVIOUS
  <2>2. rg[k] = sent[k]
    BY <1>1, <2>1, Zenon
  <2> QED BY <2>2 DEF Renewed
<1>10. GotResult(rg, mn, rs, i)
  <2>1. FinalType(i) = rg[k].type
    BY <1>9 DEF FinalType
  <2> QED BY <1>5, <1>7, <1>9, <2>1, Zenon DEF GotResult
<1>11. ASSUME NEW j \in 1..n, j # i
       PROVE  /\ rg[Where(j)] = rg[Where(j)]
              /\ rg[Where(j)].cell # 0 => mn[rg[Where(j)].cell] = m[rg[Where(j)].cell]
  <2>1. PICK w \in 1..n : w = Where(j) /\ w # k
    BY <1>11
  <2>2. rg[w].cell # 0 => rg[w].cell # rg[k].cell
    BY <1>1, <1>2, <1>3, <2>1 DEF Distinct
  <2> QED BY <1>5, <2>1, <2>2
<1>12. OneResult(n, i, rg, m, left, rs, rg, mn, Tail(left))
  BY <1>3, <1>7, <1>8, <1>10, <1>11, Zenon DEF OneResult
<1> QED BY <1>12, OneMore, Zenon

\* A parameter that gets no result.
LEMMA NoneDelivers ==
  ASSUME NEW n \in Nat, Len(sent) = n, NEW i \in 1..n, DOMAIN rgvarg = 1..n,
         NEW rg, NEW m, NEW left \in Seq(ResultValue),
         NEW rs \in Seq(ResultValue), Delivers(rg, m, left, i - 1, rs),
         left = <<>> \/ ~desc.params[i].byref
  PROVE  Delivers(rg, m, left, i, rs)
<1>1. Distinct(rg) /\ Rest(left, rs, OutFor(i - 1))
  BY Zenon DEF Delivers
<1>2. /\ OutFor(i - 1) \in Nat
      /\ OutFor(i) = IF desc.params[i].byref THEN OutFor(i - 1) + 1 ELSE OutFor(i - 1)
  BY OutForIs
<1>3. PICK u \in Nat : u = OutFor(i - 1)
  BY <1>2
<1>4. Rest(left, rs, OutFor(i)) /\ ~HasResult(i, rs)
  <2>1. CASE ~desc.params[i].byref
    BY <1>1, <1>2, <2>1 DEF HasResult
  <2>2. CASE desc.params[i].byref
    <3>1. u + 1 > Len(rs) /\ Rest(left, rs, u + 1)
      BY <1>1, <1>3, <2>2, RestIs
    <3>2. OutFor(i) = u + 1 /\ ~(u + 1 <= Len(rs))
      BY <1>2, <1>3, <2>2, <3>1
    <3> QED BY <3>1, <3>2 DEF HasResult
  <2> QED BY <2>1, <2>2
<1>5. ASSUME NEW j \in 1..n
      PROVE  IF j <= i /\ HasResult(j, rs) THEN GotResult(rg, m, rs, j) ELSE AsSent(rg, m, j)
  <2>1. IF j <= i - 1 /\ HasResult(j, rs) THEN GotResult(rg, m, rs, j) ELSE AsSent(rg, m, j)
    BY Zenon DEF Delivers
  <2>2. HasResult(j, rs) => (j <= i <=> j <= i - 1)
    BY <1>4
  <2> QED BY <2>1, <2>2
<1> QED BY <1>1, <1>4, <1>5, Zenon DEF Delivers

\* One parameter of the pass, while no value failed.
LEMMA DeliverKeeps ==
  ASSUME Asked, Untouched, NEW st, NEW i \in 1..Len(sent), NEW rs \in Seq(ResultValue),
         Passed(st.rg, st.mem, st.left, i - 1),
         st.failed \/ Delivers(st.rg, st.mem, st.left, i - 1, rs),
         NEW next, next = SetOutValue(st, i)
  PROVE  next.failed \/ Delivers(next.rg, next.mem, next.left, i, rs)
<1>1. /\ rgvarg = sent /\ sent \in Seq(Arg) /\ mem \in Seq(Block)
      /\ Len(sent) \in Nat /\ DOMAIN sent = 1..Len(sent) /\ Len(mem) \in Nat
      /\ \A j \in 1..Len(sent) : Where(j) \in 1..Len(sent)
      /\ \A j, l \in 1..Len(sent) : Where(j) = Where(l) => j = l
      /\ \A k \in 1..Len(sent) : sent[k].cell <= Len(mem)
      /\ desc.params[i] \in ParamDesc
  BY Message, Zenon
<1>2. PICK n \in Nat : n = Len(sent)
  BY <1>1
<1>3. PICK k : k = Where(i)
  OBVIOUS
<1>4. k \in 1..n /\ IndexOf(i) = k
  <2>1. k \in 1..n
    BY <1>1, <1>2, <1>3, Zenon
  <2>2. IndexOf(i) = Where(i)
    BY <1>1 DEF IndexOf, Where
  <2> QED BY <1>3, <2>1, <2>2
<1>5. PICK p, fresh, type, cell, v, holds :
        /\ p = desc.params[i]
        /\ fresh = (PureOut(p) \/ st.rg[k].cell = 0)
        /\ type = IF fresh THEN p.type ELSE Hint(st.mem, st.rg[k])
        /\ cell = IF fresh THEN Len(st.mem) + 1 ELSE st.rg[k].cell
        /\ v = FromLua(Head(st.left))
        /\ holds = [val |-> IF Convertible(v, type) THEN Converted(v, type) ELSE Blank(type),
                    freed |-> 0]
  OBVIOUS
<1>6. \/ (st.left = <<>> \/ st.failed \/ ~p.byref) /\ next = st
      \/ /\ st.left # <<>> /\ ~st.failed /\ p.byref
         /\ next = [rg |-> IF fresh THEN [st.rg EXCEPT ![k] = [cell |-> cell, type |-> type,
                                                             val |-> "byref"]] ELSE st.rg,
                    mem |-> IF fresh THEN Append(st.mem, holds)
                            ELSE IF Convertible(v, type) THEN [st.mem EXCEPT ![cell] = holds]
                            ELSE st.mem,
                    left |-> Tail(st.left),
                    failed |-> ~Convertible(v, type)]
  <2>1. IndexOf(i) = k /\ k # 0
    BY <1>4
  <2> QED BY <1>5, <2>1, Zenon DEF SetOutValue
<1>7. st.rg \in Seq(Arg) /\ Len(st.rg) = n /\ st.left \in Seq(ResultValue)
  BY <1>2, Zenon DEF Passed
<1>8. i \in 1..n /\ Len(sent) = n /\ DOMAIN rgvarg = 1..n
  BY <1>1, <1>2
<1>9. CASE (st.left = <<>> \/ st.failed \/ ~p.byref) /\ next = st
  <2>1. CASE st.failed
    BY <1>9, <2>1
  <2>2. CASE ~st.failed
    <3>1. Delivers(st.rg, st.mem, st.left, i - 1, rs) /\ (st.left = <<>> \/ ~desc.params[i].byref)
      BY <1>5, <1>9, <2>2
    <3>2. Delivers(st.rg, st.mem, st.left, i, rs)
      BY <1>7, <1>8, <3>1, NoneDelivers
    <3> QED BY <1>9, <3>2
  <2> QED BY <2>1, <2>2
<1>10. CASE ~((st.left = <<>> \/ st.failed \/ ~p.byref) /\ next = st)
  <2>1. /\ st.left # <<>> /\ ~st.failed /\ p.byref /\ next.left = Tail(st.left)
        /\ next.failed = ~Convertible(v, type)
        /\ next.rg = IF fresh THEN [st.rg EXCEPT ![k] = [cell |-> cell, type |-> type,
                                                       val |-> "byref"]] ELSE st.rg
        /\ next.mem = IF fresh THEN Append(st.mem, holds)
                      ELSE IF Convertible(v, type) THEN [st.mem EXCEPT ![cell] = holds]
                      ELSE st.mem
    <3>1. PICK nrg, nmem :
            /\ nrg = IF fresh THEN [st.rg EXCEPT ![k] = [cell |-> cell, type |-> type,
                                                        val |-> "byref"]] ELSE st.rg
            /\ nmem = IF fresh THEN Append(st.mem, holds)
                      ELSE IF Convertible(v, type) THEN [st.mem EXCEPT ![cell] = holds]
                      ELSE st.mem
      OBVIOUS
    <3>2. /\ st.left # <<>> /\ ~st.failed /\ p.byref
          /\ next = [rg |-> nrg, mem |-> nmem, left |-> Tail(st.left), failed |-> ~Convertible(v, type)]
      BY <1>6, <1>10, <3>1, Zenon
    <3>3. /\ next.rg = nrg /\ next.mem = nmem /\ next.left = Tail(st.left)
          /\ next.failed = ~Convertible(v, type)
      BY <3>2
    <3> QED BY <3>1, <3>2, <3>3, Zenon
  <2>2. CASE ~Convertible(v, type)
    BY <2>1, <2>2
  <2>3. CASE Convertible(v, type)
    <3>1. Delivers(st.rg, st.mem, st.left, i - 1, rs)
      BY <2>1
    <3>2. fresh => type \in Type
      BY <1>1, <1>5 DEF ParamDesc, Type
    <3>3. holds \in Block /\ holds.freed = 0 /\ holds.val = Converted(FromLua(Head(st.left)), type)
      <4>1. PICK h : h = Head(st.left)
        OBVIOUS
      <4>2. h \in ResultValue
        BY <1>7, <2>1, <4>1
      <4>3. h \in AnyValue
        BY <4>2 DEF ResultValue, AnyValue
      <4>4. v \in AnyValue
        BY <1>5, <4>1, <4>3, ConvertedIs, Zenon
      <4>5. Converted(v, type) \in AnyValue /\ Blank(type) \in AnyValue
        BY <4>4, ConvertedIs, Zenon
      <4> QED BY <1>5, <2>3, <4>5 DEF Block
    <3>4. PICK rg, m, left : rg = st.rg /\ m = st.mem /\ left = st.left
      OBVIOUS
    <3>5. /\ \A j \in 1..n : Where(j) \in 1..n
          /\ \A j, l \in 1..n : Where(j) = Where(l) => j = l
          /\ \A l \in 1..n : sent[l].cell <= Len(mem)
          /\ Passed(rg, m, left, i - 1) /\ left # <<>> /\ Delivers(rg, m, left, i - 1, rs)
          /\ holds.val = Converted(FromLua(Head(left)), type)
          /\ desc.params[i].byref
      BY <1>1, <1>2, <1>5, <2>1, <3>1, <3>3, <3>4, Zenon
    <3>6. CASE fresh
      <4>1. PICK rgn, mn :
              /\ rgn = [rg EXCEPT ![k] = [cell |-> Len(m) + 1, type |-> type, val |-> "byref"]]
              /\ mn = Append(m, holds)
        OBVIOUS
      <4>2. (PureOut(desc.params[i]) \/ rg[k].cell = 0) /\ type = desc.params[i].type
        BY <1>5, <3>4, <3>6
      <4>3. FreshBlock(n, rg, m, left, i, k, type, holds, rgn, mn)
        BY <1>1, <1>3, <1>8, <3>2, <3>3, <3>5, <3>6, <4>1, <4>2, Zenon DEF FreshBlock
      <4>4. Delivers(rgn, mn, Tail(left), i, rs)
        <5>1. /\ Delivers(rg, m, left, i - 1, rs) /\ DOMAIN rgvarg = 1..n
              /\ desc.params[i].byref /\ type = desc.params[i].type
              /\ holds.val = Converted(FromLua(Head(left)), type)
          BY <1>8, <3>5, <4>2, Zenon
        <5> QED BY <4>3, <5>1, FreshDelivers
      <4>5. next.rg = rgn /\ next.mem = mn /\ next.left = Tail(left)
        BY <1>5, <2>1, <3>4, <3>6, <4>1
      <4> QED BY <4>4, <4>5
    <3>7. CASE ~fresh
      <4>1. PICK mn : mn = [m EXCEPT ![rg[k].cell] = holds]
        OBVIOUS
      <4>2. /\ ~PureOut(desc.params[i]) /\ rg[k].cell # 0 /\ cell = rg[k].cell
            /\ holds.val = Converted(FromLua(Head(left)), rg[k].type)
        <5>1. /\ ~PureOut(desc.params[i]) /\ rg[k].cell # 0 /\ type = Hint(m, rg[k])
              /\ cell = rg[k].cell
          BY <1>5, <3>4, <3>7
        <5>2. \A u : Converted(u, Hint(m, rg[k])) = Converted(u, rg[k].type)
          BY DEF Converted, Blank, Hint
        <5> QED BY <3>5, <5>1, <5>2
      <4>3. Delivers(rg, mn, Tail(left), i, rs)
        BY <1>3, <1>8, <3>5, <4>1, <4>2, OldDelivers, Zenon
      <4>4. next.rg = rg /\ next.mem = mn /\ next.left = Tail(left)
        BY <2>1, <2>3, <3>4, <3>7, <4>1, <4>2
      <4> QED BY <4>3, <4>4
    <3> QED BY <3>6, <3>7
  <2> QED BY <2>2, <2>3
<1> QED BY <1>9, <1>10

\* The whole pass.
LEMMA AllPassed ==
  ASSUME Asked, Untouched, NEW rs \in Seq(ResultValue), NEW f, f = OutValues(rs)
  PROVE  /\ Passed(f[Len(sent)].rg, f[Len(sent)].mem, f[Len(sent)].left, Len(sent))
         /\ \/ f[Len(sent)].failed
            \/ Delivers(f[Len(sent)].rg, f[Len(sent)].mem, f[Len(sent)].left, Len(sent), rs)
<1>1. /\ rgvarg = sent /\ Len(sent) \in Nat /\ DOMAIN sent = 1..Len(sent)
  BY Message, Zenon
<1>2. PICK n \in Nat : n = Len(sent)
  BY <1>1
<1>3. f[0] = Begun(rs) /\ \A i \in 1..n : f[i] = SetOutValue(f[i-1], i)
  BY <1>1, <1>2, OutValuesIs
<1> DEFINE P(i) == /\ Passed(f[i].rg, f[i].mem, f[i].left, i)
                   /\ f[i].failed \/ Delivers(f[i].rg, f[i].mem, f[i].left, i, rs)
           S == {i \in 0..n : ~P(i)}
<1>4. P(0)
  <2>1. f[0].rg = sent /\ f[0].mem = mem /\ f[0].left = rs
    BY <1>1, <1>3 DEF Begun
  <2>2. Passed(sent, mem, rs, 0)
    BY FirstPassed
  <2>3. Distinct(sent)
    BY SentDistinct, Zenon DEF Distinct
  <2>4. Rest(rs, rs, OutFor(0))
    <3>1. OutFor(0) = 0
      BY <1>1, OutForIs
    <3> QED BY <3>1, RestOfAll
  <2>5. \A j \in 1..Len(sent) : AsSent(sent, mem, j) /\ ~(j <= 0)
    BY <1>1 DEF AsSent
  <2>6. Delivers(sent, mem, rs, 0, rs)
    BY <2>3, <2>4, <2>5, Zenon DEF Delivers
  <2> QED BY <2>1, <2>2, <2>6
<1>5. ASSUME NEW i \in 1..n, P(i - 1) PROVE P(i)
  <2>1. i \in 1..Len(sent) /\ f[i] = SetOutValue(f[i-1], i)
    BY <1>2, <1>3
  <2>2. PICK st, next : st = f[i-1] /\ next = f[i]
    OBVIOUS
  <2>3. /\ Passed(st.rg, st.mem, st.left, i - 1) /\ next = SetOutValue(st, i)
        /\ st.failed \/ Delivers(st.rg, st.mem, st.left, i - 1, rs)
    BY <1>5, <2>1, <2>2
  <2>4. Passed(next.rg, next.mem, next.left, i)
    BY <2>1, <2>3, PassKeeps
  <2>5. next.failed \/ Delivers(next.rg, next.mem, next.left, i, rs)
    BY <2>1, <2>3, DeliverKeeps
  <2> QED BY <2>2, <2>4, <2>5
<1> HIDE DEF P
<1>6. S = {}
  <2> SUFFICES ASSUME S # {} PROVE FALSE
    OBVIOUS
  <2>1. S \in SUBSET Nat
    OBVIOUS
  <2>2. PICK m : m = Least(S)
    OBVIOUS
  <2>3. m \in S /\ \A j \in S : m <= j
    <3> HIDE DEF S
    <3> QED BY <2>1, <2>2, LeastOf
  <2>4. m \in 1..n
    BY <1>4, <2>3
  <2>5. m - 1 \in 0..n /\ ~(m <= m - 1)
    BY <2>4
  <2>6. P(m - 1)
    BY <2>3, <2>5
  <2>7. P(m)
    BY <1>5, <2>4, <2>6
  <2> QED BY <2>3, <2>7
<1>7. P(n)
  <2>1. n \in 0..n
    OBVIOUS
  <2> QED BY <1>6, <2>1
<1> QED BY <1>2, <1>7 DEF P

\* What an argument of the message is, in the order of the parameters.
LEMMA Carried ==
  ASSUME Asked, Untouched, NEW i \in 1..Len(sent), NEW a, a = rgvarg[IndexOf(i)]
  PROVE  /\ IndexOf(i) # 0 /\ desc.params[i] \in ParamDesc
         /\ a.cell = 0 => i \notin ByRef /\ a.val = ValueOf(i) /\ Content(mem, a) = ValueOf(i)
         /\ a.cell # 0 => i \in ByRef /\ Content(mem, a) = Converted(ValueOf(i), TypeOf(i))
         /\ i \in 1..Count /\ i \in 1..Len(desc.params) /\ a.type = TypeOf(i)
<1>1. /\ rgvarg = sent /\ Len(sent) \in Nat /\ Len(sent) = Count
      /\ Len(sent) <= Len(desc.params)
      /\ \A j \in 1..Len(sent) : Where(j) \in 1..Len(sent)
      /\ desc.params[i] \in ParamDesc
  BY Message, Zenon
<1>2. IndexOf(i) = Where(i)
  BY <1>1 DEF IndexOf, Where
<1>3. IsLaid(InOrder(sent), mem, ValuesMeant, TypesMeant, ByRef)
  BY DEF Untouched, Carries
<1>4. i \in 1..Count /\ IndexOf(i) # 0 /\ InOrder(sent)[i] = a
  <2>1. i \in 1..Count
    BY <1>1
  <2>2. InOrder(sent)[i] = sent[Where(i)]
    BY <2>1 DEF InOrder
  <2>3. Where(i) # 0
    BY <1>1
  <2> QED BY <1>1, <1>2, <2>1, <2>2, <2>3
<1>5. Len(ValuesMeant) = Count /\ ValuesMeant[i] = ValueOf(i) /\ TypesMeant[i] = TypeOf(i)
  BY <1>1, <1>4 DEF ValuesMeant, TypesMeant
<1>6. /\ a.type = TypeOf(i)
      /\ i \notin ByRef => a.cell = 0 /\ a.val = ValueOf(i)
      /\ i \in ByRef => a.cell \in 1..Len(mem) /\ mem[a.cell].val = Converted(ValueOf(i), TypeOf(i))
  <2>1. PICK ar, vs, ts, B : ar = InOrder(sent) /\ vs = ValuesMeant /\ ts = TypesMeant /\ B = ByRef
    OBVIOUS
  <2>2. IsLaid(ar, mem, vs, ts, B) /\ i \in 1..Len(vs)
    BY <1>3, <1>4, <1>5, <2>1, Zenon
  <2>3. /\ ar[i].type = ts[i]
        /\ i \notin B => ar[i].cell = 0 /\ ar[i].val = vs[i]
        /\ i \in B => ar[i].cell \in 1..Len(mem) /\ mem[ar[i].cell].val = Converted(vs[i], ts[i])
    BY <2>2, Zenon DEF IsLaid
  <2>4. a = ar[i] /\ vs[i] = ValueOf(i) /\ ts[i] = TypeOf(i)
    BY <1>4, <1>5, <2>1
  <2> QED BY <2>1, <2>3, <2>4, Zenon
<1>7. i \in ByRef => a.cell # 0
  BY <1>6
<1>8. i \in 1..Len(desc.params)
  <2>1. PICK n \in Nat, p \in Nat : n = Len(sent) /\ p = Len(desc.params)
    <3>1. Len(desc.params) \in Nat
      BY DescIs DEF Asked
    <3> QED BY <1>1, <3>1
  <2>2. i \in 1..p
    BY <1>1, <2>1
  <2> QED BY <2>1, <2>2, Zenon
<1> QED BY <1>1, <1>4, <1>6, <1>7, <1>8 DEF Content

\* The results without the return value.
ShiftedResult(rs, n, i, k) ==
  /\ rs \in Seq(ResultValue) /\ n \in Nat /\ DOMAIN rgvarg = 1..n /\ i \in 1..n
  /\ RetvalTaken <=> ~desc.void
  /\ desc.params[i].byref /\ k = OutFor(i) + (IF desc.void THEN 0 ELSE 1)

LEMMA Shifted ==
  ASSUME NEW rs, NEW n, NEW i, NEW k, ShiftedResult(rs, n, i, k)
  PROVE  /\ ForOutputs(rs) \in Seq(ResultValue)
         /\ OutFor(i) <= Len(ForOutputs(rs)) <=> k \in DOMAIN rs
         /\ k \in DOMAIN rs => ForOutputs(rs)[OutFor(i)] = rs[k]
<1> SUFFICES
      ASSUME rs \in Seq(ResultValue), n \in Nat, DOMAIN rgvarg = 1..n, i \in 1..n,
             RetvalTaken <=> ~desc.void, desc.params[i].byref,
             k = OutFor(i) + (IF desc.void THEN 0 ELSE 1)
      PROVE  /\ ForOutputs(rs) \in Seq(ResultValue)
             /\ OutFor(i) <= Len(ForOutputs(rs)) <=> k \in DOMAIN rs
             /\ k \in DOMAIN rs => ForOutputs(rs)[OutFor(i)] = rs[k]
  BY Zenon DEF ShiftedResult
<1>1. PICK u \in Nat : u = OutFor(i) /\ u # 0
  <2>1. OutFor(i - 1) \in Nat /\ OutFor(i) = OutFor(i - 1) + 1
    BY OutForIs
  <2>2. PICK w \in Nat : w = OutFor(i - 1)
    BY <2>1
  <2>3. w + 1 \in Nat /\ w + 1 # 0 /\ OutFor(i) = w + 1
    BY <2>1, <2>2
  <2> QED BY <2>3, Zenon
<1>2. PICK r \in Nat : r = Len(rs) /\ DOMAIN rs = 1..r
  OBVIOUS
<1>3. CASE desc.void \/ rs = <<>>
  <2>1. ForOutputs(rs) = rs
    BY <1>3 DEF ForOutputs
  <2>2. desc.void \/ r = 0
    BY <1>2, <1>3
  <2> QED BY <1>1, <1>2, <2>1, <2>2
<1>4. CASE ~desc.void /\ rs # <<>>
  <2>1. ForOutputs(rs) = Tail(rs)
    BY <1>4 DEF ForOutputs
  <2>2. PICK t : t = Tail(rs)
    OBVIOUS
  <2>3. t \in Seq(ResultValue) /\ Len(t) = r - 1 /\ r # 0 /\ \A x \in 1..(r - 1) : t[x] = rs[x + 1]
    BY <1>2, <1>4, <2>2
  <2>4. k = u + 1
    BY <1>1, <1>4
  <2>5. u <= r - 1 <=> k \in 1..r
    BY <1>1, <2>3, <2>4
  <2>6. k \in 1..r => t[u] = rs[k]
    BY <1>1, <2>3, <2>4
  <2> QED BY <1>1, <1>2, <2>1, <2>2, <2>3, <2>5, <2>6
<1> QED BY <1>3, <1>4

\* What the pass leaves.
LEMMA DeliveredHolds ==
  ASSUME Asked, Untouched, "func" \in flags, NEW rs \in Seq(ResultValue), outs' = rs,
         UNCHANGED <<client, desc, flags, args, named, asks, sent>>,
         Len(rgvarg') = Len(sent), rgvarg' \in Seq(Arg),
         NEW left, Delivers(rgvarg', mem', left, Len(sent), ForOutputs(rs)),
         result' = IF RetvalTaken /\ rs # <<>> THEN FromLua(rs[1]) ELSE result
  PROVE  Delivered'
<1>1. /\ rgvarg = sent /\ Len(sent) \in Nat /\ DOMAIN sent = 1..Len(sent) /\ Len(sent) = Count
      /\ \A i \in 1..Len(sent) : Where(i) \in 1..Len(sent)
  BY Message, Zenon
<1>2. PICK n \in Nat : n = Len(sent)
  BY <1>1
<1>3. DOMAIN rgvarg' = 1..n /\ DOMAIN rgvarg = 1..n
  BY <1>1, <1>2
<1>4. Count' = n
  BY <1>1, <1>2 DEF Count
<1>5. \A i : /\ Where(i)' = Where(i) /\ ValueOf(i)' = ValueOf(i) /\ TypeOf(i)' = TypeOf(i)
  BY DEF Where, ValueOf, TypeOf
<1>6. ByRef' = ByRef
  BY <1>1, <1>2, <1>4 DEF ByRef
<1>7. \A i : OutFor(i)' = OutFor(i)
  BY <1>3 DEF OutFor, ByRefParams
<1>8. result = Empty /\ (RetvalTaken' <=> RetvalTaken)
  BY DEF Untouched, RetvalTaken
<1>9. ASSUME NEW i \in 1..n, asks \/ desc.void PROVE Placed(i)'
  <2>1. PICK o : o = ForOutputs(rs)
    OBVIOUS
  <2>2. IF i <= n /\ HasResult(i, o) THEN GotResult(rgvarg', mem', o, i)
        ELSE AsSent(rgvarg', mem', i)
    BY <1>2, <2>1, Zenon DEF Delivers
  <2>3. i <= n /\ (RetvalTaken <=> ~desc.void) /\ i \in 1..Len(sent)
    BY <1>2, <1>9 DEF RetvalTaken
  <2>4. PICK a : a = rgvarg[IndexOf(i)]
    OBVIOUS
  <2>5. /\ a.cell = 0 => i \notin ByRef /\ Content(mem, a) = ValueOf(i)
        /\ a.cell # 0 => i \in ByRef /\ Content(mem, a) = Converted(ValueOf(i), TypeOf(i))
        /\ a.type = TypeOf(i)
    BY <2>3, <2>4, Carried
  <2>6. a = sent[Where(i)]
    BY <1>1, <2>4 DEF IndexOf, Where
  <2>7. FinalType(i) = ResultType(i)' /\ (Renewed(i) <=> PureOut(desc.params[i]) \/ i \notin ByRef)
    BY <1>5, <1>6, <2>5, <2>6 DEF FinalType, Renewed, ResultType
  <2>8. ResultFor(i)' = OutFor(i) + (IF desc.void THEN 0 ELSE 1)
    BY <1>7 DEF ResultFor
  <2>9. desc.params[i].byref =>
          /\ OutFor(i) <= Len(o) <=> ResultFor(i)' \in DOMAIN rs
          /\ ResultFor(i)' \in DOMAIN rs => o[OutFor(i)] = rs[ResultFor(i)']
    <3> SUFFICES ASSUME desc.params[i].byref
                 PROVE  /\ OutFor(i) <= Len(o) <=> ResultFor(i)' \in DOMAIN rs
                        /\ ResultFor(i)' \in DOMAIN rs => o[OutFor(i)] = rs[ResultFor(i)']
      OBVIOUS
    <3>1. PICK k : k = ResultFor(i)'
      OBVIOUS
    <3>2. k = OutFor(i) + (IF desc.void THEN 0 ELSE 1)
      BY <2>8, <3>1
    <3>3. /\ OutFor(i) <= Len(ForOutputs(rs)) <=> k \in DOMAIN rs
          /\ k \in DOMAIN rs => ForOutputs(rs)[OutFor(i)] = rs[k]
      <4>1. ShiftedResult(rs, n, i, k)
        BY <1>3, <2>3, <3>2, Zenon DEF ShiftedResult
      <4> QED BY <4>1, Shifted
    <3> QED BY <2>1, <3>1, <3>3, Zenon
  <2>10. Assigned(i)' <=> HasResult(i, o)
    BY <2>9 DEF Assigned, HasResult
  <2>11. CASE HasResult(i, o)
    <3>1. GotResult(rgvarg', mem', o, i) /\ o[OutFor(i)] = rs[ResultFor(i)']
      BY <2>2, <2>3, <2>9, <2>10, <2>11 DEF HasResult, Assigned
    <3> QED BY <1>5, <1>6, <2>7, <2>10, <2>11, <3>1, Zenon DEF GotResult, Placed
  <2>12. CASE ~HasResult(i, o)
    <3>1. AsSent(rgvarg', mem', i)
      BY <2>2, <2>12
    <3> QED BY <1>5, <1>6, <2>5, <2>6, <2>10, <2>12, <3>1 DEF AsSent, Placed
  <2> QED BY <2>11, <2>12
<1>10. ASSUME NEW i \in 1..n
       PROVE  /\ Where(i) \in 1..n /\ i \in 1..Len(desc.params) /\ desc.params[i] \in ParamDesc
              /\ sent[Where(i)].cell # 0 <=> i \in ByRef
  <2>1. PICK a : a = rgvarg[IndexOf(i)]
    OBVIOUS
  <2>2. /\ desc.params[i] \in ParamDesc /\ i \in 1..Len(desc.params)
        /\ a.cell = 0 => i \notin ByRef
        /\ a.cell # 0 => i \in ByRef
    BY <1>2, <2>1, Carried
  <2>3. a = sent[Where(i)]
    BY <1>1, <1>2, <2>1 DEF IndexOf, Where
  <2> QED BY <1>1, <1>2, <2>2, <2>3
<1> QED BY <1>1, <1>2, <1>4, <1>5, <1>6, <1>8, <1>9, <1>10 DEF Delivered

LEMMA ReturnsKeeps ==
  ASSUME Whole, pc = "running", NEW rs \in Lists(Returned, MaxResults), Returns(rs)
  PROVE  Whole'
<1>1. /\ Asked /\ Untouched /\ attempt \in {"func", "get", "put"}
      /\ UNCHANGED <<client, desc, flags, args, named, asks, sent>>
  BY DEF Whole, Returns, Received
<1>2. Asked'
  BY <1>1 DEF Asked
<1>3. CASE attempt = "func"
  <2>1. PICK outputs : outputs = ForOutputs(rs)
    OBVIOUS
  <2>2. outputs \in Seq(ResultValue)
    <3>1. rs \in Seq(ResultValue)
      BY ResultsAre
    <3>2. outputs = rs \/ (rs # <<>> /\ outputs = Tail(rs))
      BY <2>1 DEF ForOutputs
    <3> QED BY <3>1, <3>2
  <2>3. PICK f : f = OutValues(outputs)
    OBVIOUS
  <2>4. SetOutValues(ForOutputs(rs))
    BY <1>3 DEF Returns
  <2>5. rgvarg' = f[Len(rgvarg)].rg /\ mem' = f[Len(rgvarg)].mem /\ pc' = "answered"
    BY <2>1, <2>3, <2>4 DEF SetOutValues, Answer
  <2>6. rgvarg = sent
    BY <1>1 DEF Untouched
  <2>7. PICK rg, m, left : rg = f[Len(sent)].rg /\ m = f[Len(sent)].mem /\ left = f[Len(sent)].left
    OBVIOUS
  <2>8. rgvarg' = rg /\ mem' = m
    BY <2>5, <2>6, <2>7
  <2>9. Passed(rg, m, left, Len(sent))
    <3>1. Passed(f[Len(sent)].rg, f[Len(sent)].mem, f[Len(sent)].left, Len(sent))
      BY <1>1, <2>2, <2>3, AllPassed
    <3> QED BY <2>7, <3>1, Zenon
  <2>10. /\ rg \in Seq(Arg) /\ Len(rg) = Len(sent) /\ m \in Seq(Block)
         /\ \A c \in 1..Len(m) : m[c].freed = 0
         /\ client # "foreign" => \A c \in 1..Len(m) : Accounted(rg, c)
    BY <2>9, Zenon DEF Passed
  <2>11. \A i : Where(i)' = Where(i)
    BY <1>1 DEF Where
  <2>12. \A c : Replaced(c)' <=> ReplacedIn(rg, c)
    BY <1>1, <2>8, <2>11 DEF Replaced, ReplacedIn
  <2>13. \A c, k : Holds(c, k)' <=> HoldsIn(rg, c, k)
    BY <2>8 DEF Holds, HoldsIn
  <2>14. Unreleased'
    BY <1>1, <2>8, <2>10, <2>12, <2>13 DEF Unreleased, Accounted
  <2>15. hr' = "S_OK" => Delivered'
    <3> SUFFICES ASSUME hr' = "S_OK" PROVE Delivered'
      OBVIOUS
    <3>1. ~f[Len(sent)].failed
      BY <2>1, <2>3, <2>4, <2>6 DEF SetOutValues, Answer
    <3>2. Delivers(rg, m, left, Len(sent), outputs)
      <4>1. \/ f[Len(sent)].failed
            \/ Delivers(f[Len(sent)].rg, f[Len(sent)].mem, f[Len(sent)].left, Len(sent), outputs)
        BY <1>1, <2>2, <2>3, AllPassed
      <4> QED BY <2>7, <3>1, <4>1, Zenon
    <3>3. Delivers(rgvarg', mem', left, Len(sent), ForOutputs(rs))
      BY <2>1, <2>8, <3>2, Zenon
    <3>4. result' = (IF RetvalTaken /\ rs # <<>> THEN FromLua(rs[1]) ELSE result) /\ outs' = rs
      BY <1>3 DEF Returns
    <3>5. "func" \in flags /\ rs \in Seq(ResultValue)
      BY <1>3, ResultsAre DEF Whole, Received
    <3>6. Len(rgvarg') = Len(sent) /\ rgvarg' \in Seq(Arg)
      BY <2>8, <2>10
    <3> QED BY <1>1, <3>3, <3>4, <3>5, <3>6, DeliveredHolds
  <2> QED BY <1>2, <2>5, <2>14, <2>15 DEF Whole
<1>4. CASE attempt # "func"
  <2>1. UNCHANGED <<rgvarg, mem>> /\ pc' = "answered"
    BY <1>1, <1>4 DEF Returns, Answer
  <2>2. Unreleased'
    BY <1>1, <2>1, UntouchedHolds, StaysUnreleased
  <2>3. attempt' = attempt
    BY DEF Returns
  <2> QED BY <1>2, <1>4, <2>1, <2>2, <2>3 DEF Whole
<1> QED BY <1>3, <1>4

-----------------------------------------------------------------------------
(* The end of the call.                                                    *)

\* What a script gets back for one parameter.
LEMMA BackIs ==
  ASSUME Asked, Unreleased, Delivered, client # "foreign", NEW i \in 1..Count
  PROVE  (IF IsOut(i) THEN <<ToLua(Content(mem, Reverse(rgvarg)[i]))>> ELSE <<>>)
         = (IF GoesBack(i) THEN <<Final(i)>> ELSE <<>>)
<1>1. /\ named = <<>> /\ asks = TRUE /\ client \in {"typed", "untyped"}
      /\ desc \in FuncDescs /\ args \in Seq(ArgValue)
  BY DEF Asked
<1>2. /\ Len(sent) = Count /\ Placed(i) /\ desc.params[i] \in ParamDesc
      /\ i \in 1..Len(desc.params) /\ (sent[Where(i)].cell # 0 <=> i \in ByRef)
  BY <1>1 DEF Delivered
<1>3. PICK a, p, v, x, k :
        /\ a = Reverse(rgvarg)[i] /\ p = desc.params[i] /\ v = ValueOf(i)
        /\ x = Content(mem, a) /\ k = ResultFor(i)
  OBVIOUS
<1>4. a = rgvarg[Where(i)]
  <2>1. rgvarg \in Seq(Arg) /\ Len(rgvarg) = Len(sent)
    BY Zenon DEF Unreleased
  <2>2. Len(rgvarg) \in Nat /\ DOMAIN rgvarg = 1..Len(rgvarg) /\ Len(named) = 0
    BY <1>1, <2>1
  <2>3. Where(i) = Len(sent) - i + 1
    BY <1>1, <1>2, <2>1, <2>2 DEF Where
  <2>4. a = rgvarg[Len(rgvarg) + 1 - i]
    BY <1>2, <1>3, <2>1, <2>2 DEF Reverse
  <2>5. Len(sent) - i + 1 = Len(rgvarg) + 1 - i
    BY <2>1, <2>2
  <2> QED BY <2>3, <2>4, <2>5
<1>5. "out" \in p.flags => p.byref
  BY <1>2, <1>3 DEF ParamDesc
<1>6. CASE Assigned(i)
  <2>1. a.cell # 0 /\ x = Converted(FromLua(outs[k]), ResultType(i))
    BY <1>2, <1>3, <1>4, <1>6 DEF Placed, Content
  <2>2. Converted(FromLua(outs[k]), ResultType(i)) = Converted(outs[k], ResultType(i))
    BY DEF Converted, FromLua
  <2>3. ResultType(i) = IF client = "untyped" /\ ~PureOut(p) THEN "VT_VARIANT" ELSE p.type
    BY <1>1, <1>3 DEF ResultType, TypeOf, ByRef
  <2>4. Final(i) = ToLua(Converted(outs[k], ResultType(i)))
    BY <1>3, <1>6, <2>3 DEF Final
  <2>5. IsOut(i) /\ GoesBack(i)
    BY <1>3, <1>6, <2>1 DEF IsOut, GoesBack
  <2> QED BY <1>3, <2>1, <2>2, <2>4, <2>5
<1>7. CASE ~Assigned(i)
  <2>1. /\ a.cell # 0 <=> i \in ByRef
        /\ x = IF i \in ByRef THEN Converted(v, TypeOf(i)) ELSE v
    BY <1>2, <1>3, <1>4, <1>7 DEF Placed
  <2>2. CASE client = "untyped"
    <3>1. v = FromLua(args[i]) /\ i \in ByRef /\ TypeOf(i) = "VT_VARIANT" /\ Count = Len(args)
      BY <1>3, <2>2 DEF ValueOf, ByRef, TypeOf, Count
    <3>2. args[i] \in ArgValue
      BY <1>1, <3>1
    <3>3. Final(i) = args[i]
      BY <1>7, <2>2 DEF Final
    <3>4. ToLua(x) = args[i]
      BY <2>1, <3>1, <3>2
         DEF ArgValue, Converted, FromLua, ToLua, Blank, Nil, Bad, Empty, Missing
    <3>5. IsOut(i) /\ GoesBack(i)
      BY <1>3, <2>1, <2>2, <3>1 DEF IsOut, GoesBack
    <3> QED BY <1>3, <3>3, <3>4, <3>5
  <2>3. CASE client = "typed"
    <3>1. /\ v = TypedValue(desc.params, args, i) /\ TypeOf(i) = p.type
          /\ i \in ByRef <=> (p.byref /\ v # Missing)
      BY <1>3, <1>5, <2>3 DEF ValueOf, ByRef, TypeOf, TypedByRef
    <3>2. Final(i) = ToLua(Converted(v, p.type))
      BY <1>3, <1>7, <2>3, <3>1 DEF Final
    <3>3. IsOut(i) <=> ("out" \in p.flags \/ i \in ByRef)
      BY <1>3, <2>1, <2>3 DEF IsOut
    <3>4. GoesBack(i) <=> (p.byref /\ ("out" \in p.flags \/ v # Missing))
      BY <1>3, <1>7, <2>3, <3>1 DEF GoesBack
    <3>5. IsOut(i) <=> GoesBack(i)
      BY <1>5, <3>1, <3>3, <3>4
    <3>6. IsOut(i) => ToLua(x) = Final(i)
      <4>1. CASE i \in ByRef
        BY <2>1, <3>1, <3>2, <4>1
      <4>2. CASE i \notin ByRef /\ v = Missing
        BY <2>1, <3>2, <4>2 DEF Converted, Missing, Empty, Nil
      <4>3. CASE i \notin ByRef /\ v # Missing
        BY <1>5, <3>1, <3>3, <4>3
      <4> QED BY <4>1, <4>2, <4>3
    <3> QED BY <1>3, <3>5, <3>6
  <2> QED BY <1>1, <2>2, <2>3
<1> QED BY <1>6, <1>7

\* What the properties expect does not change any more.
LEMMA FinalStays ==
  ASSUME UNCHANGED <<client, desc, args, rgvarg, outs>>
  PROVE  \A i : Final(i)' = Final(i) /\ (GoesBack(i)' <=> GoesBack(i))
<1>1. \A i : OutFor(i)' = OutFor(i)
  BY DEF OutFor, ByRefParams
<1>2. \A i : ResultFor(i)' = ResultFor(i) /\ (Assigned(i)' <=> Assigned(i))
  BY <1>1 DEF ResultFor, Assigned
<1>3. \A i : Final(i)' = Final(i)
  BY <1>2 DEF Final
<1>4. \A i : GoesBack(i)' <=> GoesBack(i)
  BY <1>2 DEF GoesBack
<1> QED BY <1>3, <1>4

\* A script gets the return value and the outputs.
LEMMA ScriptAnswers ==
  ASSUME Asked, Unreleased, LuaComReturns,
         hr = "S_OK" /\ attempt = "func" => Delivered
  PROVE  ResultsReturn'
<1> SUFFICES ASSUME hr = "S_OK", attempt = "func" PROVE ResultsReturn'
  BY DEF LuaComReturns, ResultsReturn
<1>1. /\ Delivered /\ client \in {"typed", "untyped"}
      /\ UNCHANGED <<client, desc, args, rgvarg, outs>>
  BY DEF LuaComReturns
<1>2. "func" \in flags /\ outs \in Seq(ResultValue) /\ asks = TRUE
  BY <1>1 DEF Delivered, Asked
<1>3. result = IF ~desc.void /\ outs # <<>> THEN FromLua(outs[1]) ELSE Empty
  BY <1>1, <1>2 DEF Delivered, RetvalTaken
<1>4. PICK first, rest :
        /\ first = IF PushesResult THEN <<ToLua(result)>> ELSE <<>>
        /\ rest = PushOutValues
  OBVIOUS
<1>5. answer' = first \o rest
  BY <1>2, <1>4 DEF LuaComReturns
<1>6. first = CASE desc.void /\ client = "typed" -> <<>>
               [] desc.void /\ client = "untyped" -> <<Nil>>
               [] OTHER -> <<IF outs = <<>> THEN Nil ELSE outs[1]>>
  <2>1. outs # <<>> => outs[1] \in ResultValue
    BY <1>2
  <2>2. outs # <<>> => ToLua(FromLua(outs[1])) = outs[1]
    BY <2>1 DEF ResultValue, FromLua, ToLua, Nil, Bad, Empty, Missing
  <2>3. ToLua(Empty) = Nil
    BY DEF ToLua
  <2>4. ToLua(result) = IF ~desc.void /\ outs # <<>> THEN outs[1] ELSE Nil
    BY <1>3, <2>2, <2>3
  <2> QED BY <1>1, <1>4, <2>4 DEF PushesResult
<1>7. rest = Concat([i \in DOMAIN rgvarg |-> IF GoesBack(i) THEN <<Final(i)>> ELSE <<>>],
                    Len(rgvarg))
  <2>1. \A i \in DOMAIN rgvarg : i \in 1..Count
    <3>1. rgvarg \in Seq(Arg) /\ Len(rgvarg) = Count
      BY <1>1, Zenon DEF Unreleased, Delivered
    <3>2. \A s \in Seq(Arg) : DOMAIN s = 1..Len(s)
      OBVIOUS
    <3> QED BY <3>1, <3>2, Zenon
  <2>2. \A i \in DOMAIN rgvarg :
          (IF IsOut(i) THEN <<ToLua(Content(mem, Reverse(rgvarg)[i]))>> ELSE <<>>)
          = (IF GoesBack(i) THEN <<Final(i)>> ELSE <<>>)
    BY <1>1, <2>1, BackIs
  <2>3. [i \in DOMAIN rgvarg |->
           IF IsOut(i) THEN <<ToLua(Content(mem, Reverse(rgvarg)[i]))>> ELSE <<>>]
        = [i \in DOMAIN rgvarg |-> IF GoesBack(i) THEN <<Final(i)>> ELSE <<>>]
    BY <2>2, Zenon
  <2> QED BY <1>4, <2>3 DEF PushOutValues
<1>8. [i \in DOMAIN rgvarg |-> IF GoesBack(i) THEN <<Final(i)>> ELSE <<>>]'
      = [i \in DOMAIN rgvarg |-> IF GoesBack(i) THEN <<Final(i)>> ELSE <<>>]
  BY <1>1, FinalStays
<1>9. client' # "foreign" /\ client' = client /\ desc' = desc /\ outs' = outs /\ rgvarg' = rgvarg
  BY <1>1
<1> QED BY <1>5, <1>6, <1>7, <1>8, <1>9 DEF ResultsReturn

\* Another program finds the results in its variables.
LEMMA ForeignAnswers ==
  ASSUME Asked, Unreleased, ForeignReturns,
         hr = "S_OK" /\ attempt = "func" => Delivered
  PROVE  ResultsReturn'
<1> SUFFICES ASSUME hr = "S_OK", attempt = "func", asks \/ desc.void PROVE ResultsReturn'
  BY DEF ForeignReturns, ResultsReturn
<1>1. /\ Delivered /\ client = "foreign" /\ args \in Seq(ArgValue)
      /\ answer' = [k \in DOMAIN sent |-> Content(mem, sent[k])]
      /\ \A j \in 1..Count : Where(j) \in 1..Count
      /\ UNCHANGED <<client, desc, args, rgvarg, outs, sent, named, asks>>
  BY DEF ForeignReturns, Asked, Delivered
<1>2. Len(rgvarg) = Len(sent) /\ DOMAIN sent = 1..Count /\ Count = Len(args)
  <2>1. Len(rgvarg) = Len(sent) /\ Len(sent) = Count
    BY <1>1, Zenon DEF Unreleased, Delivered
  <2>2. Count = Len(args)
    BY <1>1 DEF Count
  <2>3. DOMAIN sent = 1..Len(sent)
    BY <1>1 DEF Delivered
  <2> QED BY <2>1, <2>2, <2>3
<1>3. \A i : IndexOf(i) = Where(i) /\ IndexOf(i)' = Where(i)
  BY <1>1, <1>2 DEF IndexOf, Where
<1>4. ASSUME NEW i \in 1..Count, desc.params[i].byref, ~PureOut(desc.params[i]),
             sent[Where(i)].cell # 0
      PROVE  ToLua(answer'[Where(i)]) = Final(i)
  <2>1. PICK a, p, x, k : /\ a = sent[Where(i)] /\ p = desc.params[i]
                          /\ x = Content(mem, a) /\ k = ResultFor(i)
    OBVIOUS
  <2>2. answer'[Where(i)] = x
    BY <1>1, <1>2, <2>1
  <2>3. Placed(i) /\ i \in ByRef
    BY <1>1, <1>4 DEF Delivered
  <2>4. CASE Assigned(i)
    <3>1. ResultType(i) = p.type
      BY <1>1, <2>1, <2>3 DEF ResultType, TypeOf
    <3>2. x = Converted(FromLua(outs[k]), p.type)
      BY <1>4, <2>1, <2>3, <2>4, <3>1 DEF Placed, Content
    <3>3. Converted(FromLua(outs[k]), p.type) = Converted(outs[k], p.type)
      BY DEF Converted, FromLua
    <3>4. Final(i) = ToLua(Converted(outs[k], p.type))
      BY <1>1, <2>1, <2>4 DEF Final
    <3> QED BY <2>2, <3>2, <3>3, <3>4
  <2>5. CASE ~Assigned(i)
    <3>1. ValueOf(i) = args[i] /\ args[i] # Nil
      BY <1>1, <2>3 DEF ValueOf, ByRef
    <3>2. args[i] \in ArgValue
      BY <1>1, <1>2
    <3>3. x = Converted(args[i], TypeOf(i))
      BY <2>1, <2>3, <2>5, <3>1 DEF Placed
    <3>4. ToLua(x) = args[i]
      BY <3>1, <3>2, <3>3 DEF ArgValue, Converted, ToLua, Nil, Bad, Empty, Missing
    <3>5. Final(i) = args[i]
      BY <1>1, <2>5 DEF Final
    <3> QED BY <2>2, <3>4, <3>5
  <2> QED BY <2>4, <2>5
<1>5. \A i : Final(i)' = Final(i)
  BY <1>1, FinalStays
<1>6. DOMAIN answer' = 1..Count
  BY <1>1, <1>2
<1> QED BY <1>1, <1>3, <1>4, <1>5, <1>6 DEF ResultsReturn

LEMMA LuaComReturnsKeeps ==
  ASSUME Whole, LuaComReturns
  PROVE  Whole'
<1>1. /\ pc = "answered" /\ pc' = "done" /\ client # "foreign"
      /\ mem' = ReleaseVariants(mem, rgvarg)
      /\ UNCHANGED <<client, desc, flags, args, rgvarg, named, asks, sent>>
  BY DEF LuaComReturns
<1>2. Asked /\ (Thrown \/ Unreleased)
  BY <1>1 DEF Whole
<1>3. Asked'
  BY <1>1, <1>2 DEF Asked
<1>4. PICK m, r, rg : m = mem /\ r = ReleaseVariants(mem, rgvarg) /\ rg = rgvarg
  OBVIOUS
<1>5. r = [c \in DOMAIN m |-> [m[c] EXCEPT !.freed =
                                 m[c].freed + Cardinality({i \in DOMAIN rg : rg[i].cell = c})]]
  BY <1>4 DEF ReleaseVariants
<1>6. DOMAIN r = DOMAIN m
  BY <1>5
<1>7. CASE Thrown
  <2>1. rg = <<>> /\ m \in Seq(Block) /\ \A c \in 1..Len(m) : m[c].freed = 1
    BY <1>4, <1>7, Zenon DEF Thrown
  <2>2. DOMAIN m = 1..Len(m) /\ \A c \in 1..Len(m) : m[c] \in Block
    BY <2>1
  <2>3. ASSUME NEW c \in DOMAIN m PROVE r[c].freed = 1
    <3>1. {i \in DOMAIN rg : rg[i].cell = c} = {}
      BY <2>1
    <3>2. Cardinality({i \in DOMAIN rg : rg[i].cell = c}) = 0
      BY <3>1, FS_EmptySet
    <3>3. m[c] \in Block /\ m[c].freed = 1
      BY <2>1, <2>2
    <3>4. r[c] = [m[c] EXCEPT !.freed = m[c].freed + 0]
      BY <1>5, <3>2
    <3> QED BY <3>3, <3>4 DEF Block
  <2>4. DOMAIN rgvarg' = {}
    BY <1>1, <1>4, <2>1
  <2>5. BlocksFreed'
    BY <1>1, <1>4, <1>6, <2>3, <2>4 DEF BlocksFreed
  <2>6. ResultsReturn'
    BY <1>7 DEF Thrown, LuaComReturns, ResultsReturn
  <2> QED BY <1>1, <1>3, <2>5, <2>6 DEF Whole
<1>8. CASE Unreleased
  <2>1. /\ rg \in Seq(Arg) /\ Len(rg) = Len(sent) /\ m \in Seq(Block)
        /\ \A c \in 1..Len(m) : m[c].freed = 0
        /\ \A c \in 1..Len(m) : IF ReplacedIn(rg, c) THEN \A k \in 1..Len(rg) : rg[k].cell # c
                                ELSE \E k \in 1..Len(rg) : HoldsIn(rg, c, k)
    BY <1>1, <1>4, <1>8, ZenonT(30) DEF Unreleased, Replaced, ReplacedIn, Holds, HoldsIn
  <2>2. /\ DOMAIN m = 1..Len(m) /\ DOMAIN rg = 1..Len(rg)
    BY <2>1
  <2>3. /\ \A c \in 1..Len(m) : \A k \in 1..Len(rg) :
             rg[k].cell = c /\ (\A l \in 1..Len(rg) : rg[l].cell = c => l = k) => r[c].freed = 1
        /\ \A c \in 1..Len(m) : (\A l \in 1..Len(rg) : rg[l].cell # c) => r[c].freed = 0
    <3>1. r = ReleaseVariants(m, rg)
      BY <1>4
    <3> QED BY <2>1, <3>1, ReleasedIs
  <2>4. \A c \in 1..Len(m) : r[c].freed = IF ReplacedIn(rg, c) THEN 0 ELSE 1
    BY <2>1, <2>3 DEF HoldsIn
  <2>5. \A i : IndexOf(i)' = Where(i)
    BY <1>1, <1>4, <2>1 DEF IndexOf, Where
  <2>a. \A i \in 1..Len(rg) : Where(i) # 0
    <3>1. named = <<>> /\ Len(rg) \in Nat
      BY <1>1, <1>2, <2>1 DEF Asked
    <3>2. \A i \in 1..Len(rg) : Where(i) = Len(rg) - i + 1
      BY <2>1, <3>1 DEF Where
    <3> QED BY <3>1, <3>2
  <2>6. BlocksFreed'
    BY <1>1, <1>4, <1>6, <2>2, <2>4, <2>5, <2>a DEF BlocksFreed, ReplacedIn
  <2>7. ResultsReturn'
    <3>1. hr = "S_OK" /\ attempt = "func" => Delivered
      BY <1>1 DEF Whole
    <3> QED BY <1>2, <1>8, <3>1, ScriptAnswers
  <2> QED BY <1>1, <1>3, <2>6, <2>7 DEF Whole
<1> QED BY <1>2, <1>7, <1>8

LEMMA ForeignReturnsKeeps ==
  ASSUME Whole, ForeignReturns
  PROVE  Whole'
<1>1. /\ pc = "answered" /\ pc' = "done" /\ client = "foreign"
      /\ UNCHANGED <<client, desc, flags, args, rgvarg, named, asks, sent, mem>>
  BY DEF ForeignReturns
<1>2. Asked /\ Unreleased
  BY <1>1 DEF Whole, Thrown
<1>3. Asked'
  BY <1>1, <1>2 DEF Asked
<1>4. mem \in Seq(Block) /\ \A c \in 1..Len(mem) : mem[c].freed = 0
  BY <1>2, Zenon DEF Unreleased
<1>5. \A c \in DOMAIN mem : mem[c].freed = 0
  BY <1>4
<1>6. BlocksFreed'
  BY <1>1, <1>5 DEF BlocksFreed
<1>7. ResultsReturn'
  <2>1. hr = "S_OK" /\ attempt = "func" => Delivered
    BY <1>1 DEF Whole
  <2> QED BY <1>2, <2>1, ForeignAnswers
<1> QED BY <1>1, <1>3, <1>6, <1>7 DEF Whole

LEMMA NextCallKeeps ==
  ASSUME Whole, NextCall
  PROVE  Whole'
BY DEF Whole, NextCall

-----------------------------------------------------------------------------
(* A call with an argument by name behind one that is left out.            *)

LEMMA GapsFreed == WithGap => BlocksFreed
<1> SUFFICES ASSUME WithGap PROVE BlocksFreed
  OBVIOUS
<1>1. client = "foreign" /\ mem \in Seq(Block) /\ \A c \in 1..Len(mem) : mem[c].freed = 0
  BY DEF WithGap, Untold
<1>2. \A c \in DOMAIN mem : mem[c].freed = 0
  BY <1>1
<1> QED BY <1>1, <1>2 DEF BlocksFreed

\* The last argument goes by name, and its position is beyond their number.
LEMMA GapBegins ==
  ASSUME pc = "idle", NEW f \in FuncDescs, NEW s \in Lists(Given, Len(f.params)),
         NEW b \in 0..Len(s), NEW falling \in BOOLEAN, NEW wants \in BOOLEAN,
         b > 0 => f.invkind = "func", NEW gap \in 0..b, gap # 0,
         CallForeign(f, s, b, falling, gap, wants)
  PROVE  WithGap'
<1>1. /\ Len(f.params) \in 0..3 /\ \A i \in 1..Len(f.params) : f.params[i] \in ParamDesc
  BY DescIs
<1>2. s \in Seq(ArgValue) /\ Len(s) <= Len(f.params) /\ Len(s) \in Nat
      /\ \A i \in 1..Len(s) : s[i] \in ArgValue
  <2>1. s \in Seq(ArgValue) /\ Len(s) <= Len(f.params) /\ \A i \in 1..Len(s) : s[i] \in ArgValue
    BY <1>1, ArgsAre
  <2>2. \A q \in Seq(ArgValue) : Len(q) \in Nat
    OBVIOUS
  <2> QED BY <2>1, <2>2, Zenon
<1>3. PICK n \in Nat : n = Len(s) /\ b \in 1..n /\ gap \in 1..b
  BY <1>2
<1>4. PICK values, types, B, position :
        /\ values = [i \in 1..n |-> IF s[i] = Nil THEN Missing ELSE s[i]]
        /\ types = [i \in 1..n |-> f.params[i].type]
        /\ B = {i \in 1..n : f.params[i].byref /\ s[i] # Nil}
        /\ position = [k \in 1..n |-> IF k <= b /\ ~falling THEN n - b + k ELSE n + 1 - k]
  OBVIOUS
<1>5. PICK ar, m : ar = Laid(values, types, B)[1] /\ m = Laid(values, types, B)[2]
  OBVIOUS
<1>6. PICK there : there = [k \in 1..(n - 1) |-> position[IF k < gap THEN k ELSE k + 1]]
  OBVIOUS
<1>7. /\ client' = "foreign" /\ desc' = f /\ flags' = {f.invkind}
      /\ position[gap] # n
      /\ named' = [k \in 1..(b - 1) |-> position[IF k < gap THEN k ELSE k + 1]]
      /\ sent' = [k \in 1..(n - 1) |-> ar[position[IF k < gap THEN k ELSE k + 1]]]
      /\ rgvarg' = sent' /\ mem' = m /\ pc' = "sent"
  BY <1>3, <1>4, <1>5 DEF CallForeign, Start
<1>8. /\ values \in Seq(AnyValue) /\ Len(values) = n /\ B \in SUBSET (1..Len(values))
      /\ \A i \in 1..Len(values) : types[i] \in Type
  <2>1. \A i \in 1..n : (IF s[i] = Nil THEN Missing ELSE s[i]) \in AnyValue
    BY <1>2, <1>3 DEF ArgValue, AnyValue
  <2>2. values \in Seq(AnyValue) /\ Len(values) = n
    BY <1>4, <2>1
  <2>3. \A i \in 1..n : f.params[i].type \in Type
    BY <1>1, <1>2, <1>3 DEF ParamDesc, Type
  <2> QED BY <1>4, <2>2, <2>3
<1>9. IsLaid(ar, m, values, types, B)
  BY <1>5, <1>8, LaidIs
<1>10. /\ ar \in Seq(Arg) /\ Len(ar) = n
       /\ m \in Seq(Block) /\ \A c \in 1..Len(m) : m[c].freed = 0
  BY <1>8, <1>9, Zenon DEF IsLaid
<1>11. sent' \in Seq(Arg) /\ Len(sent') = n - 1
  <2>1. \A k \in 1..(n - 1) : there[k] \in 1..n
    BY <1>3, <1>4, <1>6
  <2>2. \A i \in 1..n : ar[i] \in Arg
    BY <1>10
  <2>3. sent' = [k \in 1..(n - 1) |-> ar[there[k]]]
    BY <1>6, <1>7
  <2>4. \A k \in 1..(n - 1) : ar[there[k]] \in Arg
    BY <2>1, <2>2
  <2>5. n - 1 \in Nat
    BY <1>3
  <2> QED BY <2>3, <2>4, <2>5
<1>12. \E k \in DOMAIN named' : named'[k] > n - 1
  <2>1. CASE falling
    <3>0. position = [k \in 1..n |-> n + 1 - k]
      BY <1>4, <2>1
    <3>1. position[1] = n /\ gap # 1
      <4>1. 1 \in 1..n /\ n + 1 - 1 = n
        BY <1>3
      <4>2. position[1] = n
        BY <3>0, <4>1
      <4> QED BY <1>7, <4>2
    <3>2. 1 \in 1..(b - 1) /\ 1 < gap
      BY <1>3, <3>1
    <3>3. named'[1] = n /\ 1 \in DOMAIN named'
      BY <1>7, <3>1, <3>2
    <3> QED BY <3>3
  <2>2. CASE ~falling
    <3>1. position[b] = n /\ gap # b
      BY <1>3, <1>4, <1>7, <2>2
    <3>2. b - 1 \in 1..(b - 1) /\ ~(b - 1 < gap) /\ b - 1 + 1 = b
      BY <1>3, <3>1
    <3>3. named'[b - 1] = n /\ b - 1 \in DOMAIN named'
      BY <1>7, <3>1, <3>2
    <3> QED BY <3>3
  <2> QED BY <2>1, <2>2
<1>13. Gapped'
  BY <1>7, <1>11, <1>12 DEF Gapped
<1>14. Len(sent') <= Len(f.params)
  BY <1>1, <1>2, <1>3, <1>11
<1>15. flags' = {"func"}
  BY <1>3, <1>7
<1> QED BY <1>7, <1>10, <1>11, <1>13, <1>14, <1>15 DEF WithGap, Untold

\* setOutValues may write the client's blocks and adds some, but frees none.
LEMMA GapPasses ==
  ASSUME NEW st, NEW left, left = st.left, Untold(st.rg, st.mem), left \in Seq(ResultValue),
         NEW i, desc.params[i] \in ParamDesc, NEW next, next = SetOutValue(st, i)
  PROVE  Untold(next.rg, next.mem) /\ next.left \in Seq(ResultValue)
<1>1. PICK k, p, fresh, type, cell, v, holds :
        /\ k = IndexOf(i) /\ p = desc.params[i]
        /\ fresh = (PureOut(p) \/ st.rg[k].cell = 0)
        /\ type = IF fresh THEN p.type ELSE Hint(st.mem, st.rg[k])
        /\ cell = IF fresh THEN Len(st.mem) + 1 ELSE st.rg[k].cell
        /\ v = FromLua(Head(left))
        /\ holds = [val |-> IF Convertible(v, type) THEN Converted(v, type) ELSE Blank(type),
                    freed |-> 0]
  OBVIOUS
<1>2. PICK nrg, nmem, rest :
        /\ nrg = IF fresh THEN [st.rg EXCEPT ![k] = [cell |-> cell, type |-> type,
                                                     val |-> "byref"]] ELSE st.rg
        /\ nmem = IF fresh THEN Append(st.mem, holds)
                  ELSE IF Convertible(v, type) THEN [st.mem EXCEPT ![cell] = holds]
                  ELSE st.mem
        /\ rest = Tail(left)
  OBVIOUS
<1>3. CASE next = st
  BY <1>3
<1>4. CASE next # st
  <2>1. /\ left # <<>>
        /\ \/ k = 0 /\ next = [st EXCEPT !.left = rest]
           \/ next = [rg |-> nrg, mem |-> nmem, left |-> rest, failed |-> ~Convertible(v, type)]
    <3>1. CASE left = <<>> \/ st.failed \/ ~p.byref
      BY <1>1, <1>4, <3>1 DEF SetOutValue
    <3>2. CASE ~(left = <<>> \/ st.failed \/ ~p.byref) /\ k = 0
      BY <1>1, <1>2, <3>2, Zenon DEF SetOutValue
    <3>3. CASE ~(left = <<>> \/ st.failed \/ ~p.byref) /\ k # 0
      BY <1>1, <1>2, <3>3, Zenon DEF SetOutValue
    <3> QED BY <3>1, <3>2, <3>3
  <2>2. rest \in Seq(ResultValue)
    BY <1>2, <2>1
  <2>3. CASE k = 0 /\ next = [st EXCEPT !.left = rest]
    <3>1. next.left = rest \/ next.left = left
      BY <2>3
    <3>2. next.rg = st.rg /\ next.mem = st.mem
      BY <2>3
    <3> QED BY <2>2, <3>1, <3>2
  <2>4. CASE next = [rg |-> nrg, mem |-> nmem, left |-> rest, failed |-> ~Convertible(v, type)]
    <3>1. next.rg = nrg /\ next.mem = nmem /\ next.left = rest
      BY <2>4
    <3>2. holds \in Block /\ holds.freed = 0
      <4>1. PICK h : h = Head(left)
        OBVIOUS
      <4>2. h \in ResultValue
        BY <2>1, <4>1
      <4>3. h \in AnyValue
        BY <4>2 DEF ResultValue, AnyValue
      <4>4. v \in AnyValue
        BY <1>1, <4>1, <4>3, ConvertedIs, Zenon
      <4>5. Converted(v, type) \in AnyValue /\ Blank(type) \in AnyValue
        BY <4>4, ConvertedIs, Zenon
      <4> QED BY <1>1, <4>5 DEF Block
    <3>3. /\ st.rg \in Seq(Arg) /\ Len(st.rg) = Len(sent)
          /\ st.mem \in Seq(Block) /\ \A c \in 1..Len(st.mem) : st.mem[c].freed = 0
      BY DEF Untold
    <3>4. nrg \in Seq(Arg) /\ Len(nrg) = Len(sent)
      <4>1. CASE fresh
        <5>1. PICK new : new = [cell |-> cell, type |-> type, val |-> "byref"]
          OBVIOUS
        <5>2. Len(st.mem) + 1 \in Nat
          BY <3>3
        <5>3. cell \in Nat /\ type \in Type
          BY <1>1, <4>1, <5>2 DEF ParamDesc, Type
        <5>4. new \in Arg
          BY <5>1, <5>3 DEF Arg, AnyValue
        <5>5. nrg = [st.rg EXCEPT ![k] = new]
          BY <1>2, <4>1, <5>1
        <5>6. PICK q \in Seq(Arg) : q = st.rg
          BY <3>3
        <5>7. Len(q) \in Nat /\ DOMAIN q = 1..Len(q) /\ \A j \in 1..Len(q) : q[j] \in Arg
          OBVIOUS
        <5>8. nrg = [j \in 1..Len(q) |-> IF j = k THEN new ELSE q[j]]
          BY <5>5, <5>6, <5>7
        <5>9. nrg \in [1..Len(q) -> Arg]
          BY <5>4, <5>7, <5>8
        <5>10. \A n \in Nat : \A g \in [1..n -> Arg] : g \in Seq(Arg) /\ Len(g) = n
          OBVIOUS
        <5> QED BY <3>3, <5>6, <5>7, <5>9, <5>10, Zenon
      <4>2. CASE ~fresh
        BY <1>2, <3>3, <4>2
      <4> QED BY <4>1, <4>2
    <3>5. nmem \in Seq(Block) /\ \A c \in 1..Len(nmem) : nmem[c].freed = 0
      <4>1. CASE fresh
        <5>1. nmem = Append(st.mem, holds)
          BY <1>2, <4>1
        <5> QED BY <3>2, <3>3, <5>1
      <4>2. CASE ~fresh /\ Convertible(v, type)
        <5>1. PICK m \in Seq(Block) : m = st.mem /\ \A c \in 1..Len(m) : m[c].freed = 0
          BY <3>3
        <5>2. nmem = [m EXCEPT ![cell] = holds]
          BY <1>2, <4>2, <5>1
        <5>3. Len(m) \in Nat /\ DOMAIN m = 1..Len(m) /\ \A c \in 1..Len(m) : m[c] \in Block
          OBVIOUS
        <5>4. nmem = [c \in 1..Len(m) |-> IF c = cell THEN holds ELSE m[c]]
          BY <5>2, <5>3
        <5>5. nmem \in [1..Len(m) -> Block] /\ \A c \in 1..Len(m) : nmem[c].freed = 0
          BY <3>2, <5>1, <5>3, <5>4
        <5>6. \A n \in Nat : \A g \in [1..n -> Block] : g \in Seq(Block) /\ Len(g) = n
          OBVIOUS
        <5> QED BY <5>3, <5>5, <5>6, Zenon
      <4>3. CASE ~fresh /\ ~Convertible(v, type)
        BY <1>2, <3>3, <4>3
      <4> QED BY <4>1, <4>2, <4>3
    <3> QED BY <2>2, <3>1, <3>4, <3>5 DEF Untold
  <2> QED BY <2>1, <2>3, <2>4
<1> QED BY <1>3, <1>4

LEMMA GapReturns ==
  ASSUME WithGap, pc = "running", NEW rs \in Lists(Returned, MaxResults), Returns(rs)
  PROVE  WithGap'
<1>1. /\ pc' = "answered" /\ attempt = "func" /\ SetOutValues(ForOutputs(rs))
      /\ UNCHANGED <<client, desc, flags, named, sent>>
  BY DEF WithGap, Returns, SetOutValues, Answer
<1>2. PICK outputs, f : outputs = ForOutputs(rs) /\ f = OutValues(outputs)
  OBVIOUS
<1>3. outputs \in Seq(ResultValue)
  <2>1. rs \in Seq(ResultValue)
    BY ResultsAre
  <2>2. outputs = rs \/ (rs # <<>> /\ outputs = Tail(rs))
    BY <1>2 DEF ForOutputs
  <2> QED BY <2>1, <2>2
<1>4. /\ rgvarg \in Seq(Arg) /\ Len(rgvarg) = Len(sent) /\ Untold(rgvarg, mem)
      /\ Len(sent) <= Len(desc.params) /\ Len(desc.params) \in Nat
      /\ \A i \in 1..Len(desc.params) : desc.params[i] \in ParamDesc
  BY DescIs DEF WithGap, Untold
<1>5. PICK n \in Nat : n = Len(rgvarg)
  BY <1>4
<1>6. \A i \in 1..n : desc.params[i] \in ParamDesc
  BY <1>4, <1>5
<1>7. f[0] = Begun(outputs) /\ \A i \in 1..n : f[i] = SetOutValue(f[i-1], i)
  BY <1>2, <1>5, OutValuesIs
<1> DEFINE P(i) == Untold(f[i].rg, f[i].mem) /\ f[i].left \in Seq(ResultValue)
           S == {i \in 0..n : ~P(i)}
<1>8. P(0)
  BY <1>3, <1>4, <1>7 DEF Begun
<1>9. ASSUME NEW i \in 1..n, P(i - 1) PROVE P(i)
  <2>1. PICK st, next : st = f[i-1] /\ next = f[i]
    OBVIOUS
  <2>2. /\ Untold(st.rg, st.mem) /\ st.left \in Seq(ResultValue)
        /\ next = SetOutValue(st, i) /\ desc.params[i] \in ParamDesc
    BY <1>6, <1>7, <1>9, <2>1
  <2>3. Untold(next.rg, next.mem) /\ next.left \in Seq(ResultValue)
    BY <2>2, GapPasses
  <2> QED BY <2>1, <2>3
<1> HIDE DEF P
<1>10. S = {}
  <2> SUFFICES ASSUME S # {} PROVE FALSE
    OBVIOUS
  <2>1. S \in SUBSET Nat
    OBVIOUS
  <2>2. PICK m : m = Least(S)
    OBVIOUS
  <2>3. m \in S /\ \A j \in S : m <= j
    <3> HIDE DEF S
    <3> QED BY <2>1, <2>2, LeastOf
  <2>4. m \in 1..n
    BY <1>8, <2>3
  <2>5. m - 1 \in 0..n /\ ~(m <= m - 1)
    BY <2>4
  <2>6. P(m - 1)
    BY <2>3, <2>5
  <2>7. P(m)
    BY <1>9, <2>4, <2>6
  <2> QED BY <2>3, <2>7
<1>11. P(n)
  <2>1. n \in 0..n
    OBVIOUS
  <2> QED BY <1>10, <2>1
<1>12. rgvarg' = f[n].rg /\ mem' = f[n].mem
  BY <1>1, <1>2, <1>5 DEF SetOutValues
<1>13. Untold(rgvarg, mem)'
  BY <1>1, <1>11, <1>12 DEF P, Untold
<1>14. Gapped'
  <2>1. Len(rgvarg') = Len(rgvarg)
    BY <1>1, <1>4, <1>13 DEF Untold
  <2> QED BY <1>1, <2>1 DEF WithGap, Gapped
<1> QED BY <1>1, <1>13, <1>14 DEF WithGap

\* The client's blocks stay as they are when the call does not get as far.
LEMMA GapStays ==
  ASSUME WithGap, UNCHANGED <<client, desc, flags, rgvarg, named, mem, sent>>,
         pc' \in {"sent", "running", "answered", "done"}, pc' = "running" => attempt' = "func"
  PROVE  WithGap'
BY DEF WithGap, Gapped, Untold

LEMMA GapKeeps ==
  ASSUME WithGap, [Next]_vars
  PROVE  CallsInv'
<1>1. pc # "idle" /\ client = "foreign" /\ flags = {"func"}
  BY DEF WithGap
<1>2. ASSUME NEW member \in {"function", "container", "value", "nothing"}, Invoke(member)
      PROVE  WithGap'
  <2>1. Method(member)
    BY <1>1, <1>2 DEF Invoke
  <2>2. pc' \in {"running", "answered"} /\ (pc' = "running" => attempt' = "func")
    <3>1. \A h : MethodFails(h, member) => pc' = "answered"
      BY <1>1 DEF MethodFails, Answer
    <3>2. CASE member # "function"
      BY <2>1, <3>1, <3>2 DEF Method
    <3>3. CASE member = "function"
      BY <2>1, <3>3 DEF Method, Answer
    <3> QED BY <3>2, <3>3
  <2>3. UNCHANGED <<client, desc, flags, rgvarg, named, mem, sent>>
    BY <1>2 DEF Invoke
  <2> QED BY <2>2, <2>3, GapStays
<1>3. ASSUME Raises PROVE WithGap'
  <2>1. pc' = "answered" /\ UNCHANGED <<client, desc, flags, rgvarg, named, mem, sent>>
    BY <1>1, <1>3 DEF Raises, MethodFails, Answer
  <2> QED BY <2>1, GapStays
<1>4. ASSUME pc = "running", NEW rs \in Lists(Returned, MaxResults), Returns(rs)
      PROVE  WithGap'
  BY <1>4, GapReturns
<1>5. ASSUME ForeignReturns PROVE WithGap'
  <2>1. pc' = "done" /\ UNCHANGED <<client, desc, flags, rgvarg, named, mem, sent>>
    BY <1>5 DEF ForeignReturns
  <2> QED BY <2>1, GapStays
<1>6. ASSUME NextCall PROVE Whole'
  BY <1>6 DEF NextCall, Whole
<1>7. ASSUME UNCHANGED vars PROVE WithGap'
  BY <1>7, GapStays DEF vars, WithGap
<1>8. ~Call /\ ~LuaComReturns
  BY <1>1 DEF Call, LuaComReturns
<1> QED BY <1>2, <1>3, <1>4, <1>5, <1>6, <1>7, <1>8 DEF Next, CallsInv

LEMMA CallKeeps ==
  ASSUME Whole, Call
  PROVE  CallsInv'
<1>1. pc = "idle"
  BY DEF Call
<1>0. PICK f \in FuncDescs : \E s \in Lists(Given, Len(f.params)) :
        \/ CallTyped(f, s) \/ CallUntyped(f, s)
        \/ \E b \in 0..Len(s), falling, wants \in BOOLEAN : \E gap \in 0..b :
             /\ b > 0 => f.invkind = "func"
             /\ b < 2 => falling
             /\ CallForeign(f, s, b, falling, gap, wants)
  BY DEF Call
<1>2. PICK s \in Lists(Given, Len(f.params)) :
        \/ CallTyped(f, s) \/ CallUntyped(f, s)
        \/ \E b \in 0..Len(s), falling, wants \in BOOLEAN : \E gap \in 0..b :
             /\ b > 0 => f.invkind = "func"
             /\ b < 2 => falling
             /\ CallForeign(f, s, b, falling, gap, wants)
  BY <1>0
<1>3. CASE CallTyped(f, s)
  BY <1>1, <1>3, CallTypedKeeps DEF CallsInv
<1>4. CASE CallUntyped(f, s)
  BY <1>1, <1>4, CallUntypedKeeps DEF CallsInv
<1>5. CASE \E b \in 0..Len(s), falling, wants \in BOOLEAN : \E gap \in 0..b :
             /\ b > 0 => f.invkind = "func"
             /\ b < 2 => falling
             /\ CallForeign(f, s, b, falling, gap, wants)
  <2>0. PICK b \in 0..Len(s), falling, wants \in BOOLEAN : \E gap \in 0..b :
          /\ b > 0 => f.invkind = "func"
          /\ CallForeign(f, s, b, falling, gap, wants)
    BY <1>5
  <2>1. PICK gap \in 0..b : /\ b > 0 => f.invkind = "func"
                            /\ CallForeign(f, s, b, falling, gap, wants)
    BY <2>0
  <2>2. CASE gap = 0
    BY <1>1, <2>1, <2>2, CallForeignKeeps DEF CallsInv
  <2>3. CASE gap # 0
    BY <1>1, <2>1, <2>3, GapBegins DEF CallsInv
  <2> QED BY <2>2, <2>3
<1> QED BY <1>2, <1>3, <1>4, <1>5 DEF CallsInv

\* A step that changes nothing.
LEMMA StutterKeeps ==
  ASSUME Whole, UNCHANGED vars
  PROVE  Whole'
<1>1. \A i : Where(i)' = Where(i)
  BY DEF Where, vars
<1>2. Asked' <=> Asked
  BY DEF Asked, vars
<1>3. Untouched => Untouched'
  BY StaysUntouched DEF vars
<1>4. Received => Received'
  BY PushedStays DEF Received, vars
<1>5. Unreleased => Unreleased'
  BY StaysUnreleased DEF vars
<1>6. Thrown' <=> Thrown
  BY DEF Thrown, vars
<1>7. BlocksFreed' <=> BlocksFreed
  BY DEF BlocksFreed, IndexOf, vars
<1>8. Delivered => Delivered'
  <2>1. /\ Count' = Count
        /\ \A i : ValueOf(i)' = ValueOf(i) /\ TypeOf(i)' = TypeOf(i) /\ OutFor(i)' = OutFor(i)
    BY DEF Count, ValueOf, TypeOf, OutFor, ByRefParams, vars
  <2>2. /\ ByRef' = ByRef
        /\ \A i : ResultFor(i)' = ResultFor(i) /\ (Assigned(i)' <=> Assigned(i))
    BY <2>1 DEF ByRef, ResultFor, Assigned, vars
  <2>3. \A i : ResultType(i)' = ResultType(i)
    BY <2>1, <2>2 DEF ResultType, vars
  <2>4. \A i : Placed(i)' <=> Placed(i)
    BY <1>1, <2>1, <2>2, <2>3 DEF Placed, Content, vars
  <2> QED BY <1>1, <2>1, <2>2, <2>4 DEF Delivered, RetvalTaken, vars
<1>9. ResultsReturn' <=> ResultsReturn
  <2>1. \A i : Final(i)' = Final(i) /\ (GoesBack(i)' <=> GoesBack(i))
    BY FinalStays DEF vars
  <2>2. \A i : IndexOf(i)' = IndexOf(i)
    BY DEF IndexOf, vars
  <2>3. [i \in DOMAIN rgvarg |-> IF GoesBack(i) THEN <<Final(i)>> ELSE <<>>]'
        = [i \in DOMAIN rgvarg |-> IF GoesBack(i) THEN <<Final(i)>> ELSE <<>>]
    BY <2>1 DEF vars
  <2> QED BY <2>1, <2>2, <2>3 DEF ResultsReturn, Gapped, vars
<1> QED BY <1>2, <1>3, <1>4, <1>5, <1>6, <1>7, <1>8, <1>9 DEF Whole, vars

\* A step of a call that sends every argument, or begins one.
LEMMA WholeKeeps ==
  ASSUME Whole, [Next]_vars
  PROVE  CallsInv'
<1>1. ASSUME Call PROVE CallsInv'
  BY <1>1, CallKeeps
<1>2. ASSUME NEW member \in {"function", "container", "value", "nothing"}, Invoke(member)
      PROVE  Whole'
  BY <1>2, InvokeKeeps
<1>3. ASSUME Raises PROVE Whole'
  BY <1>3, RaisesKeeps
<1>4. ASSUME pc = "running", NEW rs \in Lists(Returned, MaxResults), Returns(rs)
      PROVE  Whole'
  BY <1>4, ReturnsKeeps
<1>5. ASSUME LuaComReturns PROVE Whole'
  BY <1>5, LuaComReturnsKeeps
<1>6. ASSUME ForeignReturns PROVE Whole'
  BY <1>6, ForeignReturnsKeeps
<1>7. ASSUME NextCall PROVE Whole'
  BY <1>7, NextCallKeeps
<1>8. ASSUME UNCHANGED vars PROVE Whole'
  BY <1>8, StutterKeeps
<1> QED BY <1>1, <1>2, <1>3, <1>4, <1>5, <1>6, <1>7, <1>8 DEF Next, CallsInv

\* Whatever is called and however it ends, DISPPARAMS carry what the client
\* meant until the function runs, and every block is accounted for.
THEOREM CallsInvariant == Spec => []CallsInv
<1>1. Init => CallsInv
  BY DEF Init, CallsInv, Whole
<1>2. CallsInv /\ [Next]_vars => CallsInv'
  <2> SUFFICES ASSUME CallsInv, [Next]_vars PROVE CallsInv'
    OBVIOUS
  <2>1. CASE WithGap
    BY <2>1, GapKeeps DEF CallsInv
  <2>2. CASE Whole
    BY <2>2, WholeKeeps
  <2> QED BY <2>1, <2>2 DEF CallsInv
<1> QED BY <1>1, <1>2, PTL DEF Spec

\* Every block that fillDispParams makes is freed once when the call is over,
\* unless a new one took its place; a foreign caller's is never freed.
THEOREM AlwaysFreed == Spec => []BlocksFreed
<1>1. CallsInv => BlocksFreed
  BY GapsFreed DEF CallsInv, Whole, BlocksFreed
<1> QED BY <1>1, CallsInvariant, PTL

\* A call that succeeds gives the client the return value and the outputs, each
\* in its place.
THEOREM AlwaysReturned == Spec => []ResultsReturn
<1>1. CallsInv => ResultsReturn
  BY DEF CallsInv, Whole, WithGap, ResultsReturn
<1> QED BY <1>1, CallsInvariant, PTL

-----------------------------------------------------------------------------
(* What the function receives.                                             *)

\* What the client's value turns into on the way.
LEMMA MeantIs ==
  ASSUME Asked, NEW i \in 1..Count, i \in 1..Len(desc.params), desc.params[i] \in ParamDesc,
         NEW v, v = ValueOf(i), NEW p, p = desc.params[i]
  PROVE  /\ v \in AnyValue \ {Nil}
         /\ v = Missing => i \notin ByRef /\ Meant(i) = Nil
         /\ v = Empty /\ i \notin ByRef => Meant(i) = Nil
         /\ v = Empty /\ i \in ByRef => Meant(i) = ToLua(Blank(p.type))
         /\ v \notin {Empty, Missing} => Meant(i) = ToLua(v)
<1>1. desc \in FuncDescs /\ args \in Seq(ArgValue) /\ p \in ParamDesc
  BY DEF Asked
<1>2. CASE client = "typed"
  <2>1. v = TypedValue(desc.params, args, i)
    BY <1>2 DEF ValueOf
  <2>2. v \in AnyValue \ {Nil, "byref"}
    BY <1>1, <2>1, TypedIs
  <2>3. i \in ByRef <=> (("out" \in p.flags \/ p.byref) /\ v # Missing)
    BY <1>2, <2>1 DEF ByRef, TypedByRef
  <2>4. "out" \in p.flags => p.byref
    BY <1>1 DEF ParamDesc
  <2>5. Meant(i) = IF v = Empty /\ p.byref THEN ToLua(Blank(p.type)) ELSE ToLua(v)
    BY <1>2, <2>1 DEF Meant
  <2> QED BY <2>2, <2>3, <2>4, <2>5 DEF ToLua, Missing, Empty, Nil
<1>3. CASE client = "untyped"
  <2>1. v = FromLua(args[i]) /\ ByRef = 1..Count /\ Count = Len(args)
    BY <1>3 DEF ValueOf, ByRef, Count
  <2>2. args[i] \in ArgValue
    BY <1>1, <2>1
  <2>3. v \in {"a1", "a2", "a3", Bad, Empty}
    BY <2>1, <2>2 DEF ArgValue, FromLua
  <2>4. Meant(i) = IF v = Empty THEN ToLua(Blank(p.type)) ELSE ToLua(v)
    BY <1>3, <2>1 DEF Meant
  <2> QED BY <2>1, <2>3, <2>4 DEF AnyValue, Missing, Empty, Nil, Bad
<1>4. CASE client = "foreign"
  <2>1. /\ v = IF args[i] = Nil THEN Missing ELSE args[i]
        /\ i \in ByRef <=> (p.byref /\ args[i] # Nil)
        /\ Count = Len(args)
    BY <1>4 DEF ValueOf, ByRef, Count
  <2>2. args[i] \in ArgValue
    BY <1>1, <2>1
  <2>3. Meant(i) = ToLua(args[i])
    BY <1>4, <2>2 DEF Meant, ArgValue, Empty, Nil, Bad
  <2> QED BY <2>1, <2>2, <2>3 DEF AnyValue, ArgValue, ToLua, Missing, Empty, Nil, Bad
<1> QED BY <1>2, <1>3, <1>4 DEF Asked

\* A parameter that takes an argument gets what the client meant for it.
LEMMA PushedIsMeant ==
  ASSUME Asked, Untouched, ~Skipped, NEW i \in 1..Len(sent)
  PROVE  Pushed(i) = IF IsIn(desc.params[i]) THEN <<Meant(i)>> ELSE <<>>
<1>1. PICK a, p, v, w :
        /\ a = rgvarg[IndexOf(i)] /\ p = desc.params[i] /\ v = ValueOf(i)
        /\ w = Content(mem, a)
  OBVIOUS
<1>2. /\ IndexOf(i) # 0 /\ p \in ParamDesc
      /\ a.cell = 0 => i \notin ByRef /\ a.val = v /\ w = v
      /\ a.cell # 0 => i \in ByRef /\ w = Converted(v, TypeOf(i))
      /\ i \in 1..Count /\ i \in 1..Len(desc.params)
  BY <1>1, Carried, Zenon
<1>a. /\ v \in AnyValue \ {Nil}
      /\ v = Missing => i \notin ByRef /\ Meant(i) = Nil
      /\ v = Empty /\ i \notin ByRef => Meant(i) = Nil
      /\ v = Empty /\ i \in ByRef => Meant(i) = ToLua(Blank(p.type))
      /\ v \notin {Empty, Missing} => Meant(i) = ToLua(v)
  BY <1>1, <1>2, MeantIs
<1>b. TypeOf(i) \in {"VT_VARIANT", p.type}
  BY <1>1 DEF TypeOf
<1>3. ~(p.flags = {} /\ a.cell = 0 /\ a.val = Empty)
  <2>1. i \in DOMAIN rgvarg
    BY Message, Zenon
  <2> QED BY <1>1, <1>2, <2>1 DEF Skipped
<1>4. Pushed(i) = CASE ~IsIn(p) -> <<>>
          [] IsIn(p) /\ IndexOf(i) = 0 -> <<Nil>>
          [] IsIn(p) /\ IndexOf(i) # 0 /\ a.cell = 0 /\ a.val = Empty /\ p.flags = {} -> <<>>
          [] IsIn(p) /\ IndexOf(i) # 0 /\ a.cell = 0
                /\ (a.val = Missing \/ (a.val = Empty /\ p.flags # {})) -> <<Nil>>
          [] OTHER -> <<ToLua(Converted(w, p.type))>>
  BY <1>1, Zenon DEF Pushed
<1>5. CASE ~IsIn(p)
  BY <1>1, <1>4, <1>5
<1>6. CASE IsIn(p)
  <2>1. CASE a.cell = 0 /\ a.val \in {Missing, Empty}
    <3>1. Pushed(i) = <<Nil>>
      BY <1>2, <1>3, <1>4, <1>6, <2>1
    <3>2. Meant(i) = Nil
      BY <1>2, <1>a, <2>1
    <3> QED BY <1>1, <1>6, <3>1, <3>2
  <2>2. CASE ~(a.cell = 0 /\ a.val \in {Missing, Empty})
    <3>1. Pushed(i) = <<ToLua(Converted(w, p.type))>>
      BY <1>2, <1>3, <1>4, <1>6, <2>2
    <3>2. Meant(i) = ToLua(Converted(w, p.type))
      <4>1. CASE v \notin {Empty, Missing}
        <5>1. w = v
          BY <1>2, <1>a, <4>1 DEF Converted
        <5> QED BY <1>a, <4>1, <5>1 DEF Converted
      <4>2. CASE v = Empty
        <5>1. a.cell # 0 /\ i \in ByRef /\ w = Blank(TypeOf(i))
          BY <1>2, <2>2, <4>2 DEF Converted
        <5>2. Converted(w, p.type) = Blank(p.type)
          BY <1>b, <5>1 DEF Converted, Blank, Empty, Nil, Zero
        <5> QED BY <1>a, <4>2, <5>1, <5>2
      <4>3. CASE v = Missing
        BY <1>2, <1>a, <2>2, <4>3
      <4> QED BY <4>1, <4>2, <4>3
    <3> QED BY <1>1, <1>6, <3>1, <3>2
  <2> QED BY <2>1, <2>2
<1> QED BY <1>5, <1>6

\* Every argument reaches its parameter, by position or by name, unless the
\* client has left out an in-parameter that has no direction (Skipped) or a
\* parameter before one that it names (Gapped).
THEOREM AlwaysArrive == Spec => []ArgumentsArrive
<1>1. CallsInv => ArgumentsArrive
  <2> SUFFICES ASSUME Whole, pc = "running", ~Skipped PROVE ArgumentsArrive
    BY DEF ArgumentsArrive, CallsInv, WithGap
  <2>1. Asked /\ Untouched /\ Received
    BY DEF Whole
  <2>2. rgvarg = sent /\ DOMAIN sent = 1..Len(sent) /\ Len(sent) \in Nat
    BY <2>1, Message, Zenon
  <2>3. CASE attempt = "func"
    <3>1. got = Concat([i \in DOMAIN rgvarg |-> Pushed(i)], Len(rgvarg))
      BY <2>1, <2>3 DEF Received, PushLuaArgs
    <3>2. \A i \in DOMAIN rgvarg :
            Pushed(i) = IF IsIn(desc.params[i]) THEN <<Meant(i)>> ELSE <<>>
      BY <2>1, <2>2, PushedIsMeant
    <3>3. [i \in DOMAIN rgvarg |-> Pushed(i)]
          = [i \in DOMAIN rgvarg |-> IF IsIn(desc.params[i]) THEN <<Meant(i)>> ELSE <<>>]
      BY <3>2, Zenon
    <3> QED BY <2>3, <3>1, <3>3 DEF ArgumentsArrive
  <2>4. CASE attempt # "func"
    <3>1. got = PushAll /\ named = <<>>
      BY <2>1, <2>4 DEF Received, Asked
    <3>2. \A i \in DOMAIN rgvarg : Reverse(rgvarg)[i] = rgvarg[IndexOf(i)]
      BY <2>2, <3>1 DEF Reverse, IndexOf
    <3>3. PushAll = [i \in DOMAIN rgvarg |-> ToLua(Content(mem, rgvarg[IndexOf(i)]))]
      BY <3>2 DEF PushAll
    <3> QED BY <2>4, <3>1, <3>3 DEF ArgumentsArrive
  <2> QED BY <2>3, <2>4
<1> QED BY <1>1, CallsInvariant, PTL

-----------------------------------------------------------------------------
(* Members.                                                                *)

\* Members that have a description are known; a prefixed name is at most a
\* method; until the script has the object nothing is assigned.
ObjectWellFormed ==
    /\ object[Plain].funcs # {} => object[Plain].known
    /\ \A k \in Prefixed : object[k].funcs \subseteq {"func"}
    /\ object = NoObject => expected = Nothing /\ table[Plain] = Nothing

\* Where the last assignment went.
WhereAssigned ==
    /\ DOMAIN table = Keys
    /\ expected # Nothing =>
           expected = IF table[Plain] # Nothing THEN table[Plain] ELSE property
    /\ expected # Nothing /\ table[Plain] = Nothing => object[Plain].known
    /\ redefined => table[Plain] # Nothing
    /\ table[Plain] # Nothing /\ ~redefined =>
           object[Plain].funcs = {} /\ ~object[Plain].known

MembersInv == ObjectWellFormed /\ WhereAssigned /\ AssignedIsRead

\* The kinds of what a key can have tell them apart.
LEMMA Kinds ==
    /\ Nothing.kind = "nil" /\ Function.kind = "function"
    /\ \A v : Value(v).kind = "value"
    /\ \A k : Closure(k).kind = "closure"
  BY DEF Nothing, Function, Value, Closure

\* What a script finds under the name if the table has nothing: the property, a
\* method to call, or nothing.
LEMMA PlainIndex ==
    \/ Index(Plain) = property /\ object[Plain].funcs # {}
    \/ Index(Plain).kind \in {"nil", "closure"}
  <1>0. Plain \notin Prefixed /\ StrippedName(Plain) = Plain
    BY DEF Plain, Prefixed, StrippedName
  <1>1. UntypedIndex(Plain).kind \in {"nil", "closure"}
    BY <1>0, Kinds DEF UntypedIndex, Redefined
  <1>2. \/ TypedIndex(Plain) = property /\ object[Plain].funcs # {}
        \/ TypedIndex(Plain).kind \in {"nil", "closure"}
    BY <1>0, Kinds DEF TypedIndex, TypedMember, GetFuncDesc, Redefined, IsPropGet, IsPropPut, Plain
  <1> QED
    BY <1>1, <1>2 DEF Index

\* The set prefix assigns only members.
LEMMA SetPrefix ==
  ASSUME ObjectWellFormed, Index("setName") = Closure({"put"})
  PROVE  object[Plain].known
  <1>0. /\ "setName" \in Prefixed /\ StrippedName("setName") = Plain
        /\ IsPropGet("setName") = FALSE /\ IsPropPut("setName") = TRUE
    BY DEF Prefixed, StrippedName, IsPropGet, IsPropPut
  <1>1. /\ Closure({"put"}) # Nothing /\ Closure({"put"}) # Function
        /\ Closure({"put"}) # Closure({"func"}) /\ Closure({"put"}) # Closure({"get"})
        /\ Closure({"put"}) # Closure({"get", "func"})
    <2>1. \A k : Closure(k).invkind = k
      BY DEF Closure
    <2>2. {"put"} # {"func"} /\ {"put"} # {"get"} /\ {"put"} # {"get", "func"}
      OBVIOUS
    <2> QED
      BY <2>1, <2>2, Kinds
  <1>2. ASSUME TypedIndex("setName") = Closure({"put"})
        PROVE  object[Plain].known
    <2>1. CASE GetFuncDesc("setName") # {}
      <3>1. GetFuncDesc("setName") = {"func"}
        BY <1>0, <2>1 DEF GetFuncDesc, ObjectWellFormed
      <3>2. TypedIndex("setName") = Closure({"func"})
        BY <2>1, <3>1 DEF TypedIndex, TypedMember
      <3> QED
        BY <1>1, <1>2, <3>2
    <2>2. CASE GetFuncDesc("setName") = {}
      <3>1. TypedIndex("setName") = TypedMember(GetFuncDesc(Plain), FALSE, TRUE)
        BY <1>0, <1>1, <1>2, <2>2 DEF TypedIndex
      <3>2. GetFuncDesc(Plain) # {}
        BY <1>1, <1>2, <3>1 DEF TypedMember
      <3> QED
        BY <3>2 DEF GetFuncDesc, ObjectWellFormed
    <2> QED
      BY <2>1, <2>2
  <1>3. ASSUME UntypedIndex("setName") = Closure({"put"})
        PROVE  object[Plain].known
    BY <1>0, <1>1, <1>3 DEF UntypedIndex
  <1> QED
    BY <1>2, <1>3 DEF Index

\* It holds before the script has an object.
LEMMA InitInv == MembersInit => MembersInv
  BY Kinds DEF MembersInit, MembersInv, ObjectWellFormed, WhereAssigned, AssignedIsRead,
     NoObject, Unknown, Keys, Plain, Prefixed

-----------------------------------------------------------------------------
(* The steps.                                                              *)

\* Nothing is assigned before the script has the object.
LEMMA GetsObjectKeeps ==
  ASSUME MembersInv, NEW d \in Descriptions, NEW prefixes \in SUBSET Prefixed,
         GetsObject(d, prefixes)
  PROVE  MembersInv'
  <1>0. Plain \in Keys /\ Plain \notin Prefixed /\ Prefixed \subseteq Keys
    BY DEF Plain, Prefixed, Keys
  <1>1. expected = Nothing /\ table[Plain] = Nothing
    BY DEF GetsObject, MembersInv, ObjectWellFormed
  <1>2. /\ object'[Plain] = d
        /\ \A k \in Prefixed : object'[k].funcs \subseteq {"func"}
    BY <1>0 DEF GetsObject, Unknown
  <1>3. ObjectWellFormed'
    BY <1>1, <1>2, MembersAssumption DEF GetsObject, ObjectWellFormed
  <1>4. WhereAssigned' /\ AssignedIsRead'
    BY <1>1 DEF GetsObject, MembersInv, WhereAssigned, AssignedIsRead, ReadOnly, GetFuncDesc
  <1> QED
    BY <1>3, <1>4 DEF MembersInv

\* Reading finds the last assignment.
LEMMA ReadsKeeps ==
  ASSUME MembersInv, NEW key \in Keys, Reads(key)
  PROVE  MembersInv'
  <1> USE DEF MembersInv
  <1>1. CASE table[key] # Nothing
    <2>1. found' = <<key, table[key]>> /\ UNCHANGED <<object, table, property, expected, redefined>>
      BY <1>1 DEF Reads
    <2> QED
      BY <1>1, <2>1 DEF ObjectWellFormed, WhereAssigned, AssignedIsRead, ReadOnly, GetFuncDesc
  <1>2. CASE table[key] = Nothing
    <2>1. found' = <<key, Index(key)>> /\ UNCHANGED <<object, table, property, expected, redefined>>
      BY <1>2 DEF Reads
    <2>2. ASSUME key = Plain, expected # Nothing, Index(Plain).kind \notin {"nil", "closure"}
          PROVE  Index(Plain) = expected
      BY <1>2, <2>2, PlainIndex DEF WhereAssigned
    <2> QED
      BY <2>1, <2>2 DEF ObjectWellFormed, WhereAssigned, AssignedIsRead, ReadOnly, GetFuncDesc
  <1> QED
    BY <1>1, <1>2

\* An assignment goes to the table's field if there is one, is refused, or goes
\* to the property or a new field.
LEMMA AssignsKeeps ==
  ASSUME MembersInv, NEW x, x # Nothing, Assigns(x)
  PROVE  MembersInv'
  <1> USE DEF MembersInv
  <1>0. Plain \in Keys
    BY DEF Keys
  <1>1. AssignedIsRead'
    BY Kinds DEF Assigns, AssignedIsRead
  <1>2. CASE table[Plain] # Nothing
    BY <1>0, <1>1, <1>2 DEF Assigns, ObjectWellFormed, WhereAssigned
  <1>3. CASE table[Plain] = Nothing /\ Refuses(Plain, x)
    BY <1>1, <1>3 DEF Assigns, Settable, PutsProperty, Refuses, ReadOnly, ObjectWellFormed, WhereAssigned
  <1>4. CASE table[Plain] = Nothing /\ PutsProperty(Plain, x)
    <2>1. ~Refuses(Plain, x) /\ object[Plain].known
      BY <1>4 DEF PutsProperty, Refuses, ReadOnly, GetFuncDesc, ObjectWellFormed
    <2>2. /\ object # NoObject
          /\ property' = x /\ expected' = x /\ UNCHANGED <<table, object>>
          /\ redefined' => redefined
      BY <1>4, <2>1 DEF Assigns, Settable, PutsProperty
    <2> QED
      BY <1>1, <1>4, <2>1, <2>2 DEF ObjectWellFormed, WhereAssigned
  <1>5. CASE table[Plain] = Nothing /\ ~Refuses(Plain, x) /\ ~PutsProperty(Plain, x)
    <2>1. /\ table' = [table EXCEPT ![Plain] = x] /\ expected' = x
          /\ UNCHANGED <<property, object>> /\ redefined' = (redefined \/ x = Function)
      BY <1>5 DEF Assigns, Settable
    <2>2. x = Function \/ (object[Plain].funcs = {} /\ ~object[Plain].known)
      BY <1>5 DEF PutsProperty, Refuses, ReadOnly, GetFuncDesc
    <2> QED
      BY <1>0, <1>1, <2>1, <2>2 DEF Assigns, ObjectWellFormed, WhereAssigned
  <1> QED
    BY <1>2, <1>3, <1>4, <1>5

\* What is left after a field is forgotten was not assigned.
LEMMA ForgetsKeeps ==
  ASSUME MembersInv, Forgets
  PROVE  MembersInv'
  BY Kinds DEF MembersInv, Forgets, ObjectWellFormed, WhereAssigned, AssignedIsRead, Keys

\* The set prefix assigns a property that the table does not hide, or that the
\* script has redefined.
LEMMA SetsByMethodKeeps ==
  ASSUME MembersInv, NEW x, x # Nothing, SetsByMethod(x)
  PROVE  MembersInv'
  <1> USE DEF MembersInv
  <1>1. AssignedIsRead'
    BY Kinds DEF SetsByMethod, AssignedIsRead
  <1>2. CASE redefined
    BY <1>1, <1>2 DEF SetsByMethod, ObjectWellFormed, WhereAssigned
  <1>3. CASE ~redefined
    <2>1. object[Plain].known
      BY SetPrefix DEF SetsByMethod
    <2>2. table[Plain] = Nothing
      BY <1>3, <2>1 DEF WhereAssigned
    <2> QED
      BY <1>1, <1>3, <2>1, <2>2 DEF SetsByMethod, ObjectWellFormed, WhereAssigned
  <1> QED
    BY <1>2, <1>3

\* The invariant holds after every step.
LEMMA NextInv == MembersInv /\ [MembersNext]_mvars => MembersInv'
  <1> SUFFICES ASSUME MembersInv, [MembersNext]_mvars
               PROVE  MembersInv'
    OBVIOUS
  <1>1. ASSUME NEW d \in Descriptions, NEW prefixes \in SUBSET Prefixed, GetsObject(d, prefixes)
        PROVE  MembersInv'
    BY <1>1, GetsObjectKeeps
  <1>2. ASSUME NEW key \in Keys, Reads(key)
        PROVE  MembersInv'
    BY <1>2, ReadsKeeps
  <1>3. ASSUME NEW v \in 0 .. MaxValue, Assigns(Value(v)) \/ SetsByMethod(Value(v))
        PROVE  MembersInv'
    BY <1>3, Kinds, AssignsKeeps, SetsByMethodKeeps
  <1>4. CASE Assigns(Function)
    BY <1>4, Kinds, AssignsKeeps
  <1>5. CASE Forgets
    BY <1>5, ForgetsKeeps
  <1>6. CASE UNCHANGED mvars
    BY <1>6 DEF mvars, MembersInv, ObjectWellFormed, WhereAssigned, AssignedIsRead, ReadOnly,
                GetFuncDesc
  <1> QED
    BY <1>1, <1>2, <1>3, <1>4, <1>5, <1>6 DEF MembersNext

\* For any set of members and any values: what a script assigned to obj.Name is
\* what it reads there, unless it is a read-only member to which the script has
\* assigned a value (tagmeth_index, tagmeth_settable and what they call).
THEOREM AssignedIsAlwaysRead == MembersSpec => []AssignedIsRead
  <1>1. MembersInv => AssignedIsRead
    BY DEF MembersInv
  <1> QED
    BY <1>1, InitInv, NextInv, PTL DEF MembersSpec
=============================================================================
