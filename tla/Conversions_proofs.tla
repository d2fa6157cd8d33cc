------------------------ MODULE Conversions_proofs ------------------------
(***************************************************************************)
(* Values and dates between COM and Lua, for integers, doubles and strings *)
(* of any width and for every date that COM has, whoever gives them.       *)
(*                                                                         *)
(* The invariant says that each end of a journey is what the conversions   *)
(* make of its start; what the theorems say of a journey is then said of   *)
(* the two functions in turn.  The functions that are recursive - the      *)
(* numeral of digits, the digits of a number, the days before a month -    *)
(* are taken step by step, by induction over a set of numbers.             *)
(***************************************************************************)
EXTENDS Conversions, WellFoundedInduction, TLAPS

-----------------------------------------------------------------------------
(* Recursion.                                                              *)

\* A property of a natural number, or of all up to one, has a first
\* counterexample.
LEMMA FirstOf ==
  ASSUME NEW S \in SUBSET Nat, S # {}
  PROVE  \E i \in S : \A j \in S : i <= j
<1> DEFINE Lower == {pair \in Nat \X Nat : pair[1] < pair[2]}
<1>1. IsWellFoundedOn(Lower, Nat)
  BY NatLessThanWellFounded DEF OpToRel
<1> HIDE DEF Lower
<1>2. PICK i \in S : \A j \in S : ~(<<j, i>> \in Lower)
  BY <1>1, WFMin
<1>3. ASSUME NEW j \in S PROVE i <= j
  <2>1. i \in Nat /\ j \in Nat
    OBVIOUS
  <2>2. <<j, i>> \in Lower <=> j < i
    BY <2>1 DEF Lower
  <2> QED BY <1>2, <2>1, <2>2
<1> QED BY <1>3

\* A set of natural numbers with 0 and with the next of each up to n holds them all.
LEMMA Induction ==
  ASSUME NEW n \in Nat, NEW S, 0 \in S, \A k \in 1 .. n : k - 1 \in S => k \in S
  PROVE  0 .. n \subseteq S
<1> DEFINE T == {k \in 0 .. n : k \notin S}
<1> SUFFICES ASSUME T # {} PROVE FALSE
  OBVIOUS
<1>1. T \in SUBSET Nat
  OBVIOUS
<1>2. PICK i \in T : \A j \in T : i <= j
  <2> HIDE DEF T
  <2> QED BY <1>1, FirstOf
<1>3. i \in 1 .. n /\ i \notin S
  BY <1>2
<1>4. i - 1 \in 0 .. n /\ ~(i <= i - 1)
  BY <1>3
<1>5. i - 1 \in S
  BY <1>2, <1>4
<1> QED BY <1>3, <1>5

\* What a recursive function is, one step after the other.
Follows(f, n, start, next) == f = [i \in 0 .. n |-> IF i = 0 THEN start ELSE next[i][f[i-1]]]

LEMMA Recursion ==
  ASSUME NEW n \in Nat, NEW start, NEW next
  PROVE  \E f : Follows(f, n, start, next)
<1> DEFINE S == {k \in 0 .. n : \E f : Follows(f, k, start, next)}
<1>1. 0 \in S
  <2> DEFINE f == [i \in 0 .. 0 |-> start]
  <2>1. Follows(f, 0, start, next)
    BY DEF Follows
  <2> QED BY <2>1
<1>2. ASSUME NEW k \in 1 .. n, k - 1 \in S
      PROVE  k \in S
  <2>1. PICK g : Follows(g, k - 1, start, next)
    BY <1>2
  <2> DEFINE h == [i \in 0 .. k |-> IF i = k THEN next[k][g[k - 1]] ELSE g[i]]
  <2>2. ASSUME NEW i \in 0 .. k
        PROVE  h[i] = IF i = 0 THEN start ELSE next[i][h[i-1]]
    <3>1. CASE i = k
      <4>1. k - 1 \in 0 .. k /\ k - 1 # k
        OBVIOUS
      <4>2. h[k - 1] = g[k - 1]
        BY <4>1
      <4>3. h[k] = next[k][g[k - 1]]
        OBVIOUS
      <4> QED BY <3>1, <4>2, <4>3
    <3>2. CASE i # k
      <4>1. i \in 0 .. (k - 1) /\ h[i] = g[i]
        BY <3>2
      <4>2. g[i] = IF i = 0 THEN start ELSE next[i][g[i-1]]
        BY <2>1, <4>1 DEF Follows
      <4>3. i # 0 => h[i-1] = g[i-1]
        BY <3>2
      <4> QED BY <4>1, <4>2, <4>3
    <3> QED BY <3>1, <3>2
  <2>3. h = [i \in 0 .. k |-> h[i]]
    OBVIOUS
  <2> HIDE DEF h
  <2>4. Follows(h, k, start, next)
    BY <2>2, <2>3 DEF Follows
  <2> QED BY <1>2, <2>4
<1> HIDE DEF S
<1>3. n \in S
  BY <1>1, <1>2, Induction
<1> QED BY <1>3 DEF S

LEMMA FollowsIs ==
  ASSUME NEW n \in Nat, NEW start, NEW next, NEW f, Follows(f, n, start, next)
  PROVE  /\ f[0] = start
         /\ f = [i \in 0 .. n |-> f[i]]
         /\ \A i \in 1 .. n : f[i] = next[i][f[i-1]]
  BY DEF Follows

-----------------------------------------------------------------------------
(* Digits.                                                                 *)

IsNumeral(v, digits) ==
  /\ v[0] = 0 /\ \A i \in 0 .. Len(digits) : v[i] \in Nat
  /\ \A i \in 1 .. Len(digits) : v[i] = v[i-1] * 10 + digits[i]

LEMMA NumeralIs ==
  ASSUME NEW digits \in Seq(0 .. 10)
  PROVE  IsNumeral(Numeral(digits), digits)
<1> DEFINE n == Len(digits)
           v == Numeral(digits)
<1>1. n \in Nat /\ \A i \in 1 .. n : digits[i] \in 0 .. 10
  OBVIOUS
<1> DEFINE next == [i \in 1 .. n |-> [r \in Nat |-> r * 10 + digits[i]]]
           IsValue(f) == f = [i \in 0 .. n |-> IF i = 0 THEN 0 ELSE f[i-1] * 10 + digits[i]]
<1>2. PICK f : Follows(f, n, 0, next)
  <2> HIDE DEF next
  <2> QED BY <1>1, Recursion
<1>3. \A i \in 0 .. n : f[i] \in Nat
  <2> DEFINE S == {i \in 0 .. n : f[i] \in Nat}
  <2>1. 0 \in S
    BY <1>1, <1>2 DEF Follows
  <2>2. ASSUME NEW k \in 1 .. n, k - 1 \in S
        PROVE  k \in S
    <3>1. f[k - 1] \in Nat
      BY <2>2
    <3>2. f[k] = next[k][f[k - 1]]
      <4> HIDE DEF next
      <4> QED BY <1>1, <1>2, FollowsIs
    <3>3. next[k][f[k - 1]] = f[k - 1] * 10 + digits[k]
      BY <3>1
    <3>4. digits[k] \in Nat
      BY <1>1
    <3> HIDE DEF next
    <3>5. f[k] \in Nat
      BY <3>1, <3>2, <3>3, <3>4
    <3> QED BY <3>5
  <2> HIDE DEF S
  <2>3. 0 .. n \subseteq S
    BY <1>1, <2>1, <2>2, Induction
  <2> QED BY <2>3 DEF S
<1>4. IsValue(f)
  <2>1. ASSUME NEW i \in 0 .. n
        PROVE  f[i] = IF i = 0 THEN 0 ELSE f[i-1] * 10 + digits[i]
    <3>1. CASE i = 0
      BY <1>2, <3>1 DEF Follows
    <3>2. CASE i # 0
      <4>1. i \in 1 .. n /\ i - 1 \in 0 .. n
        BY <1>1, <3>2
      <4>2. f[i] = next[i][f[i - 1]]
        BY <1>2, <3>2 DEF Follows
      <4>3. f[i - 1] \in Nat
        BY <1>3, <4>1
      <4>4. next[i][f[i - 1]] = f[i - 1] * 10 + digits[i]
        BY <4>1, <4>3
      <4> QED BY <3>2, <4>2, <4>4
    <3> QED BY <3>1, <3>2
  <2>2. f = [i \in 0 .. n |-> f[i]]
    BY <1>2 DEF Follows
  <2> HIDE DEF next
  <2> QED BY <2>1, <2>2
<1>5. v = CHOOSE g : IsValue(g)
  BY DEF Numeral
<1> HIDE DEF v
<1>6. IsValue(v)
  BY <1>4, <1>5
<1>7. \A i \in 0 .. n : v[i] = IF i = 0 THEN 0 ELSE v[i-1] * 10 + digits[i]
  BY <1>6
<1> HIDE DEF IsValue, next
<1>8. v[0] = 0
  BY <1>1, <1>7
<1>9. \A i \in 1 .. n : v[i] = v[i-1] * 10 + digits[i]
  BY <1>1, <1>7
<1> DEFINE S == {i \in 0 .. n : v[i] \in Nat}
<1>10. \A i \in 0 .. n : v[i] \in Nat
  <2>1. 0 \in S
    BY <1>1, <1>8
  <2>2. ASSUME NEW k \in 1 .. n, k - 1 \in S
        PROVE  k \in S
    <3>1. v[k - 1] \in Nat
      BY <2>2
    <3>3. digits[k] \in Nat
      BY <1>1
    <3>4. v[k] = v[k-1] * 10 + digits[k]
      BY <1>9
    <3>2. v[k] \in Nat
      BY <3>1, <3>3, <3>4
    <3> QED BY <3>2
  <2> HIDE DEF S
  <2>3. 0 .. n \subseteq S
    BY <1>1, <2>1, <2>2, Induction
  <2> QED BY <2>3 DEF S
<1> HIDE DEF S
<1> QED BY <1>8, <1>9, <1>10 DEF v, IsNumeral

Results == {Refused} \cup {Taken(w) : w \in Nat}

LEMMA DigitParsed ==
  ASSUME NEW r \in Results, NEW d \in 0 .. 10, NEW limit \in Nat
  PROVE  ParseDigit(r, d, limit) \in Results
<1>1. Refused \in Results
  BY DEF Results
<1>2. CASE r = Refused
  BY <1>1, <1>2 DEF ParseDigit, Refused
<1>3. CASE r # Refused
  <2>1. PICK w \in Nat : r = Taken(w)
    BY <1>3 DEF Results
  <2>2. r.v = w
    BY <2>1 DEF Taken
  <2>3. Wrapped(w * 10 + d) \in Nat
    BY NumbersAssumption DEF Wrapped
  <2> QED BY <1>1, <2>2, <2>3 DEF ParseDigit, Results
<1> QED BY <1>2, <1>3

LEMMA ParsedIs ==
  ASSUME NEW digits \in Seq(0 .. 10), NEW n, n = Len(digits), NEW limit \in Nat,
         NEW p, p = Parsed(digits, limit)
  PROVE  /\ p[0] = Taken(0)
         /\ \A i \in 1 .. n : p[i] = ParseDigit(p[i-1], digits[i], limit)
<1>1. n \in Nat /\ \A i \in 1 .. n : digits[i] \in 0 .. 10
  OBVIOUS
<1> DEFINE next == [i \in 1 .. n |-> [r \in Results |-> ParseDigit(r, digits[i], limit)]]
           IsParse(f) == f = [i \in 0 .. n |-> IF i = 0 THEN Taken(0)
                                               ELSE ParseDigit(f[i-1], digits[i], limit)]
<1>2. PICK f : Follows(f, n, Taken(0), next)
  <2> HIDE DEF next
  <2> QED BY <1>1, Recursion
<1>3. ASSUME NEW i \in 1 .. n, f[i - 1] \in Results
      PROVE  f[i] = ParseDigit(f[i - 1], digits[i], limit)
  <2>1. f[i] = next[i][f[i - 1]]
    <3> HIDE DEF next
    <3> QED BY <1>1, <1>2, FollowsIs
  <2>2. next[i][f[i - 1]] = ParseDigit(f[i - 1], digits[i], limit)
    BY <1>3
  <2> QED BY <2>1, <2>2
<1>4. f = [i \in 0 .. n |-> f[i]] /\ f[0] = Taken(0)
  BY <1>1, <1>2 DEF Follows
<1> HIDE DEF next
<1>5. \A i \in 0 .. n : f[i] \in Results
  <2> DEFINE S == {i \in 0 .. n : f[i] \in Results}
  <2>1. 0 \in S
    BY <1>1, <1>4 DEF Results
  <2>2. ASSUME NEW k \in 1 .. n, k - 1 \in S
        PROVE  k \in S
    <3>1. f[k] = ParseDigit(f[k - 1], digits[k], limit)
      BY <1>3, <2>2
    <3>2. f[k] \in Results
      BY <1>1, <2>2, <3>1, DigitParsed
    <3> QED BY <3>2
  <2> HIDE DEF S
  <2>3. 0 .. n \subseteq S
    BY <1>1, <2>1, <2>2, Induction
  <2> QED BY <2>3 DEF S
<1>6. IsParse(f)
  <2>1. ASSUME NEW i \in 0 .. n
        PROVE  f[i] = IF i = 0 THEN Taken(0) ELSE ParseDigit(f[i-1], digits[i], limit)
    <3>1. i # 0 => i \in 1 .. n /\ f[i - 1] \in Results
      BY <1>5
    <3> QED BY <1>3, <1>4, <3>1
  <2> QED BY <1>4, <2>1
<1>7. p = CHOOSE g : IsParse(g)
  BY DEF Parsed
<1>8. IsParse(p)
  BY <1>6, <1>7
<1>9. \A i \in 0 .. n : p[i] = IF i = 0 THEN Taken(0) ELSE ParseDigit(p[i-1], digits[i], limit)
  BY <1>8
<1> HIDE DEF IsParse
<1> QED BY <1>1, <1>9

\* One more digit: ten times the number and the digit, if the limit allows it.
LEMMA OneMoreDigit ==
  ASSUME NEW w \in Nat, NEW d \in 0 .. 9, NEW limit \in Nat, limit < Wide
  PROVE  ParseDigit(Taken(w), d, limit)
           = IF w * 10 + d <= limit THEN Taken(w * 10 + d) ELSE Refused
<1>1. d # 10 /\ Taken(w).ok /\ Taken(w).v = w
  BY DEF Taken
<1>2. TooLarge(w, d, limit) <=> w * 10 + d > limit
  BY DEF TooLarge
<1>3. w * 10 + d <= limit => Wrapped(w * 10 + d) = w * 10 + d
  BY NumbersAssumption DEF Wrapped
<1> QED BY <1>1, <1>2, <1>3 DEF ParseDigit

\* The number so far, unless a character was no digit or the number is over the limit.
Kept(digits, i, value, limit) ==
  IF (\A j \in 1 .. i : digits[j] # 10) /\ value <= limit THEN Taken(value) ELSE Refused

LEMMA ParsedPrefix ==
  ASSUME NEW digits \in Seq(0 .. 10), NEW n, n = Len(digits),
         NEW limit \in Nat, limit < Wide,
         NEW p, p = Parsed(digits, limit), NEW v, v = Numeral(digits)
  PROVE  \A i \in 0 .. n : p[i] = Kept(digits, i, v[i], limit)
<1>1. n \in Nat /\ \A i \in 1 .. n : digits[i] \in 0 .. 10
  OBVIOUS
<1>0. IsNumeral(v, digits)
  BY NumeralIs
<1>2. v[0] = 0 /\ \A i \in 0 .. n : v[i] \in Nat
  BY <1>0 DEF IsNumeral
<1>3. \A i \in 1 .. n : v[i] = v[i-1] * 10 + digits[i]
  BY <1>0 DEF IsNumeral
<1>4. p[0] = Taken(0) /\ \A i \in 1 .. n : p[i] = ParseDigit(p[i-1], digits[i], limit)
  BY ParsedIs
<1> DEFINE S == {i \in 0 .. n : p[i] = Kept(digits, i, v[i], limit)}
<1>5. 0 \in S
  BY <1>1, <1>2, <1>4 DEF Kept
<1>6. ASSUME NEW k \in 1 .. n, k - 1 \in S
      PROVE  k \in S
  <2>1. PICK w \in Nat : w = v[k - 1]
    BY <1>2
  <2>2. PICK d \in 0 .. 10 : d = digits[k]
    BY <1>1
  <2>3. v[k] = w * 10 + d
    BY <1>3, <2>1, <2>2
  <2>4. p[k] = ParseDigit(Kept(digits, k - 1, w, limit), d, limit)
    BY <1>4, <1>6, <2>1, <2>2
  <2>5. (\A j \in 1 .. k : digits[j] # 10) <=> (\A j \in 1 .. (k - 1) : digits[j] # 10) /\ d # 10
    BY <2>2
  <2>6. CASE (\A j \in 1 .. (k - 1) : digits[j] # 10) /\ w <= limit
    <3>1. Kept(digits, k - 1, w, limit) = Taken(w)
      BY <2>6 DEF Kept
    <3>2. CASE d = 10
      <4>1. ParseDigit(Taken(w), d, limit) = Refused
        BY <3>2 DEF ParseDigit
      <4>2. Kept(digits, k, v[k], limit) = Refused
        BY <2>5, <3>2 DEF Kept
      <4> QED BY <2>4, <3>1, <4>1, <4>2
    <3>3. CASE d # 10
      <4>1. d \in 0 .. 9
        BY <3>3
      <4>2. ParseDigit(Taken(w), d, limit)
              = IF w * 10 + d <= limit THEN Taken(w * 10 + d) ELSE Refused
        BY <4>1, OneMoreDigit
      <4>3. Kept(digits, k, v[k], limit)
              = IF w * 10 + d <= limit THEN Taken(w * 10 + d) ELSE Refused
        BY <2>3, <2>5, <2>6, <3>3 DEF Kept
      <4> QED BY <2>4, <3>1, <4>2, <4>3
    <3> QED BY <3>2, <3>3
  <2>7. CASE ~((\A j \in 1 .. (k - 1) : digits[j] # 10) /\ w <= limit)
    <3>1. Kept(digits, k - 1, w, limit) = Refused
      BY <2>7 DEF Kept
    <3>2. ParseDigit(Refused, d, limit) = Refused
      BY DEF ParseDigit, Refused
    <3>3. w * 10 + d <= limit => w <= limit
      OBVIOUS
    <3>4. ~((\A j \in 1 .. k : digits[j] # 10) /\ v[k] <= limit)
      BY <2>3, <2>5, <2>7, <3>3
    <3>5. Kept(digits, k, v[k], limit) = Refused
      BY <3>4, Zenon DEF Kept
    <3> QED BY <2>4, <3>1, <3>2, <3>5
  <2> QED BY <2>6, <2>7
<1> HIDE DEF S
<1>7. 0 .. n \subseteq S
  BY <1>1, <1>5, <1>6, Induction
<1> QED BY <1>7 DEF S

\* parseUnsignedDecimal takes the number that the digits stand for, or nothing.
LEMMA ParseUnsignedIs ==
  ASSUME NEW digits \in Seq(0 .. 10), NEW limit \in Nat, limit < Wide,
         NEW value, value = Numeral(digits)[Len(digits)]
  PROVE  ParseUnsigned(digits, limit)
           = IF digits # <<>> /\ (\A i \in DOMAIN digits : digits[i] # 10) /\ value <= limit
             THEN Taken(value) ELSE Refused
<1>1. PICK n \in Nat : n = Len(digits)
  OBVIOUS
<1>2. PICK p, v : p = Parsed(digits, limit) /\ v = Numeral(digits)
  OBVIOUS
<1>3. p[n] = Kept(digits, n, v[n], limit)
  <2>1. \A i \in 0 .. n : p[i] = Kept(digits, i, v[i], limit)
    BY <1>1, <1>2, ParsedPrefix
  <2>2. n \in 0 .. n
    OBVIOUS
  <2> QED BY <2>1, <2>2
<1>4. DOMAIN digits = 1 .. n
  BY <1>1
<1>5. ParseUnsigned(digits, limit) = IF digits = <<>> THEN Refused ELSE p[n]
  BY <1>1, <1>2 DEF ParseUnsigned
<1>6. v[n] = value
  BY <1>1, <1>2
<1> QED BY <1>3, <1>4, <1>5, <1>6, Zenon DEF Kept

-----------------------------------------------------------------------------
(* The digits of a number.                                                 *)

LEMMA AppendNumeral ==
  ASSUME NEW digits \in Seq(0 .. 10), NEW d \in 0 .. 10, NEW longer, longer = Append(digits, d)
  PROVE  Numeral(longer)[Len(longer)] = Numeral(digits)[Len(digits)] * 10 + d
<1>1. PICK n \in Nat : n = Len(digits)
  OBVIOUS
<1>2. PICK v, u : v = Numeral(digits) /\ u = Numeral(longer)
  OBVIOUS
<1>3. /\ longer \in Seq(0 .. 10) /\ Len(longer) = n + 1 /\ longer[n + 1] = d
      /\ \A i \in 1 .. n : longer[i] = digits[i]
  BY <1>1
<1>4. v[0] = 0 /\ \A i \in 1 .. n : v[i] = v[i-1] * 10 + digits[i]
  <2>1. IsNumeral(v, digits)
    BY <1>2, NumeralIs
  <2> QED BY <1>1, <2>1 DEF IsNumeral
<1>5. u[0] = 0 /\ \A i \in 1 .. n + 1 : u[i] = u[i-1] * 10 + longer[i]
  <2>1. IsNumeral(u, longer)
    BY <1>2, <1>3, NumeralIs
  <2> QED BY <1>3, <2>1 DEF IsNumeral
<1> DEFINE S == {i \in 0 .. n : u[i] = v[i]}
<1>6. 0 \in S
  BY <1>4, <1>5
<1>7. ASSUME NEW k \in 1 .. n, k - 1 \in S
      PROVE  k \in S
  <2>1. u[k - 1] = v[k - 1]
    BY <1>7
  <2>2. v[k] = v[k-1] * 10 + digits[k]
    BY <1>4
  <2>3. k \in 1 .. n + 1 /\ longer[k] = digits[k]
    BY <1>3
  <2>4. u[k] = u[k-1] * 10 + longer[k]
    BY <1>5, <2>3
  <2> QED BY <2>1, <2>2, <2>3, <2>4
<1> HIDE DEF S
<1>8. 0 .. n \subseteq S
  BY <1>6, <1>7, Induction
<1>9. u[n] = v[n]
  BY <1>8 DEF S
<1>10. u[n + 1] = u[n] * 10 + d
  <2>1. n + 1 \in 1 .. n + 1 /\ n + 1 - 1 = n
    OBVIOUS
  <2> QED BY <1>3, <1>5, <2>1
<1> QED BY <1>1, <1>2, <1>3, <1>9, <1>10

DigitsUpTo(f, k) ==
  f = [u \in 0 .. k |-> IF u < 10 THEN <<u>> ELSE Append(f[u \div 10], u % 10)]

LEMMA DigitsIs ==
  ASSUME NEW v \in 0 .. Wide - 1
  PROVE  Digits[v] = IF v < 10 THEN <<v>> ELSE Append(Digits[v \div 10], v % 10)
<1>1. PICK n \in Nat : n = Wide - 1
  BY NumbersAssumption
<1> DEFINE S == {k \in 0 .. n : \E f : DigitsUpTo(f, k)}
<1>2. 0 \in S
  <2> DEFINE f == [u \in 0 .. 0 |-> <<u>>]
  <2>1. f = [u \in 0 .. 0 |-> IF u < 10 THEN <<u>> ELSE Append(f[u \div 10], u % 10)]
    OBVIOUS
  <2>2. DigitsUpTo(f, 0)
    BY <2>1 DEF DigitsUpTo
  <2> QED BY <2>2
<1>3. ASSUME NEW k \in 1 .. n, k - 1 \in S
      PROVE  k \in S
  <2>1. PICK g : DigitsUpTo(g, k - 1)
    BY <1>3
  <2> DEFINE last == IF k < 10 THEN <<k>> ELSE Append(g[k \div 10], k % 10)
             h == [u \in 0 .. k |-> IF u = k THEN last ELSE g[u]]
  <2>2. ASSUME NEW u \in 0 .. k
        PROVE  h[u] = IF u < 10 THEN <<u>> ELSE Append(h[u \div 10], u % 10)
    <3>1. u >= 10 => u \div 10 \in 0 .. (u - 1)
      OBVIOUS
    <3>2. u >= 10 => h[u \div 10] = g[u \div 10]
      BY <3>1
    <3>3. CASE u = k
      BY <3>2, <3>3
    <3>4. CASE u # k
      <4>1. u \in 0 .. (k - 1) /\ h[u] = g[u]
        BY <3>4
      <4> HIDE DEF h, last
      <4>2. g[u] = IF u < 10 THEN <<u>> ELSE Append(g[u \div 10], u % 10)
        BY <2>1, <4>1 DEF DigitsUpTo
      <4> QED BY <3>2, <4>1, <4>2
    <3> QED BY <3>3, <3>4
  <2>3. h = [u \in 0 .. k |-> h[u]]
    OBVIOUS
  <2> HIDE DEF h
  <2>4. DigitsUpTo(h, k)
    BY <2>2, <2>3 DEF DigitsUpTo
  <2> QED BY <1>3, <2>4
<1> HIDE DEF S
<1>4. n \in S
  BY <1>2, <1>3, Induction
<1>5. PICK f : DigitsUpTo(f, n)
  BY <1>4 DEF S
<1>6. Digits = CHOOSE g : g = [u \in 0 .. Wide - 1 |->
                                 IF u < 10 THEN <<u>> ELSE Append(g[u \div 10], u % 10)]
  BY DEF Digits
<1>7. Digits = [u \in 0 .. Wide - 1 |->
                  IF u < 10 THEN <<u>> ELSE Append(Digits[u \div 10], u % 10)]
  BY <1>1, <1>5, <1>6 DEF DigitsUpTo
<1> QED BY <1>7

\* The digits stand for the number, and are digits.
Represents(digits, v) ==
  /\ digits \in Seq(0 .. 10) /\ digits # <<>> /\ \A i \in DOMAIN digits : digits[i] # 10
  /\ Numeral(digits)[Len(digits)] = v

LEMMA DigitsRepresent ==
  ASSUME NEW v \in 0 .. Wide - 1
  PROVE  Represents(Digits[v], v)
<1> DEFINE S == {u \in 0 .. Wide - 1 : ~Represents(Digits[u], u)}
<1>1. Wide \in Nat
  BY NumbersAssumption
<1>2. S \in SUBSET Nat
  BY <1>1
<1>3. ASSUME S # {}
      PROVE  FALSE
  <2>1. PICK m \in S : \A j \in S : m <= j
    <3> HIDE DEF S
    <3> QED BY <1>2, <1>3, FirstOf
  <2>2. m \in 0 .. Wide - 1 /\ m \in Nat /\ ~Represents(Digits[m], m)
    BY <1>1, <2>1
  <2>3. CASE m < 10
    <3>1. Digits[m] = <<m>>
      BY <2>2, <2>3, DigitsIs
    <3> DEFINE one == <<m>>
    <3>2. one \in Seq(0 .. 10) /\ one # <<>> /\ Len(one) = 1 /\ one[1] = m /\ DOMAIN one = {1}
      BY <2>2, <2>3
    <3> HIDE DEF one
    <3>3. Numeral(one)[0] = 0 /\ Numeral(one)[1] = Numeral(one)[0] * 10 + one[1]
      <4>1. IsNumeral(Numeral(one), one)
        BY <3>2, NumeralIs
      <4>2. PICK v1 : v1 = Numeral(one)
        OBVIOUS
      <4>3. v1[0] = 0 /\ \A i \in 1 .. 1 : v1[i] = v1[i-1] * 10 + one[i]
        BY <3>2, <4>1, <4>2 DEF IsNumeral
      <4>4. v1[1] = v1[0] * 10 + one[1]
        BY <4>3
      <4> QED BY <4>2, <4>3, <4>4
    <3>4. Represents(one, m)
      BY <2>2, <2>3, <3>2, <3>3 DEF Represents
    <3> QED BY <2>2, <3>1, <3>4 DEF one
  <2>4. CASE m >= 10
    <3>1. PICK q, r : q = m \div 10 /\ r = m % 10
      OBVIOUS
    <3>2. q \in 0 .. Wide - 1 /\ q < m /\ r \in 0 .. 9 /\ m = q * 10 + r
      BY <1>1, <2>2, <2>4, <3>1
    <3>3. Represents(Digits[q], q)
      <4>1. q \notin S
        <5> HIDE DEF S
        <5> QED BY <2>1, <2>2, <3>2
      <4> QED BY <3>2, <4>1
    <3>4. Digits[m] = Append(Digits[q], r)
      <4>1. Digits[m] = IF m < 10 THEN <<m>> ELSE Append(Digits[m \div 10], m % 10)
        <5> HIDE DEF S
        <5> QED BY <2>2, DigitsIs
      <4>2. ~(m < 10)
        BY <2>2, <2>4
      <4> QED BY <3>1, <4>1, <4>2
    <3>5. PICK ds : ds = Digits[q]
      OBVIOUS
    <3>6. PICK longer : longer = Append(ds, r)
      OBVIOUS
    <3>7. ds \in Seq(0 .. 10) /\ r \in 0 .. 10 /\ \A i \in DOMAIN ds : ds[i] # 10
      BY <3>2, <3>3, <3>5 DEF Represents
    <3>8. Numeral(longer)[Len(longer)] = m
      <4>1. Numeral(longer)[Len(longer)] = Numeral(ds)[Len(ds)] * 10 + r
        BY <3>6, <3>7, AppendNumeral
      <4>2. Numeral(ds)[Len(ds)] = q
        BY <3>3, <3>5 DEF Represents
      <4> QED BY <3>2, <4>1, <4>2
    <3>9. longer \in Seq(0 .. 10) /\ longer # <<>> /\ \A i \in DOMAIN longer : longer[i] # 10
      BY <3>2, <3>6, <3>7
    <3>10. Represents(longer, m)
      BY <3>8, <3>9 DEF Represents
    <3> QED BY <2>2, <3>4, <3>5, <3>6, <3>10
  <2> QED BY <2>2, <2>3, <2>4
<1> QED BY <1>3

-----------------------------------------------------------------------------
(* Lua numbers as integers.                                                *)

\* What a double or a sign leaves open.
Vague(x, type) == \/ x.kind = "float" /\ x.twice \notin -2 * Exact .. 2 * Exact
                  \/ x.kind = "string" /\ x.neg /\ ~Signed(type)

\* The integer that is read of x is the one that x stands for, or x is refused for
\* a reason.
Reads(r, x, type) ==
  \/ \E w \in Int : Denotes(x) = Taken(w) /\ r = Taken(w)
  \/ /\ r = Refused
     /\ \/ Denotes(x) = Refused
        \/ \E w \in Int : Denotes(x) = Taken(w) /\ ~InRange(w, type)
        \/ Vague(x, type)

WideOf(type) == IF Signed(type) THEN "int8" ELSE "uint8"

LEMMA Ranges ==
  /\ \A w \in Int : InRange(w, "int8") <=> -(Wide \div 2) <= w /\ w <= Wide \div 2 - 1
  /\ \A w \in Int : InRange(w, "uint8") <=> 0 <= w /\ w <= Wide - 1
  /\ \A w \in Int : InRange(w, "int4") <=> -(Narrow \div 2) <= w /\ w <= Narrow \div 2 - 1
  /\ \A w \in Int : InRange(w, "uint4") <=> 0 <= w /\ w <= Narrow - 1
<1>1. IsWide("int8") /\ IsWide("uint8") /\ ~IsWide("int4") /\ ~IsWide("uint4")
  BY DEF IsWide
<1>2. Signed("int8") /\ ~Signed("uint8") /\ Signed("int4") /\ ~Signed("uint4")
  BY DEF Signed
<1>3. \A w \in Int : InRange(w, "int8") <=> -(Wide \div 2) <= w /\ w <= Wide \div 2 - 1
  BY <1>1, <1>2 DEF InRange, Least, Greatest, Span
<1>4. \A w \in Int : InRange(w, "uint8") <=> 0 <= w /\ w <= Wide - 1
  BY <1>1, <1>2 DEF InRange, Least, Greatest, Span
<1>5. \A w \in Int : InRange(w, "int4") <=> -(Narrow \div 2) <= w /\ w <= Narrow \div 2 - 1
  BY <1>1, <1>2 DEF InRange, Least, Greatest, Span
<1>6. \A w \in Int : InRange(w, "uint4") <=> 0 <= w /\ w <= Narrow - 1
  BY <1>1, <1>2 DEF InRange, Least, Greatest, Span
<1> QED BY <1>3, <1>4, <1>5, <1>6

Sizes == /\ Wide \in Nat /\ Narrow \in Nat /\ Exact \in Nat
         /\ Wide > 0 /\ Narrow > 0 /\ Exact > 0
         /\ Wide = 2 * (Wide \div 2) /\ Wide \div 2 \in Nat /\ Wide \div 2 > 0
         /\ Narrow = 2 * (Narrow \div 2) /\ Narrow \div 2 \in Nat /\ Narrow \div 2 > 0
         /\ Narrow <= Exact /\ 2 * Exact <= Wide

LEMMA SizesAre == Sizes
  BY NumbersAssumption DEF Sizes

\* A string.
LEMMA StringDenotes ==
  ASSUME NEW neg \in BOOLEAN, NEW digits \in Seq(0 .. 10),
         NEW value, value = Numeral(digits)[Len(digits)]
  PROVE  /\ value \in Nat
         /\ Denotes(LuaString(neg, digits))
              = IF digits # <<>> /\ (\A i \in DOMAIN digits : digits[i] # 10)
                THEN Taken(IF neg THEN -value ELSE value) ELSE Refused
<1>1. value \in Nat
  <2>1. IsNumeral(Numeral(digits), digits) /\ Len(digits) \in 0 .. Len(digits)
    BY NumeralIs
  <2> QED BY <2>1 DEF IsNumeral
<1> DEFINE x == LuaString(neg, digits)
<1>2. x.kind = "string" /\ x.neg = neg /\ x.digits = digits
  BY DEF LuaString
<1>3. Denotes(x) = IF x.digits = <<>> \/ (\E i \in DOMAIN x.digits : x.digits[i] = 10) THEN Refused
                   ELSE LET v == Numeral(x.digits)[Len(x.digits)]
                        IN  Taken(IF x.neg THEN -v ELSE v)
  <2> HIDE DEF x
  <2> QED BY <1>2 DEF Denotes
<1> HIDE DEF x
<1>4. Denotes(x) = IF digits = <<>> \/ (\E i \in DOMAIN digits : digits[i] = 10) THEN Refused
                   ELSE Taken(IF neg THEN -value ELSE value)
  BY <1>2, <1>3
<1>5. Denotes(x) = IF digits # <<>> /\ (\A i \in DOMAIN digits : digits[i] # 10)
                   THEN Taken(IF neg THEN -value ELSE value) ELSE Refused
  BY <1>4, Zenon
<1> QED BY <1>1, <1>5 DEF x

LEMMA StringReads ==
  ASSUME NEW neg \in BOOLEAN, NEW digits \in Seq(0 .. 10), NEW x, x = LuaString(neg, digits)
  PROVE  Reads(SignedOf(x), x, "int8") /\ Reads(UnsignedOf(x), x, "uint8")
<1>1. PICK value : value = Numeral(digits)[Len(digits)]
  OBVIOUS
<1>2. PICK proper \in BOOLEAN :
         proper = (digits # <<>> /\ (\A i \in DOMAIN digits : digits[i] # 10))
  OBVIOUS
<1>3. /\ value \in Nat
      /\ Denotes(x) = IF proper THEN Taken(IF neg THEN -value ELSE value) ELSE Refused
  BY <1>1, <1>2, StringDenotes
<1>4. \A limit \in Nat : limit < Wide =>
         ParseUnsigned(digits, limit) = IF proper /\ value <= limit THEN Taken(value) ELSE Refused
  BY <1>1, <1>2, ParseUnsignedIs
<1>5. x.kind = "string" /\ x.neg = neg /\ x.digits = digits
  BY DEF LuaString
<1>6. Reads(SignedOf(x), x, "int8")
  <2> DEFINE limit == IF neg THEN Wide \div 2 ELSE Wide \div 2 - 1
             magnitude == ParseUnsigned(digits, limit)
  <2>1. limit \in Nat /\ limit < Wide
    BY SizesAre DEF Sizes
  <2>2. magnitude = IF proper /\ value <= limit THEN Taken(value) ELSE Refused
    <3> HIDE DEF limit
    <3> QED BY <1>4, <2>1
  <2>3. SignedOf(x) = IF magnitude.ok /\ neg THEN Taken(-magnitude.v) ELSE magnitude
    BY <1>5 DEF SignedOf, ParseSigned
  <2> HIDE DEF magnitude, limit
  <2>4. CASE proper /\ value <= limit
    <3>1. magnitude = Taken(value) /\ Taken(value).ok /\ Taken(value).v = value
      BY <2>2, <2>4 DEF Taken
    <3>2. SignedOf(x) = Taken(IF neg THEN -value ELSE value)
      BY <2>3, <3>1
    <3>3. Denotes(x) = Taken(IF neg THEN -value ELSE value)
      BY <1>3, <2>4
    <3>4. (IF neg THEN -value ELSE value) \in Int
      BY <1>3
    <3> QED BY <3>2, <3>3, <3>4 DEF Reads
  <2>5. CASE ~proper
    <3>1. SignedOf(x) = Refused
      BY <2>2, <2>3, <2>5 DEF Refused
    <3>2. Denotes(x) = Refused
      BY <1>3, <2>5
    <3> QED BY <3>1, <3>2 DEF Reads
  <2>6. CASE proper /\ ~(value <= limit)
    <3>1. SignedOf(x) = Refused
      BY <2>2, <2>3, <2>6 DEF Refused
    <3>2. PICK w \in Int : w = IF neg THEN -value ELSE value
      BY <1>3
    <3>3. Denotes(x) = Taken(w)
      BY <1>3, <2>6, <3>2
    <3>4. ~(-(Wide \div 2) <= w /\ w <= Wide \div 2 - 1)
      BY <1>3, <2>6, <3>2, SizesAre DEF Sizes, limit
    <3>5. ~InRange(w, "int8")
      BY <3>4, Ranges
    <3> QED BY <3>1, <3>3, <3>5 DEF Reads
  <2> QED BY <2>4, <2>5, <2>6
<1>7. Reads(UnsignedOf(x), x, "uint8")
  <2>1. CASE neg
    <3>1. UnsignedOf(x) = Refused
      BY <1>5, <2>1 DEF UnsignedOf
    <3>2. Vague(x, "uint8")
      BY <1>5, <2>1 DEF Vague, Signed
    <3> QED BY <3>1, <3>2 DEF Reads
  <2>2. CASE ~neg
    <3>1. UnsignedOf(x) = ParseUnsigned(digits, Wide - 1)
      BY <1>5, <2>2 DEF UnsignedOf
    <3>2. PICK limit \in Nat : limit = Wide - 1 /\ limit < Wide
      BY SizesAre DEF Sizes
    <3>3. UnsignedOf(x) = IF proper /\ value <= limit THEN Taken(value) ELSE Refused
      BY <1>4, <3>1, <3>2
    <3>4. Denotes(x) = IF proper THEN Taken(value) ELSE Refused
      BY <1>3, <2>2
    <3>5. proper /\ ~(value <= limit) => ~InRange(value, "uint8")
      BY <1>3, <3>2, Ranges, SizesAre DEF Sizes
    <3> QED BY <1>3, <3>3, <3>4, <3>5 DEF Reads
  <2> QED BY <2>1, <2>2
<1> QED BY <1>6, <1>7

\* An integer, a double, and what is no number.
LEMMA IntegerReads ==
  ASSUME NEW v \in Int, InRange(v, "int8"), NEW x, x = LuaInteger(v)
  PROVE  Reads(SignedOf(x), x, "int8") /\ Reads(UnsignedOf(x), x, "uint8")
<1>1. x.kind = "integer" /\ x.v = v
  BY DEF LuaInteger
<1>2. Denotes(x) = Taken(v) /\ SignedOf(x) = Taken(v)
  BY <1>1 DEF Denotes, SignedOf
<1>3. UnsignedOf(x) = IF v >= 0 THEN Taken(v) ELSE Refused
  BY <1>1 DEF UnsignedOf
<1>4. v < 0 => ~InRange(v, "uint8")
  BY Ranges
<1>5. Reads(SignedOf(x), x, "int8")
  BY <1>2 DEF Reads
<1>6. Reads(UnsignedOf(x), x, "uint8")
  BY <1>2, <1>3, <1>4 DEF Reads
<1> QED BY <1>5, <1>6

LEMMA FloatReads ==
  ASSUME NEW h \in Int, NEW x, x = LuaFloat(h)
  PROVE  Reads(SignedOf(x), x, "int8") /\ Reads(UnsignedOf(x), x, "uint8")
<1>1. x.kind = "float" /\ x.twice = h
  BY DEF LuaFloat
<1>2. PICK w \in Int : w = h \div 2 /\ (h % 2 = 0 => h = 2 * w)
  OBVIOUS
<1>3. Denotes(x) = IF h % 2 = 0 THEN Taken(w) ELSE Refused
  BY <1>1, <1>2 DEF Denotes
<1>4. SignedOf(x) = FromFloat(h, -Exact) /\ UnsignedOf(x) = FromFloat(h, 0)
  BY <1>1 DEF SignedOf, UnsignedOf
<1>5. \A type : ~(-2 * Exact <= h /\ h <= 2 * Exact) => Vague(x, type)
  BY <1>1, SizesAre DEF Vague, Sizes
<1>6. ASSUME NEW least \in Int, NEW type, least = -Exact \/ least = 0,
             least = 0 => type = "uint8"
      PROVE  Reads(FromFloat(h, least), x, type)
  <2>1. FromFloat(h, least) = IF h < 2 * least \/ h > 2 * Exact \/ h % 2 # 0 THEN Refused
                              ELSE Taken(w)
    BY <1>2 DEF FromFloat
  <2>2. CASE h % 2 # 0
    BY <1>3, <2>1, <2>2 DEF Reads
  <2>3. CASE h % 2 = 0 /\ ~(-2 * Exact <= h /\ h <= 2 * Exact)
    <3>1. Vague(x, type)
      BY <1>5, <2>3
    <3>2. FromFloat(h, least) = Refused
      BY <1>6, <2>1, <2>3, SizesAre DEF Sizes
    <3> QED BY <3>1, <3>2 DEF Reads
  <2>4. CASE h % 2 = 0 /\ h < 2 * least /\ least = 0
    <3>1. w < 0
      BY <1>2, <2>4
    <3>2. ~InRange(w, type)
      BY <1>6, <2>4, <3>1, Ranges
    <3>3. FromFloat(h, least) = Refused
      BY <2>1, <2>4
    <3> QED BY <1>3, <2>4, <3>2, <3>3 DEF Reads
  <2>5. CASE h % 2 = 0 /\ ~(h < 2 * least) /\ ~(h > 2 * Exact)
    BY <1>3, <2>1, <2>5 DEF Reads
  <2> QED BY <1>6, <2>2, <2>3, <2>4, <2>5, SizesAre DEF Sizes
<1>7. Reads(SignedOf(x), x, "int8")
  BY <1>4, <1>6, SizesAre DEF Sizes
<1>8. Reads(UnsignedOf(x), x, "uint8")
  BY <1>4, <1>6, SizesAre DEF Sizes
<1> QED BY <1>7, <1>8

LEMMA OtherReads ==
  ASSUME NEW x, x.kind \notin NumberKinds
  PROVE  Reads(SignedOf(x), x, "int8") /\ Reads(UnsignedOf(x), x, "uint8")
<1>1. x.kind # "integer" /\ x.kind # "float" /\ x.kind # "string"
  BY DEF NumberKinds
<1>2. Denotes(x) = Refused
  BY <1>1 DEF Denotes
<1>3. SignedOf(x) = Refused /\ UnsignedOf(x) = Refused
  BY <1>1 DEF SignedOf, UnsignedOf
<1> QED BY <1>2, <1>3 DEF Reads

\* A Lua value that is a number is one that Lua has.
LEMMA NumberReads ==
  ASSUME NEW x, x.kind \in NumberKinds => x \in LuaNumbers
  PROVE  Reads(SignedOf(x), x, "int8") /\ Reads(UnsignedOf(x), x, "uint8")
<1>1. CASE x.kind \notin NumberKinds
  BY <1>1, OtherReads
<1>2. CASE x \in [kind : {"integer"}, v : Least("int8") .. Greatest("int8")]
  <2>1. PICK v : v = x.v
    OBVIOUS
  <2>2. x = LuaInteger(v) /\ v \in Least("int8") .. Greatest("int8")
    BY <1>2, <2>1 DEF LuaInteger
  <2>3. v \in Int /\ InRange(v, "int8")
    BY <2>2 DEF InRange
  <2> QED BY <2>2, <2>3, IntegerReads
<1>3. CASE x \in [kind : {"float"}, twice : Int]
  <2>1. PICK h : h = x.twice
    OBVIOUS
  <2>2. x = LuaFloat(h) /\ h \in Int
    BY <1>3, <2>1 DEF LuaFloat
  <2> QED BY <2>2, FloatReads
<1>4. CASE x \in [kind : {"string"}, neg : BOOLEAN, digits : Seq(0 .. 10)]
  <2>1. PICK neg, digits : neg = x.neg /\ digits = x.digits
    OBVIOUS
  <2>2. x = LuaString(neg, digits) /\ neg \in BOOLEAN /\ digits \in Seq(0 .. 10)
    BY <1>4, <2>1 DEF LuaString
  <2> QED BY <2>2, StringReads
<1> QED BY <1>1, <1>2, <1>3, <1>4 DEF LuaNumbers

LEMMA WithinWide ==
  ASSUME NEW type \in IntegerTypes, NEW w \in Int, InRange(w, type)
  PROVE  InRange(w, WideOf(type))
<1>1. Signed("int8") /\ ~Signed("uint8") /\ Signed("int4") /\ ~Signed("uint4")
  BY DEF Signed
<1>2. CASE type = "int8" \/ type = "uint8"
  BY <1>1, <1>2 DEF WideOf
<1>3. CASE type = "int4"
  <2>1. -(Narrow \div 2) <= w /\ w <= Narrow \div 2 - 1
    BY <1>3, Ranges
  <2>2. -(Wide \div 2) <= w /\ w <= Wide \div 2 - 1
    BY <2>1, SizesAre DEF Sizes
  <2> QED BY <1>1, <1>3, <2>2, Ranges DEF WideOf
<1>4. CASE type = "uint4"
  <2>1. 0 <= w /\ w <= Narrow - 1
    BY <1>4, Ranges
  <2>2. 0 <= w /\ w <= Wide - 1
    BY <2>1, SizesAre DEF Sizes
  <2> QED BY <1>1, <1>4, <2>2, Ranges DEF WideOf
<1> QED BY <1>2, <1>3, <1>4 DEF IntegerTypes

\* A Lua value becomes the integer that it stands for, or there is a reason why not.
LEMMA IntegerToComReads ==
  ASSUME NEW x, x.kind \in NumberKinds => x \in LuaNumbers, NEW type \in IntegerTypes
  PROVE  /\ Reads(IntegerToCom(x, type), x, type)
         /\ IntegerToCom(x, type).ok => InRange(IntegerToCom(x, type).v, type)
<1> DEFINE r == IF Signed(type) THEN SignedOf(x) ELSE UnsignedOf(x)
<1>1. Reads(r, x, WideOf(type))
  BY NumberReads DEF WideOf
<1>2. IntegerToCom(x, type) = IF r.ok /\ InRange(r.v, type) THEN r ELSE Refused
  BY DEF IntegerToCom
<1>3. Vague(x, WideOf(type)) => Vague(x, type)
  BY DEF Vague, WideOf, Signed
<1> HIDE DEF r
<1>4. ~Refused.ok
  BY DEF Refused
<1>5. CASE r = Refused
  <2>1. IntegerToCom(x, type) = Refused
    BY <1>2, <1>4, <1>5
  <2>2. \A w : Taken(w) # Refused
    BY DEF Taken, Refused
  <2>3. \/ Denotes(x) = Refused
        \/ \E w \in Int : Denotes(x) = Taken(w) /\ ~InRange(w, WideOf(type))
        \/ Vague(x, WideOf(type))
    BY <1>1, <1>5, <2>2 DEF Reads
  <2>4. \A w \in Int : ~InRange(w, WideOf(type)) => ~InRange(w, type)
    BY WithinWide
  <2>5. Reads(Refused, x, type)
    BY <1>3, <2>3, <2>4 DEF Reads
  <2> QED BY <1>4, <2>1, <2>5
<1>6. CASE r # Refused
  <2>1. PICK w \in Int : Denotes(x) = Taken(w) /\ r = Taken(w)
    BY <1>1, <1>6 DEF Reads
  <2>2. r.ok /\ r.v = w
    BY <2>1 DEF Taken
  <2>3. CASE InRange(w, type)
    <3>1. IntegerToCom(x, type) = r
      BY <1>2, <2>2, <2>3
    <3> QED BY <2>1, <2>2, <2>3, <3>1 DEF Reads
  <2>4. CASE ~InRange(w, type)
    <3>1. IntegerToCom(x, type) = Refused
      BY <1>2, <2>2, <2>4
    <3> QED BY <1>4, <2>1, <2>4, <3>1 DEF Reads
  <2> QED BY <2>3, <2>4
<1> QED BY <1>5, <1>6

\* An integer comes back from Lua: as an integer, as a double, as a string.
LEMMA FloatBack ==
  ASSUME NEW type \in IntegerTypes, NEW v \in Int, InRange(v, type), -Exact <= v, v <= Exact
  PROVE  IntegerToCom(LuaFloat(2 * v), type) = Taken(v)
<1> DEFINE x == LuaFloat(2 * v)
<1>1. x.kind = "float" /\ x.twice = 2 * v
  BY DEF LuaFloat
<1> HIDE DEF x
<1>2. SignedOf(x) = FromFloat(2 * v, -Exact) /\ UnsignedOf(x) = FromFloat(2 * v, 0)
  BY <1>1 DEF SignedOf, UnsignedOf
<1>3. (2 * v) % 2 = 0 /\ (2 * v) \div 2 = v /\ ~(2 * v < 2 * (-Exact)) /\ ~(2 * v > 2 * Exact)
  BY SizesAre DEF Sizes
<1>4. FromFloat(2 * v, -Exact) = Taken(v)
  BY <1>3 DEF FromFloat
<1>5. 0 <= v => FromFloat(2 * v, 0) = Taken(v)
  <2>1. 0 <= v => ~(2 * v < 2 * 0)
    OBVIOUS
  <2> QED BY <1>3, <2>1 DEF FromFloat
<1>6. ~Signed(type) => 0 <= v
  BY Ranges DEF IntegerTypes, Signed
<1>7. Taken(v).ok /\ Taken(v).v = v
  BY DEF Taken
<1>8. (IF Signed(type) THEN SignedOf(x) ELSE UnsignedOf(x)) = Taken(v)
  BY <1>2, <1>4, <1>5, <1>6
<1> QED BY <1>7, <1>8 DEF IntegerToCom, x

LEMMA IntegerBack ==
  ASSUME NEW type \in IntegerTypes, NEW v \in Int, InRange(v, type)
  PROVE  IntegerToCom(LuaInteger(v), type) = Taken(v)
<1> DEFINE x == LuaInteger(v)
<1>1. x.kind = "integer" /\ x.v = v
  BY DEF LuaInteger
<1> HIDE DEF x
<1>2. SignedOf(x) = Taken(v) /\ (v >= 0 => UnsignedOf(x) = Taken(v))
  BY <1>1 DEF SignedOf, UnsignedOf
<1>3. ~Signed(type) => v >= 0
  BY Ranges DEF IntegerTypes, Signed
<1>4. Taken(v).ok /\ Taken(v).v = v
  BY DEF Taken
<1>5. (IF Signed(type) THEN SignedOf(x) ELSE UnsignedOf(x)) = Taken(v)
  BY <1>2, <1>3
<1> QED BY <1>4, <1>5 DEF IntegerToCom, x

LEMMA StringBack ==
  ASSUME NEW type \in {"int8", "uint8"}, NEW v \in Int, InRange(v, type)
  PROVE  IntegerToCom(LuaString(v < 0, Digits[Wrapped(IF v < 0 THEN -(v + 1) + 1 ELSE v)]), type)
           = Taken(v)
<1>1. PICK m \in Int : m = IF v < 0 THEN -(v + 1) + 1 ELSE v
  OBVIOUS
<1>2. v = (IF v < 0 THEN -m ELSE m) /\ m >= 0
  BY <1>1
<1>3. /\ type = "int8" => m <= (IF v < 0 THEN Wide \div 2 ELSE Wide \div 2 - 1)
      /\ type = "uint8" => ~(v < 0) /\ m <= Wide - 1
  BY <1>1, Ranges, SizesAre DEF Sizes
<1>4. m \in 0 .. Wide - 1 /\ Wrapped(m) = m
  BY <1>2, <1>3, SizesAre DEF Sizes, Wrapped
<1>5. PICK digits : digits = Digits[m]
  OBVIOUS
<1>6. Represents(digits, m)
  BY <1>4, <1>5, DigitsRepresent
<1>7. \A limit \in Nat : limit < Wide /\ m <= limit => ParseUnsigned(digits, limit) = Taken(m)
  BY <1>6, ParseUnsignedIs DEF Represents
<1> DEFINE neg == v < 0
<1>8. neg \in BOOLEAN /\ (neg <=> v < 0)
  OBVIOUS
<1> HIDE DEF neg
<1> DEFINE x == LuaString(neg, digits)
<1>9. x.kind = "string" /\ x.neg = neg /\ x.digits = digits
  BY DEF LuaString
<1> HIDE DEF x
<1>10. Taken(v).ok /\ Taken(v).v = v /\ Taken(m).ok /\ Taken(m).v = m
  BY DEF Taken
<1>11. CASE type = "int8"
  <2>1. PICK limit \in Nat : limit = (IF neg THEN Wide \div 2 ELSE Wide \div 2 - 1)
    BY SizesAre DEF Sizes
  <2>2. limit < Wide /\ m <= limit
    <3>1. CASE neg
      BY <1>3, <1>8, <1>11, <2>1, <3>1, SizesAre DEF Sizes
    <3>2. CASE ~neg
      BY <1>3, <1>8, <1>11, <2>1, <3>2, SizesAre DEF Sizes
    <3> QED BY <3>1, <3>2
  <2>3. ParseUnsigned(digits, limit) = Taken(m)
    BY <1>7, <2>2
  <2>4. ParseSigned(x) = IF neg THEN Taken(-m) ELSE Taken(m)
    BY <1>9, <1>10, <2>1, <2>3 DEF ParseSigned
  <2>5. SignedOf(x) = Taken(v)
    BY <1>2, <1>8, <1>9, <2>4 DEF SignedOf
  <2>6. IntegerToCom(x, type) = Taken(v)
    BY <1>10, <1>11, <2>5 DEF IntegerToCom, Signed
  <2> QED BY <1>1, <1>4, <1>5, <2>6 DEF x, neg
<1>12. CASE type = "uint8"
  <2>1. PICK limit \in Nat : limit = Wide - 1 /\ limit < Wide
    BY SizesAre DEF Sizes
  <2>2. ParseUnsigned(digits, Wide - 1) = Taken(m)
    BY <1>3, <1>7, <1>12, <2>1
  <2>3. ~neg /\ m = v
    BY <1>2, <1>3, <1>8, <1>12
  <2>4. UnsignedOf(x) = Taken(v)
    BY <1>9, <2>2, <2>3 DEF UnsignedOf
  <2>5. IntegerToCom(x, type) = Taken(v)
    BY <1>10, <1>12, <2>4 DEF IntegerToCom, Signed
  <2> QED BY <1>1, <1>4, <1>5, <2>5 DEF x, neg
<1> QED BY <1>11, <1>12

LEMMA NumberBack ==
  ASSUME NEW type \in IntegerTypes, NEW v \in Int, InRange(v, type), NEW lua53 \in BOOLEAN
  PROVE  IntegerToCom(IntegerToLua(v, type, lua53), type) = Taken(v)
<1>1. CASE ~IsWide(type)
  <2>1. -Exact <= v /\ v <= Exact
    BY <1>1, Ranges, SizesAre DEF Sizes, IntegerTypes, IsWide
  <2>2. IntegerToLua(v, type, lua53) = LuaFloat(2 * v)
    BY <1>1 DEF IntegerToLua
  <2> QED BY <2>1, <2>2, FloatBack
<1>2. CASE IsWide(type)
  <2>1. IntegerToLua(v, type, lua53) = PushInteger(v, lua53)
    BY <1>2 DEF IntegerToLua
  <2>2. CASE lua53 /\ InRange(v, "int8")
    <3>1. PushInteger(v, lua53) = LuaInteger(v)
      BY <2>2 DEF PushInteger
    <3> QED BY <2>1, <3>1, IntegerBack
  <2>3. CASE ~(lua53 /\ InRange(v, "int8")) /\ -Exact <= v /\ v <= Exact
    <3>1. PushInteger(v, lua53) = LuaFloat(2 * v)
      BY <2>3 DEF PushInteger
    <3> QED BY <2>1, <2>3, <3>1, FloatBack
  <2>4. CASE ~(lua53 /\ InRange(v, "int8")) /\ ~(-Exact <= v /\ v <= Exact)
    <3>1. PushInteger(v, lua53)
            = LuaString(v < 0, Digits[Wrapped(IF v < 0 THEN -(v + 1) + 1 ELSE v)])
      BY <2>4, Zenon DEF PushInteger
    <3>2. type \in {"int8", "uint8"}
      BY <1>2 DEF IsWide
    <3> QED BY <2>1, <3>1, <3>2, StringBack
  <2> QED BY <2>2, <2>3, <2>4
<1> QED BY <1>1, <1>2

-----------------------------------------------------------------------------
(* Variants.                                                               *)

\* A variant becomes a Lua value that becomes the same variant.
Returns(x, h) == /\ ~IsRefused(ComToLua(x, h))
                 /\ LuaToCom(ComToLua(x, h), h) = x

LEMMA TypedCrosses ==
  ASSUME NEW type, NEW y, NEW h
  PROVE  ~IsRefused(LuaTyped(type, y)) /\ LuaToCom(LuaTyped(type, y), h) = TypedToCom(type, y)
<1> DEFINE x == LuaTyped(type, y)
<1>1. x.kind = "typed" /\ x.type = type /\ x.value = y
  BY DEF LuaTyped
<1>2. x # NoConversion
  BY <1>1 DEF NoConversion
<1>3. x # Variant("exception")
  BY DEF LuaTyped, Variant
<1> HIDE DEF x
<1>4. ~IsRefused(x)
  BY <1>2, <1>3 DEF IsRefused
<1>5. LuaToCom(x, h) = TypedToCom(type, y)
  BY <1>1 DEF LuaToCom
<1> QED BY <1>4, <1>5 DEF x

LEMMA ObjectCrosses ==
  ASSUME NEW what, NEW h
  PROVE  ~IsRefused(LuaObject(what)) /\ LuaToCom(LuaObject(what), h) = ObjectToCom(what)
<1> DEFINE x == LuaObject(what)
<1>1. x.kind = "object" /\ x.object = what
  BY DEF LuaObject
<1>2. x # NoConversion
  BY <1>1 DEF NoConversion
<1>3. x # Variant("exception")
  BY DEF LuaObject, Variant
<1> HIDE DEF x
<1>4. ~IsRefused(x)
  BY <1>2, <1>3 DEF IsRefused
<1>5. LuaToCom(x, h) = ObjectToCom(what)
  BY <1>1 DEF LuaToCom
<1> QED BY <1>4, <1>5 DEF x

\* What com2lua makes of a variant with luacom.TableVariants.
LEMMA PlainReturns ==
  ASSUME NEW x \in [vt : {"VT_EMPTY", "VT_NULL"}], NEW h, h.tables
  PROVE  Returns(x, h)
<1>1. CASE x.vt = "VT_EMPTY"
  <2>1. ComToLua(x, h) = LuaTyped("empty", LuaNil)
    BY <1>1 DEF ComToLua, Explicit, IntegerVts, RealVts
  <2>2. TypedToCom("empty", LuaNil) = Variant("VT_EMPTY")
    BY DEF TypedToCom
  <2>3. x = Variant("VT_EMPTY")
    BY <1>1 DEF Variant
  <2> QED BY <2>1, <2>2, <2>3, TypedCrosses DEF Returns
<1>2. CASE x.vt = "VT_NULL"
  <2>1. ComToLua(x, h) = LuaTyped("null", LuaNil)
    BY <1>2 DEF ComToLua, Explicit, IntegerVts, RealVts
  <2>2. TypedToCom("null", LuaNil) = Variant("VT_NULL")
    BY DEF TypedToCom
  <2>3. x = Variant("VT_NULL")
    BY <1>2 DEF Variant
  <2> QED BY <2>1, <2>2, <2>3, TypedCrosses DEF Returns
<1> QED BY <1>1, <1>2

LEMMA ErrorReturns ==
  ASSUME NEW x \in [vt : {"VT_ERROR"}, scode : Int], x.scode = 0, NEW h, h.tables
  PROVE  Returns(x, h)
<1>1. ComToLua(x, h) = LuaTyped("error", LuaNil)
  BY DEF ComToLua, Explicit, IntegerVts, RealVts
<1>2. TypedToCom("error", LuaNil) = ErrorVariant(0)
  BY DEF TypedToCom
<1>3. x = ErrorVariant(0)
  BY DEF ErrorVariant
<1> QED BY <1>1, <1>2, <1>3, TypedCrosses DEF Returns

LEMMA BoolReturns ==
  ASSUME NEW x \in [vt : {"VT_BOOL"}, bool : BOOLEAN], NEW h, h.tables
  PROVE  Returns(x, h)
<1>1. PICK b \in BOOLEAN : x.bool = b /\ x = BoolVariant(b)
  BY DEF BoolVariant
<1>2. ComToLua(x, h) = LuaTyped("bool", LuaBool(b))
  BY <1>1 DEF ComToLua, Explicit, IntegerVts, RealVts
<1>3. TypedToCom("bool", LuaBool(b)) = BoolVariant(LuaBool(b) = LuaBool(TRUE))
  BY DEF TypedToCom
<1>4. LuaBool(b) = LuaBool(TRUE) <=> b
  <2>1. LuaBool(b).bool = b /\ LuaBool(TRUE).bool = TRUE
    BY DEF LuaBool
  <2> QED BY <1>1, <2>1
<1>5. BoolVariant(LuaBool(b) = LuaBool(TRUE)) = BoolVariant(b)
  BY <1>1, <1>4, Zenon
<1>6. TypedToCom("bool", LuaBool(b)) = x
  BY <1>1, <1>3, <1>5
<1> QED BY <1>2, <1>6, TypedCrosses DEF Returns

LEMMA TextReturns ==
  ASSUME NEW x \in [vt : {"VT_BSTR"}, string : [kind : {"text"}, text : Seq({"x", "NUL"})]],
         UpToNul(x.string) = x.string, NEW h, h.tables
  PROVE  Returns(x, h)
<1>1. PICK s : x.string = s /\ x = StringVariant(s)
  BY DEF StringVariant
<1>2. ComToLua(x, h) = LuaTyped("string", s)
  BY <1>1 DEF ComToLua, Explicit, IntegerVts, RealVts
<1>3. TypedToCom("string", s) = StringVariant(UpToNul(s))
  BY DEF TypedToCom
<1> QED BY <1>1, <1>2, <1>3, TypedCrosses DEF Returns

LEMMA IntegerReturns ==
  ASSUME NEW vt \in IntegerVts, NEW v \in Int, InRange(v, TypeName[vt]),
         NEW x, x = IntegerVariant(vt, v), NEW h, h.tables, h.lua53 \in BOOLEAN
  PROVE  Returns(x, h)
<1>1. PICK type : type = TypeName[vt]
  OBVIOUS
<1>2. /\ vt = "VT_I8" => type = "int8"
      /\ vt = "VT_UI8" => type = "uint8"
      /\ vt = "VT_I4" => type = "int4"
      /\ vt = "VT_UI4" => type = "uint4"
  BY <1>1 DEF TypeName
<1>3. type \in IntegerTypes
  BY <1>2 DEF IntegerVts, IntegerTypes
<1>4. x.vt = vt /\ x.int = v
  BY DEF IntegerVariant
<1>5. PICK y : y = IntegerToLua(v, type, h.lua53)
  OBVIOUS
<1>6. ComToLua(x, h) = LuaTyped(type, y)
  <2>1. ComToLua(x, h) = Explicit(h.tables, TypeName[vt], IntegerToLua(v, TypeName[vt], h.lua53))
    BY <1>4 DEF ComToLua, IntegerVts, RealVts
  <2> QED BY <1>1, <1>5, <2>1 DEF Explicit
<1>7. IntegerToCom(y, type) = Taken(v)
  BY <1>1, <1>3, <1>5, NumberBack
<1>8. TypedToCom(type, y) = IntegerOrError(vt, IntegerToCom(y, type))
  BY <1>2 DEF TypedToCom, IntegerVts
<1>9. IntegerOrError(vt, Taken(v)) = x
  BY DEF IntegerOrError, Taken
<1> QED BY <1>6, <1>7, <1>8, <1>9, TypedCrosses DEF Returns

LEMMA RealReturns ==
  ASSUME NEW x \in [vt : RealVts, twice : Int], NEW h, h.tables
  PROVE  Returns(x, h)
<1>1. PICK vt, t : x.vt = vt /\ x.twice = t /\ x = RealVariant(vt, t) /\ vt \in RealVts
  BY DEF RealVariant
<1>2. PICK type : type = TypeName[vt]
  OBVIOUS
<1>3. /\ vt = "VT_R4" => type = "float"
      /\ vt = "VT_R8" => type = "double"
      /\ vt = "VT_CY" => type = "currency"
      /\ vt = "VT_DECIMAL" => type = "decimal"
  BY <1>2 DEF TypeName
<1>4. ComToLua(x, h) = LuaTyped(type, LuaFloat(t))
  BY <1>1, <1>2 DEF ComToLua, Explicit, IntegerVts, RealVts
<1>5. TypedToCom(type, LuaFloat(t)) = RealFrom(vt, LuaFloat(t))
  BY <1>1, <1>3 DEF TypedToCom, RealVts
<1>6. RealFrom(vt, LuaFloat(t)) = RealVariant(vt, t)
  BY DEF RealFrom, LuaFloat
<1> QED BY <1>1, <1>4, <1>5, <1>6, TypedCrosses DEF Returns

LEMMA ObjectReturns ==
  ASSUME NEW x, NEW h,
         \/ x = ObjectVariant("VT_DISPATCH", "own")
         \/ x = ObjectVariant("VT_DISPATCH", "other")
         \/ x = ObjectVariant("VT_UNKNOWN", "unknown")
  PROVE  Returns(x, h)
<1>1. CASE x = ObjectVariant("VT_DISPATCH", "own")
  <2>1. ComToLua(x, h) = LuaObject("served table")
    BY <1>1 DEF ComToLua, ObjectVariant, DispatchToLua, IntegerVts, RealVts
  <2>2. ObjectToCom("served table") = x
    BY <1>1 DEF ObjectToCom
  <2> QED BY <2>1, <2>2, ObjectCrosses DEF Returns
<1>2. CASE x = ObjectVariant("VT_DISPATCH", "other")
  <2>1. ComToLua(x, h) = LuaObject("LuaCOM object")
    BY <1>2 DEF ComToLua, ObjectVariant, DispatchToLua, IntegerVts, RealVts
  <2>2. ObjectToCom("LuaCOM object") = x
    BY <1>2 DEF ObjectToCom
  <2> QED BY <2>1, <2>2, ObjectCrosses DEF Returns
<1>3. CASE x = ObjectVariant("VT_UNKNOWN", "unknown")
  <2>1. ComToLua(x, h) = LuaObject("IUnknown")
    BY <1>3 DEF ComToLua, ObjectVariant, UnknownToLua, IntegerVts, RealVts
  <2>2. ObjectToCom("IUnknown") = x
    BY <1>3 DEF ObjectToCom
  <2> QED BY <2>1, <2>2, ObjectCrosses DEF Returns
<1> QED BY <1>1, <1>2, <1>3

\* A variant that Lua can say comes back.
LEMMA VariantReturns ==
  ASSUME NEW x \in Variants, Sayable(x), NEW h \in Settings, h.tables
  PROVE  Returns(x, h)
<1>1. h.lua53 \in BOOLEAN
  BY DEF Settings
<1>2. /\ x.vt \notin {"VT_ARRAY", "VT_ARRAY|VT_UI1", "VT_DATE"}
      /\ x.vt = "VT_ERROR" => x.scode = 0
      /\ x.vt = "VT_BSTR" => UpToNul(x.string) = x.string
      /\ x.vt = "VT_UNKNOWN" => x.object = "unknown"
      /\ x.vt = "VT_DISPATCH" => x.object # "NULL"
  BY DEF Sayable
<1>3. CASE x \in UNION {[vt : {vt}, int : Least(TypeName[vt]) .. Greatest(TypeName[vt])] :
                           vt \in IntegerVts}
  <2>1. PICK vt \in IntegerVts :
           x \in [vt : {vt}, int : Least(TypeName[vt]) .. Greatest(TypeName[vt])]
    BY <1>3
  <2>2. PICK v : v = x.int
    OBVIOUS
  <2>3. x = IntegerVariant(vt, v) /\ v \in Least(TypeName[vt]) .. Greatest(TypeName[vt])
    BY <2>1, <2>2 DEF IntegerVariant
  <2>4. v \in Int /\ InRange(v, TypeName[vt])
    BY <2>3 DEF InRange
  <2> QED BY <1>1, <2>3, <2>4, IntegerReturns
<1>4. CASE x \in [vt : RealVts, twice : Int]
  BY <1>4, RealReturns
<1>5. CASE x \in [vt : {"VT_EMPTY", "VT_NULL"}]
  BY <1>5, PlainReturns
<1>6. CASE x \in [vt : {"VT_ERROR"}, scode : Int]
  BY <1>2, <1>6, ErrorReturns
<1>7. CASE x \in [vt : {"VT_BOOL"}, bool : BOOLEAN]
  BY <1>7, BoolReturns
<1>8. CASE x \in [vt : {"VT_BSTR", "VT_ARRAY|VT_UI1"},
                  string : [kind : {"text"}, text : Seq({"x", "NUL"})]]
  <2>1. x \in [vt : {"VT_BSTR"}, string : [kind : {"text"}, text : Seq({"x", "NUL"})]]
    BY <1>2, <1>8
  <2>2. UpToNul(x.string) = x.string
    BY <1>2, <2>1
  <2> QED BY <2>1, <2>2, TextReturns
<1>9. CASE x \in [vt : {"VT_DATE"}, time : [days : Int, part : 0 .. DayParts - 1]]
  BY <1>2, <1>9
<1>10. CASE x \in [vt : {"VT_DISPATCH"}, object : {"NULL", "own", "other"}]
  <2>1. x = ObjectVariant("VT_DISPATCH", "own") \/ x = ObjectVariant("VT_DISPATCH", "other")
    BY <1>2, <1>10 DEF ObjectVariant
  <2> QED BY <2>1, ObjectReturns
<1>11. CASE x \in [vt : {"VT_UNKNOWN"}, object : {"own", "other", "enumerator", "unknown"}]
  <2>1. x = ObjectVariant("VT_UNKNOWN", "unknown")
    BY <1>2, <1>11 DEF ObjectVariant
  <2> QED BY <2>1, ObjectReturns
<1> QED BY <1>3, <1>4, <1>5, <1>6, <1>7, <1>8, <1>9, <1>10, <1>11, Zenon DEF Variants

-----------------------------------------------------------------------------
(* The calendar.                                                           *)

Leap(year) == IF IsLeapYear(year) THEN 1 ELSE 0

LEMMA Twelve == \A m \in 1 .. 12 : \/ m = 1 \/ m = 2 \/ m = 3 \/ m = 4 \/ m = 5 \/ m = 6
                                   \/ m = 7 \/ m = 8 \/ m = 9 \/ m = 10 \/ m = 11 \/ m = 12
  OBVIOUS

\* The lengths of the months.
LEMMA MonthLengths ==
  ASSUME NEW year
  PROVE  /\ DaysInMonth(year, 1) = 31 /\ DaysInMonth(year, 2) = 28 + Leap(year)
         /\ DaysInMonth(year, 3) = 31 /\ DaysInMonth(year, 4) = 30
         /\ DaysInMonth(year, 5) = 31 /\ DaysInMonth(year, 6) = 30
         /\ DaysInMonth(year, 7) = 31 /\ DaysInMonth(year, 8) = 31
         /\ DaysInMonth(year, 9) = 30 /\ DaysInMonth(year, 10) = 31
         /\ DaysInMonth(year, 11) = 30 /\ DaysInMonth(year, 12) = 31
  BY DEF DaysInMonth, Leap

Ends(l) == <<0, 31, 59 + l, 90 + l, 120 + l, 151 + l, 181 + l, 212 + l, 243 + l, 273 + l,
             304 + l, 334 + l>>
MonthEnds(f, l) ==
  /\ f[1] = 0 /\ f[2] = 31 /\ f[3] = 59 + l /\ f[4] = 90 + l /\ f[5] = 120 + l
  /\ f[6] = 151 + l /\ f[7] = 181 + l /\ f[8] = 212 + l /\ f[9] = 243 + l
  /\ f[10] = 273 + l /\ f[11] = 304 + l /\ f[12] = 334 + l

\* The days before each month.
LEMMA MonthsBeforeIs ==
  ASSUME NEW year
  PROVE  MonthEnds(MonthsBefore(year), Leap(year))
<1> DEFINE l == Leap(year)
           len == [m \in 1 .. 12 |-> DaysInMonth(year, m)]
           g == [m \in 1 .. 12 |-> Ends(l)[m]]
           IsBefore(f) == f = [m \in 1 .. 12 |-> IF m = 1 THEN 0 ELSE f[m-1] + DaysInMonth(year, m - 1)]
<1>0. l \in Int
  BY DEF Leap
<1>1. MonthEnds(g, l)
  BY DEF MonthEnds, Ends
<1>2. ASSUME NEW f, MonthEnds(f, l), NEW m \in 1 .. 12
      PROVE  f[m] = IF m = 1 THEN 0 ELSE f[m-1] + DaysInMonth(year, m - 1)
  <2> HIDE DEF l
  <2>1. Leap(year) = l
    BY DEF l
  <2> QED BY <1>0, <1>2, <2>1, Twelve, MonthLengths DEF MonthEnds
<1>3. IsBefore(g)
  <2>1. \A m \in 1 .. 12 : g[m] = IF m = 1 THEN 0 ELSE g[m-1] + DaysInMonth(year, m - 1)
    BY <1>1, <1>2
  <2>2. g = [m \in 1 .. 12 |-> g[m]]
    OBVIOUS
  <2> HIDE DEF g
  <2> QED BY <2>1, <2>2
<1>4. MonthsBefore(year) = CHOOSE f : IsBefore(f)
  BY DEF MonthsBefore
<1>5. IsBefore(MonthsBefore(year))
  BY <1>3, <1>4
<1> DEFINE f == MonthsBefore(year)
<1>6. \A m \in 1 .. 12 : f[m] = IF m = 1 THEN 0 ELSE f[m-1] + DaysInMonth(year, m - 1)
  BY <1>5
<1> HIDE DEF f, l
<1>7. Leap(year) = l
  BY DEF l
<1>8. /\ f[1] = 0 /\ f[2] = f[1] + 31 /\ f[3] = f[2] + (28 + l) /\ f[4] = f[3] + 31
      /\ f[5] = f[4] + 30 /\ f[6] = f[5] + 31 /\ f[7] = f[6] + 30 /\ f[8] = f[7] + 31
      /\ f[9] = f[8] + 31 /\ f[10] = f[9] + 30 /\ f[11] = f[10] + 31 /\ f[12] = f[11] + 30
  BY <1>6, <1>7, MonthLengths
<1>9. MonthEnds(f, l)
  BY <1>0, <1>8 DEF MonthEnds
<1> QED BY <1>7, <1>9 DEF f

\* The days of a month follow those of the months before it.
LEMMA MonthsFollow ==
  ASSUME NEW year
  PROVE  /\ \A m \in 1 .. 12 : /\ MonthsBefore(year)[m] \in Nat
                               /\ DaysInMonth(year, m) \in Nat
                               /\ DaysInMonth(year, m) >= 28
                               /\ MonthsBefore(year)[m] + DaysInMonth(year, m) <= 365 + Leap(year)
         /\ \A m, n \in 1 .. 12 : m < n =>
              MonthsBefore(year)[m] + DaysInMonth(year, m) <= MonthsBefore(year)[n]
         /\ \A m \in 1 .. 11 :
              MonthsBefore(year)[m] + DaysInMonth(year, m) = MonthsBefore(year)[m + 1]
         /\ MonthsBefore(year)[12] + DaysInMonth(year, 12) = 365 + Leap(year)
<1> DEFINE f == MonthsBefore(year)
           l == Leap(year)
<1>1. l \in {0, 1}
  BY DEF Leap
<1>2. MonthEnds(f, l)
  BY MonthsBeforeIs
<1>3. /\ DaysInMonth(year, 1) = 31 /\ DaysInMonth(year, 2) = 28 + l
         /\ DaysInMonth(year, 3) = 31 /\ DaysInMonth(year, 4) = 30
         /\ DaysInMonth(year, 5) = 31 /\ DaysInMonth(year, 6) = 30
         /\ DaysInMonth(year, 7) = 31 /\ DaysInMonth(year, 8) = 31
         /\ DaysInMonth(year, 9) = 30 /\ DaysInMonth(year, 10) = 31
         /\ DaysInMonth(year, 11) = 30 /\ DaysInMonth(year, 12) = 31
  BY MonthLengths
<1> HIDE DEF f, l
<1>4. \A m \in 1 .. 12 : /\ f[m] \in Nat
                         /\ DaysInMonth(year, m) \in Nat /\ DaysInMonth(year, m) >= 28
                         /\ f[m] + DaysInMonth(year, m) <= 365 + l
  BY <1>1, <1>2, <1>3, Twelve DEF MonthEnds
<1>5. \A m \in 1 .. 11 : f[m] + DaysInMonth(year, m) = f[m + 1]
  <2> SUFFICES ASSUME NEW m \in 1 .. 11 PROVE f[m] + DaysInMonth(year, m) = f[m + 1]
    OBVIOUS
  <2>1. m \in 1 .. 12 /\ m # 12
    OBVIOUS
  <2> QED BY <1>1, <1>2, <1>3, <2>1, Twelve DEF MonthEnds
<1>6. \A m, n \in 1 .. 12 : m <= n => f[m] <= f[n]
  BY <1>1, <1>2, Twelve, SMTT(30) DEF MonthEnds
<1>7. ASSUME NEW m \in 1 .. 12, NEW n \in 1 .. 12, m < n
      PROVE  f[m] + DaysInMonth(year, m) <= f[n]
  <2>1. m \in 1 .. 11 /\ m + 1 \in 1 .. 12 /\ m + 1 <= n
    BY <1>7
  <2> QED BY <1>4, <1>5, <1>6, <2>1
<1>8. f[12] + DaysInMonth(year, 12) = 365 + l
  BY <1>1, <1>2, <1>3 DEF MonthEnds
<1> QED BY <1>4, <1>5, <1>7, <1>8 DEF f, l

\* Years follow each other.
LEMMA YearLength ==
  ASSUME NEW year \in Int
  PROVE  /\ DaysBefore(year) \in Int
         /\ DaysBefore(year + 1) = DaysBefore(year) + 365 + Leap(year)
  BY DEF DaysBefore, Leap, IsLeapYear

LEMMA YearsFollow ==
  ASSUME NEW y \in Int, NEW z \in Int, y < z
  PROVE  DaysBefore(y + 1) <= DaysBefore(z)
  BY DEF DaysBefore

\* The year that DateOf guesses is at most one off.
LEMMA Guess ==
  ASSUME NEW year \in Int, NEW n \in Nat, n <= 365,
         NEW days, days = DaysBefore(year) + n + 1 - (DaysBefore(1899) + 364)
  PROVE  /\ days \in Int
         /\ LET guess == 1900 + ((400 * days) \div 146097)
            IN  guess \in Int /\ year \in guess - 1 .. guess + 1
  BY SMTT(30) DEF DaysBefore

\* A record of a date, field by field.
DateIs(year, month, day, dow, hour, minute, second, ms) ==
  [year |-> year, month |-> month, day |-> day, dow |-> dow,
   hour |-> hour, minute |-> minute, second |-> second, ms |-> ms]

\* The first days of years and months.
LEMMA FirstOfYear ==
  ASSUME NEW year \in Int
  PROVE  /\ DayNumber(year, 1, 1) \in Int
         /\ DayNumber(year, 1, 1) = DaysBefore(year) + 1 - (DaysBefore(1899) + 364)
<1>1. MonthsBefore(year)[1] = 0
  BY MonthsBeforeIs DEF MonthEnds
<1>2. DaysBefore(year) \in Int /\ DaysBefore(1899) \in Int
  BY YearLength
<1> QED BY <1>1, <1>2 DEF DayNumber

LEMMA NextYear ==
  ASSUME NEW year \in Int
  PROVE  DayNumber(year + 1, 1, 1) = DayNumber(year, 1, 1) + 365 + Leap(year)
<1> DEFINE next == year + 1
<1>1. /\ DaysBefore(year) \in Int /\ DaysBefore(1899) \in Int
      /\ DaysBefore(next) = DaysBefore(year) + 365 + Leap(year)
      /\ Leap(year) \in Int /\ next \in Int
  BY YearLength DEF Leap
<1> HIDE DEF next
<1>2. /\ DayNumber(year, 1, 1) = DaysBefore(year) + 1 - (DaysBefore(1899) + 364)
      /\ DayNumber(next, 1, 1) = DaysBefore(next) + 1 - (DaysBefore(1899) + 364)
  BY <1>1, FirstOfYear
<1>3. DayNumber(next, 1, 1) = DayNumber(year, 1, 1) + 365 + Leap(year)
  BY <1>1, <1>2
<1> QED BY <1>3 DEF next

LEMMA FirstOfMonth ==
  ASSUME NEW year \in Int, NEW month \in 1 .. 12
  PROVE  DayNumber(year, month, 1) = DayNumber(year, 1, 1) + MonthsBefore(year)[month]
<1>1. MonthsBefore(year)[1] = 0 /\ MonthsBefore(year)[month] \in Nat
  BY MonthsBeforeIs, MonthsFollow DEF MonthEnds
<1>2. DaysBefore(year) \in Int /\ DaysBefore(1899) \in Int
  BY YearLength
<1> QED BY <1>1, <1>2 DEF DayNumber

Contains(year, month, day, days) ==
  /\ days \in Int
  /\ DayNumber(year, 1, 1) <= days /\ days < DayNumber(year + 1, 1, 1)
  /\ DayNumber(year, month, 1) \in Int
  /\ days = DayNumber(year, month, 1) + day - 1
  /\ days < DayNumber(year, month, 1) + DaysInMonth(year, month)
  /\ \E n \in Nat : n <= 365 /\ days = DaysBefore(year) + n + 1 - (DaysBefore(1899) + 364)

LEMMA DayNumberIs ==
  ASSUME NEW year \in Int, NEW month \in 1 .. 12,
         NEW day \in Nat, 1 <= day, day <= DaysInMonth(year, month),
         NEW days, days = DayNumber(year, month, day)
  PROVE  Contains(year, month, day, days)
<1>1. /\ MonthsBefore(year)[month] \in Nat /\ DaysInMonth(year, month) \in Nat
      /\ MonthsBefore(year)[month] + DaysInMonth(year, month) <= 365 + Leap(year)
  BY MonthsFollow
<1>2. DaysBefore(year) \in Int /\ DaysBefore(1899) \in Int
  BY YearLength
<1>3. Leap(year) \in {0, 1}
  BY DEF Leap
<1>4. /\ DayNumber(year, 1, 1) \in Int
      /\ DayNumber(year, 1, 1) = DaysBefore(year) + 1 - (DaysBefore(1899) + 364)
      /\ DayNumber(year + 1, 1, 1) = DayNumber(year, 1, 1) + 365 + Leap(year)
      /\ DayNumber(year, month, 1) = DayNumber(year, 1, 1) + MonthsBefore(year)[month]
  <2>1. /\ DayNumber(year, 1, 1) \in Int
        /\ DayNumber(year, 1, 1) = DaysBefore(year) + 1 - (DaysBefore(1899) + 364)
    BY FirstOfYear
  <2>2. DayNumber(year + 1, 1, 1) = DayNumber(year, 1, 1) + 365 + Leap(year)
    BY NextYear
  <2>3. DayNumber(year, month, 1) = DayNumber(year, 1, 1) + MonthsBefore(year)[month]
    BY FirstOfMonth
  <2> QED BY <2>1, <2>2, <2>3
<1>5. days = DayNumber(year, month, 1) + day - 1
  BY <1>1, <1>2 DEF DayNumber
<1>6. /\ days \in Int
      /\ DayNumber(year, 1, 1) <= days /\ days < DayNumber(year + 1, 1, 1)
      /\ DayNumber(year, month, 1) \in Int
      /\ days < DayNumber(year, month, 1) + DaysInMonth(year, month)
  BY <1>1, <1>3, <1>4, <1>5
<1>7. \E n \in Nat : n <= 365 /\ days = DaysBefore(year) + n + 1 - (DaysBefore(1899) + 364)
  <2>1. PICK n \in Nat : n = MonthsBefore(year)[month] + (day - 1)
    BY <1>1
  <2>2. n <= 365 /\ days = DaysBefore(year) + n + 1 - (DaysBefore(1899) + 364)
    BY <1>1, <1>2, <1>3, <1>4, <1>5, <2>1
  <2> QED BY <2>2
<1> QED BY <1>5, <1>6, <1>7 DEF Contains

\* A day has one year, month and day of the month.
LEMMA OneYear ==
  ASSUME NEW y \in Int, NEW z \in Int, NEW days \in Int,
         DayNumber(y, 1, 1) <= days, days < DayNumber(y + 1, 1, 1),
         DayNumber(z, 1, 1) <= days, days < DayNumber(z + 1, 1, 1)
  PROVE  y = z
<1>1. DaysBefore(1899) \in Int
  BY YearLength
<1>2. ASSUME NEW x \in Int
      PROVE  /\ DaysBefore(x) \in Int
             /\ DayNumber(x, 1, 1) = DaysBefore(x) + 1 - (DaysBefore(1899) + 364)
  BY YearLength, FirstOfYear
<1>3. ~(y < z)
  <2>1. y < z => DaysBefore(y + 1) <= DaysBefore(z)
    BY YearsFollow
  <2> QED BY <1>1, <1>2, <2>1
<1>4. ~(z < y)
  <2>1. z < y => DaysBefore(z + 1) <= DaysBefore(y)
    BY YearsFollow
  <2> QED BY <1>1, <1>2, <2>1
<1> QED BY <1>3, <1>4

LEMMA OneMonth ==
  ASSUME NEW year \in Int, NEW m \in 1 .. 12, NEW n \in 1 .. 12, NEW days \in Int,
         DayNumber(year, m, 1) <= days, days < DayNumber(year, m, 1) + DaysInMonth(year, m),
         DayNumber(year, n, 1) <= days, days < DayNumber(year, n, 1) + DaysInMonth(year, n)
  PROVE  m = n
<1>1. /\ DayNumber(year, m, 1) = DayNumber(year, 1, 1) + MonthsBefore(year)[m]
      /\ DayNumber(year, n, 1) = DayNumber(year, 1, 1) + MonthsBefore(year)[n]
      /\ DayNumber(year, 1, 1) \in Int
  <2>1. DayNumber(year, m, 1) = DayNumber(year, 1, 1) + MonthsBefore(year)[m]
    BY FirstOfMonth
  <2>2. DayNumber(year, n, 1) = DayNumber(year, 1, 1) + MonthsBefore(year)[n]
    BY FirstOfMonth
  <2> QED BY <2>1, <2>2, FirstOfYear
<1>2. /\ MonthsBefore(year)[m] \in Nat /\ DaysInMonth(year, m) \in Nat
      /\ MonthsBefore(year)[n] \in Nat /\ DaysInMonth(year, n) \in Nat
      /\ m < n => MonthsBefore(year)[m] + DaysInMonth(year, m) <= MonthsBefore(year)[n]
      /\ n < m => MonthsBefore(year)[n] + DaysInMonth(year, n) <= MonthsBefore(year)[m]
  BY MonthsFollow
<1> QED BY <1>1, <1>2

ClockShows(time, hour, minute, second) ==
  time \div 3600 = hour /\ (time \div 60) % 60 = minute /\ time % 60 = second

LEMMA DateOfIs ==
  ASSUME NEW year \in Int, NEW month \in 1 .. 12,
         NEW day \in Nat, 1 <= day, day <= DaysInMonth(year, month),
         NEW time, NEW hour, NEW minute, NEW second, ClockShows(time, hour, minute, second),
         NEW ms, NEW days, days = DayNumber(year, month, day)
  PROVE  DateOf(days, time, ms)
           = DateIs(year, month, day, Weekday(days), hour, minute, second, ms)
<1> DEFINE guess == 1900 + ((400 * days) \div 146097)
           IsYear(y) == DayNumber(y, 1, 1) <= days /\ days < DayNumber(y + 1, 1, 1)
           theYear == CHOOSE y \in guess - 1 .. guess + 1 : IsYear(y)
           IsMonth(y, m) == /\ DayNumber(y, m, 1) <= days
                            /\ days < DayNumber(y, m, 1) + DaysInMonth(y, m)
           theMonth(y) == CHOOSE m \in 1 .. 12 : IsMonth(y, m)
<1>0. Contains(year, month, day, days)
  BY DayNumberIs
<1>1. DateOf(days, time, ms)
        = DateIs(theYear, theMonth(theYear), days - DayNumber(theYear, theMonth(theYear), 1) + 1,
                 Weekday(days), hour, minute, second, ms)
  <2>1. DateOf(days, time, ms)
          = DateIs(theYear, theMonth(theYear), days - DayNumber(theYear, theMonth(theYear), 1) + 1,
                   Weekday(days), time \div 3600, (time \div 60) % 60, time % 60, ms)
    BY DEF DateOf, DateIs
  <2>2. time \div 3600 = hour /\ (time \div 60) % 60 = minute /\ time % 60 = second
    BY DEF ClockShows
  <2> HIDE DEF theYear, theMonth, IsYear, IsMonth, guess
  <2> QED BY <2>1, <2>2
<1>2. IsYear(year) /\ IsMonth(year, month)
  <2> HIDE DEF guess, theYear, theMonth
  <2>1. /\ DayNumber(year, 1, 1) <= days /\ days < DayNumber(year + 1, 1, 1)
        /\ DayNumber(year, month, 1) \in Int
        /\ days = DayNumber(year, month, 1) + day - 1
        /\ days < DayNumber(year, month, 1) + DaysInMonth(year, month)
    BY <1>0 DEF Contains
  <2> QED BY <2>1
<1> HIDE DEF theMonth, IsMonth
<1>3. days \in Int /\ guess \in Int /\ year \in guess - 1 .. guess + 1
  <2> HIDE DEF guess, theYear, IsYear
  <2>1. /\ days \in Int
        /\ \E n \in Nat : n <= 365 /\ days = DaysBefore(year) + n + 1 - (DaysBefore(1899) + 364)
    BY <1>0 DEF Contains
  <2>2. PICK n \in Nat : n <= 365 /\ days = DaysBefore(year) + n + 1 - (DaysBefore(1899) + 364)
    BY <2>1
  <2>3. LET g == 1900 + ((400 * days) \div 146097)
        IN  g \in Int /\ year \in g - 1 .. g + 1
    BY <2>2, Guess
  <2> QED BY <2>1, <2>3 DEF guess
<1> HIDE DEF guess, theYear
<1>4. theYear = year
  <2>1. ASSUME NEW y \in guess - 1 .. guess + 1, IsYear(y)
        PROVE  y = year
    <3>1. y \in Int
      BY <1>3
    <3> QED BY <1>2, <1>3, <2>1, <3>1, OneYear
  <2> HIDE DEF IsYear
  <2> QED BY <1>2, <1>3, <2>1 DEF theYear
<1> HIDE DEF IsYear
<1>5. theMonth(year) = month
  <2>1. ASSUME NEW m \in 1 .. 12, IsMonth(year, m)
        PROVE  m = month
    BY <1>2, <1>3, <2>1, OneMonth DEF IsMonth
  <2> QED BY <1>2, <2>1 DEF theMonth
<1>6. days - DayNumber(year, month, 1) + 1 = day
  <2>1. /\ DayNumber(year, month, 1) \in Int
        /\ days = DayNumber(year, month, 1) + day - 1
    BY <1>0 DEF Contains
  <2> QED BY <1>3, <2>1
<1> QED BY <1>1, <1>4, <1>5, <1>6

\* Hours, minutes and seconds are the second of the day.
TimeIs(hour, minute, second) == hour * 3600 + minute * 60 + second

LEMMA Clock ==
  ASSUME NEW h \in 0 .. 23, NEW m \in 0 .. 59, NEW s \in 0 .. 59,
         NEW t, t = TimeIs(h, m, s)
  PROVE  /\ t \in Nat /\ t < DaySeconds
         /\ ClockShows(t, h, m, s)
<1>1. t \in Nat /\ t < DaySeconds
  BY DEF DaySeconds, TimeIs
<1>2. t \div 3600 = h
  BY <1>1 DEF TimeIs
<1>3. t \div 60 = h * 60 + m /\ t % 60 = s
  BY <1>1 DEF TimeIs
<1>4. (h * 60 + m) % 60 = m
  OBVIOUS
<1> QED BY <1>1, <1>2, <1>3, <1>4 DEF ClockShows

\* The years and the milliseconds of a date.
LEMMA YearsAre ==
  /\ \A y \in Years : y \in Nat /\ 100 <= y /\ y <= 9999
  /\ \A y \in Nat : 100 <= y /\ y <= 9999 => y \in Years
<1>1. /\ FirstYear \in Nat /\ 100 <= FirstYear /\ FirstYear <= 100
      /\ LastYear \in Nat /\ 9999 <= LastYear /\ LastYear <= 9999
  BY DEF FirstYear, LastYear
<1> QED BY <1>1 DEF Years

LEMMA MillisAre ==
  /\ \A ms \in Millis : ms \in Nat /\ ms <= 999
  /\ \A ms \in Nat : ms <= 999 => ms \in Millis
<1>1. LastMs \in Nat /\ 999 <= LastMs /\ LastMs <= 999
  BY DEF LastMs
<1> QED BY <1>1 DEF Millis

\* A date is its fields.
IsFields(year, month, day, dow, hour, minute, second, ms) ==
  /\ year \in Years /\ month \in 1 .. 12 /\ day \in 1 .. 31 /\ dow \in 0 .. 6
  /\ hour \in 0 .. 23 /\ minute \in 0 .. 59 /\ second \in 0 .. 59 /\ ms \in Millis
  /\ day <= DaysInMonth(year, month)

LEMMA DateFields ==
  ASSUME NEW date, IsDate(date)
  PROVE  \E y, mo, d, w, h, mi, s, ms :
            /\ date = DateIs(y, mo, d, w, h, mi, s, ms)
            /\ IsFields(y, mo, d, w, h, mi, s, ms)
<1>1. /\ date = DateIs(date.year, date.month, date.day, date.dow, date.hour, date.minute,
                       date.second, date.ms)
      /\ IsFields(date.year, date.month, date.day, date.dow, date.hour, date.minute,
                  date.second, date.ms)
  BY DEF IsDate, DateIs, IsFields
<1> QED BY <1>1, Zenon

LEMMA FieldsOf ==
  ASSUME NEW y, NEW mo, NEW d, NEW w, NEW h, NEW mi, NEW s, NEW ms,
         NEW date, date = DateIs(y, mo, d, w, h, mi, s, ms)
  PROVE  /\ date.year = y /\ date.month = mo /\ date.day = d /\ date.dow = w
         /\ date.hour = h /\ date.minute = mi /\ date.second = s /\ date.ms = ms
  BY DEF DateIs

\* The second, the minute and so on set; the day, the month and the year set.
AtMinute(date, minute, second) == [date EXCEPT !.second = second, !.minute = minute]
AtHour(date, hour, minute, second) ==
  [date EXCEPT !.second = second, !.minute = minute, !.hour = hour]
OnWeekday(date, dow, hour, minute, second) ==
  [date EXCEPT !.second = second, !.minute = minute, !.hour = hour, !.dow = dow]
OnDay(date, day) == [date EXCEPT !.day = day]
InMonth(date, month, day) == [date EXCEPT !.day = day, !.month = month]
InYear(date, year, month, day) == [date EXCEPT !.day = day, !.month = month, !.year = year]

LEMMA ClockSet ==
  ASSUME NEW y, NEW mo, NEW d, NEW w, NEW h, NEW mi, NEW s, NEW ms,
         NEW date, date = DateIs(y, mo, d, w, h, mi, s, ms),
         NEW w2, NEW h2, NEW mi2, NEW s2
  PROVE  /\ AtMinute(date, mi2, s2) = DateIs(y, mo, d, w, h, mi2, s2, ms)
         /\ AtHour(date, h2, mi2, s2) = DateIs(y, mo, d, w, h2, mi2, s2, ms)
         /\ OnWeekday(date, w2, h2, mi2, s2) = DateIs(y, mo, d, w2, h2, mi2, s2, ms)
<1>1. PICK one : one = [date EXCEPT !.second = s2]
  OBVIOUS
<1>2. PICK two : two = [one EXCEPT !.minute = mi2]
  OBVIOUS
<1>3. PICK three : three = [two EXCEPT !.hour = h2]
  OBVIOUS
<1>4. PICK four : four = [three EXCEPT !.dow = w2]
  OBVIOUS
<1>5. one = DateIs(y, mo, d, w, h, mi, s2, ms)
  BY <1>1 DEF DateIs
<1>6. two = DateIs(y, mo, d, w, h, mi2, s2, ms)
  BY <1>2, <1>5 DEF DateIs
<1>7. three = DateIs(y, mo, d, w, h2, mi2, s2, ms)
  BY <1>3, <1>6 DEF DateIs
<1>8. four = DateIs(y, mo, d, w2, h2, mi2, s2, ms)
  BY <1>4, <1>7 DEF DateIs
<1>9. AtMinute(date, mi2, s2) = two
  BY <1>1, <1>2 DEF AtMinute
<1>10. AtHour(date, h2, mi2, s2) = three
  BY <1>1, <1>2, <1>3 DEF AtHour
<1>11. OnWeekday(date, w2, h2, mi2, s2) = four
  BY <1>1, <1>2, <1>3, <1>4 DEF OnWeekday
<1> QED BY <1>6, <1>7, <1>8, <1>9, <1>10, <1>11

LEMMA DaySet ==
  ASSUME NEW y, NEW mo, NEW d, NEW w, NEW h, NEW mi, NEW s, NEW ms,
         NEW date, date = DateIs(y, mo, d, w, h, mi, s, ms),
         NEW y2, NEW mo2, NEW d2
  PROVE  /\ OnDay(date, d2) = DateIs(y, mo, d2, w, h, mi, s, ms)
         /\ InMonth(date, mo2, d2) = DateIs(y, mo2, d2, w, h, mi, s, ms)
         /\ InYear(date, y2, mo2, d2) = DateIs(y2, mo2, d2, w, h, mi, s, ms)
<1>1. PICK one : one = [date EXCEPT !.day = d2]
  OBVIOUS
<1>2. PICK two : two = [one EXCEPT !.month = mo2]
  OBVIOUS
<1>3. PICK three : three = [two EXCEPT !.year = y2]
  OBVIOUS
<1>4. one = DateIs(y, mo, d2, w, h, mi, s, ms)
  BY <1>1 DEF DateIs
<1>5. two = DateIs(y, mo2, d2, w, h, mi, s, ms)
  BY <1>2, <1>4 DEF DateIs
<1>6. three = DateIs(y2, mo2, d2, w, h, mi, s, ms)
  BY <1>3, <1>5 DEF DateIs
<1>7. OnDay(date, d2) = one /\ InMonth(date, mo2, d2) = two
  BY <1>1, <1>2 DEF OnDay, InMonth
<1>8. InYear(date, y2, mo2, d2) = three
  BY <1>1, <1>2, <1>3 DEF InYear
<1> QED BY <1>4, <1>5, <1>6, <1>7, <1>8

\* The date that a date's day and second make is that date, with the day of the
\* week that it has.
LEMMA DateOfFields ==
  ASSUME NEW y, NEW mo, NEW d, NEW w, NEW h, NEW mi, NEW s, NEW ms,
         IsFields(y, mo, d, w, h, mi, s, ms),
         NEW t, t = TimeIs(h, mi, s), NEW days, days = DayNumber(y, mo, d)
  PROVE  /\ DateOf(days, t, ms) = DateIs(y, mo, d, Weekday(days), h, mi, s, ms)
         /\ t \in Nat /\ t < DaySeconds
<1>1. /\ y \in Int /\ mo \in 1 .. 12 /\ d \in Nat /\ 1 <= d /\ d <= DaysInMonth(y, mo)
      /\ h \in 0 .. 23 /\ mi \in 0 .. 59 /\ s \in 0 .. 59
  BY YearsAre DEF IsFields
<1>2. /\ t \in Nat /\ t < DaySeconds /\ ClockShows(t, h, mi, s)
  BY <1>1, Clock
<1>3. DateOf(days, t, ms) = DateIs(y, mo, d, Weekday(days), h, mi, s, ms)
  BY <1>1, <1>2, DateOfIs
<1> QED BY <1>2, <1>3

\* One second on, and one back.
LEMMA IncrementInDay ==
  ASSUME NEW y, NEW mo, NEW d, NEW w, NEW h, NEW mi, NEW s, NEW ms,
         IsFields(y, mo, d, w, h, mi, s, ms),
         NEW up, up = IncrementSecond(DateIs(y, mo, d, w, h, mi, s, ms))
  PROVE  /\ s < 59 => up = DateIs(y, mo, d, w, h, mi, s + 1, ms)
         /\ s = 59 /\ mi < 59 => up = DateIs(y, mo, d, w, h, mi + 1, 0, ms)
         /\ s = 59 /\ mi = 59 /\ h < 23 => up = DateIs(y, mo, d, w, h + 1, 0, 0, ms)
<1> DEFINE date == DateIs(y, mo, d, w, h, mi, s, ms)
<1>1. /\ date = DateIs(y, mo, d, w, h, mi, s, ms)
      /\ date.year = y /\ date.month = mo /\ date.day = d /\ date.dow = w
      /\ date.hour = h /\ date.minute = mi /\ date.second = s /\ date.ms = ms
  BY DEF DateIs
<1>2. up = IncrementSecond(date)
  OBVIOUS
<1> HIDE DEF date
<1>3. ASSUME s < 59
      PROVE  up = DateIs(y, mo, d, w, h, mi, s + 1, ms)
  <2>1. up = [date EXCEPT !.second = @ + 1]
    BY <1>1, <1>2, <1>3 DEF IncrementSecond, IsFields
  <2> QED BY <1>1, <2>1 DEF DateIs
<1>4. ASSUME s = 59, mi < 59
      PROVE  up = DateIs(y, mo, d, w, h, mi + 1, 0, ms)
  <2>1. up = [date EXCEPT !.second = 0, !.minute = @ + 1]
    BY <1>1, <1>2, <1>4 DEF IncrementSecond, IsFields
  <2> QED BY <1>1, <2>1 DEF DateIs
<1>5. ASSUME s = 59, mi = 59, h < 23
      PROVE  up = DateIs(y, mo, d, w, h + 1, 0, 0, ms)
  <2>1. up = [date EXCEPT !.second = 0, !.minute = 0, !.hour = @ + 1]
    BY <1>1, <1>2, <1>5 DEF IncrementSecond, IsFields
  <2> QED BY <1>1, <2>1 DEF DateIs
<1> QED BY <1>3, <1>4, <1>5

LEMMA IncrementOverMidnight ==
  ASSUME NEW y, NEW mo, NEW d, NEW w, NEW h, NEW mi, NEW s, NEW ms,
         IsFields(y, mo, d, w, h, mi, s, ms),
         NEW up, up = IncrementSecond(DateIs(y, mo, d, w, h, mi, s, ms)),
         s = 59, mi = 59, h = 23
  PROVE  /\ d < DaysInMonth(y, mo) =>
              up = DateIs(y, mo, d + 1, (w + 1) % 7, 0, 0, 0, ms)
         /\ d = DaysInMonth(y, mo) /\ mo < 12 =>
              up = DateIs(y, mo + 1, 1, (w + 1) % 7, 0, 0, 0, ms)
         /\ d = DaysInMonth(y, mo) /\ mo = 12 /\ y < 9999 =>
              up = DateIs(y + 1, 1, 1, (w + 1) % 7, 0, 0, 0, ms)
         /\ d = DaysInMonth(y, mo) /\ mo = 12 /\ y = 9999 => up = NoDate
<1> DEFINE date == DateIs(y, mo, d, w, h, mi, s, ms)
<1>1. /\ date = DateIs(y, mo, d, w, h, mi, s, ms)
      /\ date.year = y /\ date.month = mo /\ date.day = d /\ date.dow = w
      /\ date.hour = h /\ date.minute = mi /\ date.second = s /\ date.ms = ms
  BY DEF DateIs
<1>2. up = IncrementSecond(date)
  OBVIOUS
<1> HIDE DEF date
<1> DEFINE next == [date EXCEPT !.second = 0, !.minute = 0, !.hour = 0, !.dow = (@ + 1) % 7]
           day == [next EXCEPT !.day = @ + 1]
           month == [next EXCEPT !.day = 1, !.month = @ + 1]
           year == [next EXCEPT !.day = 1, !.month = 1, !.year = @ + 1]
           l == DaysInMonth(y, mo)
           x == (w + 1) % 7
<1>3. up = IF date.day < DaysInMonth(date.year, date.month) THEN day
           ELSE IF date.month < 12 THEN month
           ELSE IF date.year >= 9999 THEN NoDate
           ELSE year
  <2>1. /\ ~(date.second < 59)
        /\ ~(date.second = 59 /\ date.minute < 59)
        /\ ~(date.second = 59 /\ date.minute = 59 /\ date.hour < 23)
    BY <1>1
  <2> QED BY <1>2, <2>1 DEF IncrementSecond
<1>4. next = DateIs(y, mo, d, x, 0, 0, 0, ms)
  <2>1. (date.dow + 1) % 7 = x
    BY <1>1
  <2> HIDE DEF x
  <2>2. next = OnWeekday(date, x, 0, 0, 0)
    BY <2>1 DEF OnWeekday
  <2> HIDE DEF next
  <2> QED BY <1>1, <2>2, ClockSet
<1> HIDE DEF next, x
<1>5. next.day = d /\ next.month = mo /\ next.year = y
  BY <1>4, FieldsOf
<1>6. day = DateIs(y, mo, d + 1, x, 0, 0, 0, ms)
  BY <1>4, <1>5 DEF DateIs
<1>7. month = DateIs(y, mo + 1, 1, x, 0, 0, 0, ms)
  <2>1. month = InMonth(next, mo + 1, 1)
    BY <1>5 DEF InMonth
  <2> QED BY <1>4, <2>1, DaySet
<1>8. year = DateIs(y + 1, 1, 1, x, 0, 0, 0, ms)
  <2>1. year = InYear(next, y + 1, 1, 1)
    BY <1>5 DEF InYear
  <2> QED BY <1>4, <2>1, DaySet
<1> HIDE DEF day, month, year
<1>9. up = IF d < l THEN day ELSE IF mo < 12 THEN month
           ELSE IF y >= 9999 THEN NoDate ELSE year
  BY <1>1, <1>3
<1> HIDE DEF l
<1>10. /\ d < l => up = DateIs(y, mo, d + 1, x, 0, 0, 0, ms)
       /\ d = l /\ mo < 12 => up = DateIs(y, mo + 1, 1, x, 0, 0, 0, ms)
       /\ d = l /\ mo = 12 /\ y < 9999 => up = DateIs(y + 1, 1, 1, x, 0, 0, 0, ms)
       /\ d = l /\ mo = 12 /\ y = 9999 => up = NoDate
  BY <1>6, <1>7, <1>8, <1>9, YearsAre DEF IsFields
<1> QED BY <1>10 DEF x, l

LEMMA DecrementInDay ==
  ASSUME NEW y, NEW mo, NEW d, NEW w, NEW h, NEW mi, NEW s, NEW ms,
         IsFields(y, mo, d, w, h, mi, s, ms),
         NEW down, down = DecrementSecond(DateIs(y, mo, d, w, h, mi, s, ms))
  PROVE  /\ s > 0 => down = DateIs(y, mo, d, w, h, mi, s - 1, ms)
         /\ s = 0 /\ mi > 0 => down = DateIs(y, mo, d, w, h, mi - 1, 59, ms)
         /\ s = 0 /\ mi = 0 /\ h > 0 => down = DateIs(y, mo, d, w, h - 1, 59, 59, ms)
<1>0. /\ y \in Int /\ mo \in Int /\ d \in Int /\ w \in Int
      /\ h \in Nat /\ mi \in Nat /\ s \in Nat /\ d >= 1 /\ mo >= 1
  BY YearsAre DEF IsFields
<1> DEFINE date == DateIs(y, mo, d, w, h, mi, s, ms)
<1>1. /\ date = DateIs(y, mo, d, w, h, mi, s, ms)
      /\ date.year = y /\ date.month = mo /\ date.day = d /\ date.dow = w
      /\ date.hour = h /\ date.minute = mi /\ date.second = s /\ date.ms = ms
  BY DEF DateIs
<1>2. down = DecrementSecond(date)
  OBVIOUS
<1> HIDE DEF date
<1>3. ASSUME s > 0
      PROVE  down = DateIs(y, mo, d, w, h, mi, s - 1, ms)
  <2>1. down = [date EXCEPT !.second = @ - 1]
    BY <1>0, <1>1, <1>2, <1>3 DEF DecrementSecond
  <2> QED BY <1>1, <2>1 DEF DateIs
<1>4. ASSUME s = 0, mi > 0
      PROVE  down = DateIs(y, mo, d, w, h, mi - 1, 59, ms)
  <2>1. down = [date EXCEPT !.second = 59, !.minute = @ - 1]
    BY <1>0, <1>1, <1>2, <1>4 DEF DecrementSecond
  <2>2. down = AtMinute(date, mi - 1, 59)
    BY <1>0, <1>1, <2>1 DEF AtMinute
  <2> QED BY <1>1, <2>2, ClockSet
<1>5. ASSUME s = 0, mi = 0, h > 0
      PROVE  down = DateIs(y, mo, d, w, h - 1, 59, 59, ms)
  <2>1. down = [date EXCEPT !.second = 59, !.minute = 59, !.hour = @ - 1]
    BY <1>0, <1>1, <1>2, <1>5 DEF DecrementSecond
  <2>2. down = AtHour(date, h - 1, 59, 59)
    BY <1>0, <1>1, <2>1 DEF AtHour
  <2> QED BY <1>1, <2>2, ClockSet
<1> QED BY <1>3, <1>4, <1>5

LEMMA DecrementOverMidnight ==
  ASSUME NEW y, NEW mo, NEW d, NEW w, NEW h, NEW mi, NEW s, NEW ms,
         IsFields(y, mo, d, w, h, mi, s, ms),
         NEW down, down = DecrementSecond(DateIs(y, mo, d, w, h, mi, s, ms)),
         s = 0, mi = 0, h = 0
  PROVE  /\ d > 1 => down = DateIs(y, mo, d - 1, (w + 6) % 7, 23, 59, 59, ms)
         /\ d = 1 /\ mo > 1 =>
              down = DateIs(y, mo - 1, DaysInMonth(y, mo - 1), (w + 6) % 7, 23, 59, 59, ms)
         /\ d = 1 /\ mo = 1 /\ y > 100 =>
              down = DateIs(y - 1, 12, 31, (w + 6) % 7, 23, 59, 59, ms)
<1>0. /\ y \in Int /\ mo \in Int /\ d \in Int /\ w \in Int
      /\ h \in Nat /\ mi \in Nat /\ s \in Nat /\ d >= 1 /\ mo >= 1
  BY YearsAre DEF IsFields
<1> DEFINE date == DateIs(y, mo, d, w, h, mi, s, ms)
<1>1. /\ date = DateIs(y, mo, d, w, h, mi, s, ms)
      /\ date.year = y /\ date.month = mo /\ date.day = d /\ date.dow = w
      /\ date.hour = h /\ date.minute = mi /\ date.second = s /\ date.ms = ms
  BY DEF DateIs
<1>2. down = DecrementSecond(date)
  OBVIOUS
<1> HIDE DEF date
<1> DEFINE lastDay == DaysInMonth(date.year, date.month - 1)
           back == [date EXCEPT !.second = 59, !.minute = 59, !.hour = 23, !.dow = (@ + 6) % 7]
           day == [back EXCEPT !.day = @ - 1]
           month == [back EXCEPT !.month = @ - 1, !.day = lastDay]
           year == [back EXCEPT !.year = @ - 1, !.month = 12, !.day = 31]
           l == DaysInMonth(y, mo - 1)
           x == (w + 6) % 7
<1>3. down = IF date.day > 1 THEN day ELSE IF date.month > 1 THEN month
             ELSE IF date.year <= 100 THEN NoDate ELSE year
  <2>1. /\ ~(date.second > 0)
        /\ ~(date.second = 0 /\ date.minute > 0)
        /\ ~(date.second = 0 /\ date.minute = 0 /\ date.hour > 0)
    BY <1>0, <1>1
  <2> QED BY <1>2, <2>1 DEF DecrementSecond
<1>4. back = DateIs(y, mo, d, x, 23, 59, 59, ms)
  <2>1. (date.dow + 6) % 7 = x
    BY <1>1
  <2> HIDE DEF x
  <2>2. back = OnWeekday(date, x, 23, 59, 59)
    BY <2>1 DEF OnWeekday
  <2> HIDE DEF back
  <2> QED BY <1>1, <2>2, ClockSet
<1>5. lastDay = l
  BY <1>1
<1> HIDE DEF back, x, l, lastDay
<1>6. back.day = d /\ back.month = mo /\ back.year = y
  BY <1>4, FieldsOf
<1>7. day = DateIs(y, mo, d - 1, x, 23, 59, 59, ms)
  BY <1>4, <1>6 DEF DateIs
<1>8. month = DateIs(y, mo - 1, l, x, 23, 59, 59, ms)
  <2>1. month = InMonth(back, mo - 1, l)
    BY <1>5, <1>6 DEF InMonth
  <2>2. ASSUME NEW m, NEW n
        PROVE  InMonth(back, m, n) = DateIs(y, m, n, x, 23, 59, 59, ms)
    BY <1>4, DaySet
  <2> QED BY <2>1, <2>2
<1>9. year = DateIs(y - 1, 12, 31, x, 23, 59, 59, ms)
  <2>1. year = InYear(back, y - 1, 12, 31)
    BY <1>6 DEF InYear
  <2> QED BY <1>4, <2>1, DaySet
<1> HIDE DEF day, month, year
<1>10. down = IF d > 1 THEN day ELSE IF mo > 1 THEN month
              ELSE IF y <= 100 THEN NoDate ELSE year
  BY <1>0, <1>1, <1>3
<1>11. /\ d > 1 => down = DateIs(y, mo, d - 1, x, 23, 59, 59, ms)
       /\ d = 1 /\ mo > 1 => down = DateIs(y, mo - 1, l, x, 23, 59, 59, ms)
       /\ d = 1 /\ mo = 1 /\ y > 100 => down = DateIs(y - 1, 12, 31, x, 23, 59, 59, ms)
  BY <1>0, <1>7, <1>8, <1>9, <1>10
<1> QED BY <1>11 DEF x, l

\* The calendar's next day.
LEMMA IsDay ==
  ASSUME NEW y \in Int, NEW mo \in 1 .. 12, NEW d \in Nat
  PROVE  DayNumber(y, mo, d) \in Int
<1>1. MonthsBefore(y)[mo] \in Nat
  BY MonthsFollow
<1>2. DaysBefore(y) \in Int /\ DaysBefore(1899) \in Int
  BY YearLength
<1> QED BY <1>1, <1>2 DEF DayNumber

LEMMA NextDay ==
  ASSUME NEW y \in Int, NEW mo \in 1 .. 12, NEW d \in Nat, NEW e, e = d + 1
  PROVE  DayNumber(y, mo, e) = DayNumber(y, mo, d) + 1
<1>1. MonthsBefore(y)[mo] \in Nat
  BY MonthsFollow
<1>2. DaysBefore(y) \in Int /\ DaysBefore(1899) \in Int
  BY YearLength
<1> QED BY <1>1, <1>2 DEF DayNumber

LEMMA NextMonth ==
  ASSUME NEW y \in Int, NEW mo \in 1 .. 11, NEW n, n = mo + 1,
         NEW d, d = DaysInMonth(y, mo)
  PROVE  DayNumber(y, n, 1) = DayNumber(y, mo, d) + 1
<1>1. /\ MonthsBefore(y)[mo] \in Nat /\ d \in Nat /\ n \in 1 .. 12
      /\ MonthsBefore(y)[mo] + d = MonthsBefore(y)[n]
  BY MonthsFollow
<1>2. DaysBefore(y) \in Int /\ DaysBefore(1899) \in Int
  BY YearLength
<1> QED BY <1>1, <1>2 DEF DayNumber

LEMMA NewYear ==
  ASSUME NEW y \in Int, NEW z, z = y + 1
  PROVE  DayNumber(z, 1, 1) = DayNumber(y, 12, 31) + 1
<1>1. MonthsBefore(y)[12] + 31 = 365 + Leap(y) /\ MonthsBefore(y)[12] \in Nat
  BY MonthsFollow, MonthLengths
<1>2. DaysBefore(y) \in Int /\ DaysBefore(1899) \in Int /\ Leap(y) \in Int
  BY YearLength DEF Leap
<1>3. DayNumber(z, 1, 1) = DayNumber(y, 1, 1) + 365 + Leap(y)
  BY NextYear
<1>4. DayNumber(y, 1, 1) = DaysBefore(y) + 1 - (DaysBefore(1899) + 364)
  BY FirstOfYear
<1>5. DayNumber(y, 12, 31) = DaysBefore(y) + MonthsBefore(y)[12] + 31 - (DaysBefore(1899) + 364)
  BY DEF DayNumber
<1> QED BY <1>1, <1>2, <1>3, <1>4, <1>5

\* A date that shows a day, with its day of the week, and a second in it.
Shows(date, days, time, ms) ==
  \E y, mo, d, h, mi, s :
    /\ date = DateIs(y, mo, d, Weekday(days), h, mi, s, ms)
    /\ IsFields(y, mo, d, Weekday(days), h, mi, s, ms)
    /\ days = DayNumber(y, mo, d) /\ time = TimeIs(h, mi, s)

LEMMA ShowsIs ==
  ASSUME NEW date, NEW days, NEW time, NEW ms, Shows(date, days, time, ms)
  PROVE  /\ date = DateOf(days, time, ms)
         /\ date # NoDate /\ SecondOfDay(date) = time /\ date.ms = ms
         /\ time \in Nat /\ time < DaySeconds /\ days \in Int /\ ms \in Nat /\ ms <= 999
<1>1. PICK y, mo, d, h, mi, s :
         /\ date = DateIs(y, mo, d, Weekday(days), h, mi, s, ms)
         /\ IsFields(y, mo, d, Weekday(days), h, mi, s, ms)
         /\ days = DayNumber(y, mo, d) /\ time = TimeIs(h, mi, s)
  BY DEF Shows
<1>2. /\ date = DateOf(days, time, ms) /\ time \in Nat /\ time < DaySeconds
  BY <1>1, DateOfFields
<1>3. days \in Int
  <2>1. y \in Int /\ mo \in 1 .. 12 /\ d \in Nat
    BY <1>1, YearsAre DEF IsFields
  <2> QED BY <1>1, <2>1, IsDay
<1>4. /\ date.year = y /\ date.hour = h /\ date.minute = mi /\ date.second = s /\ date.ms = ms
  BY <1>1, FieldsOf
<1>5. SecondOfDay(date) = time
  BY <1>1, <1>4 DEF SecondOfDay, TimeIs
<1>6. date # NoDate /\ ms \in Nat /\ ms <= 999
  <2>1. y # 0 /\ ms \in Nat /\ ms <= 999
    BY <1>1, YearsAre, MillisAre DEF IsFields
  <2>2. NoDate.year = 0
    BY DEF NoDate
  <2> QED BY <1>4, <2>1, <2>2
<1> QED BY <1>2, <1>3, <1>4, <1>5, <1>6

WithMs(date, ms) == [date EXCEPT !.ms = ms]

LEMMA ShowsMs ==
  ASSUME NEW date, NEW days, NEW time, NEW ms, Shows(date, days, time, ms),
         NEW other \in Millis
  PROVE  Shows(WithMs(date, other), days, time, other)
<1>1. PICK y, mo, d, h, mi, s :
         /\ date = DateIs(y, mo, d, Weekday(days), h, mi, s, ms)
         /\ IsFields(y, mo, d, Weekday(days), h, mi, s, ms)
         /\ days = DayNumber(y, mo, d) /\ time = TimeIs(h, mi, s)
  BY DEF Shows
<1>2. WithMs(date, other) = DateIs(y, mo, d, Weekday(days), h, mi, s, other)
  BY <1>1 DEF DateIs, WithMs
<1>3. IsFields(y, mo, d, Weekday(days), h, mi, s, other)
  BY <1>1 DEF IsFields
<1> QED BY <1>1, <1>2, <1>3 DEF Shows

\* A date shows its own day and second.
LEMMA DateShows ==
  ASSUME NEW date, IsDate(date)
  PROVE  Shows(Weekdayed(date), DayNumber(date.year, date.month, date.day),
               SecondOfDay(date), date.ms)
<1>1. PICK y, mo, d, w, h, mi, s, ms :
         /\ date = DateIs(y, mo, d, w, h, mi, s, ms)
         /\ IsFields(y, mo, d, w, h, mi, s, ms)
  BY DateFields
<1>2. PICK days : days = DayNumber(date.year, date.month, date.day)
  OBVIOUS
<1>3. PICK x : x = Weekday(days)
  OBVIOUS
<1>4. /\ date.year = y /\ date.month = mo /\ date.day = d /\ date.hour = h
      /\ date.minute = mi /\ date.second = s /\ date.ms = ms
  BY <1>1, FieldsOf
<1>5. days = DayNumber(y, mo, d) /\ SecondOfDay(date) = TimeIs(h, mi, s)
  BY <1>2, <1>4 DEF SecondOfDay, TimeIs
<1>6. Weekdayed(date) = DateIs(y, mo, d, x, h, mi, s, ms)
  <2>1. Weekdayed(date) = [date EXCEPT !.dow = x]
    BY <1>2, <1>3 DEF Weekdayed
  <2> QED BY <1>1, <2>1 DEF DateIs
<1>7. IsFields(y, mo, d, x, h, mi, s, ms)
  <2>1. days \in Int
    <3>1. y \in Int /\ mo \in 1 .. 12 /\ d \in Nat
      BY <1>1, YearsAre DEF IsFields
    <3> QED BY <1>5, <3>1, IsDay
  <2>2. x \in 0 .. 6
    BY <1>3, <2>1 DEF Weekday
  <2> QED BY <1>1, <2>2 DEF IsFields
<1> QED BY <1>2, <1>3, <1>4, <1>5, <1>6, <1>7 DEF Shows

\* The second after one that is shown, and back again.
LEMMA NextSecond ==
  ASSUME NEW date, NEW days, NEW time, NEW ms, Shows(date, days, time, ms),
         NEW up, up = IncrementSecond(date)
  PROVE  /\ time + 1 < DaySeconds =>
              Shows(up, days, time + 1, ms) /\ DecrementSecond(up) = date
         /\ time + 1 = DaySeconds /\ days + 1 <= LastDay =>
              Shows(up, days + 1, 0, ms) /\ DecrementSecond(up) = date
<1> DEFINE w == Weekday(days)
<1>1. PICK y, mo, d, h, mi, s :
         /\ date = DateIs(y, mo, d, w, h, mi, s, ms)
         /\ IsFields(y, mo, d, w, h, mi, s, ms)
         /\ days = DayNumber(y, mo, d) /\ time = TimeIs(h, mi, s)
  BY DEF Shows
<1>2. days \in Int
  BY ShowsIs
<1> HIDE DEF w
<1>3. /\ y \in Years /\ mo \in 1 .. 12 /\ d \in 1 .. 31 /\ w \in 0 .. 6
      /\ h \in 0 .. 23 /\ mi \in 0 .. 59 /\ s \in 0 .. 59 /\ ms \in Millis
      /\ d <= DaysInMonth(y, mo)
  BY <1>1 DEF IsFields
<1>4. ASSUME s < 59
      PROVE  Shows(up, days, time + 1, ms) /\ DecrementSecond(up) = date
  <2>1. up = DateIs(y, mo, d, w, h, mi, s + 1, ms)
    BY <1>1, <1>4, IncrementInDay
  <2>2. IsFields(y, mo, d, w, h, mi, s + 1, ms) /\ time + 1 = TimeIs(h, mi, s + 1)
    BY <1>1, <1>3, <1>4 DEF IsFields, TimeIs
  <2>3. Shows(up, days, time + 1, ms)
    BY <1>1, <2>1, <2>2 DEF Shows, w
  <2>4. DecrementSecond(up) = date
    <3>1. PICK n \in Nat : n = s + 1 /\ n > 0
      BY <1>3
    <3>2. DecrementSecond(up) = DateIs(y, mo, d, w, h, mi, n - 1, ms)
      BY <2>1, <2>2, <3>1, DecrementInDay
    <3>3. n - 1 = s
      BY <1>3, <3>1
    <3> QED BY <1>1, <3>2, <3>3
  <2> QED BY <2>3, <2>4
<1>5. ASSUME s = 59, mi < 59
      PROVE  Shows(up, days, time + 1, ms) /\ DecrementSecond(up) = date
  <2>1. up = DateIs(y, mo, d, w, h, mi + 1, 0, ms)
    BY <1>1, <1>5, IncrementInDay
  <2>2. IsFields(y, mo, d, w, h, mi + 1, 0, ms) /\ time + 1 = TimeIs(h, mi + 1, 0)
    BY <1>1, <1>3, <1>5 DEF IsFields, TimeIs
  <2>3. Shows(up, days, time + 1, ms)
    BY <1>1, <2>1, <2>2 DEF Shows, w
  <2>4. DecrementSecond(up) = date
    <3>1. PICK n \in Nat : n = mi + 1 /\ n > 0
      BY <1>3
    <3>2. DecrementSecond(up) = DateIs(y, mo, d, w, h, n - 1, 59, ms)
      BY <2>1, <2>2, <3>1, DecrementInDay
    <3>3. n - 1 = mi
      BY <1>3, <3>1
    <3> QED BY <1>1, <1>5, <3>2, <3>3
  <2> QED BY <2>3, <2>4
<1>6. ASSUME s = 59, mi = 59, h < 23
      PROVE  Shows(up, days, time + 1, ms) /\ DecrementSecond(up) = date
  <2>1. up = DateIs(y, mo, d, w, h + 1, 0, 0, ms)
    BY <1>1, <1>6, IncrementInDay
  <2>2. IsFields(y, mo, d, w, h + 1, 0, 0, ms) /\ time + 1 = TimeIs(h + 1, 0, 0)
    BY <1>1, <1>3, <1>6 DEF IsFields, TimeIs
  <2>3. Shows(up, days, time + 1, ms)
    BY <1>1, <2>1, <2>2 DEF Shows, w
  <2>4. DecrementSecond(up) = date
    <3>1. PICK n \in Nat : n = h + 1 /\ n > 0
      BY <1>3
    <3>2. DecrementSecond(up) = DateIs(y, mo, d, w, n - 1, 59, 59, ms)
      BY <2>1, <2>2, <3>1, DecrementInDay
    <3>3. n - 1 = h
      BY <1>3, <3>1
    <3> QED BY <1>1, <1>6, <3>2, <3>3
  <2> QED BY <2>3, <2>4
<1>7. ASSUME s = 59, mi = 59, h = 23, days + 1 <= LastDay
      PROVE  Shows(up, days + 1, 0, ms) /\ DecrementSecond(up) = date
  <2> DEFINE x == (w + 1) % 7
  <2>1. x \in 0 .. 6 /\ (x + 6) % 7 = w /\ x = Weekday(days + 1)
    BY <1>2, <1>3 DEF w, Weekday
  <2>2. Weekday(days + 1) = x
    BY <2>1
  <2> HIDE DEF x
  <2>3. TimeIs(0, 0, 0) = 0
    BY DEF TimeIs
  <2>4. /\ d < DaysInMonth(y, mo) => up = DateIs(y, mo, d + 1, x, 0, 0, 0, ms)
        /\ d = DaysInMonth(y, mo) /\ mo < 12 => up = DateIs(y, mo + 1, 1, x, 0, 0, 0, ms)
        /\ d = DaysInMonth(y, mo) /\ mo = 12 /\ y < 9999 => up = DateIs(y + 1, 1, 1, x, 0, 0, 0, ms)
    BY <1>1, <1>7, IncrementOverMidnight DEF x
  <2>5. y \in Int /\ d \in Nat
    BY <1>3, YearsAre
  <2>6. /\ DaysInMonth(y, 12) = 31 /\ DaysInMonth(y + 1, 1) = 31
        /\ DaysInMonth(y, mo) \in Nat /\ DaysInMonth(y, mo) <= 31
    <3>2. DaysInMonth(y, 12) = 31 /\ DaysInMonth(y + 1, 1) = 31
      BY MonthLengths
    <3>3. DaysInMonth(y, mo) <= 31
      <4>1. Leap(y) \in {0, 1}
        BY DEF Leap
      <4> QED BY <1>3, <4>1, Twelve, MonthLengths
    <3>4. \A m \in 1 .. 12 : DaysInMonth(y, m) \in Nat /\ DaysInMonth(y, m) >= 28
      BY MonthsFollow
    <3> QED BY <1>3, <3>2, <3>3, <3>4
  <2>7. CASE d < DaysInMonth(y, mo)
    <3>1. PICK n \in Nat : n = d + 1 /\ n > 1
      BY <1>3
    <3>2. up = DateIs(y, mo, n, x, 0, 0, 0, ms) /\ days + 1 = DayNumber(y, mo, n)
      <4>1. DayNumber(y, mo, n) = DayNumber(y, mo, d) + 1
        <5>1. mo \in 1 .. 12 /\ n = d + 1
          BY <1>3, <3>1
        <5> QED BY <2>5, <5>1, NextDay
      <4> QED BY <1>1, <2>4, <2>7, <3>1, <4>1
    <3>3. IsFields(y, mo, n, x, 0, 0, 0, ms)
      <4>1. n \in 1 .. 31 /\ n <= DaysInMonth(y, mo)
        BY <1>3, <2>6, <2>7, <3>1
      <4> QED BY <1>3, <2>1, <4>1 DEF IsFields
    <3>4. DecrementSecond(up) = DateIs(y, mo, n - 1, w, 23, 59, 59, ms)
      BY <2>1, <3>1, <3>2, <3>3, DecrementOverMidnight
    <3>5. n - 1 = d
      BY <1>3, <3>1
    <3> QED BY <1>1, <1>7, <2>2, <2>3, <3>2, <3>3, <3>4, <3>5 DEF Shows
  <2>8. CASE d = DaysInMonth(y, mo) /\ mo < 12
    <3>1. PICK n \in 1 .. 12 : n = mo + 1 /\ n > 1
      BY <1>3, <2>8
    <3>2. up = DateIs(y, n, 1, x, 0, 0, 0, ms) /\ days + 1 = DayNumber(y, n, 1)
      <4>1. mo \in 1 .. 11
        BY <1>3, <2>8
      <4>2. DayNumber(y, n, 1) = DayNumber(y, mo, d) + 1
        BY <2>5, <2>8, <3>1, <4>1, NextMonth
      <4> QED BY <1>1, <2>4, <2>8, <3>1, <4>2
    <3>3. IsFields(y, n, 1, x, 0, 0, 0, ms)
      <4>1. DaysInMonth(y, n) >= 28 /\ DaysInMonth(y, n) \in Nat
        BY MonthsFollow
      <4> QED BY <1>3, <2>1, <4>1 DEF IsFields
    <3>4. DecrementSecond(up) = DateIs(y, n - 1, DaysInMonth(y, n - 1), w, 23, 59, 59, ms)
      BY <2>1, <3>1, <3>2, <3>3, DecrementOverMidnight
    <3>5. n - 1 = mo
      BY <1>3, <3>1
    <3> QED BY <1>1, <1>7, <2>2, <2>3, <2>8, <3>2, <3>3, <3>4, <3>5 DEF Shows
  <2>9. CASE d = DaysInMonth(y, mo) /\ mo = 12
    <3>1. d = 31
      BY <2>6, <2>9
    <3>2. y < 9999
      <4>1. y = 9999 => days = LastDay
        BY <1>1, <2>9, <3>1 DEF LastDay
      <4> QED BY <1>2, <1>3, <1>7, <4>1, YearsAre
    <3>3. PICK n \in Nat : n = y + 1 /\ n > 100
      BY <1>3, YearsAre
    <3>4. up = DateIs(n, 1, 1, x, 0, 0, 0, ms) /\ days + 1 = DayNumber(n, 1, 1)
      <4>1. DayNumber(n, 1, 1) = DayNumber(y, 12, 31) + 1
        BY <2>5, <3>3, NewYear
      <4> QED BY <1>1, <2>4, <2>9, <3>1, <3>2, <3>3, <4>1
    <3>5. IsFields(n, 1, 1, x, 0, 0, 0, ms)
      <4>1. DaysInMonth(n, 1) = 31
        BY MonthLengths
      <4> QED BY <1>3, <2>1, <3>2, <3>3, <4>1, YearsAre DEF IsFields
    <3>6. DecrementSecond(up) = DateIs(n - 1, 12, 31, w, 23, 59, 59, ms)
      BY <2>1, <3>3, <3>4, <3>5, DecrementOverMidnight
    <3>7. n - 1 = y
      BY <1>3, <3>3, YearsAre
    <3> QED BY <1>1, <1>7, <2>2, <2>3, <2>9, <3>1, <3>4, <3>5, <3>6, <3>7 DEF Shows
  <2>10. d < DaysInMonth(y, mo) \/ d = DaysInMonth(y, mo)
    BY <1>3, <2>6
  <2>11. mo < 12 \/ mo = 12
    BY <1>3
  <2> QED BY <2>7, <2>8, <2>9, <2>10, <2>11
<1>8. /\ time + 1 < DaySeconds => s < 59 \/ (s = 59 /\ mi < 59) \/ (s = 59 /\ mi = 59 /\ h < 23)
      /\ time + 1 = DaySeconds => s = 59 /\ mi = 59 /\ h = 23
  <2>1. DaySeconds = 24 * 3600
    BY DEF DaySeconds
  <2>2. time = h * 3600 + mi * 60 + s
    BY <1>1 DEF TimeIs
  <2> QED BY <1>3, <2>1, <2>2
<1> QED BY <1>4, <1>5, <1>6, <1>7, <1>8

\* The days that COM has.
LEMMA YearsGrow ==
  ASSUME NEW y \in Int, NEW z \in Int, y <= z
  PROVE  DayNumber(y, 1, 1) <= DayNumber(z, 1, 1)
<1>1. DaysBefore(y) \in Int /\ DaysBefore(z) \in Int /\ DaysBefore(1899) \in Int
  BY YearLength
<1>2. DaysBefore(y) <= DaysBefore(z)
  <2>1. DaysBefore(y + 1) = DaysBefore(y) + 365 + Leap(y) /\ Leap(y) \in Nat
    BY YearLength DEF Leap
  <2>2. y < z => DaysBefore(y + 1) <= DaysBefore(z)
    BY YearsFollow
  <2> QED BY <1>1, <2>1, <2>2
<1>3. DayNumber(y, 1, 1) = DaysBefore(y) + 1 - (DaysBefore(1899) + 364)
  BY FirstOfYear
<1>4. DayNumber(z, 1, 1) = DaysBefore(z) + 1 - (DaysBefore(1899) + 364)
  BY FirstOfYear
<1> QED BY <1>1, <1>2, <1>3, <1>4

LEMMA DayInRange ==
  ASSUME NEW date, NEW days, NEW time, NEW ms, Shows(date, days, time, ms)
  PROVE  FirstDay \in Int /\ LastDay \in Int /\ FirstDay <= days /\ days <= LastDay
<1>1. PICK y, mo, d, h, mi, s :
         /\ date = DateIs(y, mo, d, Weekday(days), h, mi, s, ms)
         /\ IsFields(y, mo, d, Weekday(days), h, mi, s, ms)
         /\ days = DayNumber(y, mo, d) /\ time = TimeIs(h, mi, s)
  BY DEF Shows
<1>2. /\ y \in Int /\ 100 <= y /\ y + 1 <= 10000 /\ mo \in 1 .. 12
      /\ d \in Nat /\ 1 <= d /\ d <= DaysInMonth(y, mo)
  BY <1>1, YearsAre DEF IsFields
<1>3. days \in Int /\ DayNumber(y, 1, 1) <= days /\ days < DayNumber(y + 1, 1, 1)
  BY <1>1, <1>2, DayNumberIs DEF Contains
<1>4. FirstDay \in Int /\ FirstDay <= DayNumber(y, 1, 1) /\ DayNumber(y, 1, 1) \in Int
  <2>1. DayNumber(100, 1, 1) <= DayNumber(y, 1, 1)
    BY <1>2, YearsGrow
  <2>2. DayNumber(100, 1, 1) \in Int
    BY IsDay
  <2>3. DayNumber(y, 1, 1) \in Int
    BY <1>2, IsDay
  <2> QED BY <2>1, <2>2, <2>3 DEF FirstDay
<1>5. LastDay \in Int /\ DayNumber(y + 1, 1, 1) <= LastDay + 1 /\ DayNumber(y + 1, 1, 1) \in Int
  <2>1. PICK n \in Int : n = y + 1
    BY <1>2
  <2>2. DayNumber(n, 1, 1) <= DayNumber(10000, 1, 1)
    BY <1>2, <2>1, YearsGrow
  <2>3. DayNumber(10000, 1, 1) = LastDay + 1
    BY NewYear DEF LastDay
  <2>4. LastDay \in Int
    BY IsDay DEF LastDay
  <2>5. DayNumber(n, 1, 1) \in Int
    BY IsDay
  <2> QED BY <2>1, <2>2, <2>3, <2>4, <2>5
<1> QED BY <1>3, <1>4, <1>5

\* The calendar's nearest second.
LEMMA NearestIs ==
  ASSUME NEW date, IsDate(date), NearestSecond(date) # NoDate,
         NEW t, t = SecondOfDay(date), NEW ms, ms = date.ms,
         NEW days, days = DayNumber(date.year, date.month, date.day)
  PROVE  /\ ms < 500 => NearestSecond(date) = DateOf(days, t, 0)
         /\ ms >= 500 /\ t + 1 < DaySeconds => NearestSecond(date) = DateOf(days, t + 1, 0)
         /\ ms >= 500 /\ t + 1 = DaySeconds =>
              days + 1 <= LastDay /\ NearestSecond(date) = DateOf(days + 1, 0, 0)
<1>1. Shows(Weekdayed(date), days, t, ms)
  BY DateShows
<1>2. t \in Nat /\ t < DaySeconds /\ days \in Int /\ ms \in Nat /\ ms <= 999
  BY <1>1, ShowsIs
<1>3. LastDay \in Int
  BY <1>1, DayInRange
<1>4. DaySeconds \in Nat
  BY DEF DaySeconds
<1> DEFINE second == t + (IF ms < 500 THEN 0 ELSE 1)
           day == days + (IF second = DaySeconds THEN 1 ELSE 0)
<1>5. /\ NearestSecond(date)
           = IF day > LastDay THEN NoDate ELSE DateOf(day, second % DaySeconds, 0)
  BY DEF NearestSecond
<1> HIDE DEF day, second
<1>6. ~(day > LastDay) /\ NearestSecond(date) = DateOf(day, second % DaySeconds, 0)
  BY <1>5
<1>7. ASSUME ms < 500
      PROVE  NearestSecond(date) = DateOf(days, t, 0)
  <2>1. second = t
    BY <1>2, <1>7 DEF second
  <2>2. day = days
    BY <1>2, <2>1 DEF day
  <2>3. second % DaySeconds = t
    BY <1>2, <1>4, <2>1
  <2> QED BY <1>6, <2>2, <2>3
<1>8. ASSUME ms >= 500, t + 1 < DaySeconds
      PROVE  NearestSecond(date) = DateOf(days, t + 1, 0)
  <2>1. second = t + 1
    BY <1>2, <1>8 DEF second
  <2>2. day = days
    BY <1>2, <1>4, <1>8, <2>1 DEF day
  <2>3. second % DaySeconds = t + 1
    BY <1>2, <1>4, <1>8, <2>1
  <2> QED BY <1>6, <2>2, <2>3
<1>9. ASSUME ms >= 500, t + 1 = DaySeconds
      PROVE  days + 1 <= LastDay /\ NearestSecond(date) = DateOf(days + 1, 0, 0)
  <2>1. second = DaySeconds
    BY <1>2, <1>9 DEF second
  <2>2. day = days + 1
    BY <1>2, <2>1 DEF day
  <2>3. second % DaySeconds = 0
    BY <1>2, <1>4, <1>9, <2>1
  <2> QED BY <1>2, <1>3, <1>6, <2>2, <2>3
<1> QED BY <1>7, <1>8, <1>9

\* RoundSystemTimeToNearestSecond rounds to that second.
LEMMA RoundsToNearest ==
  ASSUME NEW date, IsDate(date), NearestSecond(date) # NoDate
  PROVE  RoundSystemTimeToNearestSecond(Weekdayed(date)) = NearestSecond(date)
<1>1. PICK t, ms, days, w : /\ t = SecondOfDay(date) /\ ms = date.ms
                            /\ days = DayNumber(date.year, date.month, date.day)
                            /\ w = Weekdayed(date)
  OBVIOUS
<1>2. Shows(w, days, t, ms)
  BY <1>1, DateShows
<1>3. w.ms = ms /\ t \in Nat /\ t < DaySeconds /\ ms \in Nat /\ ms <= 999
  BY <1>2, ShowsIs
<1>4. DaySeconds \in Nat
  BY DEF DaySeconds
<1>5. PICK up : up = IncrementSecond(w)
  OBVIOUS
<1>6. RoundSystemTimeToNearestSecond(w)
        = IF ms < 500 THEN WithMs(w, 0)
          ELSE IF up = NoDate THEN NoDate ELSE WithMs(up, 0)
  BY <1>3, <1>5 DEF RoundSystemTimeToNearestSecond, WithMs
<1>7. CASE ms < 500
  <2>1. NearestSecond(date) = DateOf(days, t, 0)
    BY <1>1, <1>7, NearestIs
  <2>2. Shows(WithMs(w, 0), days, t, 0)
    BY <1>2, ShowsMs, MillisAre
  <2>3. WithMs(w, 0) = DateOf(days, t, 0)
    BY <2>2, ShowsIs
  <2> QED BY <1>1, <1>6, <1>7, <2>1, <2>3
<1>8. CASE ms >= 500 /\ t + 1 < DaySeconds
  <2>1. NearestSecond(date) = DateOf(days, t + 1, 0)
    BY <1>1, <1>8, NearestIs
  <2>2. Shows(up, days, t + 1, ms)
    BY <1>2, <1>5, <1>8, NextSecond
  <2>3. Shows(WithMs(up, 0), days, t + 1, 0)
    BY <2>2, ShowsMs, MillisAre
  <2>4. WithMs(up, 0) = DateOf(days, t + 1, 0)
    BY <2>3, ShowsIs
  <2>5. up # NoDate
    BY <2>2, ShowsIs
  <2> QED BY <1>1, <1>3, <1>6, <1>8, <2>1, <2>4, <2>5
<1>9. CASE ms >= 500 /\ t + 1 = DaySeconds
  <2>1. days + 1 <= LastDay /\ NearestSecond(date) = DateOf(days + 1, 0, 0)
    BY <1>1, <1>9, NearestIs
  <2>2. Shows(up, days + 1, 0, ms)
    BY <1>2, <1>5, <1>9, <2>1, NextSecond
  <2>3. Shows(WithMs(up, 0), days + 1, 0, 0)
    BY <2>2, ShowsMs, MillisAre
  <2>4. WithMs(up, 0) = DateOf(days + 1, 0, 0)
    BY <2>3, ShowsIs
  <2>5. up # NoDate
    BY <2>2, ShowsIs
  <2> QED BY <1>1, <1>3, <1>6, <1>9, <2>1, <2>4, <2>5
<1>10. ms < 500 \/ ms >= 500
  BY <1>3
<1>11. t + 1 < DaySeconds \/ t + 1 = DaySeconds
  BY <1>3, <1>4
<1> QED BY <1>7, <1>8, <1>9, <1>10, <1>11

\* The part of a day of a second and its milliseconds, and back.
IsPart(part, t, ms, e) ==
  /\ t \in Nat /\ ms \in Nat /\ ms <= 999 /\ e \in -1 .. 1
  /\ part = IF t * Second + ms * Ms = 0 THEN 0 ELSE t * Second + ms * Ms + e

LEMMA PartIs ==
  ASSUME NEW t, NEW ms, NEW e, NEW part, IsPart(part, t, ms, e)
  PROVE  /\ (part + Ms \div 2) \div Ms = t * 1000 + ms
         /\ \/ (part + Second \div 2) \div Second = t
            \/ (part + Second \div 2) \div Second = t + 1 /\ ms >= 500
<1>1. part \in Int /\ part \in t * 4000 + ms * 4 - 1 .. t * 4000 + ms * 4 + 1
      /\ t \in Nat /\ ms \in Nat /\ ms <= 999
  BY DEF Second, Ms, IsPart
<1>2. (part + 2) \div 4 = t * 1000 + ms
  BY <1>1
<1>3. (part + 2000) \div 4000 = t \/ ((part + 2000) \div 4000 = t + 1 /\ ms >= 500)
  <2>1. CASE part < t * 4000 + 2000
    BY <1>1, <2>1
  <2>2. CASE part >= t * 4000 + 2000
    BY <1>1, <2>2
  <2> QED BY <1>1, <2>1, <2>2
<1>4. Ms = 4 /\ Ms \div 2 = 2 /\ Second = 4000 /\ Second \div 2 = 2000
  BY DEF Ms, Second
<1> QED BY <1>2, <1>3, <1>4

\* A date comes back from COM with its milliseconds.
LEMMA DateComesBack ==
  ASSUME NEW date, IsDate(date), NearestSecond(date) # NoDate, NEW e \in -1 .. 1
  PROVE  VariantTimeToSystemTimeWithMilliseconds(SystemTimeToVariantTimeWithMilliseconds(date, e))
           = Weekdayed(date)
<1>1. PICK t, ms, days, w : /\ t = SecondOfDay(date) /\ ms = date.ms
                            /\ days = DayNumber(date.year, date.month, date.day)
                            /\ w = Weekdayed(date)
  OBVIOUS
<1>2. Shows(w, days, t, ms)
  BY <1>1, DateShows
<1>3. /\ w = DateOf(days, t, ms) /\ t \in Nat /\ t < DaySeconds
      /\ ms \in Nat /\ ms <= 999 /\ days \in Int
  BY <1>2, ShowsIs
<1>4. t \in Nat /\ t < DaySeconds /\ ms \in Nat /\ ms <= 999
  BY <1>3
<1>5. FirstDay \in Int /\ LastDay \in Int /\ FirstDay <= days /\ days <= LastDay
  BY <1>2, DayInRange
<1>6. DaySeconds \in Nat /\ DaySeconds > 1
  BY DEF DaySeconds
<1> DEFINE time == SystemTimeToVariantTimeWithMilliseconds(date, e)
           part == time.part
           quarters == t * Second + ms * Ms
<1>7. part = IF quarters = 0 THEN 0 ELSE quarters + e
  BY <1>1 DEF SystemTimeToVariantTimeWithMilliseconds, SystemTimeToVariantTime
<1>8. time.days = days
  BY <1>1 DEF SystemTimeToVariantTimeWithMilliseconds, SystemTimeToVariantTime
<1> HIDE DEF part, time
<1>9. quarters = t * Second + ms * Ms
  OBVIOUS
<1> HIDE DEF quarters
<1>10. /\ (part + Ms \div 2) \div Ms = t * 1000 + ms
      /\ \/ (part + Second \div 2) \div Second = t
         \/ (part + Second \div 2) \div Second = t + 1 /\ ms >= 500
  <2>1. IsPart(part, t, ms, e)
    BY <1>4, <1>7, <1>9 DEF IsPart
  <2> QED BY <2>1, PartIs
<1> DEFINE rounded == (part + Second \div 2) \div Second
           total == t * 1000 + ms
           day == IF rounded = DaySeconds THEN days + 1 ELSE days
           windows == VariantTimeToSystemTime(time)
           found == IF windows = NoDate THEN windows
                    ELSE IF SecondOfDay(windows) = (t + 1) % DaySeconds THEN DecrementSecond(windows)
                    ELSE IF SecondOfDay(windows) = t THEN windows
                    ELSE NoDate
<1>11. windows = IF day \in FirstDay .. LastDay THEN DateOf(day, rounded % DaySeconds, 0) ELSE NoDate
  BY <1>8 DEF VariantTimeToSystemTime, part
<1>12. rounded = t \/ (rounded = t + 1 /\ ms >= 500)
  BY <1>10
<1> HIDE DEF rounded, quarters, windows
<1>13. total \div 1000 = t /\ total % 1000 = ms
  <2>1. total = t * 1000 + ms
    OBVIOUS
  <2> HIDE DEF total
  <2> QED BY <1>4, <2>1
<1>14. total < DaySeconds * 1000
  BY <1>3, <1>6 DEF DaySeconds
<1>15. VariantTimeToSystemTimeWithMilliseconds(time)
         = IF found = NoDate THEN NoDate ELSE WithMs(found, ms)
  <2> DEFINE part2 == (time.part + Ms \div 2) \div Ms
             total2 == IF part2 >= DaySeconds * 1000 THEN 0 ELSE part2
             found2 == IF windows = NoDate THEN windows
                       ELSE IF SecondOfDay(windows) = (total2 \div 1000 + 1) % DaySeconds
                            THEN DecrementSecond(windows)
                       ELSE IF SecondOfDay(windows) = total2 \div 1000 THEN windows
                       ELSE NoDate
  <2>1. VariantTimeToSystemTimeWithMilliseconds(time)
          = IF found2 = NoDate THEN NoDate ELSE [found2 EXCEPT !.ms = total2 % 1000]
    BY DEF VariantTimeToSystemTimeWithMilliseconds, windows
  <2>2. total2 = total
    <3>1. part2 = total
      BY <1>10 DEF part
    <3> HIDE DEF part2
    <3> QED BY <1>3, <1>6, <1>14, <3>1
  <2> HIDE DEF total2, total
  <2>3. found2 = found
    BY <1>13, <2>2
  <2> HIDE DEF found2, found
  <2> QED BY <1>13, <2>1, <2>2, <2>3 DEF WithMs
<1> HIDE DEF total
<1>16. ASSUME NEW other, Shows(other, days, t, 0), found = other
       PROVE  WithMs(found, ms) = w /\ found # NoDate
  <2>1. Shows(WithMs(other, ms), days, t, ms)
    <3> HIDE DEF found, day
    <3>1. ms \in Millis
      BY <1>4, MillisAre
    <3> QED BY <1>16, <3>1, ShowsMs, Zenon
  <2>2. WithMs(other, ms) = DateOf(days, t, ms)
    BY <2>1, ShowsIs
  <2>3. other # NoDate
    BY <1>16, ShowsIs
  <2> HIDE DEF found
  <2> QED BY <1>3, <1>16, <2>2, <2>3
<1>17. PICK whole : whole = WithMs(w, 0) /\ Shows(whole, days, t, 0)
  BY <1>2, ShowsMs, MillisAre
<1>18. whole = DateOf(days, t, 0) /\ whole # NoDate /\ SecondOfDay(whole) = t
  BY <1>17, ShowsIs
<1>19. CASE rounded = t
  <2>1. day = days
    BY <1>3, <1>19
  <2>2. rounded % DaySeconds = t
    BY <1>3, <1>6, <1>19
  <2>3. windows = whole
    BY <1>3, <1>5, <1>11, <1>18, <2>1, <2>2
  <2>4. t # (t + 1) % DaySeconds
    BY <1>3, <1>6
  <2>5. found = whole
    BY <1>18, <2>3, <2>4
  <2> QED BY <1>1, <1>15, <1>16, <1>17, <2>5 DEF time
<1>20. CASE rounded = t + 1 /\ ms >= 500
  <2>1. PICK up : up = IncrementSecond(whole)
    OBVIOUS
  <2>2. CASE t + 1 < DaySeconds
    <3>1. Shows(up, days, t + 1, 0) /\ DecrementSecond(up) = whole
      BY <1>17, <2>1, <2>2, NextSecond
    <3>2. up = DateOf(days, t + 1, 0) /\ up # NoDate /\ SecondOfDay(up) = t + 1
      BY <3>1, ShowsIs
    <3>3. day = days /\ rounded % DaySeconds = t + 1 /\ (t + 1) % DaySeconds = t + 1
      BY <1>3, <1>6, <1>20, <2>2
    <3>4. windows = up
      BY <1>3, <1>5, <1>11, <3>2, <3>3
    <3>5. found = whole
      BY <3>1, <3>2, <3>3, <3>4
    <3> QED BY <1>1, <1>15, <1>16, <1>17, <3>5 DEF time
  <2>3. CASE t + 1 = DaySeconds
    <3>1. days + 1 <= LastDay
      BY <1>1, <1>20, <2>3, NearestIs
    <3>2. Shows(up, days + 1, 0, 0) /\ DecrementSecond(up) = whole
      BY <1>17, <2>1, <2>3, <3>1, NextSecond
    <3>3. up = DateOf(days + 1, 0, 0) /\ up # NoDate /\ SecondOfDay(up) = 0
      BY <3>2, ShowsIs
    <3>4. day = days + 1 /\ rounded % DaySeconds = 0 /\ (t + 1) % DaySeconds = 0
      BY <1>3, <1>6, <1>20, <2>3
    <3>5. windows = up
      BY <1>3, <1>5, <1>11, <3>1, <3>3, <3>4
    <3>6. found = whole
      BY <3>2, <3>3, <3>4, <3>5
    <3> QED BY <1>1, <1>15, <1>16, <1>17, <3>6 DEF time
  <2> QED BY <1>3, <1>6, <2>2, <2>3
<1> QED BY <1>12, <1>19, <1>20

-----------------------------------------------------------------------------
(* The journey of a value.                                                 *)

\* A journey so far, of one that takes a value to y and then to z.
Underway(t, x, y, z) ==
  /\ t \in Seq({x, y, z}) /\ Len(t) \in 1 .. 3
  /\ t[1] = x /\ (Len(t) >= 2 => t[2] = y) /\ (Len(t) = 3 => t[3] = z)

\* Where a value came from, and that it was converted by the two functions in turn.
GotFromCom(g) == LET y == ComToLua(g[1], g[2])
                 IN  how = g[2] /\ Underway(trip, g[1], y, LuaToCom(y, g[2]))
GotFromLua(g) == LET y == LuaToCom(g[1], g[2])
                 IN  how = g[2] /\ Underway(trip, g[1], y, ComToLua(y, g[2]))

Converted ==
  \/ from = "none" /\ trip = <<>>
  \/ from = "COM" /\ \E g \in GivenByCom : GotFromCom(g)
  \/ from = "Lua" /\ \E g \in GivenByLua : GotFromLua(g)

LEMMA Onwards ==
  ASSUME NEW t, NEW x, NEW y, NEW z, Underway(t, x, y, z), Len(t) < 3
  PROVE  \/ /\ Len(t) % 2 = 1 /\ t[Len(t)] = x
            /\ Underway(Append(t, y), x, y, z)
         \/ /\ Len(t) % 2 = 0 /\ t[Len(t)] = y
            /\ Underway(Append(t, z), x, y, z)
<1> DEFINE S == {x, y, z}
<1>1. t \in Seq(S) /\ y \in S /\ z \in S
  BY DEF Underway
<1>2. t[1] = x /\ (Len(t) = 2 => t[2] = y) /\ (Len(t) = 1 \/ Len(t) = 2)
  BY DEF Underway
<1> HIDE DEF S
<1>3. ASSUME NEW w \in S, NEW u, u = Append(t, w)
      PROVE  /\ u \in Seq(S) /\ Len(u) = Len(t) + 1 /\ u[Len(t) + 1] = w
             /\ \A i \in 1 .. Len(t) : u[i] = t[i]
  BY <1>1, <1>3
<1>4. CASE Len(t) = 1
  <2>1. PICK u : u = Append(t, y)
    OBVIOUS
  <2>2. u \in Seq(S) /\ Len(u) = 2 /\ u[1] = x /\ u[2] = y
    BY <1>1, <1>2, <1>3, <1>4, <2>1
  <2>3. Underway(u, x, y, z)
    BY <2>2 DEF Underway, S
  <2> QED BY <1>2, <1>4, <2>1, <2>3
<1>5. CASE Len(t) = 2
  <2>1. PICK u : u = Append(t, z)
    OBVIOUS
  <2>2. u \in Seq(S) /\ Len(u) = 3 /\ u[1] = x /\ u[2] = y /\ u[3] = z
    BY <1>1, <1>2, <1>3, <1>5, <2>1
  <2>3. Underway(u, x, y, z)
    BY <2>2 DEF Underway, S
  <2> QED BY <1>2, <1>5, <2>1, <2>3
<1> QED BY <1>2, <1>4, <1>5

LEMMA First ==
  ASSUME NEW x, NEW y, NEW z
  PROVE  Underway(<<x>>, x, y, z)
<1>1. <<x>> \in Seq({x, y, z}) /\ Len(<<x>>) = 1 /\ <<x>>[1] = x
  OBVIOUS
<1> QED BY <1>1 DEF Underway

LEMMA CrossesKeeps ==
  ASSUME Converted, CrossesToLua \/ CrossesToCom
  PROVE  Converted'
<1>1. from # "none" /\ Len(trip) < 3 /\ from' = from /\ how' = how
  BY DEF CrossesToLua, CrossesToCom, Travels
<1>2. /\ CrossesToLua => OnComSide /\ trip' = Append(trip, ComToLua(trip[Len(trip)], how))
      /\ CrossesToCom => ~OnComSide /\ trip' = Append(trip, LuaToCom(trip[Len(trip)], how))
  BY DEF CrossesToLua, CrossesToCom, Last
<1>3. CASE from = "COM"
  <2>1. PICK g \in GivenByCom : GotFromCom(g)
    BY <1>3 DEF Converted
  <2>2. PICK x, h, y, z : x = g[1] /\ h = g[2] /\ y = ComToLua(x, h) /\ z = LuaToCom(y, h)
    OBVIOUS
  <2>3. how = h /\ Underway(trip, x, y, z)
    BY <2>1, <2>2 DEF GotFromCom
  <2>4. PICK t : t = trip
    OBVIOUS
  <2>5. \/ /\ Len(t) % 2 = 1 /\ t[Len(t)] = x
           /\ Underway(Append(t, y), x, y, z)
        \/ /\ Len(t) % 2 = 0 /\ t[Len(t)] = y
           /\ Underway(Append(t, z), x, y, z)
    BY <1>1, <2>3, <2>4, Onwards
  <2>6. OnComSide <=> Len(t) % 2 = 1
    BY <1>3, <2>4 DEF OnComSide
  <2>7. Underway(trip', x, y, z)
    <3>1. CASE Len(t) % 2 = 1
      <4>1. trip' = Append(t, ComToLua(t[Len(t)], h))
        BY <1>2, <2>3, <2>4, <2>6, <3>1
      <4> QED BY <2>2, <2>5, <3>1, <4>1
    <3>2. CASE Len(t) % 2 # 1
      <4>1. trip' = Append(t, LuaToCom(t[Len(t)], h))
        BY <1>2, <2>3, <2>4, <2>6, <3>2
      <4> QED BY <2>2, <2>5, <3>2, <4>1
    <3> QED BY <3>1, <3>2
  <2>8. GotFromCom(g)'
    BY <1>1, <2>2, <2>3, <2>7 DEF GotFromCom
  <2> QED BY <1>1, <1>3, <2>8 DEF Converted
<1>4. CASE from = "Lua"
  <2>1. PICK g \in GivenByLua : GotFromLua(g)
    BY <1>4 DEF Converted
  <2>2. PICK x, h, y, z : x = g[1] /\ h = g[2] /\ y = LuaToCom(x, h) /\ z = ComToLua(y, h)
    OBVIOUS
  <2>3. how = h /\ Underway(trip, x, y, z)
    BY <2>1, <2>2 DEF GotFromLua
  <2>4. PICK t : t = trip
    OBVIOUS
  <2>5. \/ /\ Len(t) % 2 = 1 /\ t[Len(t)] = x
           /\ Underway(Append(t, y), x, y, z)
        \/ /\ Len(t) % 2 = 0 /\ t[Len(t)] = y
           /\ Underway(Append(t, z), x, y, z)
    BY <1>1, <2>3, <2>4, Onwards
  <2>6. OnComSide <=> Len(t) % 2 # 1
    BY <1>4, <2>4 DEF OnComSide
  <2>7. Underway(trip', x, y, z)
    <3>1. CASE Len(t) % 2 = 1
      <4>1. trip' = Append(t, LuaToCom(t[Len(t)], h))
        BY <1>2, <2>3, <2>4, <2>6, <3>1
      <4> QED BY <2>2, <2>5, <3>1, <4>1
    <3>2. CASE Len(t) % 2 # 1
      <4>1. trip' = Append(t, ComToLua(t[Len(t)], h))
        BY <1>2, <2>3, <2>4, <2>6, <3>2
      <4> QED BY <2>2, <2>5, <3>2, <4>1
    <3> QED BY <3>1, <3>2
  <2>8. GotFromLua(g)'
    BY <1>1, <2>2, <2>3, <2>7 DEF GotFromLua
  <2> QED BY <1>1, <1>4, <2>8 DEF Converted
<1> QED BY <1>1, <1>3, <1>4 DEF Converted

LEMMA NextConverted == Converted /\ [ConversionsNext]_cvars => Converted'
<1> SUFFICES ASSUME Converted, [ConversionsNext]_cvars
             PROVE  Converted'
  OBVIOUS
<1>1. ASSUME NEW g \in GivenByCom, Starts("COM", g[1], g[2])
      PROVE  Converted'
  <2>1. from' = "COM" /\ trip' = <<g[1]>> /\ how' = g[2]
    BY <1>1 DEF Starts
  <2>2. GotFromCom(g)'
    BY <2>1, First DEF GotFromCom
  <2> QED BY <2>1, <2>2 DEF Converted
<1>2. ASSUME NEW g \in GivenByLua, Starts("Lua", g[1], g[2])
      PROVE  Converted'
  <2>1. from' = "Lua" /\ trip' = <<g[1]>> /\ how' = g[2]
    BY <1>2 DEF Starts
  <2>2. GotFromLua(g)'
    BY <2>1, First DEF GotFromLua
  <2> QED BY <2>1, <2>2 DEF Converted
<1>3. CASE CrossesToLua \/ CrossesToCom
  BY <1>3, CrossesKeeps
<1>4. CASE Arrives
  BY <1>4 DEF Arrives, Converted
<1>5. CASE UNCHANGED cvars
  BY <1>5 DEF cvars, Converted, GotFromCom, GotFromLua
<1> QED BY <1>1, <1>2, <1>3, <1>4, <1>5 DEF ConversionsNext

LEMMA AlwaysConverted == ConversionsSpec => []Converted
<1>1. ConversionsInit => Converted
  BY DEF ConversionsInit, Converted
<1> QED BY <1>1, NextConverted, PTL DEF ConversionsSpec

-----------------------------------------------------------------------------
(* Values.                                                                 *)

LEMMA KeptVariants == Converted => VariantsKept
<1> SUFFICES ASSUME Converted, Came("COM", 2), how.tables, Sayable(trip[1])
             PROVE  ~IsRefused(trip[2]) /\ (Len(trip) = 3 => trip[3] = trip[1])
  BY DEF VariantsKept
<1>1. from = "COM" /\ Len(trip) >= 2
  BY DEF Came
<1>2. PICK g \in GivenByCom : GotFromCom(g)
  BY <1>1 DEF Converted
<1>3. PICK x, h, y, z : x = g[1] /\ h = g[2] /\ y = ComToLua(x, h) /\ z = LuaToCom(y, h)
  OBVIOUS
<1>4. how = h /\ Underway(trip, x, y, z)
  BY <1>2, <1>3 DEF GotFromCom
<1>5. PICK t : t = trip
  OBVIOUS
<1>6. /\ t[1] = x
      /\ Len(t) >= 2 => t[2] = y
      /\ Len(t) = 3 => t[3] = z
  BY <1>4, <1>5 DEF Underway
<1>7. Sayable(x) /\ h.tables
  BY <1>4, <1>5, <1>6
<1>8. x \in Variants /\ h \in Settings
  BY <1>3, <1>7, ConversionsAssumption DEF Sayable
<1>9. Returns(x, h)
  BY <1>7, <1>8, VariantReturns
<1>10. ~IsRefused(y) /\ z = x
  BY <1>3, <1>9 DEF Returns
<1> QED BY <1>1, <1>5, <1>6, <1>10

\* The value whose integer is asked for.
Given(x) == IF x.kind = "typed" THEN x.value ELSE x

LEMMA AsksInteger ==
  ASSUME NEW x, IsScripted(x), NEW h, h = how, NEW type, type = AskedType(x), type # "none"
  PROVE  /\ type \in IntegerTypes
         /\ Given(x).kind \in NumberKinds => Given(x) \in LuaNumbers
         /\ \E vt : LuaToCom(x, h) = IntegerOrError(vt, IntegerToCom(Given(x), type))
<1>1. CASE x.kind = "typed" /\ x.type \in IntegerTypes
  <2>1. type = x.type
    <3>1. x.kind \notin NumberKinds
      BY <1>1 DEF NumberKinds
    <3> QED BY <1>1, <3>1, Zenon DEF AskedType
  <2>2. Given(x) = x.value
    BY <1>1 DEF Given
  <2>3. LuaToCom(x, h) = TypedToCom(type, x.value)
    BY <1>1, <2>1 DEF LuaToCom
  <2>4. \E vt : TypedToCom(type, x.value) = IntegerOrError(vt, IntegerToCom(x.value, type))
    BY <1>1, <2>1 DEF TypedToCom, IntegerTypes
  <2> QED BY <1>1, <2>1, <2>2, <2>3, <2>4 DEF IsScripted
<1>2. CASE ~(x.kind = "typed" /\ x.type \in IntegerTypes) /\ x.kind \in NumberKinds
             /\ h.type \in {"VT_I8", "VT_UI8"}
  <2>1. type = TypeName[h.type]
    BY <1>2, Zenon DEF AskedType
  <2>2. type \in IntegerTypes
    BY <1>2, <2>1 DEF TypeName, IntegerTypes
  <2>3. x.kind # "typed" /\ x.kind \in {"integer", "float", "string"}
    BY <1>2 DEF NumberKinds
  <2>4. Given(x) = x
    BY <2>3 DEF Given
  <2>5. LuaToCom(x, h) = IntegerOrError(h.type, IntegerToCom(x, type))
    BY <1>2, <2>1, <2>3 DEF LuaToCom
  <2> QED BY <2>2, <2>4, <2>5 DEF IsScripted
<1>3. CASE ~(x.kind = "typed" /\ x.type \in IntegerTypes)
             /\ ~(x.kind \in NumberKinds /\ h.type \in {"VT_I8", "VT_UI8"})
  <2>1. type = "none"
    BY <1>3, Zenon DEF AskedType
  <2> QED BY <2>1
<1> QED BY <1>1, <1>2, <1>3

LEMMA Outcome ==
  ASSUME NEW vt, NEW r
  PROVE  /\ ~r.ok => IsRefused(IntegerOrError(vt, r))
         /\ r.ok => ~IsRefused(IntegerOrError(vt, r)) /\ IntegerOrError(vt, r).int = r.v
<1>1. CASE ~r.ok
  BY <1>1 DEF IntegerOrError, IsRefused
<1>2. CASE r.ok
  <2> DEFINE x == IntegerVariant(vt, r.v)
  <2>1. IntegerOrError(vt, r) = x /\ x.int = r.v
    BY <1>2 DEF IntegerOrError, IntegerVariant
  <2>2. x # NoConversion /\ x # Variant("exception")
    BY DEF IntegerVariant, NoConversion, Variant
  <2> QED BY <1>2, <2>1, <2>2 DEF IsRefused
<1> QED BY <1>1, <1>2

LEMMA ExactIntegers == Converted => IntegersExact
<1> SUFFICES ASSUME Converted, Came("Lua", 2), AskedType(trip[1]) # "none"
             PROVE  IntegersExact
  BY DEF IntegersExact
<1>1. from = "Lua" /\ Len(trip) >= 2
  BY DEF Came
<1>2. PICK g \in GivenByLua : GotFromLua(g)
  BY <1>1 DEF Converted
<1>3. PICK x, h, y, z : x = g[1] /\ h = g[2] /\ y = LuaToCom(x, h) /\ z = ComToLua(y, h)
  OBVIOUS
<1>4. how = h /\ Underway(trip, x, y, z)
  BY <1>2, <1>3 DEF GotFromLua
<1>5. PICK t : t = trip
  OBVIOUS
<1>6. /\ t[1] = x
      /\ Len(t) >= 2 => t[2] = y
  BY <1>4, <1>5 DEF Underway
<1>7. trip[1] = x /\ trip[2] = y
  BY <1>1, <1>5, <1>6
<1>8. IsScripted(x)
  BY <1>3, ConversionsAssumption
<1>9. PICK type : type = AskedType(x)
  OBVIOUS
<1>10. type # "none"
  BY <1>7, <1>9
<1>11. PICK u : u = Given(x)
  OBVIOUS
<1>12. /\ type \in IntegerTypes
       /\ u.kind \in NumberKinds => u \in LuaNumbers
       /\ \E vt : y = IntegerOrError(vt, IntegerToCom(u, type))
  BY <1>3, <1>4, <1>8, <1>9, <1>10, <1>11, AsksInteger
<1>13. PICK r, vt : r = IntegerToCom(u, type) /\ y = IntegerOrError(vt, r)
  BY <1>12
<1>14. Reads(r, u, type) /\ (r.ok => InRange(r.v, type))
  BY <1>12, <1>13, IntegerToComReads
<1>15. IF IsRefused(y) THEN ~(Denotes(u).ok /\ InRange(Denotes(u).v, type)) \/ Vague(u, type)
       ELSE /\ Denotes(u).ok /\ InRange(Denotes(u).v, type)
            /\ y.int = Denotes(u).v
  <2>1. CASE r = Refused
    <3>1. ~r.ok /\ \A w : r # Taken(w)
      BY <2>1 DEF Refused, Taken
    <3>2. IsRefused(y)
      BY <1>13, <3>1, Outcome
    <3>3. \/ Denotes(u) = Refused
          \/ \E w \in Int : Denotes(u) = Taken(w) /\ ~InRange(w, type)
          \/ Vague(u, type)
      BY <1>14, <3>1 DEF Reads
    <3> QED BY <3>2, <3>3 DEF Refused, Taken
  <2>2. CASE r # Refused
    <3>1. PICK w \in Int : Denotes(u) = Taken(w) /\ r = Taken(w)
      BY <1>14, <2>2 DEF Reads
    <3>2. r.ok /\ r.v = w /\ Denotes(u).ok /\ Denotes(u).v = w
      BY <3>1 DEF Taken
    <3>3. ~IsRefused(y) /\ y.int = w
      BY <1>13, <3>2, Outcome
    <3> QED BY <1>14, <3>2, <3>3
  <2> QED BY <2>1, <2>2
<1>16. u = IF x.kind = "typed" THEN x.value ELSE x
  BY <1>11 DEF Given
<1>17. Vague(u, type) <=> \/ u.kind = "float" /\ u.twice \notin -2 * Exact .. 2 * Exact
                          \/ u.kind = "string" /\ u.neg /\ ~Signed(type)
  BY DEF Vague
<1> QED BY <1>7, <1>9, <1>15, <1>16, <1>17 DEF IntegersExact

\* (com2lua, lua2com, pushSignedInteger, pushUnsignedInteger, parse...Decimal,
\* luaNumberTo...Integer)  With luacom.TableVariants a variant that a script passes on
\* arrives as it was, and an integer that a script gives arrives exactly or is refused:
\* whatever the widths of the types and of a double's mantissa.
THEOREM ValuesAlwaysKept == ConversionsSpec => []ValuesKept
<1>1. Converted => ValuesKept
  BY KeptVariants, ExactIntegers DEF ValuesKept
<1> QED BY <1>1, AlwaysConverted, PTL

-----------------------------------------------------------------------------
(* Dates.                                                                  *)

LEMMA DateReturns ==
  ASSUME NEW x, x.kind = "date", IsDate(x.date), NearestSecond(x.date) # NoDate,
         NEW h \in Settings
  PROVE  ComToLua(LuaToCom(x, h), h)
           = IF h.dates = "table" THEN LuaDate(Weekdayed(x.date))
             ELSE [kind |-> "datetext", date |-> NearestSecond(x.date)]
<1>1. PICK date, e, w, n : date = x.date /\ e = h.error /\ w = Weekdayed(date)
                           /\ n = NearestSecond(date)
  OBVIOUS
<1>2. e \in -1 .. 1 /\ h.dates \in {"table", "string_ms_accurate"}
  BY <1>1 DEF Settings
<1>3. PICK time : time = SystemTimeToVariantTimeWithMilliseconds(date, e)
  OBVIOUS
<1>4. LuaToCom(x, h) = DateVariant(time)
  BY <1>1, <1>3 DEF LuaToCom, DateToCom
<1>5. ComToLua(DateVariant(time), h) = DateToLua(time, h.dates)
  BY DEF ComToLua, DateVariant, IntegerVts, RealVts
<1>6. VariantTimeToSystemTimeWithMilliseconds(time) = w
  BY <1>1, <1>2, <1>3, DateComesBack
<1>7. RoundSystemTimeToNearestSecond(w) = n
  BY <1>1, RoundsToNearest
<1>8. w # NoDate
  <2>1. PICK days, t, ms : days = DayNumber(date.year, date.month, date.day)
                           /\ t = SecondOfDay(date) /\ ms = date.ms
    OBVIOUS
  <2>2. Shows(w, days, t, ms)
    BY <1>1, <2>1, DateShows
  <2> QED BY <2>2, ShowsIs
<1>9. DateToLua(time, h.dates) = IF h.dates = "table" THEN LuaDate(w)
                                 ELSE [kind |-> "datetext", date |-> n]
  BY <1>1, <1>2, <1>6, <1>7, <1>8 DEF DateToLua
<1> QED BY <1>1, <1>4, <1>5, <1>9

\* (VariantTimeToSystemTimeWithMilliseconds, RoundSystemTimeToNearestSecond)  Every
\* date that COM has comes back from it to the millisecond with its day of the week, and
\* as a text to the nearest second, whatever the error of the double.
THEOREM DatesAlwaysKept == ConversionsSpec => []DatesKept
<1>1. Converted => DatesKept
  <2> SUFFICES ASSUME Converted, Came("Lua", 3), trip[1].kind = "date",
                      NearestSecond(trip[1].date) # NoDate
               PROVE  trip[3] = IF how.dates = "table" THEN LuaDate(Weekdayed(trip[1].date))
                                ELSE [kind |-> "datetext", date |-> NearestSecond(trip[1].date)]
    BY DEF DatesKept
  <2>1. from = "Lua" /\ Len(trip) >= 3
    BY DEF Came
  <2>2. PICK g \in GivenByLua : GotFromLua(g)
    BY <2>1 DEF Converted
  <2>3. PICK x, h, y, z : x = g[1] /\ h = g[2] /\ y = LuaToCom(x, h) /\ z = ComToLua(y, h)
    OBVIOUS
  <2>4. how = h /\ Underway(trip, x, y, z)
    BY <2>2, <2>3 DEF GotFromLua
  <2>5. PICK t : t = trip
    OBVIOUS
  <2>6. t[1] = x /\ (Len(t) >= 3 => t[3] = z)
    BY <2>4, <2>5 DEF Underway
  <2>7. IsScripted(x) /\ h \in Settings
    BY <2>3, ConversionsAssumption
  <2>8. x.kind = "date" /\ NearestSecond(x.date) # NoDate
    BY <2>5, <2>6
  <2>9. IsDate(x.date)
    BY <2>7, <2>8 DEF IsScripted
  <2>10. z = IF h.dates = "table" THEN LuaDate(Weekdayed(x.date))
             ELSE [kind |-> "datetext", date |-> NearestSecond(x.date)]
    BY <2>3, <2>7, <2>8, <2>9, DateReturns
  <2> QED BY <2>1, <2>4, <2>5, <2>6, <2>10
<1> QED BY <1>1, AlwaysConverted, PTL
=============================================================================
