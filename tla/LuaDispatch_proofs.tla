-------------------------- MODULE LuaDispatch_proofs --------------------------
(***************************************************************************)
(* Proofs about the Lua tables served to COM: the reference counts, the    *)
(* life of the tables and of the objects in a call, for any number of      *)
(* tables, objects, references and calls.                                  *)
(***************************************************************************)
EXTENDS LuaDispatch, FiniteSetTheorems, SequenceTheorems, TLAPS

-----------------------------------------------------------------------------
(* Counting the calls in progress of a kind.                               *)

Where(s, c) == {i \in 1..Len(s) : s[i] = c}
Count(s, c) == Cardinality(Where(s, c))

\* The places of a sequence that hold a value are finitely many.
LEMMA WhereFinite ==
  ASSUME NEW S, NEW s \in Seq(S), NEW c
  PROVE  IsFiniteSet(Where(s, c)) /\ Count(s, c) \in Nat
  <1>1. IsFiniteSet(1..Len(s))
    BY FS_Interval
  <1>2. IsFiniteSet(Where(s, c))
    BY <1>1, FS_Subset DEF Where
  <1> QED
    BY <1>2, FS_CardinalityType DEF Count

\* A call that starts is one more of its kind.
LEMMA CountAppend ==
  ASSUME NEW S, NEW s \in Seq(S), NEW e \in S, NEW c
  PROVE  Count(Append(s, e), c) = Count(s, c) + (IF e = c THEN 1 ELSE 0)
  <1>1. /\ Len(s) \in Nat /\ Len(Append(s, e)) = Len(s) + 1
        /\ \A i \in 1..Len(s) : Append(s, e)[i] = s[i]
        /\ Append(s, e)[Len(s) + 1] = e
    OBVIOUS
  <1>2. Len(s) + 1 \notin Where(s, c)
    BY <1>1 DEF Where
  <1>3. CASE e = c
    <2>1. Where(Append(s, e), c) = Where(s, c) \cup {Len(s) + 1}
      BY <1>1, <1>3 DEF Where
    <2> QED
      BY <1>2, <1>3, <2>1, WhereFinite, FS_AddElement DEF Count
  <1>4. CASE e # c
    <2>1. Where(Append(s, e), c) = Where(s, c)
      BY <1>1, <1>4 DEF Where
    <2> QED
      BY <1>4, <2>1, WhereFinite DEF Count
  <1> QED
    BY <1>3, <1>4

\* A call that returns is one less of its kind.
LEMMA CountFront ==
  ASSUME NEW S, NEW s \in Seq(S), s # <<>>, NEW c
  PROVE  /\ SubSeq(s, 1, Len(s) - 1) \in Seq(S) /\ s[Len(s)] \in S
         /\ Len(s) \in Nat \ {0} /\ Len(SubSeq(s, 1, Len(s) - 1)) = Len(s) - 1
         /\ \A i \in 1..(Len(s) - 1) : SubSeq(s, 1, Len(s) - 1)[i] = s[i]
         /\ Count(s, c) = Count(SubSeq(s, 1, Len(s) - 1), c)
                          + (IF s[Len(s)] = c THEN 1 ELSE 0)
  <1> DEFINE front == SubSeq(s, 1, Len(s) - 1)
  <1>1. /\ Len(s) \in Nat \ {0} /\ s[Len(s)] \in S
        /\ front \in Seq(S) /\ Len(front) = Len(s) - 1
        /\ \A i \in 1..(Len(s) - 1) : front[i] = s[i]
    <2>1. Len(s) \in Nat \ {0}
      BY EmptySeq, LenProperties
    <2>2. s[Len(s)] \in S
      BY <2>1, ElementOfSeq
    <2>3. Len(s) - 1 \in Int /\ \A i \in 1..(Len(s) - 1) : s[i] \in S
      BY <2>1, ElementOfSeq
    <2>4. /\ front \in Seq(S)
          /\ Len(front) = IF 1 <= Len(s) - 1 THEN Len(s) - 1 - 1 + 1 ELSE 0
          /\ \A i \in 1..(Len(s) - 1 - 1 + 1) : front[i] = s[1 + i - 1]
      BY <2>3, SubSeqProperties
    <2> HIDE DEF front
    <2>5. Len(front) = Len(s) - 1
      <3> DEFINE n == Len(s)
                 m == Len(front)
      <3>1. n \in Nat \ {0} /\ m = IF 1 <= n - 1 THEN n - 1 - 1 + 1 ELSE 0
        BY <2>1, <2>4
      <3> HIDE DEF n, m
      <3>2. m = n - 1
        BY <3>1
      <3> QED
        BY <3>2 DEF n, m
    <2>6. ASSUME NEW i \in 1..(Len(s) - 1) PROVE front[i] = s[i]
      <3>1. i \in 1..(Len(s) - 1 - 1 + 1) /\ 1 + i - 1 = i
        BY <2>1
      <3> QED
        BY <2>4, <3>1
    <2> QED
      BY <2>1, <2>2, <2>4, <2>5, <2>6
  <1> HIDE DEF front
  <1>2. Len(s) \notin Where(front, c)
    BY <1>1 DEF Where
  <1>3. CASE s[Len(s)] = c
    <2>1. Where(s, c) = Where(front, c) \cup {Len(s)}
      BY <1>1, <1>3 DEF Where
    <2> QED
      BY <1>1, <1>2, <1>3, <2>1, WhereFinite, FS_AddElement, ZenonT(30) DEF Count, front
  <1>4. CASE s[Len(s)] # c
    <2>1. Where(s, c) = Where(front, c)
      BY <1>1, <1>4 DEF Where
    <2> QED
      BY <1>1, <1>4, <2>1, WhereFinite DEF Count, front
  <1> QED
    BY <1>3, <1>4

-----------------------------------------------------------------------------
(* The inductive invariant.                                                *)

Calls == [obj : Dispatches, by : {"call", "client"}]

\* The calls in progress to an object, of a wrapper and of clients.
OfWrapper(s, d) == Count(s, [obj |-> d, by |-> "call"])
OfClient(s, d) == Count(s, [obj |-> d, by |-> "client"])

\* The object's side: counts, and what is deleted with the last reference.
Accounts ==
  /\ refs \in [Dispatches -> Nat]
  /\ locked \in SUBSET Dispatches
  /\ \A d \in Dispatches : d \in locked <=> Live(d)
  /\ \A d \in Dispatches : Live(d) => d <= made

\* The owners' side.
Owned ==
  /\ owners \in [Dispatches -> [Holders -> Nat]]
  /\ locals \in SUBSET {"iluacom", "lcom"}
  /\ RefsCounted

Heap ==
  /\ made \in 0..MaxDispatches
  /\ making \in 0..MaxDispatches
  /\ serves \in [Dispatches -> Tables]
  /\ idxDispatch \in [Tables -> 0..MaxDispatches]
  /\ reached \in SUBSET Tables
  /\ collected \in SUBSET Tables
  /\ crashed \in BOOLEAN
  /\ reached \cap collected = {}

TablesKept == \A d \in Dispatches : Live(d) => serves[d] \notin collected

\* A client calls through a reference that it keeps meanwhile.
CallsHeld ==
  /\ calls \in Seq(Calls)
  /\ \A i \in 1..Len(calls) : calls[i].by \in {"call", "client"}
  /\ \A d \in Dispatches : OfClient(calls, d) <= owners[d]["client"]

IInv == Accounts /\ Owned /\ Heap /\ TablesKept /\ CallsHeld

LEMMA CallingIs ==
  ASSUME NEW d
  PROVE  /\ Calling(d, "client") = OfClient(calls, d)
         /\ Calling(d, "call") = OfWrapper(calls, d)
  BY DEF Calling, OfWrapper, OfClient, Count, Where

LEMMA CountsOf ==
  ASSUME CallsHeld, NEW d
  PROVE  OfWrapper(calls, d) \in Nat /\ OfClient(calls, d) \in Nat
  BY WhereFinite DEF CallsHeld, OfWrapper, OfClient

\* How many pointers a creator has.
LEMMA LocalsCount ==
  /\ Cardinality({}) = 0
  /\ Cardinality({"iluacom"}) = 1 /\ Cardinality({"lcom"}) = 1
  /\ Cardinality({"iluacom", "lcom"}) = 2
  <1>1. Cardinality({}) = 0 /\ IsFiniteSet({})
    BY FS_EmptySet
  <1>2. \A x : Cardinality({x}) = 1 /\ IsFiniteSet({x})
    BY FS_Singleton
  <1>3. Cardinality({"iluacom"} \cup {"lcom"}) = 1 + 1
    <2> DEFINE S == {"iluacom"}
    <2>1. IsFiniteSet(S) /\ Cardinality(S) = 1 /\ "lcom" \notin S
      BY <1>2
    <2> HIDE DEF S
    <2>2. Cardinality(S \cup {"lcom"}) = 1 + 1
      BY <2>1, FS_AddElement
    <2> QED
      BY <2>2 DEF S
  <1>4. {"iluacom"} \cup {"lcom"} = {"iluacom", "lcom"}
    OBVIOUS
  <1>5. Cardinality({"iluacom", "lcom"}) = 2
    BY <1>3, <1>4
  <1> QED
    BY <1>1, <1>2, <1>5

LEMMA LocalsNat ==
  ASSUME NEW S \in SUBSET {"iluacom", "lcom"}
  PROVE  Cardinality(S) \in Nat
  <1>1. IsFiniteSet({"iluacom", "lcom"})
    <2>1. IsFiniteSet({"iluacom"})
      BY FS_Singleton
    <2>2. IsFiniteSet({"iluacom"} \cup {"lcom"})
      BY <2>1, FS_AddElement
    <2>3. {"iluacom"} \cup {"lcom"} = {"iluacom", "lcom"}
      OBVIOUS
    <2> QED
      BY <2>2, <2>3
  <1>2. IsFiniteSet(S)
    BY <1>1, FS_Subset
  <1> QED
    BY <1>2, FS_CardinalityType

\* m_refs is the sum of numbers, one for each kind of owner.
LEMMA Sum ==
  ASSUME Owned, CallsHeld, NEW d \in Dispatches
  PROVE  /\ Locals(d) \in Nat /\ OfWrapper(calls, d) \in Nat
         /\ owners[d]["wrapper"] \in Nat /\ owners[d]["source"] \in Nat
         /\ owners[d]["factory"] \in Nat /\ owners[d]["client"] \in Nat
         /\ refs[d] = Locals(d) + OfWrapper(calls, d)
                      + owners[d]["wrapper"] + owners[d]["source"]
                      + owners[d]["factory"] + owners[d]["client"]
  <1>1. Locals(d) \in Nat /\ OfWrapper(calls, d) \in Nat
    BY LocalsNat, CountsOf DEF Owned, Locals
  <1>2. /\ owners[d]["wrapper"] \in Nat /\ owners[d]["source"] \in Nat
        /\ owners[d]["factory"] \in Nat /\ owners[d]["client"] \in Nat
    BY DEF Owned, Holders
  <1> QED
    BY <1>1, <1>2, CallingIs DEF Owned, RefsCounted

\* What a call that starts changes in the counts.
LEMMA CallStarts ==
  ASSUME CallsHeld, NEW d \in Dispatches, NEW who \in {"call", "client"},
         calls' = Append(calls, [obj |-> d, by |-> who])
  PROVE  /\ calls' \in Seq(Calls)
         /\ \A i \in 1..Len(calls') : calls'[i].by \in {"call", "client"}
         /\ \A e : OfWrapper(calls', e) = OfWrapper(calls, e)
                                 + (IF e = d /\ who = "call" THEN 1 ELSE 0)
         /\ \A e : OfClient(calls', e) = OfClient(calls, e)
                                 + (IF e = d /\ who = "client" THEN 1 ELSE 0)
  <1> DEFINE call == [obj |-> d, by |-> who]
  <1>1. call \in Calls /\ calls \in Seq(Calls)
    BY DEF Calls, CallsHeld
  <1>2. \A c : Count(calls', c) = Count(calls, c) + (IF call = c THEN 1 ELSE 0)
    BY <1>1, CountAppend
  <1>3. \A e : call = [obj |-> e, by |-> "call"] <=> e = d /\ who = "call"
    OBVIOUS
  <1>4. \A e : call = [obj |-> e, by |-> "client"] <=> e = d /\ who = "client"
    OBVIOUS
  <1>5. call.by = who
    OBVIOUS
  <1> HIDE DEF call
  <1>6. \A e : OfWrapper(calls', e) = OfWrapper(calls, e)
                               + (IF e = d /\ who = "call" THEN 1 ELSE 0)
    BY <1>2, <1>3 DEF OfWrapper
  <1>7. \A e : OfClient(calls', e) = OfClient(calls, e)
                               + (IF e = d /\ who = "client" THEN 1 ELSE 0)
    BY <1>2, <1>4 DEF OfClient
  <1>8. /\ calls' \in Seq(Calls) /\ Len(calls') = Len(calls) + 1 /\ Len(calls) \in Nat
        /\ \A i \in 1..Len(calls) : calls'[i] = calls[i]
        /\ calls'[Len(calls) + 1] = call
    BY <1>1 DEF call
  <1>9. \A i \in 1..Len(calls') : calls'[i].by \in {"call", "client"}
    BY <1>5, <1>8 DEF CallsHeld
  <1> QED
    BY <1>6, <1>7, <1>8, <1>9

\* What a call that returns changes in the counts.
LEMMA CallEnds ==
  ASSUME CallsHeld, calls # <<>>, calls' = SubSeq(calls, 1, Len(calls) - 1)
  PROVE  LET last == calls[Len(calls)] IN
         /\ calls' \in Seq(Calls) /\ Len(calls) \in 1..Len(calls)
         /\ \A i \in 1..Len(calls') : calls'[i].by \in {"call", "client"}
         /\ \A e : OfWrapper(calls', e) \in Nat /\ OfClient(calls', e) \in Nat
         /\ \A e : OfWrapper(calls, e) = OfWrapper(calls', e)
                          + (IF e = last.obj /\ last.by = "call" THEN 1 ELSE 0)
         /\ \A e : OfClient(calls, e) = OfClient(calls', e)
                          + (IF e = last.obj /\ last.by = "client" THEN 1 ELSE 0)
  <1> DEFINE last == calls[Len(calls)]
  <1>1. calls \in Seq(Calls)
    BY DEF CallsHeld
  <1>2. /\ calls' \in Seq(Calls) /\ last \in Calls
        /\ \A c : Count(calls, c) = Count(calls', c) + (IF last = c THEN 1 ELSE 0)
    BY <1>1, CountFront
  <1>3. Len(calls) \in Nat \ {0} /\ Len(calls') = Len(calls) - 1
    BY <1>1, CountFront
  <1>4. \A i \in 1..(Len(calls) - 1) : calls'[i] = calls[i]
    BY <1>1, CountFront
  <1>5. \A i \in 1..Len(calls') : calls'[i].by \in {"call", "client"}
    BY <1>3, <1>4 DEF CallsHeld
  <1>6. \A e : OfWrapper(calls', e) \in Nat /\ OfClient(calls', e) \in Nat
    BY <1>2, WhereFinite DEF OfWrapper, OfClient
  <1> HIDE DEF last
  <1>7. \A e : last = [obj |-> e, by |-> "call"] <=> e = last.obj /\ last.by = "call"
    BY <1>2 DEF Calls
  <1>8. \A e : last = [obj |-> e, by |-> "client"] <=> e = last.obj /\ last.by = "client"
    BY <1>2 DEF Calls
  <1>9. \A e : OfWrapper(calls, e) = OfWrapper(calls', e)
                           + (IF e = last.obj /\ last.by = "call" THEN 1 ELSE 0)
    BY <1>2, <1>7 DEF OfWrapper
  <1>10. \A e : OfClient(calls, e) = OfClient(calls', e)
                           + (IF e = last.obj /\ last.by = "client" THEN 1 ELSE 0)
    BY <1>2, <1>8 DEF OfClient
  <1> QED
    BY <1>2, <1>3, <1>5, <1>6, <1>9, <1>10 DEF last

\* Whoever owns an object keeps it.
LEMMA OwnerKeeps ==
  ASSUME Accounts, Owned, CallsHeld, NEW d \in Dispatches,
         \/ \E who \in Holders : owners[d][who] > 0
         \/ Locals(d) > 0 \/ OfWrapper(calls, d) > 0
  PROVE  Live(d)
  <1>1. \/ owners[d]["wrapper"] > 0 \/ owners[d]["source"] > 0
        \/ owners[d]["factory"] > 0 \/ owners[d]["client"] > 0
        \/ Locals(d) > 0 \/ OfWrapper(calls, d) > 0
    BY DEF Holders
  <1>2. refs[d] > 0
    BY <1>1, Sum
  <1> QED
    BY <1>2 DEF Live

\* A call in progress keeps its object.
LEMMA CallKeeps ==
  ASSUME Accounts, Owned, CallsHeld, NEW i \in 1..Len(calls)
  PROVE  Live(calls[i].obj) /\ calls[i].obj \in Dispatches
  <1> DEFINE d == calls[i].obj
             who == calls[i].by
             places == Where(calls, [obj |-> d, by |-> who])
  <1>1. calls[i] \in Calls /\ d \in Dispatches /\ who \in {"call", "client"}
    <2>1. calls[i] \in Calls
      BY ElementOfSeq DEF CallsHeld
    <2> QED
      BY <2>1 DEF Calls
  <1>2. i \in places
    BY <1>1 DEF Where, Calls
  <1>3. IsFiniteSet(places) /\ Cardinality(places) \in Nat
    BY <1>1, WhereFinite DEF CallsHeld, Count
  <1>4. Cardinality(places) # 0
    BY <1>2, <1>3, FS_EmptySet
  <1>5. CASE who = "call"
    <2>1. OfWrapper(calls, d) = Cardinality(places)
      BY <1>5 DEF OfWrapper, Count
    <2> QED
      BY <1>1, <1>3, <1>4, <2>1, OwnerKeeps
  <1>6. CASE who = "client"
    <2>1. OfClient(calls, d) = Cardinality(places)
      BY <1>6 DEF OfClient, Count
    <2>2. OfClient(calls, d) <= owners[d]["client"] /\ owners[d]["client"] \in Nat
      BY <1>1, Sum DEF CallsHeld
    <2>3. owners[d]["client"] > 0 /\ "client" \in Holders
      BY <1>3, <1>4, <2>1, <2>2 DEF Holders
    <2> QED
      BY <1>1, <2>3, OwnerKeeps
  <1> QED
    BY <1>1, <1>5, <1>6

-----------------------------------------------------------------------------
(* AddRef and Release.                                                     *)

LEMMA AddRefKeeps ==
  ASSUME Accounts, NEW d \in Dispatches, Live(d), AddRef(d), made' = made
  PROVE  /\ Accounts' /\ \A e \in Dispatches : Live(e)' <=> Live(e)
         /\ \A e \in Dispatches : refs'[e] = refs[e] + (IF e = d THEN 1 ELSE 0)
  <1>1. /\ refs' \in [Dispatches -> Nat] /\ locked' = locked
        /\ \A e \in Dispatches : refs'[e] = refs[e] + (IF e = d THEN 1 ELSE 0)
    BY DEF Accounts, AddRef
  <1>2. \A e \in Dispatches : Live(e)' <=> Live(e)
    BY <1>1 DEF Live, Accounts
  <1> QED
    BY <1>1, <1>2 DEF Accounts

LEMMA ReleaseKeeps ==
  ASSUME Accounts, NEW d \in Dispatches, Live(d), Release(d), made' = made
  PROVE  /\ Accounts' /\ \A e \in Dispatches : Live(e)' => Live(e)
         /\ \A e \in Dispatches : refs'[e] = refs[e] - (IF e = d THEN 1 ELSE 0)
  <1>1. /\ refs' \in [Dispatches -> Nat]
        /\ \A e \in Dispatches : refs'[e] = refs[e] - (IF e = d THEN 1 ELSE 0)
    BY DEF Accounts, Release, Live
  <1>2. \A e \in Dispatches : Live(e)' => Live(e)
    BY <1>1 DEF Live, Accounts
  <1>3. locked' = IF refs[d] = 1 THEN locked \ {d} ELSE locked
    BY DEF Release, Unlocked
  <1>4. \A e \in Dispatches : e \in locked' <=> Live(e)'
    BY <1>1, <1>3 DEF Live, Accounts
  <1>5. locked' \in SUBSET Dispatches /\ \A e \in Dispatches : Live(e)' => e <= made'
    BY <1>2, <1>3 DEF Accounts
  <1> QED
    BY <1>1, <1>2, <1>4, <1>5 DEF Accounts

\* How many owners of the four kinds an object has.
Kinds(o, d) == o[d]["wrapper"] + o[d]["source"] + o[d]["factory"] + o[d]["client"]

LEMMA KindsNat ==
  ASSUME NEW o \in [Dispatches -> [Holders -> Nat]], NEW d \in Dispatches
  PROVE  Kinds(o, d) \in Nat
  <1>1. /\ o[d]["wrapper"] \in Nat /\ o[d]["source"] \in Nat
        /\ o[d]["factory"] \in Nat /\ o[d]["client"] \in Nat
    BY DEF Holders
  <1> QED
    BY <1>1 DEF Kinds

LEMMA KindsSum ==
  ASSUME Owned, CallsHeld, NEW d \in Dispatches
  PROVE  /\ Locals(d) \in Nat /\ OfWrapper(calls, d) \in Nat /\ Kinds(owners, d) \in Nat
         /\ refs[d] = Locals(d) + OfWrapper(calls, d) + Kinds(owners, d)
  BY Sum, SMTT(30) DEF Kinds

\* The two sides agree again after a step that changes each as much.
LEMMA StillCounted ==
  ASSUME Owned, CallsHeld, owners' \in [Dispatches -> [Holders -> Nat]],
         locals' \in SUBSET {"iluacom", "lcom"}, calls' \in Seq(Calls),
         \A e \in Dispatches :
           refs'[e] = Locals(e)' + OfWrapper(calls', e) + Kinds(owners', e)
  PROVE  Owned'
  <1>1. ASSUME NEW e \in Dispatches
        PROVE  refs'[e] = Locals(e)' + Calling(e, "call")'
                          + owners'[e]["wrapper"] + owners'[e]["source"]
                          + owners'[e]["factory"] + owners'[e]["client"]
    <2>1. Calling(e, "call")' = OfWrapper(calls', e)
      BY DEF Calling, OfWrapper, Count, Where
    <2>2. /\ owners'[e]["wrapper"] \in Nat /\ owners'[e]["source"] \in Nat
          /\ owners'[e]["factory"] \in Nat /\ owners'[e]["client"] \in Nat
      BY DEF Holders
    <2>3. OfWrapper(calls', e) \in Nat /\ Locals(e)' \in Nat
      <3>1. Cardinality(locals') \in Nat
        BY LocalsNat
      <3>2. OfWrapper(calls', e) \in Nat
        BY WhereFinite DEF OfWrapper
      <3> QED
        BY <3>1, <3>2 DEF Locals
    <2> QED
      BY <2>1, <2>2, <2>3 DEF Kinds
  <1>2. RefsCounted'
    BY <1>1 DEF RefsCounted
  <1> QED
    BY <1>2 DEF Owned

LEMMA ComesKinds ==
  ASSUME owners \in [Dispatches -> [Holders -> Nat]],
         NEW d \in Dispatches, NEW who \in Holders, Comes(d, who)
  PROVE  /\ owners' \in [Dispatches -> [Holders -> Nat]]
         /\ \A e \in Dispatches : Kinds(owners', e) = Kinds(owners, e) + (IF e = d THEN 1 ELSE 0)
         /\ \A e \in Dispatches : owners[e]["client"] <= owners'[e]["client"]
  <1>1. /\ owners' \in [Dispatches -> [Holders -> Nat]]
        /\ \A e \in Dispatches, w \in Holders :
             owners'[e][w] = owners[e][w] + (IF e = d /\ w = who THEN 1 ELSE 0)
    BY DEF Comes
  <1>2. ASSUME NEW e \in Dispatches
        PROVE  /\ Kinds(owners', e) = Kinds(owners, e) + (IF e = d THEN 1 ELSE 0)
               /\ owners[e]["client"] <= owners'[e]["client"]
    BY <1>1 DEF Kinds, Holders
  <1> QED
    BY <1>1, <1>2

LEMMA GoesKinds ==
  ASSUME owners \in [Dispatches -> [Holders -> Nat]],
         NEW d \in Dispatches, NEW who \in Holders, Goes(d, who)
  PROVE  /\ owners' \in [Dispatches -> [Holders -> Nat]] /\ owners[d][who] > 0
         /\ \A e \in Dispatches : Kinds(owners', e) = Kinds(owners, e) - (IF e = d THEN 1 ELSE 0)
         /\ \A e \in Dispatches :
              owners'[e]["client"] = owners[e]["client"]
                                     - (IF e = d /\ who = "client" THEN 1 ELSE 0)
  <1>1. /\ owners' \in [Dispatches -> [Holders -> Nat]] /\ owners[d][who] > 0
        /\ \A e \in Dispatches, w \in Holders :
             owners'[e][w] = owners[e][w] - (IF e = d /\ w = who THEN 1 ELSE 0)
    BY DEF Goes
  <1>2. ASSUME NEW e \in Dispatches
        PROVE  /\ Kinds(owners', e) = Kinds(owners, e) - (IF e = d THEN 1 ELSE 0)
               /\ owners'[e]["client"] = owners[e]["client"]
                                         - (IF e = d /\ who = "client" THEN 1 ELSE 0)
    <2>1. \A w \in Holders :
            /\ owners[e][w] \in Nat
            /\ owners'[e][w] = owners[e][w] - (IF e = d /\ w = who THEN 1 ELSE 0)
      BY <1>1
    <2>2. /\ owners[e]["wrapper"] \in Nat /\ owners[e]["source"] \in Nat
          /\ owners[e]["factory"] \in Nat /\ owners[e]["client"] \in Nat
          /\ owners'[e]["wrapper"] = owners[e]["wrapper"] - (IF e = d /\ who = "wrapper" THEN 1 ELSE 0)
          /\ owners'[e]["source"] = owners[e]["source"] - (IF e = d /\ who = "source" THEN 1 ELSE 0)
          /\ owners'[e]["factory"] = owners[e]["factory"] - (IF e = d /\ who = "factory" THEN 1 ELSE 0)
          /\ owners'[e]["client"] = owners[e]["client"] - (IF e = d /\ who = "client" THEN 1 ELSE 0)
      BY <2>1 DEF Holders
    <2>3. who \in {"wrapper", "source", "factory", "client"}
      BY DEF Holders
    <2>4. Kinds(owners', e) = Kinds(owners, e) - (IF e = d THEN 1 ELSE 0)
      BY <2>2, <2>3 DEF Kinds
    <2> QED
      BY <2>2, <2>4
  <1> QED
    BY <1>1, <1>2

-----------------------------------------------------------------------------
(* The steps keep the invariant.                                           *)

\* One owner more, with a reference to an object that somebody has.
LEMMA AddRefStep ==
  ASSUME IInv, NEW d \in Dispatches, NEW who \in Holders, Live(d),
         Comes(d, who), AddRef(d),
         UNCHANGED <<objects, collected, calls>>, Heap'
  PROVE  IInv'
  <1>1. /\ Accounts' /\ \A e \in Dispatches : Live(e)' <=> Live(e)
        /\ \A e \in Dispatches : refs'[e] = refs[e] + (IF e = d THEN 1 ELSE 0)
    BY AddRefKeeps DEF IInv, objects
  <1>2. /\ owners' \in [Dispatches -> [Holders -> Nat]]
        /\ \A e \in Dispatches : Kinds(owners', e) = Kinds(owners, e) + (IF e = d THEN 1 ELSE 0)
        /\ \A e \in Dispatches : owners[e]["client"] <= owners'[e]["client"]
    BY ComesKinds DEF IInv, Owned
  <1>3. /\ \A e \in Dispatches : Locals(e)' = Locals(e)
        /\ locals' \in SUBSET {"iluacom", "lcom"} /\ calls' \in Seq(Calls)
    BY DEF IInv, Owned, CallsHeld, Locals, objects
  <1>4. ASSUME NEW e \in Dispatches
        PROVE  refs'[e] = Locals(e)' + OfWrapper(calls', e) + Kinds(owners', e)
    <2>1. /\ Locals(e) \in Nat /\ OfWrapper(calls, e) \in Nat /\ Kinds(owners, e) \in Nat
          /\ refs[e] = Locals(e) + OfWrapper(calls, e) + Kinds(owners, e)
      BY KindsSum DEF IInv
    <2>2. OfWrapper(calls', e) = OfWrapper(calls, e) /\ Locals(e)' = Locals(e)
      BY <1>3
    <2> DEFINE l == Locals(e)'
    <2>3. l = Locals(e)
      BY <2>2
    <2> HIDE DEF l
    <2>4. refs'[e] = l + OfWrapper(calls', e) + Kinds(owners', e)
      BY <1>1, <1>2, <2>1, <2>2, <2>3
    <2> QED
      BY <2>4 DEF l
  <1>5. Owned'
    BY <1>2, <1>3, <1>4, StillCounted DEF IInv
  <1>6. TablesKept'
    BY <1>1 DEF IInv, TablesKept, objects
  <1>7. \A e \in Dispatches : /\ OfClient(calls, e) \in Nat
                              /\ owners[e]["client"] \in Nat /\ owners'[e]["client"] \in Nat
    BY <1>2, CountsOf DEF IInv, Owned, Holders
  <1>8. \A e \in Dispatches : OfClient(calls, e) <= owners'[e]["client"]
    <2> SUFFICES ASSUME NEW e \in Dispatches PROVE OfClient(calls, e) <= owners'[e]["client"]
      OBVIOUS
    <2> DEFINE n == OfClient(calls, e)
               m == owners[e]["client"]
               k == owners'[e]["client"]
    <2>1. n \in Nat /\ m \in Nat /\ k \in Nat /\ m <= k
      BY <1>2, <1>7
    <2>2. n <= m
      BY DEF IInv, CallsHeld
    <2> HIDE DEF n, m, k
    <2>3. n <= k
      BY <2>1, <2>2
    <2> QED
      BY <2>3 DEF n, k
  <1>9. CallsHeld'
    BY <1>8 DEF IInv, CallsHeld
  <1> QED
    BY <1>1, <1>5, <1>6, <1>9 DEF IInv

\* One owner less, with its reference.
LEMMA ReleaseStep ==
  ASSUME IInv, NEW d \in Dispatches, NEW who \in Holders,
         who = "client" => Spare(d) > 0,
         Goes(d, who), Release(d), UNCHANGED <<objects, collected, calls>>, Heap'
  PROVE  IInv'
  <1>1. /\ owners' \in [Dispatches -> [Holders -> Nat]] /\ owners[d][who] > 0
        /\ \A e \in Dispatches : Kinds(owners', e) = Kinds(owners, e) - (IF e = d THEN 1 ELSE 0)
        /\ \A e \in Dispatches :
             owners'[e]["client"] = owners[e]["client"]
                                    - (IF e = d /\ who = "client" THEN 1 ELSE 0)
    BY GoesKinds DEF IInv, Owned
  <1>2. Live(d)
    BY <1>1, OwnerKeeps DEF IInv
  <1>3. /\ Accounts' /\ \A e \in Dispatches : Live(e)' => Live(e)
        /\ \A e \in Dispatches : refs'[e] = refs[e] - (IF e = d THEN 1 ELSE 0)
    BY <1>2, ReleaseKeeps DEF IInv, objects
  <1>4. /\ \A e \in Dispatches : Locals(e)' = Locals(e)
        /\ locals' \in SUBSET {"iluacom", "lcom"} /\ calls' \in Seq(Calls)
    BY DEF IInv, Owned, CallsHeld, Locals, objects
  <1>5. ASSUME NEW e \in Dispatches
        PROVE  refs'[e] = Locals(e)' + OfWrapper(calls', e) + Kinds(owners', e)
    <2>1. /\ Locals(e) \in Nat /\ OfWrapper(calls, e) \in Nat /\ Kinds(owners, e) \in Nat
          /\ refs[e] = Locals(e) + OfWrapper(calls, e) + Kinds(owners, e)
      BY KindsSum DEF IInv
    <2>2. OfWrapper(calls', e) = OfWrapper(calls, e) /\ Locals(e)' = Locals(e)
      BY <1>4
    <2> DEFINE l == Locals(e)'
    <2>3. l = Locals(e)
      BY <2>2
    <2> HIDE DEF l
    <2>4. refs'[e] = l + OfWrapper(calls', e) + Kinds(owners', e)
      BY <1>1, <1>3, <2>1, <2>2, <2>3
    <2> QED
      BY <2>4 DEF l
  <1>6. Owned'
    BY <1>1, <1>4, <1>5, StillCounted DEF IInv
  <1>7. TablesKept'
    BY <1>3 DEF IInv, TablesKept, objects
  <1>8. /\ who = "client" => owners[d]["client"] - OfClient(calls, d) > 0
        /\ \A e \in Dispatches : OfClient(calls, e) \in Nat /\ owners[e]["client"] \in Nat
    BY CallingIs, CountsOf DEF Spare, IInv, Owned, Holders
  <1>9. CallsHeld'
    BY <1>1, <1>8 DEF IInv, CallsHeld
  <1> QED
    BY <1>3, <1>6, <1>7, <1>9 DEF IInv

\* Steps that leave owners and references alone, and free no table in use.
LEMMA HeapStep ==
  ASSUME IInv, UNCHANGED <<objects, counts, owners, calls>>, Heap', TablesKept'
  PROVE  IInv'
  BY DEF IInv, objects, counts, Accounts, Owned, CallsHeld, RefsCounted, Locals, Calling, Live

\* A call that starts for a client, which keeps its own reference.
LEMMA ClientCallsKeep ==
  ASSUME IInv, NEW d \in Dispatches, ClientCalls(d)
  PROVE  IInv'
  <1>1. /\ calls' = Append(calls, [obj |-> d, by |-> "client"])
        /\ reached' = reached \cup {serves[d]}
        /\ UNCHANGED <<objects, counts, owners, idxDispatch, collected, crashed>>
        /\ owners[d]["client"] > OfClient(calls, d)
    <2>1. owners[d]["client"] \in Nat /\ OfClient(calls, d) \in Nat
      BY CountsOf DEF IInv, Owned, Holders
    <2>2. owners[d]["client"] - OfClient(calls, d) > 0
      BY CallingIs DEF ClientCalls, Spare
    <2> QED
      BY <2>1, <2>2 DEF ClientCalls, Invokes
  <1>2. \A e \in Dispatches : owners[e]["client"] \in Nat /\ OfClient(calls, e) \in Nat
    BY CountsOf DEF IInv, Owned, Holders
  <1>3. Live(d)
    <2>1. owners[d]["client"] > 0 /\ "client" \in Holders
      BY <1>1, <1>2 DEF Holders
    <2> QED
      BY <2>1, OwnerKeeps DEF IInv
  <1>4. Heap'
    BY <1>1, <1>3 DEF IInv, Heap, TablesKept, objects
  <1>5. Accounts' /\ TablesKept'
    BY <1>1 DEF IInv, objects, counts, Accounts, Live, TablesKept
  <1>6. /\ calls' \in Seq(Calls)
        /\ \A i \in 1..Len(calls') : calls'[i].by \in {"call", "client"}
        /\ \A e : OfWrapper(calls', e) = OfWrapper(calls, e) + 0
        /\ \A e : OfClient(calls', e) = OfClient(calls, e) + (IF e = d THEN 1 ELSE 0)
    BY <1>1, CallStarts DEF IInv
  <1>7. \A e \in Dispatches : refs'[e] = Locals(e)' + OfWrapper(calls', e) + Kinds(owners', e)
    <2>1. /\ refs' = refs /\ owners' = owners
          /\ \A e \in Dispatches : Locals(e)' = Locals(e)
      BY <1>1 DEF counts, objects, Locals
    <2>2. \A e \in Dispatches : Kinds(owners', e) = Kinds(owners, e)
      BY <2>1
    <2> QED
      BY <1>6, <2>1, <2>2, KindsSum DEF IInv
  <1>8. Owned'
    BY <1>1, <1>6, <1>7, StillCounted DEF IInv, Owned, objects
  <1>9. \A e \in Dispatches : OfClient(calls', e) <= owners[e]["client"]
    BY <1>1, <1>2, <1>6 DEF IInv, CallsHeld
  <1>10. CallsHeld'
    BY <1>1, <1>6, <1>9 DEF CallsHeld
  <1> QED
    BY <1>4, <1>5, <1>8, <1>10 DEF IInv

\* A call that starts for a wrapper, with a reference of its own.
LEMMA WrapperCallsKeep ==
  ASSUME IInv, NEW d \in Dispatches, WrapperCalls(d)
  PROVE  IInv'
  <1>1. /\ calls' = Append(calls, [obj |-> d, by |-> "call"])
        /\ reached' = reached \cup {serves[d]}
        /\ AddRef(d) /\ owners[d]["wrapper"] > 0
        /\ UNCHANGED <<objects, owners, idxDispatch, collected, crashed>>
    BY DEF WrapperCalls, Invokes, CallersRef
  <1>2. Live(d)
    BY <1>1, OwnerKeeps DEF IInv, Holders
  <1>3. /\ Accounts' /\ \A e \in Dispatches : Live(e)' <=> Live(e)
        /\ \A e \in Dispatches : refs'[e] = refs[e] + (IF e = d THEN 1 ELSE 0)
    BY <1>1, <1>2, AddRefKeeps DEF IInv, objects
  <1>4. Heap'
    BY <1>1, <1>2 DEF IInv, Heap, TablesKept, objects
  <1>5. TablesKept'
    BY <1>1, <1>3 DEF IInv, TablesKept, objects
  <1>6. /\ calls' \in Seq(Calls)
        /\ \A i \in 1..Len(calls') : calls'[i].by \in {"call", "client"}
        /\ \A e : OfWrapper(calls', e) = OfWrapper(calls, e) + (IF e = d THEN 1 ELSE 0)
        /\ \A e : OfClient(calls', e) = OfClient(calls, e) + 0
    BY <1>1, CallStarts DEF IInv
  <1>7. \A e \in Dispatches : refs'[e] = Locals(e)' + OfWrapper(calls', e) + Kinds(owners', e)
    <2>1. \A e \in Dispatches : Locals(e)' = Locals(e) /\ Kinds(owners', e) = Kinds(owners, e)
      BY <1>1 DEF objects, Locals
    <2> QED
      BY <1>3, <1>6, <2>1, KindsSum DEF IInv
  <1>8. Owned'
    BY <1>1, <1>6, <1>7, StillCounted DEF IInv, Owned, objects
  <1>9. \A e \in Dispatches : OfClient(calls', e) <= owners[e]["client"]
    BY <1>6, CountsOf DEF IInv, CallsHeld
  <1>10. CallsHeld'
    BY <1>1, <1>6, <1>9 DEF CallsHeld
  <1> QED
    BY <1>3, <1>4, <1>5, <1>8, <1>10 DEF IInv

\* A call returns and gives its own reference up.
LEMMA CallReturnsKeeps ==
  ASSUME IInv, CallReturns
  PROVE  IInv'
  <1> DEFINE last == calls[Len(calls)]
             d == last.obj
  <1>1. /\ calls # <<>> /\ calls' = SubSeq(calls, 1, Len(calls) - 1)
        /\ UNCHANGED <<objects, owners, luaHeap, crashed>>
        /\ IF last.by = "call" THEN Release(d) ELSE UNCHANGED counts
    BY DEF CallReturns
  <1>2. /\ calls' \in Seq(Calls) /\ Len(calls) \in 1..Len(calls)
        /\ \A i \in 1..Len(calls') : calls'[i].by \in {"call", "client"}
        /\ \A e : OfWrapper(calls', e) \in Nat /\ OfClient(calls', e) \in Nat
        /\ \A e : OfWrapper(calls, e) = OfWrapper(calls', e)
                         + (IF e = d /\ last.by = "call" THEN 1 ELSE 0)
        /\ \A e : OfClient(calls, e) = OfClient(calls', e)
                         + (IF e = d /\ last.by = "client" THEN 1 ELSE 0)
    BY <1>1, CallEnds DEF IInv
  <1>3. d \in Dispatches /\ Live(d) /\ last.by \in {"call", "client"}
    BY <1>2, CallKeeps DEF IInv, CallsHeld
  <1>4. Heap'
    BY <1>1 DEF IInv, Heap, objects, luaHeap
  <1>5. \A e \in Dispatches :
          owners[e]["client"] \in Nat /\ OfClient(calls, e) <= owners[e]["client"]
    BY DEF IInv, Owned, CallsHeld, Holders
  <1> HIDE DEF last, d
  <1>6. \A e \in Dispatches : OfClient(calls', e) <= owners[e]["client"]
    BY <1>2, <1>5
  <1>7. CallsHeld'
    BY <1>1, <1>2, <1>6 DEF CallsHeld
  <1>8. /\ \A e \in Dispatches : Locals(e)' = Locals(e) /\ Kinds(owners', e) = Kinds(owners, e)
        /\ owners' \in [Dispatches -> [Holders -> Nat]]
        /\ locals' \in SUBSET {"iluacom", "lcom"}
    BY <1>1 DEF objects, Locals, IInv, Owned
  <1>9. CASE last.by = "call"
    <2>1. /\ Accounts' /\ \A e \in Dispatches : Live(e)' => Live(e)
          /\ \A e \in Dispatches : refs'[e] = refs[e] - (IF e = d THEN 1 ELSE 0)
      BY <1>1, <1>3, <1>9, ReleaseKeeps DEF IInv, objects
    <2>2. ASSUME NEW e \in Dispatches
          PROVE  refs'[e] = Locals(e)' + OfWrapper(calls', e) + Kinds(owners', e)
      <3>1. /\ Locals(e) \in Nat /\ OfWrapper(calls, e) \in Nat /\ Kinds(owners, e) \in Nat
            /\ refs[e] = Locals(e) + OfWrapper(calls, e) + Kinds(owners, e)
        BY KindsSum DEF IInv
      <3>2. Locals(e)' = Locals(e) /\ Kinds(owners', e) = Kinds(owners, e)
        BY <1>8
      <3> DEFINE l == Locals(e)'
      <3>3. l = Locals(e)
        BY <3>2
      <3> HIDE DEF l
      <3>4. refs'[e] = l + OfWrapper(calls', e) + Kinds(owners', e)
        BY <1>2, <1>9, <2>1, <3>1, <3>2, <3>3
      <3> QED
        BY <3>4 DEF l
    <2>3. Owned'
      BY <1>2, <1>8, <2>2, StillCounted DEF IInv
    <2>4. TablesKept'
      BY <1>1, <2>1 DEF IInv, TablesKept, objects, luaHeap
    <2> QED
      BY <1>4, <1>7, <2>1, <2>3, <2>4 DEF IInv
  <1>10. CASE last.by = "client"
    <2>1. UNCHANGED counts
      BY <1>1, <1>10
    <2>2. Accounts' /\ TablesKept'
      BY <1>1, <2>1 DEF IInv, objects, counts, luaHeap, Accounts, Live, TablesKept
    <2>3. \A e \in Dispatches : refs'[e] = Locals(e)' + OfWrapper(calls', e) + Kinds(owners', e)
      BY <1>2, <1>8, <1>10, <2>1, KindsSum DEF IInv, counts
    <2>4. Owned'
      BY <1>2, <1>8, <2>3, StillCounted DEF IInv
    <2> QED
      BY <1>4, <1>7, <2>2, <2>4 DEF IInv
  <1> QED
    BY <1>3, <1>9, <1>10

\* A new object: its maker's pointer is the only owner, and the table one that
\* nobody has freed.
LEMMA CreateLuaDispatchKeeps ==
  ASSUME IInv, NEW t \in Tables, CreateLuaDispatch(t)
  PROVE  IInv'
  <1> DEFINE d == made + 1
  <1>1. d \in Dispatches /\ made \in 0..MaxDispatches
    BY LuaDispatchAssumption DEF CreateLuaDispatch, Dispatches, IInv, Heap
  <1>2. ~Live(d)
    BY <1>1 DEF IInv, Accounts
  <1>3. /\ t \in reached /\ made' = d /\ making' = d /\ making = 0
        /\ locals' = {"iluacom"}
        /\ serves' = [serves EXCEPT ![d] = t]
        /\ locked' = locked \cup {d}
        /\ refs' = [refs EXCEPT ![d] = 1]
        /\ idxDispatch' = [idxDispatch EXCEPT ![t] = d]
        /\ UNCHANGED <<owners, reached, collected, calls, crashed>>
    BY DEF CreateLuaDispatch, OwnRef, CreatorsRefs, Ready
  <1> HIDE DEF d
  <1>4. /\ refs \in [Dispatches -> Nat] /\ refs' \in [Dispatches -> Nat]
        /\ \A e \in Dispatches : refs'[e] = IF e = d THEN 1 ELSE refs[e]
    BY <1>1, <1>3 DEF IInv, Accounts
  <1>5. \A e \in Dispatches : Live(e)' <=> Live(e) \/ e = d
    BY <1>4 DEF Live
  <1>6. \A e \in Dispatches : e \in locked' <=> Live(e)'
    BY <1>3, <1>5 DEF IInv, Accounts
  <1>7. \A e \in Dispatches : Live(e)' => e <= made'
    BY <1>1, <1>3, <1>5 DEF IInv, Accounts, d, Dispatches
  <1>8. Accounts'
    BY <1>1, <1>3, <1>4, <1>6, <1>7 DEF IInv, Accounts
  <1>9. ASSUME NEW e \in Dispatches
        PROVE  refs'[e] = Locals(e)' + OfWrapper(calls', e) + Kinds(owners', e)
    <2>1. /\ Locals(e) \in Nat /\ OfWrapper(calls, e) \in Nat /\ Kinds(owners, e) \in Nat
          /\ refs[e] = Locals(e) + OfWrapper(calls, e) + Kinds(owners, e)
      BY KindsSum DEF IInv
    <2>2. OfWrapper(calls', e) = OfWrapper(calls, e) /\ Kinds(owners', e) = Kinds(owners, e)
      BY <1>3
    <2>3. Locals(e) = 0
      BY <1>3 DEF Locals, Dispatches
    <2>4. Locals(e)' = IF e = d THEN 1 ELSE 0
      <3>1. Cardinality(locals') = 1
        BY <1>3, LocalsCount
      <3> QED
        BY <1>3, <3>1 DEF Locals
    <2>5. e = d => refs[e] = 0
      BY <1>2, <1>4 DEF Live
    <2> DEFINE l == Locals(e)'
    <2>6. l = IF e = d THEN 1 ELSE 0
      BY <2>4
    <2> HIDE DEF l
    <2>7. refs'[e] = l + OfWrapper(calls', e) + Kinds(owners', e)
      BY <1>4, <2>1, <2>2, <2>3, <2>5, <2>6
    <2> QED
      BY <2>7 DEF l
  <1>10. Owned'
    BY <1>3, <1>9, StillCounted DEF IInv, Owned, CallsHeld
  <1>11. Heap'
    <2>1. d \in 0..MaxDispatches
      BY <1>1 DEF Dispatches
    <2> QED
      BY <1>1, <1>3, <2>1 DEF IInv, Heap
  <1>12. TablesKept'
    <2>1. \A e \in Dispatches : serves'[e] = IF e = d THEN t ELSE serves[e]
      BY <1>1, <1>3 DEF IInv, Heap
    <2> QED
      BY <1>3, <1>5, <2>1 DEF IInv, Heap, TablesKept
  <1>13. CallsHeld'
    BY <1>3 DEF IInv, CallsHeld
  <1> QED
    BY <1>8, <1>10, <1>11, <1>12, <1>13 DEF IInv

\* A pointer of the object's maker goes, with its reference or to Lua.
LEMMA MakerKeeps ==
  ASSUME IInv, making # 0, locals # {}
  PROVE  making \in Dispatches /\ Live(making)
  <1>1. making \in Dispatches
    BY LuaDispatchAssumption DEF IInv, Heap, Dispatches
  <1>2. locals \in {{"iluacom"}, {"lcom"}, {"iluacom", "lcom"}}
    BY DEF IInv, Owned
  <1>3. Cardinality(locals) > 0
    BY <1>2, LocalsCount
  <1>4. Locals(making) > 0
    BY <1>3 DEF Locals
  <1> QED
    BY <1>1, <1>4, OwnerKeeps DEF IInv

\* The count of the maker's pointers, where they are the only ones that change.
LEMMA LocalsStep ==
  ASSUME IInv, making \in Dispatches, UNCHANGED <<owners, calls>>,
         making' \in {0, making}, making' = 0 => locals' = {},
         locals' \in SUBSET {"iluacom", "lcom"},
         \A e \in Dispatches :
           refs'[e] = refs[e] + (IF e = making
                                 THEN Cardinality(locals') - Cardinality(locals) ELSE 0)
  PROVE  Owned'
  <1>1. ASSUME NEW e \in Dispatches
        PROVE  refs'[e] = Locals(e)' + OfWrapper(calls', e) + Kinds(owners', e)
    <2>1. /\ Locals(e) \in Nat /\ OfWrapper(calls, e) \in Nat /\ Kinds(owners, e) \in Nat
          /\ refs[e] = Locals(e) + OfWrapper(calls, e) + Kinds(owners, e)
      BY KindsSum DEF IInv
    <2>2. OfWrapper(calls', e) = OfWrapper(calls, e) /\ Kinds(owners', e) = Kinds(owners, e)
      OBVIOUS
    <2>3. Cardinality(locals') \in Nat /\ Cardinality(locals) \in Nat
      BY LocalsNat DEF IInv, Owned
    <2>4. Cardinality({}) = 0
      BY LocalsCount
    <2>5. Locals(e)' = Locals(e) + (IF e = making
                                    THEN Cardinality(locals') - Cardinality(locals) ELSE 0)
      <3>1. CASE e = making
        <4>1. Locals(e) = Cardinality(locals)
          BY <3>1 DEF Locals
        <4>2. Locals(e)' = Cardinality(locals')
          <5>1. CASE making' = making
            BY <3>1, <5>1 DEF Locals
          <5>2. CASE making' = 0
            <6>1. making # 0 /\ Cardinality(locals') = 0
              <7>1. locals' = {}
                BY <5>2
              <7>2. Cardinality(locals') = 0
                BY <2>4, <7>1, Zenon
              <7>3. making # 0
                BY DEF Dispatches
              <7> QED
                BY <7>2, <7>3
            <6> QED
              BY <3>1, <5>2, <6>1 DEF Locals
          <5> QED
            BY <5>1, <5>2
        <4> QED
          BY <2>3, <3>1, <4>1, <4>2
      <3>2. CASE e # making
        <4>1. Locals(e) = 0
          BY <3>2 DEF Locals
        <4>2. Locals(e)' = 0
          BY <3>2 DEF Locals, Dispatches
        <4> QED
          BY <3>2, <4>1, <4>2
      <3> QED
        BY <3>1, <3>2
    <2> DEFINE l == Locals(e)'
               c == Cardinality(locals')
    <2>6. /\ l = Locals(e) + (IF e = making THEN c - Cardinality(locals) ELSE 0)
          /\ refs'[e] = refs[e] + (IF e = making THEN c - Cardinality(locals) ELSE 0)
          /\ c \in Nat
      BY <2>3, <2>5
    <2> HIDE DEF l, c
    <2>7. refs'[e] = l + OfWrapper(calls', e) + Kinds(owners', e)
      BY <2>1, <2>2, <2>3, <2>6
    <2> QED
      BY <2>7 DEF l
  <1> QED
    BY <1>1, StillCounted DEF IInv, Owned, CallsHeld

\* The steps of a creation.
LEMMA MakingKeeps ==
  ASSUME IInv, CreateLuaCOM \/ ScopeEnds \/ ReturnsWrapper(0) \/ ReturnsWrapper(1) \/ CreationFails
  PROVE  IInv'
  <1>1. locals # {} /\ making # 0
    BY DEF CreateLuaCOM, ScopeEnds, ReturnsWrapper, CreationFails
  <1>2. making \in Dispatches /\ Live(making)
    BY <1>1, MakerKeeps
  <1>3. 0 \in 0..MaxDispatches
    BY LuaDispatchAssumption
  <1>4. CASE CreateLuaCOM
    <2>1. /\ locals = {"iluacom"} /\ locals' = {"iluacom", "lcom"} /\ AddRef(making)
          /\ UNCHANGED <<made, serves, making, owners, luaHeap, calls, crashed>>
      BY <1>4 DEF CreateLuaCOM
    <2>2. /\ Accounts' /\ \A e \in Dispatches : Live(e)' <=> Live(e)
          /\ \A e \in Dispatches : refs'[e] = refs[e] + (IF e = making THEN 1 ELSE 0)
      BY <1>2, <2>1, AddRefKeeps DEF IInv
    <2>3. Cardinality(locals') - Cardinality(locals) = 1
      BY <2>1, LocalsCount
    <2>4. Owned'
      BY <1>1, <1>2, <2>1, <2>2, <2>3, LocalsStep DEF IInv
    <2>5. Heap' /\ TablesKept' /\ CallsHeld'
      BY <2>1, <2>2 DEF IInv, Heap, TablesKept, CallsHeld, luaHeap
    <2> QED
      BY <2>2, <2>4, <2>5 DEF IInv
  <1>5. ASSUME Release(making), locals' \in SUBSET {"iluacom", "lcom"},
               Cardinality(locals) - Cardinality(locals') = 1,
               making' \in {0, making}, making' = 0 => locals' = {},
               UNCHANGED <<made, serves, owners, luaHeap, calls, crashed>>
        PROVE  IInv'
    <2>1. /\ Accounts' /\ \A e \in Dispatches : Live(e)' => Live(e)
          /\ \A e \in Dispatches : refs'[e] = refs[e] - (IF e = making THEN 1 ELSE 0)
      BY <1>2, <1>5, ReleaseKeeps DEF IInv
    <2>2. Cardinality(locals') \in Nat /\ Cardinality(locals) \in Nat
      BY <1>5, LocalsNat DEF IInv, Owned
    <2>3. \A e \in Dispatches :
            refs'[e] = refs[e] + (IF e = making
                                  THEN Cardinality(locals') - Cardinality(locals) ELSE 0)
      <3> DEFINE m == Cardinality(locals')
                 n == Cardinality(locals)
      <3>1. m \in Nat /\ n \in Nat /\ n - m = 1
        BY <1>5, <2>2
      <3> HIDE DEF m, n
      <3>2. m - n = 0 - 1
        BY <3>1
      <3>3. \A e \in Dispatches : refs[e] \in Nat
        BY DEF IInv, Accounts
      <3>4. \A e \in Dispatches : refs'[e] = refs[e] + (IF e = making THEN m - n ELSE 0)
        BY <2>1, <3>2, <3>3
      <3> QED
        BY <3>4 DEF m, n
    <2>4. Owned'
      BY <1>2, <1>5, <2>3, LocalsStep
    <2>5. Heap' /\ TablesKept' /\ CallsHeld'
      BY <1>2, <1>3, <1>5, <2>1 DEF IInv, Heap, TablesKept, CallsHeld, luaHeap
    <2> QED
      BY <2>1, <2>4, <2>5 DEF IInv
  <1>6. CASE ScopeEnds
    <2>1. /\ "iluacom" \in locals /\ Release(making) /\ locals' = locals \ {"iluacom"}
          /\ making' = IF locals = {"iluacom"} THEN 0 ELSE making
          /\ UNCHANGED <<made, serves, owners, luaHeap, calls, crashed>>
      BY <1>6 DEF ScopeEnds
    <2>2. CASE locals = {"iluacom"}
      <3>1. locals' = {} /\ making' = 0
        BY <2>1, <2>2
      <3>2. Cardinality(locals) - Cardinality(locals') = 1
        BY <2>2, <3>1, LocalsCount
      <3> QED
        BY <1>5, <2>1, <3>1, <3>2
    <2>3. CASE locals = {"iluacom", "lcom"}
      <3>1. locals' = {"lcom"} /\ making' = making
        BY <2>1, <2>3
      <3>2. Cardinality(locals) - Cardinality(locals') = 1
        BY <2>3, <3>1, LocalsCount
      <3> QED
        BY <1>1, <1>5, <2>1, <3>1, <3>2
    <2> QED
      BY <2>1, <2>2, <2>3 DEF IInv, Owned
  <1>7. CASE CreationFails
    <2>1. /\ locals = {"lcom"} /\ Release(making) /\ locals' = {} /\ making' = 0
          /\ UNCHANGED <<made, serves, owners, luaHeap, calls, crashed>>
      BY <1>7 DEF CreationFails, Unlock
    <2>2. Cardinality(locals) - Cardinality(locals') = 1
      BY <2>1, LocalsCount
    <2> QED
      BY <1>5, <2>1, <2>2
  <1>8. ASSUME NEW sources \in {0, 1}, ReturnsWrapper(sources)
        PROVE  IInv'
    <2> DEFINE d == making
    <2>1. /\ locals = {"lcom"} /\ locals' = {} /\ making' = 0
          /\ owners' = [owners EXCEPT ![d]["wrapper"] = @ + 1, ![d]["source"] = @ + sources]
          /\ IF sources = 1 THEN AddRef(d) ELSE UNCHANGED counts
          /\ UNCHANGED <<made, serves, luaHeap, calls, crashed>>
      BY <1>8 DEF ReturnsWrapper
    <2>2. d \in Dispatches /\ Live(d) /\ d # 0
      BY <1>1, <1>2
    <2>3. /\ Accounts' /\ \A e \in Dispatches : Live(e)' <=> Live(e)
          /\ \A e \in Dispatches :
               refs'[e] = refs[e] + (IF e = d THEN sources ELSE 0)
      <3>1. CASE sources = 1
        BY <2>1, <2>2, <3>1, AddRefKeeps DEF IInv
      <3>2. CASE sources = 0
        BY <2>1, <3>2 DEF IInv, Accounts, Live, counts
      <3> QED
        BY <3>1, <3>2
    <2>4. /\ owners' \in [Dispatches -> [Holders -> Nat]]
          /\ \A e \in Dispatches :
               /\ owners'[e]["wrapper"] = owners[e]["wrapper"] + (IF e = d THEN 1 ELSE 0)
               /\ owners'[e]["source"] = owners[e]["source"] + (IF e = d THEN sources ELSE 0)
               /\ owners'[e]["factory"] = owners[e]["factory"]
               /\ owners'[e]["client"] = owners[e]["client"]
      BY <2>1, <2>2 DEF IInv, Owned, Holders
    <2>5. ASSUME NEW e \in Dispatches
          PROVE  Kinds(owners', e) = Kinds(owners, e) + (IF e = d THEN 1 + sources ELSE 0)
      <3>1. /\ owners[e]["wrapper"] \in Nat /\ owners[e]["source"] \in Nat
            /\ owners[e]["factory"] \in Nat /\ owners[e]["client"] \in Nat
        BY DEF IInv, Owned, Holders
      <3> QED
        BY <2>4, <3>1 DEF Kinds
    <2>6. Cardinality(locals) = 1
      BY <2>1, LocalsCount
    <2>7. ASSUME NEW e \in Dispatches
          PROVE  refs'[e] = Locals(e)' + OfWrapper(calls', e) + Kinds(owners', e)
      <3>1. /\ Locals(e) \in Nat /\ OfWrapper(calls, e) \in Nat /\ Kinds(owners, e) \in Nat
            /\ refs[e] = Locals(e) + OfWrapper(calls, e) + Kinds(owners, e)
        BY KindsSum DEF IInv
      <3>2. Locals(e) = IF e = d THEN 1 ELSE 0
        BY <2>6 DEF Locals
      <3>3. Locals(e)' = 0
        BY <2>1 DEF Locals, Dispatches
      <3>4. OfWrapper(calls', e) = OfWrapper(calls, e)
        BY <2>1
      <3>5. refs'[e] = OfWrapper(calls', e) + Kinds(owners', e)
        BY <2>3, <2>5, <3>1, <3>2, <3>4
      <3>6. OfWrapper(calls', e) \in Nat
        BY <3>1, <3>4
      <3> QED
        BY <3>3, <3>5, <3>6
    <2>8. Owned'
      BY <2>1, <2>4, <2>7, StillCounted DEF IInv, CallsHeld
    <2>9. Heap' /\ TablesKept' /\ CallsHeld'
      BY <1>3, <2>1, <2>3, <2>4 DEF IInv, Heap, TablesKept, CallsHeld, luaHeap
    <2> QED
      BY <2>3, <2>8, <2>9 DEF IInv
  <1> QED
    BY <1>4, <1>6, <1>7, <1>8

\* Whoever has a reference gives one on.
LEMMA AddRefsKeep ==
  ASSUME IInv, NEW d \in Dispatches,
         PassesWrapper(d) \/ ExposeObject(d) \/ CreateInstance(d) \/ ComesWrapped(d)
  PROVE  IInv'
  <1>1. PICK from \in Holders, to \in Holders :
          /\ owners[d][from] > 0 /\ Comes(d, to) /\ AddRef(d)
          /\ UNCHANGED <<objects, luaHeap, calls, crashed>>
    BY DEF PassesWrapper, ExposeObject, CreateInstance, ComesWrapped, Holders
  <1>2. Live(d)
    BY <1>1, OwnerKeeps DEF IInv
  <1>3. Heap'
    BY <1>1 DEF IInv, Heap, objects, luaHeap
  <1> QED
    BY <1>1, <1>2, <1>3, AddRefStep DEF luaHeap

\* An owner that goes.
LEMMA ReleasesKeep ==
  ASSUME IInv, NEW d \in Dispatches,
         WrapperGoes(d) \/ SourceGoes(d) \/ RevokeObject(d) \/ ClientReleases(d)
  PROVE  IInv'
  <1>1. PICK who \in Holders :
          /\ Goes(d, who) /\ Release(d)
          /\ who = "client" => Spare(d) > 0
          /\ UNCHANGED <<objects, luaHeap, calls, crashed>>
    BY DEF WrapperGoes, SourceGoes, RevokeObject, ClientReleases, Holders
  <1>2. Heap'
    BY <1>1 DEF IInv, Heap, objects, luaHeap
  <1> QED
    BY <1>1, <1>2, ReleaseStep DEF luaHeap

\* What happens to tables.
LEMMA TablesKeep ==
  ASSUME IInv, NEW t \in Tables, PassesTable(t) \/ ScriptForgets(t) \/ Collect(t)
  PROVE  IInv'
  <1>1. CASE PassesTable(t)
    <2> DEFINE d == idxDispatch[t]
    <2>1. d \in Dispatches
      BY <1>1, LuaDispatchAssumption DEF PassesTable, IInv, Heap, Dispatches
    <2>2. UNCHANGED <<objects, luaHeap, calls>>
      BY <1>1 DEF PassesTable
    <2>3. \/ Live(d) /\ Comes(d, "client") /\ AddRef(d) /\ UNCHANGED crashed
          \/ crashed' = TRUE /\ UNCHANGED <<owners, counts>>
      BY <1>1 DEF PassesTable
    <2>4. Heap'
      BY <2>2, <2>3 DEF IInv, Heap, objects, luaHeap
    <2> HIDE DEF d
    <2>5. CASE Live(d) /\ Comes(d, "client") /\ AddRef(d)
      BY <2>1, <2>2, <2>4, <2>5, AddRefStep DEF Holders, objects, luaHeap
    <2>6. CASE UNCHANGED <<owners, counts>>
      BY <2>2, <2>4, <2>6, HeapStep DEF IInv, TablesKept, Live, objects, luaHeap, counts
    <2> QED
      BY <2>3, <2>5, <2>6
  <1>2. CASE ScriptForgets(t)
    <2>1. /\ UNCHANGED <<objects, counts, owners, idxDispatch, collected, calls, crashed>>
          /\ reached' = reached \ {t}
      BY <1>2 DEF ScriptForgets
    <2> QED
      BY <2>1, HeapStep DEF IInv, Heap, TablesKept, Live, objects, counts
  <1>3. CASE Collect(t)
    <2>1. /\ UNCHANGED <<objects, counts, owners, idxDispatch, reached, calls, crashed>>
          /\ collected' = collected \cup {t} /\ t \notin reached
          /\ \A d \in locked : serves[d] # t
      BY <1>3 DEF Collect
    <2>2. TablesKept'
      BY <2>1 DEF IInv, Accounts, TablesKept, Live, objects, counts
    <2> QED
      BY <2>1, <2>2, HeapStep DEF IInv, Heap, objects
  <1> QED
    BY <1>1, <1>2, <1>3

LEMMA ComesBackKeeps ==
  ASSUME IInv, NEW d \in Dispatches, ComesBack(d)
  PROVE  IInv'
  <1>1. /\ UNCHANGED <<objects, counts, owners, idxDispatch, collected, calls, crashed>>
        /\ reached' = reached \cup {serves[d]} /\ owners[d]["client"] > 0
    BY DEF ComesBack
  <1>2. Live(d)
    BY <1>1, OwnerKeeps DEF IInv, Holders
  <1>3. Heap' /\ TablesKept'
    BY <1>1, <1>2 DEF IInv, Heap, TablesKept, Live, objects, counts
  <1> QED
    BY <1>1, <1>3, HeapStep

LEMMA InitIInv == DispatchInit => IInv
  <1> SUFFICES ASSUME DispatchInit PROVE IInv
    OBVIOUS
  <1>1. \A d \in Dispatches : ~Live(d) /\ refs[d] = 0
    BY DEF DispatchInit, Live
  <1>2. \A d \in Dispatches : \A w \in Holders : owners[d][w] = 0
    BY DEF DispatchInit
  <1>3. Accounts
    BY <1>1 DEF DispatchInit, Accounts
  <1>4. Heap
    <2>1. made = 0 /\ making = 0 /\ 0 \in 0..MaxDispatches
      BY LuaDispatchAssumption DEF DispatchInit
    <2>2. idxDispatch \in [Tables -> 0..MaxDispatches]
      BY <2>1 DEF DispatchInit
    <2>3. reached = Tables /\ collected = {} /\ crashed = FALSE
      BY DEF DispatchInit
    <2> QED
      BY <2>1, <2>2, <2>3 DEF DispatchInit, Heap
  <1>5. TablesKept
    BY <1>1 DEF TablesKept
  <1>6. calls = <<>> /\ calls \in Seq(Calls) /\ Len(calls) = 0
    BY DEF DispatchInit
  <1>7. \A d : OfWrapper(calls, d) = 0 /\ OfClient(calls, d) = 0
    <2>1. \A c : Where(calls, c) = {}
      BY <1>6 DEF Where
    <2> QED
      BY <2>1, FS_EmptySet DEF OfWrapper, OfClient, Count
  <1>8. CallsHeld
    <2>1. \A i \in 1..Len(calls) : FALSE
      BY <1>6
    <2>2. \A d \in Dispatches : owners[d]["client"] = 0
      BY <1>2 DEF Holders
    <2> QED
      BY <1>6, <1>7, <2>1, <2>2 DEF CallsHeld
  <1>9. Owned
    <2>1. \A d \in Dispatches : Locals(d) = 0 /\ Calling(d, "call") = 0
      BY <1>7, CallingIs DEF Locals, Dispatches, DispatchInit
    <2>2. RefsCounted
      BY <1>1, <1>2, <2>1 DEF RefsCounted, Holders
    <2> QED
      BY <2>2 DEF Owned, DispatchInit
  <1> QED
    BY <1>3, <1>4, <1>5, <1>8, <1>9 DEF IInv

LEMMA NextIInv == IInv /\ [DispatchNext]_dvars => IInv'
  <1> SUFFICES ASSUME IInv, [DispatchNext]_dvars PROVE IInv'
    OBVIOUS
  <1>1. CASE Script
    BY <1>1, CreateLuaDispatchKeeps, MakingKeeps, TablesKeep, ReleasesKeep, AddRefsKeep,
       WrapperCallsKeep DEF Script
  <1>2. CASE Client
    BY <1>2, AddRefsKeep, ReleasesKeep, ClientCallsKeep, ComesBackKeeps DEF Client
  <1>3. CASE CallReturns
    BY <1>3, CallReturnsKeeps
  <1>4. CASE UNCHANGED dvars
    BY <1>4 DEF dvars, IInv, objects, counts, luaHeap, Accounts, Owned, CallsHeld, RefsCounted,
                Locals, Calling, Live, Heap, TablesKept
  <1> QED
    BY <1>1, <1>2, <1>3, <1>4 DEF DispatchNext

-----------------------------------------------------------------------------
(* The theorems.                                                           *)

LEMMA Inductive == DispatchSpec => []IInv
  BY InitIInv, NextIInv, PTL DEF DispatchSpec

\* Counts, tables and calls keep their types: a count is never negative.
THEOREM TypeCorrect == DispatchSpec => []TypeOK
  <1>1. IInv => TypeOK
    BY DEF IInv, Accounts, Owned, Heap, CallsHeld, Calls, TypeOK
  <1> QED
    BY <1>1, Inductive, PTL

\* m_refs is the number of owners that exist, whatever is made, passed,
\* exposed, called or let go, in whatever order, and wherever a creation fails.
THEOREM RefsAlwaysCounted == DispatchSpec => []RefsCounted
  <1>1. IInv => RefsCounted
    BY DEF IInv, Owned
  <1> QED
    BY <1>1, Inductive, PTL

\* The table of an object that somebody refers to is not collected, and a
\* deleted object keeps no table.
THEOREM TableAlwaysOutlives == DispatchSpec => []TableOutlives
  <1>1. IInv => TableOutlives
    BY DEF IInv, Accounts, TablesKept, TableOutlives
  <1> QED
    BY <1>1, Inductive, PTL

\* An object whose method runs lives, and so does its table, until the
\* outermost of its calls returns.
THEOREM AliveInEveryCall == DispatchSpec => []AliveDuringCall
  <1>1. IInv => AliveDuringCall
    BY CallKeeps DEF IInv, TablesKept, AliveDuringCall
  <1> QED
    BY <1>1, Inductive, PTL

================================================================================
