---------------------------- MODULE ConnPoint_proofs ----------------------------
(***************************************************************************)
(* Proofs about the connection point of a served object, for any number of *)
(* Advise calls, of tables for a sink and of operations within each other. *)
(***************************************************************************)
EXTENDS ConnPoint, FiniteSetTheorems, SequenceTheorems, WellFoundedInduction, TLAPS

-----------------------------------------------------------------------------
(* What the slots keep whatever the clients do: a cookie is in one slot,   *)
(* and the granted ones are the cookies in the slots.                      *)

Slot == [cookie : 0..MaxAdvises, sink : 0..MaxAdvises]

SlotsKept ==
  /\ slots \in Seq(Slot)
  /\ mNextCookie \in 1..(MaxAdvises + 1)
  /\ Len(slots) < mNextCookie
  /\ \A i \in 1..Len(slots) : slots[i].cookie < mNextCookie
  /\ \A i, j \in 1..Len(slots) :
       slots[i].cookie = slots[j].cookie /\ slots[i].cookie # 0 => i = j
  /\ granted \subseteq Cookies
  /\ \A k \in Cookies : k \in granted <=> \E i \in 1..Len(slots) : slots[i].cookie = k


\* The least element of a nonempty set of numbers.
LEMMA LeastOf ==
  ASSUME NEW S \in SUBSET Nat, S # {}
  PROVE  Least(S) \in S /\ \A j \in S : Least(S) <= j
  <1> DEFINE Lower == {pair \in Nat \X Nat : pair[1] < pair[2]}
  <1>1. IsWellFoundedOn(Lower, Nat)
    BY NatLessThanWellFounded DEF OpToRel
  <1> HIDE DEF Lower
  <1>2. PICK i \in S : \A j \in S : ~(<<j, i>> \in Lower)
    BY <1>1, WFMin
  <1>3. ASSUME NEW j \in S PROVE i <= j
    <2>1. i \in Nat /\ j \in Nat
      OBVIOUS
    <2>2. <<j, i>> \in Lower <=> j < i
      BY <2>1 DEF Lower
    <2> QED
      BY <1>2, <2>1, <2>2
  <1> QED
    BY <1>3 DEF Least

\* Advise takes a slot without a cookie, or the one after the last.
LEMMA FreeSlotIsFree ==
  ASSUME SlotsKept
  PROVE  /\ FreeSlot \in 1..(Len(slots) + 1)
         /\ FreeSlot <= Len(slots) => slots[FreeSlot].cookie = 0
  <1> DEFINE S == {i \in 1..Len(slots) : slots[i].cookie = 0} \cup {Len(slots) + 1}
  <1>1. Len(slots) \in Nat
    BY LenProperties DEF SlotsKept
  <1>2. S \in SUBSET Nat /\ S # {}
    BY <1>1
  <1>3. Least(S) \in S
    BY <1>2, LeastOf
  <1> QED
    BY <1>1, <1>3 DEF FreeSlot

\* What the commit of Advise does to the slots.
LEMMA Stored ==
  ASSUME SlotsKept, AdviseStores
  PROVE  /\ slots' \in Seq(Slot)
         /\ Len(slots) \in Nat /\ Len(slots') \in {Len(slots), Len(slots) + 1}
         /\ FreeSlot \in 1..Len(slots')
         /\ slots'[FreeSlot] = [cookie |-> mNextCookie, sink |-> mNextCookie]
         /\ \A j \in 1..Len(slots') \ {FreeSlot} : j \in 1..Len(slots) /\ slots'[j] = slots[j]
  <1> DEFINE slot == [cookie |-> mNextCookie, sink |-> mNextCookie]
  <1>1. slots \in Seq(Slot) /\ slot \in Slot /\ Len(slots) \in Nat
    BY LenProperties DEF SlotsKept, AdviseStores, Slot
  <1>2. FreeSlot \in 1..(Len(slots) + 1)
    BY FreeSlotIsFree
  <1>3. slots' = IF FreeSlot > Len(slots) THEN Append(slots, slot)
                                          ELSE [slots EXCEPT ![FreeSlot] = slot]
    BY DEF AdviseStores
  <1> HIDE DEF slot
  <1>4. CASE FreeSlot > Len(slots)
    <2>1. slots' = Append(slots, slot) /\ FreeSlot = Len(slots) + 1
      BY <1>1, <1>2, <1>3, <1>4
    <2>2. /\ Append(slots, slot) \in Seq(Slot)
          /\ Len(Append(slots, slot)) = Len(slots) + 1
          /\ Append(slots, slot)[Len(slots) + 1] = slot
          /\ \A j \in 1..Len(slots) : Append(slots, slot)[j] = slots[j]
      BY <1>1
    <2> QED
      BY <1>1, <2>1, <2>2 DEF slot
  <1>5. CASE ~(FreeSlot > Len(slots))
    <2>1. slots' = [slots EXCEPT ![FreeSlot] = slot] /\ FreeSlot \in 1..Len(slots)
      BY <1>1, <1>2, <1>3, <1>5
    <2> QED
      BY <1>1, <2>1, ExceptSeq DEF slot
  <1> QED
    BY <1>4, <1>5

\* What Unadvise does to its slot when it gives up the cookie.
LEMMA Withdrawn ==
  ASSUME SlotsKept, NEW i \in 1..Len(slots), slots' = [slots EXCEPT ![i].cookie = 0]
  PROVE  /\ slots' \in Seq(Slot) /\ Len(slots') = Len(slots) /\ Len(slots) \in Nat
         /\ slots'[i] = [cookie |-> 0, sink |-> slots[i].sink]
         /\ \A j \in 1..Len(slots) \ {i} : slots'[j] = slots[j]
  <1> DEFINE slot == [slots[i] EXCEPT !.cookie = 0]
  <1>1. slots \in Seq(Slot) /\ slots[i] \in Slot /\ Len(slots) \in Nat
    BY ElementOfSeq, LenProperties DEF SlotsKept
  <1>2. slot \in Slot /\ slot = [cookie |-> 0, sink |-> slots[i].sink]
    BY <1>1, ConnPointAssumption DEF Slot
  <1>3. slots' = [slots EXCEPT ![i] = slot]
    OBVIOUS
  <1> HIDE DEF slot
  <1> QED
    BY <1>1, <1>2, <1>3, ExceptSeq

\* What Unadvise does to its slot when the sink has been unlocked.
LEMMA Cleared ==
  ASSUME SlotsKept, NEW i, slots' = [slots EXCEPT ![i].sink = 0]
  PROVE  /\ slots' \in Seq(Slot) /\ Len(slots') = Len(slots) /\ Len(slots) \in Nat
         /\ i \in 1..Len(slots) => slots'[i] = [cookie |-> slots[i].cookie, sink |-> 0]
         /\ \A j \in 1..Len(slots) \ {i} : slots'[j] = slots[j]
  <1> DEFINE slot == [slots[i] EXCEPT !.sink = 0]
  <1>1. slots \in Seq(Slot) /\ Len(slots) \in Nat /\ DOMAIN slots = 1..Len(slots)
    BY LenProperties DEF SlotsKept
  <1>2. slots' = [slots EXCEPT ![i] = slot]
    OBVIOUS
  <1>3. CASE i \in 1..Len(slots)
    <2>1. slots[i] \in Slot
      BY <1>1, <1>3, ElementOfSeq
    <2>2. slot \in Slot /\ slot = [cookie |-> slots[i].cookie, sink |-> 0]
      BY <2>1, ConnPointAssumption DEF Slot
    <2>3. slots' = [slots EXCEPT ![i] = [cookie |-> slots[i].cookie, sink |-> 0]]
      BY <1>2, <2>2
    <2> QED
      BY <1>1, <1>3, <2>2, <2>3, ExceptSeq
  <1>4. CASE i \notin 1..Len(slots)
    <2>1. slots \in [1..Len(slots) -> Slot]
      BY <1>1, LenProperties
    <2> HIDE DEF slot
    <2>2. slots' = slots
      BY <1>1, <1>2, <1>4, <2>1
    <2> QED
      BY <1>1, <1>4, <2>2
  <1> QED
    BY <1>3, <1>4

\* The slots of a step that leaves them alone.
LEMMA SlotsUnchanged ==
  ASSUME SlotsKept, UNCHANGED <<slots, mNextCookie, granted>>
  PROVE  SlotsKept'
  BY DEF SlotsKept

\* Advise hands out a new cookie, in one slot.
LEMMA StoresSlot ==
  ASSUME SlotsKept, AdviseStores
  PROVE  SlotsKept'
  <1>1. /\ slots' \in Seq(Slot)
        /\ Len(slots) \in Nat /\ Len(slots') \in {Len(slots), Len(slots) + 1}
        /\ FreeSlot \in 1..Len(slots')
        /\ slots'[FreeSlot] = [cookie |-> mNextCookie, sink |-> mNextCookie]
        /\ \A j \in 1..Len(slots') \ {FreeSlot} : j \in 1..Len(slots) /\ slots'[j] = slots[j]
    BY Stored
  <1>2. FreeSlot <= Len(slots) => slots[FreeSlot].cookie = 0
    BY FreeSlotIsFree
  <1>3. /\ mNextCookie \in Cookies /\ mNextCookie' = mNextCookie + 1
        /\ granted' = granted \cup {mNextCookie}
    BY ConnPointAssumption DEF AdviseStores, SlotsKept, Cookies
  <1>4. /\ Len(slots) < mNextCookie /\ granted \subseteq Cookies
        /\ \A i \in 1..Len(slots) : slots[i] \in Slot /\ slots[i].cookie < mNextCookie
    BY ElementOfSeq DEF SlotsKept
  <1>5. mNextCookie' \in 1..(MaxAdvises + 1) /\ Len(slots') < mNextCookie'
    BY <1>1, <1>3, <1>4, ConnPointAssumption DEF Cookies
  <1>6. \A i \in 1..Len(slots') : slots'[i].cookie < mNextCookie'
    BY <1>1, <1>3, <1>4, ConnPointAssumption, SMTT(30) DEF Cookies, Slot
  <1>7. \A i, j \in 1..Len(slots') :
          slots'[i].cookie = slots'[j].cookie /\ slots'[i].cookie # 0 => i = j
    <2>1. \A i \in 1..Len(slots') :
            IF i = FreeSlot THEN slots'[i].cookie = mNextCookie
            ELSE i \in 1..Len(slots) /\ slots'[i].cookie = slots[i].cookie
                 /\ slots[i].cookie # mNextCookie
      BY <1>1, <1>3, <1>4, ConnPointAssumption, SMTT(30) DEF Cookies, Slot
    <2>2. \A i, j \in 1..Len(slots) :
            slots[i].cookie = slots[j].cookie /\ slots[i].cookie # 0 => i = j
      BY DEF SlotsKept
    <2> QED
      BY <2>1, <2>2
  <1>8. ASSUME NEW k \in Cookies
        PROVE  k \in granted' <=> \E i \in 1..Len(slots') : slots'[i].cookie = k
    <2>1. CASE k = mNextCookie
      BY <1>1, <1>3, <2>1
    <2>2. CASE k # mNextCookie
      <3>1. k \in granted' <=> \E i \in 1..Len(slots) : slots[i].cookie = k
        BY <1>3, <2>2 DEF SlotsKept
      <3>2. ASSUME NEW i \in 1..Len(slots), slots[i].cookie = k
            PROVE  i \in 1..Len(slots') /\ slots'[i].cookie = k
        BY <1>1, <1>2, <3>2 DEF Cookies
      <3> QED
        BY <1>1, <2>2, <3>1, <3>2
    <2> QED
      BY <2>1, <2>2
  <1> QED
    BY <1>1, <1>3, <1>4, <1>5, <1>6, <1>7, <1>8 DEF SlotsKept

\* Unadvise withdraws the cookie of one slot.
LEMMA WithdrawsSlot ==
  ASSUME SlotsKept, NEW i \in 1..Len(slots), UnadviseStarts(i)
  PROVE  SlotsKept'
  <1>1. /\ slots' \in Seq(Slot) /\ Len(slots') = Len(slots) /\ Len(slots) \in Nat
        /\ slots'[i] = [cookie |-> 0, sink |-> slots[i].sink]
        /\ \A j \in 1..Len(slots) \ {i} : slots'[j] = slots[j]
    BY Withdrawn DEF UnadviseStarts
  <1>2. /\ slots[i].cookie # 0 /\ granted' = granted \ {slots[i].cookie}
        /\ UNCHANGED mNextCookie
    BY DEF UnadviseStarts
  <1>3. \A j \in 1..Len(slots) : slots'[j].cookie = IF j = i THEN 0 ELSE slots[j].cookie
    BY <1>1
  <1>4. \A k \in Cookies : k \in granted' <=> \E j \in 1..Len(slots') : slots'[j].cookie = k
    BY <1>1, <1>2, <1>3 DEF SlotsKept, Cookies
  <1>5. mNextCookie' \in 1..(MaxAdvises + 1) /\ Len(slots') < mNextCookie'
    BY <1>1, <1>2 DEF SlotsKept
  <1>6. \A j \in 1..Len(slots') : slots'[j].cookie < mNextCookie'
    BY <1>1, <1>2, <1>3, ConnPointAssumption DEF SlotsKept
  <1>7. \A j, m \in 1..Len(slots') :
          slots'[j].cookie = slots'[m].cookie /\ slots'[j].cookie # 0 => j = m
    BY <1>1, <1>3 DEF SlotsKept
  <1>8. granted' \subseteq Cookies
    BY <1>2 DEF SlotsKept
  <1> QED
    BY <1>1, <1>4, <1>5, <1>6, <1>7, <1>8 DEF SlotsKept

\* The return of Unadvise changes no cookie.
LEMMA ClearsSlot ==
  ASSUME SlotsKept, UnadviseReturns
  PROVE  SlotsKept'
  <1>1. /\ slots' \in Seq(Slot) /\ Len(slots') = Len(slots) /\ Len(slots) \in Nat
        /\ \A j \in 1..Len(slots) : slots'[j].cookie = slots[j].cookie
    <2>1. slots' = [slots EXCEPT ![Top.slot].sink = 0]
      BY DEF UnadviseReturns
    <2>2. PICK i : i = Top.slot
      OBVIOUS
    <2>3. slots' = [slots EXCEPT ![i].sink = 0]
      BY <2>1, <2>2
    <2>4. /\ Len(slots') = Len(slots) /\ Len(slots) \in Nat
          /\ i \in 1..Len(slots) => slots'[i] = [cookie |-> slots[i].cookie, sink |-> 0]
          /\ \A j \in 1..Len(slots) \ {i} : slots'[j] = slots[j]
          /\ slots' \in Seq(Slot)
      BY <2>3, Cleared
    <2> QED
      BY <2>4
  <1>2. UNCHANGED <<mNextCookie, granted>>
    BY DEF UnadviseReturns
  <1> QED
    BY <1>1, <1>2 DEF SlotsKept

\* The slots are kept by every step.
LEMMA SlotsNext == SlotsKept /\ [Next]_vars => SlotsKept'
  <1> SUFFICES ASSUME SlotsKept, [Next]_vars
               PROVE  SlotsKept'
    OBVIOUS
  <1>1. CASE AdviseStores
    BY <1>1, StoresSlot
  <1>2. ASSUME NEW i \in 1..Len(slots), UnadviseStarts(i)
        PROVE  SlotsKept'
    BY <1>2, WithdrawsSlot
  <1>3. CASE UnadviseReturns
    BY <1>3, ClearsSlot
  <1>4. CASE Destroyed
    <2>1. mNextCookie \in 1..(MaxAdvises + 1) /\ UNCHANGED mNextCookie
      BY <1>4 DEF Destroyed, SlotsKept
    <2>2. slots' = <<>> /\ granted' = {} /\ Len(<<>>) = 0 /\ <<>> \in Seq(Slot)
      BY <1>4, EmptySeq DEF Destroyed
    <2> QED
      BY <2>1, <2>2, ConnPointAssumption DEF SlotsKept
  <1>5. CASE AdviseStarts \/ AdviseFails \/ Fire \/ UNCHANGED vars
    BY <1>5, SlotsUnchanged
       DEF AdviseStarts, AdviseFails, Fire, FireStarts, FireVisits, FirePushes, FireCalls,
           FireFails, FireGoesOn, FireReturns, vars
  <1>6. CASE \E w \in Cookies : Collect(w)
    BY <1>6, SlotsUnchanged DEF Collect
  <1> QED
    BY <1>1, <1>2, <1>3, <1>4, <1>5, <1>6 DEF Next, Advise, Unadvise

\* No slot at the start.
LEMMA SlotsInit == Init => SlotsKept
  <1> SUFFICES ASSUME Init PROVE SlotsKept
    OBVIOUS
  <1>1. slots = <<>> /\ mNextCookie = 1 /\ granted = {} /\ Len(<<>>) = 0 /\ <<>> \in Seq(Slot)
    BY EmptySeq DEF Init
  <1> QED
    BY <1>1, ConnPointAssumption DEF SlotsKept

\* Wherever clients call back from, and for any number of them: one whose
\* Advise succeeded (AddConnection) is in exactly one slot until it calls
\* Unadvise, though slots are freed and reused meanwhile.
THEOREM GrantedStayConnected == Spec => []KeepsGranted
  <1>1. SlotsKept => KeepsGranted
    <2> SUFFICES ASSUME SlotsKept, NEW k \in granted
                 PROVE  Cardinality({i \in 1..Len(slots) : slots[i].cookie = k}) = 1
      BY DEF KeepsGranted
    <2>1. k \in Cookies /\ k # 0
      BY DEF SlotsKept, Cookies
    <2>2. PICK i \in 1..Len(slots) : slots[i].cookie = k
      BY <2>1 DEF SlotsKept
    <2>3. {j \in 1..Len(slots) : slots[j].cookie = k} = {i}
      BY <2>1, <2>2 DEF SlotsKept
    <2> QED
      BY <2>3, FS_Singleton
  <1> QED
    BY <1>1, SlotsInit, SlotsNext, PTL DEF Spec

-----------------------------------------------------------------------------
(* The inductive invariant, for clients that call back only out of their   *)
(* QueryInterface and their event methods.                                 *)

QuietClients == Callbacks \subseteq {"query", "event"}

\* A slot has the sink of its cookie.  Only Unadvise on top of the stack has
\* a slot with a sink and no cookie.
SinksKept ==
  /\ \A i \in 1..Len(slots) : slots[i].cookie # 0 => slots[i].sink = slots[i].cookie
  /\ \A i \in 1..Len(slots) : slots[i].cookie = 0 /\ slots[i].sink # 0 =>
       depth > 0 /\ Top.at = "unlock" /\ Top.slot = i

\* The books of the sinks: the slot's lock and those of its tables, which
\* include the tables that are on the Lua stack.
LocksKept ==
  /\ locks \in [Cookies -> Nat]
  /\ tables \in [Cookies -> 0..MaxTables]
  /\ \A w \in Cookies : locks[w] = tables[w] + (IF w \in granted THEN 1 ELSE 0)
  /\ \A w \in Cookies : Pinned(w) <= tables[w]
  /\ \A w \in Cookies : w >= mNextCookie => tables[w] = 0

\* Who is due an event and is still connected has got it, or is in a slot
\* that the loop has yet to pass; and nobody there has got it.
DeliveryKept(f, s, grants) ==
  /\ \A k \in f.due \cap grants : k \in f.called \/
       \E j \in 1..Len(s) : /\ s[j].cookie = k
                            /\ j > f.slot \/ (j = f.slot /\ f.at \in {"push", "lookup"})
  /\ \A j \in 1..Len(s) : j > f.slot => s[j].cookie \notin f.called

FrameKept(f, s, next, grants) ==
  /\ f.due \cup f.called \subseteq 1..(next - 1)
  /\ f.slot <= Len(s)
  /\ f.at = "unlock" => f.slot # 0 /\ s[f.slot].cookie = 0
  /\ f.at \in {"push", "lookup"} =>
       f.slot # 0 /\ s[f.slot].cookie = f.sink /\ f.sink \notin f.called
  /\ f.at \in {"push", "lookup", "event"} => f.sink # 0
  /\ f.at \in {"next", "push", "lookup", "event"} => DeliveryKept(f, s, grants)

StackType == depth \in 0..MaxDepth /\ frames \in [Depths -> Frame]

StackKept ==
  /\ StackType
  /\ \A i \in 1..depth : i < depth => frames[i].at \in {"query", "event"}
  /\ \A i \in 1..depth : FrameKept(frames[i], slots, mNextCookie, granted)

PointInv ==
  /\ SlotsKept
  /\ SinksKept
  /\ LocksKept
  /\ StackKept
  /\ crashed = FALSE
  /\ closed \in BOOLEAN

-----------------------------------------------------------------------------
(* Counting the tables on the Lua stack.                                   *)

Pins(f, w) == f.at \in {"lookup", "event"} /\ f.sink = w
PinCount(fs, n, w) == Cardinality({i \in 1..n : Pins(fs[i], w)})

\* The operations on a stack that pin a sink are the top one, if it does, and
\* those under it.
LEMMA PinCountTop ==
  ASSUME NEW fs, NEW n \in Nat \ {0}, NEW w
  PROVE  /\ PinCount(fs, n - 1, w) \in Nat
         /\ PinCount(fs, n, w) = PinCount(fs, n - 1, w) + (IF Pins(fs[n], w) THEN 1 ELSE 0)
  <1> DEFINE under == {i \in 1..(n - 1) : Pins(fs[i], w)}
             all == {i \in 1..n : Pins(fs[i], w)}
  <1>1. n - 1 \in Int /\ n \notin under
    OBVIOUS
  <1>2. IsFiniteSet(under) /\ Cardinality(under) \in Nat
    <2>1. IsFiniteSet(1..(n - 1))
      BY <1>1, FS_Interval
    <2> QED
      BY <2>1, FS_Subset, FS_CardinalityType
  <1>3. all = IF Pins(fs[n], w) THEN under \cup {n} ELSE under
    OBVIOUS
  <1>4. PinCount(fs, n, w) = Cardinality(all) /\ PinCount(fs, n - 1, w) = Cardinality(under)
    BY DEF PinCount
  <1> HIDE DEF under, all
  <1>5. Cardinality(under \cup {n}) = Cardinality(under) + 1
    BY <1>1, <1>2, FS_AddElement
  <1> QED
    BY <1>2, <1>3, <1>4, <1>5

\* No operation, no table on the stack.
LEMMA PinCountNone == \A fs, w : PinCount(fs, 0, w) = 0
  <1> SUFFICES ASSUME NEW fs, NEW w PROVE PinCount(fs, 0, w) = 0
    OBVIOUS
  <1>1. {i \in 1..0 : Pins(fs[i], w)} = {}
    OBVIOUS
  <1> QED
    BY <1>1, FS_EmptySet DEF PinCount

\* The model's count is this one.
LEMMA PinnedIsCount == \A w : Pinned(w) = PinCount(frames, depth, w)
  BY DEF Pinned, PinCount, Pins

-----------------------------------------------------------------------------
(* The stack.                                                              *)

\* What an operation that starts does to the stack.
LEMMA Started ==
  ASSUME StackType, NEW f \in Frame, Starts(f)
  PROVE  /\ StackType' /\ depth \in Nat /\ depth' = depth + 1
         /\ frames'[depth'] = f
         /\ \A i \in 1..depth : frames'[i] = frames[i]
         /\ \A w : Pinned(w)' = Pinned(w) + (IF Pins(f, w) THEN 1 ELSE 0)
  <1>1. /\ depth \in Nat /\ depth' = depth + 1 /\ depth' \in Depths
        /\ frames' = [frames EXCEPT ![depth'] = f]
    BY ConnPointAssumption DEF StackType, Starts, Depths
  <1>2. StackType' /\ frames'[depth'] = f /\ \A i \in 1..depth : frames'[i] = frames[i]
    BY <1>1, ConnPointAssumption DEF StackType, Depths
  <1>3. ASSUME NEW w
        PROVE  Pinned(w)' = Pinned(w) + (IF Pins(f, w) THEN 1 ELSE 0)
    <2>1. PinCount(frames', depth, w) = PinCount(frames, depth, w)
      <3>1. {i \in 1..depth : Pins(frames'[i], w)} = {i \in 1..depth : Pins(frames[i], w)}
        BY <1>2
      <3> QED
        BY <3>1 DEF PinCount
    <2>2. depth' \in Nat \ {0} /\ depth' - 1 = depth
      BY <1>1
    <2>3. PinCount(frames', depth', w) = PinCount(frames', depth' - 1, w)
                                         + (IF Pins(frames'[depth'], w) THEN 1 ELSE 0)
      BY <2>2, PinCountTop
    <2>4. Pinned(w)' = PinCount(frames', depth', w) /\ Pinned(w) = PinCount(frames, depth, w)
      BY DEF Pinned, PinCount, Pins
    <2> QED
      BY <1>2, <2>1, <2>2, <2>3, <2>4
  <1> QED
    BY <1>1, <1>2, <1>3

\* What an operation that goes on does to the stack.
LEMMA Continued ==
  ASSUME StackType, depth > 0, NEW f \in Frame, Continues(f)
  PROVE  /\ StackType' /\ depth \in Nat \ {0} /\ depth' = depth
         /\ frames'[depth] = f
         /\ \A i \in 1..(depth - 1) : frames'[i] = frames[i]
         /\ \A w : Pinned(w)' = Pinned(w) - (IF Pins(Top, w) THEN 1 ELSE 0)
                                          + (IF Pins(f, w) THEN 1 ELSE 0)
  <1>1. /\ depth \in Nat \ {0} /\ depth' = depth /\ depth \in Depths
        /\ frames' = [frames EXCEPT ![depth] = f]
    BY ConnPointAssumption DEF StackType, Continues, Depths
  <1>2. StackType' /\ frames'[depth] = f /\ \A i \in 1..(depth - 1) : frames'[i] = frames[i]
    BY <1>1, ConnPointAssumption DEF StackType, Depths
  <1>3. ASSUME NEW w
        PROVE  Pinned(w)' = Pinned(w) - (IF Pins(Top, w) THEN 1 ELSE 0)
                                      + (IF Pins(f, w) THEN 1 ELSE 0)
    <2>1. PinCount(frames', depth - 1, w) = PinCount(frames, depth - 1, w)
      <3>1. {i \in 1..(depth - 1) : Pins(frames'[i], w)}
              = {i \in 1..(depth - 1) : Pins(frames[i], w)}
        BY <1>2
      <3> QED
        BY <3>1 DEF PinCount
    <2>2. /\ PinCount(frames, depth - 1, w) \in Nat
          /\ PinCount(frames', depth, w) = PinCount(frames', depth - 1, w)
                                           + (IF Pins(frames'[depth], w) THEN 1 ELSE 0)
          /\ PinCount(frames, depth, w) = PinCount(frames, depth - 1, w)
                                          + (IF Pins(frames[depth], w) THEN 1 ELSE 0)
      BY <1>1, PinCountTop
    <2>3. Pinned(w)' = PinCount(frames', depth, w) /\ Pinned(w) = PinCount(frames, depth, w)
      BY <1>1 DEF Pinned, PinCount, Pins
    <2> QED
      BY <1>2, <2>1, <2>2, <2>3 DEF Top
  <1> QED
    BY <1>1, <1>2, <1>3

\* What an operation that returns does to the stack.
LEMMA Returned ==
  ASSUME StackType, depth > 0, Returns
  PROVE  /\ StackType' /\ depth \in Nat \ {0} /\ depth' = depth - 1
         /\ \A i \in 1..depth' : frames'[i] = frames[i]
         /\ \A w : Pinned(w)' = Pinned(w) - (IF Pins(Top, w) THEN 1 ELSE 0)
  <1>1. /\ depth \in Nat \ {0} /\ depth' = depth - 1 /\ depth \in Depths
        /\ frames' = [frames EXCEPT ![depth] = Idle]
    BY ConnPointAssumption DEF StackType, Returns, Depths
  <1>2. Idle \in Frame
    BY ConnPointAssumption DEF Idle, Frame, Places
  <1>3. StackType' /\ \A i \in 1..depth' : frames'[i] = frames[i]
    BY <1>1, <1>2, ConnPointAssumption DEF StackType, Depths
  <1>4. ASSUME NEW w
        PROVE  Pinned(w)' = Pinned(w) - (IF Pins(Top, w) THEN 1 ELSE 0)
    <2>1. PinCount(frames', depth', w) = PinCount(frames, depth - 1, w)
      <3>1. {i \in 1..depth' : Pins(frames'[i], w)} = {i \in 1..depth' : Pins(frames[i], w)}
        BY <1>3
      <3> QED
        BY <1>1, <3>1 DEF PinCount
    <2>2. /\ PinCount(frames, depth - 1, w) \in Nat
          /\ PinCount(frames, depth, w) = PinCount(frames, depth - 1, w)
                                          + (IF Pins(frames[depth], w) THEN 1 ELSE 0)
      BY <1>1, PinCountTop
    <2>3. Pinned(w)' = PinCount(frames', depth', w) /\ Pinned(w) = PinCount(frames, depth, w)
      BY DEF Pinned, PinCount, Pins
    <2> QED
      BY <2>1, <2>2, <2>3 DEF Top
  <1> QED
    BY <1>1, <1>3, <1>4


\* The tables on the stack are a number.
LEMMA PinnedIsNat ==
  ASSUME StackType
  PROVE  \A w : Pinned(w) \in Nat
  <1>1. depth \in Nat
    BY ConnPointAssumption DEF StackType
  <1>2. ASSUME NEW w PROVE Pinned(w) \in Nat
    <2>1. IsFiniteSet(1..depth)
      BY <1>1, FS_Interval
    <2> QED
      BY <2>1, FS_Subset, FS_CardinalityType DEF Pinned
  <1> QED
    BY <1>2

\* The stack when an operation starts on top of callbacks.
LEMMA StackStarts ==
  ASSUME StackType, NEW f \in Frame, Starts(f),
         \A i \in 1..depth : frames[i].at \in {"query", "event"},
         \A i \in 1..depth : FrameKept(frames[i], slots', mNextCookie', granted'),
         FrameKept(f, slots', mNextCookie', granted')
  PROVE  StackKept'
  <1>1. /\ StackType' /\ depth \in Nat /\ depth' = depth + 1
        /\ frames'[depth'] = f
        /\ \A i \in 1..depth : frames'[i] = frames[i]
    BY Started
  <1>2. \A i \in 1..depth' : i = depth' \/ i \in 1..depth
    BY <1>1
  <1>3. \A i \in 1..depth' : FrameKept(frames'[i], slots', mNextCookie', granted')
    BY <1>1, <1>2
  <1>4. \A i \in 1..depth' : i < depth' => frames'[i].at \in {"query", "event"}
    BY <1>1, <1>2
  <1> QED
    BY <1>1, <1>3, <1>4 DEF StackKept

\* The stack when the operation on top goes on.
LEMMA StackContinues ==
  ASSUME StackKept, depth > 0, NEW f \in Frame, Continues(f),
         UNCHANGED <<slots, mNextCookie, granted>>,
         FrameKept(f, slots, mNextCookie, granted)
  PROVE  StackKept'
  <1>1. /\ StackType' /\ depth \in Nat \ {0} /\ depth' = depth
        /\ frames'[depth] = f
        /\ \A i \in 1..(depth - 1) : frames'[i] = frames[i]
    BY Continued DEF StackKept
  <1>2. \A i \in 1..depth' : i = depth \/ (i < depth' /\ i \in 1..(depth - 1) /\ i \in 1..depth)
    BY <1>1
  <1>3. \A i \in 1..depth : FrameKept(frames[i], slots, mNextCookie, granted)
    BY DEF StackKept
  <1>4. \A i \in 1..depth' : FrameKept(frames'[i], slots', mNextCookie', granted')
    BY <1>1, <1>2, <1>3
  <1>5. \A i \in 1..depth' : i < depth' => frames'[i].at \in {"query", "event"}
    BY <1>1, <1>2 DEF StackKept
  <1> QED
    BY <1>1, <1>4, <1>5 DEF StackKept

\* The stack when the operation on top returns.
LEMMA StackReturns ==
  ASSUME StackKept, depth > 0, Returns,
         \A i \in 1..(depth - 1) : FrameKept(frames[i], slots', mNextCookie', granted')
  PROVE  StackKept'
  <1>1. /\ StackType' /\ depth \in Nat \ {0} /\ depth' = depth - 1
        /\ \A i \in 1..depth' : frames'[i] = frames[i]
    BY Returned DEF StackKept
  <1>2. \A i \in 1..depth' : FrameKept(frames'[i], slots', mNextCookie', granted')
    BY <1>1
  <1>3. \A i \in 1..depth' : i < depth' => frames'[i].at \in {"query", "event"}
    BY <1>1 DEF StackKept
  <1> QED
    BY <1>1, <1>2, <1>3 DEF StackKept

-----------------------------------------------------------------------------
(* The operations under the top, while the slots change.                   *)

\* Advise reuses or appends a slot: nobody is due an event with its cookie.
LEMMA FrameStores ==
  ASSUME SlotsKept, AdviseStores, NEW f \in Frame, f.at # "unlock",
         FrameKept(f, slots, mNextCookie, granted)
  PROVE  FrameKept(f, slots', mNextCookie', granted')
  <1>1. /\ Len(slots) \in Nat /\ Len(slots') \in {Len(slots), Len(slots) + 1}
        /\ FreeSlot \in 1..Len(slots')
        /\ slots'[FreeSlot].cookie = mNextCookie
        /\ \A j \in 1..Len(slots') \ {FreeSlot} : j \in 1..Len(slots) /\ slots'[j] = slots[j]
    BY Stored
  <1>2. FreeSlot <= Len(slots) => slots[FreeSlot].cookie = 0
    BY FreeSlotIsFree
  <1>3. \A j \in 1..Len(slots) : slots[j].cookie # 0 =>
          j \in 1..Len(slots') /\ slots'[j].cookie = slots[j].cookie
    BY <1>1, <1>2
  <1>4. \A j \in 1..Len(slots') : slots'[j].cookie = mNextCookie \/
          (j \in 1..Len(slots) /\ slots'[j].cookie = slots[j].cookie)
    BY <1>1
  <1>5. /\ mNextCookie \in Nat /\ mNextCookie' = mNextCookie + 1
        /\ granted' = granted \cup {mNextCookie}
    BY ConnPointAssumption DEF AdviseStores, SlotsKept
  <1>6. /\ f.due \cup f.called \subseteq 1..(mNextCookie - 1)
        /\ f.slot \in Nat /\ f.slot <= Len(slots)
    BY ConnPointAssumption DEF FrameKept, Frame
  <1>7. f.due \cup f.called \subseteq 1..(mNextCookie' - 1) /\ f.slot <= Len(slots')
    BY <1>1, <1>5, <1>6
  <1>8. f.at \in {"push", "lookup"} =>
          f.slot # 0 /\ slots'[f.slot].cookie = f.sink /\ f.sink \notin f.called
    BY <1>1, <1>3, <1>6 DEF FrameKept
  <1>9. ASSUME f.at \in {"next", "push", "lookup", "event"}
        PROVE  DeliveryKept(f, slots', granted')
    <2>1. DeliveryKept(f, slots, granted)
      BY <1>9 DEF FrameKept
    <2>2. ASSUME NEW k \in f.due \cap granted', k \notin f.called
          PROVE  \E j \in 1..Len(slots') :
                   /\ slots'[j].cookie = k
                   /\ j > f.slot \/ (j = f.slot /\ f.at \in {"push", "lookup"})
      <3>1. k \in f.due \cap granted /\ k # 0
        BY <1>5, <1>6
      <3>2. PICK j \in 1..Len(slots) :
                   /\ slots[j].cookie = k
                   /\ j > f.slot \/ (j = f.slot /\ f.at \in {"push", "lookup"})
        BY <2>1, <2>2, <3>1 DEF DeliveryKept
      <3> QED
        BY <1>3, <3>1, <3>2
    <2>3. ASSUME NEW j \in 1..Len(slots'), j > f.slot
          PROVE  slots'[j].cookie \notin f.called
      BY <1>4, <1>5, <1>6, <2>1, <2>3 DEF DeliveryKept
    <2> QED
      BY <2>2, <2>3 DEF DeliveryKept
  <1> QED
    BY <1>7, <1>8, <1>9 DEF FrameKept

\* Unadvise withdraws a cookie while the others are in a callback.
LEMMA FrameWithdraws ==
  ASSUME SlotsKept, NEW i \in 1..Len(slots), UnadviseStarts(i),
         NEW f \in Frame, f.at \in {"query", "event"},
         FrameKept(f, slots, mNextCookie, granted)
  PROVE  FrameKept(f, slots', mNextCookie', granted')
  <1>1. /\ Len(slots') = Len(slots)
        /\ slots'[i].cookie = 0
        /\ \A j \in 1..Len(slots) \ {i} : slots'[j] = slots[j]
    BY Withdrawn DEF UnadviseStarts
  <1>2. /\ mNextCookie' = mNextCookie /\ mNextCookie \in Nat
        /\ granted' = granted \ {slots[i].cookie}
    BY ConnPointAssumption DEF UnadviseStarts, SlotsKept
  <1>3. f.due \cup f.called \subseteq 1..(mNextCookie - 1)
    BY DEF FrameKept
  <1>4. ASSUME f.at = "event"
        PROVE  DeliveryKept(f, slots', granted')
    <2>1. DeliveryKept(f, slots, granted)
      BY <1>4 DEF FrameKept
    <2>2. ASSUME NEW k \in f.due \cap granted', k \notin f.called
          PROVE  \E j \in 1..Len(slots') : slots'[j].cookie = k /\ j > f.slot
      <3>1. k \in f.due \cap granted /\ k # slots[i].cookie
        BY <1>2
      <3>2. PICK j \in 1..Len(slots) : slots[j].cookie = k /\ j > f.slot
        BY <1>4, <2>1, <2>2, <3>1 DEF DeliveryKept
      <3> QED
        BY <1>1, <3>1, <3>2
    <2>3. ASSUME NEW j \in 1..Len(slots'), j > f.slot
          PROVE  slots'[j].cookie \notin f.called
      BY <1>1, <1>2, <1>3, <2>1, <2>3 DEF DeliveryKept
    <2> QED
      BY <2>2, <2>3 DEF DeliveryKept
  <1> QED
    BY <1>1, <1>2, <1>4 DEF FrameKept

\* A step that changes no cookie changes nothing for the operations.
LEMMA FrameAlike ==
  ASSUME NEW f, NEW s, NEW t, NEW next, NEW grants, FrameKept(f, s, next, grants),
         Len(t) = Len(s), Len(s) \in Nat, f.slot \in Nat,
         \A j \in 1..Len(s) : t[j].cookie = s[j].cookie
  PROVE  FrameKept(f, t, next, grants)
  <1>1. f.slot # 0 => f.slot \in 1..Len(s)
    BY DEF FrameKept
  <1>2. DeliveryKept(f, s, grants) => DeliveryKept(f, t, grants)
    BY DEF DeliveryKept
  <1> QED
    BY <1>1, <1>2 DEF FrameKept

-----------------------------------------------------------------------------
(* The steps.                                                              *)

\* An operation starts only on top of callbacks.
LEMMA QuietReach ==
  ASSUME QuietClients, StackKept, Reachable
  PROVE  /\ depth > 0 => Top.at \in {"query", "event"}
         /\ \A i \in 1..depth : frames[i].at \in {"query", "event"}
  <1>1. depth > 0 => Top.at \in {"query", "event"}
    BY DEF QuietClients, Reachable, CallsBack
  <1>2. depth \in Nat
    BY ConnPointAssumption DEF StackKept, StackType
  <1>3. ASSUME NEW i \in 1..depth PROVE frames[i].at \in {"query", "event"}
    <2>1. i < depth \/ i = depth
      BY <1>2
    <2> QED
      BY <1>1, <1>2, <2>1 DEF StackKept, Top
  <1> QED
    BY <1>1, <1>3

\* Only while Unadvise unlocks it has a slot a sink and no cookie.
LEMMA NoSinkAlone ==
  ASSUME SinksKept, depth > 0 => Top.at # "unlock"
  PROVE  \A i \in 1..Len(slots) : slots[i].cookie = 0 => slots[i].sink = 0
  BY DEF SinksKept

\* The sinks, when the slots stay.
LEMMA SinksStay ==
  ASSUME SinksKept, depth > 0 => Top.at # "unlock", UNCHANGED slots
  PROVE  SinksKept'
  BY NoSinkAlone DEF SinksKept

\* The books, when nothing is locked and nothing more is pinned.
LEMMA LocksStay ==
  ASSUME LocksKept, StackType, UNCHANGED <<locks, tables, granted, mNextCookie>>,
         NEW n \in {0, 1}, NEW v, \A w : Pinned(w)' = Pinned(w) - (IF v = w THEN n ELSE 0)
  PROVE  LocksKept'
  <1>1. \A w : Pinned(w) \in Nat
    BY PinnedIsNat
  <1>2. \A w \in Cookies : Pinned(w)' <= tables[w]
    BY <1>1, ConnPointAssumption DEF LocksKept
  <1> QED
    BY <1>2 DEF LocksKept

\* Starting Advise.
LEMMA AdviseStartsKeeps ==
  ASSUME QuietClients, PointInv, SlotsKept', AdviseStarts
  PROVE  PointInv'
  <1>1. PICK f : f = [Idle EXCEPT !.at = "query"]
    OBVIOUS
  <1>2. /\ f \in Frame /\ f.at = "query" /\ f.slot = 0 /\ f.sink = 0
        /\ f.due = {} /\ f.called = {}
    BY <1>1, ConnPointAssumption DEF Idle, Frame, Places
  <1>3. Starts(f) /\ Reachable /\ UNCHANGED <<slots, mNextCookie, sinks, crashed, closed, granted>>
    BY <1>1 DEF AdviseStarts
  <1>4. /\ depth > 0 => Top.at \in {"query", "event"}
        /\ \A i \in 1..depth : frames[i].at \in {"query", "event"}
    BY <1>3, QuietReach DEF PointInv
  <1>5. FrameKept(f, slots', mNextCookie', granted')
    BY <1>2, LenProperties DEF FrameKept, PointInv, SlotsKept
  <1>6. StackKept'
    BY <1>2, <1>3, <1>4, <1>5, StackStarts DEF PointInv, StackKept
  <1>7. SinksKept'
    BY <1>3, <1>4, SinksStay DEF PointInv
  <1>8. \A w : Pinned(w)' = Pinned(w) - (IF 0 = w THEN 0 ELSE 0)
    BY <1>2, <1>3, Started, PinnedIsNat DEF PointInv, StackKept, Pins
  <1>9. LocksKept'
    BY <1>3, <1>8, LocksStay DEF PointInv, StackKept, sinks
  <1> QED
    BY <1>3, <1>6, <1>7, <1>9 DEF PointInv

\* Advise fails.
LEMMA AdviseFailsKeeps ==
  ASSUME PointInv, SlotsKept', AdviseFails
  PROVE  PointInv'
  <1>1. /\ depth > 0 /\ Top.at = "query" /\ Returns
        /\ UNCHANGED <<slots, mNextCookie, sinks, crashed, closed, granted>>
    BY DEF AdviseFails, Waiting
  <1>2. StackType /\ depth \in Nat
    BY ConnPointAssumption DEF PointInv, StackKept, StackType
  <1>3. StackKept'
    BY <1>1, <1>2, StackReturns DEF PointInv, StackKept
  <1>4. SinksKept'
    BY <1>1, SinksStay DEF PointInv
  <1>5. \A w : Pinned(w)' = Pinned(w) - (IF 0 = w THEN 0 ELSE 0)
    BY <1>1, <1>2, Returned, PinnedIsNat DEF Pins
  <1>6. LocksKept'
    BY <1>1, <1>2, <1>5, LocksStay DEF PointInv, sinks
  <1> QED
    BY <1>1, <1>3, <1>4, <1>6 DEF PointInv

\* Advise stores the client and its sink, which has one lock.
LEMMA AdviseStoresKeeps ==
  ASSUME PointInv, SlotsKept', AdviseStores
  PROVE  PointInv'
  <1>1. /\ depth > 0 /\ Top.at = "query" /\ Returns
        /\ mNextCookie \in Cookies
        /\ locks' = [locks EXCEPT ![mNextCookie] = 1]
        /\ granted' = granted \cup {mNextCookie}
        /\ UNCHANGED <<tables, crashed, closed>>
    BY ConnPointAssumption DEF AdviseStores, Waiting, PointInv, SlotsKept, Cookies
  <1>2. StackType /\ depth \in Nat
    BY ConnPointAssumption DEF PointInv, StackKept, StackType
  <1>3. /\ Len(slots) \in Nat /\ FreeSlot \in 1..Len(slots')
        /\ slots'[FreeSlot] = [cookie |-> mNextCookie, sink |-> mNextCookie]
        /\ \A j \in 1..Len(slots') \ {FreeSlot} : j \in 1..Len(slots) /\ slots'[j] = slots[j]
    BY Stored DEF PointInv
  <1>4. StackKept'
    <2>1. ASSUME NEW i \in 1..(depth - 1)
          PROVE  FrameKept(frames[i], slots', mNextCookie', granted')
      <3>1. /\ i \in 1..depth /\ i < depth /\ i \in Depths
            /\ frames[i] \in Frame /\ frames[i].at \in {"query", "event"}
            /\ FrameKept(frames[i], slots, mNextCookie, granted)
        BY <1>2, ConnPointAssumption DEF PointInv, StackKept, StackType, Depths
      <3>2. PICK f : f = frames[i]
        OBVIOUS
      <3>3. FrameKept(f, slots', mNextCookie', granted')
        BY <3>1, <3>2, FrameStores DEF PointInv
      <3> QED
        BY <3>2, <3>3
    <2> QED
      BY <1>1, <2>1, StackReturns DEF PointInv
  <1>5. SinksKept'
    <2>1. \A j \in 1..Len(slots) : slots[j].cookie = 0 => slots[j].sink = 0
      BY <1>1, NoSinkAlone DEF PointInv
    <2>2. \A j \in 1..Len(slots') : slots'[j].cookie # 0 => slots'[j].sink = slots'[j].cookie
      BY <1>3 DEF PointInv, SinksKept
    <2>3. \A j \in 1..Len(slots') : slots'[j].cookie = 0 => slots'[j].sink = 0
      BY <1>3, <2>1
    <2> QED
      BY <2>2, <2>3 DEF SinksKept
  <1>6. LocksKept'
    <2>1. \A w : Pinned(w)' = Pinned(w) /\ Pinned(w) \in Nat
      BY <1>1, <1>2, Returned, PinnedIsNat DEF Pins
    <2>2. /\ locks \in [Cookies -> Nat] /\ tables \in [Cookies -> 0..MaxTables]
          /\ \A w \in Cookies : locks[w] = tables[w] + (IF w \in granted THEN 1 ELSE 0)
          /\ \A w \in Cookies : Pinned(w) <= tables[w]
      BY DEF PointInv, LocksKept
    <2>3. tables[mNextCookie] = 0
      BY <1>1, ConnPointAssumption DEF PointInv, LocksKept, Cookies
    <2>4. \A w \in Cookies : locks'[w] = tables'[w] + (IF w \in granted' THEN 1 ELSE 0)
      BY <1>1, <2>2, <2>3
    <2>5. \A w \in Cookies : w >= mNextCookie' => tables'[w] = 0
      BY <1>1, ConnPointAssumption DEF AdviseStores, PointInv, LocksKept, Cookies
    <2> QED
      BY <1>1, <2>1, <2>2, <2>4, <2>5 DEF LocksKept
  <1> QED
    BY <1>1, <1>4, <1>5, <1>6 DEF PointInv

\* Unadvise takes the cookie from its slot, and the slot's lock from the sink.
LEMMA UnadviseStartsKeeps ==
  ASSUME QuietClients, PointInv, SlotsKept', NEW i \in 1..Len(slots), UnadviseStarts(i)
  PROVE  PointInv'
  <1>1. PICK f : f = [Idle EXCEPT !.at = "unlock", !.slot = i, !.sink = slots[i].sink]
    OBVIOUS
  <1>2. PICK k : k = slots[i].cookie
    OBVIOUS
  <1>3. /\ Starts(f) /\ Reachable /\ k # 0
        /\ granted' = granted \ {k}
        /\ UNCHANGED <<mNextCookie, tables, crashed, closed>>
    BY <1>1, <1>2 DEF UnadviseStarts
  <1>4. /\ slots \in Seq(Slot) /\ Len(slots) \in Nat /\ slots[i] \in Slot
        /\ i \in 1..MaxAdvises /\ k \in Cookies /\ k \in granted /\ slots[i].sink = k
    <2>1. /\ slots \in Seq(Slot) /\ Len(slots) \in Nat /\ slots[i] \in Slot
          /\ Len(slots) < mNextCookie /\ mNextCookie \in 1..(MaxAdvises + 1)
      BY LenProperties, ElementOfSeq DEF PointInv, SlotsKept
    <2>2. k \in Cookies /\ i \in 1..MaxAdvises
      BY <1>2, <1>3, <2>1, ConnPointAssumption DEF Slot, Cookies
    <2>3. k \in granted /\ slots[i].sink = k
      BY <1>2, <1>3, <2>2 DEF PointInv, SlotsKept, SinksKept
    <2> QED
      BY <2>1, <2>2, <2>3
  <1>5. /\ f \in Frame /\ f.at = "unlock" /\ f.slot = i /\ f.sink = k
        /\ f.due = {} /\ f.called = {}
    <2>1. f = [at |-> "unlock", slot |-> i, sink |-> k, due |-> {}, called |-> {}]
      BY <1>1, <1>4 DEF Idle
    <2>2. i \in 0..MaxAdvises /\ k \in 0..MaxAdvises
      BY <1>4, ConnPointAssumption DEF Cookies
    <2> QED
      BY <2>1, <2>2 DEF Frame, Places
  <1>6. /\ Len(slots') = Len(slots)
        /\ slots'[i] = [cookie |-> 0, sink |-> slots[i].sink]
        /\ \A j \in 1..Len(slots) \ {i} : slots'[j] = slots[j]
    BY Withdrawn DEF UnadviseStarts, PointInv
  <1>7. /\ depth > 0 => Top.at \in {"query", "event"}
        /\ \A m \in 1..depth : frames[m].at \in {"query", "event"}
    BY <1>3, QuietReach DEF PointInv
  <1>8. /\ StackType' /\ depth \in Nat /\ depth' = depth + 1 /\ frames'[depth'] = f
    BY <1>3, <1>5, Started DEF PointInv, StackKept
  <1>9. StackKept'
    <2>1. ASSUME NEW m \in 1..depth
          PROVE  FrameKept(frames[m], slots', mNextCookie', granted')
      <3>1. /\ m \in Depths /\ frames[m] \in Frame
            /\ FrameKept(frames[m], slots, mNextCookie, granted)
        BY ConnPointAssumption DEF PointInv, StackKept, StackType, Depths
      <3>2. PICK g : g = frames[m]
        OBVIOUS
      <3>3. FrameKept(g, slots', mNextCookie', granted')
        BY <1>7, <3>1, <3>2, FrameWithdraws DEF PointInv
      <3> QED
        BY <3>2, <3>3
    <2>2. FrameKept(f, slots', mNextCookie', granted')
      BY <1>4, <1>5, <1>6 DEF FrameKept
    <2> QED
      BY <1>3, <1>5, <1>7, <2>1, <2>2, StackStarts DEF PointInv, StackKept
  <1>10. SinksKept'
    <2>1. \A j \in 1..Len(slots) : slots[j].cookie = 0 => slots[j].sink = 0
      BY <1>7, NoSinkAlone DEF PointInv
    <2>2. \A j \in 1..Len(slots') : slots'[j].cookie # 0 => slots'[j].sink = slots'[j].cookie
      BY <1>6 DEF PointInv, SinksKept
    <2>3. \A j \in 1..Len(slots') : slots'[j].cookie = 0 /\ slots'[j].sink # 0 => j = i
      BY <1>6, <2>1
    <2>4. depth' > 0 /\ Top' = f
      BY <1>8 DEF Top
    <2> QED
      BY <1>5, <2>2, <2>3, <2>4 DEF SinksKept
  <1>11. LocksKept'
    <2>1. \A w : Pinned(w)' = Pinned(w) /\ Pinned(w) \in Nat
      BY <1>3, <1>5, Started, PinnedIsNat DEF Pins, PointInv, StackKept
    <2>2. /\ locks \in [Cookies -> Nat] /\ tables \in [Cookies -> 0..MaxTables]
          /\ \A w \in Cookies : locks[w] = tables[w] + (IF w \in granted THEN 1 ELSE 0)
      BY DEF PointInv, LocksKept
    <2>3. locks' = [w \in Cookies |-> IF w = k THEN locks[w] - 1 ELSE locks[w]]
      BY <1>4 DEF UnadviseStarts, UnadviseUnlocks
    <2>4. \A w \in Cookies : /\ tables[w] \in Nat
                             /\ locks'[w] = tables[w] + (IF w \in granted' THEN 1 ELSE 0)
      BY <1>3, <1>4, <2>2, <2>3, ConnPointAssumption
    <2>5. locks' \in [Cookies -> Nat]
      BY <2>3, <2>4
    <2> QED
      BY <1>3, <2>1, <2>4, <2>5 DEF LocksKept, PointInv
  <1> QED
    BY <1>3, <1>9, <1>10, <1>11 DEF PointInv

\* Unadvise returns, and forgets the sink.
LEMMA UnadviseReturnsKeeps ==
  ASSUME PointInv, SlotsKept', UnadviseReturns
  PROVE  PointInv'
  <1>1. /\ depth > 0 /\ Top.at = "unlock" /\ Returns
        /\ slots' = [slots EXCEPT ![Top.slot].sink = 0]
        /\ UNCHANGED <<mNextCookie, sinks, crashed, closed, granted>>
    BY DEF UnadviseReturns, Waiting
  <1>2. StackType /\ depth \in Nat /\ depth \in 1..depth
    BY <1>1, ConnPointAssumption DEF PointInv, StackKept, StackType
  <1>3. PICK i : i = Top.slot
    OBVIOUS
  <1>4. /\ i \in 1..Len(slots) /\ slots[i].cookie = 0
    <2>1. /\ FrameKept(Top, slots, mNextCookie, granted) /\ Top \in Frame
          /\ Len(slots) \in Nat
      BY <1>2, LenProperties, ConnPointAssumption
         DEF PointInv, StackKept, StackType, Top, Depths, SlotsKept
    <2> QED
      BY <1>1, <1>3, <2>1, ConnPointAssumption DEF FrameKept, Frame
  <1>5. /\ Len(slots') = Len(slots) /\ Len(slots) \in Nat
        /\ slots'[i] = [cookie |-> slots[i].cookie, sink |-> 0]
        /\ \A j \in 1..Len(slots) \ {i} : slots'[j] = slots[j]
    <2>1. slots' = [slots EXCEPT ![i].sink = 0]
      BY <1>1, <1>3
    <2> QED
      BY <1>4, <2>1, Cleared DEF PointInv
  <1>6. StackKept'
    <2>1. ASSUME NEW m \in 1..(depth - 1)
          PROVE  FrameKept(frames[m], slots', mNextCookie', granted')
      <3>1. /\ m \in 1..depth /\ m \in Depths /\ frames[m] \in Frame
            /\ FrameKept(frames[m], slots, mNextCookie, granted)
        BY <1>2, ConnPointAssumption DEF PointInv, StackKept, StackType, Depths
      <3>2. frames[m].slot \in Nat
        BY <3>1, ConnPointAssumption DEF Frame
      <3>3. \A j \in 1..Len(slots) : slots'[j].cookie = slots[j].cookie
        BY <1>5
      <3>4. FrameKept(frames[m], slots', mNextCookie, granted)
        BY <1>5, <3>1, <3>2, <3>3, FrameAlike
      <3> QED
        BY <1>1, <3>4
    <2> QED
      BY <1>1, <2>1, StackReturns DEF PointInv
  <1>7. SinksKept'
    <2>1. \A j \in 1..Len(slots) : slots[j].cookie = 0 /\ slots[j].sink # 0 => j = i
      BY <1>3 DEF PointInv, SinksKept
    <2>2. \A j \in 1..Len(slots') : slots'[j].cookie = 0 => slots'[j].sink = 0
      BY <1>4, <1>5, <2>1
    <2>3. \A j \in 1..Len(slots') : slots'[j].cookie # 0 => slots'[j].sink = slots'[j].cookie
      BY <1>4, <1>5 DEF PointInv, SinksKept
    <2> QED
      BY <2>2, <2>3 DEF SinksKept
  <1>8. \A w : Pinned(w)' = Pinned(w) - (IF 0 = w THEN 0 ELSE 0)
    BY <1>1, <1>2, Returned, PinnedIsNat DEF Pins
  <1>9. LocksKept'
    BY <1>1, <1>2, <1>8, LocksStay DEF PointInv, sinks
  <1> QED
    BY <1>1, <1>6, <1>7, <1>9 DEF PointInv

\* An event is due to all that are connected, who are in the slots.
LEMMA FireStartsKeeps ==
  ASSUME QuietClients, PointInv, SlotsKept', FireStarts
  PROVE  PointInv'
  <1>1. PICK f : f = [Idle EXCEPT !.at = "next", !.due = granted]
    OBVIOUS
  <1>2. /\ f \in Frame /\ f.at = "next" /\ f.slot = 0 /\ f.sink = 0
        /\ f.due = granted /\ f.called = {}
    <2>1. f = [at |-> "next", slot |-> 0, sink |-> 0, due |-> granted, called |-> {}]
      BY <1>1 DEF Idle
    <2>2. granted \in SUBSET Cookies /\ 0 \in 0..MaxAdvises
      BY ConnPointAssumption DEF PointInv, SlotsKept
    <2> QED
      BY <2>1, <2>2 DEF Frame, Places
  <1>3. Starts(f) /\ Reachable /\ UNCHANGED <<slots, mNextCookie, sinks, crashed, closed, granted>>
    BY <1>1 DEF FireStarts
  <1>4. /\ depth > 0 => Top.at \in {"query", "event"}
        /\ \A i \in 1..depth : frames[i].at \in {"query", "event"}
    BY <1>3, QuietReach DEF PointInv
  <1>5. FrameKept(f, slots', mNextCookie', granted')
    <2>1. /\ Len(slots) \in Nat /\ mNextCookie \in Nat /\ granted \subseteq Cookies
          /\ \A k \in granted : \E j \in 1..Len(slots) : slots[j].cookie = k
          /\ \A j \in 1..Len(slots) : slots[j].cookie < mNextCookie
      BY LenProperties, ConnPointAssumption DEF PointInv, SlotsKept
    <2>2. granted \subseteq 1..(mNextCookie - 1)
      BY <2>1, ConnPointAssumption DEF Cookies
    <2>3. DeliveryKept(f, slots, granted)
      BY <1>2, <2>1 DEF DeliveryKept
    <2> QED
      BY <1>2, <1>3, <2>1, <2>2, <2>3 DEF FrameKept
  <1>6. StackKept'
    BY <1>2, <1>3, <1>4, <1>5, StackStarts DEF PointInv, StackKept
  <1>7. SinksKept'
    BY <1>3, <1>4, SinksStay DEF PointInv
  <1>8. \A w : Pinned(w)' = Pinned(w) - (IF 0 = w THEN 0 ELSE 0)
    BY <1>2, <1>3, Started, PinnedIsNat DEF PointInv, StackKept, Pins
  <1>9. LocksKept'
    BY <1>3, <1>8, LocksStay DEF PointInv, StackKept, sinks
  <1> QED
    BY <1>3, <1>6, <1>7, <1>9 DEF PointInv

\* What the invariant says of the operation on top.
LEMMA TopKept ==
  ASSUME PointInv, depth > 0
  PROVE  /\ Top \in Frame /\ FrameKept(Top, slots, mNextCookie, granted)
         /\ Top.slot \in Nat /\ Len(slots) \in Nat /\ depth \in Nat
         /\ Top.slot # 0 => Top.slot \in 1..Len(slots)
  <1>1. depth \in 1..depth /\ depth \in Depths /\ depth \in Nat
    BY ConnPointAssumption DEF PointInv, StackKept, StackType, Depths
  <1>2. Top \in Frame /\ FrameKept(Top, slots, mNextCookie, granted)
    BY <1>1 DEF PointInv, StackKept, StackType, Top
  <1>3. Top.slot \in Nat /\ Len(slots) \in Nat
    BY <1>2, LenProperties, ConnPointAssumption DEF Frame, PointInv, SlotsKept
  <1> QED
    BY <1>1, <1>2, <1>3 DEF FrameKept

\* The loop moves to the next slot with a sink; those it skips have no cookie.
LEMMA FireVisitsKeeps ==
  ASSUME PointInv, SlotsKept', FireVisits
  PROVE  PointInv'
  <1>1. /\ depth > 0 /\ Top.at = "next" /\ Following(Top.slot) # {}
        /\ UNCHANGED <<slots, mNextCookie, sinks, crashed, closed, granted>>
    BY DEF FireVisits, Waiting
  <1>2. /\ Top \in Frame /\ FrameKept(Top, slots, mNextCookie, granted)
        /\ Top.slot \in Nat /\ Len(slots) \in Nat
    BY <1>1, TopKept
  <1>3. PICK i : i = Least(Following(Top.slot))
    OBVIOUS
  <1>4. /\ i \in Following(Top.slot) /\ \A j \in Following(Top.slot) : i <= j
    <2>1. Following(Top.slot) \in SUBSET Nat
      BY <1>2 DEF Following
    <2> QED
      BY <1>1, <1>3, <2>1, LeastOf
  <1>5. PICK k : k = slots[i].sink
    OBVIOUS
  <1>6. /\ i \in 1..Len(slots) /\ i > Top.slot /\ k # 0
        /\ slots[i].cookie = k /\ slots[i] \in Slot /\ i \in 0..MaxAdvises
    <2>1. /\ i \in 1..Len(slots) /\ i > Top.slot
          /\ slots[i].cookie # 0 /\ slots[i].sink # 0
      BY <1>2, <1>4 DEF Following
    <2>2. /\ slots \in Seq(Slot) /\ Len(slots) < mNextCookie
          /\ mNextCookie \in 1..(MaxAdvises + 1)
      BY DEF PointInv, SlotsKept
    <2> QED
      BY <1>2, <1>5, <2>1, <2>2, ElementOfSeq, ConnPointAssumption DEF PointInv, SinksKept
  <1>7. \A j \in 1..Len(slots) : j > Top.slot /\ slots[j].cookie # 0 => j >= i
    <2>1. \A j \in 1..Len(slots) : j > Top.slot /\ slots[j].cookie # 0 =>
             j \in Following(Top.slot)
      BY <1>2 DEF Following, PointInv, SinksKept
    <2> QED
      BY <1>4, <1>6, <2>1
  <1>8. PICK f : f = [Top EXCEPT !.at = "push", !.slot = i, !.sink = slots[i].sink]
    OBVIOUS
  <1>9. /\ f \in Frame /\ f.at = "push" /\ f.slot = i /\ f.sink = k
        /\ f.due = Top.due /\ f.called = Top.called
    BY <1>2, <1>5, <1>6, <1>8 DEF Frame, Places, Slot
  <1>10. Continues(f)
    BY <1>3, <1>8 DEF FireVisits
  <1>11. FrameKept(f, slots, mNextCookie, granted)
    <2>1. /\ Top.due \cup Top.called \subseteq 1..(mNextCookie - 1)
          /\ DeliveryKept(Top, slots, granted)
      BY <1>1, <1>2 DEF FrameKept
    <2>2. k \notin Top.called
      BY <1>6, <2>1 DEF DeliveryKept
    <2>3. ASSUME NEW c \in Top.due \cap granted, c \notin Top.called
          PROVE  \E j \in 1..Len(slots) : slots[j].cookie = c /\ (j > i \/ j = i)
      <3>1. PICK j \in 1..Len(slots) : slots[j].cookie = c /\ j > Top.slot
        BY <1>1, <2>1, <2>3 DEF DeliveryKept
      <3>2. c # 0
        BY DEF PointInv, SlotsKept, Cookies
      <3> QED
        BY <1>6, <1>7, <3>1, <3>2
    <2>4. DeliveryKept(f, slots, granted)
      <3>1. \A j \in 1..Len(slots) : j > i => slots[j].cookie \notin f.called
        BY <1>2, <1>6, <1>9, <2>1 DEF DeliveryKept
      <3> QED
        BY <1>9, <2>3, <3>1 DEF DeliveryKept
    <2> QED
      BY <1>6, <1>9, <2>1, <2>2, <2>4 DEF FrameKept
  <1>12. StackKept'
    BY <1>1, <1>9, <1>10, <1>11, StackContinues DEF PointInv
  <1>13. SinksKept'
    BY <1>1, SinksStay DEF PointInv
  <1>14. \A w : Pinned(w)' = Pinned(w) - (IF 0 = w THEN 0 ELSE 0)
    BY <1>1, <1>9, <1>10, Continued, PinnedIsNat DEF Pins, PointInv, StackKept
  <1>15. LocksKept'
    BY <1>1, <1>14, LocksStay DEF PointInv, StackKept, sinks
  <1> QED
    BY <1>1, <1>12, <1>13, <1>15 DEF PointInv

\* A table for a sink that exists takes a lock on this very sink.
LEMMA PushesLocks ==
  ASSUME PointInv, NEW k \in Cookies, k < mNextCookie, slots[Top.slot].sink = k, Pushes(k),
         \A w \in Cookies : Pinned(w)' <= tables[w] + (IF w = k THEN 1 ELSE 0),
         UNCHANGED <<granted, mNextCookie>>
  PROVE  LocksKept' /\ UNCHANGED crashed
  <1>1. /\ tables[k] < MaxTables
        /\ tables' = [tables EXCEPT ![k] = @ + 1]
        /\ locks' = [locks EXCEPT ![k] = @ + 1]
        /\ UNCHANGED crashed
    BY DEF Pushes, TableLocks, Cookies
  <1>2. /\ locks \in [Cookies -> Nat] /\ tables \in [Cookies -> 0..MaxTables]
        /\ \A w \in Cookies : locks[w] = tables[w] + (IF w \in granted THEN 1 ELSE 0)
        /\ \A w \in Cookies : w >= mNextCookie => tables[w] = 0
    BY DEF PointInv, LocksKept
  <1>3. locks' \in [Cookies -> Nat] /\ tables' \in [Cookies -> 0..MaxTables]
    BY <1>1, <1>2, ConnPointAssumption
  <1>4. \A w \in Cookies : /\ tables'[w] = tables[w] + (IF w = k THEN 1 ELSE 0)
                           /\ locks'[w] = locks[w] + (IF w = k THEN 1 ELSE 0)
    BY <1>1, <1>2, ConnPointAssumption
  <1>5. \A w \in Cookies : w >= mNextCookie' => tables'[w] = 0
    <2>1. mNextCookie' = mNextCookie /\ mNextCookie \in Nat
      BY ConnPointAssumption DEF PointInv, SlotsKept
    <2>2. \A w \in Cookies : w >= mNextCookie => w # k /\ tables[w] \in Nat
      BY <1>2, <2>1, ConnPointAssumption DEF Cookies
    <2> QED
      BY <1>2, <1>4, <2>1, <2>2
  <1>6. \A w \in Cookies : locks'[w] = tables'[w] + (IF w \in granted' THEN 1 ELSE 0)
    BY <1>2, <1>4, ConnPointAssumption
  <1>7. \A w \in Cookies : Pinned(w)' <= tables'[w]
    BY <1>4
  <1> QED
    BY <1>1, <1>3, <1>5, <1>6, <1>7 DEF LocksKept

\* The sink of the slot that is being served: connected, and not yet called.
LEMMA ServedSink ==
  ASSUME PointInv, depth > 0, Top.at \in {"push", "lookup"}
  PROVE  /\ Top.sink \in granted /\ Top.sink \notin Top.called
         /\ Top.sink \in Cookies /\ Top.sink < mNextCookie
         /\ slots[Top.slot].sink = Top.sink /\ slots[Top.slot].cookie = Top.sink
         /\ Top.slot \in 1..Len(slots) /\ Top.slot \in Nat
  <1>1. /\ Top.slot \in 1..Len(slots) /\ Top.slot \in Nat
        /\ slots[Top.slot].cookie = Top.sink
        /\ Top.sink # 0 /\ Top.sink \notin Top.called
        /\ Top.sink \in 0..MaxAdvises
    BY TopKept DEF FrameKept, Frame
  <1>2. Top.sink \in Cookies
    BY <1>1, ConnPointAssumption DEF Cookies
  <1> QED
    BY <1>1, <1>2 DEF PointInv, SlotsKept, SinksKept

\* The loop has made the sink's table.
LEMMA FirePushesKeeps ==
  ASSUME PointInv, SlotsKept', FirePushes
  PROVE  PointInv'
  <1>1. /\ depth > 0 /\ Top.at = "push" /\ Pushes(Top.sink)
        /\ UNCHANGED <<slots, mNextCookie, closed, granted>>
    BY DEF FirePushes, Waiting
  <1>2. Top \in Frame /\ FrameKept(Top, slots, mNextCookie, granted) /\ StackType
    BY <1>1, TopKept DEF PointInv, StackKept
  <1>3. PICK k : k = Top.sink
    OBVIOUS
  <1>4. k \in Cookies /\ k < mNextCookie /\ slots[Top.slot].sink = k
    BY <1>1, <1>3, ServedSink
  <1>5. PICK f : f = [Top EXCEPT !.at = "lookup"]
    OBVIOUS
  <1>6. /\ f \in Frame /\ f.at = "lookup" /\ f.slot = Top.slot /\ f.sink = k
        /\ f.due = Top.due /\ f.called = Top.called
    BY <1>2, <1>3, <1>5 DEF Frame, Places
  <1>7. Continues(f)
    BY <1>5 DEF FirePushes
  <1>8. FrameKept(f, slots, mNextCookie, granted)
    BY <1>1, <1>2, <1>3, <1>6 DEF FrameKept, DeliveryKept
  <1>9. StackKept'
    BY <1>1, <1>6, <1>7, <1>8, StackContinues DEF PointInv
  <1>10. SinksKept'
    BY <1>1, SinksStay DEF PointInv
  <1>11. \A w : Pinned(w)' = Pinned(w) + (IF w = k THEN 1 ELSE 0)
    BY <1>1, <1>2, <1>6, <1>7, Continued, PinnedIsNat DEF Pins
  <1>12. \A w \in Cookies : Pinned(w)' <= tables[w] + (IF w = k THEN 1 ELSE 0)
    BY <1>2, <1>11, PinnedIsNat, ConnPointAssumption DEF PointInv, LocksKept
  <1>13. Pushes(k)
    BY <1>1, <1>3 DEF Pushes
  <1>14. LocksKept' /\ UNCHANGED crashed
    BY <1>1, <1>4, <1>12, <1>13, PushesLocks
  <1> QED
    BY <1>1, <1>9, <1>10, <1>14 DEF PointInv

\* The loop calls the event method of the sink, with another table of it.
LEMMA FireCallsKeeps ==
  ASSUME PointInv, SlotsKept', FireCalls
  PROVE  PointInv'
  <1>1. /\ depth > 0 /\ Top.at = "lookup" /\ Pushes(slots[Top.slot].sink)
        /\ UNCHANGED <<slots, mNextCookie, closed, granted>>
    BY DEF FireCalls, Waiting
  <1>2. /\ Top \in Frame /\ FrameKept(Top, slots, mNextCookie, granted) /\ StackType
        /\ Len(slots) \in Nat
    BY <1>1, TopKept DEF PointInv, StackKept
  <1>3. PICK k : k = Top.sink
    OBVIOUS
  <1>4. /\ k \in Cookies /\ k < mNextCookie /\ k # 0
        /\ slots[Top.slot].sink = k /\ slots[Top.slot].cookie = k
        /\ Top.slot \in 1..Len(slots)
    BY <1>1, <1>3, ServedSink DEF Cookies
  <1>5. PICK f : f = [Top EXCEPT !.at = "event", !.called = @ \cup {Top.sink}]
    OBVIOUS
  <1>6. /\ f \in Frame /\ f.at = "event" /\ f.slot = Top.slot /\ f.sink = k
        /\ f.due = Top.due /\ f.called = Top.called \cup {k}
    BY <1>2, <1>3, <1>4, <1>5 DEF Frame, Places
  <1>7. Continues(f)
    BY <1>5 DEF FireCalls
  <1>8. FrameKept(f, slots, mNextCookie, granted)
    <2>1. /\ Top.due \cup Top.called \subseteq 1..(mNextCookie - 1)
          /\ Top.slot <= Len(slots) /\ DeliveryKept(Top, slots, granted)
      BY <1>1, <1>2 DEF FrameKept
    <2>2. mNextCookie \in Nat
      BY ConnPointAssumption DEF PointInv, SlotsKept
    <2>3. f.due \cup f.called \subseteq 1..(mNextCookie - 1)
      BY <1>4, <1>6, <2>1, <2>2 DEF Cookies
    <2>4. \A j \in 1..Len(slots) : slots[j].cookie = k => j = Top.slot
      BY <1>4 DEF PointInv, SlotsKept
    <2>5. \A c \in f.due \cap granted : c \in f.called \/
            \E j \in 1..Len(slots) : slots[j].cookie = c /\ j > f.slot
      BY <1>4, <1>6, <2>1 DEF DeliveryKept
    <2>6. \A j \in 1..Len(slots) : j > f.slot => slots[j].cookie \notin f.called
      BY <1>2, <1>4, <1>6, <2>1, <2>4 DEF DeliveryKept
    <2>7. DeliveryKept(f, slots, granted)
      BY <1>6, <2>5, <2>6 DEF DeliveryKept
    <2> QED
      BY <1>4, <1>6, <2>1, <2>3, <2>7 DEF FrameKept
  <1>9. StackKept'
    BY <1>1, <1>6, <1>7, <1>8, StackContinues DEF PointInv
  <1>10. SinksKept'
    BY <1>1, SinksStay DEF PointInv
  <1>11. \A w : Pinned(w) \in Nat /\ Pinned(w)' = Pinned(w)
    BY <1>1, <1>2, <1>3, <1>6, <1>7, Continued, PinnedIsNat DEF Pins
  <1>12. \A w \in Cookies : Pinned(w)' <= tables[w] + (IF w = k THEN 1 ELSE 0)
    BY <1>11, ConnPointAssumption DEF PointInv, LocksKept
  <1>13. Pushes(k)
    BY <1>1, <1>4 DEF Pushes
  <1>14. LocksKept' /\ UNCHANGED crashed
    BY <1>1, <1>4, <1>12, <1>13, PushesLocks
  <1> QED
    BY <1>1, <1>9, <1>10, <1>14 DEF PointInv

\* Looking the event up fails, and the loop ends; its table may be collected.
LEMMA FireFailsKeeps ==
  ASSUME PointInv, SlotsKept', FireFails
  PROVE  PointInv'
  <1>1. /\ depth > 0 /\ Top.at = "lookup" /\ Returns
        /\ UNCHANGED <<slots, mNextCookie, sinks, crashed, closed, granted>>
    BY DEF FireFails, Waiting
  <1>2. StackType /\ depth \in Nat
    BY ConnPointAssumption DEF PointInv, StackKept, StackType
  <1>3. StackKept'
    BY <1>1, <1>2, StackReturns DEF PointInv, StackKept
  <1>4. SinksKept'
    BY <1>1, SinksStay DEF PointInv
  <1>5. PICK v : v = Top.sink
    OBVIOUS
  <1>6. \A w : Pinned(w)' = Pinned(w) - (IF v = w THEN 1 ELSE 0)
    BY <1>1, <1>2, <1>5, Returned DEF Pins
  <1>7. LocksKept'
    BY <1>1, <1>2, <1>6, LocksStay DEF PointInv, sinks
  <1> QED
    BY <1>1, <1>3, <1>4, <1>7 DEF PointInv

\* The event method has returned: its table may be collected.
LEMMA FireGoesOnKeeps ==
  ASSUME PointInv, SlotsKept', FireGoesOn
  PROVE  PointInv'
  <1>1. /\ depth > 0 /\ Top.at = "event"
        /\ UNCHANGED <<slots, mNextCookie, sinks, crashed, closed, granted>>
    BY DEF FireGoesOn, Waiting
  <1>2. /\ Top \in Frame /\ FrameKept(Top, slots, mNextCookie, granted) /\ StackType
    BY <1>1, TopKept DEF PointInv, StackKept
  <1>3. PICK f : f = [Top EXCEPT !.at = "next"]
    OBVIOUS
  <1>4. /\ f \in Frame /\ f.at = "next" /\ f.slot = Top.slot /\ f.sink = Top.sink
        /\ f.due = Top.due /\ f.called = Top.called
    BY <1>2, <1>3 DEF Frame, Places
  <1>5. Continues(f)
    BY <1>3 DEF FireGoesOn
  <1>6. FrameKept(f, slots, mNextCookie, granted)
    BY <1>1, <1>2, <1>4 DEF FrameKept, DeliveryKept
  <1>7. StackKept'
    BY <1>1, <1>4, <1>5, <1>6, StackContinues DEF PointInv
  <1>8. SinksKept'
    BY <1>1, SinksStay DEF PointInv
  <1>9. PICK v : v = Top.sink
    OBVIOUS
  <1>10. \A w : Pinned(w)' = Pinned(w) - (IF v = w THEN 1 ELSE 0)
    BY <1>1, <1>2, <1>4, <1>5, <1>9, Continued, PinnedIsNat DEF Pins
  <1>11. LocksKept'
    BY <1>1, <1>2, <1>10, LocksStay DEF PointInv, sinks
  <1> QED
    BY <1>1, <1>7, <1>8, <1>11 DEF PointInv

\* The loop has passed the last slot.
LEMMA FireReturnsKeeps ==
  ASSUME PointInv, SlotsKept', FireReturns
  PROVE  PointInv'
  <1>1. /\ depth > 0 /\ Top.at = "next" /\ Returns
        /\ UNCHANGED <<slots, mNextCookie, sinks, crashed, closed, granted>>
    BY DEF FireReturns, Waiting
  <1>2. StackType /\ depth \in Nat
    BY ConnPointAssumption DEF PointInv, StackKept, StackType
  <1>3. StackKept'
    BY <1>1, <1>2, StackReturns DEF PointInv, StackKept
  <1>4. SinksKept'
    BY <1>1, SinksStay DEF PointInv
  <1>5. \A w : Pinned(w)' = Pinned(w) - (IF 0 = w THEN 0 ELSE 0)
    BY <1>1, <1>2, Returned, PinnedIsNat DEF Pins
  <1>6. LocksKept'
    BY <1>1, <1>2, <1>5, LocksStay DEF PointInv, sinks
  <1> QED
    BY <1>1, <1>3, <1>4, <1>6 DEF PointInv

\* The collector takes a table that is not on the stack, and its lock.
LEMMA CollectKeeps ==
  ASSUME PointInv, SlotsKept', NEW v \in Cookies, Collect(v)
  PROVE  PointInv'
  <1>1. /\ depth > 0 => Top.at # "unlock"
        /\ tables[v] > Pinned(v)
        /\ tables' = [tables EXCEPT ![v] = @ - 1]
        /\ locks' = [locks EXCEPT ![v] = @ - 1]
        /\ UNCHANGED <<slots, mNextCookie, stack, crashed, closed, granted>>
    BY DEF Collect
  <1>2. StackType /\ \A w : Pinned(w) \in Nat
    BY PinnedIsNat DEF PointInv, StackKept
  <1>3. StackKept'
    BY <1>1 DEF PointInv, StackKept, StackType, stack
  <1>4. SinksKept'
    BY <1>1, SinksStay DEF PointInv
  <1>5. LocksKept'
    <2>1. /\ locks \in [Cookies -> Nat] /\ tables \in [Cookies -> 0..MaxTables]
          /\ \A w \in Cookies : locks[w] = tables[w] + (IF w \in granted THEN 1 ELSE 0)
          /\ \A w \in Cookies : Pinned(w) <= tables[w]
          /\ \A w \in Cookies : w >= mNextCookie => tables[w] = 0
      BY DEF PointInv, LocksKept
    <2>2. \A w : Pinned(w)' = Pinned(w)
      BY <1>1 DEF Pinned, stack
    <2>3. \A w \in Cookies :
            /\ tables[w] \in 0..MaxTables /\ locks[w] \in Nat
            /\ tables'[w] = tables[w] - (IF w = v THEN 1 ELSE 0)
            /\ locks'[w] = locks[w] - (IF w = v THEN 1 ELSE 0)
      BY <1>1, <2>1, ConnPointAssumption
    <2>4. tables[v] > 0 /\ locks[v] > 0 /\ v < mNextCookie
      <3>1. tables[v] \in Nat /\ tables[v] > 0
        BY <1>1, <1>2, <2>3, ConnPointAssumption
      <3>2. locks[v] > 0
        BY <2>1, <3>1
      <3>3. mNextCookie \in Nat /\ v \in Nat
        BY ConnPointAssumption DEF PointInv, SlotsKept, Cookies
      <3> QED
        BY <2>1, <3>1, <3>2, <3>3
    <2>5. locks' \in [Cookies -> Nat] /\ tables' \in [Cookies -> 0..MaxTables]
      BY <1>1, <2>1, <2>3, <2>4, ConnPointAssumption
    <2>6. \A w \in Cookies : locks'[w] = tables'[w] + (IF w \in granted' THEN 1 ELSE 0)
      BY <1>1, <2>1, <2>3, ConnPointAssumption
    <2>7. \A w \in Cookies : Pinned(w)' <= tables'[w]
      BY <1>1, <1>2, <2>1, <2>2, <2>3, ConnPointAssumption
    <2>8. \A w \in Cookies : w >= mNextCookie' => tables'[w] = 0
      BY <1>1, <2>1, <2>3, <2>4 
    <2> QED
      BY <2>5, <2>6, <2>7, <2>8 DEF LocksKept
  <1> QED
    BY <1>1, <1>3, <1>4, <1>5 DEF PointInv

\* A granted sink is in one slot, any other in none.
LEMMA SinkSlots ==
  ASSUME PointInv, NEW w \in Cookies
  PROVE  Cardinality({i \in 1..Len(slots) : slots[i].sink = w /\ slots[i].cookie # 0})
           = IF w \in granted THEN 1 ELSE 0
  <1> DEFINE holding == {i \in 1..Len(slots) : slots[i].sink = w /\ slots[i].cookie # 0}
  <1>1. holding = {i \in 1..Len(slots) : slots[i].cookie = w}
    BY DEF PointInv, SinksKept, Cookies
  <1>2. CASE w \in granted
    <2>1. PICK i \in 1..Len(slots) : slots[i].cookie = w
      BY <1>2 DEF PointInv, SlotsKept
    <2>2. holding = {i}
      BY <1>1, <2>1 DEF PointInv, SlotsKept, Cookies
    <2> QED
      BY <1>2, <2>2, FS_Singleton
  <1>3. CASE w \notin granted
    <2>1. holding = {}
      BY <1>1, <1>3 DEF PointInv, SlotsKept
    <2> QED
      BY <1>3, <2>1, FS_EmptySet
  <1> QED
    BY <1>2, <1>3

\* The end of the point takes the slots' locks from the sinks.
LEMMA DestroyedKeeps ==
  ASSUME PointInv, SlotsKept', Destroyed
  PROVE  PointInv'
  <1>1. /\ depth = 0 /\ slots' = <<>> /\ closed' = TRUE /\ granted' = {}
        /\ locks' = [w \in Cookies |->
             locks[w] - Cardinality({i \in 1..Len(slots) : slots[i].sink = w})]
        /\ UNCHANGED <<mNextCookie, tables, stack, crashed>>
    BY DEF Destroyed
  <1>2. Len(slots') = 0
    BY <1>1, EmptySeq
  <1>3. StackKept'
    BY <1>1 DEF PointInv, StackKept, StackType, stack
  <1>4. SinksKept'
    BY <1>2 DEF SinksKept
  <1>5. LocksKept'
    <2>1. /\ locks \in [Cookies -> Nat] /\ tables \in [Cookies -> 0..MaxTables]
          /\ \A w \in Cookies : locks[w] = tables[w] + (IF w \in granted THEN 1 ELSE 0)
          /\ \A w \in Cookies : w >= mNextCookie => tables[w] = 0
      BY DEF PointInv, LocksKept
    <2>2. \A w : Pinned(w)' = Pinned(w)
      BY <1>1 DEF Pinned, stack
    <2>3. ASSUME NEW w \in Cookies
          PROVE  locks'[w] = tables[w] /\ tables[w] \in Nat
      <3>1. {i \in 1..Len(slots) : slots[i].sink = w}
              = {i \in 1..Len(slots) : slots[i].sink = w /\ slots[i].cookie # 0}
        BY <1>1, NoSinkAlone DEF PointInv, Cookies
      <3>2. locks'[w] = locks[w] - (IF w \in granted THEN 1 ELSE 0)
        BY <1>1, <3>1, SinkSlots
      <3> QED
        BY <2>1, <3>2, ConnPointAssumption
    <2>4. locks' \in [Cookies -> Nat]
      BY <1>1, <2>3
    <2> QED
      BY <1>1, <2>1, <2>2, <2>3, <2>4 DEF LocksKept, PointInv
  <1> QED
    BY <1>1, <1>3, <1>4, <1>5 DEF PointInv

\* The invariant holds after every step.
LEMMA PointNext == ASSUME QuietClients PROVE PointInv /\ [Next]_vars => PointInv'
  <1> SUFFICES ASSUME PointInv, [Next]_vars
               PROVE  PointInv'
    OBVIOUS
  <1>1. SlotsKept'
    BY SlotsNext DEF PointInv
  <1>2. CASE Advise
    BY <1>1, <1>2, AdviseStartsKeeps, AdviseFailsKeeps, AdviseStoresKeeps DEF Advise
  <1>3. CASE Unadvise
    BY <1>1, <1>3, UnadviseStartsKeeps, UnadviseReturnsKeeps DEF Unadvise
  <1>4. CASE Fire
    BY <1>1, <1>4, FireStartsKeeps, FireVisitsKeeps, FirePushesKeeps, FireCallsKeeps,
       FireFailsKeeps, FireGoesOnKeeps, FireReturnsKeeps DEF Fire
  <1>5. CASE \E w \in Cookies : Collect(w)
    BY <1>1, <1>5, CollectKeeps
  <1>6. CASE Destroyed
    BY <1>1, <1>6, DestroyedKeeps
  <1>7. CASE UNCHANGED vars
    <2>1. UNCHANGED <<slots, mNextCookie, locks, tables, depth, frames, crashed, closed, granted>>
      BY <1>7 DEF vars, sinks, stack
    <2>2. SinksKept'
      BY <2>1 DEF PointInv, SinksKept, Top
    <2>3. LocksKept'
      <3>1. \A w : Pinned(w)' = Pinned(w)
        BY <2>1 DEF Pinned
      <3> QED
        BY <2>1, <3>1 DEF PointInv, LocksKept
    <2>4. StackKept'
      BY <2>1 DEF PointInv, StackKept, StackType
    <2> QED
      BY <1>1, <2>1, <2>2, <2>3, <2>4 DEF PointInv
  <1> QED
    BY <1>2, <1>3, <1>4, <1>5, <1>6, <1>7 DEF Next

\* The point has no connection and no operation at the start.
LEMMA PointInit == Init => PointInv
  <1> SUFFICES ASSUME Init PROVE PointInv
    OBVIOUS
  <1>1. SlotsKept /\ Len(slots) = 0
    BY SlotsInit, EmptySeq DEF Init
  <1>2. StackKept
    <2>1. Idle \in Frame
      BY ConnPointAssumption DEF Idle, Frame, Places
    <2> QED
      BY <2>1, ConnPointAssumption DEF Init, StackKept, StackType
  <1>3. LocksKept
    <2>1. \A w : Pinned(w) = 0
      BY PinCountNone, PinnedIsCount DEF Init
    <2> QED
      BY <2>1, ConnPointAssumption DEF Init, LocksKept
  <1>4. SinksKept
    BY <1>1 DEF SinksKept
  <1>5. crashed = FALSE /\ closed \in BOOLEAN
    BY DEF Init
  <1> QED
    BY <1>1, <1>2, <1>3, <1>4, <1>5 DEF PointInv

-----------------------------------------------------------------------------
(* What holds of a point whose clients call back only out of their         *)
(* QueryInterface and their event methods.                                 *)

\* Every value a point's variables take has its type; in particular no lock
\* count goes below zero.
THEOREM PointTypes == ASSUME QuietClients PROVE Spec => []TypeOK
  <1>1. PointInv => TypeOK
    <2> SUFFICES ASSUME PointInv PROVE TypeOK
      OBVIOUS
    <2>1. Len(slots) <= MaxAdvises
      BY LenProperties, ConnPointAssumption DEF PointInv, SlotsKept
    <2> QED
      BY <2>1 DEF PointInv, SlotsKept, LocksKept, StackKept, StackType, Slot, TypeOK
  <1> QED
    BY <1>1, PointInit, PointNext, PTL DEF Spec

\* A slot with a cookie has the sink made for it, whose lock it holds
\* (AddConnection, Unadvise, l_call_sinks).
THEOREM SinksHaveObjects == ASSUME QuietClients PROVE Spec => []EachSinkHasObject
  <1>1. PointInv => EachSinkHasObject
    <2> SUFFICES ASSUME PointInv, NEW i \in 1..Len(slots), slots[i].cookie # 0
                 PROVE  slots[i].sink = slots[i].cookie /\ locks[slots[i].sink] > 0
      BY DEF EachSinkHasObject
    <2>1. slots[i].cookie \in Cookies
      <3>1. slots[i] \in Slot
        BY ElementOfSeq DEF PointInv, SlotsKept
      <3> QED
        BY <3>1, ConnPointAssumption DEF Slot, Cookies
    <2>2. slots[i].cookie \in granted /\ slots[i].sink = slots[i].cookie
      BY <2>1 DEF PointInv, SlotsKept, SinksKept
    <2>3. \A w \in granted : w \in Cookies /\ tables[w] \in Nat /\ locks[w] = tables[w] + 1
      BY ConnPointAssumption DEF PointInv, SlotsKept, LocksKept
    <2> QED
      BY <2>2, <2>3
  <1> QED
    BY <1>1, PointInit, PointNext, PTL DEF Spec

\* A sink has a lock for each slot and each table that refers to it: it is
\* deleted by the last of them, and by no other (tLuaCOM::Lock, Unlock).
THEOREM SinkLocksCounted == ASSUME QuietClients PROVE Spec => []LocksCounted
  <1>1. PointInv => LocksCounted
    BY SinkSlots DEF LocksCounted, PointInv, LocksKept
  <1> QED
    BY <1>1, PointInit, PointNext, PTL DEF Spec

\* A sink that l_call_sinks looks up or calls is alive, at every depth of
\* events fired within events.
THEOREM SinksAliveDuringEvents == ASSUME QuietClients PROVE Spec => []AliveDuringEvent
  <1>1. PointInv => AliveDuringEvent
    <2> SUFFICES ASSUME PointInv, NEW i \in 1..depth, frames[i].at \in {"lookup", "event"}
                 PROVE  locks[frames[i].sink] > 0
      BY DEF AliveDuringEvent
    <2>1. PICK w : w = frames[i].sink
      OBVIOUS
    <2>2. w \in Cookies /\ depth \in Nat
      <3>1. /\ depth \in Nat /\ i \in Depths /\ frames[i] \in Frame
            /\ FrameKept(frames[i], slots, mNextCookie, granted)
        BY ConnPointAssumption DEF PointInv, StackKept, StackType, Depths
      <3> QED
        BY <2>1, <3>1, ConnPointAssumption DEF Frame, FrameKept, Cookies
    <2>3. Pinned(w) \in Nat /\ Pinned(w) # 0
      <3>1. i \in {j \in 1..depth : frames[j].at \in {"lookup", "event"} /\ frames[j].sink = w}
        BY <2>1
      <3>2. IsFiniteSet({j \in 1..depth : frames[j].at \in {"lookup", "event"}
                                          /\ frames[j].sink = w})
        <4>1. IsFiniteSet(1..depth)
          BY <2>2, FS_Interval
        <4> QED
          BY <4>1, FS_Subset
      <3> QED
        BY <3>1, <3>2, FS_EmptySet, FS_CardinalityType DEF Pinned
    <2>4. /\ tables[w] \in Nat /\ locks[w] \in Nat
          /\ Pinned(w) <= tables[w] /\ locks[w] >= tables[w]
      BY <2>2, ConnPointAssumption DEF PointInv, LocksKept
    <2>5. locks[w] > 0
      BY <2>3, <2>4
    <2> QED
      BY <2>1, <2>5
  <1> QED
    BY <1>1, PointInit, PointNext, PTL DEF Spec

\* When l_call_sinks has passed the last slot, whoever was connected when the
\* event was fired and still is has got it.
THEOREM EventsReachAll == ASSUME QuietClients PROVE Spec => []DeliversToAll
  <1>1. PointInv => DeliversToAll
    <2> SUFFICES ASSUME PointInv, Waiting("next"), Following(Top.slot) = {},
                        NEW k \in Top.due \cap granted, k \notin Top.called
                 PROVE  FALSE
      BY DEF DeliversToAll
    <2>1. depth > 0 /\ Top.at = "next"
      BY DEF Waiting
    <2>2. DeliveryKept(Top, slots, granted) /\ Top.slot \in Nat /\ Len(slots) \in Nat
      BY <2>1, TopKept DEF FrameKept
    <2>3. PICK j \in 1..Len(slots) : slots[j].cookie = k /\ j > Top.slot
      BY <2>1, <2>2 DEF DeliveryKept
    <2>4. k # 0
      BY DEF PointInv, SlotsKept, Cookies
    <2>5. j \in Following(Top.slot)
      BY <2>2, <2>3, <2>4 DEF Following, PointInv, SinksKept
    <2> QED
      BY <2>5
  <1> QED
    BY <1>1, PointInit, PointNext, PTL DEF Spec

\* Who is called in an event is connected at that moment, and has not been
\* called for this event before.
THEOREM EventsOncePerClient == ASSUME QuietClients PROVE Spec => DeliversOnce
  <1> DEFINE Once == \A i \in 1..depth : frames'[i].at = "event" /\ frames[i].at = "lookup"
                       => frames[i].sink \in granted \ frames[i].called
  <1>1. PointInv /\ [Next]_vars => Once
    <2> SUFFICES ASSUME PointInv, [Next]_vars, NEW i \in 1..depth,
                        frames'[i].at = "event", frames[i].at = "lookup"
                 PROVE  frames[i].sink \in granted \ frames[i].called
      OBVIOUS
    <2>1. depth > 0 /\ depth \in Nat
      BY ConnPointAssumption DEF PointInv, StackKept, StackType
    <2>2. i = depth
      BY <2>1 DEF PointInv, StackKept
    <2> QED
      BY <2>1, <2>2, ServedSink DEF Top
  <1> QED
    BY <1>1, PointInit, PointNext, PTL DEF Spec, DeliversOnce

=============================================================================
