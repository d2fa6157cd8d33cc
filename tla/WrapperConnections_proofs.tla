----------------------- MODULE WrapperConnections_proofs -----------------------
(***************************************************************************)
(* Proofs about WrapperConnections, for any number of points, cookies and  *)
(* nested operations.                                                      *)
(***************************************************************************)
EXTENDS WrapperConnections, TLAPS

-----------------------------------------------------------------------------
(* How the stack of operations moves.                                      *)

\* Starting an operation leaves the ones under it as they are.
LEMMA StartsMoves ==
  ASSUME NEW op \in Ops, NEW at \in Places,
         NEW conn \in Points \X (0..MaxCookie) \cup {NoConn},
         NEW pending \in SUBSET Conn, NEW holds \in BOOLEAN,
         TypeOK, Starts(op, at, conn, pending, holds)
  PROVE  LET f == [op |-> op, at |-> at, conn |-> conn, pending |-> pending,
                   holds |-> holds, failed |-> FALSE]
         IN /\ depth' = depth + 1 /\ depth' \in 1..MaxDepth
            /\ frames' \in [Depths -> Frame]
            /\ frames'[depth'] = f
            /\ \A i \in 1..depth : frames'[i] = frames[i]
  <1> DEFINE f == [op |-> op, at |-> at, conn |-> conn, pending |-> pending,
                   holds |-> holds, failed |-> FALSE]
  <1>1. f \in Frame
    BY DEF Frame
  <1>2. depth \in 0..MaxDepth /\ MaxDepth \in Nat
    BY ConnectionsAssumption DEF TypeOK
  <1>3. depth' = depth + 1 /\ depth + 1 \in Depths
    BY <1>2 DEF Starts, Depths
  <1>4. frames' = [frames EXCEPT ![depth + 1] = f]
    BY DEF Starts
  <1>5. frames \in [Depths -> Frame]
    BY DEF TypeOK
  <1> HIDE DEF f
  <1>6. frames' \in [Depths -> Frame] /\ frames'[depth + 1] = f
    BY <1>1, <1>3, <1>4, <1>5
  <1>7. \A i \in 1..depth : frames'[i] = frames[i]
    BY <1>2, <1>4, <1>5 DEF Depths
  <1> QED
    BY <1>2, <1>3, <1>6, <1>7 DEF f, Depths

\* An operation that goes on changes its own frame only.
LEMMA ContinuesMoves ==
  ASSUME NEW f \in Frame, TypeOK, depth > 0, Continues(f)
  PROVE  /\ depth' = depth /\ depth \in 1..MaxDepth
         /\ frames' \in [Depths -> Frame]
         /\ frames'[depth] = f
         /\ \A i \in 1..depth : i # depth => frames'[i] = frames[i]
  <1>1. depth \in 1..MaxDepth /\ MaxDepth \in Nat
    BY ConnectionsAssumption DEF TypeOK
  <1> QED
    BY <1>1 DEF Continues, TypeOK, Depths

\* Returning leaves the operations under it as they are.
LEMMA ReturnsMoves ==
  ASSUME TypeOK, depth > 0, Returns
  PROVE  /\ depth' = depth - 1 /\ depth' \in 0..MaxDepth /\ depth \in 1..MaxDepth
         /\ frames' \in [Depths -> Frame]
         /\ \A i \in 1..depth' : frames'[i] = frames[i]
  <1>1. depth \in 1..MaxDepth /\ MaxDepth \in Nat
    BY ConnectionsAssumption DEF TypeOK
  <1>2. NoConn \in Points \X (0..MaxCookie) \cup {NoConn}
    OBVIOUS
  <1>3. Idle \in Frame
    BY <1>2 DEF Idle, Frame, Ops, Places
  <1>4. frames \in [Depths -> Frame] /\ frames' = [frames EXCEPT ![depth] = Idle]
    BY DEF TypeOK, Returns
  <1>5. frames' \in [Depths -> Frame]
    BY <1>3, <1>4
  <1>6. \A i \in 1..(depth - 1) : frames'[i] = frames[i]
    BY <1>1, <1>4 DEF Depths
  <1> QED
    BY <1>1, <1>5, <1>6 DEF Returns

-----------------------------------------------------------------------------
(* Type correctness, with the shape of the frames it depends on.           *)

\* What a frame holds at each of its places.
Shape(f) ==
  /\ f.op = "add" =>
       /\ f.at \in {"find", "advise", "advised", "undo"}
       /\ f.holds
       /\ f.conn # NoConn
       /\ f.conn[1] \in Points
       /\ f.at = "advised" => f.conn \in Conn
       /\ f.at = "undo" => f.conn \in Conn /\ f.pending = {f.conn}
       /\ f.at # "undo" => f.pending = {}
  /\ f.op = "legacy" =>
       f.at = "cancel" /\ f.conn \in Conn /\ f.pending = {f.conn}
  /\ f.op = "explicit" =>
       /\ f.at \in {"find", "cancel"}
       /\ f.holds
       /\ f.conn \in Conn
       /\ f.pending \subseteq {f.conn}
       /\ f.at = "find" => f.pending = {}
  /\ f.op = "call" => f.at = "invoke" /\ f.holds /\ f.pending = {}
  /\ f.op \in {"releaseAll", "gc"} => f.at = "sweep"

Shapes == \A i \in 1..depth : Shape(frames[i])

TypeInv == TypeOK /\ Shapes

LEMMA InitTypeInv == Init => TypeInv
  <1> SUFFICES ASSUME Init PROVE TypeInv
    OBVIOUS
  <1>1. NoConn \in Points \X (0..MaxCookie) \cup {NoConn}
    OBVIOUS
  <1>2. Idle \in Frame
    BY <1>1 DEF Idle, Frame, Ops, Places
  <1>3. MaxDepth \in Nat /\ MaxCookie \in Nat \ {0}
    BY ConnectionsAssumption
  <1>4. made \in Seq(Conn)
    BY DEF Init
  <1>5. next \in [Points -> 1..(MaxCookie + 1)]
    BY <1>3 DEF Init
  <1>6. frames \in [Depths -> Frame]
    BY <1>2 DEF Init
  <1>7. connections \in SUBSET Conn /\ sinks \in SUBSET Conn /\ depth \in 0..MaxDepth
    BY <1>3 DEF Init
  <1>8. TypeOK
    BY <1>4, <1>5, <1>6, <1>7, Zenon DEF Init, TypeOK
  <1> QED
    BY <1>8 DEF Init, TypeInv, Shapes

\* The frame on top has its type and its shape.
LEMMA TopShape ==
  ASSUME TypeInv, depth > 0
  PROVE  depth \in 1..MaxDepth /\ Top \in Frame /\ Shape(Top)
  <1>1. depth \in 1..MaxDepth
    BY ConnectionsAssumption DEF TypeInv, TypeOK
  <1> QED
    BY <1>1 DEF TypeInv, TypeOK, Top, Shapes, Depths

-----------------------------------------------------------------------------
(* The inductive invariant.                                                *)

\* Whatever LuaCOM or the object knows of has been granted before, so a
\* newly granted cookie is new to both.
GrantedOnly ==
  /\ connections \subseteq Granted
  /\ sinks \subseteq Granted
  /\ \A i \in 1..depth : InHand(frames[i]) \subseteq Granted

\* A wrapper that is being destroyed has no other operation in progress, and
\* one that is destroyed has none at all.
GcAlone ==
  /\ \A i \in 1..depth : frames[i].op = "gc" => depth = 1
  /\ gone => depth = 0 /\ ~pdisp

\* Once releaseComObject has started, the wrapper is released; and while no
\* Unadvise of its loop has failed, the list stays empty and nothing above
\* it in the stack has a subscription in hand or can get one.
SweepSeals ==
  \A i \in 1..depth : frames[i].op = "releaseAll" =>
    /\ ~pdisp
    /\ ~frames[i].failed =>
         /\ connections = {}
         /\ \A j \in (i + 1)..depth :
              frames[j].op = "releaseAll" /\ frames[j].pending = {}

\* A dead object is one that nobody refers to any more.
DeadIsUnheld == ~alive => ~Held /\ ~shared

\* last_connection_* name the newest connection made, for ever.
LastIsNewest == last = IF made = <<>> THEN NoConn ELSE made[Len(made)]

IInv ==
  /\ TypeInv
  /\ GrantedOnly
  /\ Tracked
  /\ OneOwner
  /\ GcAlone
  /\ SweepSeals
  /\ DeadIsUnheld
  /\ LastIsNewest

-----------------------------------------------------------------------------
(* Moving subscriptions between the list and the hands of operations.      *)

LEMMA OwnedIs ==
  ASSUME NEW r
  PROVE  r \in Owned <=> r \in connections \/ \E i \in 1..depth : r \in InHand(frames[i])
  BY DEF Owned

LEMMA OwnedIsAfter ==
  ASSUME NEW r
  PROVE  r \in Owned' <=> r \in connections' \/ \E i \in 1..depth' : r \in InHand(frames'[i])
  BY DEF Owned, InHand

\* K: the operations a step leaves alone; what the operation on top, if it is
\* not one of them, has in hand before the step and after it.
HandBefore(K) == IF depth \in (1..depth) \ K THEN InHand(frames[depth]) ELSE {}
HandAfter(K) == IF depth' \in (1..depth') \ K THEN InHand(frames'[depth']) ELSE {}

\* If the list and the operation on top only exchange what they had or what
\* has just been granted, and drop only what is no longer live, then no
\* subscription is lost and none gets a second owner.
LEMMA LedgerStep ==
  ASSUME NEW K \in SUBSET Int,
         GrantedOnly, Tracked, OneOwner,
         \A i \in K : i \in 1..depth /\ i \in 1..depth' /\ frames'[i] = frames[i],
         \A i \in (1..depth) \ K : i = depth,
         \A i \in (1..depth') \ K : i = depth',
         Granted \subseteq Granted',
         connections' \cup HandAfter(K)
           \subseteq connections \cup HandBefore(K) \cup (Granted' \ Granted),
         connections' \cap HandAfter(K) = {},
         sinks' \subseteq connections' \cup HandAfter(K)
                            \cup (sinks \ (connections \cup HandBefore(K))),
         gone' = gone
  PROVE  GrantedOnly' /\ Tracked' /\ OneOwner'
  <1> DEFINE Old == HandBefore(K)
             New == HandAfter(K)
             Fresh == Granted' \ Granted
  <1>a. \A i \in (1..depth) \ K : i = depth /\ InHand(frames[i]) = Old
    BY DEF HandBefore
  <1>b. Old = {} \/ depth \in (1..depth) \ K
    BY DEF HandBefore
  <1>c. \A i \in (1..depth') \ K : i = depth' /\ InHand(frames'[i]) = New
    BY DEF HandAfter
  <1>d. Old = {} \/ Old = InHand(frames[depth])
    BY DEF HandBefore
  <1> HIDE DEF Old, New
  <1>e. /\ connections' \cup New \subseteq connections \cup Old \cup Fresh
        /\ connections' \cap New = {}
        /\ sinks' \subseteq connections' \cup New \cup (sinks \ (connections \cup Old))
    BY DEF Old, New
  <1>1. Old \cap connections = {}
    BY <1>b, <1>d DEF OneOwner
  <1>2. \A i \in K : InHand(frames[i]) \cap Old = {}
    BY <1>b, <1>d DEF OneOwner
  <1>3. Old \subseteq Granted
    BY <1>b, <1>d DEF GrantedOnly
  <1>4. \A i \in K : InHand(frames[i]) \subseteq Granted /\ InHand(frames[i]) \cap connections = {}
    BY DEF GrantedOnly, OneOwner
  <1>5. \A i \in K : InHand(frames'[i]) = InHand(frames[i])
    OBVIOUS
  <1>6. GrantedOnly'
    <2>1. connections' \subseteq Granted' /\ New \subseteq Granted'
      BY <1>3, <1>e DEF GrantedOnly
    <2>2. \A i \in 1..depth' : InHand(frames'[i]) \subseteq Granted'
      BY <2>1, <1>c, <1>4, <1>5
    <2>3. sinks' \subseteq Granted'
      BY <2>1, <1>e DEF GrantedOnly
    <2> QED
      BY <2>1, <2>2, <2>3 DEF GrantedOnly, InHand
  <1>7. OneOwner'
    <2>1. \A i \in K : InHand(frames'[i]) \cap connections' = {} /\ InHand(frames'[i]) \cap New = {}
      <3> SUFFICES ASSUME NEW i \in K
                   PROVE InHand(frames[i]) \cap connections' = {} /\ InHand(frames[i]) \cap New = {}
        BY <1>5
      <3>1. InHand(frames[i]) \cap (connections \cup Old \cup Fresh) = {}
        BY <1>2, <1>4
      <3> QED
        BY <3>1, <1>e
    <2>2. \A i \in 1..depth' : InHand(frames'[i]) \cap connections' = {}
      BY <2>1, <1>c, <1>e
    <2>3. \A i, j \in 1..depth' : i # j => InHand(frames'[i]) \cap InHand(frames'[j]) = {}
      <3> SUFFICES ASSUME NEW i \in 1..depth', NEW j \in 1..depth', i # j
                   PROVE  InHand(frames'[i]) \cap InHand(frames'[j]) = {}
        OBVIOUS
      <3>1. CASE i \in K /\ j \in K
        BY <3>1, <1>5 DEF OneOwner
      <3>2. CASE i \in K /\ j \notin K
        BY <3>2, <2>1, <1>c
      <3>3. CASE i \notin K /\ j \in K
        BY <3>3, <2>1, <1>c
      <3> QED
        BY <1>c, <3>1, <3>2, <3>3
    <2> QED
      BY <2>2, <2>3 DEF OneOwner, InHand
  <1>8. Tracked'
    <2> SUFFICES ASSUME ~gone, NEW r \in sinks' PROVE r \in Owned'
      BY DEF Tracked
    <2>1. CASE r \in connections' \cup New
      <3>1. New = {} \/ (depth' \in 1..depth' /\ New = InHand(frames'[depth']))
        BY DEF New, HandAfter
      <3> QED
        BY <2>1, <3>1, OwnedIsAfter
    <2>2. CASE r \in sinks \ (connections \cup Old)
      <3>1. PICK i \in 1..depth : r \in InHand(frames[i])
        BY <2>2, OwnedIs DEF Tracked
      <3>2. i \in K
        BY <3>1, <2>2, <1>a
      <3> QED
        BY <3>1, <3>2, <1>5, OwnedIsAfter
    <2> QED
      BY <2>1, <2>2, <1>e
  <1> QED
    BY <1>6, <1>7, <1>8

-----------------------------------------------------------------------------
(* The invariant across the three moves of the stack.                      *)

\* All of the invariant but the types and what is about one variable only.
StackInv ==
  Shapes /\ GrantedOnly /\ Tracked /\ OneOwner /\ GcAlone /\ SweepSeals

\* An operation starts, and may take records out of the list.
LEMMA PushInv ==
  ASSUME TypeInv, StackInv, NEW f, Shape(f), f.at # "advised",
         depth' = depth + 1, frames'[depth'] = f,
         \A i \in 1..depth : frames'[i] = frames[i],
         connections' \cup f.pending = connections, connections' \cap f.pending = {},
         sinks' = sinks, next' = next, gone' = gone, ~gone,
         pdisp' => pdisp,
         \A i \in 1..depth : frames[i].op # "gc",
         f.op = "gc" => depth = 0,
         f.op = "releaseAll" => ~pdisp' /\ connections' = {},
         f.op # "releaseAll" => pdisp \/ connections # {} \/ depth = 0
  PROVE  StackInv'
  <1>1. depth \in Nat
    BY ConnectionsAssumption DEF TypeInv, TypeOK
  <1>2. \A i \in 1..depth' : i \in 1..depth \/ i = depth'
    BY <1>1
  <1>3. Shapes'
    <2>1. \A i \in 1..depth : Shape(frames'[i])
      BY DEF StackInv, Shapes
    <2>2. \A i \in 1..depth' : Shape(frames'[i])
      BY <1>2, <2>1
    <2> QED
      BY <2>2 DEF Shapes, Shape
  <1>4. Granted' = Granted
    BY DEF Granted
  <1>5. GrantedOnly' /\ Tracked' /\ OneOwner'
    <2>1. (1..depth') \ (1..depth) = {depth'} /\ 1..depth \in SUBSET Int
      BY <1>1
    <2>2. HandBefore(1..depth) = {} /\ HandAfter(1..depth) = f.pending
      BY <2>1 DEF HandBefore, HandAfter, InHand
    <2>3. /\ \A i \in 1..depth : i \in 1..depth /\ i \in 1..depth' /\ frames'[i] = frames[i]
          /\ \A i \in (1..depth) \ (1..depth) : i = depth
          /\ \A i \in (1..depth') \ (1..depth) : i = depth'
      BY <1>1
    <2>4. /\ connections' \cup HandAfter(1..depth)
               \subseteq connections \cup HandBefore(1..depth) \cup (Granted' \ Granted)
          /\ connections' \cap HandAfter(1..depth) = {}
          /\ sinks' \subseteq connections' \cup HandAfter(1..depth)
                                \cup (sinks \ (connections \cup HandBefore(1..depth)))
      BY <2>2
    <2>5. GrantedOnly /\ Tracked /\ OneOwner
      BY DEF StackInv
    <2> QED
      BY <1>4, <2>1, <2>3, <2>4, <2>5, LedgerStep
  <1>6. GcAlone'
    BY <1>1, <1>2 DEF GcAlone
  <1>7. SweepSeals'
    <2> SUFFICES ASSUME NEW i \in 1..depth', frames'[i].op = "releaseAll"
                 PROVE  /\ ~pdisp'
                        /\ ~frames'[i].failed =>
                             /\ connections' = {}
                             /\ \A j \in (i + 1)..depth' :
                                  frames'[j].op = "releaseAll" /\ frames'[j].pending = {}
      BY DEF SweepSeals
    <2>1. CASE i = depth'
      BY <1>1, <2>1
    <2>2. CASE i \in 1..depth
      <3>1. ~pdisp'
        BY <2>2 DEF StackInv, SweepSeals
      <3>2. ASSUME ~frames'[i].failed
            PROVE  connections' = {} /\ \A j \in (i + 1)..depth' :
                     frames'[j].op = "releaseAll" /\ frames'[j].pending = {}
        <4>1. ~pdisp /\ connections = {} /\ \A j \in (i + 1)..depth :
                frames[j].op = "releaseAll" /\ frames[j].pending = {}
          BY <2>2, <3>2 DEF StackInv, SweepSeals
        <4>2. f.op = "releaseAll" /\ f.pending = {} /\ connections' = {}
          BY <1>1, <2>2, <4>1
        <4>3. \A j \in (i + 1)..depth' : j \in (i + 1)..depth \/ j = depth'
          BY <1>1, <2>2
        <4>4. \A j \in (i + 1)..depth : j \in 1..depth
          BY <1>1, <2>2
        <4> QED
          BY <4>1, <4>2, <4>3, <4>4
      <3> QED
        BY <3>1, <3>2
    <2> QED
      BY <1>2, <2>1, <2>2
  <1> QED
    BY <1>3, <1>5, <1>6, <1>7 DEF StackInv

\* The operation on top goes on.
LEMMA StayInv ==
  ASSUME TypeInv, StackInv, depth > 0, NEW f, Shape(f), f.op = Top.op,
         depth' = depth, frames'[depth] = f,
         \A i \in 1..depth : i # depth => frames'[i] = frames[i],
         Granted \subseteq Granted',
         connections' \cup InHand(f)
           \subseteq connections \cup InHand(Top) \cup (Granted' \ Granted),
         connections' \cap InHand(f) = {},
         sinks' \subseteq connections' \cup InHand(f)
                            \cup (sinks \ (connections \cup InHand(Top))),
         gone' = gone,
         pdisp' => pdisp,
         Top.op = "releaseAll" =>
           Top.pending # {} /\ (~f.failed => ~Top.failed /\ connections' = connections)
  PROVE  StackInv'
  <1>1. depth \in Nat \ {0} /\ depth \in 1..depth
    BY ConnectionsAssumption DEF TypeInv, TypeOK
  <1>2. Shapes'
    <2>1. \A i \in 1..depth : Shape(frames'[i])
      BY DEF StackInv, Shapes
    <2> QED
      BY <2>1 DEF Shapes, Shape
  <1>3. GrantedOnly' /\ Tracked' /\ OneOwner'
    <2> DEFINE K == 1..(depth - 1)
    <2>1. K \in SUBSET Int /\ (1..depth) \ K = {depth} /\ (1..depth') \ K = {depth}
      BY <1>1
    <2>2. HandBefore(K) = InHand(Top) /\ HandAfter(K) = InHand(f)
      BY <2>1 DEF HandBefore, HandAfter, Top
    <2>3. /\ \A i \in K : i \in 1..depth /\ i \in 1..depth' /\ frames'[i] = frames[i]
          /\ \A i \in (1..depth) \ K : i = depth
          /\ \A i \in (1..depth') \ K : i = depth'
      BY <1>1
    <2>4. /\ connections' \cup HandAfter(K)
               \subseteq connections \cup HandBefore(K) \cup (Granted' \ Granted)
          /\ connections' \cap HandAfter(K) = {}
          /\ sinks' \subseteq connections' \cup HandAfter(K)
                                \cup (sinks \ (connections \cup HandBefore(K)))
      BY <2>2
    <2>5. GrantedOnly /\ Tracked /\ OneOwner
      BY DEF StackInv
    <2> HIDE DEF K
    <2> QED
      BY <2>1, <2>3, <2>4, <2>5, LedgerStep
  <1>4. GcAlone'
    <2>1. ~gone
      BY <1>1 DEF StackInv, GcAlone
    <2>2. \A i \in 1..depth : frames'[i].op = frames[i].op
      BY DEF Top
    <2> QED
      BY <2>1, <2>2 DEF StackInv, GcAlone
  <1>5. SweepSeals'
    <2> SUFFICES ASSUME NEW i \in 1..depth, frames'[i].op = "releaseAll"
                 PROVE  /\ ~pdisp'
                        /\ ~frames'[i].failed =>
                             /\ connections' = {}
                             /\ \A j \in (i + 1)..depth :
                                  frames'[j].op = "releaseAll" /\ frames'[j].pending = {}
      BY DEF SweepSeals
    <2>1. CASE i = depth
      <3>1. (i + 1)..depth = {}
        BY <1>1, <2>1
      <3>2. frames[depth].op = "releaseAll"
        BY <2>1 DEF Top
      <3> QED
        BY <1>1, <2>1, <3>1, <3>2 DEF StackInv, SweepSeals, Top
    <2>2. CASE i # depth
      <3>1. ~pdisp'
        BY <2>2 DEF StackInv, SweepSeals
      <3>2. frames[i].failed
        BY <1>1, <2>2 DEF StackInv, SweepSeals, Top
      <3> QED
        BY <2>2, <3>1, <3>2
    <2> QED
      BY <2>1, <2>2
  <1> QED
    BY <1>2, <1>3, <1>4, <1>5 DEF StackInv

\* The operation on top returns, and may put records into the list.
LEMMA PopInv ==
  ASSUME TypeInv, StackInv, depth > 0, depth' = depth - 1,
         \A i \in 1..depth' : frames'[i] = frames[i],
         next' = next,
         connections' \subseteq connections \cup InHand(Top),
         sinks' \subseteq connections' \cup (sinks \ (connections \cup InHand(Top))),
         gone' = gone,
         pdisp' => pdisp,
         Top.op = "releaseAll" => connections' = connections
  PROVE  StackInv'
  <1>1. depth \in Nat \ {0} /\ depth' \in Nat
    BY ConnectionsAssumption DEF TypeInv, TypeOK
  <1>2. \A i \in 1..depth' : i \in 1..depth /\ i # depth
    BY <1>1
  <1>3. Shapes'
    <2>1. \A i \in 1..depth' : Shape(frames'[i])
      BY <1>2 DEF StackInv, Shapes
    <2> QED
      BY <2>1 DEF Shapes, Shape
  <1>4. Granted' = Granted
    BY DEF Granted
  <1>5. GrantedOnly' /\ Tracked' /\ OneOwner'
    <2> DEFINE K == 1..depth'
    <2>1. K \in SUBSET Int /\ (1..depth) \ K = {depth} /\ (1..depth') \ K = {}
      BY <1>1
    <2>2. HandBefore(K) = InHand(Top) /\ HandAfter(K) = {}
      BY <2>1 DEF HandBefore, HandAfter, Top
    <2>3. /\ \A i \in K : i \in 1..depth /\ i \in 1..depth' /\ frames'[i] = frames[i]
          /\ \A i \in (1..depth) \ K : i = depth
          /\ \A i \in (1..depth') \ K : i = depth'
      BY <1>2, <2>1
    <2>4. /\ connections' \cup HandAfter(K)
               \subseteq connections \cup HandBefore(K) \cup (Granted' \ Granted)
          /\ connections' \cap HandAfter(K) = {}
          /\ sinks' \subseteq connections' \cup HandAfter(K)
                                \cup (sinks \ (connections \cup HandBefore(K)))
      BY <2>2
    <2>5. GrantedOnly /\ Tracked /\ OneOwner
      BY DEF StackInv
    <2> HIDE DEF K
    <2> QED
      BY <1>4, <2>1, <2>3, <2>4, <2>5, LedgerStep
  <1>6. GcAlone'
    <2>1. ~gone
      BY <1>1 DEF StackInv, GcAlone
    <2>2. \A i \in 1..depth' : frames[i].op # "gc"
      <3> SUFFICES ASSUME NEW i \in 1..depth', frames[i].op = "gc" PROVE FALSE
        OBVIOUS
      <3>1. depth = 1
        BY <1>2 DEF StackInv, GcAlone
      <3> QED
        BY <1>1, <3>1
    <2> QED
      BY <2>1, <2>2 DEF GcAlone
  <1>7. SweepSeals'
    <2> SUFFICES ASSUME NEW i \in 1..depth', frames'[i].op = "releaseAll"
                 PROVE  /\ ~pdisp'
                        /\ ~frames'[i].failed =>
                             /\ connections' = {}
                             /\ \A j \in (i + 1)..depth' :
                                  frames'[j].op = "releaseAll" /\ frames'[j].pending = {}
      BY DEF SweepSeals
    <2>1. frames[i].op = "releaseAll" /\ frames[i].failed = frames'[i].failed /\ i \in 1..depth
      BY <1>2
    <2>2. ~pdisp'
      BY <2>1 DEF StackInv, SweepSeals
    <2>3. ASSUME ~frames'[i].failed
          PROVE  connections' = {} /\ \A j \in (i + 1)..depth' :
                   frames'[j].op = "releaseAll" /\ frames'[j].pending = {}
      <3>1. connections = {} /\ \A j \in (i + 1)..depth :
              frames[j].op = "releaseAll" /\ frames[j].pending = {}
        BY <2>1, <2>3 DEF StackInv, SweepSeals
      <3>2. depth \in (i + 1)..depth /\ Top.op = "releaseAll"
        BY <1>1, <3>1 DEF Top
      <3>3. \A j \in (i + 1)..depth' : j \in (i + 1)..depth /\ j \in 1..depth'
        BY <1>1
      <3> QED
        BY <3>1, <3>2, <3>3
    <2> QED
      BY <2>2, <2>3
  <1> QED
    BY <1>3, <1>5, <1>6, <1>7 DEF StackInv

-----------------------------------------------------------------------------
(* References to the object are only copied, never made from nothing.      *)

LEMMA HeldByTop ==
  ASSUME TypeInv, depth > 0, Top.holds \/ InHand(Top) # {}
  PROVE  Held
  <1>1. depth \in 1..depth /\ Top \in Frame /\ Shape(Top)
    BY TopShape, ConnectionsAssumption DEF TypeInv, TypeOK
  <1>2. Top.holds \/ Top.pending # {}
    BY <1>1 DEF InHand, Shape, Frame, Ops
  <1> QED
    BY <1>1, <1>2 DEF Held, Top

LEMMA PushHeld ==
  ASSUME TypeInv, NEW f, depth' = depth + 1, frames'[depth'] = f,
         \A i \in 1..depth : frames'[i] = frames[i],
         connections' \cup f.pending = connections,
         f.holds => pdisp, pdisp' => pdisp
  PROVE  Held' => Held
  <1>1. depth \in Nat
    BY ConnectionsAssumption DEF TypeInv, TypeOK
  <1>2. \A i \in 1..depth' : i \in 1..depth \/ i = depth'
    BY <1>1
  <1>3. CASE \E i \in 1..depth : frames'[i].holds \/ frames'[i].pending # {}
    BY <1>3 DEF Held
  <1>4. CASE f.holds \/ f.pending # {}
    BY <1>4 DEF Held
  <1> QED
    BY <1>2, <1>3, <1>4 DEF Held

LEMMA StayHeld ==
  ASSUME TypeInv, depth > 0, NEW f, depth' = depth, frames'[depth] = f,
         \A i \in 1..depth : i # depth => frames'[i] = frames[i],
         connections' \cup f.pending \subseteq connections \cup InHand(Top),
         f.holds => Top.holds, pdisp' => pdisp
  PROVE  Held' => Held
  <1>1. CASE Top.holds \/ InHand(Top) # {}
    BY <1>1, HeldByTop
  <1>2. CASE ~Top.holds /\ InHand(Top) = {}
    <2>1. connections' \cup f.pending \subseteq connections /\ ~f.holds
      BY <1>2
    <2>2. CASE \E i \in 1..depth : i # depth /\ (frames'[i].holds \/ frames'[i].pending # {})
      BY <2>2 DEF Held
    <2>3. CASE f.pending # {} \/ pdisp' \/ connections' # {}
      BY <2>1, <2>3 DEF Held
    <2> QED
      BY <2>1, <2>2, <2>3 DEF Held
  <1> QED
    BY <1>1, <1>2

LEMMA PopHeld ==
  ASSUME TypeInv, depth > 0, depth' = depth - 1,
         \A i \in 1..depth' : frames'[i] = frames[i],
         connections' \subseteq connections \cup InHand(Top), pdisp' => pdisp
  PROVE  Held' => Held
  <1>1. CASE Top.holds \/ InHand(Top) # {}
    BY <1>1, HeldByTop
  <1>2. CASE ~Top.holds /\ InHand(Top) = {}
    <2>1. \A i \in 1..depth' : i \in 1..depth
      BY ConnectionsAssumption DEF TypeInv, TypeOK
    <2> QED
      BY <1>2, <2>1 DEF Held
  <1> QED
    BY <1>1, <1>2

-----------------------------------------------------------------------------
(* Every step keeps the invariant: addConnection.                          *)

\* What each action is shown to keep; "alive" is updated by Next itself.
Kept ==
  /\ pdisp' \in BOOLEAN /\ connections' \in SUBSET Conn /\ last' \in Conn \cup {NoConn}
  /\ depth' \in 0..MaxDepth /\ frames' \in [Depths -> Frame] /\ gone' \in BOOLEAN
  /\ sinks' \in SUBSET Conn /\ next' \in [Points -> 1..(MaxCookie + 1)]
  /\ shared' \in BOOLEAN /\ made' \in Seq(Conn)
  /\ StackInv'
  /\ Held' => Held
  /\ shared' => shared
  /\ LastIsNewest'

\* The parts of the invariant, for a proof that need not open it.
LEMMA Parts ==
  ASSUME IInv
  PROVE  /\ TypeInv /\ StackInv /\ LastIsNewest
         /\ pdisp \in BOOLEAN /\ connections \in SUBSET Conn /\ last \in Conn \cup {NoConn}
         /\ gone \in BOOLEAN /\ sinks \in SUBSET Conn
         /\ next \in [Points -> 1..(MaxCookie + 1)] /\ shared \in BOOLEAN
         /\ made \in Seq(Conn)
  BY DEF IInv, TypeInv, TypeOK, StackInv

\* A script starts an operation only above operations that are not the
\* destructor, and so on a wrapper that exists.
LEMMA ReachableIs ==
  ASSUME IInv, Reachable
  PROVE  ~gone /\ \A i \in 1..depth : frames[i].op # "gc"
  <1> SUFFICES ASSUME NEW i \in 1..depth, frames[i].op = "gc" PROVE FALSE
    BY DEF Reachable
  <1>1. depth = 1
    BY DEF IInv, GcAlone
  <1> QED
    BY <1>1 DEF Reachable, Top

\* A connection is one, and NoConn is none.
LEMMA NoConnIs == NoConn \notin Conn /\ \A p \in Points : <<p, 0>> # NoConn
  BY ConnectionsAssumption DEF Conn

\* The conditions under which each move of the stack keeps the invariant.
LEMMA StartsKept ==
  ASSUME IInv,
         NEW op \in Ops, NEW at \in Places, NEW conn \in Points \X (0..MaxCookie) \cup {NoConn},
         NEW pending \in SUBSET Conn, NEW holds \in BOOLEAN,
         Starts(op, at, conn, pending, holds), at # "advised",
         Shape([op |-> op, at |-> at, conn |-> conn, pending |-> pending,
                holds |-> holds, failed |-> FALSE]),
         connections' \cup pending = connections, connections' \cap pending = {},
         UNCHANGED <<last, gone, made, sinks, next, shared>>,
         pdisp' \in BOOLEAN, pdisp' => pdisp, holds => pdisp,
         ~gone, \A i \in 1..depth : frames[i].op # "gc",
         op = "gc" => depth = 0,
         op = "releaseAll" => ~pdisp' /\ connections' = {},
         op # "releaseAll" => pdisp \/ connections # {} \/ depth = 0
  PROVE  Kept
  <1> DEFINE f == [op |-> op, at |-> at, conn |-> conn, pending |-> pending,
                   holds |-> holds, failed |-> FALSE]
  <1>1. /\ depth' = depth + 1 /\ depth' \in 1..MaxDepth
        /\ frames' \in [Depths -> Frame] /\ frames'[depth'] = f
        /\ \A i \in 1..depth : frames'[i] = frames[i]
    BY StartsMoves, Parts, SMTT(30) DEF TypeInv
  <1>2. f.op = op /\ f.at = at /\ f.pending = pending /\ f.holds = holds /\ Shape(f)
    OBVIOUS
  <1> HIDE DEF f
  <1>3. /\ connections' \cup f.pending = connections /\ connections' \cap f.pending = {}
        /\ f.at # "advised" /\ (f.holds => pdisp)
        /\ f.op = "gc" => depth = 0
        /\ f.op = "releaseAll" => ~pdisp' /\ connections' = {}
        /\ f.op # "releaseAll" => pdisp \/ connections # {} \/ depth = 0
    BY <1>2
  <1>4. StackInv'
    BY <1>1, <1>2, <1>3, Parts, PushInv
  <1>5. Held' => Held
    BY <1>1, <1>3, Parts, PushHeld
  <1>6. LastIsNewest'
    BY Parts DEF LastIsNewest
  <1>7. connections' \in SUBSET Conn
    BY Parts
  <1> QED
    BY <1>1, <1>4, <1>5, <1>6, <1>7, Parts, ConnectionsAssumption DEF Kept

LEMMA StaysKept ==
  ASSUME IInv, depth > 0, NEW f \in Frame, Continues(f), Shape(f), f.op = Top.op,
         Granted \subseteq Granted',
         connections' \cup InHand(f)
           \subseteq connections \cup InHand(Top) \cup (Granted' \ Granted),
         connections' \cup f.pending \subseteq connections \cup InHand(Top),
         connections' \cap InHand(f) = {},
         sinks' \subseteq connections' \cup InHand(f)
                            \cup (sinks \ (connections \cup InHand(Top))),
         f.holds => Top.holds,
         Top.op = "releaseAll" =>
           Top.pending # {} /\ (~f.failed => ~Top.failed /\ connections' = connections),
         UNCHANGED <<pdisp, last, gone, made, shared>>,
         sinks' \in SUBSET Conn, connections' \in SUBSET Conn,
         next' \in [Points -> 1..(MaxCookie + 1)]
  PROVE  Kept
  <1>1. /\ depth' = depth /\ depth \in 1..MaxDepth /\ frames' \in [Depths -> Frame]
        /\ frames'[depth] = f /\ \A i \in 1..depth : i # depth => frames'[i] = frames[i]
    BY ContinuesMoves, Parts DEF TypeInv
  <1>2. StackInv'
    BY <1>1, Parts, StayInv
  <1>3. Held' => Held
    BY <1>1, Parts, StayHeld
  <1>4. LastIsNewest'
    BY Parts DEF LastIsNewest
  <1> QED
    BY <1>1, <1>2, <1>3, <1>4, Parts DEF Kept

LEMMA PopsKept ==
  ASSUME IInv, depth > 0, Returns,
         connections' \subseteq connections \cup InHand(Top),
         sinks' \subseteq connections' \cup (sinks \ (connections \cup InHand(Top))),
         Top.op = "releaseAll" => connections' = connections,
         UNCHANGED <<pdisp, gone, next, shared>>,
         sinks' \in SUBSET Conn, connections' \in SUBSET Conn,
         last' \in Conn \cup {NoConn}, made' \in Seq(Conn), LastIsNewest'
  PROVE  Kept
  <1>1. /\ depth' = depth - 1 /\ depth' \in 0..MaxDepth
        /\ frames' \in [Depths -> Frame] /\ \A i \in 1..depth' : frames'[i] = frames[i]
    BY ReturnsMoves, Parts DEF TypeInv
  <1>2. StackInv'
    BY <1>1, Parts, PopInv
  <1>3. Held' => Held
    BY <1>1, Parts, PopHeld
  <1> QED
    BY <1>1, <1>2, <1>3, Parts DEF Kept

LEMMA AddStartsKept ==
  ASSUME IInv, NEW p \in Points, AddStarts(p)
  PROVE  Kept
  <1> DEFINE f == [op |-> "add", at |-> "find", conn |-> <<p, 0>>, pending |-> {},
                   holds |-> ActiveDispatch, failed |-> FALSE]
  <1>1. <<p, 0>> \in Points \X (0..MaxCookie) \cup {NoConn}
    BY ConnectionsAssumption
  <1>2. ActiveDispatch = TRUE /\ pdisp
    BY Parts DEF AddStarts, ActiveDispatch
  <1>3. Shape(f)
    BY <1>2, NoConnIs DEF Shape
  <1>4. "add" \in Ops /\ "find" \in Places /\ {} \in SUBSET Conn
    BY DEF Ops, Places
  <1>5. UNCHANGED <<pdisp, connections, last, gone, made, sinks, next, shared>>
    BY DEF AddStarts, wrapper, object
  <1>6. ~gone /\ \A i \in 1..depth : frames[i].op # "gc"
    BY ReachableIs DEF AddStarts
  <1>7. Starts("add", "find", <<p, 0>>, {}, ActiveDispatch)
    BY DEF AddStarts
  <1> QED
    BY <1>1, <1>2, <1>3, <1>4, <1>5, <1>6, <1>7, Parts, StartsKept

\* An operation on top that has nothing in hand, returns and changes nothing.
LEMMA ReturnsKept ==
  ASSUME IInv, depth > 0, Returns, InHand(Top) = {}, UNCHANGED <<wrapper, object>>
  PROVE  Kept
  <1>1. UNCHANGED <<pdisp, connections, last, gone, made, sinks, next, shared>>
    BY DEF wrapper, object
  <1>2. LastIsNewest'
    BY <1>1, Parts DEF LastIsNewest
  <1> QED
    BY <1>1, <1>2, Parts, PopsKept

LEMMA AddFindsNothingKept ==
  ASSUME IInv, AddFindsNothing
  PROVE  Kept
  <1>1. depth > 0 /\ Shape(Top) /\ Top.op = "add" /\ Top.at = "find"
    BY Parts, TopShape DEF AddFindsNothing, Waiting
  <1>2. InHand(Top) = {}
    BY <1>1 DEF Shape, InHand
  <1> QED
    BY <1>1, <1>2, ReturnsKept DEF AddFindsNothing

LEMMA AddFindsPointKept ==
  ASSUME IInv, AddFindsPoint
  PROVE  Kept
  <1>1. depth > 0 /\ Top \in Frame /\ Shape(Top) /\ Top.op = "add" /\ Top.at = "find"
    BY Parts, TopShape DEF AddFindsPoint, Waiting
  <1>2. InHand(Top) = {}
    BY <1>1 DEF Shape, InHand
  <1>3. CASE ~pdisp
    BY <1>1, <1>2, <1>3, ReturnsKept DEF AddFindsPoint, AddGoesOn
  <1>4. CASE pdisp
    <2> DEFINE f == [Top EXCEPT !.at = "advise"]
    <2>1. f \in Frame /\ f.op = "add" /\ f.holds = Top.holds /\ f.pending = {} /\ f.at = "advise"
      BY <1>1 DEF Frame, Places, Shape
    <2>2. Shape(f)
      BY <1>1 DEF Shape, Frame
    <2>3. InHand(f) = {}
      BY <2>1 DEF InHand
    <2>4. Continues(f) /\ UNCHANGED <<pdisp, connections, last, gone, made, sinks, next, shared>>
      BY <1>4 DEF AddFindsPoint, AddGoesOn, wrapper, object
    <2>5. Granted' = Granted
      BY <2>4 DEF Granted
    <2> HIDE DEF f
    <2> QED
      BY <1>1, <1>2, <2>1, <2>2, <2>3, <2>4, <2>5, Parts, StaysKept
  <1> QED
    BY <1>3, <1>4

\* The new cookie is new to everybody, and the frame takes it in hand.
LEMMA AdviseStoresKept ==
  ASSUME IInv, AdviseStores
  PROVE  Kept
  <1> DEFINE p == Top.conn[1]
             c == <<p, next[p]>>
             f == [Top EXCEPT !.at = "advised", !.conn = c]
  <1>1. depth > 0 /\ Top \in Frame /\ Shape(Top) /\ Top.op = "add" /\ Top.at = "advise"
    BY Parts, TopShape DEF AdviseStores, Waiting
  <1>2. p \in Points /\ InHand(Top) = {} /\ Top.pending = {} /\ Top.holds
    BY <1>1 DEF Shape, InHand
  <1>3. next[p] \in 1..MaxCookie /\ next' = [next EXCEPT ![p] = @ + 1]
    BY <1>2, Parts, ConnectionsAssumption DEF AdviseStores
  <1>4. c \in Conn /\ c \in Points \X (0..MaxCookie) \cup {NoConn} /\ c # NoConn
    BY <1>2, <1>3, NoConnIs DEF Conn
  <1>5. sinks' = sinks \cup {c} /\ Continues(f)
        /\ UNCHANGED <<pdisp, connections, last, gone, made, shared>>
    BY DEF AdviseStores, wrapper
  <1>6. next' \in [Points -> 1..(MaxCookie + 1)]
    BY <1>2, <1>3, Parts, ConnectionsAssumption
  <1>7. Granted' \ Granted = {c} /\ Granted \subseteq Granted'
    <2>1. \A r \in Conn : r[1] \in Points /\ r[2] \in Nat /\ r = <<r[1], r[2]>>
      BY ConnectionsAssumption DEF Conn
    <2>2. \A q \in Points : next'[q] = IF q = p THEN next[p] + 1 ELSE next[q]
      BY <1>2, <1>3, Parts
    <2>3. \A q \in Points : next[q] \in Nat
      BY Parts, ConnectionsAssumption
    <2>4. \A r \in Conn : r[2] < next'[r[1]] <=> r[2] < next[r[1]] \/ r = c
      BY <1>2, <1>4, <2>1, <2>2, <2>3
    <2>5. ~(c[2] < next[c[1]])
      BY <1>2, <2>3
    <2> QED
      BY <1>4, <2>4, <2>5 DEF Granted
  <1>8. f \in Frame /\ f.op = "add" /\ f.holds = Top.holds /\ f.pending = {} /\ f.at = "advised"
        /\ f.conn = c
    BY <1>1, <1>2, <1>4 DEF Frame, Places
  <1>9. c \notin connections
    BY <1>7, Parts DEF StackInv, GrantedOnly
  <1> HIDE DEF c, f
  <1>10. Shape(f)
    BY <1>2, <1>4, <1>8 DEF Shape, Conn
  <1>11. InHand(f) = {c}
    BY <1>8 DEF InHand
  <1>12. sinks \subseteq Granted
    BY Parts DEF StackInv, GrantedOnly
  <1>13. Top.op # "releaseAll"
    BY <1>1
  <1>14. sinks' \in SUBSET Conn
    BY <1>4, <1>5, Parts
  <1>15. sinks' \subseteq connections' \cup InHand(f) \cup (sinks \ (connections \cup InHand(Top)))
    BY <1>2, <1>5, <1>11
  <1>16. connections' \cup InHand(f) \subseteq connections \cup InHand(Top) \cup (Granted' \ Granted)
    BY <1>5, <1>7, <1>11
  <1> QED
    BY <1>1, <1>2, <1>5, <1>6, <1>7, <1>8, <1>9, <1>10, <1>11, <1>13, <1>14, <1>15, <1>16,
       Parts, StaysKept, SMTT(30)

LEMMA AdviseFailsKept ==
  ASSUME IInv, AdviseFails
  PROVE  Kept
  <1>1. depth > 0 /\ Shape(Top) /\ Top.op = "add" /\ Top.at = "advise"
    BY Parts, TopShape DEF AdviseFails, Waiting
  <1>2. InHand(Top) = {}
    BY <1>1 DEF Shape, InHand
  <1> QED
    BY <1>1, <1>2, ReturnsKept DEF AdviseFails

LEMMA AddRegistersKept ==
  ASSUME IInv, AddRegisters
  PROVE  Kept
  <1>1. depth > 0 /\ Shape(Top) /\ Top.op = "add" /\ Top.at = "advised"
    BY Parts, TopShape DEF AddRegisters, Waiting
  <1>2. Top.conn \in Conn /\ InHand(Top) = {Top.conn}
    BY <1>1 DEF Shape, InHand
  <1>3. /\ connections' = connections \cup {Top.conn} /\ last' = Top.conn
        /\ made' = Append(made, Top.conn) /\ Returns
        /\ UNCHANGED <<pdisp, gone, sinks, next, shared>>
    BY DEF AddRegisters, Register, object
  <1>4. made' \in Seq(Conn) /\ made' # <<>> /\ made'[Len(made')] = Top.conn
    BY <1>2, <1>3, Parts
  <1>5. LastIsNewest'
    BY <1>3, <1>4 DEF LastIsNewest
  <1>6. connections' \in SUBSET Conn
    BY <1>2, <1>3, Parts
  <1> QED
    BY <1>1, <1>2, <1>3, <1>4, <1>5, <1>6, Parts, PopsKept

LEMMA AddTakesBackKept ==
  ASSUME IInv, AddTakesBack
  PROVE  Kept
  <1> DEFINE f == [Top EXCEPT !.at = "undo", !.pending = {Top.conn}]
  <1>1. depth > 0 /\ Top \in Frame /\ Shape(Top) /\ Top.op = "add" /\ Top.at = "advised"
    BY Parts, TopShape DEF AddTakesBack, Waiting
  <1>2. Top.conn \in Conn /\ InHand(Top) = {Top.conn}
    BY <1>1 DEF Shape, InHand
  <1>3. f \in Frame /\ f.op = "add" /\ f.holds = Top.holds /\ f.pending = {Top.conn}
        /\ f.at = "undo" /\ f.conn = Top.conn
    BY <1>1, <1>2 DEF Frame, Places
  <1>4. Continues(f) /\ UNCHANGED <<pdisp, connections, last, gone, made, sinks, next, shared>>
    BY DEF AddTakesBack, wrapper, object
  <1> HIDE DEF f
  <1>5. Shape(f)
    BY <1>1, <1>3 DEF Shape
  <1>6. InHand(f) = {Top.conn}
    BY <1>3 DEF InHand
  <1>7. Top.conn \notin connections
    <2>1. depth \in 1..depth
      BY <1>1, TopShape, Parts
    <2> QED
      BY <1>2, <2>1, Parts DEF StackInv, OneOwner, Top
  <1>8. Granted' = Granted
    BY <1>4 DEF Granted
  <1> QED
    BY <1>1, <1>2, <1>3, <1>4, <1>5, <1>6, <1>7, <1>8, Parts, StaysKept

\* Unadvise answers about a record of the operation on top, which returns.
LEMMA UnadviseReturnsKept ==
  ASSUME IInv, depth > 0, NEW failed \in BOOLEAN,
         Top.conn \in Conn, InHand(Top) \subseteq {Top.conn}, InHand(Top) = Top.pending,
         Top.op # "releaseAll",
         Unadvise(Top.conn, failed), Returns,
         connections' = connections \cup Retained(failed, Top.pending),
         UNCHANGED <<pdisp, last, gone, made>>
  PROVE  Kept
  <1>1. /\ connections' = connections \cup (IF failed THEN Top.pending ELSE {})
        /\ sinks' = (IF failed THEN sinks ELSE sinks \ {Top.conn})
        /\ UNCHANGED <<next, shared>>
    BY DEF Unadvise, Retained
  <1>2. connections' \in SUBSET Conn /\ sinks' \in SUBSET Conn
    BY <1>1, Parts
  <1>3. sinks' \subseteq connections' \cup (sinks \ (connections \cup InHand(Top)))
    BY <1>1
  <1>4. LastIsNewest'
    BY Parts DEF LastIsNewest
  <1> QED
    BY <1>1, <1>2, <1>3, <1>4, Parts, PopsKept

LEMMA AddTakenBackKept ==
  ASSUME IInv, NEW failed \in BOOLEAN, AddTakenBack(failed)
  PROVE  Kept
  <1>1. depth > 0 /\ Shape(Top) /\ Top.op = "add" /\ Top.at = "undo"
    BY Parts, TopShape DEF AddTakenBack, Waiting
  <1>2. Top.conn \in Conn /\ Top.pending = {Top.conn} /\ InHand(Top) = {Top.conn}
    BY <1>1 DEF Shape, InHand
  <1> QED
    BY <1>1, <1>2, UnadviseReturnsKept DEF AddTakenBack

-----------------------------------------------------------------------------
(* The releaseConnection overloads and call.                               *)

LEMMA LegacyStartsKept ==
  ASSUME IInv, LegacyStarts
  PROVE  Kept
  <1>1. PICK record \in LegacyTarget :
          /\ Starts("legacy", "cancel", record, {record}, FALSE)
          /\ connections' = connections \ {record}
    BY DEF LegacyStarts
  <1>2. record \in connections /\ record \in Conn /\ {record} \in SUBSET Conn
    BY Parts DEF LegacyTarget
  <1>3. record \in Points \X (0..MaxCookie) \cup {NoConn}
    BY <1>2, ConnectionsAssumption DEF Conn
  <1>4. UNCHANGED <<pdisp, last, gone, made, sinks, next, shared>>
    BY DEF LegacyStarts, object
  <1>5. ~gone /\ \A i \in 1..depth : frames[i].op # "gc"
    BY ReachableIs DEF LegacyStarts
  <1>6. Shape([op |-> "legacy", at |-> "cancel", conn |-> record, pending |-> {record},
               holds |-> FALSE, failed |-> FALSE])
    BY <1>2 DEF Shape
  <1>7. "legacy" \in Ops /\ "cancel" \in Places
    BY DEF Ops, Places
  <1>8. connections' \cup {record} = connections /\ connections' \cap {record} = {}
        /\ connections # {}
    BY <1>1, <1>2
  <1> QED
    BY <1>1, <1>2, <1>3, <1>4, <1>5, <1>6, <1>7, <1>8, Parts, StartsKept

LEMMA ExplicitStartsKept ==
  ASSUME IInv, NEW k \in 1..Len(made), ExplicitStarts(made[k])
  PROVE  Kept
  <1> DEFINE record == made[k]
  <1>1. record \in Conn
    BY Parts
  <1>2. record \in Points \X (0..MaxCookie) \cup {NoConn}
    BY <1>1, ConnectionsAssumption DEF Conn
  <1>3. ActiveDispatch = TRUE /\ pdisp
    BY Parts DEF ExplicitStarts, ActiveDispatch
  <1>4. UNCHANGED <<pdisp, connections, last, gone, made, sinks, next, shared>>
    BY DEF ExplicitStarts, wrapper, object
  <1>5. ~gone /\ \A i \in 1..depth : frames[i].op # "gc"
    BY ReachableIs DEF ExplicitStarts
  <1>6. Shape([op |-> "explicit", at |-> "find", conn |-> record, pending |-> {},
               holds |-> ActiveDispatch, failed |-> FALSE])
    BY <1>1, <1>3 DEF Shape
  <1>7. "explicit" \in Ops /\ "find" \in Places /\ {} \in SUBSET Conn
    BY DEF Ops, Places
  <1>8. Starts("explicit", "find", record, {}, ActiveDispatch)
    BY DEF ExplicitStarts
  <1> HIDE DEF record
  <1> QED
    BY <1>1, <1>2, <1>3, <1>4, <1>5, <1>6, <1>7, <1>8, Parts, StartsKept

LEMMA ExplicitFindsNothingKept ==
  ASSUME IInv, ExplicitFindsNothing
  PROVE  Kept
  <1>1. depth > 0 /\ Shape(Top) /\ Top.op = "explicit" /\ Top.at = "find"
    BY Parts, TopShape DEF ExplicitFindsNothing, Waiting
  <1>2. InHand(Top) = {}
    BY <1>1 DEF Shape, InHand
  <1> QED
    BY <1>1, <1>2, ReturnsKept DEF ExplicitFindsNothing

LEMMA ExplicitDetachesKept ==
  ASSUME IInv, ExplicitDetaches
  PROVE  Kept
  <1> DEFINE f == [Top EXCEPT !.at = "cancel", !.pending = {Top.conn} \cap connections]
  <1>1. depth > 0 /\ Top \in Frame /\ Shape(Top) /\ Top.op = "explicit" /\ Top.at = "find"
    BY Parts, TopShape DEF ExplicitDetaches, Waiting
  <1>2. Top.conn \in Conn /\ InHand(Top) = {}
    BY <1>1 DEF Shape, InHand
  <1>3. f \in Frame /\ f.op = "explicit" /\ f.holds = Top.holds /\ f.at = "cancel"
        /\ f.pending = {Top.conn} \cap connections /\ f.conn = Top.conn
    BY <1>1, <1>2 DEF Frame, Places
  <1>4. Continues(f) /\ connections' = connections \ {Top.conn}
        /\ UNCHANGED <<pdisp, last, gone, made, sinks, next, shared>>
    BY DEF ExplicitDetaches, object
  <1> HIDE DEF f
  <1>5. Shape(f)
    BY <1>1, <1>3 DEF Shape
  <1>6. InHand(f) = {Top.conn} \cap connections
    BY <1>3 DEF InHand
  <1>7. Granted' = Granted
    BY <1>4 DEF Granted
  <1>8. /\ connections' \cup InHand(f) = connections /\ connections' \cap InHand(f) = {}
        /\ connections' \cup f.pending = connections
        /\ connections' \in SUBSET Conn
        /\ sinks' \subseteq connections' \cup InHand(f) \cup (sinks \ (connections \cup InHand(Top)))
    BY <1>2, <1>3, <1>4, <1>6, Parts
  <1>9. Top.op # "releaseAll"
    BY <1>1
  <1> QED
    BY <1>1, <1>2, <1>3, <1>4, <1>5, <1>7, <1>8, <1>9, Parts, StaysKept

LEMMA CancelledKept ==
  ASSUME IInv, NEW failed \in BOOLEAN, Cancelled(failed)
  PROVE  Kept
  <1>1. depth > 0 /\ Shape(Top) /\ Top.op \in {"legacy", "explicit"} /\ Top.at = "cancel"
    BY Parts, TopShape DEF Cancelled, Waiting
  <1>2. Top.conn \in Conn /\ Top.pending \subseteq {Top.conn} /\ InHand(Top) = Top.pending
    BY <1>1 DEF Shape, InHand
  <1> QED
    BY <1>1, <1>2, UnadviseReturnsKept DEF Cancelled

LEMMA CallStartsKept ==
  ASSUME IInv, CallStarts
  PROVE  Kept
  <1>1. ActiveDispatch = TRUE /\ pdisp
    BY Parts DEF CallStarts, ActiveDispatch
  <1>2. UNCHANGED <<pdisp, connections, last, gone, made, sinks, next, shared>>
    BY DEF CallStarts, wrapper, object
  <1>3. ~gone /\ \A i \in 1..depth : frames[i].op # "gc"
    BY ReachableIs DEF CallStarts
  <1>4. Shape([op |-> "call", at |-> "invoke", conn |-> NoConn, pending |-> {},
               holds |-> ActiveDispatch, failed |-> FALSE])
    BY <1>1 DEF Shape
  <1>5. "call" \in Ops /\ "invoke" \in Places /\ {} \in SUBSET Conn
        /\ NoConn \in Points \X (0..MaxCookie) \cup {NoConn}
    BY DEF Ops, Places
  <1>6. Starts("call", "invoke", NoConn, {}, ActiveDispatch)
    BY DEF CallStarts
  <1> QED
    BY <1>1, <1>2, <1>3, <1>4, <1>5, <1>6, Parts, StartsKept

LEMMA CallReturnsKept ==
  ASSUME IInv, CallReturns
  PROVE  Kept
  <1>1. depth > 0 /\ Shape(Top) /\ Top.op = "call" /\ Top.at = "invoke"
    BY Parts, TopShape DEF CallReturns, Waiting
  <1>2. InHand(Top) = {}
    BY <1>1 DEF Shape, InHand
  <1> QED
    BY <1>1, <1>2, ReturnsKept DEF CallReturns

-----------------------------------------------------------------------------
(* releaseConnections, for releaseComObject and for the destructor.        *)

LEMMA ReleaseAllStartsKept ==
  ASSUME IInv, ReleaseAllStarts
  PROVE  Kept
  <1>1. ReleasedDispatch = pdisp /\ pdisp \in BOOLEAN /\ connections \in SUBSET Conn
    BY Parts DEF ReleasedDispatch
  <1>2. pdisp' = FALSE /\ connections' = {}
        /\ UNCHANGED <<last, gone, made, sinks, next, shared>>
    BY DEF ReleaseAllStarts, LeftBehind, object
  <1>3. ~gone /\ \A i \in 1..depth : frames[i].op # "gc"
    BY ReachableIs DEF ReleaseAllStarts
  <1>4. Shape([op |-> "releaseAll", at |-> "sweep", conn |-> NoConn, pending |-> connections,
               holds |-> pdisp, failed |-> FALSE])
    BY DEF Shape
  <1>5. "releaseAll" \in Ops /\ "sweep" \in Places /\ "releaseAll" # "gc" /\ "sweep" # "advised"
        /\ NoConn \in Points \X (0..MaxCookie) \cup {NoConn}
    BY DEF Ops, Places
  <1>6. Starts("releaseAll", "sweep", NoConn, connections, pdisp)
    BY <1>1 DEF ReleaseAllStarts
  <1>7. pdisp' \in BOOLEAN /\ (pdisp' => pdisp) /\ ~pdisp'
    BY <1>2
  <1>8. connections' \cup connections = connections /\ connections' \cap connections = {}
    BY <1>2
  <1> QED
    BY <1>1, <1>2, <1>3, <1>4, <1>5, <1>6, <1>7, <1>8, StartsKept

LEMMA DestructorStartsKept ==
  ASSUME IInv, DestructorStarts
  PROVE  Kept
  <1>1. connections' = {} /\ ~gone /\ depth = 0
        /\ UNCHANGED <<pdisp, last, gone, made, sinks, next, shared>>
    BY DEF DestructorStarts, LeftBehind, object
  <1>2. \A i \in 1..depth : frames[i].op # "gc"
    BY <1>1
  <1>3. Shape([op |-> "gc", at |-> "sweep", conn |-> NoConn, pending |-> connections,
               holds |-> FALSE, failed |-> FALSE])
    BY DEF Shape
  <1>4. "gc" \in Ops /\ "sweep" \in Places /\ connections \in SUBSET Conn
        /\ NoConn \in Points \X (0..MaxCookie) \cup {NoConn}
    BY Parts DEF Ops, Places
  <1>5. Starts("gc", "sweep", NoConn, connections, FALSE)
    BY DEF DestructorStarts
  <1>6. connections' \cup connections = connections /\ connections' \cap connections = {}
        /\ pdisp' \in BOOLEAN
    BY <1>1, Parts
  <1> QED
    BY <1>1, <1>2, <1>3, <1>4, <1>5, <1>6, Parts, StartsKept

LEMMA SweepsKept ==
  ASSUME IInv, NEW record \in Conn, NEW failed \in BOOLEAN, Sweeps(record, failed)
  PROVE  Kept
  <1> DEFINE f == [Top EXCEPT !.pending = @ \ {record}, !.failed = @ \/ failed]
  <1>1. depth > 0 /\ Top \in Frame /\ Shape(Top) /\ Top.op \in {"releaseAll", "gc"}
        /\ Top.at = "sweep" /\ record \in Top.pending
    BY Parts, TopShape DEF Sweeps, Sweeping, Waiting
  <1>2. InHand(Top) = Top.pending /\ Top.pending \in SUBSET Conn /\ Top.failed \in BOOLEAN
    BY <1>1 DEF InHand, Frame
  <1>3. f \in Frame
    BY <1>1, <1>2 DEF Frame, Places
  <1>4. f.op = Top.op /\ f.holds = Top.holds /\ f.at = "sweep"
        /\ f.pending = Top.pending \ {record} /\ f.conn = Top.conn
        /\ f.failed = (Top.failed \/ failed)
    BY <1>1, <1>2 DEF Frame
  <1>5. Continues(f) /\ UNCHANGED <<pdisp, last, gone, made, next, shared>>
    BY DEF Sweeps, Unadvise
  <1>6. connections' = connections \cup (IF failed THEN {record} ELSE {})
        /\ sinks' = (IF failed THEN sinks ELSE sinks \ {record})
    BY DEF Sweeps, Unadvise, Retained
  <1> HIDE DEF f
  <1>7. Shape(f)
    BY <1>1, <1>4 DEF Shape
  <1>8. InHand(f) = Top.pending \ {record}
    BY <1>4 DEF InHand
  <1>9. InHand(Top) \cap connections = {}
    <2>1. depth \in 1..depth
      BY <1>1, TopShape, Parts
    <2> QED
      BY <2>1, Parts DEF StackInv, OneOwner, Top
  <1>10. Granted' = Granted
    BY <1>5 DEF Granted
  <1>11. /\ connections' \cup InHand(f) \subseteq connections \cup InHand(Top)
         /\ connections' \cap InHand(f) = {}
         /\ connections' \cup f.pending \subseteq connections \cup InHand(Top)
         /\ connections' \in SUBSET Conn /\ sinks' \in SUBSET Conn
    BY <1>1, <1>2, <1>4, <1>6, <1>8, <1>9, Parts
  <1>12. sinks' \subseteq connections' \cup InHand(f) \cup (sinks \ (connections \cup InHand(Top)))
    BY <1>1, <1>2, <1>6, <1>8
  <1>13. Top.op = "releaseAll" =>
           Top.pending # {} /\ (~f.failed => ~Top.failed /\ connections' = connections)
    BY <1>1, <1>4, <1>6
  <1> QED
    BY <1>1, <1>3, <1>4, <1>5, <1>7, <1>10, <1>11, <1>12, <1>13, Parts, StaysKept

LEMMA ReleaseAllReturnsKept ==
  ASSUME IInv, ReleaseAllReturns
  PROVE  Kept
  <1>1. depth > 0 /\ Top.at = "sweep" /\ Top.pending = {}
    BY DEF ReleaseAllReturns, Waiting
  <1>2. InHand(Top) = {}
    BY <1>1 DEF InHand
  <1> QED
    BY <1>1, <1>2, ReturnsKept DEF ReleaseAllReturns

\* The wrapper's end: nothing is in progress any more.
LEMMA DestroyedKept ==
  ASSUME IInv, Destroyed
  PROVE  Kept
  <1>1. depth > 0 /\ Top.op = "gc" /\ Returns /\ gone' = TRUE /\ pdisp' = FALSE
        /\ connections' = {} /\ UNCHANGED <<last, made, sinks, next, shared>>
    BY DEF Destroyed, Waiting, object
  <1>2. depth \in 1..depth
    BY <1>1, TopShape, Parts
  <1>3. depth = 1
    BY <1>1, <1>2, Parts DEF StackInv, GcAlone, Top
  <1>4. depth' = 0 /\ depth' \in 0..MaxDepth /\ frames' \in [Depths -> Frame]
    BY <1>1, <1>3, ReturnsMoves, Parts DEF TypeInv
  <1>5. \A i \in 1..depth' : FALSE
    BY <1>4
  <1>6. Granted' = Granted
    BY <1>1 DEF Granted
  <1>7. Shapes' /\ OneOwner' /\ SweepSeals'
    BY <1>5 DEF Shapes, OneOwner, SweepSeals
  <1>8. GrantedOnly' /\ Tracked' /\ GcAlone'
    BY <1>1, <1>4, <1>5, <1>6, Parts DEF StackInv, GrantedOnly, Tracked, GcAlone
  <1>9. Held' => Held
    BY <1>1, <1>5 DEF Held
  <1>10. LastIsNewest'
    BY <1>1, Parts DEF LastIsNewest
  <1> QED
    BY <1>1, <1>4, <1>7, <1>8, <1>9, <1>10, Parts DEF Kept, StackInv

LEMMA OthersReleaseKept ==
  ASSUME IInv, OthersRelease
  PROVE  Kept
  <1>1. shared' = FALSE /\ UNCHANGED <<pdisp, connections, last, gone, made, depth, frames, sinks, next>>
    BY DEF OthersRelease, wrapper
  <1>2. Shapes' /\ SweepSeals' /\ GcAlone'
    BY <1>1, Parts DEF StackInv, Shapes, Shape, SweepSeals, GcAlone
  <1>5. GrantedOnly' /\ OneOwner'
    <2>1. Granted' = Granted
      BY <1>1 DEF Granted
    <2>2. GrantedOnly /\ OneOwner
      BY Parts DEF StackInv
    <2>3. GrantedOnly'
      BY <1>1, <2>1, <2>2 DEF GrantedOnly, InHand
    <2>4. OneOwner'
      BY <1>1, <2>2 DEF OneOwner, InHand
    <2> QED
      BY <2>3, <2>4
  <1>3. Tracked'
    BY <1>1, Parts DEF StackInv, Tracked, Owned, InHand
  <1>4. (Held' => Held) /\ LastIsNewest'
    BY <1>1, Parts DEF Held, LastIsNewest
  <1> QED
    BY <1>1, <1>2, <1>3, <1>4, <1>5, Parts DEF Kept, StackInv, TypeInv, TypeOK

-----------------------------------------------------------------------------
(* The invariant holds.                                                    *)

LEMMA NextKept ==
  ASSUME IInv, Next
  PROVE  Kept
  <1>1. CASE Add
    BY <1>1, AddStartsKept, AddFindsNothingKept, AddFindsPointKept, AdviseStoresKept,
       AdviseFailsKept, AddRegistersKept, AddTakesBackKept, AddTakenBackKept DEF Add
  <1>2. CASE ReleaseConnection
    BY <1>2, LegacyStartsKept, ExplicitStartsKept, ExplicitFindsNothingKept,
       ExplicitDetachesKept, CancelledKept DEF ReleaseConnection
  <1>3. CASE ReleaseAll
    BY <1>3, ReleaseAllStartsKept, DestructorStartsKept, SweepsKept, ReleaseAllReturnsKept,
       DestroyedKept DEF ReleaseAll
  <1> QED
    BY <1>1, <1>2, <1>3, CallStartsKept, CallReturnsKept, OthersReleaseKept DEF Next

LEMMA InitIInv == Init => IInv
  <1> SUFFICES ASSUME Init PROVE IInv
    OBVIOUS
  <1>1. \A i \in 1..depth : FALSE
    BY DEF Init
  <1>2. GrantedOnly /\ OneOwner /\ SweepSeals
    BY <1>1 DEF Init, GrantedOnly, OneOwner, SweepSeals
  <1>3. Tracked /\ GcAlone /\ DeadIsUnheld /\ LastIsNewest
    BY <1>1 DEF Init, Tracked, GcAlone, DeadIsUnheld, LastIsNewest
  <1> QED
    BY <1>2, <1>3, InitTypeInv DEF IInv

\* Every step decides whether the object lives on.
LEMMA NextLives == Next => ObjectLives
  <1>1. Add => ObjectLives
    BY DEF Add, AddStarts, AddFindsNothing, AddFindsPoint, AdviseStores, AdviseFails,
       AddRegisters, AddTakesBack, AddTakenBack
  <1>2. ReleaseConnection => ObjectLives
    BY DEF ReleaseConnection, LegacyStarts, ExplicitStarts, ExplicitFindsNothing,
       ExplicitDetaches, Cancelled
  <1>3. ReleaseAll => ObjectLives
    BY DEF ReleaseAll, ReleaseAllStarts, DestructorStarts, Sweeps, ReleaseAllReturns, Destroyed
  <1> QED
    BY <1>1, <1>2, <1>3 DEF Next, CallStarts, CallReturns, OthersRelease

LEMMA NextIInv == IInv /\ [Next]_vars => IInv'
  <1> SUFFICES ASSUME IInv, [Next]_vars PROVE IInv'
    OBVIOUS
  <1>1. CASE Next
    <2>1. Kept
      BY <1>1, NextKept
    <2>2. alive \in BOOLEAN /\ alive' = (alive /\ (shared' \/ Held'))
      BY <1>1, NextLives DEF ObjectLives, IInv, TypeInv, TypeOK
    <2>3. TypeOK'
      BY <2>1, <2>2, Zenon DEF Kept, TypeOK
    <2>4. DeadIsUnheld'
      BY <2>1, <2>2 DEF Kept, IInv, DeadIsUnheld
    <2> QED
      BY <2>1, <2>3, <2>4 DEF Kept, StackInv, IInv, TypeInv
  <1>2. CASE UNCHANGED vars
    <2>1. UNCHANGED <<pdisp, connections, last, gone, made, depth, frames, sinks, next,
                      shared, alive>>
      BY <1>2 DEF vars, wrapper, object
    <2>2. TypeInv' /\ GrantedOnly' /\ OneOwner' /\ GcAlone' /\ SweepSeals'
      BY <2>1 DEF IInv, TypeInv, TypeOK, Shapes, Shape, GrantedOnly, Granted, OneOwner, GcAlone,
                  SweepSeals, InHand
    <2>3. Tracked'
      BY <2>1 DEF IInv, Tracked, Owned, InHand
    <2>4. DeadIsUnheld' /\ LastIsNewest'
      BY <2>1 DEF IInv, DeadIsUnheld, Held, LastIsNewest
    <2> QED
      BY <2>2, <2>3, <2>4 DEF IInv
  <1> QED
    BY <1>1, <1>2

LEMMA Inductive == Spec => []IInv
  BY InitIInv, NextIInv, PTL DEF Spec

\* Every variable keeps its type in every reachable state.
THEOREM TypeCorrect == Spec => []TypeOK
  <1>1. IInv => TypeOK
    BY DEF IInv, TypeInv
  <1> QED
    BY <1>1, Inductive, PTL

\* While the wrapper exists, no live subscription escapes the list and the
\* operations in progress: tLuaCOM's splice-out, Unadvise, splice-back
\* discipline loses nothing, however callbacks nest and whatever fails.
THEOREM TrackedAlways == Spec => []Tracked
  <1>1. IInv => Tracked
    BY DEF IInv
  <1> QED
    BY <1>1, Inductive, PTL

\* A record is in the list or in the hands of one operation, never of two.
THEOREM OneOwnerAlways == Spec => []OneOwner
  <1>1. IInv => OneOwner
    BY DEF IInv
  <1> QED
    BY <1>1, Inductive, PTL

\* The object outlives every operation that is waiting for its answer: the
\* active_dispatch copies, the released_dispatch of releaseComObject and the
\* detached records keep it alive.
THEOREM AliveAlways == Spec => []AliveDuringCallback
  <1>1. IInv => AliveDuringCallback
    <2> SUFFICES ASSUME IInv, NEW i \in 1..depth,
                        frames[i].at = "sweep" => frames[i].pending # {}
                 PROVE  alive
      BY DEF AliveDuringCallback
    <2>1. frames[i] \in Frame /\ Shape(frames[i])
      BY ConnectionsAssumption DEF IInv, TypeInv, TypeOK, Shapes, Depths
    <2>2. frames[i].holds \/ frames[i].pending # {}
      BY <2>1 DEF Shape, Frame, Ops
    <2>3. Held
      BY <2>2 DEF Held
    <2> QED
      BY <2>3 DEF IInv, DeadIsUnheld
  <1> QED
    BY <1>1, Inductive, PTL

\* When releaseComObject returns without an error, no subscription is live
\* but those in the hands of the operations it interrupted.
THEOREM CleanReleaseAlways == Spec => []CleanReleaseLeavesNothing
  <1>1. IInv => CleanReleaseLeavesNothing
    <2> SUFFICES ASSUME IInv, Waiting("releaseAll", "sweep"), Top.pending = {}, ~Top.failed,
                        NEW r \in sinks
                 PROVE  r \in UNION {InHand(frames[i]) : i \in 1..(depth - 1)}
      BY DEF CleanReleaseLeavesNothing
    <2>1. depth \in 1..MaxDepth /\ depth \in 1..depth /\ depth \in Nat
      BY TopShape, Parts, ConnectionsAssumption DEF Waiting
    <2>2. ~pdisp /\ connections = {}
      BY <2>1 DEF IInv, SweepSeals, Waiting, Top
    <2>3. ~gone
      BY <2>1 DEF IInv, GcAlone
    <2>4. PICK i \in 1..depth : r \in InHand(frames[i])
      BY <2>2, <2>3, OwnedIs DEF IInv, Tracked
    <2>5. InHand(frames[depth]) = {}
      BY DEF InHand, Waiting, Top
    <2>6. i \in 1..(depth - 1)
      BY <2>1, <2>4, <2>5
    <2> QED
      BY <2>4, <2>6
  <1> QED
    BY <1>1, Inductive, PTL

-----------------------------------------------------------------------------
(* What the legacy overload takes out of the list.                         *)

LEMMA StartsOp ==
  ASSUME IInv, NEW op, NEW at, NEW conn, NEW pending, NEW holds,
         Starts(op, at, conn, pending, holds)
  PROVE  depth' = depth + 1 /\ frames'[depth'].op = op /\ frames'[depth'].pending = pending
  <1>1. depth + 1 \in Depths
    BY ConnectionsAssumption DEF Starts, IInv, TypeInv, TypeOK, Depths
  <1> QED
    BY <1>1 DEF Starts, IInv, TypeInv, TypeOK

\* Only a start makes the stack longer, and only LegacyStarts starts the
\* legacy overload.
LEMMA LegacyStep ==
  ASSUME IInv, Next, depth' > depth, frames'[depth'].op = "legacy"
  PROVE  LegacyStarts
  <1>0. depth \in Nat
    BY ConnectionsAssumption DEF IInv, TypeInv, TypeOK
  <1>1. ASSUME Returns \/ (\E f : Continues(f)) \/ UNCHANGED depth PROVE FALSE
    BY <1>0, <1>1 DEF Returns, Continues
  <1> DEFINE Grows == ~(Returns \/ (\E f : Continues(f)) \/ UNCHANGED depth)
  <1>2. Grows
    BY <1>1
  <1> HIDE DEF Grows
  <1>3. CASE Add
    <2>1. CASE \E p \in Points : AddStarts(p)
      <3>1. PICK p \in Points : AddStarts(p)
        BY <2>1
      <3>2. Starts("add", "find", <<p, 0>>, {}, ActiveDispatch)
        BY <3>1 DEF AddStarts
      <3> QED
        BY <3>2, StartsOp
    <2>2. CASE AddFindsNothing \/ AddFindsPoint \/ AdviseFails \/ AddRegisters \/ AddTakesBack
      BY <1>2, <2>2 DEF Grows, AddFindsNothing, AddFindsPoint, AdviseFails, AddRegisters,
         AddTakesBack
    <2>3. CASE AdviseStores
      BY <1>2, <2>3 DEF Grows, AdviseStores
    <2>4. CASE \E failed \in BOOLEAN : AddTakenBack(failed)
      BY <1>2, <2>4 DEF Grows, AddTakenBack
    <2> QED
      BY <1>3, <2>1, <2>2, <2>3, <2>4 DEF Add
  <1>4. CASE ReleaseConnection
    <2>1. CASE \E i \in 1..Len(made) : ExplicitStarts(made[i])
      <3>1. PICK i \in 1..Len(made) : ExplicitStarts(made[i])
        BY <2>1
      <3>2. Starts("explicit", "find", made[i], {}, ActiveDispatch)
        BY <3>1 DEF ExplicitStarts
      <3> QED
        BY <3>2, StartsOp
    <2>2. CASE ExplicitFindsNothing \/ ExplicitDetaches
      BY <1>2, <2>2 DEF Grows, ExplicitFindsNothing, ExplicitDetaches
    <2>3. CASE \E failed \in BOOLEAN : Cancelled(failed)
      BY <1>2, <2>3 DEF Grows, Cancelled
    <2> QED
      BY <1>4, <2>1, <2>2, <2>3 DEF ReleaseConnection
  <1>5. CASE ReleaseAll
    <2>1. CASE ReleaseAllStarts
      <3>1. Starts("releaseAll", "sweep", NoConn, connections, ReleasedDispatch)
        BY <2>1 DEF ReleaseAllStarts
      <3> QED
        BY <3>1, StartsOp
    <2>2. CASE DestructorStarts
      <3>1. Starts("gc", "sweep", NoConn, connections, FALSE)
        BY <2>2 DEF DestructorStarts
      <3>2. frames'[depth'].op = "gc"
        BY <3>1, StartsOp
      <3> QED
        BY <3>2
    <2>3. CASE \E record \in Conn, failed \in BOOLEAN : Sweeps(record, failed)
      BY <1>2, <2>3 DEF Grows, Sweeps
    <2>4. CASE ReleaseAllReturns \/ Destroyed
      BY <1>2, <2>4 DEF Grows, ReleaseAllReturns, Destroyed
    <2> QED
      BY <1>5, <2>1, <2>2, <2>3, <2>4 DEF ReleaseAll
  <1>6. CASE CallStarts
    <2>1. Starts("call", "invoke", NoConn, {}, ActiveDispatch)
      BY <1>6 DEF CallStarts
    <2> QED
      BY <2>1, StartsOp
  <1>7. CASE CallReturns \/ OthersRelease
    BY <1>2, <1>7 DEF Grows, CallReturns, OthersRelease
  <1> QED
    BY <1>3, <1>4, <1>5, <1>6, <1>7 DEF Next

\* releaseConnection(obj) only ever takes the newest connection made.
THEOREM LegacyNewest == Spec => LegacyTargetsNewest
  <1> DEFINE A == depth' > depth /\ frames'[depth'].op = "legacy"
                    => made # <<>> /\ frames'[depth'].pending = {made[Len(made)]}
  <1>1. IInv /\ [Next]_vars => [A]_vars
    <2> SUFFICES ASSUME IInv, Next, depth' > depth, frames'[depth'].op = "legacy"
                 PROVE  made # <<>> /\ frames'[depth'].pending = {made[Len(made)]}
      OBVIOUS
    <2>1. LegacyStarts
      BY LegacyStep
    <2>2. PICK record \in LegacyTarget : Starts("legacy", "cancel", record, {record}, FALSE)
      BY <2>1 DEF LegacyStarts
    <2>3. frames'[depth'].pending = {record}
      BY <2>2, StartsOp
    <2>4. record = last /\ record \in Conn
      BY Parts DEF LegacyTarget
    <2> QED
      BY <2>3, <2>4, NoConnIs DEF IInv, LastIsNewest
  <1> QED
    BY <1>1, Inductive, PTL DEF Spec, LegacyTargetsNewest

-----------------------------------------------------------------------------
(* The wrapper implements the promise of Subscriptions.                    *)

\* What the operations under the one on top have in hand.
Others == UNION {InHand(frames[i]) : i \in 1..(depth - 1)}

\* The subscriptions the wrapper answers for, seen from the top.
LEMMA OwnedByParts ==
  ASSUME IInv, depth > 0
  PROVE  /\ Owned = connections \cup InHand(Top) \cup Others
         /\ Others \cap (connections \cup InHand(Top)) = {}
  <1>1. depth \in Nat \ {0} /\ depth \in 1..depth
    BY TopShape, ConnectionsAssumption DEF IInv, TypeInv, TypeOK
  <1>2. \A i \in 1..depth : i = depth \/ i \in 1..(depth - 1)
    BY <1>1
  <1>3. \A i \in 1..(depth - 1) : i \in 1..depth /\ i # depth
    BY <1>1
  <1>4. Owned \subseteq connections \cup InHand(Top) \cup Others
    BY <1>2 DEF Owned, Others, Top
  <1>5. connections \cup InHand(Top) \cup Others \subseteq Owned
    BY <1>1, <1>3 DEF Owned, Others, Top
  <1>6. Others \cap (connections \cup InHand(Top)) = {}
    BY <1>1, <1>3 DEF IInv, OneOwner, Others, Top
  <1> QED
    BY <1>4, <1>5, <1>6

\* A start moves records from the list into the hands of the new operation.
LEMMA PushMaps ==
  ASSUME IInv, NEW op, NEW at, NEW conn, NEW pending, NEW holds,
         Starts(op, at, conn, pending, holds), at \notin {"advise", "advised"},
         connections' \cup pending = connections
  PROVE  Owned' = Owned /\ Asking' = Asking
  <1> DEFINE f == [op |-> op, at |-> at, conn |-> conn, pending |-> pending,
                   holds |-> holds, failed |-> FALSE]
  <1>1. depth \in Nat /\ depth + 1 \in Depths /\ frames \in [Depths -> Frame]
    BY ConnectionsAssumption DEF Starts, IInv, TypeInv, TypeOK, Depths
  <1>2. depth' = depth + 1 /\ frames' = [frames EXCEPT ![depth + 1] = f]
    BY DEF Starts
  <1>3. f.at = at /\ InHand(f) = pending
    BY DEF InHand
  <1> HIDE DEF f
  <1>4. frames'[depth'] = f /\ \A i \in 1..depth : frames'[i] = frames[i]
    BY <1>1, <1>2 DEF Depths
  <1>5. \A i : i \in 1..depth' <=> i \in 1..depth \/ i = depth'
    BY <1>1, <1>2
  <1>6. Asking' = Asking
    BY <1>3, <1>4, <1>5 DEF Asking
  <1>7. \A r : r \in Owned' <=> r \in Owned
    <2> TAKE r
    <2>1. r \in Owned' <=> r \in connections' \/ r \in InHand(f)
                              \/ \E i \in 1..depth : r \in InHand(frames[i])
      BY <1>4, <1>5, OwnedIsAfter
    <2> QED
      BY <1>3, <2>1, OwnedIs
  <1> QED
    BY <1>6, <1>7

\* What the operation on top answers for after it has gone on.
LEMMA StayMaps ==
  ASSUME IInv, depth > 0, NEW f \in Frame, Continues(f)
  PROVE  /\ Owned' = connections' \cup InHand(f) \cup Others
         /\ Asking' = (Asking \ {depth}) \cup (IF f.at = "advise" THEN {depth} ELSE {})
  <1>1. /\ depth' = depth /\ depth \in Nat \ {0} /\ depth \in 1..depth
        /\ frames'[depth] = f /\ \A i \in 1..depth : i # depth => frames'[i] = frames[i]
    BY ContinuesMoves, ConnectionsAssumption DEF IInv, TypeInv, TypeOK
  <1>2. \A i : i \in 1..depth <=> i \in 1..(depth - 1) \/ i = depth
    BY <1>1
  <1>3. depth \notin 1..(depth - 1)
    BY <1>1
  <1>4. Asking' = (Asking \ {depth}) \cup (IF f.at = "advise" THEN {depth} ELSE {})
    BY <1>1 DEF Asking
  <1>5. \A r : r \in Owned' <=> r \in connections' \cup InHand(f) \cup Others
    <2> TAKE r
    <2>1. r \in Owned' <=> r \in connections' \/ r \in InHand(f)
                              \/ \E i \in 1..(depth - 1) : r \in InHand(frames[i])
      BY <1>1, <1>2, <1>3, OwnedIsAfter
    <2> QED
      BY <2>1 DEF Others
  <1> QED
    BY <1>4, <1>5

\* What is answered for after the operation on top has returned.
LEMMA PopMaps ==
  ASSUME IInv, depth > 0, Returns
  PROVE  Owned' = connections' \cup Others /\ Asking' = Asking \ {depth}
  <1>1. /\ depth' = depth - 1 /\ depth \in Nat \ {0}
        /\ \A i \in 1..(depth - 1) : frames'[i] = frames[i]
    BY ReturnsMoves, ConnectionsAssumption DEF IInv, TypeInv, TypeOK
  <1>2. \A i : i \in 1..(depth - 1) <=> i \in 1..depth /\ i # depth
    BY <1>1
  <1>3. Asking' = Asking \ {depth}
    BY <1>1, <1>2 DEF Asking
  <1>4. \A r : r \in Owned' <=> r \in connections' \cup Others
    BY <1>1, OwnedIsAfter DEF Others
  <1> QED
    BY <1>3, <1>4

\* Whether the operation on top is asking.
LEMMA TopAsks ==
  ASSUME IInv, depth > 0
  PROVE  /\ depth \in Depths /\ ~gone
         /\ depth \in Asking <=> Top.at = "advise"
         /\ Top \in Frame /\ Shape(Top)
  <1>1. depth \in Depths /\ depth \in 1..depth
    BY ConnectionsAssumption DEF IInv, TypeInv, TypeOK, Depths
  <1> QED
    BY <1>1, TopShape DEF IInv, GcAlone, Asking, Top

\* What the operation on top has in hand, nobody else answers for.
LEMMA TakenOnce ==
  ASSUME IInv, depth > 0
  PROVE  InHand(Top) \cap connections = {}
  BY TopShape, ConnectionsAssumption DEF IInv, TypeInv, TypeOK, OneOwner, Top

\* What a step of the wrapper is to its promise: a step of it, or nothing.
Keeps == Promise!Next \/ UNCHANGED Promise!vars

LEMMA Stutters ==
  ASSUME sinks' = sinks, Owned' = Owned, Asking' = Asking, pdisp' = pdisp, gone' = gone
  PROVE  Keeps
  BY DEF Keeps, Promise!vars

\* An Unadvise that is answered takes its subscription from the object, and
\* from the wrapper's books if it was there: Cancel.
LEMMA Cancels ==
  ASSUME NEW r \in Conn, sinks' = sinks \ {r}, Owned' = Owned \/ Owned' = Owned \ {r},
         Asking' = Asking, pdisp' = pdisp, gone' = gone
  PROVE  Keeps
  <1>1. Promise!Cancel(r)
    BY DEF Promise!Cancel
  <1> QED
    BY <1>1 DEF Keeps, Promise!Next

LEMMA AddMaps == ASSUME IInv, Add PROVE Keeps
  <1>1. ASSUME NEW p \in Points, AddStarts(p) PROVE Keeps
    <2>1. Starts("add", "find", <<p, 0>>, {}, ActiveDispatch)
      BY <1>1 DEF AddStarts
    <2>2. UNCHANGED <<connections, sinks, pdisp, gone>>
      BY <1>1 DEF AddStarts, wrapper, object
    <2>3. Owned' = Owned /\ Asking' = Asking
      BY <2>1, <2>2, PushMaps
    <2> QED
      BY <2>2, <2>3, Stutters
  <1>2. CASE AddFindsNothing
    <2>1. depth > 0 /\ Top.at = "find" /\ Top.op = "add" /\ Returns
      BY <1>2 DEF AddFindsNothing, Waiting
    <2>2. UNCHANGED <<connections, sinks, pdisp, gone>>
      BY <1>2 DEF AddFindsNothing, wrapper, object
    <2>3. InHand(Top) = {}
      BY <2>1, TopAsks DEF InHand, Shape
    <2>4. Owned' = Owned /\ Asking' = Asking
      BY <2>1, <2>2, <2>3, OwnedByParts, PopMaps, TopAsks
    <2> QED
      BY <2>2, <2>4, Stutters
  <1>3. CASE AddFindsPoint
    <2>1. depth > 0 /\ Top.at = "find" /\ Top.op = "add"
      BY <1>3 DEF AddFindsPoint, Waiting
    <2>2. UNCHANGED <<connections, sinks, pdisp, gone>>
      BY <1>3 DEF AddFindsPoint, wrapper, object
    <2>3. InHand(Top) = {} /\ depth \notin Asking /\ Top.pending = {}
      BY <2>1, TopAsks DEF InHand, Shape
    <2>4. CASE ~pdisp
      <3>1. Returns
        BY <1>3, <2>4 DEF AddFindsPoint, AddGoesOn
      <3>2. Owned' = Owned /\ Asking' = Asking
        BY <2>1, <2>2, <2>3, <3>1, OwnedByParts, PopMaps
      <3> QED
        BY <2>2, <3>2, Stutters
    <2>5. CASE pdisp
      <3> DEFINE f == [Top EXCEPT !.at = "advise"]
      <3>1. Continues(f)
        BY <1>3, <2>5 DEF AddFindsPoint, AddGoesOn
      <3>2. f \in Frame /\ f.at = "advise" /\ InHand(f) = {}
        BY <2>1, <2>3, TopAsks DEF Frame, Places, InHand
      <3> HIDE DEF f
      <3>3. Owned' = Owned /\ Asking' = Asking \cup {depth}
        BY <2>1, <2>2, <2>3, <3>1, <3>2, OwnedByParts, StayMaps
      <3>4. Promise!Ask(depth)
        BY <2>1, <2>2, <2>3, <2>5, <3>3, TopAsks DEF Promise!Ask
      <3> QED
        BY <2>1, <3>4, TopAsks DEF Keeps, Promise!Next
    <2> QED
      BY <2>4, <2>5
  <1>4. CASE AdviseStores
    <2> DEFINE p == Top.conn[1]
               n == <<p, next[p]>>
               f == [Top EXCEPT !.at = "advised", !.conn = n]
    <2>1. depth > 0 /\ Top.at = "advise" /\ Top.op = "add"
      BY <1>4 DEF AdviseStores, Waiting
    <2>2. UNCHANGED <<connections, pdisp, gone>> /\ sinks' = sinks \cup {n} /\ Continues(f)
      BY <1>4 DEF AdviseStores, wrapper
    <2>3. p \in Points /\ next[p] \in 1..MaxCookie
      BY <1>4, <2>1, TopAsks, ConnectionsAssumption
         DEF AdviseStores, Shape, IInv, TypeInv, TypeOK
    <2>4. n \in Conn /\ n \notin Granted
      BY <2>3 DEF Conn, Granted
    <2>5. n \notin Owned \cup sinks
      BY <2>4 DEF Owned, IInv, GrantedOnly
    <2>6. n \in Points \X (0..MaxCookie) \cup {NoConn}
      BY <2>3
    <2>7. InHand(Top) = {} /\ Top.pending = {}
      BY <2>1, TopAsks DEF InHand, Shape
    <2> HIDE DEF n
    <2>8. f \in Frame /\ f.at = "advised" /\ InHand(f) = {n}
      BY <2>1, <2>6, <2>7, TopAsks DEF Frame, Places, InHand
    <2> HIDE DEF f
    <2>9. Owned' = Owned \cup {n} /\ Asking' = Asking \ {depth}
      BY <2>1, <2>2, <2>7, <2>8, OwnedByParts, StayMaps
    <2>10. Promise!Grant(depth, n)
      BY <2>1, <2>2, <2>5, <2>9, TopAsks DEF Promise!Grant
    <2> QED
      BY <2>1, <2>4, <2>10, TopAsks DEF Keeps, Promise!Next
  <1>5. CASE AdviseFails
    <2>1. depth > 0 /\ Top.at = "advise" /\ Top.op = "add" /\ Returns
      BY <1>5 DEF AdviseFails, Waiting
    <2>2. UNCHANGED <<connections, sinks, pdisp, gone>>
      BY <1>5 DEF AdviseFails, wrapper, object
    <2>3. InHand(Top) = {}
      BY <2>1, TopAsks DEF InHand, Shape
    <2>4. Owned' = Owned /\ Asking' = Asking \ {depth}
      BY <2>1, <2>2, <2>3, OwnedByParts, PopMaps
    <2>5. Promise!Refuse(depth)
      BY <2>2, <2>4 DEF Promise!Refuse
    <2> QED
      BY <2>1, <2>5, TopAsks DEF Keeps, Promise!Next
  <1>6. CASE AddRegisters
    <2>1. depth > 0 /\ Top.at = "advised" /\ Top.op = "add" /\ Returns
      BY <1>6 DEF AddRegisters, Waiting
    <2>2. UNCHANGED <<sinks, pdisp, gone>> /\ connections' = connections \cup {Top.conn}
      BY <1>6 DEF AddRegisters, Register, object
    <2>3. InHand(Top) = {Top.conn}
      BY <2>1, TopAsks DEF InHand, Shape
    <2>4. Owned' = Owned /\ Asking' = Asking
      BY <2>1, <2>2, <2>3, OwnedByParts, PopMaps, TopAsks
    <2> QED
      BY <2>2, <2>4, Stutters
  <1>7. CASE AddTakesBack
    <2> DEFINE f == [Top EXCEPT !.at = "undo", !.pending = {Top.conn}]
    <2>1. depth > 0 /\ Top.at = "advised" /\ Top.op = "add" /\ Continues(f)
      BY <1>7 DEF AddTakesBack, Waiting
    <2>2. UNCHANGED <<connections, sinks, pdisp, gone>>
      BY <1>7 DEF AddTakesBack, wrapper, object
    <2>3. InHand(Top) = {Top.conn} /\ Top.conn \in Conn
      BY <2>1, TopAsks DEF InHand, Shape
    <2>4. f \in Frame /\ f.at = "undo" /\ InHand(f) = {Top.conn}
      BY <2>1, <2>3, TopAsks DEF Frame, Places, InHand
    <2> HIDE DEF f
    <2>5. Owned' = Owned /\ Asking' = Asking
      BY <2>1, <2>2, <2>3, <2>4, OwnedByParts, StayMaps, TopAsks
    <2> QED
      BY <2>2, <2>5, Stutters
  <1>8. ASSUME NEW failed \in BOOLEAN, AddTakenBack(failed) PROVE Keeps
    <2>1. depth > 0 /\ Top.at = "undo" /\ Top.op = "add" /\ Returns
      BY <1>8 DEF AddTakenBack, Waiting
    <2>2. /\ UNCHANGED <<pdisp, gone>>
          /\ sinks' = IF failed THEN sinks ELSE sinks \ {Top.conn}
          /\ connections' = connections \cup (IF failed THEN Top.pending ELSE {})
      BY <1>8 DEF AddTakenBack, Unadvise, Retained
    <2>3. InHand(Top) = {Top.conn} /\ Top.pending = {Top.conn} /\ Top.conn \in Conn
      BY <2>1, TopAsks DEF InHand, Shape
    <2>4. Asking' = Asking /\ Owned' = connections' \cup Others
      BY <2>1, PopMaps, TopAsks
    <2>5. CASE failed
      <3>1. Owned' = Owned
        BY <2>1, <2>2, <2>3, <2>4, <2>5, OwnedByParts
      <3> QED
        BY <2>2, <2>4, <2>5, <3>1, Stutters
    <2>6. CASE ~failed
      <3>1. Owned' = Owned \ {Top.conn}
        BY <2>1, <2>2, <2>3, <2>4, <2>6, OwnedByParts, TakenOnce
      <3> QED
        BY <2>2, <2>3, <2>4, <2>6, <3>1, Cancels
    <2> QED
      BY <2>5, <2>6
  <1> QED
    BY <1>1, <1>2, <1>3, <1>4, <1>5, <1>6, <1>7, <1>8 DEF Add

LEMMA ReleaseConnectionMaps == ASSUME IInv, ReleaseConnection PROVE Keeps
  <1>1. CASE LegacyStarts
    <2> DEFINE holds == FALSE
    <2>1. PICK record \in LegacyTarget :
            /\ Starts("legacy", "cancel", record, {record}, holds)
            /\ connections' = connections \ {record}
      BY <1>1 DEF LegacyStarts
    <2> HIDE DEF holds
    <2>2. UNCHANGED <<sinks, pdisp, gone>>
      BY <1>1 DEF LegacyStarts, object
    <2>3. connections' \cup {record} = connections
      BY <2>1 DEF LegacyTarget
    <2>4. Owned' = Owned /\ Asking' = Asking
      BY <2>1, <2>3, PushMaps
    <2> QED
      BY <2>2, <2>4, Stutters
  <1>2. ASSUME NEW record, ExplicitStarts(record) PROVE Keeps
    <2>1. Starts("explicit", "find", record, {}, ActiveDispatch)
      BY <1>2 DEF ExplicitStarts
    <2>2. UNCHANGED <<connections, sinks, pdisp, gone>>
      BY <1>2 DEF ExplicitStarts, wrapper, object
    <2>3. Owned' = Owned /\ Asking' = Asking
      BY <2>1, <2>2, PushMaps
    <2> QED
      BY <2>2, <2>3, Stutters
  <1>3. CASE ExplicitFindsNothing
    <2>1. depth > 0 /\ Top.at = "find" /\ Top.op = "explicit" /\ Returns
      BY <1>3 DEF ExplicitFindsNothing, Waiting
    <2>2. UNCHANGED <<connections, sinks, pdisp, gone>>
      BY <1>3 DEF ExplicitFindsNothing, wrapper, object
    <2>3. InHand(Top) = {}
      BY <2>1, TopAsks DEF InHand, Shape
    <2>4. Owned' = Owned /\ Asking' = Asking
      BY <2>1, <2>2, <2>3, OwnedByParts, PopMaps, TopAsks
    <2> QED
      BY <2>2, <2>4, Stutters
  <1>4. CASE ExplicitDetaches
    <2> DEFINE f == [Top EXCEPT !.at = "cancel", !.pending = {Top.conn} \cap connections]
    <2>1. depth > 0 /\ Top.at = "find" /\ Top.op = "explicit" /\ Continues(f)
      BY <1>4 DEF ExplicitDetaches, Waiting
    <2>2. UNCHANGED <<sinks, pdisp, gone>> /\ connections' = connections \ {Top.conn}
      BY <1>4 DEF ExplicitDetaches, object
    <2>3. InHand(Top) = {} /\ Top.conn \in Conn
      BY <2>1, TopAsks DEF InHand, Shape
    <2>4. f \in Frame /\ f.at = "cancel" /\ InHand(f) = {Top.conn} \cap connections
      BY <2>1, <2>3, TopAsks DEF Frame, Places, InHand
    <2> HIDE DEF f
    <2>5. Owned = connections \cup Others
      BY <2>1, <2>3, OwnedByParts
    <2>6. /\ Owned' = connections' \cup InHand(f) \cup Others
          /\ Asking' = (Asking \ {depth}) \cup (IF f.at = "advise" THEN {depth} ELSE {})
      BY <2>1, <2>4, StayMaps
    <2>7. Asking' = Asking
      BY <2>1, <2>4, <2>6, TopAsks
    <2>8. connections' \cup InHand(f) = connections
      BY <2>2, <2>4
    <2>9. Owned' = Owned
      BY <2>5, <2>6, <2>8
    <2> QED
      BY <2>2, <2>7, <2>9, Stutters
  <1>5. ASSUME NEW failed \in BOOLEAN, Cancelled(failed) PROVE Keeps
    <2>1. depth > 0 /\ Top.at = "cancel" /\ Top.op \in {"legacy", "explicit"} /\ Returns
      BY <1>5 DEF Cancelled, Waiting
    <2>2. /\ UNCHANGED <<pdisp, gone>>
          /\ sinks' = IF failed THEN sinks ELSE sinks \ {Top.conn}
          /\ connections' = connections \cup (IF failed THEN Top.pending ELSE {})
      BY <1>5 DEF Cancelled, Unadvise, Retained
    <2>3. InHand(Top) = Top.pending /\ Top.pending \subseteq {Top.conn} /\ Top.conn \in Conn
      BY <2>1, TopAsks DEF InHand, Shape
    <2>4. Asking' = Asking /\ Owned' = connections' \cup Others
      BY <2>1, PopMaps, TopAsks
    <2>5. CASE failed
      <3>1. Owned' = Owned
        BY <2>1, <2>2, <2>3, <2>4, <2>5, OwnedByParts
      <3> QED
        BY <2>2, <2>4, <2>5, <3>1, Stutters
    <2>6. CASE ~failed
      <3>1. Owned' = Owned \/ Owned' = Owned \ {Top.conn}
        BY <2>1, <2>2, <2>3, <2>4, <2>6, OwnedByParts, TakenOnce
      <3> QED
        BY <2>2, <2>3, <2>4, <2>6, <3>1, Cancels
    <2> QED
      BY <2>5, <2>6
  <1> QED
    BY <1>1, <1>2, <1>3, <1>4, <1>5 DEF ReleaseConnection

LEMMA ReleaseAllMaps == ASSUME IInv, ReleaseAll PROVE Keeps
  <1>1. CASE ReleaseAllStarts
    <2>1. Starts("releaseAll", "sweep", NoConn, connections, ReleasedDispatch)
      BY <1>1 DEF ReleaseAllStarts
    <2>2. UNCHANGED <<sinks, gone>> /\ pdisp' = FALSE /\ connections' = {}
      BY <1>1 DEF ReleaseAllStarts, LeftBehind, object
    <2>3. Owned' = Owned /\ Asking' = Asking
      BY <2>1, <2>2, PushMaps
    <2>4. Promise!Release
      BY <2>2, <2>3 DEF Promise!Release
    <2> QED
      BY <2>4 DEF Keeps, Promise!Next
  <1>2. CASE DestructorStarts
    <2> DEFINE holds == FALSE
    <2>1. Starts("gc", "sweep", NoConn, connections, holds)
      BY <1>2 DEF DestructorStarts
    <2> HIDE DEF holds
    <2>2. UNCHANGED <<sinks, pdisp, gone>> /\ connections' = {}
      BY <1>2 DEF DestructorStarts, LeftBehind, object
    <2>3. Owned' = Owned /\ Asking' = Asking
      BY <2>1, <2>2, PushMaps
    <2> QED
      BY <2>2, <2>3, Stutters
  <1>3. ASSUME NEW record \in Conn, NEW failed \in BOOLEAN, Sweeps(record, failed) PROVE Keeps
    <2> DEFINE f == [Top EXCEPT !.pending = @ \ {record}, !.failed = @ \/ failed]
    <2>1. /\ depth > 0 /\ Top.at = "sweep" /\ Continues(f)
          /\ record \in Top.pending
      BY <1>3 DEF Sweeps, Sweeping, Waiting
    <2>2. /\ UNCHANGED <<pdisp, gone>>
          /\ sinks' = IF failed THEN sinks ELSE sinks \ {record}
          /\ connections' = connections \cup (IF failed THEN {record} ELSE {})
      BY <1>3 DEF Sweeps, Unadvise, Retained
    <2>3. InHand(Top) = Top.pending
      BY <2>1 DEF InHand
    <2>4. f \in Frame /\ f.at = "sweep" /\ InHand(f) = Top.pending \ {record}
      BY <2>1, TopAsks DEF Frame, InHand
    <2> HIDE DEF f
    <2>5. Asking' = Asking /\ Owned' = connections' \cup InHand(f) \cup Others
      BY <2>1, <2>4, StayMaps, TopAsks
    <2>6. CASE failed
      <3>1. Owned' = Owned
        BY <2>1, <2>2, <2>3, <2>4, <2>5, <2>6, OwnedByParts
      <3> QED
        BY <2>2, <2>5, <2>6, <3>1, Stutters
    <2>7. CASE ~failed
      <3>1. Owned' = Owned \ {record}
        BY <2>1, <2>2, <2>3, <2>4, <2>5, <2>7, OwnedByParts, TakenOnce
      <3> QED
        BY <2>2, <2>5, <2>7, <3>1, Cancels
    <2> QED
      BY <2>6, <2>7
  <1>4. CASE ReleaseAllReturns
    <2>1. depth > 0 /\ Top.at = "sweep" /\ Top.pending = {} /\ Returns
      BY <1>4 DEF ReleaseAllReturns, Waiting
    <2>2. UNCHANGED <<connections, sinks, pdisp, gone>>
      BY <1>4 DEF ReleaseAllReturns, wrapper, object
    <2>3. InHand(Top) = {}
      BY <2>1 DEF InHand
    <2>4. Owned' = Owned /\ Asking' = Asking
      BY <2>1, <2>2, <2>3, OwnedByParts, PopMaps, TopAsks
    <2> QED
      BY <2>2, <2>4, Stutters
  <1>5. CASE Destroyed
    <2>1. depth > 0 /\ Top.at = "sweep" /\ Top.op = "gc" /\ Returns
      BY <1>5 DEF Destroyed, Waiting
    <2>2. sinks' = sinks /\ gone' = TRUE /\ pdisp' = FALSE /\ connections' = {}
      BY <1>5 DEF Destroyed, object
    <2>3. depth = 1
      BY <2>1, TopShape, ConnectionsAssumption
         DEF IInv, TypeInv, TypeOK, GcAlone, Top
    <2>4. Others = {} /\ Asking = {}
      BY <2>1, <2>3 DEF Others, Asking, Top
    <2>5. Owned' = {} /\ Asking' = {}
      BY <2>1, <2>2, <2>4, PopMaps
    <2>6. Promise!End
      BY <2>2, <2>4, <2>5 DEF Promise!End
    <2> QED
      BY <2>6 DEF Keeps, Promise!Next
  <1> QED
    BY <1>1, <1>2, <1>3, <1>4, <1>5 DEF ReleaseAll

LEMMA OtherMaps == ASSUME IInv, CallStarts \/ CallReturns \/ OthersRelease PROVE Keeps
  <1>1. UNCHANGED <<connections, sinks, pdisp, gone>>
    BY DEF CallStarts, CallReturns, OthersRelease, wrapper, object
  <1>2. CASE CallStarts
    <2>1. Starts("call", "invoke", NoConn, {}, ActiveDispatch)
      BY <1>2 DEF CallStarts
    <2>2. Owned' = Owned /\ Asking' = Asking
      BY <1>1, <2>1, PushMaps
    <2> QED
      BY <1>1, <2>2, Stutters
  <1>3. CASE CallReturns
    <2>1. depth > 0 /\ Top.at = "invoke" /\ Top.op = "call" /\ Returns
      BY <1>3 DEF CallReturns, Waiting
    <2>2. InHand(Top) = {}
      BY <2>1, TopAsks DEF InHand, Shape
    <2>3. Owned' = Owned /\ Asking' = Asking
      BY <1>1, <2>1, <2>2, OwnedByParts, PopMaps, TopAsks
    <2> QED
      BY <1>1, <2>3, Stutters
  <1>4. CASE OthersRelease
    <2>1. Owned' = Owned /\ Asking' = Asking
      BY <1>4 DEF OthersRelease, wrapper, Owned, InHand, Asking
    <2> QED
      BY <1>1, <2>1, Stutters
  <1> QED
    BY <1>2, <1>3, <1>4

\* The wrapper's list and its stack of operations implement Subscriptions:
\* what it answers for starts with the grant and ends with the Unadvise, and
\* never with an error path in between; a released wrapper asks for nothing.
THEOREM KeepsPromise == Spec => ImplementsPromise
  <1>1. Init => Promise!Init
    <2> SUFFICES ASSUME Init PROVE Promise!Init
      OBVIOUS
    <2>1. \A i \in 1..depth : FALSE
      BY DEF Init
    <2> QED
      BY <2>1 DEF Init, Promise!Init, Owned, Asking
  <1>2. IInv /\ [Next]_vars => [Promise!Next]_(Promise!vars)
    <2> SUFFICES ASSUME IInv, [Next]_vars PROVE Keeps
      BY DEF Keeps
    <2>1. CASE Next
      BY <2>1, AddMaps, ReleaseConnectionMaps, ReleaseAllMaps, OtherMaps DEF Next
    <2>2. CASE UNCHANGED vars
      <3>1. Owned' = Owned /\ Asking' = Asking
        BY <2>2 DEF vars, wrapper, Owned, InHand, Asking
      <3> QED
        BY <2>2, <3>1, Stutters DEF vars, wrapper, object
    <2> QED
      BY <2>1, <2>2
  <1> QED
    BY <1>1, <1>2, Inductive, PTL DEF Spec, ImplementsPromise, Promise!Spec

=============================================================================
