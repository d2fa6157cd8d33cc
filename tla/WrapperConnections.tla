-------------------------- MODULE WrapperConnections --------------------------
(***************************************************************************)
(* The event subscriptions a client wrapper (class tLuaCOM) makes on the   *)
(* connection points of the COM object it wraps: addConnection, the two    *)
(* releaseConnection overloads, releaseConnections, releaseComObject, the  *)
(* destructor, and call, which only matters here for the reference it      *)
(* holds.                                                                  *)
(*                                                                         *)
(* Everything runs on one thread, but every call LuaCOM makes into the     *)
(* object may call back into Lua before it answers, and the script may     *)
(* then call any operation of the same wrapper.  So the state holds a      *)
(* stack of operations in progress: an operation is cut at each call into  *)
(* the object, only the operation on top may go on, and any operation may  *)
(* start on top of it.                                                     *)
(*                                                                         *)
(* A subscription is named <<point, cookie>>.  The object hands out        *)
(* cookies in order, separately at each point, and keeps itself alive      *)
(* while one of its points is referenced, as LuaCOM's own connection       *)
(* points and the substitutes of test/connection_lifetime do.  The records *)
(* of the std::list "connections" form a set here: the list's order only   *)
(* says which subscription is cancelled first, which is left open.         *)
(***************************************************************************)
EXTENDS Integers, Sequences, FiniteSets

CONSTANTS
  Points,     \* the connection points (source interfaces) of the object
  MaxCookie,  \* bound: subscriptions one point ever grants
  MaxGrants,  \* bound: subscriptions the object ever grants
  MaxDepth,   \* bound: operations in progress at once
  NoConn      \* "no subscription"

Conn == Points \X (1..MaxCookie)

ASSUME ConnectionsAssumption ==
  /\ Points # {}
  /\ MaxCookie \in Nat \ {0}
  /\ MaxGrants \in Nat
  /\ MaxDepth \in Nat \ {0}
  /\ NoConn \notin Points \X Nat

VARIABLES
  pdisp,        \* the wrapper still owns its reference to the object
  connections,  \* the records of tLuaCOM::connections
  last,         \* last_connection_interface and last_connection_cookie
  depth,        \* how many operations are in progress
  frames,       \* what each of them has done so far
  gone,         \* the wrapper has been destroyed
  sinks,        \* the object's side: the subscriptions it delivers events to
  next,         \* the object's side: the next cookie of each point
  shared,       \* somebody else keeps a reference to the object
  alive,        \* the object's reference count has never reached zero
  made          \* history: the subscriptions addConnection returned, in order

wrapper == <<pdisp, connections, last, gone, made>>
object == <<sinks, next, shared>>
vars == <<wrapper, depth, frames, object, alive>>

-----------------------------------------------------------------------------
(* Operations in progress.                                                 *)

\* What an operation is waiting for: the answer of QueryInterface or
\* FindConnectionPoint, of Advise (before and after the object has stored
\* the sink), of the Unadvise that takes back a subscription made on a
\* wrapper released meanwhile, of an Unadvise, of those of
\* releaseConnections, or of Invoke.
Places == {"find", "advise", "advised", "undo", "cancel", "sweep", "invoke"}

Ops == {"add", "legacy", "explicit", "releaseAll", "gc", "call"}

\* conn: the subscription (or, before it exists, the point) it is about;
\* pending: the records it has taken out of "connections"; holds: its own
\* reference to the object; failed: an Unadvise of its loop has failed.
Frame ==
  [op : Ops, at : Places, conn : Points \X (0..MaxCookie) \cup {NoConn},
   pending : SUBSET Conn, holds : BOOLEAN, failed : BOOLEAN]

Idle == [op |-> "call", at |-> "invoke", conn |-> NoConn, pending |-> {},
         holds |-> FALSE, failed |-> FALSE]

Depths == 1..MaxDepth

Top == frames[depth]

Starts(op, at, conn, pending, holds) ==
  /\ depth < MaxDepth
  /\ depth' = depth + 1
  /\ frames' = [frames EXCEPT ![depth + 1] =
       [op |-> op, at |-> at, conn |-> conn, pending |-> pending,
        holds |-> holds, failed |-> FALSE]]

Continues(frame) ==
  /\ frames' = [frames EXCEPT ![depth] = frame]
  /\ UNCHANGED depth

Returns ==
  /\ frames' = [frames EXCEPT ![depth] = Idle]
  /\ depth' = depth - 1

Waiting(op, at) == depth > 0 /\ Top.op = op /\ Top.at = at

\* A script reaches the wrapper from the top level, or from a callback of
\* the call in progress; nothing reaches it while it is being destroyed.
Reachable == ~gone /\ (depth > 0 => Top.op # "gc")

-----------------------------------------------------------------------------
(* The records.  Some operators below come with the form a plausible       *)
(* mistake would give them, stated before the operator itself; only the    *)
(* sensitivity checks of the properties use those (README, "Mutants").     *)

\* What a failed Unadvise leaves for a retry: the records it was about.
RetainedForgets(failed, records) == {}
Retained(failed, records) == IF failed THEN records ELSE {}

\* releaseConnections takes every record out of the list before it calls
\* the first Unadvise.
LeftBehindAll == connections
LeftBehind == {}

\* The reference an operation takes for as long as it calls the object.
ActiveDispatchNone == FALSE
ActiveDispatch == pdisp

\* The reference releaseComObject detaches, and keeps until it returns.
ReleasedDispatch == pdisp

\* The record the legacy overload looks for.
LegacyTargetAny == connections
LegacyTarget == {last} \cap connections

\* The record of addConnection, once Advise has answered.
RegisterUnnumbered(record) ==
  /\ connections' = connections \cup {<<record[1], 0>>}
  /\ last' = record
  /\ made' = Append(made, record)
Register(record) ==
  /\ connections' = connections \cup {record}
  /\ last' = record
  /\ made' = Append(made, record)

-----------------------------------------------------------------------------
(* The object's side.                                                      *)

\* Unadvise: a failure (E_FAIL, or CONNECT_E_NOCONNECTION for a cookie that
\* is not connected) changes nothing.
Unadvise(record, failed) ==
  /\ failed \/ record \in sinks
  /\ sinks' = IF failed THEN sinks ELSE sinks \ {record}
  /\ UNCHANGED <<next, shared>>

\* LuaCOM's own references to the object: the wrapper's, those of the
\* operations in progress, and one through the point of each record.
Held ==
  \/ pdisp
  \/ connections # {}
  \/ \E i \in 1..depth : frames[i].holds \/ frames[i].pending # {}

\* The object dies when the last reference to it goes.
ObjectLives == alive' = (alive /\ (shared' \/ Held'))

Granted == {record \in Conn : record[2] < next[record[1]]}

\* Advise stores the sink before it answers, and may call back either way.
AdviseStores ==
  /\ Waiting("add", "advise")
  /\ LET p == Top.conn[1] IN
       /\ next[p] <= MaxCookie
       /\ Cardinality(Granted) < MaxGrants
       /\ sinks' = sinks \cup {<<p, next[p]>>}
       /\ next' = [next EXCEPT ![p] = @ + 1]
       /\ Continues([Top EXCEPT !.at = "advised", !.conn = <<p, next[p]>>])
  /\ UNCHANGED <<wrapper, shared>>
  /\ ObjectLives

\* The object's other owners let go of it.
OthersRelease ==
  /\ shared
  /\ shared' = FALSE
  /\ UNCHANGED <<wrapper, depth, frames, sinks, next>>
  /\ ObjectLives

-----------------------------------------------------------------------------
(* addConnection.                                                          *)

\* checkComObject has thrown unless the wrapper still owns the object.
AddStarts(p) ==
  /\ Reachable
  /\ pdisp
  /\ Starts("add", "find", <<p, 0>>, {}, ActiveDispatch)
  /\ UNCHANGED <<wrapper, object>>
  /\ ObjectLives

\* QueryInterface or FindConnectionPoint fails: addConnection returns 0.
AddFindsNothing ==
  /\ Waiting("add", "find")
  /\ Returns
  /\ UNCHANGED <<wrapper, object>>
  /\ ObjectLives

\* The point is found; a second checkComObject throws if a callback has
\* released the wrapper meanwhile.
AddGoesOnUnchecked == TRUE
AddGoesOn == pdisp

AddFindsPoint ==
  /\ Waiting("add", "find")
  /\ IF AddGoesOn THEN Continues([Top EXCEPT !.at = "advise"]) ELSE Returns
  /\ UNCHANGED <<wrapper, object>>
  /\ ObjectLives

\* Advise fails, or succeeds with the cookie 0, which names no connection.
AdviseFails ==
  /\ Waiting("add", "advise")
  /\ Returns
  /\ UNCHANGED <<wrapper, object>>
  /\ ObjectLives

\* Advise has succeeded and the wrapper still owns the object.
AddRegisters ==
  /\ Waiting("add", "advised")
  /\ pdisp
  /\ Register(Top.conn)
  /\ Returns
  /\ UNCHANGED <<pdisp, gone, object>>
  /\ ObjectLives

\* A callback released the wrapper while Advise was running.
AddTakesBack ==
  /\ Waiting("add", "advised")
  /\ ~pdisp
  /\ Continues([Top EXCEPT !.at = "undo", !.pending = {Top.conn}])
  /\ UNCHANGED <<wrapper, object>>
  /\ ObjectLives

AddTakenBack(failed) ==
  /\ Waiting("add", "undo")
  /\ Unadvise(Top.conn, failed)
  /\ connections' = connections \cup Retained(failed, Top.pending)
  /\ Returns
  /\ UNCHANGED <<pdisp, last, gone, made>>
  /\ ObjectLives

-----------------------------------------------------------------------------
(* The two releaseConnection overloads.                                    *)

\* releaseConnection(obj): takes out the record of the last connection made,
\* if it is still there.
LegacyStarts ==
  /\ Reachable
  /\ LegacyTarget # {}
  /\ \E record \in LegacyTarget :
       /\ Starts("legacy", "cancel", record, {record}, FALSE)
       /\ connections' = connections \ {record}
  /\ UNCHANGED <<pdisp, last, gone, made, object>>
  /\ ObjectLives

\* releaseConnection(obj, server, cookie), with any cookie addConnection has
\* returned, however long ago.
ExplicitStarts(record) ==
  /\ Reachable
  /\ pdisp
  /\ Starts("explicit", "find", record, {}, ActiveDispatch)
  /\ UNCHANGED <<wrapper, object>>
  /\ ObjectLives

ExplicitFindsNothing ==
  /\ Waiting("explicit", "find")
  /\ Returns
  /\ UNCHANGED <<wrapper, object>>
  /\ ObjectLives

\* The matching record, if there is one, is detached; Unadvise is called
\* either way.
ExplicitDetaches ==
  /\ Waiting("explicit", "find")
  /\ Continues([Top EXCEPT !.at = "cancel", !.pending = {Top.conn} \cap connections])
  /\ connections' = connections \ {Top.conn}
  /\ UNCHANGED <<pdisp, last, gone, made, object>>
  /\ ObjectLives

\* Unadvise answers either overload.
Cancelled(failed) ==
  /\ Waiting("legacy", "cancel") \/ Waiting("explicit", "cancel")
  /\ Unadvise(Top.conn, failed)
  /\ connections' = connections \cup Retained(failed, Top.pending)
  /\ Returns
  /\ UNCHANGED <<pdisp, last, gone, made>>
  /\ ObjectLives

-----------------------------------------------------------------------------
(* releaseConnections, for releaseComObject and for the destructor.        *)

ReleaseAllStarts ==
  /\ Reachable
  /\ Starts("releaseAll", "sweep", NoConn, connections, ReleasedDispatch)
  /\ pdisp' = FALSE
  /\ connections' = LeftBehind
  /\ UNCHANGED <<last, gone, made, object>>
  /\ ObjectLives

\* The garbage collector finds the wrapper unreachable: no operation of it
\* is in progress.
DestructorStarts ==
  /\ ~gone
  /\ depth = 0
  /\ Starts("gc", "sweep", NoConn, connections, FALSE)
  /\ connections' = LeftBehind
  /\ UNCHANGED <<pdisp, last, gone, made, object>>
  /\ ObjectLives

Sweeping == Waiting("releaseAll", "sweep") \/ Waiting("gc", "sweep")

\* One round of the loop: a failed record goes back to the list.
Sweeps(record, failed) ==
  /\ Sweeping
  /\ record \in Top.pending
  /\ Unadvise(record, failed)
  /\ connections' = connections \cup Retained(failed, {record})
  /\ Continues([Top EXCEPT !.pending = @ \ {record}, !.failed = @ \/ failed])
  /\ UNCHANGED <<pdisp, last, gone, made>>
  /\ ObjectLives

ReleaseAllReturns ==
  /\ Waiting("releaseAll", "sweep")
  /\ Top.pending = {}
  /\ Returns
  /\ UNCHANGED <<wrapper, object>>
  /\ ObjectLives

\* The members go with the wrapper, the records of failed cleanups too.
Destroyed ==
  /\ Waiting("gc", "sweep")
  /\ Top.pending = {}
  /\ Returns
  /\ gone' = TRUE
  /\ pdisp' = FALSE
  /\ connections' = {}
  /\ UNCHANGED <<last, made, object>>
  /\ ObjectLives

-----------------------------------------------------------------------------
(* call: Invoke on the object, with a reference held by the call context.  *)

CallStarts ==
  /\ Reachable
  /\ pdisp
  /\ Starts("call", "invoke", NoConn, {}, ActiveDispatch)
  /\ UNCHANGED <<wrapper, object>>
  /\ ObjectLives

CallReturns ==
  /\ Waiting("call", "invoke")
  /\ Returns
  /\ UNCHANGED <<wrapper, object>>
  /\ ObjectLives

-----------------------------------------------------------------------------
(* The specification.                                                      *)

Init ==
  /\ pdisp = TRUE
  /\ connections = {}
  /\ last = NoConn
  /\ depth = 0
  /\ frames = [i \in Depths |-> Idle]
  /\ gone = FALSE
  /\ sinks = {}
  /\ next = [p \in Points |-> 1]
  /\ shared = TRUE
  /\ alive = TRUE
  /\ made = <<>>

Add ==
  \/ \E p \in Points : AddStarts(p)
  \/ AddFindsNothing \/ AddFindsPoint
  \/ AdviseStores \/ AdviseFails
  \/ AddRegisters \/ AddTakesBack
  \/ \E failed \in BOOLEAN : AddTakenBack(failed)

ReleaseConnection ==
  \/ LegacyStarts
  \/ \E i \in 1..Len(made) : ExplicitStarts(made[i])
  \/ ExplicitFindsNothing \/ ExplicitDetaches
  \/ \E failed \in BOOLEAN : Cancelled(failed)

ReleaseAll ==
  \/ ReleaseAllStarts \/ DestructorStarts
  \/ \E record \in Conn, failed \in BOOLEAN : Sweeps(record, failed)
  \/ ReleaseAllReturns \/ Destroyed

Next ==
  \/ Add \/ ReleaseConnection \/ ReleaseAll
  \/ CallStarts \/ CallReturns
  \/ OthersRelease

Spec == Init /\ [][Next]_vars

-----------------------------------------------------------------------------
(* Properties.                                                             *)

\* Every variable keeps its type.
TypeOK ==
  /\ pdisp \in BOOLEAN
  /\ connections \in SUBSET Conn
  /\ last \in Conn \cup {NoConn}
  /\ depth \in 0..MaxDepth
  /\ frames \in [Depths -> Frame]
  /\ gone \in BOOLEAN
  /\ sinks \in SUBSET Conn
  /\ next \in [Points -> 1..(MaxCookie + 1)]
  /\ shared \in BOOLEAN
  /\ alive \in BOOLEAN
  /\ made \in Seq(Conn)

\* The subscriptions an operation in progress answers for.
InHand(frame) ==
  frame.pending \cup (IF frame.at = "advised" THEN {frame.conn} ELSE {})

Owned == connections \cup UNION {InHand(frames[i]) : i \in 1..depth}

\* "tracks event subscriptions" (README): while the wrapper exists, every
\* subscription the object still delivers events to is in the list or in the
\* hands of an operation in progress, so that some later release can end it,
\* whatever callbacks did during Advise and Unadvise and whichever failed.
Tracked == ~gone => sinks \subseteq Owned

\* A subscription has one owner: no two operations in progress, nor one and
\* the list, will both call Unadvise for it.  (An explicit release names its
\* cookie, and so may still do it for a record somebody else holds.)
OneOwner ==
  \A i \in 1..depth :
    /\ InHand(frames[i]) \cap connections = {}
    /\ \A j \in 1..depth : i # j => InHand(frames[i]) \cap InHand(frames[j]) = {}

\* "LuaCOM keeps COM objects alive during callbacks" (README): as long as an
\* operation is waiting for the object to answer, the object exists, though
\* a callback may have released the wrapper and everybody else has let go.
AliveDuringCallback ==
  \A i \in 1..depth :
    (frames[i].at = "sweep" => frames[i].pending # {}) => alive

\* When releaseComObject is about to return without an error, the object
\* delivers events to nothing but what operations under it, which it
\* interrupted, still have in hand and will themselves give up.
CleanReleaseLeavesNothing ==
  Waiting("releaseAll", "sweep") /\ Top.pending = {} /\ ~Top.failed
    => sinks \subseteq UNION {InHand(frames[i]) : i \in 1..(depth - 1)}

\* "releaseConnection(obj) releases only the last connection made" (README):
\* when the legacy overload takes a record out of the list, no connection
\* was made after that one, however operations nested before.
LegacyTargetsNewest ==
  [][ depth' > depth /\ frames'[depth'].op = "legacy"
        => made # <<>> /\ frames'[depth'].pending = {made[Len(made)]} ]_vars

-----------------------------------------------------------------------------
(* What the wrapper promises, free of its list and its stack.              *)

Asking == {i \in 1..depth : frames[i].at = "advise"}

Promise == INSTANCE Subscriptions WITH
  Names <- Conn, Askers <- Depths,
  live <- sinks, owned <- Owned, asks <- Asking, open <- pdisp, ended <- gone

\* The wrapper implements the promise: it never forgets a live subscription
\* before its end, and asks for none once it is released.
ImplementsPromise == Promise!Spec

=============================================================================
