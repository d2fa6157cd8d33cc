------------------------------- MODULE ConnPoint -------------------------------
(***************************************************************************)
(* A connection point of a Lua object exposed to COM (tLuaCOMConnPoint):   *)
(* the sinks its clients register with Advise and withdraw with Unadvise,  *)
(* and the loop that delivers an event to them (l_call_sinks).             *)
(*                                                                         *)
(* The three parallel vectors mConnections, mCookies and mSinks are one    *)
(* sequence of slots.  An entry of mConnections is set and cleared with    *)
(* its cookie, and the sink's wrapper keeps another reference to the same  *)
(* client, so it needs no field of its own.  A sink is a tLuaCOM wrapper   *)
(* and lives while its lock count is positive; it has the name of the      *)
(* cookie it was created for.  Each table that LuaBeans::push makes holds  *)
(* one lock, until the Lua collector finds the table.                      *)
(*                                                                         *)
(* One thread runs all of it, but a client may call back out of a call     *)
(* made to it.  Callbacks says out of which: its QueryInterface ("query"), *)
(* the call of its event method ("event"), the release of its last         *)
(* reference ("unlock"), or finalizers that Lua runs while LuaCOM makes    *)
(* and indexes a sink's table ("push", "lookup").                          *)
(***************************************************************************)
EXTENDS Integers, Sequences, FiniteSets

CONSTANTS
  MaxAdvises,  \* bound: cookies the point ever hands out
  MaxTables,   \* bound: uncollected Lua tables for one sink
  MaxDepth,    \* bound: operations in progress at once
  Callbacks    \* the places at which clients call back

Cookies == 1..MaxAdvises

ASSUME ConnPointAssumption ==
  /\ MaxAdvises \in Nat \ {0}
  /\ MaxTables \in Nat \ {0}
  /\ MaxDepth \in Nat \ {0}
  /\ Callbacks \subseteq {"query", "push", "lookup", "event", "unlock"}

VARIABLES
  slots,       \* mCookies and mSinks; 0 is no cookie, and NULL
  mNextCookie,
  locks,       \* tLuaCOM::lock_count of each sink
  tables,      \* Lua tables that refer to each sink
  depth,       \* how many operations are in progress
  frames,      \* what each of them has done so far
  crashed,     \* a NULL sink has been used
  closed,      \* the point has been destroyed
  granted      \* history: cookies returned by Advise and not yet withdrawn

sinks == <<locks, tables>>
stack == <<depth, frames>>
vars == <<slots, mNextCookie, sinks, stack, crashed, closed, granted>>

-----------------------------------------------------------------------------
(* Operations in progress.                                                 *)

Places == {"query", "next", "push", "lookup", "event", "unlock"}

\* slot, sink: where an Unadvise or the delivery loop is, and the sink it
\* took there; due: the cookies granted when the event was fired; called:
\* the sinks it has been delivered to.
Frame ==
  [at : Places, slot : 0..MaxAdvises, sink : 0..MaxAdvises,
   due : SUBSET Cookies, called : SUBSET Cookies]

Idle == [at |-> "next", slot |-> 0, sink |-> 0, due |-> {}, called |-> {}]

Depths == 1..MaxDepth

Top == frames[depth]

Starts(frame) ==
  /\ depth < MaxDepth
  /\ depth' = depth + 1
  /\ frames' = [frames EXCEPT ![depth + 1] = frame]

Continues(frame) ==
  /\ frames' = [frames EXCEPT ![depth] = frame]
  /\ UNCHANGED depth

Returns ==
  /\ frames' = [frames EXCEPT ![depth] = Idle]
  /\ depth' = depth - 1

Waiting(at) == ~crashed /\ depth > 0 /\ Top.at = at

\* A client or the script reaches the point from the top level, or from a
\* callback.  Withdrawing a sink calls the client only if it ends the sink.
CallsBack ==
  /\ Top.at \in Callbacks
  /\ Top.at = "unlock" => locks[Top.sink] = 0

Reachable == ~closed /\ ~crashed /\ (depth > 0 => CallsBack)

-----------------------------------------------------------------------------
(* The slots.  (Forms a mistake would give an operator precede it here and *)
(* below; only the sensitivity checks use them.)                           *)

Least(S) == CHOOSE i \in S : \A j \in S : i <= j

\* Advise takes the first slot without a cookie, or appends one.
FreeSlotFirst == IF slots = <<>> THEN 1 ELSE Least(1..Len(slots))
FreeSlot == Least({i \in 1..Len(slots) : slots[i].cookie = 0} \cup {Len(slots) + 1})

\* The delivery loop's next slot: it skips those without a cookie or sink.
FollowingRestarts(i) ==
  {j \in 1..Len(slots) : slots[j].cookie # 0 /\ slots[j].sink # 0}
FollowingSkips(i) ==
  {j \in (i + 2)..Len(slots) : slots[j].cookie # 0 /\ slots[j].sink # 0}
Following(i) ==
  {j \in (i + 1)..Len(slots) : slots[j].cookie # 0 /\ slots[j].sink # 0}

\* The locks of a table that LuaBeans::push makes.
TableLocksNone == 0
TableLocks == 1

\* The lock the slot has given up is Unadvise's to release.
UnadviseUnlocksNot(n) == n
UnadviseUnlocksTwice(n) == n - 2
UnadviseUnlocks(n) == n - 1

-----------------------------------------------------------------------------
(* Advise.                                                                 *)

AdviseStarts ==
  /\ Reachable
  /\ Starts([Idle EXCEPT !.at = "query"])
  /\ UNCHANGED <<slots, mNextCookie, sinks, crashed, closed, granted>>

\* The client has no IDispatch, or the sink cannot be created.
AdviseFails ==
  /\ Waiting("query")
  /\ Returns
  /\ UNCHANGED <<slots, mNextCookie, sinks, crashed, closed, granted>>

\* CreateLuaCOM, and the commit of all parallel state.
AdviseStores ==
  /\ Waiting("query")
  /\ mNextCookie <= MaxAdvises
  /\ LET slot == [cookie |-> mNextCookie, sink |-> mNextCookie] IN
       slots' = IF FreeSlot > Len(slots) THEN Append(slots, slot)
                                         ELSE [slots EXCEPT ![FreeSlot] = slot]
  /\ locks' = [locks EXCEPT ![mNextCookie] = 1]
  /\ granted' = granted \cup {mNextCookie}
  /\ mNextCookie' = mNextCookie + 1
  /\ Returns
  /\ UNCHANGED <<tables, crashed, closed>>

-----------------------------------------------------------------------------
(* Unadvise.  A cookie that is not in the table changes nothing.           *)

\* Unlock may delete the sink, which releases the client.
UnadviseStarts(i) ==
  /\ Reachable
  /\ slots[i].cookie # 0
  /\ Starts([Idle EXCEPT !.at = "unlock", !.slot = i, !.sink = slots[i].sink])
  /\ slots' = [slots EXCEPT ![i].cookie = 0]
  /\ locks' = [w \in Cookies |->
       IF w = slots[i].sink THEN UnadviseUnlocks(locks[w]) ELSE locks[w]]
  /\ granted' = granted \ {slots[i].cookie}
  /\ UNCHANGED <<mNextCookie, tables, crashed, closed>>

\* Back in Unadvise: mSinks[pos] = NULL.
UnadviseReturns ==
  /\ Waiting("unlock")
  /\ slots' = [slots EXCEPT ![Top.slot].sink = 0]
  /\ Returns
  /\ UNCHANGED <<mNextCookie, sinks, crashed, closed, granted>>

-----------------------------------------------------------------------------
(* l_call_sinks.                                                           *)

FireStarts ==
  /\ Reachable
  /\ Starts([Idle EXCEPT !.at = "next", !.due = granted])
  /\ UNCHANGED <<slots, mNextCookie, sinks, crashed, closed, granted>>

\* The loop goes on over the vectors as they are by now.
FireVisits ==
  /\ Waiting("next")
  /\ Following(Top.slot) # {}
  /\ LET i == Least(Following(Top.slot)) IN
       Continues([Top EXCEPT !.at = "push", !.slot = i, !.sink = slots[i].sink])
  /\ UNCHANGED <<slots, mNextCookie, sinks, crashed, closed, granted>>

\* LuaBeans::push makes a table for the sink, whose lock is taken after it.
Pushes(pushed) ==
  LET locked == slots[Top.slot].sink IN
    IF locked = 0
    THEN crashed' = TRUE /\ UNCHANGED <<locks, tables>>
    ELSE /\ tables[pushed] < MaxTables
         /\ tables' = [tables EXCEPT ![pushed] = @ + 1]
         /\ locks' = [locks EXCEPT ![locked] = @ + TableLocks]
         /\ UNCHANGED crashed

FirePushes ==
  /\ Waiting("push")
  /\ Pushes(Top.sink)
  /\ Continues([Top EXCEPT !.at = "lookup"])
  /\ UNCHANGED <<slots, mNextCookie, closed, granted>>

\* The event method has been found; the sink is pushed again as its "self".
FireCalls ==
  /\ Waiting("lookup")
  /\ Pushes(slots[Top.slot].sink)
  /\ Continues([Top EXCEPT !.at = "event", !.called = @ \cup {Top.sink}])
  /\ UNCHANGED <<slots, mNextCookie, closed, granted>>

\* Looking up the event raises an error, which ends the loop.
FireFails ==
  /\ Waiting("lookup")
  /\ Returns
  /\ UNCHANGED <<slots, mNextCookie, sinks, crashed, closed, granted>>

\* The client's method returns; an error in it is ignored.
FireGoesOn ==
  /\ Waiting("event")
  /\ Continues([Top EXCEPT !.at = "next"])
  /\ UNCHANGED <<slots, mNextCookie, sinks, crashed, closed, granted>>

FireReturns ==
  /\ Waiting("next")
  /\ Following(Top.slot) = {}
  /\ Returns
  /\ UNCHANGED <<slots, mNextCookie, sinks, crashed, closed, granted>>

-----------------------------------------------------------------------------
(* The collector, and the end of the point.                                *)

\* The tables of a sink that the Lua stack still refers to.
Pinned(w) ==
  Cardinality({i \in 1..depth : frames[i].at \in {"lookup", "event"} /\ frames[i].sink = w})

\* Lua collects a table of sink w: tagmeth_gc unlocks the sink.
Collect(w) ==
  /\ ~crashed
  /\ depth > 0 => Top.at \in {"push", "lookup", "event"}
  /\ tables[w] > Pinned(w)
  /\ tables' = [tables EXCEPT ![w] = @ - 1]
  /\ locks' = [locks EXCEPT ![w] = @ - 1]
  /\ UNCHANGED <<slots, mNextCookie, stack, crashed, closed, granted>>

\* The host is released for the last time, and unlocks every sink.
Destroyed ==
  /\ ~closed /\ ~crashed
  /\ depth = 0
  /\ closed' = TRUE
  /\ slots' = <<>>
  /\ locks' = [w \in Cookies |->
       locks[w] - Cardinality({i \in 1..Len(slots) : slots[i].sink = w})]
  /\ granted' = {}
  /\ UNCHANGED <<mNextCookie, tables, stack, crashed>>

-----------------------------------------------------------------------------
Init ==
  /\ slots = <<>>
  /\ mNextCookie = 1
  /\ locks = [w \in Cookies |-> 0]
  /\ tables = [w \in Cookies |-> 0]
  /\ depth = 0
  /\ frames = [i \in Depths |-> Idle]
  /\ crashed = FALSE
  /\ closed = FALSE
  /\ granted = {}

Advise == AdviseStarts \/ AdviseFails \/ AdviseStores
Unadvise == (\E i \in 1..Len(slots) : UnadviseStarts(i)) \/ UnadviseReturns
Fire ==
  \/ FireStarts \/ FireVisits \/ FirePushes \/ FireCalls
  \/ FireFails \/ FireGoesOn \/ FireReturns

Next ==
  \/ Advise \/ Unadvise \/ Fire
  \/ \E w \in Cookies : Collect(w)
  \/ Destroyed

Spec == Init /\ [][Next]_vars

-----------------------------------------------------------------------------
(* Properties.                                                             *)

\* Every variable keeps its type.
TypeOK ==
  /\ slots \in Seq([cookie : 0..MaxAdvises, sink : 0..MaxAdvises])
  /\ Len(slots) <= MaxAdvises
  /\ mNextCookie \in 1..(MaxAdvises + 1)
  /\ locks \in [Cookies -> Nat]
  /\ tables \in [Cookies -> 0..MaxTables]
  /\ depth \in 0..MaxDepth
  /\ frames \in [Depths -> Frame]
  /\ crashed \in BOOLEAN
  /\ closed \in BOOLEAN
  /\ granted \in SUBSET Cookies

\* "holds LuaCOM objects for each sink" (tLuaCOMConnPoints.h): a slot with a
\* cookie has the sink that Advise made for this very cookie, still locked.
EachSinkHasObject ==
  \A i \in 1..Len(slots) : slots[i].cookie # 0 =>
    slots[i].sink = slots[i].cookie /\ locks[slots[i].sink] > 0

\* A client whose Advise succeeded is connected until it calls Unadvise, in
\* one slot, whatever others connect or withdraw meanwhile.
KeepsGranted ==
  \A k \in granted : Cardinality({i \in 1..Len(slots) : slots[i].cookie = k}) = 1

\* A sink has one lock for each slot and table that refers to it, so it is
\* deleted exactly when nobody refers to it, and never leaks.
LocksCounted ==
  \A w \in Cookies :
    locks[w] = tables[w] + Cardinality({i \in 1..Len(slots) :
                                          slots[i].sink = w /\ slots[i].cookie # 0})

\* A sink that is being looked up or called exists, though its client may
\* have withdrawn it from the event, and the collector may have run.
AliveDuringEvent ==
  \A i \in 1..depth : frames[i].at \in {"lookup", "event"} => locks[frames[i].sink] > 0

\* When the loop ends, every client connected since the event was fired has
\* got it, though slots were freed, reused and appended under the loop.
DeliversToAll ==
  Waiting("next") /\ Following(Top.slot) = {} => Top.due \cap granted \subseteq Top.called

\* An event goes to no client that has withdrawn, and to none twice.
DeliversOnce ==
  [][ \A i \in 1..depth : frames'[i].at = "event" /\ frames[i].at = "lookup"
        => frames[i].sink \in granted \ frames[i].called ]_vars

=============================================================================
