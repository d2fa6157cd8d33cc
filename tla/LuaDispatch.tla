------------------------------ MODULE LuaDispatch ------------------------------
(***************************************************************************)
(* Lua tables served to COM (tLuaDispatch): how long a table, the COM      *)
(* object that serves it and the Lua wrappers around that object live.     *)
(*                                                                         *)
(* A tLuaDispatch counts its references and keeps its table in the Lua     *)
(* registry; the table keeps the bare address of the last object made for  *)
(* it, under the key idxDispatch, so that lua2com can hand out the same    *)
(* object again.  An object has as owners the local pointers of the code   *)
(* that makes it, tLuaCOM wrappers, the Lua tables of connection points,   *)
(* class factories, COM clients, and a wrapper's call while it lasts.      *)
(* They come and go by what the script, the collector and clients do;      *)
(* AddRef and Release, where the code calls them, only count.              *)
(*                                                                         *)
(* One thread runs all of it.  A method of a served table is Lua code, so  *)
(* anything below may happen while it runs, other calls included.  Objects *)
(* are numbered in the order they are made and numbers are not reused.     *)
(***************************************************************************)
EXTENDS Integers, Sequences, FiniteSets

CONSTANTS
  Tables,         \* Lua tables that implement something
  MaxDispatches,  \* bound: objects ever made
  MaxRefs,        \* bound: references of one kind to one object
  MaxDepth        \* bound: calls in progress at once

ASSUME LuaDispatchAssumption ==
  /\ MaxDispatches \in Nat \ {0}
  /\ MaxRefs \in Nat \ {0}
  /\ MaxDepth \in Nat

Dispatches == 1..MaxDispatches
Holders == {"wrapper", "source", "factory", "client"}

VARIABLES
  made,        \* objects made so far
  serves,      \* the table of each object
  making,      \* the object being made, 0 if none
  locals,      \* pointers to it in its creator's frame: iluacom, lcom
  locked,      \* objects whose table_ref is in the Lua registry
  refs,        \* m_refs; an object without references has been deleted
  owners,      \* the wrappers, sources, factories and clients of each object
  idxDispatch, \* the address each table keeps, 0 if none
  reached,     \* tables the script can reach
  collected,   \* tables the Lua collector has freed
  calls,       \* Invoke calls in progress: the object and who calls it
  crashed      \* a deleted object has been used

objects == <<made, serves, making, locals>>
counts == <<locked, refs>>
luaHeap == <<idxDispatch, reached, collected>>
dvars == <<objects, counts, owners, luaHeap, calls, crashed>>

-----------------------------------------------------------------------------
(* Owners and references.  (Forms a mistake would give an operator precede *)
(* it here and below; only the sensitivity checks use them.)               *)

Live(d) == refs[d] > 0

Ready == ~crashed /\ making = 0

\* A caller needs some reference to the object it calls, passes or releases,
\* and gives up none that a call in progress depends on.
Calling(d, who) == Cardinality({i \in 1..Len(calls) : calls[i] = [obj |-> d, by |-> who]})
Spare(d) == owners[d]["client"] - Calling(d, "client")

Comes(d, who) ==
  /\ owners[d][who] < MaxRefs
  /\ owners' = [owners EXCEPT ![d][who] = @ + 1]

Goes(d, who) ==
  /\ owners[d][who] > 0
  /\ owners' = [owners EXCEPT ![d][who] = @ - 1]

AddRefNot(d) == UNCHANGED counts

AddRef(d) ==
  /\ refs' = [refs EXCEPT ![d] = @ + 1]
  /\ UNCHANGED locked

\* The last Release frees the table, and deletes the object.
Unlocked(d) == IF refs[d] = 1 THEN locked \ {d} ELSE locked

Release(d) ==
  /\ refs' = [refs EXCEPT ![d] = @ - 1]
  /\ locked' = Unlocked(d)

\* The object's own table_ref; the one its creator came with is released.
OwnRefNone(d) == {}
OwnRef(d) == {d}

\* The creator's tCOMPtr, iluacom, takes the new object over (Attach).
CreatorsRefs == 1

-----------------------------------------------------------------------------
(* ImplInterface, ImplInterfaceFromTypelib and NewObject make an object in *)
(* steps, any of which can fail.  Nothing else runs meanwhile.             *)

\* CreateLuaDispatch; its caller's tCOMPtr has the first reference.
CreateLuaDispatch(t) ==
  LET d == made + 1 IN
    /\ Ready /\ t \in reached
    /\ made < MaxDispatches
    /\ made' = d
    /\ serves' = [serves EXCEPT ![d] = t]
    /\ locked' = locked \cup OwnRef(d)
    /\ refs' = [refs EXCEPT ![d] = CreatorsRefs]
    /\ idxDispatch' = [idxDispatch EXCEPT ![t] = d]
    /\ making' = d /\ locals' = {"iluacom"}
    /\ UNCHANGED <<owners, reached, collected, calls, crashed>>

\* The tLuaCOM that is the result, at lcom.
CreateLuaCOM ==
  /\ making # 0 /\ locals = {"iluacom"}
  /\ AddRef(making)
  /\ locals' = {"iluacom", "lcom"}
  /\ UNCHANGED <<made, serves, making, owners, luaHeap, calls, crashed>>

\* iluacom goes at the end of its scope, whatever the outcome; without a
\* wrapper that is a failure.
ScopeEnds ==
  /\ making # 0 /\ "iluacom" \in locals
  /\ Release(making)
  /\ locals' = locals \ {"iluacom"}
  /\ making' = IF locals = {"iluacom"} THEN 0 ELSE making
  /\ UNCHANGED <<made, serves, owners, luaHeap, calls, crashed>>

\* Lua gets the wrapper; NewObject also gives it the default source, whose
\* table has a reference of its own.
ReturnsWrapper(sources) ==
  /\ making # 0 /\ locals = {"lcom"}
  /\ owners' = [owners EXCEPT ![making]["wrapper"] = @ + 1, ![making]["source"] = @ + sources]
  /\ IF sources = 1 THEN AddRef(making) ELSE UNCHANGED counts
  /\ making' = 0 /\ locals' = {}
  /\ UNCHANGED <<made, serves, luaHeap, calls, crashed>>

\* lcom->Unlock() deletes the wrapper, whose pdisp has a reference.
UnlockForgotten(d) == UNCHANGED counts
Unlock(d) == Release(d)

\* NewObject fails after it has made the wrapper.
CreationFails ==
  /\ making # 0 /\ locals = {"lcom"}
  /\ Unlock(making)
  /\ making' = 0 /\ locals' = {}
  /\ UNCHANGED <<made, serves, owners, luaHeap, calls, crashed>>

-----------------------------------------------------------------------------
(* What the script does with a wrapper.                                    *)

\* ReleaseComObject, or the collector finds the wrapper.
WrapperGoes(d) ==
  /\ Ready
  /\ Goes(d, "wrapper") /\ Release(d)
  /\ UNCHANGED <<objects, luaHeap, calls, crashed>>

SourceGoes(d) ==
  /\ Ready
  /\ Goes(d, "source") /\ Release(d)
  /\ UNCHANGED <<objects, luaHeap, calls, crashed>>

\* lua2com of a wrapper.
PassesWrapper(d) ==
  /\ Ready /\ owners[d]["wrapper"] > 0
  /\ Comes(d, "client") /\ AddRef(d)
  /\ UNCHANGED <<objects, luaHeap, calls, crashed>>

\* A class factory outside the DLL.
ExposeObject(d) ==
  /\ Ready /\ owners[d]["wrapper"] > 0
  /\ Comes(d, "factory") /\ AddRef(d)
  /\ UNCHANGED <<objects, luaHeap, calls, crashed>>

RevokeObject(d) ==
  /\ Ready
  /\ Goes(d, "factory") /\ Release(d)
  /\ UNCHANGED <<objects, luaHeap, calls, crashed>>

-----------------------------------------------------------------------------
(* Tables.                                                                 *)

\* lua2com of a table that keeps an object's address.
PassesTable(t) ==
  LET d == idxDispatch[t] IN
    /\ Ready /\ t \in reached /\ d # 0
    /\ \/ Live(d) /\ Comes(d, "client") /\ AddRef(d) /\ UNCHANGED crashed
       \/ ~Live(d) /\ crashed' = TRUE /\ UNCHANGED <<owners, counts>>
    /\ UNCHANGED <<objects, luaHeap, calls>>

ScriptForgets(t) ==
  /\ Ready /\ t \in reached
  /\ reached' = reached \ {t}
  /\ UNCHANGED <<objects, counts, owners, idxDispatch, collected, calls, crashed>>

\* The registry and the stack of a running method keep a table as well.
Collect(t) ==
  /\ Ready /\ t \notin reached \cup collected
  /\ \A d \in locked : serves[d] # t
  /\ \A i \in 1..Len(calls) : serves[calls[i].obj] # t
  /\ collected' = collected \cup {t}
  /\ UNCHANGED <<objects, counts, owners, idxDispatch, reached, calls, crashed>>

-----------------------------------------------------------------------------
(* COM clients.                                                            *)

CreateInstance(d) ==
  /\ Ready /\ owners[d]["factory"] > 0
  /\ Comes(d, "client") /\ AddRef(d)
  /\ UNCHANGED <<objects, luaHeap, calls, crashed>>

ClientReleases(d) ==
  /\ Ready /\ Spare(d) > 0
  /\ Goes(d, "client") /\ Release(d)
  /\ UNCHANGED <<objects, luaHeap, calls, crashed>>

\* com2lua of the object in its own Lua state: the table comes back.
ComesBack(d) ==
  /\ Ready /\ owners[d]["client"] > 0
  /\ reached' = reached \cup {serves[d]}
  /\ UNCHANGED <<objects, counts, owners, idxDispatch, collected, calls, crashed>>

\* com2lua of a proxy, in another Lua state, or GetObject: a new wrapper.
ComesWrapped(d) ==
  /\ Ready /\ owners[d]["client"] > 0
  /\ Comes(d, "wrapper") /\ AddRef(d)
  /\ UNCHANGED <<objects, luaHeap, calls, crashed>>

-----------------------------------------------------------------------------
(* Invoke: the table's method runs, and may reach the table as "self".     *)

\* A wrapper's call takes a reference of its own (CallContext).
CallersRefNone == "wrapper"
CallersRef == "call"

Invokes(d, who) ==
  /\ Ready
  /\ Len(calls) < MaxDepth
  /\ calls' = Append(calls, [obj |-> d, by |-> who])
  /\ reached' = reached \cup {serves[d]}
  /\ UNCHANGED <<objects, owners, idxDispatch, collected, crashed>>

ClientCalls(d) ==
  /\ Spare(d) > 0
  /\ Invokes(d, "client")
  /\ UNCHANGED counts

WrapperCalls(d) ==
  /\ owners[d]["wrapper"] > 0
  /\ IF CallersRef = "call" THEN AddRef(d) ELSE UNCHANGED counts
  /\ Invokes(d, CallersRef)

CallReturns ==
  /\ Ready /\ calls # <<>>
  /\ LET last == calls[Len(calls)] IN
       IF last.by = "call" THEN Release(last.obj) ELSE UNCHANGED counts
  /\ calls' = SubSeq(calls, 1, Len(calls) - 1)
  /\ UNCHANGED <<objects, owners, luaHeap, crashed>>

-----------------------------------------------------------------------------
DispatchInit ==
  /\ made = 0
  /\ making = 0 /\ locals = {}
  /\ serves \in [Dispatches -> Tables]
  /\ locked = {}
  /\ refs = [d \in Dispatches |-> 0]
  /\ owners = [d \in Dispatches |-> [w \in Holders |-> 0]]
  /\ idxDispatch = [t \in Tables |-> 0]
  /\ reached = Tables
  /\ collected = {}
  /\ calls = <<>>
  /\ crashed = FALSE

Script ==
  \/ \E t \in Tables : CreateLuaDispatch(t)
  \/ CreateLuaCOM \/ ScopeEnds \/ ReturnsWrapper(0) \/ ReturnsWrapper(1) \/ CreationFails
  \/ \E t \in Tables : PassesTable(t) \/ ScriptForgets(t) \/ Collect(t)
  \/ \E d \in Dispatches : WrapperGoes(d) \/ SourceGoes(d) \/ PassesWrapper(d)
  \/ \E d \in Dispatches : ExposeObject(d) \/ RevokeObject(d) \/ WrapperCalls(d)

Client ==
  \E d \in Dispatches :
    \/ CreateInstance(d) \/ ClientReleases(d) \/ ClientCalls(d)
    \/ ComesBack(d) \/ ComesWrapped(d)

DispatchNext == Script \/ Client \/ CallReturns

DispatchSpec == DispatchInit /\ [][DispatchNext]_dvars

-----------------------------------------------------------------------------
(* Properties.                                                             *)

\* Every variable keeps its type.
TypeOK ==
  /\ made \in 0..MaxDispatches
  /\ making \in 0..MaxDispatches
  /\ locals \in SUBSET {"iluacom", "lcom"}
  /\ serves \in [Dispatches -> Tables]
  /\ locked \in SUBSET Dispatches
  /\ refs \in [Dispatches -> Nat]
  /\ owners \in [Dispatches -> [Holders -> Nat]]
  /\ idxDispatch \in [Tables -> 0..MaxDispatches]
  /\ reached \in SUBSET Tables
  /\ collected \in SUBSET Tables
  /\ calls \in Seq([obj : Dispatches, by : {"call", "client"}])
  /\ crashed \in BOOLEAN

\* m_refs is the number of owners there are: the pointers of the code that is
\* making the object, the wrappers and source tables that Lua has, the class
\* factories, the clients and the calls of wrappers.  So an object is deleted
\* when its last owner has gone, and not before: no path, of a creation that
\* fails among others, gives up an owner and keeps its reference.
Locals(d) == IF d = making THEN Cardinality(locals) ELSE 0

RefsCounted ==
  \A d \in Dispatches :
    refs[d] = Locals(d) + Calling(d, "call")
              + owners[d]["wrapper"] + owners[d]["source"]
              + owners[d]["factory"] + owners[d]["client"]

\* While somebody refers to an object its table exists, even if the script
\* has long forgotten it, and the object comes back to Lua as that table;
\* and a deleted object keeps no table from the collector.
TableOutlives ==
  \A d \in Dispatches :
    /\ Live(d) => serves[d] \notin collected
    /\ d \in locked <=> Live(d)

\* The object, its table and its type handler are there when a method ends,
\* although the method may release every wrapper and client it can reach.
AliveDuringCall ==
  \A i \in 1..Len(calls) :
    Live(calls[i].obj) /\ serves[calls[i].obj] \notin collected

\* lua2com "tests if it is an already created tLuaDispatch": what a table
\* passed to COM turns into is an object that still exists.
PassesExistingObject == ~crashed

=============================================================================
