# LuaCOM in TLA+

LuaCOM lets Lua scripts use COM objects and lets COM clients use Lua tables.
Nearly all of it runs on one thread, yet it is a concurrent program: every call
into a COM object, every Lua function called for COM, and every allocation that
lets the Lua collector run may call back into any other operation of the library
before it answers. Reference counts, subscription records, sink tables and bare
addresses have to survive all such nestings. Around that core stands much plain
computation - parameters, numbers, arrays, dates - whose limits are as hard to
test, and a registry whose keys are written one by one. This directory models
these parts of the library, checks them with TLC, and proves the core with TLAPS.

Paths below are relative to the repository; `library/` is `src/library/`.

## The system

| Component | State it keeps | Operations | Interacts with | What makes it correct |
|---|---|---|---|---|
| Client wrapper `tLuaCOM` (`library/tLuaCOM.*`) | `pdisp`, `connections`, `last_connection_*`, `lock_count`, the FUNCDESC cache | `addConnection`, `releaseConnection` (two), `releaseComObject`, `call`, `Lock`/`Unlock`, `getFUNCDESC` | the wrapped object (calls out, callbacks in), the collector | no live subscription is forgotten or cancelled twice; the object outlives calls into it; after release nothing new starts |
| Connection points `tLuaCOMConnPoint`, its container, enumerators (`library/tLuaCOMConnPoints.*`) | `mConnections`, `mCookies`, `mSinks`, `mNextCookie`; cursors | `Advise`, `Unadvise`, `EnumConnections`, event delivery `l_call_sinks` | clients, their sinks' wrappers, the collector | a client stays connected until it withdraws; an event reaches each once; sinks live exactly as long as they are referred to |
| Served tables `tLuaDispatch` (`library/tLuaDispatch.*`) | `m_refs`, `table_ref`, `funcinfo`, the address in the table | `AddRef`, `Release`, `Invoke`, `PushIfSameState` | clients, wrappers, class factories, the Lua method that runs | references are counted on every path; the table outlives the object, and no longer |
| Lua API and tag methods (`library/luacom.cpp`, `LuaAux`, `LuaCompat`) | the Lua registry, the abort settings | `CreateObject`, `NewObject`, `ImplInterface`, `Connect`, `ExposeObject`, `RoundTrip`, indexing, the message loop | all of the above | error paths give back what they took |
| Type conversion (`library/tLuaCOMTypeHandler.*`) | none between calls | `lua2com`, `com2lua`, parameters and out values | served tables, wrappers, vectors | a value survives the round trip or is refused |
| Vectors (`library/tLuaVector.*`) | a tree of elements | table to safe array and back | type conversion | only rectangular tables become arrays; indices match |
| Class factories, DLL (`library/tLuaCOMClassFactory.*`, `src/dll/luacom_dll.cpp`) | `m_cRef`, the factory cache, one Lua state per class | `DllGetClassObject`, `CreateInstance` | COM threads, registry, scripts | one factory per class; it lives while cached or used |
| OLE controls (`library/tLuaControl.*`) | in-place and UI activity, window, sites | activation, deactivation, extents, its own `Release` | host container, Lua callbacks | the host and the control agree on activity; teardown once |
| Enumerators (`library/tLuaCOMEnumerator.*`, those of points, connections and verbs, `luacom.pairs`) | a cursor, a snapshot, references | `Next`, `Skip`, `Reset`, `Clone` | collections, clients, the loop of a script | each goes through its own list; references released once; a loop ends |
| Registration (`RegisterObject`, `UnRegisterObject`, look-ups of `library/tCOMUtil.*`) | keys of the system registry | writing, deleting, finding | other programs, the DLL | success means that every look-up works, or that nothing is left |
| Type libraries, Lua objects (`tLuaTLB`, `tLuaObject`, `luabeans`) | a COM reference each, an object cache | reading | scripts | references released once |
| Utilities (`tCOMUtil`, `tUtil`, `tStringBuffer`) | none, or the log file | registry and type library searches, dates, text | all | carries and limits |
| `luacom5.lua`, console, tests, demonstrations | - | listings, ODL writer, command line | - | not core |

Hard behaviours: re-entrance at every call out (above all `Advise`, `Unadvise`,
`Release`, `Invoke` and event methods); Unadvise calls that fail one by one; bare
pointers across a collector run; vectors walked while clients change them; two
threads in the DLL; host callbacks during a control's activation; limits of
64-bit numbers and of table shapes. `PROJECT.json`, "hazards", lists each at its
line.

## Modules

### WrapperConnections, Subscriptions

`WrapperConnections` models the subscriptions of one client wrapper. The code's
C++ stack is explicit: `frames` holds the operations in progress, and an
operation is cut into actions at every call it makes into the object
(`QueryInterface`/`FindConnectionPoint`, `Advise`, `Unadvise`, `Invoke`). Only
the topmost operation may go on, any operation may start on top of it. Code
between two such calls is one action.

| Code | Actions |
|---|---|
| `addConnection` | `AddStarts`, `AddFindsNothing`, `AddFindsPoint`, `AdviseFails`, `AddRegisters`, or `AddTakesBack` and `AddTakenBack` when a callback has released the wrapper |
| `releaseConnection()` | `LegacyStarts`, `Cancelled` |
| `releaseConnection(server, cookie)` | `ExplicitStarts`, `ExplicitFindsNothing`, `ExplicitDetaches`, `Cancelled` |
| `releaseComObject`, `~tLuaCOM`, `releaseConnections` | `ReleaseAllStarts`, `DestructorStarts`, `Sweeps`, `ReleaseAllReturns`, `Destroyed` |
| `call` | `CallStarts`, `CallReturns`: only its reference matters here |
| the object (external) | `AdviseStores`, `Unadvise`, `OthersRelease`, `ObjectLives` |

`connections` is the `std::list` without its order. `alive` is the object's
reference count as far as it can be told: it becomes FALSE when the last
reference goes, among the wrapper's, those of the operations in progress, those
of the records' points, and one standing for everybody else's. The object grants
cookies in order per point. An Unadvise may fail for no reason; for a cookie that
is not connected it must fail. Only S_OK and failures are answers: other success
codes have no documented meaning here (see "Known behaviour" below).

`Subscriptions` is the abstract promise, without list and stack: live
subscriptions are owned from the moment they are granted until they end or the
wrapper does; once released the wrapper asks for none. `ImplementsPromise` is
the refinement: `owned` is the list together with what operations in progress
have taken out of it, `asks` the operations waiting in `Advise`.

### ConnPoint

`ConnPoint` models the other side: the connection point of a served table. The
three parallel vectors are one sequence of slots; `locks` is `lock_count` of each
sink's wrapper, `tables` the Lua tables that refer to it and that the collector
has not found. `Advise` is cut after its `QueryInterface`, `Unadvise` after
`Unlock`, and the delivery loop at every place where other code runs: making a
table (the collector), looking up the event, and the client's method.
`Callbacks` says at which of these places clients may call back in. The actions
`AdviseStarts`, `AdviseFails`, `AdviseStores` are `Advise`; `UnadviseStarts`,
`UnadviseReturns` are `Unadvise`; `Fire...` is `l_call_sinks`; `Collect` is
`tagmeth_gc`; `Destroyed` is the destructor.

`mConnections` has no field of its own: the sink's wrapper holds its own
reference to the same client, so `mConnections[pos].Release()` is never the last
one and calls nobody, and an entry is set and cleared with its cookie.
`CreateLuaCOM` is given type information there and only adds references. Errors
in an event method are swallowed by `luaCompat_call`; an error in the lookup ends
the loop (`FireFails`).

### LuaDispatch

`LuaDispatch` models how long a served table, its `tLuaDispatch` and the owners
of references live. `owners` says who there is, for each object: wrappers, tables of
connection points, class factories and clients; `locals` are the creator's own
pointers, `iluacom` and `lcom`; `calls` holds the calls in progress, of which a
wrapper's owns a reference (`CallContext`) and a client's uses the client's, as COM
requires. These come and go by what the script, the collector and clients do.
`refs` is `m_refs` and changes only where the code calls `AddRef` and `Release`,
`locked` has the entries of the Lua registry, `idxDispatch` the address each table
keeps. Making an object is cut into the steps of `ImplInterface` and `NewObject`,
each of which can fail (`CreationFails`), after which the scopes end (`ScopeEnds`)
and a `lcom` that is not returned is unlocked (`Unlock`); nothing runs in between.
Everything else may happen while a method is in progress. Addresses are never reused
in the model; in the program they can be, which only makes the use of a stale one
worse.

### Control

`Control` models how a host activates, deactivates and releases an OLE control
written in Lua. As in the other modules, `stack` holds the operations in
progress, each at the call out it waits in: of the host's site
(`CanInPlaceActivate`, `OnInPlaceActivate`, `GetWindow`, `GetWindowContext`,
`ShowObject`, `OnUIActivate`, ...), of its frame (`SetActiveObject`), or of the
table (`CreateWindow`, `DestroyWindow`, `SetExtent`). `control` has the members of
`tLuaControl` that decide (`m_pClientSite`, `m_pInPlaceSite`, the three activity
flags, whether the frame is held, the window and `m_hasWindowRgn`); `told`,
`toldUI` and `frameActive` are what the host has heard, `windows` and `clipped`
what exists on the desktop.

| Code | Actions |
|---|---|
| `InPlaceActivate`, `DoVerb(SHOW, UIACTIVATE, ...)` | `InPlaceActivate`, `SiteGiven` or `SiteRefused` (the query for `IOleInPlaceSite`), `MayActivate`, `OnInPlaceActivateReturns`, `GetWindowReturns`, `ContextGiven`, `CreateWindowReturns` or `CreateWindowReturnsNone`, `ShowObjectReturns`, `OnUIActivateReturns`, `SetActiveReturns`; `ActivationFails` and `GiveUpReturns` (the macro `RETURN_ON_ERROR`) |
| `InPlaceDeactivate`, `UIDeactivate`, `DoVerb(HIDE)`, `Close` | the actions of these names, `UIOffReturns`, `UIDoneReturns`, `DestroyReturns`, `DeactivatedReturns` |
| `SetClientSite`, `SetObjectRects`, `SetExtent` | the actions of these names, `SetExtentReturns`, `PosRectReturns` |
| the last `Release` | `LastRelease`, `LastDestroyReturns` |

Every method of the site, the frame and the table that is called is such a place, with
these exceptions: `SetFocus` is taken together with the `OnUIActivate` before it and
`SetBorderSpace` with `SetActiveObject`; `Release`, the queries of `SetClientSite`, and
window procedures while a window is moved, shown or hidden are taken not to call the
control. `ShowObject` of a control whose `CreateWindow` has returned nil is a place of
its own (`showNothing`): the code calls it while the control is active, and gives the
activation up afterwards.

A host that may do anything out of any call breaks the control: `UsesLiveFrame`
and the others fail. `Refrains` says what receivers of a call do not ask until
it returns, and `WellBehaved` in `Control` is the smallest such set that was
found: 30 pairs, each necessary (without any one of them TLC finds a property
violated). Read as documentation, a host and the table's methods do not

* activate out of the query for `IOleInPlaceSite`, `CanInPlaceActivate`,
  `OnInPlaceActivate`, `GetWindow`, `GetWindowContext`, `CreateWindow`, the `ShowObject`
  of a control that has no window, the calls of a UI deactivation, `DestroyWindow`, or
  the `OnInPlaceDeactivate` of an activation that fails;
* deactivate out of `GetWindow`, `GetWindowContext`, `CreateWindow`, `OnUIActivate` (with
  `SetFocus`), `SetActiveObject`, or the calls of a UI deactivation;
* close out of these or out of the query, `CanInPlaceActivate` or `OnInPlaceActivate`;
* deactivate the UI or hide out of `OnUIActivate`.

Two of these are mistakes of the code as much as demands on a host. When the table
makes no window, `RETURN_ON_ERROR` clears the activity and the frame but not
`m_fUIActive` (tLuaControl.cpp:738-747), so that a UI activation out of that
`ShowObject` survives its control and the next `UIDeactivate` uses a null frame (845);
and after `OnUIActivate` nothing looks whether the frame is still there (788). No document
of the repository says what a host may do, so that they are conditions here and
not findings.

### Enumerators, Cursors

`Enumerators` has all four kinds behind one state: the points of an object, the
connections of a point, the verbs of a control, and a script's enumerator of a
foreign collection, with the loop of `luacom.pairs`. `refs` counts references to
the object (a point counts on its object), `pins` those to each client, through
its slot, the snapshots it is in, and what `Next` has passed on. Elements are
numbers. `NextRunsOut` is a `Next` that cannot allocate the name of a verb.

`Cursors` is the promise that COM makes of every enumerator, without references,
kinds or positions: a list of its own, and what is left of it. `KeepsContract` is
the refinement: `list` is the snapshot, `rest` what follows `m_next`.

### Registration, ClassObjects

`Registration` is the registry as `RegisterObject` and `UnRegisterObject` see it:
`hkcr` maps a root and a subkey to a value, `libraries` are the registered type
libraries, and each call is a sequence of writes or deletions that may fail or
end with its process between any two (`WriteFails`, `DeleteFails`, `ProcessEnds`).
`ProgID2CLSID`, `DefaultTypeLibVersions`, `LoadTypeLibFromCLSID` and
`LoadTypeLibFromProgID` are the look-ups, with the hexadecimal subkeys of
versions read back as decimal. `settled` is a history: what the last call for a
table came to, if no other call has touched the same keys since. Windows'
`UnRegisterTypeLib` fails for a library that is not registered, which is what
`UnRegisterObject` looks out for (luacom.cpp:1018-1057); "refused" in `settled` is a call
that failed although nothing it needs was denied.

`ClassObjects` EXTENDS it with a client that loads the DLL: `GetClassObject` and
`DoRegistryFile` are the two branches of `DllGetClassObject`, `ExposeObject` and
`Collect` what the script does meanwhile, `ScriptReturns`, `ScriptFails`,
`ScriptReturnsNothing` and `ScriptReturnsNoTable` (an error outside any protected call,
which ends the process) the rest of it, `DllMainDetach` the release of the cache.
`factories` are the `tLuaCOMClassFactory` objects with their counts and Lua
states. The code registers no threading model, so that all calls of a client
arrive on one thread, and what interleaves are scripts that wait for messages.

### Calls

`Calls` follows one call of a member of a served table from end to end:

| Code | Definitions |
|---|---|
| `tLuaCOM::call`, `fillDispParams` with type information | `CallTyped`, `TypedValue`, `TypedByRef`, `FillDispParams`, `CleanUp` |
| the same without | `CallUntyped` |
| a client in another language (external) | `CallForeign`, `ForeignReturns` |
| `tLuaDispatch::Invoke`, `method`, `propertyget`, `propertyput` | `Invoke`, `Method`, `MethodFails`, `PropertyGet`, `PropertyPut`, `Raises`, `Returns` |
| `pushLuaArgs` with named arguments | `PushLuaArgs`, `Pushed`, `PushFails`, `IndexOf` |
| `setRetval`, `setOutValues`, `pushOutValues` | `SetRetval`, `ForOutputs`, `SetOutValue`, `OutValues`, `SetOutValues`, `PushOutValues` |
| `callWithDispatch` after `Invoke`, `~CallContext`, `releaseVariants` | `LuaComReturns`, `ReleaseVariants` |

A foreign client may name its arguments and leave out parameters before them: then a
position is greater than the number of arguments (`Gapped`). For a VARIANT by reference the
type of its content is a hint that a result must fit (`Hint`).

A value is a string that names it ("a2" is the second argument), so that a value
that ends in the wrong place shows. `mem` has the blocks that arguments by
reference point to, with a count of how often each was freed.

### Members

`Members` is what `obj.Name` and `obj.Name = x` do: the Lua table of the object,
the "index" and "settable" tag methods, the two prefixes, redefined members, and the
places a name is looked up in. Constants are none of these: `getConstant` asks
`plib_tcomp`, which the constructor leaves empty (tLuaCOM.cpp:118-119, 365), and never
finds any. `expected` is a history of
what the script last assigned. The FUNCDESC cache is not a variable: a name's
description in type information never changes, and the cache is filled with what
`ITypeComp` has answered.

### Numbers, Dates, Values, Conversions, Vectors, Matrices

Pure algorithms, as operators and recursive functions. `Numbers`: integers to Lua
and back, as doubles where these are exact, as digits otherwise, with the parsers'
checks for overflow. Its constants say how many values the types have: `Wide` and
`Narrow` are 2^64 and 2^32 in the code, and `Exact`, up to which a double holds
every integer, is 2^53. `NumbersAssumption` asks of them only that the types have
a sign to give (both are even) and that `Narrow <= Exact` and `2 * Exact <= Wide`.
`Dates`: the time functions of `tUtil.cpp` between Windows' own, whose rounding to
the second is external and modelled with an error of the double in either
direction. `Values` puts them together as `com2lua` and `lua2com` do for every type
of VARIANT; its constants `ToArray` and `ToTable` convert tables and arrays.
`Conversions` is the state machine: a value starts on one side, crosses, and
crosses back.

`Vectors`: the shape of a table (`InitVectorFromTable`), its dimensions and slots,
the running indices of an array with lower bounds, `CreateTable`. It recurs over
trees and has RECURSIVE operators, which nothing can be proved about; therefore
`Conversions` does not know it. `Matrices` puts the two together, and the runs give
`TableToArray` and `ArrayToTable` of `Vectors` as `ToArray` and `ToTable`.

`MCCalls` puts `Calls`, `Members`, `Conversions` and `LuaDispatch` into one run. They
share no variable: one of the four is chosen and moves alone, so that the run's states
are the sum of theirs and not the product.

## Runs

| Run | Question | Bounds, and why they are enough |
|---|---|---|
| `connections` | Does every nesting of operations and callbacks keep the wrapper's properties, and implement `Subscriptions`? | two points, two cookies each, three grants, three nested operations: an older and a newer connection on one point, the same cookie on another, a callback within a callback. 1.4 million states |
| `connpoint` | Do slots, sinks and deliveries survive clients that connect and withdraw out of `QueryInterface` and event methods? | three cookies (one slot freed and reused while another client stays), four tables of a sink, three nested operations. 1.3 million states |
| `connpoint_lost` | Does each cookie have its sink when the release of a client calls `Advise`? Violated | two cookies, two nested operations |
| `luadispatch_dangling` | Does a table passed to COM turn into an existing object? Violated | one table, one object |
| `control` | Do host and control agree on activity, windows and the frame, whatever is called out of what, and does closing end? | one site given and taken away at any time; three windows (destroyed and made again, twice); three operations inside one another; a host that is `WellBehaved` |
| `control_resited` | Is a control activated in the site it was last given? Violated | two sites, two windows, two operations |
| `enumerators` | Do enumerators, snapshots and clones keep what COM promises, and count on object and clients correctly? Does a loop end with everything seen? | two enumerators, one perhaps a clone; two clients who come and go; requests below, at and past what is left of one or two elements, of which one may be nil in Lua |
| `servers` | Does a registration or its removal that returns success mean what it says, after calls that ended half way? Does a served object's Lua state stay open? | three tables (two versions of one class, one of them without a script and with version 16; a control in the same library), three calls, two factories, two scripts inside one another |
| `calls` | Do arguments and results of calls, assignments of members, and values of every type arrive? Are references, tables and objects in step on every path? | members of up to two parameters of twelve kinds, and of three of four kinds; up to three results; one value of each list nil or unfit for a number; every way to call, named arguments behind parameters left out among them. Names of eight kinds. Two served tables, two objects (one table served twice, or both once), two owners of a kind, two nested calls. Types of 64 and 8 integers and doubles exact to 16 for the 2^64, 2^32 and 2^53 of the code, all integers of them, and all strings of up to three digits around the limits; tables of up to three rows of two; arrays of up to three dimensions of lengths 0 to 2 with lower bounds -1 and 1; twelve days, five seconds, six milliseconds around each carry, with the day of the week and without, doubles a little too large or small. 1.4 million states |
| `calls_gap` | Does every named argument arrive, whichever are left out? Violated | as `calls` |
| `members_hidden` | Does a value in the Lua table never hide a read-only member? Violated | as `calls` |
| `vectors_ragged` | Is every table that is not a matrix refused? Violated | two rows of up to two, one level deeper |

The properties, and what would break them:

* `Tracked`, `OneOwner`, `CleanReleaseLeavesNothing`: each live subscription is in
  exactly one hand, whichever Unadvise calls fail; a release that reports no error
  leaves none but those of operations it interrupted.
* `AliveDuringCallback`: the object survives until each operation has its answer.
* `LegacyTargetsNewest`: `releaseConnection(obj)` never falls back to an older
  connection, as README says.
* `EachSinkHasObject`, `KeepsGranted`: a cookie keeps its slot and its sink.
* `LocksCounted`, `AliveDuringEvent`: locks are the references that exist, so
  sinks neither leak nor die under an event.
* `DeliversToAll`, `DeliversOnce`: the loop reaches every client connected since
  the event was fired, none twice, none that has withdrawn.
* `RefsCounted`, `TableOutlives`, `AliveDuringCall`: `m_refs`, which only `AddRef` and
  `Release` change, is the number of owners that exist on every path, failures of a
  creation included; the collector finds a table exactly
  when nobody serves it; an object outlives its method.
* `UsesLiveFrame`, `HostKnows`, `WindowWithActivation`, `LeavesNoWindow`: whatever
  fails or is called in between, a site has been told of exactly the activations
  that hold, window and frame are there exactly while the control is active, and
  a deleted control leaves no window. `RegionTracked`: `m_hasWindowRgn` speaks of
  the window that is there. `CloseEnds`: closing ends in rest.
* `Accounted`, `KeepsContract`, `PairsVisits`: references of enumerators add up;
  each enumerator implements `Cursors`; a loop ends having seen every value up to the
  first nil, which ends it (luacom.tex:3584 and `luacom.pairs` agree on that).
* `RegisteredWorks`, `UnregisteringWorks`: success of the one means that the class is
  found by all its names and its library in the version registered; the other
  never fails because of what is gone already - a library that another coclass has
  unregistered, keys that a failed call has deleted - and leaves nothing when it returns
  success.
  `UsedStateOpen`: a client's object keeps its script's Lua state open.
* `ArgumentsArrive`, `ResultsReturn`, `BlocksFreed`: typed, untyped, by position or
  by name, each argument reaches its parameter, each result its place, each block
  is freed once. Named arguments behind one left out are `NamedArrive`'s, which the code
  violates.
* `AssignedIsRead`: an assignment to a member is not hidden by another place that
  its name is looked up in. A value given to a read-only member whose name has been
  redefined is `ReadOnlyShown`'s, which the code violates.
* `ValuesKept`, `MatricesKept`, `DatesKept`: a value that a script passes on arrives
  as it was, or is refused; never rounded, wrapped, cut or moved.

`TypeOK`, where a run has it, says that variables keep their types and that bounds
are kept. Deadlock is not checked where a wrapper's, a point's or a
control's life ends, a client's process ends, or a behaviour in which deleted
memory is used, `calls` included, since served tables come to an end; `vectors_ragged`
does check it.

### What the violated runs show

* `connpoint_lost`. `Unadvise` clears the cookie, unlocks the sink, then clears
  `mSinks[pos]`. If the unlock ends the client and that client's finalizer
  connects another sink to the same point, `Advise` reuses the slot, and the
  assignment that follows wipes out the new sink: it has a cookie and gets no
  events. Taking the pointer out of the vector before `Unlock` would close this.
* `luadispatch_dangling`. The address that `CreateLuaDispatch` leaves in the table
  is never removed. A table whose object has been released, or whose creation
  failed halfway, and that is passed to COM again leads `lua2com` to a deleted
  object.
* `control_resited`. `SetClientSite` replaces the client site, but
  `InPlaceActivate` obtains `m_pInPlaceSite` only when it has none, and nothing
  clears it: a control moved to another site is activated in the old one.
* `calls_gap`. luacom.tex:2227-2229 says that named parameters are dealt with. But
  `pushLuaArgs` looks at the positions up to `cArgs`, the number of arguments that are
  there, so that one named behind a parameter that is left out is not delivered.
* `members_hidden`. The comment in `tagmeth_settable` (luacom.cpp:1876-1881) wants a
  read-only member not to be hidden by a value in the Lua table. A script that redefines
  the member with a function and then assigns a value has Lua itself store it, as
  `tagmeth_settable` is called for new keys only, and the value is what it reads.
* `vectors_ragged`. The comment in `InitVectorFromTable` says that a row of another
  dimension aborts, but only lengths are compared. `{{1}, {{1}}}` is taken for a
  matrix of one dimension too few and read through a null pointer.

One more disagreement was met and has no run: luacom.tex:1490-1492 says that large
values of `VT_UI8` may lose precision, where the code gives digits past the exact
doubles, as README.md:38 and the round trip tests (luacom_roundtrip_tests.lua:67, 83)
want it.

`connpoint` excludes what `connpoint_lost` shows by leaving "unlock" out of `Callbacks`, and "push"
and "lookup", where a withdrawal of the very sink being called leads to a NULL
dereference (see the hazards). `calls` contains what `luadispatch_dangling` shows: its behaviours
end there (`crashed`), and its properties hold up to that point. It contains what
`calls_gap` and `members_hidden` show as well, and goes on.

### Known behaviour outside the properties

The following is in the models or next to them, and no property speaks of it
because no document says what should happen: a record of a subscription that its
caller has cancelled elsewhere comes back to the list; success codes other than
S_OK raise errors; cookies wrap after 2^32; the last `Release` of a control may be
entered twice through its `DestroyWindow`; a component registered again without
`ScriptFile` keeps the old one, and between `InprocServer32` and `ScriptFile`
another program may ask for the class; a caller without a place for the return
value has the results shifted; a function that fails may be called a second time as
a property; output-only parameters get a new block and the caller's is lost; a
method taken from an object keeps bare addresses; strings are cut at a NUL when
given with a type; more arguments than a member has, or values where references
are due, are not caught.

### Fairness

`connections`, `connpoint`, `servers` and `calls` assume none: what a
callback does and when it returns is up to other programs, and the collector may
not run at all. `control` assumes `WF_vars(Answers)`: hosts and Lua methods return,
which is all that `Close` needs, since its own code does not wait; without it
`CloseEnds` would fail in a host that never answers. `enumerators` assumes
`WF_vars(LoopSteps(e))` for each loop: `luacom.pairs` is a Lua `while` loop, which
goes on as long as its body ends and the collection answers; nothing is assumed of
clients, of other enumerators or of failures.

### Mutants

Every property of every passing run is shown to depend on the code: for each,
`PROJECT.json` names an operator and a mistaken form of it, under which TLC finds
the property violated. The mistaken forms (`RetainedForgets`, `FreeSlotFirst`,
`OwnRefNone`, ...) stand just before the operators they would replace and are used
nowhere else.

## Proofs

`WrapperConnections_proofs` proves, for any set of points, any bounds and any
depth of nesting: `TypeCorrect`, `TrackedAlways`, `OneOwnerAlways`, `AliveAlways`,
`CleanReleaseAlways`, `LegacyNewest`, and `KeepsPromise`, the refinement of
`Subscriptions`. The assumptions are those of `ConnectionsAssumption`: there is a
point, the bounds are natural numbers, and "no connection" is no connection.

None of the properties is inductive. `IInv` adds to them

* `Shapes`: what a frame looks like at each place, e.g. that an operation waiting
  in `Advise` names a point and holds the object;
* `GrantedOnly`: records and frames only name cookies that have been handed out,
  so that a new one is new to everybody;
* `GcAlone`: nothing is nested in or under a destructor;
* `SweepSeals`: a `releaseComObject` in progress has given up `pdisp` for good,
  so that no operation can start to add above it;
* `DeadIsUnheld`: a dead object has no owner left;
* `LastIsNewest`: `last` is the end of the history `made`.

Lemmas about the stack come first (`PushInv`, `StayInv`, `PopInv`: what the
invariant needs when an operation starts, goes on or returns), then one lemma per
action (`...Kept`), `NextIInv`, and the theorems. The refinement repeats the
pattern with `PushMaps`, `StayMaps` and `PopMaps`: each step is a step of
`Subscriptions` or a stutter.

`LuaDispatch_proofs` proves, for any number of tables, objects, references of a
kind and nested calls: `TypeCorrect` (no count of references is ever negative),
`RefsAlwaysCounted`, `TableAlwaysOutlives` and `AliveInEveryCall`; the assumption
is `LuaDispatchAssumption`, that the bounds are numbers. `RefsCounted` alone is
not inductive: a `Release` must be known to be that of an owner which exists, or the
count could pass below zero. `Accounts` says that the counts are numbers, that the
registry holds the table of exactly the objects that live, and that these have numbers
up to `made`; `Owned`, that there is a number of owners of each kind, that `locals` are
pointers of the creator, and `RefsCounted`; `CallsHeld`, that
a client which calls has a reference of its own for each call in progress, so that none
is given up under it; `Heap` keeps what the script reaches apart from what the
collector has freed, and `TablesKept` is the part of `TableOutlives` that the collector
could break. `CountAppend` and `CountFront` say how a start and a return change the
number of calls of a kind, `ComesKinds` and `GoesKinds` how an owner changes the sum;
`AddRefKeeps` and `ReleaseKeeps`, what the two operations do to the count and the
registry. Each step is then shown to bring or take one owner and to call one of the two
as often. `PassesExistingObject`, which the code
violates, has no part in it.

`ConnPoint_proofs` proves, for any number of cookies, of tables and of nested
operations, the six invariants of `connpoint` and `DeliversOnce`.
`EventsOncePerClient` and five others (`PointTypes`, `SinksHaveObjects`,
`SinkLocksCounted`, `SinksAliveDuringEvents`, `EventsReachAll`) assume
`QuietClients`: clients call back out of `QueryInterface` and of event methods
only. That is the hypothesis under which the run checks them, and
`connpoint_lost` shows that it cannot be dropped: a client that connects while
its own release is in progress loses its sink. `GrantedStayConnected` needs no
hypothesis: a cookie that was granted stays in its slot until its client
withdraws, whatever calls back where. The invariant `PointInv` ties slots to
sinks (`SlotsKept`, `SinksKept`), counts the locks of each sink - its slot's and
its tables', those on the Lua stack included - (`LocksKept`), and says for each operation on the stack
what it has still to do and what it has been told (`StackKept`): above all that a
delivery in progress has passed exactly the slots below its index, so that slots
that are freed and reused meanwhile neither repeat nor hide a client.

`Control_proofs` proves the six invariants of `control` for any number of sites and
windows and any depth, of a host that refrains at least from what `WellBehaved`
names (`HostsRefrain`): the theorem that makes the 30 pairs a contract, `CloseEnds` apart. `ControlInv`
consists of `Types`, `Regions`, `Nested` (which operations can be inside which)
and `Phases`: when no activation or deactivation is half done the control is in
one of three settled states (off, in place, in place with the user interface),
and while one waits for the host or the table the state is the one that this
wait leaves, which nothing nested in it may change - except that a control shown without
a window may be deactivated (`DuringShowNothing`). Each pair of `WellBehaved` is
used where a nested operation would.

`ClassObjects_proofs` begins with the registry: an invariant of a call in
progress (`RegistryInv`) which says that all it has written is there and all it
has deleted is not, that components which are settled share no key with it, and
that what the look-ups need is among these keys. It holds as well beside a client
that loads the DLL, which only reads them, and gives, for any set of tables, any
failures and any number of factories, scripts and references, `ServerTypes`,
`RegisteredAlwaysWorks` and `UnregisteringAlwaysWorks`; with them stands
`UsedStateAlwaysOpen`.
What the last one needs besides is `Kept`: every factory has one reference more
than its clients hold, `PutFactory`'s, so that a client's `Release` is never the
last. The proof shows where this comes from: nobody gives that reference up
before `DllMain`, not even when a second factory takes the first one's place in
the cache (which leaks the first, but closes nothing in use).

`Enumerators_proofs` proves `AlwaysAccounted`, `EnumeratorTypes` and
`AlwaysKeepsContract`, the refinement of `Cursors`, for any finite set of
enumerators, any bounds, and any collections and requests. `EnumeratorsAssumption`
says of these what the code gives: elements are numbers here, requests too, and
`luacom.pairs` asks for one element at a time. The invariant adds to `Accounted`
that an enumerator that exists is referred to, goes through a list of something
that there is to enumerate, and never stands past its end (`EnumeratorsKept`),
and that slots hold cookies that have been granted (`PointKept`). Most of the
work is arithmetic of references: `TotalChanges` (a sum changes by what one of
its terms does), `TimesPut` and `TimesAppend` (occurrences in a sequence of which
one element changes), `SnapshotFits` (a snapshot names each client as often as
the slots do). From these follow that a `Release` which deletes an enumerator
takes from the object and the clients exactly what its making gave, and that a
last `Release` of the object finds no enumerator alive. The refinement maps each
action by one of `MakeMaps`, `MoveMaps`, `CloneMaps`, `CloseMaps` or, if nobody
moves, `OtherMaps`.

`Calls_proofs` proves `AlwaysArrive`, `AlwaysFreed` and `AlwaysReturned` for any
descriptions of members (of up to three parameters, as `CallsAssumption` has them:
a parameter with "out" is a reference), any of the arguments given or left out, any
results, and every way to call. `CallsInv` describes DISPPARAMS by what the client
meant: while the server has not answered, `Carries` says of each parameter where in
`rgvarg` its argument stands (`Where`, by position or by name), that it is the value
itself or the only argument with its block, and that there are no other blocks.
A call with a gap (`WithGap`) needs none of this but that it stays one. After the
answer, `Unreleased` says that every block is still held by exactly one
argument, or was replaced by `initByRefParam`; `Thrown`, that `fillDispParams` has
cleaned up; and `Delivered`, that each reference holds the result which is counted
for it and the others what was sent. The two loops are the bulk of it. For
`fillDispParams`, `IsLaid` is shown of arguments and blocks laid one by one. For
`setOutValues`, whose passes `OutValues` numbers, `Passed` says what is true after
the first i parameters - the later ones are untouched and no block is lost - and
`Delivers` that the results used up are those of the references so far, each in its
place. Since no induction rule can be cited, the proof takes the least i at which
one would fail and shows that it fails before.

The attempt at `AlwaysReturned` failed first on an optional parameter by reference
that a script leaves out and that has no "out": `fillDispParams` passes it by value
as "missing", so that `pushOutValues`, which looks for references, gives nothing back
for it. The property had demanded a value there. `GoesBack` says now which
parameters come back, and the run `calls` has such a parameter.

The second half of `Calls_proofs` proves `AssignedIsAlwaysRead` of `Members`, for any
set of members and values.
`MembersAssumption` says of them that what type information describes
GetIDsOfNames knows. By itself
`AssignedIsRead` speaks only of a name just read; `WhereAssigned` adds where the
last assignment is - in the table, else in the property - and that a field which is
not a redefinition cannot have a member's name, so that the set prefix
(`SetPrefix`) never assigns a property that the table hides from the script.

`Conversions_proofs` proves `ValuesAlwaysKept` and `DatesAlwaysKept`, for any sizes
of the types that satisfy `NumbersAssumption`, the code's among them, and for
whatever COM objects and scripts give: `ConversionsAssumption` names every variant
there is and every integer, double, string of digits and date that COM has, and
leaves tables, arrays and their conversion open. The invariant `Converted` says that each end of a
journey is what `ComToLua` and `LuaToCom` make of its start (`GotFromCom`,
`GotFromLua`); the rest is about these two functions.

* Recursion. The numeral of a string of digits, the parser's value so far, the
  digits of a number and the days before a month are recursive functions.
  `FirstOf` and `Induction`, which speak of a set of numbers instead of a
  predicate, stand in for the rules that cannot be cited, and `Recursion` gives
  such a function's value at each place.
* Numbers. `ParseUnsignedIs`: for every string, the parser returns exactly the
  number that the string denotes, or refuses one past its limit, and never wraps;
  this is where the check before the multiplication is needed. `DigitsRepresent`: what
  `pushUnsignedInteger` writes is read back as the same number. With `FloatReads`
  and `IntegerReads`, `NumberBack` says that an integer comes back from each of the
  three kinds of Lua value, and `IntegerToComReads` that `lua2com` refuses what it must.
* Dates. `DateOfIs` identifies the calendar's date of a day by its fields, which
  makes years of 366 days, and centuries that are none, a matter of arithmetic
  (`MonthsFollow`, `YearsFollow`). `DecrementInDay`, `DecrementOverMidnight` and
  their counterparts for `IncrementSecond` show that a step of the code's own
  calendar is a step of Windows', so that `DateComesBack`: with an error of a
  quarter of a millisecond either way, the second that Windows rounded up is taken
  back, over midnight, a month, a year, and before 1899-12-30. `RoundsToNearest`
  does the same for the text. Left out is what `DatesKept` leaves out: dates whose
  nearest second is past 9999, which Windows does not have.

The induction brought out nothing wrong in the parser, but two conditions that the
model had not stated: a script's date must be one that exists (a "day" of 31 in
April is Windows' to refuse), while its day of the week may be anything, which comes
back right. The run `calls` has such dates now.

Model-checked only: `MatricesKept`, since `Vectors` recurs over trees of unknown depth
with RECURSIVE operators, and liveness (`CloseEnds`, `PairsVisits`), since fairness and
ENABLED are out of the prover's reach. These are checked over bounded inputs.

## Not modelled

The components that `PROJECT.json` marks "not_modelled" or "partly" give their
reasons. Most of what is left either reads without changing anything (type
libraries, type descriptions, dumps, listings), belongs to Windows (drawing,
`CoLockObjectExternal`, message loops, marshalling of proxies, which appears only
as the choice between `ComesBack` and `ComesWrapped`), or is text (logs, HTML, ODL,
code pages, messages of errors).

In the modelled components: running out of memory (except for names of verbs; where
it matters elsewhere the order of allocations is fixed in the models), the 2^32
wrap of cookies, members with a variable number of arguments, records (which
`lua2com` refuses), the elements of arrays in each of the element types, sizes and
positions of controls and their advise holders, and `LockServer`.

## Plan

1. Composition: a client wrapper (`WrapperConnections`) connected to a
   `ConnPoint`, the object's side no longer external, with the theorems of the one
   used for the other.
2. `Vectors`: `TableToArray` and `ArrayToTable` over one dimension as recursive
   functions, so that facts about them (that a slot is the distance from the lower
   bounds) can be proved, whatever stays with TLC.
