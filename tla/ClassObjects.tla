------------------------------ MODULE ClassObjects ------------------------------
(***************************************************************************)
(* The library as an in-process server: class factories that the DLL makes *)
(* by running a component's script in a Lua state of its own, while        *)
(* another process registers and unregisters components.                   *)
(*                                                                         *)
(* No threading model is registered, so COM makes all calls of a client on *)
(* one thread; a script that waits for messages lets the client ask for a  *)
(* class while it runs, hence the stack of running scripts.                *)
(***************************************************************************)
EXTENDS Registration

CONSTANTS
  MaxFactories,   \* bound: factories ever made
  MaxRunning,     \* bound: scripts running at once
  MaxHeld         \* bound: references a client holds through one factory

ASSUME ClassObjectsAssumption ==
  MaxFactories \in Nat /\ MaxRunning \in Nat /\ MaxHeld \in Nat

VARIABLES
  dll,         \* "out", "in" or "gone" again; "crashed" when its code has
               \* ended the process
  factories,   \* tLuaCOMClassFactory objects, in the order they were made
  cache,       \* the table "factories": class |-> index, 0 for none
  running      \* scripts being run, the outermost first

dllVars == <<dll, factories, cache, running>>
vars == <<registryVars, dllVars>>

Scripts == {i.script : i \in Infos} \ {NoScript}
Factory == [class : Classes, script : Scripts, refs : Nat,
            held : Nat,       \* references clients hold to the class object
            objects : Nat,    \* and to the object it stands for
            open : BOOLEAN]   \* not deleted, and its Lua state not closed
Running == [class : Classes, script : Scripts, object : {"none", "exposed", "freed"}]

Top == running[Len(running)]
Pop == running' = SubSeq(running, 1, Len(running) - 1)
\* A client's calls arrive when no script runs or the innermost one waits.
ClientCalls == dll = "in" /\ UNCHANGED registryVars
\* The client's process is gone with all that was in it.
Crash ==
  /\ dll' = "crashed" /\ factories' = <<>> /\ running' = <<>>
  /\ cache' = [class \in Classes |-> 0]

-----------------------------------------------------------------------------
\* COM loads the DLL for a class that names it.
LoadDll ==
  /\ dll = "out"
  /\ \E class \in Classes : Has(<<class, "InprocServer32">>)
  /\ dll' = "in"
  /\ UNCHANGED <<registryVars, factories, cache, running>>

\* The last reference gives up the object and closes the Lua state.
Release(f) ==
  [factories EXCEPT ![f].refs = @ - 1, ![f].open = factories[f].refs > 1]

\* Mutant: the pointer is handed out without a reference.
QueryNoRef(all, f) == [all EXCEPT ![f].held = @ + 1]
QueryInterface(all, f) ==
  [all EXCEPT ![f].refs = @ + 1, ![f].held = @ + 1]

\* The class is known: its factory answers.
GetClassObject(class) ==
  /\ ClientCalls
  /\ Has(<<class, "InprocServer32">>) /\ cache[class] # 0
  /\ factories[cache[class]].held < MaxHeld
  /\ factories' = QueryInterface(factories, cache[class])
  /\ UNCHANGED <<dll, cache, running>>

\* It is not: the script the registry names is run.
DoRegistryFile(class) ==
  /\ ClientCalls
  /\ Has(<<class, "InprocServer32">>) /\ cache[class] = 0
  /\ Named(<<class, "ScriptFile">>)
  /\ Len(running) < MaxRunning
  /\ running' = Append(running, [class |-> class, object |-> "none",
                                 script |-> hkcr[<<class, "ScriptFile">>][1]])
  /\ UNCHANGED <<dll, factories, cache>>

\* Without a ScriptFile key the file name is deleted without having been set.
DeletesUnsetName(class) ==
  /\ ClientCalls
  /\ Has(<<class, "InprocServer32">>) /\ cache[class] = 0
  /\ ~Has(<<class, "ScriptFile">>)
  /\ Crash \/ UNCHANGED dllVars

\* NewObject looks the class and its library up by name.
NewObjectFinds(progid) ==
  LET class == ProgID2CLSID(progid)
  IN class # NoClass /\ \E library \in LoadTypeLibFromCLSID(class, 0) \ {NoLibrary} :
                          GetCoClassTypeInfo(library, class)

\* The script leaves the address of its object for the factory.
ExposeObject ==
  /\ ClientCalls /\ running # <<>> /\ Top.object = "none"
  /\ \E i \in Infos : i.class = Top.class /\ NewObjectFinds(i.progid)
  /\ running' = [running EXCEPT ![Len(running)].object = "exposed"]
  /\ UNCHANGED <<dll, factories, cache>>

\* The address is no reference: a script that keeps no wrapper loses the object.
Collect ==
  /\ ClientCalls /\ running # <<>> /\ Top.object = "exposed"
  /\ running' = [running EXCEPT ![Len(running)].object = "freed"]
  /\ UNCHANGED <<dll, factories, cache>>

\* The script or its StartAutomation raises an error: its state is closed.
ScriptFails ==
  /\ ClientCalls /\ running # <<>>
  /\ Pop /\ UNCHANGED <<dll, factories, cache>>

\* The result is indexed outside any protected call: an error there is Lua's
\* panic, which ends the process.
ScriptReturnsNoTable ==
  /\ ClientCalls /\ running # <<>>
  /\ Crash

\* The constructor takes a reference to the object, PutFactory one to the
\* factory, and the client its own.
\* Mutant: the cache takes no reference.
PutNoRef(all, f) == all
PutFactory(all, f) == [all EXCEPT ![f].refs = @ + 1]

NewFactory(script) ==
  [class |-> script.class, script |-> script.script, refs |-> 0, held |-> 0,
   objects |-> 0, open |-> TRUE]

ScriptReturns ==
  /\ ClientCalls /\ running # <<>> /\ Top.object = "exposed"
  /\ Len(factories) < MaxFactories
  /\ LET f == Len(factories) + 1
         made == Append(factories, NewFactory(Top))
     IN /\ factories' = QueryInterface(PutFactory(made, f), f)
        /\ cache' = [cache EXCEPT ![Top.class] = f]
  /\ Pop /\ UNCHANGED dll

\* No object was exposed, or it is gone: the constructor uses a bad address.
ScriptReturnsNothing ==
  /\ ClientCalls /\ running # <<>> /\ Top.object # "exposed"
  /\ Crash

CreateInstance(f) ==
  /\ ClientCalls /\ factories[f].held > 0 /\ factories[f].objects < MaxHeld
  /\ factories' = [factories EXCEPT ![f].objects = @ + 1]
  /\ UNCHANGED <<dll, cache, running>>

ReleaseObject(f) ==
  /\ ClientCalls /\ factories[f].objects > 0
  /\ factories' = [factories EXCEPT ![f].objects = @ - 1]
  /\ UNCHANGED <<dll, cache, running>>

ReleaseFactory(f) ==
  /\ ClientCalls /\ factories[f].held > 0
  /\ factories' = [Release(f) EXCEPT ![f].held = @ - 1]
  /\ UNCHANGED <<dll, cache, running>>

\* The client ends its use of COM: every cached factory is released once.
DllMainDetach ==
  /\ ClientCalls /\ running = <<>>
  /\ dll' = "gone"
  /\ factories' = [f \in DOMAIN factories |->
       IF cache[factories[f].class] = f THEN Release(f)[f] ELSE factories[f]]
  /\ UNCHANGED <<cache, running>>

-----------------------------------------------------------------------------
Init ==
  /\ RegistryInit
  /\ dll = "out" /\ factories = <<>> /\ running = <<>>
  /\ cache = [class \in Classes |-> 0]

Next ==
  \/ RegistryNext /\ UNCHANGED dllVars
  \/ LoadDll \/ ExposeObject \/ Collect \/ ScriptFails \/ ScriptReturns
  \/ ScriptReturnsNoTable \/ ScriptReturnsNothing \/ DllMainDetach
  \/ \E class \in Classes :
       GetClassObject(class) \/ DoRegistryFile(class) \/ DeletesUnsetName(class)
  \/ \E f \in DOMAIN factories :
       CreateInstance(f) \/ ReleaseObject(f) \/ ReleaseFactory(f)

Spec == Init /\ [][Next]_vars

-----------------------------------------------------------------------------
TypeOK ==
  /\ \A key \in DOMAIN hkcr : Len(hkcr[key]) <= 1
  /\ libraries \subseteq {Library(i) : i \in Infos}
  /\ settled \in [Infos -> {"unknown", "registered", "unregistered", "refused"}]
  /\ dll \in {"out", "in", "gone", "crashed"}
  /\ \A f \in DOMAIN factories : factories[f] \in Factory
  /\ cache \in [Classes -> 0 .. Len(factories)]
  /\ \A r \in DOMAIN running : running[r] \in Running

(* The Lua state of a script stays open as long as a client holds its      *)
(* class object or an object made from it: a client lets go of the class   *)
(* object as soon as it has made its object, and scripts may run inside    *)
(* scripts, even for the same class.                                       *)
UsedStateOpen ==
  dll = "in" => \A f \in DOMAIN factories :
    factories[f].held + factories[f].objects > 0 => factories[f].open
================================================================================
