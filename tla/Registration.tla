------------------------------ MODULE Registration ------------------------------
(***************************************************************************)
(* RegisterObject and UnRegisterObject: the keys of a component in the     *)
(* system registry, written and deleted one at a time by a process that    *)
(* may fail or end between any two of them, and the look-ups the rest of   *)
(* the library makes there.                                                *)
(*                                                                         *)
(* A key is a root (a ProgID, a CLSID) with a subkey; its value is a       *)
(* sequence of one element, empty while none has been set.  Text other     *)
(* than names and numbers is left out, and the six categories of a control *)
(* are one key.                                                            *)
(***************************************************************************)
EXTENDS Integers, Sequences

CONSTANTS
  Infos,          \* the registration tables a program may pass
  NoScript,       \* a table without ScriptFile
  NoLibrary,      \* the look-up of a type library found none
  NoClass,        \* the look-up of a class found none
  MaxOperations   \* bound: calls of the two functions

ASSUME RegistrationAssumption ==
  /\ \A i \in Infos :
       /\ DOMAIN i = {"progid", "independent", "class", "lib", "major",
                      "script", "control"}
       /\ i.major \in 1 .. 255 /\ i.control \in BOOLEAN
  /\ NoClass \notin {i.class : i \in Infos}
  /\ MaxOperations \in Nat

VARIABLES
  hkcr,        \* HKEY_CLASSES_ROOT: key |-> value
  libraries,   \* type libraries registered, by identity and major version
  task,        \* the call in progress: <<>> or <<call>>
  settled,     \* what the last call for a table came to, unless something
               \* has failed it or touched its keys since (history)
  operations   \* calls so far

registryVars == <<hkcr, libraries, task, settled, operations>>

Classes == {i.class : i \in Infos}
Library(i) == [lib |-> i.lib, major |-> i.major]
Entry(root, sub, value) == [key |-> <<root, sub>>, value |-> value]
Has(key) == key \in DOMAIN hkcr
RootThere(root) == \E key \in DOMAIN hkcr : key[1] = root
Named(key) == Has(key) /\ hkcr[key] # <<>>

-----------------------------------------------------------------------------
(* What the look-ups answer.                                               *)

ProgID2CLSID(progid) ==
  IF Named(<<progid, "CLSID">>) THEN hkcr[<<progid, "CLSID">>][1] ELSE NoClass

\* Subkeys of a library are named in hexadecimal and read back in decimal; no
\* library has the version 0, which stands for a name that is no decimal.
ReadBack(major) ==
  IF major % 16 < 10 /\ major \div 16 < 10 THEN 10 * (major \div 16) + (major % 16) ELSE 0

\* The first subkey is read, and RegEnumKeyEx promises no order.
DefaultTypeLibVersions(lib) == {ReadBack(l.major) : l \in {k \in libraries : k.lib = lib}}

\* The answers LoadTypeLibFromCLSID may give.
LoadTypeLibFromCLSID(class, major) ==
  IF ~Named(<<class, "TypeLib">>) THEN {NoLibrary}
  ELSE LET lib == hkcr[<<class, "TypeLib">>][1]
           versions == IF Named(<<class, "Version">>)
                       THEN {hkcr[<<class, "Version">>][1]}
                       ELSE IF major > 0 THEN {major}
                       ELSE DefaultTypeLibVersions(lib)
           found == {[lib |-> lib, major |-> v] : v \in versions}
       IN IF found # {} /\ found \subseteq libraries THEN found
          ELSE (found \cap libraries) \cup {NoLibrary}

\* The version in the name is never found, and one passed in is not used.
LoadTypeLibFromProgID(progid) ==
  IF ProgID2CLSID(progid) = NoClass THEN {NoLibrary}
  ELSE LoadTypeLibFromCLSID(ProgID2CLSID(progid), 0)

GetCoClassTypeInfo(library, class) ==
  \E i \in Infos : Library(i) = library /\ i.class = class

-----------------------------------------------------------------------------
(* Writing and deleting keys.                                              *)

\* Mutant: a key that is there is left as it is.
CreateRegKeyValue(key, value) ==
  hkcr' = [k \in DOMAIN hkcr \cup {key} |-> IF Has(k) THEN hkcr[k] ELSE value]

SetRegKeyValue(key, value) ==
  hkcr' = [k \in DOMAIN hkcr \cup {key} |->
             IF k = key /\ (value # <<>> \/ ~Has(k)) THEN value ELSE hkcr[k]]

DelRegKey(root) ==
  hkcr' = [k \in {key \in DOMAIN hkcr : key[1] # root} |-> hkcr[k]]

Writes(i) ==
  <<Entry(i.progid, "", <<"name">>), Entry(i.progid, "CLSID", <<i.class>>),
    Entry(i.independent, "", <<"name">>), Entry(i.independent, "CurVer", <<i.progid>>),
    Entry(i.independent, "CLSID", <<i.class>>),
    Entry(i.class, "", <<"name">>), Entry(i.class, "ProgID", <<i.progid>>),
    Entry(i.class, "VersionIndependentProgID", <<i.independent>>),
    Entry(i.class, "LocalServer32", <<i.progid>>)>>
  \o (IF i.script = NoScript THEN <<>>
      ELSE <<Entry(i.class, "InprocServer32", <<"luacom.dll">>),
             Entry(i.class, "ScriptFile", <<i.script>>)>>)
  \o (IF i.control THEN <<Entry(i.class, "Implemented Categories", <<>>)>> ELSE <<>>)
  \o <<Entry(i.class, "Version", <<i.major>>), Entry(i.class, "TypeLib", <<i.lib>>),
       Entry(i.class, "Programmable", <<>>)>>

Deletions(i) == <<i.progid, i.independent, i.class>>

-----------------------------------------------------------------------------
(* The calls.                                                              *)

Roots(i) == {i.progid, i.independent, i.class}
SharesKeys(i, j) == Roots(i) \cap Roots(j) # {}

Begins(op, i, touched) ==
  /\ operations' = operations + 1
  /\ task' = <<[op |-> op, info |-> i, at |-> 1]>>
  /\ settled' = [j \in Infos |-> IF j \in touched THEN "unknown" ELSE settled[j]]

CanBegin == task = <<>> /\ operations < MaxOperations
Returns == task' = <<>>
Settles(i, how) == settled' = [settled EXCEPT ![i] = how]

\* Loading the type library registers it; a call that fails next ends as
\* ProcessEnds does, and one whose library does not load changes nothing.
RegisterObject(i) ==
  /\ CanBegin
  /\ libraries' = libraries \cup {Library(i)}
  /\ Begins("register", i, {j \in Infos : SharesKeys(i, j)})
  /\ UNCHANGED hkcr

WriteKey ==
  /\ task # <<>> /\ task[1].op = "register"
  /\ LET call == task[1]  write == Writes(call.info)[call.at]
     IN /\ SetRegKeyValue(write.key, write.value)
        /\ IF call.at = Len(Writes(call.info))
           THEN Returns /\ Settles(call.info, "registered")
           ELSE task' = [task EXCEPT ![1].at = @ + 1] /\ UNCHANGED settled
  /\ UNCHANGED <<libraries, operations>>

\* RegCreateKeyEx fails, or RegSetValueEx on the key it made.
WriteFails ==
  /\ task # <<>> /\ task[1].op = "register"
  /\ \/ UNCHANGED hkcr
     \/ SetRegKeyValue(Writes(task[1].info)[task[1].at].key, <<>>)
  /\ Returns
  /\ UNCHANGED <<libraries, settled, operations>>

\* What Windows answers for a version, or a root, that may not be there.
WindowsUnRegisters(library) == library \in libraries
SHDeleteKey(root) == IF RootThere(root) THEN "success" ELSE "file not found"

\* Mutant: COM's look-up, for which another version will do.
AnyVersionThere(library) == \E l \in libraries : l.lib = library.lib
VersionThere(library) == library \in libraries

\* What is not there need not be unregistered, or deleted.
UnRegisterTypeLib(library) == VersionThere(library) => WindowsUnRegisters(library)
Accepts(root) == SHDeleteKey(root) \in {"success", "file not found"}

\* When Windows fails what it could do, nothing has changed yet.
UnRegisterObject(i) ==
  /\ CanBegin
  /\ IF UnRegisterTypeLib(Library(i))
     THEN /\ libraries' = libraries \ {Library(i)}
          /\ Begins("unregister", i,
                    {j \in Infos : SharesKeys(i, j) \/ Library(i) = Library(j)})
     ELSE /\ operations' = operations + 1 /\ Settles(i, "refused")
          /\ UNCHANGED <<libraries, task>>
  /\ UNCHANGED hkcr

DeleteKey ==
  /\ task # <<>> /\ task[1].op = "unregister"
  /\ LET call == task[1]  root == Deletions(call.info)[call.at]
     IN /\ DelRegKey(root)
        /\ IF ~Accepts(root) THEN Returns /\ Settles(call.info, "refused")
           ELSE IF call.at = Len(Deletions(call.info))
           THEN Returns /\ Settles(call.info, "unregistered")
           ELSE task' = [task EXCEPT ![1].at = @ + 1] /\ UNCHANGED settled
  /\ UNCHANGED <<libraries, operations>>

\* SHDeleteKey deletes subkeys first; it fails before them or at the root.
DeleteFails ==
  /\ task # <<>> /\ task[1].op = "unregister"
  /\ LET root == Deletions(task[1].info)[task[1].at]
     IN \/ UNCHANGED hkcr
        \/ RootThere(root) /\
           hkcr' = [k \in {key \in DOMAIN hkcr : key[1] # root \/ key[2] = ""} |-> hkcr[k]]
  /\ Returns
  /\ UNCHANGED <<libraries, settled, operations>>

\* The process ends in the middle of a call.
ProcessEnds ==
  /\ task # <<>> /\ Returns
  /\ UNCHANGED <<hkcr, libraries, settled, operations>>

RegistryInit ==
  /\ hkcr = <<>> /\ libraries = {} /\ task = <<>>
  /\ settled = [i \in Infos |-> "unknown"] /\ operations = 0

RegistryNext ==
  \/ \E i \in Infos : RegisterObject(i) \/ UnRegisterObject(i)
  \/ WriteKey \/ WriteFails \/ DeleteKey \/ DeleteFails \/ ProcessEnds

-----------------------------------------------------------------------------
(* Whatever earlier calls that failed or ended half way have left, a call  *)
(* of RegisterObject that returns success leaves a component every look-up *)
(* finds: the class by both names, and from the class the type library of  *)
(* the version registered, and the server.                                 *)
RegisteredWorks ==
  \A i \in Infos : settled[i] = "registered" =>
    /\ ProgID2CLSID(i.progid) = i.class /\ ProgID2CLSID(i.independent) = i.class
    /\ hkcr[<<i.independent, "CurVer">>] = <<i.progid>>
    /\ LoadTypeLibFromProgID(i.independent) = {Library(i)}
    /\ Named(<<i.class, "LocalServer32">>)
    /\ i.script # NoScript =>
         Has(<<i.class, "InprocServer32">>) /\ hkcr[<<i.class, "ScriptFile">>] = <<i.script>>

(* Whatever is there of a component and whatever is not - another of the   *)
(* same library, of the same class or of the same name may have been       *)
(* unregistered first, or a call given up half way - UnRegisterObject does *)
(* not fail because of it, and when it returns success nothing is left     *)
(* under the component's roots.                                            *)
UnregisteringWorks ==
  \A i \in Infos :
    /\ settled[i] # "refused"
    /\ settled[i] = "unregistered" => \A root \in Roots(i) : ~RootThere(root)
================================================================================
