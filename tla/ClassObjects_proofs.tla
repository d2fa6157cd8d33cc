------------------------ MODULE ClassObjects_proofs ------------------------
(***************************************************************************)
(* Registration, Lua states and components, for any tables, any registry   *)
(* and any number of factories, scripts and references.                    *)
(*                                                                         *)
(* What calls of RegisterObject and UnRegisterObject that return success   *)
(* leave in the registry, whatever calls that failed or ended half way     *)
(* have left before: the invariant relates the keys to the place a call    *)
(* has reached.  What it has written is there, what it has deleted is not, *)
(* and a component that has settled shares no key with the call in         *)
(* progress.  Clients and the DLL only read the registry.                  *)
(*                                                                         *)
(* UsedStateOpen is not inductive: a Release must be known not to be the   *)
(* last.  While the DLL is in use every factory has one reference more     *)
(* than clients hold - PutFactory's, which nobody gives up before DllMain, *)
(* not even when another factory takes the place in the cache.             *)
(***************************************************************************)
EXTENDS ClassObjects, SequenceTheorems, TLAPS

-----------------------------------------------------------------------------
(* What one table writes.                                                  *)

Elements(s) == {s[n] : n \in 1 .. Len(s)}

Named9(i) ==
  {Entry(i.progid, "", <<"name">>), Entry(i.progid, "CLSID", <<i.class>>),
   Entry(i.independent, "", <<"name">>), Entry(i.independent, "CurVer", <<i.progid>>),
   Entry(i.independent, "CLSID", <<i.class>>),
   Entry(i.class, "", <<"name">>), Entry(i.class, "ProgID", <<i.progid>>),
   Entry(i.class, "VersionIndependentProgID", <<i.independent>>),
   Entry(i.class, "LocalServer32", <<i.progid>>)}
InProcess(i) ==
  {Entry(i.class, "InprocServer32", <<"luacom.dll">>),
   Entry(i.class, "ScriptFile", <<i.script>>)}
AsControl(i) == {Entry(i.class, "Implemented Categories", <<>>)}
OfLibrary(i) ==
  {Entry(i.class, "Version", <<i.major>>), Entry(i.class, "TypeLib", <<i.lib>>),
   Entry(i.class, "Programmable", <<>>)}

Written(i) ==
  Named9(i) \cup (IF i.script = NoScript THEN {} ELSE InProcess(i))
            \cup (IF i.control THEN AsControl(i) ELSE {}) \cup OfLibrary(i)

\* A part of what is written is followed by the rest.
LEMMA TwoParts ==
  ASSUME NEW S, NEW s \in Seq(S), NEW t \in Seq(S)
  PROVE  s \o t \in Seq(S) /\ Elements(s \o t) = Elements(s) \cup Elements(t)
  <1>1. /\ s \o t \in Seq(S) /\ Len(s) \in Nat /\ Len(t) \in Nat
        /\ Len(s \o t) = Len(s) + Len(t)
        /\ \A n \in 1 .. Len(s) : (s \o t)[n] = s[n]
        /\ \A n \in 1 .. Len(t) : (s \o t)[Len(s) + n] = t[n]
    OBVIOUS
  <1> DEFINE u == s \o t
  <1> HIDE DEF u
  <1>2. \A n \in 1 .. Len(s) : n \in 1 .. Len(u) /\ u[n] = s[n]
    BY <1>1 DEF u
  <1>3. \A n \in 1 .. Len(t) : Len(s) + n \in 1 .. Len(u) /\ u[Len(s) + n] = t[n]
    BY <1>1 DEF u
  <1>4. \A n \in 1 .. Len(u) : n \in 1 .. Len(s)
                               \/ (n - Len(s) \in 1 .. Len(t) /\ u[n] = t[n - Len(s)])
    BY <1>1 DEF u
  <1>5. Elements(u) = Elements(s) \cup Elements(t)
    <2>1. Elements(s) \cup Elements(t) \subseteq Elements(u)
      BY <1>2, <1>3 DEF Elements
    <2>2. ASSUME NEW n \in 1 .. Len(u)
          PROVE  u[n] \in Elements(s) \cup Elements(t)
      BY <1>2, <1>4 DEF Elements
    <2>3. Elements(u) \subseteq Elements(s) \cup Elements(t)
      BY <2>2 DEF Elements
    <2> QED
      BY <2>1, <2>3
  <1> QED
    BY <1>1, <1>5 DEF u

\* RegisterObject writes these keys.
LEMMA WrittenOnes ==
  ASSUME NEW i
  PROVE  /\ Elements(Writes(i)) = Written(i)
         /\ Len(Writes(i)) \in Nat \ {0}
  <1> DEFINE S == Named9(i) \cup InProcess(i) \cup AsControl(i) \cup OfLibrary(i)
             a == <<Entry(i.progid, "", <<"name">>), Entry(i.progid, "CLSID", <<i.class>>),
                    Entry(i.independent, "", <<"name">>),
                    Entry(i.independent, "CurVer", <<i.progid>>),
                    Entry(i.independent, "CLSID", <<i.class>>),
                    Entry(i.class, "", <<"name">>), Entry(i.class, "ProgID", <<i.progid>>),
                    Entry(i.class, "VersionIndependentProgID", <<i.independent>>),
                    Entry(i.class, "LocalServer32", <<i.progid>>)>>
             b == IF i.script = NoScript THEN <<>>
                  ELSE <<Entry(i.class, "InprocServer32", <<"luacom.dll">>),
                         Entry(i.class, "ScriptFile", <<i.script>>)>>
             c == IF i.control THEN <<Entry(i.class, "Implemented Categories", <<>>)>>
                  ELSE <<>>
             d == <<Entry(i.class, "Version", <<i.major>>), Entry(i.class, "TypeLib", <<i.lib>>),
                    Entry(i.class, "Programmable", <<>>)>>
  <1>1. a \in Seq(S) /\ Elements(a) = Named9(i)
    <2> DEFINE e1 == Entry(i.progid, "", <<"name">>)
               e2 == Entry(i.progid, "CLSID", <<i.class>>)
               e3 == Entry(i.independent, "", <<"name">>)
               e4 == Entry(i.independent, "CurVer", <<i.progid>>)
               e5 == Entry(i.independent, "CLSID", <<i.class>>)
               e6 == Entry(i.class, "", <<"name">>)
               e7 == Entry(i.class, "ProgID", <<i.progid>>)
               e8 == Entry(i.class, "VersionIndependentProgID", <<i.independent>>)
               e9 == Entry(i.class, "LocalServer32", <<i.progid>>)
    <2>1. /\ a = <<e1, e2, e3, e4, e5, e6, e7, e8, e9>>
          /\ Named9(i) = {e1, e2, e3, e4, e5, e6, e7, e8, e9}
          /\ Named9(i) \subseteq S
      BY DEF Named9
    <2> HIDE DEF a, S, e1, e2, e3, e4, e5, e6, e7, e8, e9
    <2>2. 1 .. 9 = {1, 2, 3, 4, 5, 6, 7, 8, 9} /\ Len(a) = 9
      BY <2>1
    <2>3. a \in Seq(S)
      BY <2>1
    <2>4. Elements(a) = {a[1], a[2], a[3], a[4], a[5], a[6], a[7], a[8], a[9]}
      BY <2>2 DEF Elements
    <2> QED
      BY <2>1, <2>3, <2>4
  <1>2. b \in Seq(S) /\ Elements(b) = IF i.script = NoScript THEN {} ELSE InProcess(i)
    <2>1. ASSUME NEW e1, NEW e2, NEW T, {e1, e2} \subseteq T
          PROVE  <<e1, e2>> \in Seq(T) /\ Elements(<<e1, e2>>) = {e1, e2}
      <3>1. 1 .. 2 = {1, 2}
        OBVIOUS
      <3> QED
        BY <2>1, <3>1 DEF Elements
    <2>2. \A T : <<>> \in Seq(T) /\ Elements(<<>>) = {}
      BY DEF Elements
    <2> QED
      BY <2>1, <2>2 DEF InProcess
  <1>3. c \in Seq(S) /\ Elements(c) = IF i.control THEN AsControl(i) ELSE {}
    <2>1. ASSUME NEW e, NEW T, e \in T
          PROVE  <<e>> \in Seq(T) /\ Elements(<<e>>) = {e}
      <3>1. 1 .. 1 = {1}
        OBVIOUS
      <3> QED
        BY <2>1, <3>1 DEF Elements
    <2>2. \A T : <<>> \in Seq(T) /\ Elements(<<>>) = {}
      BY DEF Elements
    <2> QED
      BY <2>1, <2>2 DEF AsControl
  <1>4. d \in Seq(S) /\ Elements(d) = OfLibrary(i)
    <2>1. ASSUME NEW e1, NEW e2, NEW e3, NEW T, {e1, e2, e3} \subseteq T
          PROVE  <<e1, e2, e3>> \in Seq(T) /\ Elements(<<e1, e2, e3>>) = {e1, e2, e3}
      <3>1. 1 .. 3 = {1, 2, 3}
        OBVIOUS
      <3> QED
        BY <2>1, <3>1 DEF Elements
    <2> QED
      BY <2>1 DEF OfLibrary
  <1>5. Writes(i) = ((a \o b) \o c) \o d
    BY DEF Writes
  <1> HIDE DEF S, a, b, c, d
  <1>6. PICK ab : ab = a \o b
    OBVIOUS
  <1>7. ab \in Seq(S) /\ Elements(ab) = Elements(a) \cup Elements(b)
    BY <1>1, <1>2, <1>6, TwoParts
  <1>8. PICK abc : abc = ab \o c
    OBVIOUS
  <1>9. abc \in Seq(S) /\ Elements(abc) = Elements(ab) \cup Elements(c)
    BY <1>3, <1>7, <1>8, TwoParts
  <1>10. abc \o d \in Seq(S) /\ Elements(abc \o d) = Elements(abc) \cup Elements(d)
    BY <1>4, <1>9, TwoParts
  <1>11. Elements(Writes(i)) = Written(i) /\ Writes(i) \in Seq(S)
    BY <1>1, <1>2, <1>3, <1>4, <1>5, <1>6, <1>7, <1>8, <1>9, <1>10 DEF Written
  <1>12. Len(Writes(i)) # 0
    <2>1. Written(i) # {}
      BY DEF Written, OfLibrary
    <2> QED
      BY <1>11, <2>1 DEF Elements
  <1> QED
    BY <1>11, <1>12

\* The roots and subkeys RegisterObject writes under, and their values.
Value(i, sub) ==
  CASE sub = "" -> <<"name">>
    [] sub = "CLSID" -> <<i.class>>
    [] sub = "CurVer" -> <<i.progid>>
    [] sub = "ProgID" -> <<i.progid>>
    [] sub = "VersionIndependentProgID" -> <<i.independent>>
    [] sub = "LocalServer32" -> <<i.progid>>
    [] sub = "InprocServer32" -> <<"luacom.dll">>
    [] sub = "ScriptFile" -> <<i.script>>
    [] sub = "Version" -> <<i.major>>
    [] sub = "TypeLib" -> <<i.lib>>
    [] OTHER -> <<>>

\* The value of a subkey of its own.
LEMMA Values ==
  ASSUME NEW i
  PROVE  /\ Value(i, "") = <<"name">> /\ Value(i, "CLSID") = <<i.class>>
         /\ Value(i, "CurVer") = <<i.progid>> /\ Value(i, "ProgID") = <<i.progid>>
         /\ Value(i, "VersionIndependentProgID") = <<i.independent>>
         /\ Value(i, "LocalServer32") = <<i.progid>>
         /\ Value(i, "InprocServer32") = <<"luacom.dll">>
         /\ Value(i, "ScriptFile") = <<i.script>> /\ Value(i, "Version") = <<i.major>>
         /\ Value(i, "TypeLib") = <<i.lib>>
         /\ Value(i, "Implemented Categories") = <<>> /\ Value(i, "Programmable") = <<>>
  BY DEF Value

\* The parts of an entry.
LEMMA EntryParts ==
  ASSUME NEW root, NEW sub, NEW value
  PROVE  /\ Entry(root, sub, value).key = <<root, sub>>
         /\ Entry(root, sub, value).key[1] = root /\ Entry(root, sub, value).key[2] = sub
         /\ Entry(root, sub, value).value = value
  BY DEF Entry

\* A key is under one of the three roots, and its subkey fixes its value; only
\* a table with a script has a ScriptFile.
LEMMA WrittenWhere ==
  ASSUME NEW i, NEW e \in Written(i)
  PROVE  /\ e.key[1] \in Roots(i)
         /\ e.value = Value(i, e.key[2])
         /\ e.key[2] = "ScriptFile" => i.script # NoScript
         /\ e.value = <<>> \/ \E x : e.value = <<x>>
  <1>1. PICK root, sub, value :
          /\ e = Entry(root, sub, value)
          /\ root \in Roots(i) /\ value = Value(i, sub)
          /\ sub = "ScriptFile" => i.script # NoScript
          /\ value = <<>> \/ \E x : value = <<x>>
    <2>1. CASE e \in Named9(i)
      BY <2>1, Values, ZenonT(30) DEF Named9, Roots
    <2>2. CASE i.script # NoScript /\ e \in InProcess(i)
      BY <2>2, Values, ZenonT(30) DEF InProcess, Roots
    <2>3. CASE e \in AsControl(i)
      BY <2>3, Values DEF AsControl, Roots
    <2>4. CASE e \in OfLibrary(i)
      BY <2>4, Values, ZenonT(30) DEF OfLibrary, Roots
    <2> QED
      BY <2>1, <2>2, <2>3, <2>4 DEF Written
  <1> QED
    BY <1>1, EntryParts

-----------------------------------------------------------------------------
(* The inductive invariant.                                                *)

\* An entry is in the registry.
Holds(e) == Has(e.key) /\ (e.value # <<>> => hkcr[e.key] = e.value)

\* Nothing but what some table writes is.
Known ==
  \A key \in DOMAIN hkcr :
    \/ hkcr[key] = <<>>
    \/ \E i \in Infos : \E e \in Written(i) : e.key = key /\ e.value = hkcr[key]

\* Who has keys in common with the call in progress has not settled.
Begun(i) == \A j \in Infos : SharesKeys(i, j) => settled[j] = "unknown"

Registering(i, n) ==
  /\ task = <<[op |-> "register", info |-> i, at |-> n]>> /\ Begun(i)
  /\ Library(i) \in libraries
  /\ \A m \in 1 .. (n - 1) : Holds(Writes(i)[m])

Unregistering(i, n) ==
  /\ task = <<[op |-> "unregister", info |-> i, at |-> n]>> /\ Begun(i)
  /\ \A m \in 1 .. (n - 1) : ~RootThere(Deletions(i)[m])

InProgress ==
  \/ task = <<>>
  \/ \E i \in Infos, n \in Nat \ {0} : n <= Len(Writes(i)) /\ Registering(i, n)
  \/ \E i \in Infos, n \in 1 .. 3 : Unregistering(i, n)

Complete(i) == Library(i) \in libraries /\ \A e \in Written(i) : Holds(e)
Gone(i) == \A root \in Roots(i) : ~RootThere(root)

SettledRight ==
  \A i \in Infos : /\ settled[i] = "registered" => Complete(i)
                   /\ settled[i] = "unregistered" => Gone(i)

RegistryInv ==
  /\ Known
  /\ libraries \subseteq {Library(i) : i \in Infos}
  /\ settled \in [Infos -> {"unknown", "registered", "unregistered"}]
  /\ InProgress /\ SettledRight

-----------------------------------------------------------------------------
(* What the steps do to the keys.                                          *)

\* Keys under other roots than these stay as they are.
Elsewhere(roots) ==
  \A key : key[1] \notin roots =>
    /\ key \in DOMAIN hkcr' <=> key \in DOMAIN hkcr
    /\ key \in DOMAIN hkcr => hkcr'[key] = hkcr[key]

\* Writing a key loses no other, and no value the key has had.
LEMMA SetKey ==
  ASSUME NEW key, NEW value, SetRegKeyValue(key, value)
  PROVE  /\ Elsewhere({key[1]})
         /\ key \in DOMAIN hkcr'
         /\ value # <<>> => hkcr'[key] = value
         /\ value = <<>> => hkcr'[key] = (IF key \in DOMAIN hkcr THEN hkcr[key] ELSE <<>>)
         /\ \A k : k # key => /\ k \in DOMAIN hkcr' <=> k \in DOMAIN hkcr
                              /\ k \in DOMAIN hkcr => hkcr'[k] = hkcr[k]
  <1>1. hkcr' = [k \in DOMAIN hkcr \cup {key} |->
                   IF k = key /\ (value # <<>> \/ ~Has(k)) THEN value ELSE hkcr[k]]
    BY DEF SetRegKeyValue
  <1>2. DOMAIN hkcr' = DOMAIN hkcr \cup {key}
    BY <1>1
  <1>3. \A k \in DOMAIN hkcr' :
          hkcr'[k] = IF k = key /\ (value # <<>> \/ ~Has(k)) THEN value ELSE hkcr[k]
    BY <1>1
  <1>4. \A k : k # key => /\ k \in DOMAIN hkcr' <=> k \in DOMAIN hkcr
                          /\ k \in DOMAIN hkcr => hkcr'[k] = hkcr[k]
    BY <1>2, <1>3
  <1>5. Elsewhere({key[1]})
    BY <1>4 DEF Elsewhere
  <1> QED
    BY <1>2, <1>3, <1>4, <1>5 DEF Has

\* Deleting keys of one root.
LEMMA DeleteKeys ==
  ASSUME NEW root, NEW D, D \subseteq DOMAIN hkcr, hkcr' = [k \in D |-> hkcr[k]],
         \A k \in DOMAIN hkcr : k[1] # root => k \in D
  PROVE  /\ Elsewhere({root})
         /\ DOMAIN hkcr' = D
         /\ Known => Known'
  <1>1. DOMAIN hkcr' = D /\ \A k \in D : hkcr'[k] = hkcr[k]
    OBVIOUS
  <1>2. Elsewhere({root})
    BY <1>1 DEF Elsewhere
  <1>3. Known => Known'
    BY <1>1 DEF Known
  <1> QED
    BY <1>1, <1>2, <1>3

\* What is written of a table is known.
LEMMA SetKnown ==
  ASSUME Known, NEW i \in Infos, NEW e \in Written(i), NEW value, value \in {e.value, <<>>},
         SetRegKeyValue(e.key, value)
  PROVE  Known'
  <1> SUFFICES ASSUME NEW key \in DOMAIN hkcr'
               PROVE  \/ hkcr'[key] = <<>>
                      \/ \E j \in Infos : \E d \in Written(j) :
                           d.key = key /\ d.value = hkcr'[key]
    BY DEF Known
  <1>1. PICK k : k = e.key
    OBVIOUS
  <1>2. SetRegKeyValue(k, value)
    BY <1>1 DEF SetRegKeyValue
  <1>3. /\ value # <<>> => hkcr'[k] = value
        /\ value = <<>> => hkcr'[k] = (IF k \in DOMAIN hkcr THEN hkcr[k] ELSE <<>>)
        /\ key # k => key \in DOMAIN hkcr /\ hkcr'[key] = hkcr[key]
    BY <1>2, SetKey
  <1>4. CASE key = k /\ value # <<>>
    BY <1>1, <1>3, <1>4
  <1>5. CASE ~(key = k /\ value # <<>>)
    <2>1. hkcr'[key] = <<>> \/ (key \in DOMAIN hkcr /\ hkcr'[key] = hkcr[key])
      BY <1>3, <1>5
    <2> QED
      BY <2>1 DEF Known
  <1> QED
    BY <1>4, <1>5

\* Those who share no key with the call in progress keep what they have.
LEMMA SettledStay ==
  ASSUME SettledRight, NEW i \in Infos, Begun(i), Elsewhere(Roots(i)), UNCHANGED libraries
  PROVE  \A j \in Infos : /\ settled[j] = "registered" => Complete(j)'
                          /\ settled[j] = "unregistered" => Gone(j)'
  <1> SUFFICES ASSUME NEW j \in Infos
               PROVE  /\ settled[j] = "registered" => Complete(j)'
                      /\ settled[j] = "unregistered" => Gone(j)'
    OBVIOUS
  <1>1. ASSUME settled[j] # "unknown", NEW key, key[1] \in Roots(j)
        PROVE  /\ key \in DOMAIN hkcr' <=> key \in DOMAIN hkcr
               /\ key \in DOMAIN hkcr => hkcr'[key] = hkcr[key]
    BY <1>1 DEF Begun, SharesKeys, Elsewhere
  <1>2. ASSUME settled[j] = "registered"
        PROVE  Complete(j)'
    <2>1. Complete(j)
      BY <1>2 DEF SettledRight
    <2>2. ASSUME NEW e \in Written(j)
          PROVE  Holds(e)'
      <3>1. e.key[1] \in Roots(j) /\ Holds(e)
        BY <2>1, WrittenWhere DEF Complete
      <3>2. PICK key : key = e.key
        OBVIOUS
      <3>3. /\ key \in DOMAIN hkcr' <=> key \in DOMAIN hkcr
            /\ key \in DOMAIN hkcr => hkcr'[key] = hkcr[key]
        BY <1>1, <1>2, <3>1, <3>2
      <3> QED
        BY <3>1, <3>2, <3>3 DEF Holds, Has
    <2> QED
      BY <2>1, <2>2 DEF Complete
  <1>3. ASSUME settled[j] = "unregistered"
        PROVE  Gone(j)'
    <2>1. Gone(j)
      BY <1>3 DEF SettledRight
    <2> SUFFICES ASSUME NEW root \in Roots(j), NEW key \in DOMAIN hkcr', key[1] = root
                 PROVE  FALSE
      BY DEF Gone, RootThere
    <2>2. key \in DOMAIN hkcr
      BY <1>1, <1>3
    <2> QED
      BY <2>1, <2>2 DEF Gone, RootThere
  <1> QED
    BY <1>2, <1>3

\* An entry of the table that is being registered stays.
LEMMA EntryStays ==
  ASSUME NEW i, NEW w \in Written(i), NEW e \in Written(i), Holds(e),
         NEW value, value \in {w.value, <<>>}, SetRegKeyValue(w.key, value)
  PROVE  Holds(e)'
  <1>1. PICK k : k = w.key
    OBVIOUS
  <1>2. SetRegKeyValue(k, value)
    BY <1>1 DEF SetRegKeyValue
  <1>3. /\ k \in DOMAIN hkcr'
        /\ value # <<>> => hkcr'[k] = value
        /\ value = <<>> => hkcr'[k] = (IF k \in DOMAIN hkcr THEN hkcr[k] ELSE <<>>)
        /\ e.key # k => e.key \in DOMAIN hkcr' /\ hkcr'[e.key] = hkcr[e.key]
    BY <1>2, SetKey DEF Holds, Has
  <1>4. CASE e.key # k
    BY <1>3, <1>4 DEF Holds, Has
  <1>5. CASE e.key = k
    <2>1. e.value = w.value
      BY <1>1, <1>5, WrittenWhere
    <2> QED
      BY <1>3, <1>5, <2>1 DEF Holds, Has
  <1> QED
    BY <1>4, <1>5

\* The call that is in progress, by its kind.
LEMMA RegisteringNow ==
  ASSUME RegistryInv, task # <<>>, task[1].op = "register"
  PROVE  \E i \in Infos, n \in Nat \ {0} : n <= Len(Writes(i)) /\ Registering(i, n)
  <1>1. ~\E i \in Infos, n \in 1 .. 3 : Unregistering(i, n)
    BY DEF Unregistering
  <1> QED
    BY <1>1 DEF RegistryInv, InProgress

\* Likewise.
LEMMA UnregisteringNow ==
  ASSUME RegistryInv, task # <<>>, task[1].op = "unregister"
  PROVE  \E i \in Infos, n \in 1 .. 3 : Unregistering(i, n)
  <1>1. ~\E i \in Infos, n \in Nat \ {0} : n <= Len(Writes(i)) /\ Registering(i, n)
    BY DEF Registering
  <1> QED
    BY <1>1 DEF RegistryInv, InProgress

\* RegisterObject has loaded the library.
LEMMA RegisterKeeps ==
  ASSUME RegistryInv, NEW i \in Infos, RegisterObject(i)
  PROVE  RegistryInv'
  <1>1. /\ Known /\ SettledRight
        /\ settled \in [Infos -> {"unknown", "registered", "unregistered"}]
        /\ libraries' = libraries \cup {Library(i)} /\ UNCHANGED hkcr
        /\ task' = <<[op |-> "register", info |-> i, at |-> 1]>>
        /\ settled' = [j \in Infos |-> IF j \in {k \in Infos : SharesKeys(i, k)}
                                       THEN "unknown" ELSE settled[j]]
    BY DEF RegistryInv, RegisterObject, Begins
  <1>2. /\ settled' \in [Infos -> {"unknown", "registered", "unregistered"}]
        /\ \A j \in Infos : SharesKeys(i, j) => settled'[j] = "unknown"
        /\ \A j \in Infos : settled'[j] # "unknown" => settled'[j] = settled[j]
    BY <1>1
  <1>3. Registering(i, 1)'
    <2>1. Begun(i)'
      BY <1>2 DEF Begun
    <2>2. 1 .. (1 - 1) = {}
      OBVIOUS
    <2> QED
      BY <1>1, <2>1, <2>2 DEF Registering
  <1>4. InProgress'
    <2>1. 1 \in Nat \ {0} /\ 1 <= Len(Writes(i))
      BY WrittenOnes
    <2> QED
      BY <1>3, <2>1 DEF InProgress
  <1>5. Known'
    BY <1>1 DEF Known
  <1>6. SettledRight'
    <2> SUFFICES ASSUME NEW j \in Infos
                 PROVE  /\ settled'[j] = "registered" => Complete(j)'
                        /\ settled'[j] = "unregistered" => Gone(j)'
      BY DEF SettledRight
    <2>1. /\ settled'[j] = "registered" => Complete(j)
          /\ settled'[j] = "unregistered" => Gone(j)
      BY <1>1, <1>2 DEF SettledRight
    <2> QED
      BY <1>1, <2>1 DEF Complete, Gone, Holds, Has, RootThere
  <1>7. libraries' \subseteq {Library(j) : j \in Infos}
    BY <1>1 DEF RegistryInv
  <1> QED
    BY <1>2, <1>4, <1>5, <1>6, <1>7 DEF RegistryInv

\* UnRegisterObject has unregistered the library.
LEMMA UnRegisterKeeps ==
  ASSUME RegistryInv, NEW i \in Infos, UnRegisterObject(i)
  PROVE  RegistryInv'
  <1>1. /\ Known /\ SettledRight
        /\ settled \in [Infos -> {"unknown", "registered", "unregistered"}]
        /\ libraries' = libraries \ {Library(i)} /\ UNCHANGED hkcr
        /\ task' = <<[op |-> "unregister", info |-> i, at |-> 1]>>
        /\ settled' = [j \in Infos |->
             IF j \in {k \in Infos : SharesKeys(i, k) \/ Library(i) = Library(k)}
             THEN "unknown" ELSE settled[j]]
    BY DEF RegistryInv, UnRegisterObject, Begins, UnRegisterTypeLib, VersionThere,
           WindowsUnRegisters
  <1>2. /\ settled' \in [Infos -> {"unknown", "registered", "unregistered"}]
        /\ \A j \in Infos : SharesKeys(i, j) \/ Library(i) = Library(j)
                              => settled'[j] = "unknown"
        /\ \A j \in Infos : settled'[j] # "unknown" => settled'[j] = settled[j]
    BY <1>1
  <1>3. Unregistering(i, 1)'
    <2>1. Begun(i)'
      BY <1>2 DEF Begun
    <2>2. 1 .. (1 - 1) = {}
      OBVIOUS
    <2> QED
      BY <1>1, <2>1, <2>2 DEF Unregistering
  <1>4. InProgress'
    <2>1. 1 \in 1 .. 3
      OBVIOUS
    <2> QED
      BY <1>3, <2>1 DEF InProgress
  <1>5. Known'
    BY <1>1 DEF Known
  <1>6. SettledRight'
    <2> SUFFICES ASSUME NEW j \in Infos
                 PROVE  /\ settled'[j] = "registered" => Complete(j)'
                        /\ settled'[j] = "unregistered" => Gone(j)'
      BY DEF SettledRight
    <2>1. /\ settled'[j] = "registered" => Complete(j) /\ Library(i) # Library(j)
          /\ settled'[j] = "unregistered" => Gone(j)
      BY <1>1, <1>2 DEF SettledRight
    <2> QED
      BY <1>1, <2>1 DEF Complete, Gone, Holds, Has, RootThere
  <1>7. libraries' \subseteq {Library(j) : j \in Infos}
    BY <1>1 DEF RegistryInv
  <1> QED
    BY <1>2, <1>4, <1>5, <1>6, <1>7 DEF RegistryInv

\* RegisterObject writes the next key.
LEMMA WriteKeyKeeps ==
  ASSUME RegistryInv, WriteKey
  PROVE  RegistryInv'
  <1>1. PICK i \in Infos, n \in Nat \ {0} : n <= Len(Writes(i)) /\ Registering(i, n)
    BY RegisteringNow DEF WriteKey
  <1>2. PICK call : call = [op |-> "register", info |-> i, at |-> n]
    OBVIOUS
  <1>3. /\ task = <<call>> /\ call.info = i /\ call.at = n
        /\ task[1] = call
    BY <1>1, <1>2 DEF Registering
  <1>4. PICK w : w = Writes(i)[n]
    OBVIOUS
  <1>5. w \in Written(i)
    <2>1. Len(Writes(i)) \in Nat /\ n \in 1 .. Len(Writes(i))
      BY <1>1, WrittenOnes
    <2> QED
      BY <1>4, <2>1, WrittenOnes DEF Elements
  <1>6. /\ SetRegKeyValue(w.key, w.value)
        /\ IF n = Len(Writes(i))
           THEN task' = <<>> /\ settled' = [settled EXCEPT ![i] = "registered"]
           ELSE task' = [task EXCEPT ![1].at = @ + 1] /\ UNCHANGED settled
        /\ UNCHANGED libraries
    BY <1>3, <1>4 DEF WriteKey, Returns, Settles
  <1>7. Known'
    BY <1>5, <1>6, SetKnown DEF RegistryInv
  <1>8. Elsewhere(Roots(i))
    <2>1. PICK k : k = w.key
      OBVIOUS
    <2>2. SetRegKeyValue(k, w.value) /\ k[1] \in Roots(i)
      BY <1>5, <1>6, <2>1, WrittenWhere DEF SetRegKeyValue
    <2>3. Elsewhere({k[1]})
      BY <2>2, SetKey
    <2> QED
      BY <2>2, <2>3 DEF Elsewhere
  <1>9. /\ \A j \in Infos : /\ settled[j] = "registered" => Complete(j)'
                            /\ settled[j] = "unregistered" => Gone(j)'
        /\ Library(i) \in libraries
    BY <1>1, <1>6, <1>8, SettledStay DEF RegistryInv, Registering
  <1>10. \A m \in 1 .. n : Holds(Writes(i)[m])'
    <2> SUFFICES ASSUME NEW m \in 1 .. n
                 PROVE  Holds(Writes(i)[m])'
      OBVIOUS
    <2>1. PICK e : e = Writes(i)[m]
      OBVIOUS
    <2>2. e \in Written(i)
      <3>1. Len(Writes(i)) \in Nat /\ m \in 1 .. Len(Writes(i))
        BY <1>1, WrittenOnes
      <3> QED
        BY <2>1, <3>1, WrittenOnes DEF Elements
    <2>3. CASE m = n
      <3>1. PICK k : k = w.key
        OBVIOUS
      <3>2. SetRegKeyValue(k, w.value)
        BY <1>6, <3>1 DEF SetRegKeyValue
      <3>3. k \in DOMAIN hkcr' /\ (w.value # <<>> => hkcr'[k] = w.value)
        BY <3>2, SetKey
      <3> QED
        BY <1>4, <2>3, <3>1, <3>3 DEF Holds, Has
    <2>4. CASE m # n
      <3>1. Holds(e)
        BY <1>1, <2>1, <2>4 DEF Registering
      <3>2. Holds(e)'
        BY <1>5, <1>6, <2>2, <3>1, EntryStays
      <3> QED
        BY <2>1, <3>2 DEF Holds, Has
    <2> QED
      BY <2>3, <2>4
  <1>11. CASE n = Len(Writes(i))
    <2>1. task' = <<>> /\ settled' = [settled EXCEPT ![i] = "registered"]
      BY <1>6, <1>11
    <2>2. Complete(i)'
      <3>1. \A e \in Written(i) : \E m \in 1 .. n : e = Writes(i)[m]
        BY <1>11, WrittenOnes DEF Elements
      <3>2. \A e \in Written(i) : Holds(e)'
        BY <1>10, <3>1 DEF Holds, Has
      <3> QED
        BY <1>6, <1>9, <3>2 DEF Complete
    <2>3. /\ settled' \in [Infos -> {"unknown", "registered", "unregistered"}]
          /\ \A j \in Infos : settled'[j] = IF j = i THEN "registered" ELSE settled[j]
      BY <2>1 DEF RegistryInv
    <2>4. SettledRight'
      BY <1>9, <2>2, <2>3 DEF SettledRight
    <2> QED
      BY <1>6, <1>7, <2>1, <2>3, <2>4 DEF RegistryInv, InProgress
  <1>12. CASE n # Len(Writes(i))
    <2>1. /\ task' = <<[op |-> "register", info |-> i, at |-> n + 1]>>
          /\ UNCHANGED settled
      <3>1. task' = <<[call EXCEPT !.at = n + 1]>>
        BY <1>3, <1>6, <1>12
      <3> QED
        BY <1>2, <1>6, <1>12, <3>1
    <2>2. n + 1 \in Nat \ {0} /\ n + 1 <= Len(Writes(i)) /\ (n + 1) - 1 = n
      BY <1>1, <1>12, WrittenOnes
    <2>3. Registering(i, n + 1)'
      <3>1. Begun(i)'
        BY <1>1, <2>1 DEF Registering, Begun
      <3> QED
        BY <1>6, <1>9, <1>10, <2>1, <2>2, <3>1 DEF Registering
    <2>4. InProgress'
      BY <2>2, <2>3 DEF InProgress
    <2>5. SettledRight'
      BY <1>9, <2>1 DEF SettledRight
    <2> QED
      BY <1>6, <1>7, <2>1, <2>4, <2>5 DEF RegistryInv
  <1> QED
    BY <1>11, <1>12

\* RegisterObject fails at a key, or the process ends.
LEMMA WriteFailsKeeps ==
  ASSUME RegistryInv, WriteFails
  PROVE  RegistryInv'
  <1>1. PICK i \in Infos, n \in Nat \ {0} : n <= Len(Writes(i)) /\ Registering(i, n)
    BY RegisteringNow DEF WriteFails
  <1>2. task[1].info = i /\ task[1].at = n
    BY <1>1 DEF Registering
  <1>3. PICK w : w = Writes(i)[n]
    OBVIOUS
  <1>4. w \in Written(i)
    <2>1. Len(Writes(i)) \in Nat /\ n \in 1 .. Len(Writes(i))
      BY <1>1, WrittenOnes
    <2> QED
      BY <1>3, <2>1, WrittenOnes DEF Elements
  <1>5. /\ UNCHANGED hkcr \/ SetRegKeyValue(w.key, <<>>)
        /\ task' = <<>> /\ UNCHANGED <<libraries, settled>>
    BY <1>2, <1>3 DEF WriteFails, Returns
  <1>6. Known' /\ Elsewhere(Roots(i))
    <2>1. CASE UNCHANGED hkcr
      BY <2>1 DEF RegistryInv, Known, Elsewhere
    <2>2. CASE SetRegKeyValue(w.key, <<>>)
      <3>1. Known'
        BY <1>4, <2>2, SetKnown DEF RegistryInv
      <3>2. PICK k : k = w.key
        OBVIOUS
      <3>3. SetRegKeyValue(k, <<>>) /\ k[1] \in Roots(i)
        BY <1>4, <2>2, <3>2, WrittenWhere DEF SetRegKeyValue
      <3>4. Elsewhere({k[1]})
        BY <3>3, SetKey
      <3> QED
        BY <3>1, <3>3, <3>4 DEF Elsewhere
    <2> QED
      BY <1>5, <2>1, <2>2
  <1>7. \A j \in Infos : /\ settled[j] = "registered" => Complete(j)'
                         /\ settled[j] = "unregistered" => Gone(j)'
    BY <1>1, <1>5, <1>6, SettledStay DEF RegistryInv, Registering
  <1>8. SettledRight'
    BY <1>5, <1>7 DEF SettledRight
  <1> QED
    BY <1>5, <1>6, <1>8 DEF RegistryInv, InProgress

\* UnRegisterObject deletes the next root with what is under it.
LEMMA DeleteKeyKeeps ==
  ASSUME RegistryInv, DeleteKey
  PROVE  RegistryInv'
  <1>1. PICK i \in Infos, n \in 1 .. 3 : Unregistering(i, n)
    BY UnregisteringNow DEF DeleteKey
  <1>2. PICK call : call = [op |-> "unregister", info |-> i, at |-> n]
    OBVIOUS
  <1>3. /\ task = <<call>> /\ call.info = i /\ call.at = n /\ task[1] = call
    BY <1>1, <1>2 DEF Unregistering
  <1>4. PICK root : root = Deletions(i)[n]
    OBVIOUS
  <1>5. /\ Len(Deletions(i)) = 3 /\ root \in Roots(i)
        /\ Roots(i) = {Deletions(i)[m] : m \in 1 .. 3}
    <2>1. /\ Deletions(i)[1] = i.progid /\ Deletions(i)[2] = i.independent
          /\ Deletions(i)[3] = i.class /\ Len(Deletions(i)) = 3
      BY DEF Deletions
    <2>2. 1 .. 3 = {1, 2, 3}
      OBVIOUS
    <2>3. Roots(i) = {Deletions(i)[m] : m \in 1 .. 3}
      BY <2>1, <2>2 DEF Roots
    <2> QED
      BY <1>4, <2>1, <2>3
  <1>6. /\ DelRegKey(root)
        /\ IF n = 3
           THEN task' = <<>> /\ settled' = [settled EXCEPT ![i] = "unregistered"]
           ELSE task' = [task EXCEPT ![1].at = @ + 1] /\ UNCHANGED settled
        /\ UNCHANGED libraries
    <2>1. Accepts(root)
      BY DEF Accepts, SHDeleteKey
    <2> QED
      BY <1>3, <1>4, <1>5, <2>1 DEF DeleteKey, Returns, Settles
  <1>7. PICK D : D = {key \in DOMAIN hkcr : key[1] # root}
    OBVIOUS
  <1>8. Elsewhere({root}) /\ DOMAIN hkcr' = D /\ Known'
    <2>1. /\ D \subseteq DOMAIN hkcr /\ hkcr' = [k \in D |-> hkcr[k]]
          /\ \A k \in DOMAIN hkcr : k[1] # root => k \in D
          /\ Known
      BY <1>6, <1>7 DEF DelRegKey, RegistryInv
    <2> QED
      BY <2>1, DeleteKeys
  <1>9. Elsewhere(Roots(i)) /\ ~RootThere(root)'
    BY <1>5, <1>7, <1>8 DEF Elsewhere, RootThere
  <1>10. \A j \in Infos : /\ settled[j] = "registered" => Complete(j)'
                          /\ settled[j] = "unregistered" => Gone(j)'
    BY <1>1, <1>6, <1>9, SettledStay DEF RegistryInv, Unregistering
  <1>11. \A m \in 1 .. n : ~RootThere(Deletions(i)[m])'
    <2> SUFFICES ASSUME NEW m \in 1 .. n
                 PROVE  ~RootThere(Deletions(i)[m])'
      OBVIOUS
    <2>1. CASE m = n
      BY <1>4, <1>9, <2>1 DEF RootThere
    <2>2. CASE m # n
      <3>1. ~RootThere(Deletions(i)[m])
        BY <1>1, <2>2 DEF Unregistering
      <3> QED
        BY <1>7, <1>8, <3>1 DEF RootThere
    <2> QED
      BY <2>1, <2>2
  <1>12. CASE n = 3
    <2>1. task' = <<>> /\ settled' = [settled EXCEPT ![i] = "unregistered"]
      BY <1>6, <1>12
    <2>2. Gone(i)'
      BY <1>5, <1>11, <1>12 DEF Gone, RootThere
    <2>3. /\ settled' \in [Infos -> {"unknown", "registered", "unregistered"}]
          /\ \A j \in Infos : settled'[j] = IF j = i THEN "unregistered" ELSE settled[j]
      BY <2>1 DEF RegistryInv
    <2>4. SettledRight'
      BY <1>10, <2>2, <2>3 DEF SettledRight
    <2> QED
      BY <1>6, <1>8, <2>1, <2>3, <2>4 DEF RegistryInv, InProgress
  <1>13. CASE n # 3
    <2>1. /\ task' = <<[op |-> "unregister", info |-> i, at |-> n + 1]>>
          /\ UNCHANGED settled
      <3>1. task' = <<[call EXCEPT !.at = n + 1]>>
        BY <1>3, <1>6, <1>13
      <3> QED
        BY <1>2, <1>6, <1>13, <3>1
    <2>2. n + 1 \in 1 .. 3 /\ (n + 1) - 1 = n
      BY <1>13
    <2>3. Unregistering(i, n + 1)'
      <3>1. Begun(i)'
        BY <1>1, <2>1 DEF Unregistering, Begun
      <3> QED
        BY <1>11, <2>1, <2>2, <3>1 DEF Unregistering
    <2>4. InProgress'
      BY <2>2, <2>3 DEF InProgress
    <2>5. SettledRight'
      BY <1>10, <2>1 DEF SettledRight
    <2> QED
      BY <1>6, <1>8, <2>1, <2>4, <2>5 DEF RegistryInv
  <1> QED
    BY <1>12, <1>13

\* UnRegisterObject fails before a root or at it.
LEMMA DeleteFailsKeeps ==
  ASSUME RegistryInv, DeleteFails
  PROVE  RegistryInv'
  <1>1. PICK i \in Infos, n \in 1 .. 3 : Unregistering(i, n)
    BY UnregisteringNow DEF DeleteFails
  <1>2. task[1].info = i /\ task[1].at = n
    BY <1>1 DEF Unregistering
  <1>3. PICK root : root = Deletions(i)[n]
    OBVIOUS
  <1>4. root \in Roots(i)
    <2>1. /\ Deletions(i)[1] = i.progid /\ Deletions(i)[2] = i.independent
          /\ Deletions(i)[3] = i.class
      BY DEF Deletions
    <2>2. n \in {1, 2, 3}
      OBVIOUS
    <2> QED
      BY <1>3, <2>1, <2>2 DEF Roots
  <1>5. PICK D : D = {key \in DOMAIN hkcr : key[1] # root \/ key[2] = ""}
    OBVIOUS
  <1>6. /\ UNCHANGED hkcr \/ hkcr' = [k \in D |-> hkcr[k]]
        /\ task' = <<>> /\ UNCHANGED <<libraries, settled>>
    BY <1>2, <1>3, <1>5 DEF DeleteFails, Returns
  <1>7. Known' /\ Elsewhere(Roots(i))
    <2>1. CASE UNCHANGED hkcr
      BY <2>1 DEF RegistryInv, Known, Elsewhere
    <2>2. CASE hkcr' = [k \in D |-> hkcr[k]]
      <3>1. Elsewhere({root}) /\ Known'
        <4>1. /\ D \subseteq DOMAIN hkcr /\ hkcr' = [k \in D |-> hkcr[k]]
              /\ \A k \in DOMAIN hkcr : k[1] # root => k \in D
              /\ Known
          BY <1>5, <2>2 DEF RegistryInv
        <4> QED
          BY <4>1, DeleteKeys
      <3> QED
        BY <1>4, <3>1 DEF Elsewhere
    <2> QED
      BY <1>6, <2>1, <2>2
  <1>8. \A j \in Infos : /\ settled[j] = "registered" => Complete(j)'
                         /\ settled[j] = "unregistered" => Gone(j)'
    BY <1>1, <1>6, <1>7, SettledStay DEF RegistryInv, Unregistering
  <1>9. SettledRight'
    BY <1>6, <1>8 DEF SettledRight
  <1> QED
    BY <1>6, <1>7, <1>9 DEF RegistryInv, InProgress

-----------------------------------------------------------------------------
(* The invariant, and what follows from it.                                *)

\* At first nothing is registered.
LEMMA RegistryStarts ==
  ASSUME RegistryInit
  PROVE  RegistryInv
  <1>1. DOMAIN hkcr = {}
    BY DEF RegistryInit
  <1>2. settled \in [Infos -> {"unknown", "registered", "unregistered"}]
        /\ \A i \in Infos : settled[i] = "unknown"
    BY DEF RegistryInit
  <1> QED
    BY <1>1, <1>2 DEF RegistryInit, RegistryInv, Known, InProgress, SettledRight

\* Every step keeps the invariant.
LEMMA RegistryKeeps ==
  ASSUME RegistryInv, [RegistryNext]_registryVars
  PROVE  RegistryInv'
  <1>1. CASE ProcessEnds
    BY <1>1 DEF ProcessEnds, Returns, RegistryInv, Known, InProgress, SettledRight,
                Complete, Gone, Holds, Has, RootThere
  <1>2. CASE UNCHANGED registryVars
    BY <1>2 DEF registryVars, RegistryInv, Known, InProgress, SettledRight, Registering,
                Unregistering, Begun, Complete, Gone, Holds, Has, RootThere
  <1> QED
    BY <1>1, <1>2, RegisterKeeps, UnRegisterKeeps, WriteKeyKeeps, WriteFailsKeeps,
       DeleteKeyKeeps, DeleteFailsKeeps DEF RegistryNext

\* Every look-up finds a component that is completely registered.
LEMMA CompleteWorks ==
  ASSUME RegistryInv
  PROVE  RegisteredWorks
  <1> SUFFICES ASSUME NEW i \in Infos, settled[i] = "registered"
               PROVE  /\ ProgID2CLSID(i.progid) = i.class
                      /\ ProgID2CLSID(i.independent) = i.class
                      /\ hkcr[<<i.independent, "CurVer">>] = <<i.progid>>
                      /\ LoadTypeLibFromProgID(i.independent) = {Library(i)}
                      /\ Named(<<i.class, "LocalServer32">>)
                      /\ i.script # NoScript =>
                           /\ Has(<<i.class, "InprocServer32">>)
                           /\ hkcr[<<i.class, "ScriptFile">>] = <<i.script>>
    BY DEF RegisteredWorks
  <1>1. Library(i) \in libraries /\ \A e \in Written(i) : Holds(e)
    BY DEF RegistryInv, SettledRight, Complete
  <1>2. ASSUME NEW root, NEW sub, NEW x, Entry(root, sub, <<x>>) \in Written(i)
        PROVE  Has(<<root, sub>>) /\ hkcr[<<root, sub>>] = <<x>> /\ Named(<<root, sub>>)
    <2>1. Holds(Entry(root, sub, <<x>>)) /\ <<x>> # <<>>
      BY <1>1, <1>2
    <2> QED
      BY <2>1, EntryParts DEF Holds, Named
  <1>3. /\ Entry(i.progid, "CLSID", <<i.class>>) \in Written(i)
        /\ Entry(i.independent, "CurVer", <<i.progid>>) \in Written(i)
        /\ Entry(i.independent, "CLSID", <<i.class>>) \in Written(i)
        /\ Entry(i.class, "LocalServer32", <<i.progid>>) \in Written(i)
        /\ Entry(i.class, "Version", <<i.major>>) \in Written(i)
        /\ Entry(i.class, "TypeLib", <<i.lib>>) \in Written(i)
    BY DEF Written, Named9, OfLibrary
  <1>4. i.script # NoScript =>
          /\ Entry(i.class, "InprocServer32", <<"luacom.dll">>) \in Written(i)
          /\ Entry(i.class, "ScriptFile", <<i.script>>) \in Written(i)
    BY DEF Written, InProcess
  <1>5. ProgID2CLSID(i.progid) = i.class /\ ProgID2CLSID(i.independent) = i.class
    BY <1>2, <1>3 DEF ProgID2CLSID
  <1>6. i.class # NoClass
    BY RegistrationAssumption
  <1>7. LoadTypeLibFromCLSID(i.class, 0) = {Library(i)}
    <2> DEFINE versions == IF Named(<<i.class, "Version">>)
                           THEN {hkcr[<<i.class, "Version">>][1]}
                           ELSE IF 0 > 0 THEN {0}
                           ELSE DefaultTypeLibVersions(hkcr[<<i.class, "TypeLib">>][1])
               found == {[lib |-> hkcr[<<i.class, "TypeLib">>][1], major |-> v] : v \in versions}
    <2>1. /\ Named(<<i.class, "TypeLib">>) /\ hkcr[<<i.class, "TypeLib">>][1] = i.lib
          /\ Named(<<i.class, "Version">>) /\ hkcr[<<i.class, "Version">>][1] = i.major
      BY <1>2, <1>3
    <2>2. versions = {i.major}
      BY <2>1
    <2> HIDE DEF versions
    <2>3. found = {Library(i)}
      BY <2>1, <2>2 DEF Library
    <2>4. LoadTypeLibFromCLSID(i.class, 0) =
            IF found # {} /\ found \subseteq libraries THEN found
            ELSE (found \cap libraries) \cup {NoLibrary}
      BY <2>1 DEF LoadTypeLibFromCLSID, versions
    <2> HIDE DEF found
    <2> QED
      BY <1>1, <2>3, <2>4
  <1>8. LoadTypeLibFromProgID(i.independent) = {Library(i)}
    BY <1>5, <1>6, <1>7 DEF LoadTypeLibFromProgID
  <1> QED
    BY <1>2, <1>3, <1>4, <1>5, <1>8

\* No call is refused, and what is unregistered is gone.
LEMMA GoneIsGone ==
  ASSUME RegistryInv
  PROVE  UnregisteringWorks
  BY DEF RegistryInv, SettledRight, Gone, UnregisteringWorks

-----------------------------------------------------------------------------
(* The factories and their states.                                         *)

Fields == {"class", "script", "refs", "held", "objects", "open"}

\* A factory that has not been given up by those who made it.
Kept(f) ==
  /\ DOMAIN f = Fields
  /\ f.refs \in Nat /\ f.held \in Nat /\ f.objects \in Nat
  /\ f.refs > f.held /\ f.open

AllKept(all) ==
  /\ \E n \in Nat : DOMAIN all = 1 .. n
  /\ all = [f \in DOMAIN all |-> all[f]]
  /\ \A f \in DOMAIN all : Kept(all[f])

StatesInv ==
  dll \in {"out", "in"} =>
    /\ AllKept(factories)
    /\ cache \in [Classes -> 0 .. Len(factories)]

-----------------------------------------------------------------------------
(* What the operations do to the factories.                                *)

\* Intervals that are the same end at the same number.
LEMMA SameEnd ==
  ASSUME NEW m \in Nat, NEW n \in Nat, 1 .. m = 1 .. n
  PROVE  m = n
  <1>1. ~(m < n)
    <2>1. m < n => n \in 1 .. n /\ n \notin 1 .. m
      OBVIOUS
    <2> QED
      BY <2>1
  <1>2. ~(n < m)
    <2>1. n < m => m \in 1 .. m /\ m \notin 1 .. n
      OBVIOUS
    <2> QED
      BY <2>1
  <1> QED
    BY <1>1, <1>2

\* A list with this domain is a sequence.
LEMMA IsSequence ==
  ASSUME NEW all, AllKept(all), NEW S, \A f \in DOMAIN all : all[f] \in S
  PROVE  all \in Seq(S) /\ Len(all) \in Nat /\ DOMAIN all = 1 .. Len(all)
  <1>1. PICK n \in Nat : DOMAIN all = 1 .. n
    BY DEF AllKept
  <1>2. all \in [1 .. n -> S]
    BY <1>1 DEF AllKept
  <1> QED
    BY <1>1, <1>2

\* A change of one factory that keeps it, keeps all.
LEMMA OneChanges ==
  ASSUME NEW all, AllKept(all), NEW f \in DOMAIN all, NEW new, Kept(new)
  PROVE  AllKept([all EXCEPT ![f] = new]) /\ Len([all EXCEPT ![f] = new]) = Len(all)
  <1>1. /\ DOMAIN [all EXCEPT ![f] = new] = DOMAIN all
        /\ AllKept([all EXCEPT ![f] = new])
    BY DEF AllKept
  <1>2. /\ Len([all EXCEPT ![f] = new]) \in Nat
        /\ DOMAIN [all EXCEPT ![f] = new] = 1 .. Len([all EXCEPT ![f] = new])
        /\ Len(all) \in Nat /\ DOMAIN all = 1 .. Len(all)
    BY <1>1, IsSequence
  <1> QED
    BY <1>1, <1>2

\* QueryInterface adds a reference that a client holds.
LEMMA QueryInterfaceKeeps ==
  ASSUME NEW all, AllKept(all), NEW f \in DOMAIN all
  PROVE  AllKept(QueryInterface(all, f)) /\ Len(QueryInterface(all, f)) = Len(all)
  <1> DEFINE new == [all[f] EXCEPT !.refs = @ + 1, !.held = @ + 1]
  <1>1. Kept(all[f])
    BY DEF AllKept
  <1>2. Kept(new)
    BY <1>1 DEF Kept, Fields
  <1>3. QueryInterface(all, f) = [all EXCEPT ![f] = new]
    BY DEF QueryInterface
  <1> HIDE DEF new
  <1>4. AllKept([all EXCEPT ![f] = new]) /\ Len([all EXCEPT ![f] = new]) = Len(all)
    BY <1>2, OneChanges
  <1> QED
    BY <1>3, <1>4

\* PutFactory's reference is nobody's who could be asked for it.
LEMMA MadeKeeps ==
  ASSUME NEW all, AllKept(all), NEW script
  PROVE  LET f == Len(all) + 1
             made == Append(all, NewFactory(script))
         IN  /\ AllKept(QueryInterface(PutFactory(made, f), f))
             /\ Len(QueryInterface(PutFactory(made, f), f)) = f
  <1> DEFINE f == Len(all) + 1
             made == Append(all, NewFactory(script))
             put == PutFactory(made, f)
             new == [NewFactory(script) EXCEPT !.refs = @ + 1]
  <1> DEFINE S == {all[g] : g \in DOMAIN all} \cup {NewFactory(script)}
  <1>1. all \in Seq(S) /\ Len(all) \in Nat /\ DOMAIN all = 1 .. Len(all)
    <2>1. \A g \in DOMAIN all : all[g] \in S
      OBVIOUS
    <2> HIDE DEF S
    <2> QED
      BY <2>1, IsSequence
  <1>2. /\ DOMAIN made = 1 .. f /\ made = [g \in 1 .. f |-> made[g]]
        /\ made[f] = NewFactory(script)
        /\ \A g \in DOMAIN all : made[g] = all[g]
    <2>1. NewFactory(script) \in S
      OBVIOUS
    <2>2. made \in Seq(S) /\ Len(made) = f
      BY <1>1, <2>1
    <2> HIDE DEF S, made
    <2>3. DOMAIN made = 1 .. f /\ made = [g \in 1 .. f |-> made[g]]
      BY <2>2
    <2> QED
      BY <1>1, <2>1, <2>3 DEF made
  <1>3. Kept(new)
    BY DEF Kept, Fields, NewFactory
  <1>4. put = [made EXCEPT ![f] = new]
    BY <1>2 DEF PutFactory
  <1>5. f \in Nat /\ f \in 1 .. f
    BY <1>1
  <1>6. AllKept(put)
    <2>1. DOMAIN put = 1 .. f /\ put = [g \in DOMAIN put |-> put[g]]
      BY <1>2, <1>4
    <2>2. ASSUME NEW g \in 1 .. f
          PROVE  Kept(put[g])
      <3>1. CASE g = f
        BY <1>2, <1>3, <1>4, <1>5, <3>1
      <3>2. CASE g # f
        <4>1. g \in DOMAIN all
          BY <1>1, <3>2
        <4>2. put[g] = all[g]
          BY <1>2, <1>4, <3>2, <4>1
        <4> QED
          BY <4>1, <4>2 DEF AllKept
      <3> QED
        BY <3>1, <3>2
    <2> QED
      BY <1>5, <2>1, <2>2 DEF AllKept
  <1>7. f \in DOMAIN put
    BY <1>2, <1>4, <1>5
  <1>8. Len(put) = f
    <2>1. Len(put) \in Nat /\ DOMAIN put = 1 .. Len(put)
      BY <1>6, IsSequence
    <2>2. DOMAIN put = 1 .. f
      BY <1>2, <1>4
    <2> HIDE DEF put, f
    <2> QED
      BY <1>5, <2>1, <2>2, SameEnd
  <1> HIDE DEF put
  <1>9. AllKept(QueryInterface(put, f)) /\ Len(QueryInterface(put, f)) = f
    BY <1>6, <1>7, <1>8, QueryInterfaceKeeps
  <1> QED
    BY <1>9 DEF put

\* A client gives back a reference of its own: it is not the last.
LEMMA ReleaseKeeps ==
  ASSUME AllKept(factories), NEW f \in DOMAIN factories, factories[f].held > 0
  PROVE  /\ AllKept([Release(f) EXCEPT ![f].held = @ - 1])
         /\ Len([Release(f) EXCEPT ![f].held = @ - 1]) = Len(factories)
  <1> DEFINE new == [factories[f] EXCEPT !.refs = factories[f].refs - 1,
                                         !.open = factories[f].refs > 1,
                                         !.held = factories[f].held - 1]
  <1>1. Kept(factories[f])
    BY DEF AllKept
  <1>2. Kept(new)
    <2>1. (factories[f].refs > 1) = TRUE
      BY <1>1 DEF Kept
    <2>2. new = [factories[f] EXCEPT !.refs = factories[f].refs - 1, !.open = TRUE,
                                     !.held = factories[f].held - 1]
      BY <2>1
    <2> HIDE DEF new
    <2> QED
      BY <1>1, <2>2 DEF Kept, Fields
  <1>3. [Release(f) EXCEPT ![f].held = @ - 1] = [factories EXCEPT ![f] = new]
    BY <1>1 DEF Release, Kept, Fields
  <1> QED
    BY <1>2, <1>3, OneChanges

\* The number of objects says nothing about the Lua state.
LEMMA ObjectsKeep ==
  ASSUME AllKept(factories), NEW f \in DOMAIN factories, NEW n \in Nat
  PROVE  /\ AllKept([factories EXCEPT ![f].objects = n])
         /\ Len([factories EXCEPT ![f].objects = n]) = Len(factories)
  <1>1. Kept([factories[f] EXCEPT !.objects = n])
    BY DEF AllKept, Kept, Fields
  <1> QED
    BY <1>1, OneChanges

-----------------------------------------------------------------------------
(* The invariant.                                                          *)

\* At first there are no factories.
LEMMA StatesInit == Init => StatesInv
  <1>1. AllKept(<<>>)
    <2>1. DOMAIN <<>> = 1 .. 0 /\ 1 .. 0 = {}
      OBVIOUS
    <2> QED
      BY <2>1 DEF AllKept
  <1> QED
    BY <1>1 DEF Init, StatesInv

\* Every step keeps the references, or the DLL is in use no more.
LEMMA StatesNext == StatesInv /\ [Next]_vars => StatesInv'
  <1> SUFFICES ASSUME StatesInv, [Next]_vars
               PROVE  StatesInv'
    OBVIOUS
  <1>1. CASE RegistryNext /\ UNCHANGED dllVars
    BY <1>1 DEF dllVars, StatesInv
  <1>2. CASE LoadDll
    BY <1>2 DEF LoadDll, StatesInv
  <1>3. CASE ExposeObject \/ Collect \/ ScriptFails
    BY <1>3 DEF ExposeObject, Collect, ScriptFails, StatesInv
  <1>4. CASE ScriptReturns
    <2>1. AllKept(factories)
      BY <1>4 DEF ScriptReturns, ClientCalls, StatesInv
    <2>2. cache \in [Classes -> 0 .. Len(factories)] /\ Len(factories) \in Nat
      BY <1>4, <2>1, IsSequence DEF ScriptReturns, ClientCalls, StatesInv
    <2>3. AllKept(factories') /\ Len(factories') = Len(factories) + 1
      BY <1>4, <2>1, MadeKeeps DEF ScriptReturns
    <2>4. cache' = [cache EXCEPT ![Top.class] = Len(factories) + 1]
      BY <1>4 DEF ScriptReturns
    <2>5. cache' \in [Classes -> 0 .. Len(factories) + 1]
      <3>1. \A class \in Classes : cache'[class] \in 0 .. Len(factories) + 1
        BY <2>2, <2>4
      <3> QED
        BY <2>2, <2>4, <3>1
    <2> QED
      BY <2>3, <2>5 DEF StatesInv
  <1>5. CASE ScriptReturnsNoTable \/ ScriptReturnsNothing \/ DllMainDetach
    BY <1>5 DEF ScriptReturnsNoTable, ScriptReturnsNothing, Crash, DllMainDetach, StatesInv
  <1>6. ASSUME NEW class \in Classes, GetClassObject(class)
        PROVE  StatesInv'
    <2>1. AllKept(factories) /\ cache \in [Classes -> 0 .. Len(factories)]
      BY <1>6 DEF GetClassObject, ClientCalls, StatesInv
    <2>2. factories' = QueryInterface(factories, cache[class])
      BY <1>6 DEF GetClassObject
    <2>3. Len(factories) \in Nat /\ DOMAIN factories = 1 .. Len(factories)
      BY <2>1, IsSequence
    <2>4. cache[class] \in DOMAIN factories
      BY <1>6, <2>1, <2>3 DEF GetClassObject
    <2> QED
      BY <1>6, <2>1, <2>2, <2>4, QueryInterfaceKeeps DEF GetClassObject, StatesInv
  <1>7. ASSUME NEW class \in Classes, DoRegistryFile(class) \/ DeletesUnsetName(class)
        PROVE  StatesInv'
    BY <1>7 DEF DoRegistryFile, DeletesUnsetName, Crash, dllVars, StatesInv
  <1>8. ASSUME NEW f \in DOMAIN factories,
               CreateInstance(f) \/ ReleaseObject(f) \/ ReleaseFactory(f)
        PROVE  StatesInv'
    <2>1. AllKept(factories) /\ cache \in [Classes -> 0 .. Len(factories)]
      BY <1>8 DEF CreateInstance, ReleaseObject, ReleaseFactory, ClientCalls, StatesInv
    <2>2. factories[f].objects \in Nat
      BY <2>1 DEF AllKept, Kept
    <2>3. CASE CreateInstance(f)
      <3>1. /\ factories[f].objects + 1 \in Nat
            /\ factories' = [factories EXCEPT ![f].objects = factories[f].objects + 1]
            /\ cache' = cache
        BY <2>2, <2>3 DEF CreateInstance
      <3> QED
        BY <2>1, <3>1, ObjectsKeep DEF StatesInv
    <2>4. CASE ReleaseObject(f)
      <3>1. /\ factories[f].objects - 1 \in Nat
            /\ factories' = [factories EXCEPT ![f].objects = factories[f].objects - 1]
            /\ cache' = cache
        BY <2>2, <2>4 DEF ReleaseObject
      <3> QED
        BY <2>1, <3>1, ObjectsKeep DEF StatesInv
    <2>5. CASE ReleaseFactory(f)
      BY <2>1, <2>5, ReleaseKeeps DEF ReleaseFactory, StatesInv
    <2> QED
      BY <1>8, <2>3, <2>4, <2>5
  <1>9. CASE UNCHANGED vars
    BY <1>9 DEF vars, dllVars, StatesInv
  <1> QED
    BY <1>1, <1>2, <1>3, <1>4, <1>5, <1>6, <1>7, <1>8, <1>9 DEF Next

\* Whatever is registered, and whoever runs inside whom: as long as a client
\* holds a class object or an object made from it, the Lua state of its script
\* is open (tLuaCOMClassFactory, DllGetClassObject).
THEOREM UsedStateAlwaysOpen == Spec => []UsedStateOpen
  <1>1. StatesInv => UsedStateOpen
    BY DEF StatesInv, AllKept, Kept, UsedStateOpen
  <1> QED
    BY <1>1, StatesInit, StatesNext, PTL DEF Spec

-----------------------------------------------------------------------------
(* Types, and what successful calls leave in the registry.                 *)

TypesInv ==
  /\ dll \in {"out", "in", "gone", "crashed"}
  /\ factories \in Seq(Factory)
  /\ cache \in [Classes -> 0 .. Len(factories)]
  /\ running \in Seq(Running)

ServerInv == RegistryInv /\ StatesInv /\ TypesInv

\* A sequence in which one element is another of the same kind.
LEMMA OneOther ==
  ASSUME NEW S, NEW s \in Seq(S), NEW n \in 1 .. Len(s), NEW v \in S
  PROVE  [s EXCEPT ![n] = v] \in Seq(S) /\ Len([s EXCEPT ![n] = v]) = Len(s)
  OBVIOUS

\* A running script has been read from the registry.
LEMMA ScriptIsKnown ==
  ASSUME RegistryInv, NEW class, Named(<<class, "ScriptFile">>)
  PROVE  hkcr[<<class, "ScriptFile">>][1] \in Scripts
  <1>1. PICK key : key = <<class, "ScriptFile">>
    OBVIOUS
  <1>2. key \in DOMAIN hkcr /\ hkcr[key] # <<>>
    BY <1>1 DEF Named, Has
  <1>3. PICK i \in Infos : \E e \in Written(i) : e.key = key /\ e.value = hkcr[key]
    BY <1>2 DEF RegistryInv, Known
  <1>4. key[2] = "ScriptFile"
    BY <1>1
  <1>5. hkcr[key] = <<i.script>> /\ i.script # NoScript
    BY <1>3, <1>4, WrittenWhere, Values
  <1> QED
    BY <1>1, <1>5 DEF Scripts

\* A new factory, with its two references.
LEMMA MadeType ==
  ASSUME NEW all \in Seq(Factory), NEW script \in Running
  PROVE  LET f == Len(all) + 1
             made == Append(all, NewFactory(script))
         IN  QueryInterface(PutFactory(made, f), f) \in Seq(Factory)
  <1> DEFINE f == Len(all) + 1
             made == Append(all, NewFactory(script))
             one == [NewFactory(script) EXCEPT !.refs = 1]
             two == [one EXCEPT !.refs = 2, !.held = 1]
  <1>1. NewFactory(script) \in Factory
    BY DEF NewFactory, Factory, Running
  <1>2. one \in Factory /\ one.refs = 1 /\ one.held = 0
    <2>1. NewFactory(script).held = 0
      BY DEF NewFactory
    <2> HIDE DEF two
    <2> QED
      BY <1>1, <2>1 DEF Factory
  <1>3. two \in Factory
    <2> HIDE DEF one
    <2> QED
      BY <1>2 DEF Factory
  <1>4. made \in Seq(Factory) /\ Len(made) = f /\ made[f] = NewFactory(script) /\ f \in 1 .. f
    BY <1>1
  <1> HIDE DEF made, f, one, two
  <1>5. PutFactory(made, f) = [made EXCEPT ![f] = one]
    <2>1. made[f].refs + 1 = 1
      BY <1>4 DEF NewFactory
    <2>2. PutFactory(made, f) = [made EXCEPT ![f] = [made[f] EXCEPT !.refs = 1]]
      BY <2>1 DEF PutFactory
    <2> QED
      BY <1>4, <2>2 DEF one
  <1>6. PICK put : put = [made EXCEPT ![f] = one]
    OBVIOUS
  <1>7. put \in Seq(Factory) /\ Len(put) = f /\ put[f] = one
    BY <1>2, <1>4, <1>6, OneOther
  <1>8. QueryInterface(put, f) = [put EXCEPT ![f] = two]
    <2>1. put[f].refs + 1 = 2 /\ put[f].held + 1 = 1
      BY <1>2, <1>7
    <2>2. QueryInterface(put, f) = [put EXCEPT ![f] = [put[f] EXCEPT !.refs = 2, !.held = 1]]
      BY <1>7, <2>1 DEF QueryInterface
    <2> QED
      BY <1>7, <2>2 DEF two
  <1>9. QueryInterface(put, f) \in Seq(Factory)
    BY <1>3, <1>4, <1>7, <1>8, OneOther
  <1> QED
    BY <1>5, <1>6, <1>9 DEF made, f

\* QueryInterface and Release change one factory into another.
LEMMA CountsType ==
  ASSUME NEW all \in Seq(Factory), NEW f \in 1 .. Len(all)
  PROVE  QueryInterface(all, f) \in Seq(Factory) /\ Len(QueryInterface(all, f)) = Len(all)
  <1>1. all[f] \in Factory
    OBVIOUS
  <1>2. PICK refs, held : refs = all[f].refs + 1 /\ held = all[f].held + 1
    OBVIOUS
  <1>3. refs \in Nat /\ held \in Nat
    BY <1>1, <1>2 DEF Factory
  <1>4. PICK new : new = [all[f] EXCEPT !.refs = refs, !.held = held]
    OBVIOUS
  <1>5. new \in Factory
    BY <1>1, <1>3, <1>4 DEF Factory
  <1>6. QueryInterface(all, f) = [all EXCEPT ![f] = new]
    BY <1>2, <1>4 DEF QueryInterface
  <1> QED
    BY <1>5, <1>6, OneOther

\* A factory whose references are counted can do without one.
LEMMA ReleaseType ==
  ASSUME factories \in Seq(Factory), AllKept(factories), NEW f \in DOMAIN factories,
         NEW held \in Nat
  PROVE  /\ [Release(f) EXCEPT ![f].held = held] \in Seq(Factory)
         /\ Len([Release(f) EXCEPT ![f].held = held]) = Len(factories)
         /\ Release(f)[f] \in Factory
  <1>1. factories[f] \in Factory /\ f \in 1 .. Len(factories)
    OBVIOUS
  <1>2. PICK refs : refs = factories[f].refs - 1
    OBVIOUS
  <1>3. refs \in Nat
    BY <1>2 DEF AllKept, Kept
  <1>4. PICK open \in BOOLEAN : open = (factories[f].refs > 1)
    <2>1. CASE factories[f].refs > 1
      <3>1. TRUE = (factories[f].refs > 1)
        BY <2>1
      <3> QED
        BY <3>1
    <2>2. CASE ~(factories[f].refs > 1)
      <3>1. FALSE = (factories[f].refs > 1)
        BY <2>2
      <3> QED
        BY <3>1
    <2> QED
      BY <2>1, <2>2
  <1>5. PICK g : g = factories[f]
    OBVIOUS
  <1>6. PICK new : new = [g EXCEPT !.refs = refs, !.open = open]
    OBVIOUS
  <1>7. new \in Factory /\ [new EXCEPT !.held = held] \in Factory
    BY <1>1, <1>3, <1>5, <1>6 DEF Factory
  <1>8. Release(f) = [factories EXCEPT ![f] = new]
    BY <1>2, <1>4, <1>5, <1>6 DEF Release
  <1>9. Release(f) \in Seq(Factory) /\ Len(Release(f)) = Len(factories) /\ Release(f)[f] = new
    BY <1>1, <1>7, <1>8, OneOther
  <1>10. PICK s : s = Release(f)
    OBVIOUS
  <1>11. [s EXCEPT ![f].held = held] = [s EXCEPT ![f] = [new EXCEPT !.held = held]]
    BY <1>9, <1>10
  <1>12. s \in Seq(Factory) /\ f \in 1 .. Len(s)
    BY <1>1, <1>9, <1>10
  <1>13. /\ [s EXCEPT ![f] = [new EXCEPT !.held = held]] \in Seq(Factory)
         /\ Len([s EXCEPT ![f] = [new EXCEPT !.held = held]]) = Len(s)
    BY <1>7, <1>12, OneOther
  <1> QED
    BY <1>7, <1>9, <1>10, <1>11, <1>13

\* At first there is nothing.
LEMMA ServerInit ==
  ASSUME Init
  PROVE  ServerInv
  <1>1. RegistryInv /\ StatesInv
    BY RegistryStarts, StatesInit DEF Init
  <1>2. <<>> \in Seq(Factory) /\ <<>> \in Seq(Running) /\ Len(<<>>) = 0 /\ 0 \in 0 .. 0
    OBVIOUS
  <1>3. TypesInv
    BY <1>2 DEF Init, TypesInv
  <1> QED
    BY <1>1, <1>3 DEF ServerInv

\* Every step keeps the types.
LEMMA TypesNext ==
  ASSUME ServerInv, Next
  PROVE  TypesInv'
  <1>1. /\ TypesInv /\ RegistryInv /\ StatesInv
        /\ factories \in Seq(Factory) /\ running \in Seq(Running)
        /\ DOMAIN factories = 1 .. Len(factories) /\ Len(factories) \in Nat
    BY DEF ServerInv, TypesInv
  <1>2. CASE RegistryNext /\ UNCHANGED dllVars
    BY <1>1, <1>2 DEF dllVars, TypesInv
  <1>3. CASE LoadDll
    BY <1>1, <1>3 DEF LoadDll, TypesInv
  <1>4. CASE running # <<>> /\ Pop /\ UNCHANGED <<dll, factories, cache>>
    <2>1. SubSeq(running, 1, Len(running) - 1) \in Seq(Running)
      <3>1. Len(running) - 1 \in Int /\ \A r \in 1 .. (Len(running) - 1) : running[r] \in Running
        BY <1>1
      <3> QED
        BY <3>1, SubSeqProperties
    <2> QED
      BY <1>1, <1>4, <2>1 DEF Pop, TypesInv
  <1>5. CASE \E how \in {"exposed", "freed"} :
               /\ running # <<>> /\ UNCHANGED <<dll, factories, cache>>
               /\ running' = [running EXCEPT ![Len(running)].object = how]
    <2>1. PICK how \in {"exposed", "freed"} :
            running' = [running EXCEPT ![Len(running)].object = how]
      BY <1>5
    <2>2. Len(running) \in 1 .. Len(running) /\ running[Len(running)] \in Running
      BY <1>1, <1>5
    <2>3. PICK top : top = running[Len(running)]
      OBVIOUS
    <2>4. [top EXCEPT !.object = how] \in Running
      BY <2>2, <2>3 DEF Running
    <2>5. running' = [running EXCEPT ![Len(running)] = [top EXCEPT !.object = how]]
      BY <2>1, <2>3
    <2>6. running' \in Seq(Running)
      BY <1>1, <2>2, <2>4, <2>5, OneOther
    <2> QED
      BY <1>1, <1>5, <2>6 DEF TypesInv
  <1>6. CASE Crash
    <2>1. <<>> \in Seq(Factory) /\ <<>> \in Seq(Running) /\ Len(<<>>) = 0 /\ 0 \in 0 .. 0
      OBVIOUS
    <2> QED
      BY <1>6, <2>1 DEF Crash, TypesInv
  <1>7. CASE ScriptReturns
    <2>1. PICK top : top = Top
      OBVIOUS
    <2>2. PICK all : all = factories
      OBVIOUS
    <2>3. top \in Running /\ all \in Seq(Factory) /\ AllKept(all) /\ dll = "in"
      BY <1>1, <1>7, <2>1, <2>2 DEF ScriptReturns, ClientCalls, Top, StatesInv
    <2>4. factories' = QueryInterface(PutFactory(Append(all, NewFactory(top)), Len(all) + 1),
                                      Len(all) + 1)
      BY <1>7, <2>1, <2>2 DEF ScriptReturns
    <2>5. factories' \in Seq(Factory)
      BY <2>3, <2>4, MadeType
    <2>6. Len(factories') = Len(factories) + 1
      BY <2>2, <2>3, <2>4, MadeKeeps
    <2>7. cache' = [cache EXCEPT ![top.class] = Len(factories) + 1] /\ UNCHANGED dll
      BY <1>7, <2>1 DEF ScriptReturns
    <2>8. cache' \in [Classes -> 0 .. Len(factories')]
      <3>1. cache \in [Classes -> 0 .. Len(factories)]
        BY <1>1 DEF TypesInv
      <3>2. \A class \in Classes : cache'[class] \in 0 .. Len(factories) + 1
        BY <1>1, <2>7, <3>1
      <3> QED
        BY <2>6, <2>7, <3>1, <3>2
    <2>9. running' \in Seq(Running)
      <3>1. Len(running) - 1 \in Int /\ \A r \in 1 .. (Len(running) - 1) : running[r] \in Running
        BY <1>1
      <3> QED
        BY <1>7, <3>1, SubSeqProperties DEF ScriptReturns, Pop
    <2> QED
      BY <1>1, <2>5, <2>7, <2>8, <2>9 DEF TypesInv
  <1>8. CASE DllMainDetach
    <2>1. AllKept(factories)
      BY <1>1, <1>8 DEF DllMainDetach, ClientCalls, StatesInv
    <2>2. \A f \in DOMAIN factories : Release(f)[f] \in Factory /\ factories[f] \in Factory
      <3> SUFFICES ASSUME NEW f \in DOMAIN factories
                   PROVE  Release(f)[f] \in Factory /\ factories[f] \in Factory
        OBVIOUS
      <3>1. 0 \in Nat /\ factories[f] \in Factory
        BY <1>1
      <3>2. Release(f)[f] \in Factory
        BY <1>1, <2>1, <3>1, ReleaseType
      <3> QED
        BY <3>1, <3>2
    <2>3. factories' = [f \in 1 .. Len(factories) |->
            IF cache[factories[f].class] = f THEN Release(f)[f] ELSE factories[f]]
      BY <1>1, <1>8 DEF DllMainDetach
    <2>4. factories' \in [1 .. Len(factories) -> Factory]
      BY <1>1, <2>2, <2>3
    <2>5. factories' \in Seq(Factory) /\ Len(factories') = Len(factories)
      BY <1>1, <2>4
    <2> QED
      BY <1>1, <1>8, <2>5 DEF DllMainDetach, TypesInv
  <1>9. ASSUME NEW class \in Classes, GetClassObject(class)
        PROVE  TypesInv'
    <2>1. cache[class] \in 1 .. Len(factories)
      BY <1>1, <1>9 DEF GetClassObject, TypesInv
    <2>2. factories' = QueryInterface(factories, cache[class]) /\ UNCHANGED <<dll, cache, running>>
      BY <1>9 DEF GetClassObject
    <2>3. factories' \in Seq(Factory) /\ Len(factories') = Len(factories)
      BY <1>1, <2>1, <2>2, CountsType
    <2> QED
      BY <1>1, <2>2, <2>3 DEF TypesInv
  <1>10. ASSUME NEW class \in Classes, DoRegistryFile(class)
         PROVE  TypesInv'
    <2>1. PICK script : script = hkcr[<<class, "ScriptFile">>][1]
      OBVIOUS
    <2>2. script \in Scripts
      BY <1>1, <1>10, <2>1, ScriptIsKnown DEF DoRegistryFile
    <2>3. [class |-> class, object |-> "none", script |-> script] \in Running
      BY <2>2 DEF Running
    <2>4. running' = Append(running, [class |-> class, object |-> "none", script |-> script])
      BY <1>10, <2>1 DEF DoRegistryFile
    <2>5. running' \in Seq(Running)
      BY <1>1, <2>3, <2>4
    <2> QED
      BY <1>1, <1>10, <2>5 DEF DoRegistryFile, TypesInv
  <1>11. ASSUME NEW f \in DOMAIN factories, CreateInstance(f) \/ ReleaseObject(f)
         PROVE  TypesInv'
    <2>1. factories[f] \in Factory /\ f \in 1 .. Len(factories)
      BY <1>1
    <2>2. PICK n \in Nat : factories' = [factories EXCEPT ![f].objects = n]
      <3>1. factories[f].objects \in Nat
        BY <2>1 DEF Factory
      <3>2. CASE CreateInstance(f)
        <4>1. factories[f].objects + 1 \in Nat
          BY <3>1
        <4> QED
          BY <3>2, <4>1 DEF CreateInstance
      <3>3. CASE ReleaseObject(f)
        <4>1. factories[f].objects - 1 \in Nat
          BY <3>1, <3>3 DEF ReleaseObject
        <4> QED
          BY <3>3, <4>1 DEF ReleaseObject
      <3> QED
        BY <1>11, <3>2, <3>3
    <2>3. PICK g : g = factories[f]
      OBVIOUS
    <2>4. [g EXCEPT !.objects = n] \in Factory
      BY <2>1, <2>3 DEF Factory
    <2>5. factories' = [factories EXCEPT ![f] = [g EXCEPT !.objects = n]]
      BY <2>2, <2>3
    <2>6. factories' \in Seq(Factory) /\ Len(factories') = Len(factories)
      BY <1>1, <2>1, <2>4, <2>5, OneOther
    <2> QED
      BY <1>1, <1>11, <2>6 DEF CreateInstance, ReleaseObject, TypesInv
  <1>12. ASSUME NEW f \in DOMAIN factories, ReleaseFactory(f)
         PROVE  TypesInv'
    <2>1. AllKept(factories)
      BY <1>1, <1>12 DEF ReleaseFactory, ClientCalls, StatesInv
    <2>2. Release(f)[f].held = factories[f].held
      <3>1. factories[f] \in Factory /\ f \in 1 .. Len(factories)
        BY <1>1
      <3> QED
        BY <1>1, <3>1 DEF Release, Factory
    <2>3. PICK held : held = factories[f].held - 1
      OBVIOUS
    <2>4. held \in Nat
      BY <1>1, <1>12, <2>1, <2>3 DEF ReleaseFactory, AllKept, Kept
    <2>5. factories' = [Release(f) EXCEPT ![f].held = held] /\ UNCHANGED <<dll, cache, running>>
      BY <1>12, <2>2, <2>3 DEF ReleaseFactory
    <2>6. factories' \in Seq(Factory) /\ Len(factories') = Len(factories)
      BY <1>1, <2>1, <2>4, <2>5, ReleaseType
    <2> QED
      BY <1>1, <2>5, <2>6 DEF TypesInv
  <1> QED
    <2>1. CASE ExposeObject \/ Collect
      BY <1>5, <2>1 DEF ExposeObject, Collect
    <2>2. CASE ScriptFails
      BY <1>4, <2>2 DEF ScriptFails
    <2>3. CASE ScriptReturnsNoTable \/ ScriptReturnsNothing
      BY <1>6, <2>3 DEF ScriptReturnsNoTable, ScriptReturnsNothing
    <2>4. ASSUME NEW class \in Classes, DeletesUnsetName(class)
          PROVE  TypesInv'
      <3>1. CASE UNCHANGED dllVars
        BY <1>1, <3>1 DEF dllVars, TypesInv
      <3> QED
        BY <1>6, <2>4, <3>1 DEF DeletesUnsetName
    <2> QED
      BY <1>2, <1>3, <1>7, <1>8, <1>9, <1>10, <1>11, <1>12, <2>1, <2>2, <2>3, <2>4 DEF Next

\* The library and the registry change in turns.
LEMMA RegistryTurns ==
  ASSUME Next
  PROVE  [RegistryNext]_registryVars
  BY DEF Next, LoadDll, ExposeObject, Collect, ScriptFails, ScriptReturns,
         ScriptReturnsNoTable, ScriptReturnsNothing, DllMainDetach, GetClassObject,
         DoRegistryFile, DeletesUnsetName, CreateInstance, ReleaseObject, ReleaseFactory, ClientCalls

\* The invariant holds in every state of the server and the registry.
LEMMA ServerInvariance == Spec => []ServerInv
  <1>1. Init => ServerInv
    BY ServerInit
  <1>2. ServerInv /\ [Next]_vars => ServerInv'
    <2> SUFFICES ASSUME ServerInv, [Next]_vars
                 PROVE  ServerInv'
      OBVIOUS
    <2>1. StatesInv'
      BY StatesNext DEF ServerInv
    <2>2. RegistryInv'
      <3>1. [RegistryNext]_registryVars
        BY RegistryTurns DEF vars
      <3> QED
        BY <3>1, RegistryKeeps DEF ServerInv
    <2>3. TypesInv'
      <3>1. CASE UNCHANGED vars
        BY <3>1 DEF vars, dllVars, ServerInv, TypesInv
      <3> QED
        BY <3>1, TypesNext
    <2> QED
      BY <2>1, <2>2, <2>3 DEF ServerInv
  <1> QED
    BY <1>1, <1>2, PTL DEF Spec

\* Every variable keeps its type: a value in the registry is one element at
\* most, and a script that runs is one that some table has named.
THEOREM ServerTypes == Spec => []TypeOK
  <1>1. ServerInv => TypeOK
    <2> SUFFICES ASSUME ServerInv
                 PROVE  TypeOK
      OBVIOUS
    <2>1. RegistryInv /\ TypesInv
      BY DEF ServerInv
    <2>2. ASSUME NEW key \in DOMAIN hkcr
          PROVE  Len(hkcr[key]) <= 1
      <3>1. CASE hkcr[key] = <<>>
        BY <3>1
      <3>2. CASE hkcr[key] # <<>>
        <4>1. PICK i \in Infos : \E e \in Written(i) : e.value = hkcr[key]
          BY <2>1, <3>2 DEF RegistryInv, Known
        <4>2. PICK e \in Written(i) : e.value = hkcr[key]
          BY <4>1
        <4>3. PICK x : e.value = <<x>>
          BY <3>2, <4>2, WrittenWhere
        <4> QED
          BY <4>2, <4>3
      <3> QED
        BY <3>1, <3>2
    <2>3. /\ \A f \in DOMAIN factories : factories[f] \in Factory
          /\ \A r \in DOMAIN running : running[r] \in Running
      BY <2>1 DEF TypesInv
    <2> QED
      BY <2>1, <2>2, <2>3 DEF TypeOK, TypesInv, RegistryInv
  <1> QED
    BY <1>1, ServerInvariance, PTL

\* A call of RegisterObject that returns success leaves a component that every
\* look-up finds, whatever failed calls and other components have left, and
\* until somebody touches its keys or its library again.
THEOREM RegisteredAlwaysWorks == Spec => []RegisteredWorks
  <1>1. ServerInv => RegisteredWorks
    BY CompleteWorks DEF ServerInv
  <1> QED
    BY <1>1, ServerInvariance, PTL

\* A call of UnRegisterObject does not fail because of what earlier calls, for
\* this component or another, have left or taken away, and one that returns
\* success leaves nothing of the component.
THEOREM UnregisteringAlwaysWorks == Spec => []UnregisteringWorks
  <1>1. ServerInv => UnregisteringWorks
    BY GoneIsGone DEF ServerInv
  <1> QED
    BY <1>1, ServerInvariance, PTL

=============================================================================
