------------------------------- MODULE Calls -------------------------------
(***************************************************************************)
(* One call of a member of a table that LuaCOM serves, from the arguments  *)
(* a client gives to the values it gets back.  The client is a script that *)
(* calls through a LuaCOM object with type information ("typed") or        *)
(* without it ("untyped"), or a program in another language ("foreign")    *)
(* that builds its own DISPPARAMS.  tLuaCOMTypeHandler turns Lua values    *)
(* into DISPPARAMS and back on both sides, tLuaDispatch calls the function *)
(* in between, and tLuaCOM::call clears up whatever happened.              *)
(*                                                                         *)
(* A value is a string; what a variable of the caller or a CoTaskMemAlloc  *)
(* block holds is in mem, and a DISPPARAMS argument is a value (cell 0) or *)
(* a reference to a block.                                                 *)
(***************************************************************************)
EXTENDS Naturals, Sequences, FiniteSets

CONSTANTS
    FuncDescs,      \* the members' descriptions: see IsFuncDesc
    MaxResults      \* how many values a function returns at most

Given    == <<"a1", "a2", "a3">>            \* what the client gives
Returned == <<"r1", "r2", "r3", "r4">>      \* what the function returns
Nil     == "nil"
Empty   == "VT_EMPTY"
Missing == "VT_ERROR"                       \* DISP_E_PARAMNOTFOUND
Zero    == "0"
Default == "default"
Bad     == "bad"                            \* a string that is no number
Int64s  == {"a1", "a3"}                     \* VT_I8 or VT_UI8 in a VARIANT

ParamDesc == {p \in [flags : SUBSET {"in", "out", "opt", "default"}, byref : BOOLEAN,
                      type : {"VT_I4", "VT_VARIANT"}] : "out" \in p.flags => p.byref}

IsFuncDesc(f) == /\ f.invkind \in {"func", "get", "put"}
                 /\ f.void \in BOOLEAN
                 /\ f.params \in Seq(ParamDesc)
                 /\ Len(f.params) <= Len(Given)

ASSUME CallsAssumption ==
    /\ \A f \in FuncDescs : IsFuncDesc(f)
    /\ MaxResults \in 0 .. Len(Returned)

VARIABLES
    pc,         \* how far the call is
    client,     \* who calls
    desc,       \* the FUNCDESC of the member
    flags,      \* the invocation kinds that the client asks for
    args,       \* what the client gives, in its language
    rgvarg,     \* DISPPARAMS: the arguments, the last one first
    named,      \* rgdispidNamedArgs: the positions of the first ones in rgvarg
    asks,       \* pvarResult # NULL
    mem,        \* the blocks: content and how often they were freed
    sent,       \* rgvarg as the client built it
    attempt,    \* which way the server tries the member: method or property
    got,        \* what the function or the table received
    outs,       \* what the function returned
    result,     \* *pvarResult
    hr,         \* Invoke's answer
    answer      \* what the client's call returns

vars == <<pc, client, desc, flags, args, rgvarg, named, asks, mem, sent,
          attempt, got, outs, result, hr, answer>>

Init ==
    /\ pc = "idle" /\ client = "none" /\ flags = {} /\ asks = TRUE
    /\ desc = [invkind |-> "func", void |-> TRUE, params |-> <<>>]
    /\ args = <<>> /\ rgvarg = <<>> /\ named = <<>> /\ mem = <<>> /\ sent = <<>>
    /\ attempt = "none" /\ got = <<>> /\ outs = <<>>
    /\ result = Empty /\ hr = "none" /\ answer = <<>>

-----------------------------------------------------------------------------
(* Values. *)

Reverse(s) == [i \in DOMAIN s |-> s[Len(s) + 1 - i]]

\* VariantSize and memset, or VariantInit: what a new block holds.
Blank(type) == IF type = "VT_I4" THEN Zero ELSE Empty

\* VariantChangeType, for values that Convertible accepts.
Convertible(v, type) == type = "VT_VARIANT" \/ v \notin {Bad, Missing}
Converted(v, type) == IF v \in {Empty, Nil} THEN Blank(type) ELSE v

FromLua(v) == IF v = Nil THEN Empty ELSE v
ToLua(v) == IF v \in {Empty, Missing} THEN Nil ELSE v

Content(m, a) == IF a.cell = 0 THEN a.val ELSE m[a.cell].val

ByValue(v) == [cell |-> 0, type |-> "VT_VARIANT", val |-> v]

\* A parameter that is flagged as output only takes no argument.
PureOut(p) == "in" \notin p.flags /\ p.flags # {} /\ "opt" \notin p.flags
IsIn(p) == "in" \in p.flags \/ p.flags = {}

\* The indices of the parameters of s that satisfy P, up to the i-th.
CountUpTo(s, i, P(_)) == Cardinality({j \in 1 .. i : P(s[j])})
TakesArgument(p) == ~PureOut(p)

-----------------------------------------------------------------------------
(* The client's side: fillDispParams. *)

\* tLuaObjList::getparam
GetParam(as, k) == IF k \in DOMAIN as THEN as[k] ELSE Nil

\* With type information: the i-th parameter's value, and whether it goes by
\* reference.
TypedValue(ps, as, i) ==
    LET p == ps[i]
        v == GetParam(as, CountUpTo(ps, i, TakesArgument))
    IN  CASE PureOut(p) -> Blank(p.type)
          [] ~PureOut(p) /\ v # Nil -> v
          [] ~PureOut(p) /\ v = Nil /\ "default" \in p.flags -> Default
          [] OTHER -> IF {"in", "opt"} \subseteq p.flags THEN Missing ELSE Empty

TypedByRef(ps, as, i) == /\ "out" \in ps[i].flags \/ ps[i].byref
                         /\ TypedValue(ps, as, i) # Missing

\* initByRefParam and toByRefParam: the arguments with these values and types,
\* those in byRef as references to new blocks: <<arguments, blocks>>.
Laid(values, types, byRef) ==
    LET Cell(i) == IF i \in byRef THEN Cardinality({j \in byRef : j <= i}) ELSE 0
        At(c) == CHOOSE i \in byRef : Cell(i) = c
    IN  << [i \in DOMAIN values |->
               [cell |-> Cell(i), type |-> types[i],
                val |-> IF i \in byRef THEN "byref" ELSE values[i]]],
           [c \in 1 .. Cardinality(byRef) |->
               [val |-> Converted(values[At(c)], types[At(c)]), freed |-> 0]] >>

\* releaseVariants: each block that an argument refers to is freed.
ReleaseVariants(m, as) ==
    [c \in DOMAIN m |->
        [m[c] EXCEPT !.freed = @ + Cardinality({i \in DOMAIN as : as[i].cell = c})]]

\* (The blocks forgotten.)
ForgetBlocks(m, as) == mem' = m /\ rgvarg' = <<>>

\* The catch of fillDispParams clears up the arguments made so far and leaves
\* DISPPARAMS empty, for ~CallContext.
CleanUp(m, as) == mem' = ReleaseVariants(m, as) /\ rgvarg' = <<>>

FillDispParams(values, types, byRef) ==
    LET bad == {i \in byRef : ~Convertible(values[i], types[i])}
        n == IF bad = {} THEN Len(values) ELSE CHOOSE i \in bad : \A j \in bad : i <= j
        laid == Laid(SubSeq(values, 1, n), types, byRef \cap 1 .. n)
    IN  /\ sent' = Reverse(laid[1])
        /\ IF bad = {}
           THEN /\ rgvarg' = Reverse(laid[1]) /\ mem' = laid[2]
                /\ pc' = "sent" /\ hr' = "none"
           ELSE /\ CleanUp(laid[2], laid[1])
                /\ pc' = "answered" /\ hr' = "thrown"

Start(c, f, as) ==
    /\ client' = c /\ desc' = f /\ args' = as
    /\ UNCHANGED <<attempt, got, outs, result, answer>>

\* A script calls a member through an object that has type information.
CallTyped(f, as) ==
    /\ Start("typed", f, as)
    /\ flags' = {f.invkind} /\ asks' = TRUE /\ named' = <<>>
    /\ FillDispParams([i \in DOMAIN f.params |-> TypedValue(f.params, as, i)],
                      [i \in DOMAIN f.params |-> f.params[i].type],
                      {i \in DOMAIN f.params : TypedByRef(f.params, as, i)})

\* The same without type information: every argument is a VARIANT by reference.
CallUntyped(f, as) ==
    /\ Start("untyped", f, as)
    /\ flags' = IF f.invkind = "put" THEN {"put"} ELSE {"func", "get"}
    /\ asks' = TRUE /\ named' = <<>>
    /\ FillDispParams([i \in DOMAIN as |-> FromLua(as[i])],
                      [i \in DOMAIN as |-> "VT_VARIANT"], DOMAIN as)

\* Another program's call: variables for the parameters that are references,
\* values for the others, and Missing for what it omits.  The first arguments
\* go by position, the byName others by name, in either order.  An
\* optional one that goes by name can be left out altogether instead: gap is its
\* place, or 0.
CallForeign(f, as, byName, falling, gap, wants) ==
    /\ Start("foreign", f, as)
    /\ flags' = {f.invkind} /\ asks' = wants
    /\ LET n == Len(as)
           values == [i \in 1 .. n |-> IF as[i] = Nil THEN Missing ELSE as[i]]
           types == [i \in 1 .. n |-> f.params[i].type]
           byRef == {i \in 1 .. n : f.params[i].byref /\ as[i] # Nil}
           laid == Laid(values, types, byRef)
           position == [k \in 1 .. n |->
                           IF k <= byName /\ ~falling THEN n - byName + k
                           ELSE n + 1 - k]
           gaps == IF gap = 0 THEN 0 ELSE 1
           there(k) == position[IF gap = 0 \/ k < gap THEN k ELSE k + 1]
       IN  /\ \A i \in byRef : Convertible(values[i], types[i])
           /\ gap # 0 => /\ as[position[gap]] = Nil /\ position[gap] # n
                         /\ "opt" \in f.params[position[gap]].flags
           /\ named' = [k \in 1 .. byName - gaps |-> there(k)]
           /\ sent' = [k \in 1 .. n - gaps |-> laid[1][there(k)]]
           /\ rgvarg' = sent' /\ mem' = laid[2] /\ pc' = "sent" /\ hr' = "none"

-----------------------------------------------------------------------------
(* The server's side: tLuaDispatch::Invoke. *)

\* (Positions alone, names ignored.)
ByPosition(arg) == IF arg <= Len(rgvarg) THEN Len(rgvarg) - arg + 1 ELSE 0

\* Where the argument for a position is in rgvarg; 0 if it is not there.
IndexOf(arg) ==
    IF arg <= Len(rgvarg) - Len(named) THEN Len(rgvarg) - arg + 1
    ELSE IF \E k \in DOMAIN named : named[k] = arg
         THEN CHOOSE k \in DOMAIN named : named[k] = arg
         ELSE 0

\* pushLuaArgs: what one argument adds to the function's arguments.
Pushed(arg) ==
    LET p == desc.params[arg]
        a == rgvarg[IndexOf(arg)]
    IN  CASE ~IsIn(p) -> <<>>
          [] IsIn(p) /\ IndexOf(arg) = 0 -> <<Nil>>
          [] IsIn(p) /\ IndexOf(arg) # 0 /\ a.cell = 0 /\ a.val = Empty /\ p.flags = {} -> <<>>
          [] IsIn(p) /\ IndexOf(arg) # 0 /\ a.cell = 0
                /\ (a.val = Missing \/ (a.val = Empty /\ p.flags # {})) -> <<Nil>>
          [] OTHER -> <<ToLua(Converted(Content(mem, a), p.type))>>

PushFails(arg) ==
    LET p == desc.params[arg]
        a == rgvarg[IndexOf(arg)]
    IN  /\ IsIn(p) /\ IndexOf(arg) # 0
        /\ ~(a.cell = 0 /\ a.val \in {Missing, Empty})
        /\ ~Convertible(Content(mem, a), p.type)

Concat(f, n) == LET upTo[i \in 0 .. n] == IF i = 0 THEN <<>> ELSE upTo[i-1] \o f[i]
                IN  upTo[n]

PushLuaArgs == Concat([i \in DOMAIN rgvarg |-> Pushed(i)], Len(rgvarg))

\* propertyget and propertyput push every argument as it is.
PushAll == [i \in DOMAIN rgvarg |-> ToLua(Content(mem, Reverse(rgvarg)[i]))]

Answer(h) == pc' = "answered" /\ hr' = h

\* setRetval: the value goes into a new VARIANT and a reference to it.
SetRetval(v) == result' = IF asks /\ ~desc.void THEN FromLua(v) ELSE result

\* propertyget: a function is called with every argument.
PropertyGet(member) ==
    /\ attempt' = "get"
    /\ CASE member = "function" ->
                got' = PushAll /\ pc' = "running" /\ UNCHANGED <<hr, result>>
         [] member \in {"value", "container"} ->
                Answer("S_OK") /\ SetRetval(Returned[1]) /\ UNCHANGED got
         [] member = "nothing" ->
                Answer("DISP_E_MEMBERNOTFOUND") /\ UNCHANGED <<got, result>>

\* propertyput: a function is called; otherwise a value, or an index and a
\* value, go into the table, or into the table or userdata that it holds.
PropertyPut(member) ==
    /\ attempt' = "put"
    /\ IF \/ member = "function" \/ Len(rgvarg) = 1
          \/ (member = "container" /\ Len(rgvarg) = 2)
       THEN /\ got' = PushAll
            /\ IF member = "function" THEN pc' = "running" /\ UNCHANGED hr
               ELSE Answer("S_OK")
       ELSE Answer("DISP_E_EXCEPTION") /\ UNCHANGED got
    /\ UNCHANGED result

\* method fails: Invoke tries the member as a property, if the client allows it.
MethodFails(h, member) ==
    IF "get" \in flags THEN PropertyGet(member)
    ELSE Answer(h) /\ attempt' = "func" /\ UNCHANGED <<got, result>>

\* method; an argument that cannot be converted ends Invoke at once.
Method(member) ==
    CASE member # "function" -> MethodFails("DISP_E_MEMBERNOTFOUND", member)
      [] member = "function" /\ (\E i \in DOMAIN rgvarg : PushFails(i)) ->
             Answer("DISP_E_EXCEPTION") /\ attempt' = "func" /\ UNCHANGED <<got, result>>
      [] OTHER ->
             /\ got' = PushLuaArgs /\ attempt' = "func" /\ pc' = "running"
             /\ UNCHANGED <<hr, result>>

\* Invoke: under the member's name the table holds a function, a table or
\* userdata ("container"), another value, or nothing.
Invoke(member) ==
    /\ pc = "sent"
    /\ CASE "put" \in flags -> PropertyPut(member)
         [] flags = {"get"} -> PropertyGet(member)
         [] "func" \in flags -> Method(member)
    /\ UNCHANGED <<client, desc, flags, args, rgvarg, named, asks, mem, sent, outs, answer>>

\* The function ends with an error.
Raises ==
    /\ pc = "running"
    /\ IF attempt = "func" THEN MethodFails("DISP_E_EXCEPTION", "function")
       ELSE Answer("DISP_E_EXCEPTION") /\ UNCHANGED <<attempt, got, result>>
    /\ UNCHANGED <<client, desc, flags, args, rgvarg, named, asks, mem, sent, outs, answer>>

\* (No result set aside for the return value.)
AllOutputs(rs) == rs

\* The function's first result is the return value, when there is one.
RetvalTaken == asks /\ ~desc.void
ForOutputs(rs) == IF RetvalTaken /\ rs # <<>> THEN Tail(rs) ELSE rs

\* The type of a block, which lua2com is told: a VARIANT has that of its content.
Hint(m, a) == IF a.type = "VT_VARIANT" /\ Content(m, a) \in Int64s THEN "VT_I8"
              ELSE a.type

\* setOutValues: the results that are left go to the parameters that are
\* references, in their order; an argument that holds no block, or is output
\* only, gets a new one.  A value that cannot be converted ends it.
SetOutValue(st, i) ==
    LET k == IndexOf(i)
        p == desc.params[i]
        fresh == PureOut(p) \/ st.rg[k].cell = 0
        type == IF fresh THEN p.type ELSE Hint(st.mem, st.rg[k])
        cell == IF fresh THEN Len(st.mem) + 1 ELSE st.rg[k].cell
        v == FromLua(Head(st.left))
        holds == [val |-> IF Convertible(v, type) THEN Converted(v, type) ELSE Blank(type),
                  freed |-> 0]
    IN  CASE st.left = <<>> \/ st.failed \/ ~p.byref -> st
          [] ~(st.left = <<>> \/ st.failed \/ ~p.byref) /\ k = 0 ->
             [st EXCEPT !.left = Tail(st.left)]
          [] OTHER ->
             [rg |-> IF fresh THEN [st.rg EXCEPT ![k] = [cell |-> cell, type |-> type,
                                                         val |-> "byref"]] ELSE st.rg,
              mem |-> IF fresh THEN Append(st.mem, holds)
                      ELSE IF Convertible(v, type) THEN [st.mem EXCEPT ![cell] = holds]
                      ELSE st.mem,
              left |-> Tail(st.left),
              failed |-> ~Convertible(v, type)]

\* The arguments and blocks after each of the parameters.
OutValues(rs) ==
    LET after[i \in 0 .. Len(rgvarg)] ==
            IF i = 0 THEN [rg |-> rgvarg, mem |-> mem, left |-> rs, failed |-> FALSE]
            ELSE SetOutValue(after[i-1], i)
    IN  after

SetOutValues(rs) ==
    \E st \in {OutValues(rs)[Len(rgvarg)]} :
        /\ rgvarg' = st.rg /\ mem' = st.mem
        /\ Answer(IF st.failed THEN "DISP_E_EXCEPTION" ELSE "S_OK")

\* The function returns.
Returns(rs) ==
    /\ outs' = rs
    /\ CASE attempt = "func" ->
                /\ SetOutValues(ForOutputs(rs))
                /\ result' = IF RetvalTaken /\ rs # <<>> THEN FromLua(rs[1]) ELSE result
         [] attempt = "get" ->
                /\ SetRetval(IF rs = <<>> THEN Nil ELSE rs[1])
                /\ Answer("S_OK") /\ UNCHANGED <<rgvarg, mem>>
         [] attempt = "put" ->
                Answer("S_OK") /\ UNCHANGED <<rgvarg, mem, result>>
    /\ UNCHANGED <<client, desc, flags, args, named, asks, sent, attempt, got, answer>>

-----------------------------------------------------------------------------
(* The client gets its answer. *)

\* pushOutValues
IsOut(arg) == LET a == Reverse(rgvarg)[arg]
              IN  (client = "typed" /\ "out" \in desc.params[arg].flags) \/ a.cell # 0
PushOutValues ==
    Concat([i \in DOMAIN rgvarg |->
               IF IsOut(i) THEN <<ToLua(Content(mem, Reverse(rgvarg)[i]))>> ELSE <<>>],
           Len(rgvarg))

PushesResult == client = "untyped" \/ ~desc.void

\* callWithDispatch after Invoke, and ~CallContext.
LuaComReturns ==
    /\ pc = "answered" /\ client \in {"typed", "untyped"}
    /\ answer' = IF hr # "S_OK" THEN <<>>
                 ELSE (IF PushesResult THEN <<ToLua(result)>> ELSE <<>>)
                      \o (IF "func" \in flags THEN PushOutValues ELSE <<>>)
    /\ mem' = ReleaseVariants(mem, rgvarg)
    /\ pc' = "done"
    /\ UNCHANGED <<client, desc, flags, args, rgvarg, named, asks, sent, attempt,
                   got, outs, result, hr>>

\* A foreign caller reads its own variables.
ForeignReturns ==
    /\ pc = "answered" /\ client = "foreign"
    /\ answer' = [k \in DOMAIN sent |-> Content(mem, sent[k])]
    /\ pc' = "done"
    /\ UNCHANGED <<client, desc, flags, args, rgvarg, named, asks, mem, sent, attempt,
                   got, outs, result, hr>>

\* The next call starts from nothing.
NextCall ==
    /\ pc = "done"
    /\ pc' = "idle" /\ client' = "none" /\ flags' = {} /\ asks' = TRUE
    /\ desc' = [invkind |-> "func", void |-> TRUE, params |-> <<>>]
    /\ args' = <<>> /\ rgvarg' = <<>> /\ named' = <<>> /\ mem' = <<>> /\ sent' = <<>>
    /\ attempt' = "none" /\ got' = <<>> /\ outs' = <<>>
    /\ result' = Empty /\ hr' = "none" /\ answer' = <<>>

\* What a client gives and a function returns: values in order, at most one of
\* them nil or not convertible to a number.
Lists(values, n) ==
    UNION {{SubSeq(values, 1, k)} \cup
           {[SubSeq(values, 1, k) EXCEPT ![j] = x] : j \in 1 .. k, x \in {Nil, Bad}} :
           k \in 0 .. n}

Call ==
    /\ pc = "idle"
    /\ \E f \in FuncDescs : \E as \in Lists(Given, Len(f.params)) :
          \/ CallTyped(f, as)
          \/ CallUntyped(f, as)
          \/ \E byName \in 0 .. Len(as), falling, wants \in BOOLEAN :
              \E gap \in 0 .. byName :
                 /\ byName > 0 => f.invkind = "func"
                 /\ byName < 2 => falling
                 /\ CallForeign(f, as, byName, falling, gap, wants)

Next == \/ Call
        \/ \E member \in {"function", "container", "value", "nothing"} : Invoke(member)
        \/ Raises
        \/ pc = "running" /\ \E rs \in Lists(Returned, MaxResults) : Returns(rs)
        \/ LuaComReturns
        \/ ForeignReturns
        \/ NextCall

Spec == Init /\ [][Next]_vars

-----------------------------------------------------------------------------
(* Properties. *)

\* A parameter that has no direction and is left out shifts those after it:
\* pushLuaArgs takes it for an output.
Skipped == \E i \in DOMAIN rgvarg : /\ IndexOf(i) # 0 /\ desc.params[i].flags = {}
                                    /\ rgvarg[IndexOf(i)].cell = 0
                                    /\ rgvarg[IndexOf(i)].val = Empty

\* An argument by name behind one that is left out has a position beyond their
\* number, where the server does not look.
Gapped == \E k \in DOMAIN named : named[k] > Len(rgvarg)

\* What the policy of parameter passing says of the i-th parameter: the value
\* that the client meant for it, its default value, or nil - which a block of a
\* number turns into zero.
Meant(i) ==
    LET p == desc.params[i]
        v == CASE client = "typed" -> TypedValue(desc.params, args, i)
               [] client = "untyped" -> FromLua(args[i])
               [] client = "foreign" -> args[i]
    IN  IF v = Empty /\ (p.byref \/ client = "untyped")
        THEN ToLua(Blank(p.type)) ELSE ToLua(v)

\* Every argument reaches its parameter: a method receives the values of its
\* in and in-out parameters in their order, whichever way the client sent them -
\* typed, untyped, by position or by name - and a property receives all.  (Not
\* so a named argument behind one that is left out: see NamedArrive.)
\* (fillDispParams, pushLuaArgs, propertyget, propertyput)
ArgumentsArrive ==
    pc = "running" /\ ~Skipped /\ ~Gapped =>
        got = IF attempt = "func"
              THEN Concat([i \in DOMAIN rgvarg |->
                      IF IsIn(desc.params[i]) THEN <<Meant(i)>> ELSE <<>>], Len(rgvarg))
              ELSE [i \in DOMAIN rgvarg |-> ToLua(Content(mem, rgvarg[IndexOf(i)]))]

\* doc/luacom.tex, lines 2227-2229: LuaCOM handles calls with named parameters
\* correctly.  So each of them reaches its parameter, whichever are left out.
NamedArrive ==
    pc = "running" /\ attempt = "func" /\ ~Skipped =>
        \A k \in DOMAIN named :
            LET place == CountUpTo(desc.params, named[k], IsIn)
            IN  IsIn(desc.params[named[k]]) =>
                    place \in DOMAIN got /\ got[place] = Meant(named[k])

ByRefParams == {i \in DOMAIN rgvarg : desc.params[i].byref}
OutFor(arg) == Cardinality({j \in ByRefParams : j <= arg})

\* The function's results after the return value belong to the parameters that
\* are references, in their order.
ResultFor(i) == OutFor(i) + (IF desc.void THEN 0 ELSE 1)
Assigned(i) == desc.params[i].byref /\ ResultFor(i) \in DOMAIN outs

\* What the i-th parameter holds after the call.
Final(i) ==
    LET p == desc.params[i]
        type == IF client = "untyped" /\ ~PureOut(p) THEN "VT_VARIANT" ELSE p.type
    IN  CASE Assigned(i) -> ToLua(Converted(outs[ResultFor(i)], type))
          [] client = "typed" /\ ~Assigned(i) ->
                ToLua(Converted(TypedValue(desc.params, args, i), p.type))
          [] OTHER -> args[i]

\* Whether a script gets it back: an optional parameter that it left out and that
\* is no output comes back only with a result.
GoesBack(i) ==
    \/ client = "untyped" \/ Assigned(i)
    \/ /\ desc.params[i].byref
       /\ "out" \in desc.params[i].flags \/ TypedValue(desc.params, args, i) # Missing

\* Every result reaches its place: a call that succeeds gives the script the
\* return value and then the outputs in the order of the parameters, each the
\* value that the function meant for it, and leaves a foreign caller's variable
\* the value meant for it.  (A foreign caller's variable for a parameter that is
\* only an output stays as it was, without a place for the return value the
\* results shift, and a reference by name behind an argument that is left out gets
\* none: the three are set aside here.)
\* (method, setOutValues, pushOutValues, callWithDispatch)
ResultsReturn ==
    pc = "done" /\ hr = "S_OK" /\ attempt = "func" =>
        IF client = "foreign"
        THEN (asks \/ desc.void) /\ ~Gapped =>
                \A i \in DOMAIN answer :
                    desc.params[i].byref /\ ~PureOut(desc.params[i]) /\ sent[IndexOf(i)].cell # 0
                        => ToLua(answer[IndexOf(i)]) = Final(i)
        ELSE answer = (CASE desc.void /\ client = "typed" -> <<>>
                         [] desc.void /\ client = "untyped" -> <<Nil>>
                         [] OTHER -> <<IF outs = <<>> THEN Nil ELSE outs[1]>>)
                      \o Concat([i \in DOMAIN rgvarg |->
                             IF GoesBack(i) THEN <<Final(i)>> ELSE <<>>], Len(rgvarg))

\* Whatever fails - an argument, the member, the function, a result - every block
\* that fillDispParams made is freed once when the call is over, unless a new
\* block took its place; a foreign caller's variable is never freed.
\* (fillDispParams' catch, ~CallContext, releaseVariants, setOutValues)
BlocksFreed ==
    pc = "done" =>
        \A c \in DOMAIN mem :
            LET replaced == \E i \in DOMAIN rgvarg : /\ IndexOf(i) # 0
                                                     /\ PureOut(desc.params[i])
                                                     /\ sent[IndexOf(i)].cell = c
                                                     /\ rgvarg[IndexOf(i)].cell # c
            IN  mem[c].freed = IF client = "foreign" \/ replaced THEN 0 ELSE 1
=============================================================================
