------------------------------ MODULE Enumerators ------------------------------
(***************************************************************************)
(* The enumerators: of the connection points of a served object            *)
(* (tLuaCOMEnumConnPoints), of the connections of a point                  *)
(* (tLuaCOMEnumConnections), of a control's verbs (CEnumOLEVERB), and a    *)
(* script's enumerator of the values of a foreign collection               *)
(* (tLuaCOMEnumerator), which luacom.pairs loops over.                     *)
(*                                                                         *)
(* The first two go through snapshots and keep alive what these name:      *)
(* the object, through its points, and the clients.  References to a point *)
(* are references to the object.  A cookie stands for its client too.      *)
(***************************************************************************)
EXTENDS Integers, Sequences, FiniteSets

CONSTANTS
  Ids,          \* enumerators that can exist at once
  MaxCookie,    \* bound: connections ever made
  MaxRefs,      \* bound: references to one enumerator
  MaxGiven,     \* bound: references to the point, or to a client, given out
  Verbs,        \* the verbs of a control
  Collections,  \* foreign collections: sequences of values
  Null,         \* the value that Lua sees as nil
  Requests      \* numbers of elements asked for

\* Elements are numbers; luacom.pairs asks for one at a time.
ASSUME EnumeratorsAssumption ==
  /\ IsFiniteSet(Ids)
  /\ MaxCookie \in Nat /\ MaxGiven \in Nat /\ MaxRefs \in Nat \ {0}
  /\ Verbs \in Seq(Int) /\ \A s \in Collections : s \in Seq(Int)
  /\ Requests \subseteq Nat /\ 1 \in Requests

Cookies == 1..MaxCookie
Point == 0                               \* the object's only connection point
Nobody == [kind |-> "none", items |-> <<>>, next |-> 0, refs |-> 0]
Local == {"points", "connections"}       \* enumerators of the object itself

VARIABLES
  refs,      \* m_refs of the served object
  user,      \* references that clients have to the object itself
  given,     \* references to its point that clients have been given
  slots,     \* the cookies of the point, 0 where a client has withdrawn
  made,      \* cookies granted
  pins,      \* pins[k]: references to the client of cookie k
  taken,     \* taken[k]: those of them that Next has passed on
  enums,     \* the enumerators
  names,     \* names of verbs allocated and passed to nobody
  answer,    \* what the last step answered, if it did
  loop       \* loops of luacom.pairs: where each is, what it has seen

object == <<refs, user, given>>
point == <<slots, made, pins, taken>>
vars == <<object, point, enums, names, answer, loop>>

alive == refs > 0
Free(e) == enums[e].kind = "none"
New(kind, items, next) == [kind |-> kind, items |-> items, next |-> next, refs |-> 1]
Times(k, s) == Cardinality({i \in DOMAIN s : s[i] = k})
Says(e, ok, got) == answer' = <<[id |-> e, ok |-> ok, got |-> got]>>
CloneIs(e, f) == answer' = <<[id |-> e, clone |-> f]>>
Quiet == answer' = <<>>

-----------------------------------------------------------------------------
(* The object, its container and its point.                                *)

\* The object goes with its last reference, and its point with it.
Counts(d) ==
  /\ refs' = refs + d
  /\ IF refs + d > 0 THEN UNCHANGED <<slots, pins>>
     ELSE slots' = <<>> /\ pins' = [k \in Cookies |-> pins[k] - Times(k, slots)]

FindConnectionPoint ==
  /\ user > 0 /\ given < MaxGiven
  /\ given' = given + 1 /\ refs' = refs + 1
  /\ Quiet /\ UNCHANGED <<user, point, enums, names, loop>>

ReleasePoint ==
  /\ given > 0
  /\ given' = given - 1 /\ Counts(-1)
  /\ Quiet /\ UNCHANGED <<user, made, taken, enums, names, loop>>

ReleaseObject ==
  /\ user > 0
  /\ user' = user - 1 /\ Counts(-1)
  /\ Quiet /\ UNCHANGED <<given, made, taken, enums, names, loop>>

Firsts(s) == {i \in DOMAIN s : s[i] = 0 /\ \A j \in 1..(i - 1) : s[j] # 0}

Advise ==
  LET k == made + 1 IN
    /\ given > 0 /\ made < MaxCookie
    /\ made' = k
    /\ \/ \E i \in Firsts(slots) : slots' = [slots EXCEPT ![i] = k]
       \/ Firsts(slots) = {} /\ slots' = Append(slots, k)
    /\ pins' = [pins EXCEPT ![k] = @ + 1]
    /\ Quiet /\ UNCHANGED <<object, taken, enums, names, loop>>

Unadvise(k) ==
  /\ given > 0
  /\ \E i \in DOMAIN slots : slots[i] = k /\ slots' = [slots EXCEPT ![i] = 0]
  /\ pins' = [pins EXCEPT ![k] = @ - 1]
  /\ Quiet /\ UNCHANGED <<object, made, taken, enums, names, loop>>

-----------------------------------------------------------------------------
(* Making, counting and cloning.  (Forms a mistake would give an operator  *)
(* precede it; only the sensitivity checks use them.)                      *)

\* What an enumerator holds besides its own references.
Pinned(e) ==
  pins' = [k \in Cookies |-> pins[k] + IF enums[e].kind = "connections"
                                       THEN Times(k, enums[e].items) ELSE 0]
Points(e) == IF enums[e].kind = "points" THEN Len(enums[e].items) ELSE 0

EnumConnectionPoints(e) ==
  /\ user > 0 /\ Free(e)
  /\ enums' = [enums EXCEPT ![e] = New("points", <<Point>>, 0)]
  /\ refs' = refs + 1 + 1         \* the enumerator's, and its point's
  /\ Quiet /\ UNCHANGED <<user, given, point, names, loop>>

\* Slots that a client has left are not part of the snapshot.
Filled == {i \in DOMAIN slots : slots[i] # 0}
Rank(i) == Cardinality({j \in Filled : j <= i})
Snapshot == [n \in 1..Cardinality(Filled) |-> slots[CHOOSE i \in Filled : Rank(i) = n]]

EnumConnections(e) ==
  /\ given > 0 /\ Free(e)
  /\ enums' = [enums EXCEPT ![e] = New("connections", Snapshot, 0)]
  /\ refs' = refs + 1
  /\ pins' = [k \in Cookies |-> pins[k] + Times(k, Snapshot)]
  /\ Quiet /\ UNCHANGED <<user, given, slots, made, taken, names, loop>>

EnumVerbs(e) ==
  /\ alive /\ Free(e)
  /\ enums' = [enums EXCEPT ![e] = New("verbs", Verbs, 0)]
  /\ Quiet /\ UNCHANGED <<object, point, names, loop>>

GetEnumerator(e) ==
  /\ Free(e)
  /\ \E s \in Collections : enums' = [enums EXCEPT ![e] = New("values", s, 0)]
  /\ Quiet /\ UNCHANGED <<object, point, names, loop>>

AddRef(e) ==
  /\ ~Free(e) /\ enums[e].kind # "values" /\ enums[e].refs < MaxRefs
  /\ enums' = [enums EXCEPT ![e].refs = @ + 1]
  /\ refs' = IF enums[e].kind \in Local THEN refs + 1 ELSE refs
  /\ Quiet /\ UNCHANGED <<user, given, point, names, loop>>

\* Init takes over the elements and the place; QueryInterface the reference.
CloneAnew(e, f) ==
  /\ ~Free(e) /\ Free(f)
  /\ enums' = [enums EXCEPT ![f] = New(enums[e].kind, enums[e].items, 0)]
  /\ refs' = IF enums[e].kind \in Local THEN refs + 1 + Points(e) ELSE refs
  /\ Pinned(e)
  /\ CloneIs(e, f) /\ UNCHANGED <<user, given, slots, made, taken, names, loop>>

Clone(e, f) ==
  /\ ~Free(e) /\ Free(f)
  /\ enums' = [enums EXCEPT ![f] = New(enums[e].kind, enums[e].items, enums[e].next)]
  /\ refs' = IF enums[e].kind \in Local THEN refs + 1 + Points(e) ELSE refs
  /\ Pinned(e)
  /\ CloneIs(e, f) /\ UNCHANGED <<user, given, slots, made, taken, names, loop>>

\* Release; for a script's enumerator, its finalizer.  The last one drops the
\* snapshot too, after the reference to the object.
ReleaseKeepsPoints(e) ==
  LET last == enums[e].refs = 1
      kept == IF last /\ enums[e].kind = "connections" THEN enums[e].items ELSE <<>>
      gone == IF enums[e].kind \in Local THEN 1 ELSE 0
      left == IF refs = gone THEN slots ELSE <<>> IN
    /\ ~Free(e) /\ loop[e].at = "none"
    /\ enums' = [enums EXCEPT ![e] = IF last THEN Nobody ELSE [enums[e] EXCEPT !.refs = @ - 1]]
    /\ refs' = refs - gone
    /\ slots' = IF refs = gone THEN <<>> ELSE slots
    /\ pins' = [k \in Cookies |-> pins[k] - Times(k, kept) - Times(k, left)]
    /\ Quiet /\ UNCHANGED <<user, given, made, taken, names, loop>>

Release(e) ==
  LET last == enums[e].refs = 1
      kept == IF last /\ enums[e].kind = "connections" THEN enums[e].items ELSE <<>>
      gone == IF enums[e].kind \in Local THEN 1 + (IF last THEN Points(e) ELSE 0) ELSE 0
      left == IF refs = gone THEN slots ELSE <<>> IN
    /\ ~Free(e) /\ loop[e].at = "none"
    /\ enums' = [enums EXCEPT ![e] = IF last THEN Nobody ELSE [enums[e] EXCEPT !.refs = @ - 1]]
    /\ refs' = refs - gone
    /\ slots' = IF refs = gone THEN <<>> ELSE slots
    /\ pins' = [k \in Cookies |-> pins[k] - Times(k, kept) - Times(k, left)]
    /\ Quiet /\ UNCHANGED <<user, given, made, taken, names, loop>>

-----------------------------------------------------------------------------
(* Moving.                                                                 *)

Left(e) == Len(enums[e].items) - enums[e].next
Fetched(e, n) == IF n < Left(e) THEN n ELSE Left(e)
Got(e, n) == SubSeq(enums[e].items, enums[e].next + 1, enums[e].next + Fetched(e, n))

\* The elements that Next passes on are references of the caller's.
NextElements(e, n) ==
  LET got == Got(e, n) IN
    /\ ~Free(e) /\ loop[e].at = "none"
    /\ enums' = [enums EXCEPT ![e].next = @ + Len(got)]
    /\ Says(e, Len(got) = n, got)
    /\ CASE enums[e].kind = "points" ->
              /\ given + Len(got) <= MaxGiven
              /\ given' = given + Len(got) /\ refs' = refs + Len(got)
              /\ UNCHANGED <<pins, taken>>
         [] enums[e].kind = "connections" ->
              /\ \A k \in Cookies : taken[k] + Times(k, got) <= MaxGiven
              /\ pins' = [k \in Cookies |-> pins[k] + Times(k, got)]
              /\ taken' = [k \in Cookies |-> taken[k] + Times(k, got)]
              /\ UNCHANGED <<refs, given>>
         [] OTHER -> UNCHANGED <<refs, given, pins, taken>>
    /\ UNCHANGED <<user, slots, made, names, loop>>

\* The name of one verb cannot be allocated: those before it are freed.
FreedButLast(i) == i - 1
Freed(i) == i
NextRunsOut(e, n) ==
  /\ enums[e].kind = "verbs"
  /\ \E i \in 0..(Fetched(e, n) - 1) : names' = names + i - Freed(i)
  /\ Says(e, FALSE, <<>>)
  /\ UNCHANGED <<object, point, enums, loop>>

SkipsPast(e, n) == enums[e].next + n
SkipsTo(e, n) == IF n > Left(e) THEN Len(enums[e].items) ELSE enums[e].next + n

Skip(e, n) ==
  /\ ~Free(e) /\ loop[e].at = "none"
  /\ enums' = [enums EXCEPT ![e].next = SkipsTo(e, n)]
  /\ Says(e, n <= Left(e), <<>>)
  /\ UNCHANGED <<object, point, names, loop>>

Reset(e) ==
  /\ ~Free(e) /\ loop[e].at = "none"
  /\ enums' = [enums EXCEPT ![e].next = 0]
  /\ Quiet /\ UNCHANGED <<object, point, names, loop>>

\* A caller gives back what Next has passed on.
ReleaseClient(k) ==
  /\ taken[k] > 0
  /\ taken' = [taken EXCEPT ![k] = @ - 1] /\ pins' = [pins EXCEPT ![k] = @ - 1]
  /\ Quiet /\ UNCHANGED <<object, slots, made, enums, names, loop>>

-----------------------------------------------------------------------------
(* luacom.pairs: its loop has the enumerator to itself.                    *)

LoopStarts(e) ==
  /\ enums[e].kind = "values" /\ enums[e].next = 0 /\ loop[e].at = "none"
  /\ loop' = [loop EXCEPT ![e] = [at |-> "running", seen |-> <<>>]]
  /\ Quiet /\ UNCHANGED <<object, point, enums, names>>

\* Next() without a number asks for one; nil, or nothing, ends the loop.
Value(e) == enums[e].items[enums[e].next + 1]
LoopOverAtLast(e) == Left(e) <= 1 \/ Value(e) = Null
LoopOver(e) == Left(e) = 0 \/ Value(e) = Null

LoopSteps(e) ==
  /\ loop[e].at = "running"
  /\ enums' = [enums EXCEPT ![e].next = @ + Fetched(e, 1)]
  /\ Says(e, Left(e) > 0, Got(e, 1))
  /\ loop' = [loop EXCEPT ![e] = IF LoopOver(e) THEN [loop[e] EXCEPT !.at = "done"]
                                 ELSE [loop[e] EXCEPT !.seen = Append(@, Value(e))]]
  /\ UNCHANGED <<object, point, names>>

\* A value that cannot be converted has been taken from the enumerator all
\* the same; the loop ends with the error.
LoopFails(e) ==
  /\ loop[e].at = "running" /\ Left(e) > 0
  /\ enums' = [enums EXCEPT ![e].next = @ + 1]
  /\ Says(e, TRUE, Got(e, 1))
  /\ loop' = [loop EXCEPT ![e].at = "failed"]
  /\ UNCHANGED <<object, point, names>>

LoopForgotten(e) ==
  /\ loop[e].at \in {"done", "failed"}
  /\ loop' = [loop EXCEPT ![e] = [at |-> "none", seen |-> <<>>]]
  /\ enums' = [enums EXCEPT ![e] = Nobody]
  /\ Quiet /\ UNCHANGED <<object, point, names>>

-----------------------------------------------------------------------------
Init ==
  /\ refs = 1 /\ user = 1 /\ given = 0
  /\ slots = <<>> /\ made = 0
  /\ pins = [k \in Cookies |-> 0] /\ taken = [k \in Cookies |-> 0]
  /\ enums = [e \in Ids |-> Nobody]
  /\ names = 0
  /\ answer = <<>>
  /\ loop = [e \in Ids |-> [at |-> "none", seen |-> <<>>]]

Next ==
  \/ FindConnectionPoint \/ ReleasePoint \/ ReleaseObject
  \/ Advise \/ \E k \in Cookies : Unadvise(k) \/ ReleaseClient(k)
  \/ \E e \in Ids :
       \/ EnumConnectionPoints(e) \/ EnumConnections(e) \/ EnumVerbs(e) \/ GetEnumerator(e)
       \/ AddRef(e) \/ Release(e) \/ Reset(e)
       \/ \E f \in Ids : Clone(e, f)
       \/ \E n \in Requests : NextElements(e, n) \/ NextRunsOut(e, n) \/ Skip(e, n)
       \/ LoopStarts(e) \/ LoopSteps(e) \/ LoopFails(e) \/ LoopForgotten(e)

Spec == Init /\ [][Next]_vars

\* A loop goes on: its body ends, and the collection answers.
FairSpec == Spec /\ \A e \in Ids : WF_vars(LoopSteps(e))

-----------------------------------------------------------------------------
(* Properties.                                                             *)

\* Every variable keeps its type; no enumerator stands past its end.
TypeOK ==
  /\ refs \in Nat /\ user \in Nat /\ given \in 0..MaxGiven
  /\ slots \in Seq(0..made) /\ made \in 0..MaxCookie
  /\ pins \in [Cookies -> Nat] /\ taken \in [Cookies -> 0..MaxGiven]
  /\ \A e \in Ids :
       /\ enums[e].kind \in Local \cup {"verbs", "values", "none"}
       /\ enums[e].next \in 0..Len(enums[e].items) /\ enums[e].refs \in 0..MaxRefs
       /\ loop[e].at \in {"none", "running", "done", "failed"}
  /\ names \in Int

\* The sum of natural numbers: f[e] counted off for every e.
Total(f) == Cardinality(UNION {{e} \X (1..f[e]) : e \in DOMAIN f})
OfKind(e, kind) == IF enums[e].kind = kind THEN enums[e].items ELSE <<>>

\* Whatever is enumerated and cloned in whatever order, and whoever lets go
\* first: the object counts its clients' references, those to its point and
\* to its enumerators, and the points in snapshots; each client is referred to
\* by its slot, by the snapshots it is in and by those Next passed it to; and
\* no name of a verb belongs to nobody.
Accounted ==
  /\ refs = user + given
             + Total([e \in Ids |-> IF enums[e].kind \in Local
                                    THEN enums[e].refs + Points(e) ELSE 0])
  /\ \A k \in Cookies :
       pins[k] = taken[k] + Times(k, slots)
                 + Total([e \in Ids |-> Times(k, OfKind(e, "connections"))])
  /\ names = 0

\* Each of the enumerators keeps what COM promises of it, whatever happens to
\* the point, to the object and to the other enumerators.
Listings ==
  {Verbs, <<Point>>} \cup Collections \cup UNION {[1..n -> Cookies] : n \in 0..MaxCookie}
Contract == INSTANCE Cursors WITH
  Lists <- Listings,
  list <- [e \in Ids |-> IF Free(e) THEN <<>> ELSE <<-1>> \o enums[e].items],
  rest <- [e \in Ids |-> SubSeq(enums[e].items, enums[e].next + 1, Len(enums[e].items))]
KeepsContract == Contract!Spec

\* "Does the same as pairs for COM Enumerators": a loop that does not fail ends,
\* and has then seen every value up to the first that Lua sees as nil, which it
\* takes for the end.
BeforeNull(s) ==
  SubSeq(s, 1, Cardinality({i \in DOMAIN s : \A j \in 1..i : s[j] # Null}))
PairsVisits ==
  \A e \in Ids :
    loop[e].at = "running" ~>
      (loop[e].at = "failed" \/ (loop[e].at = "done" /\ loop[e].seen = BeforeNull(enums[e].items)))

================================================================================
