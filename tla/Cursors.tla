-------------------------------- MODULE Cursors --------------------------------
(***************************************************************************)
(* What COM promises of enumerators: each goes through a list of its own,  *)
(* fixed when it was made.  Next hands out the first elements that are     *)
(* left, as many as it can up to the number asked for, and says whether    *)
(* these were all that was asked; Skip passes over them; a clone goes on   *)
(* from where its original stands; an answer that fails moves nothing.     *)
(***************************************************************************)
EXTENDS Integers, Sequences

CONSTANTS
  Ids,       \* enumerators that can exist at once
  Lists,     \* what can be enumerated
  Requests   \* numbers of elements that can be asked for

VARIABLES
  list,      \* list[e]: the sequence e goes through, with its first element
             \* a mark that e exists; <<>> if it does not
  rest,      \* rest[e]: what is left of it
  answer     \* what the last step answered: <<>>, <<[id, ok, got]>> or
             \* <<[id, clone]>>

cvars == <<list, rest, answer>>

Exists(e) == list[e] # <<>>
Open(s) == <<-1>> \o s
Taken(e, n) == IF n < Len(rest[e]) THEN n ELSE Len(rest[e])
Says(e, ok, got) == answer' = <<[id |-> e, ok |-> ok, got |-> got]>>
CloneIs(e, f) == answer' = <<[id |-> e, clone |-> f]>>
Quiet == answer' = <<>>

Init ==
  /\ list = [e \in Ids |-> <<>>] /\ rest = [e \in Ids |-> <<>>]
  /\ answer = <<>>

Make(e, s) ==
  /\ ~Exists(e)
  /\ list' = [list EXCEPT ![e] = Open(s)] /\ rest' = [rest EXCEPT ![e] = s]
  /\ Quiet

Close(e) ==
  /\ Exists(e)
  /\ list' = [list EXCEPT ![e] = <<>>] /\ rest' = [rest EXCEPT ![e] = <<>>]
  /\ Quiet

Moves(e, n) ==
  /\ rest' = [rest EXCEPT ![e] = SubSeq(@, n + 1, Len(@))]
  /\ UNCHANGED list

NextElements(e, n) ==
  LET k == Taken(e, n) IN
    /\ Exists(e)
    /\ Moves(e, k) /\ Says(e, k = n, SubSeq(rest[e], 1, k))

Skip(e, n) ==
  /\ Exists(e)
  /\ Moves(e, Taken(e, n)) /\ Says(e, Taken(e, n) = n, <<>>)

Fail(e) == Exists(e) /\ Says(e, FALSE, <<>>) /\ UNCHANGED <<list, rest>>

Reset(e) ==
  /\ Exists(e)
  /\ rest' = [rest EXCEPT ![e] = Tail(list[e])]
  /\ Quiet /\ UNCHANGED list

Clone(e, f) ==
  /\ Exists(e) /\ ~Exists(f)
  /\ list' = [list EXCEPT ![f] = list[e]] /\ rest' = [rest EXCEPT ![f] = rest[e]]
  /\ CloneIs(e, f)

Other == Quiet /\ UNCHANGED <<list, rest>>

Next ==
  \/ Other
  \/ \E e \in Ids :
    \/ \E s \in Lists : Make(e, s)
    \/ \E n \in Requests : NextElements(e, n) \/ Skip(e, n)
    \/ Close(e) \/ Fail(e) \/ Reset(e)
    \/ \E f \in Ids : Clone(e, f)

Spec == Init /\ [][Next]_cvars

================================================================================
