----------------------------- MODULE Subscriptions -----------------------------
(***************************************************************************)
(* What a client wrapper promises about the event subscriptions made       *)
(* through it: it answers for each live one until its own end, it gives    *)
(* up only what is no longer live, and once released it asks for none.     *)
(***************************************************************************)

CONSTANTS
  Names,   \* subscriptions
  Askers   \* requests for a subscription that can be open at once

VARIABLES
  live,   \* the subscriptions the object delivers events to
  owned,  \* the subscriptions the wrapper answers for
  asks,   \* the requests under way
  open,   \* the wrapper has not been released
  ended   \* the wrapper no longer exists

vars == <<live, owned, asks, open, ended>>

Init ==
  /\ live = {}
  /\ owned = {}
  /\ asks = {}
  /\ open = TRUE
  /\ ended = FALSE

Ask(a) ==
  /\ open /\ ~ended
  /\ a \notin asks
  /\ asks' = asks \cup {a}
  /\ UNCHANGED <<live, owned, open, ended>>

Refuse(a) ==
  /\ asks' = asks \ {a}
  /\ UNCHANGED <<live, owned, open, ended>>

\* A request is granted: the wrapper answers for it from the first moment,
\* even if it was released while it waited.
Grant(a, n) ==
  /\ a \in asks
  /\ n \notin owned \cup live
  /\ asks' = asks \ {a}
  /\ live' = live \cup {n}
  /\ owned' = owned \cup {n}
  /\ UNCHANGED <<open, ended>>

\* A subscription ends, and the wrapper may already know.
Cancel(n) ==
  /\ live' = live \ {n}
  /\ owned' \in {owned, owned \ {n}}
  /\ UNCHANGED <<asks, open, ended>>

\* The wrapper finds out that a subscription had ended.
Drop(n) ==
  /\ n \notin live
  /\ owned' = owned \ {n}
  /\ UNCHANGED <<live, asks, open, ended>>

Release ==
  /\ open' = FALSE
  /\ UNCHANGED <<live, owned, asks, ended>>

\* The end of the wrapper gives up whatever it could not cancel.
End ==
  /\ asks = {}
  /\ ended' = TRUE
  /\ open' = FALSE
  /\ owned' = {}
  /\ UNCHANGED <<live, asks>>

Next ==
  \/ \E a \in Askers : Ask(a) \/ Refuse(a)
  \/ \E a \in Askers, n \in Names : Grant(a, n)
  \/ \E n \in Names : Cancel(n) \/ Drop(n)
  \/ Release
  \/ End

Spec == Init /\ [][Next]_vars

=============================================================================
