----------------------------- MODULE Control_proofs -----------------------------
(***************************************************************************)
(* Proofs about OLE controls, for any number of sites, windows and         *)
(* operations inside one another: with hosts and methods that refrain from *)
(* what WellBehaved lists, host and control agree between calls, no null   *)
(* frame is used, and no window is left behind.                            *)
(***************************************************************************)
EXTENDS Control, SequenceTheorems, TLAPS

-----------------------------------------------------------------------------
(* The inductive invariant.                                                *)

\* Calls whose end leaves the control as it is.
Quiet == {"setExtent", "posRect", "deactivated"}

\* The calls before the site is told of the activation, and the next ones.
Entering == {"askSite", "canActivate", "onActivate"}
Arriving == {"getWindow", "getContext"}

\* While the control waits at one of these it is between two of the states
\* that the host knows, so that only quiet calls may be inside them.
Critical == {"askSite", "canActivate", "onActivate", "getWindow", "getContext",
             "createWindow", "showNothing", "onUI", "uiOff", "uiDone", "giveUp", "destroy"}

ControlType ==
  [site : Sites \cup {NoSite}, inPlaceSite : Sites \cup {NoSite},
   active : BOOLEAN, visible : BOOLEAN, ui : BOOLEAN, frame : BOOLEAN,
   hwnd : 0..MaxWindows, region : BOOLEAN]

Types ==
  /\ control \in ControlType
  /\ told \in [Sites -> Int] /\ toldUI \in [Sites -> Int]
  /\ frameActive \in BOOLEAN
  /\ made \in 0..MaxWindows
  /\ windows \in SUBSET (1..made) /\ clipped \in SUBSET windows
  /\ stack \in Seq(Frame)
  /\ closed \in BOOLEAN /\ alive \in BOOLEAN /\ crashed = FALSE

\* An operation on its way into, or out of, activity.
Unsteady(f) ==
  \/ f.at \in {"askSite", "canActivate", "onActivate", "getWindow", "getContext",
              "createWindow", "showNothing", "giveUp", "destroy"}
  \/ f.at \in {"uiOff", "uiDone"} /\ f.op = "deactivate"

Nested(s) ==
  \A i, j \in 1..Len(s) : i < j =>
    /\ s[i].at \in Critical => s[j].at \in Quiet
    /\ s[i].at = "setActive" => ~Unsteady(s[j])

\* Where the operations in progress wait.
Ats(s) == {s[i].at : i \in 1..Len(s)}

HasWindow == control.hwnd # 0 /\ windows = {control.hwnd}
NoWindow == control.hwnd = 0 /\ windows = {}

\* What the sites have been told of the one in use.
Told(n, m) ==
  \A s \in Sites : /\ told[s] = IF s = control.inPlaceSite THEN n ELSE 0
                   /\ toldUI[s] = IF s = control.inPlaceSite THEN m ELSE 0

Inactive == ~control.active /\ ~control.ui /\ ~frameActive
Active == control.active /\ control.frame /\ control.inPlaceSite # NoSite

\* The three states that the host knows.
Off == Inactive /\ ~control.frame /\ NoWindow /\ Told(0, 0)
On == Active /\ HasWindow /\ ~control.ui /\ ~frameActive /\ Told(1, 0)
OnUI == Active /\ HasWindow /\ control.ui /\ frameActive /\ Told(1, 1)

Settled == Off \/ On \/ OnUI

\* The states on the way from one to another.
DuringEntry == Off /\ control.inPlaceSite # NoSite
DuringArrival ==
  control.active /\ control.inPlaceSite # NoSite /\ NoWindow /\ ~control.ui /\ ~frameActive
  /\ Told(1, 0)
DuringCreateWindow == Active /\ NoWindow /\ ~control.ui /\ ~frameActive /\ Told(1, 0)
DuringShowNothing == DuringCreateWindow \/ Off
DuringOnUI == Active /\ HasWindow /\ control.ui /\ ~frameActive /\ Told(1, 1)
DuringUIOff == Active /\ HasWindow /\ ~control.ui /\ ~frameActive /\ Told(1, 1)
DuringGiveUp == Inactive /\ NoWindow /\ Told(0, 0)
DuringDestroy == Inactive /\ HasWindow /\ Told(1, 0) /\ control.inPlaceSite # NoSite

Phases ==
  /\ Ats(stack) \cap Entering # {} => DuringEntry
  /\ Ats(stack) \cap Arriving # {} => DuringArrival
  /\ "createWindow" \in Ats(stack) => DuringCreateWindow
  /\ "showNothing" \in Ats(stack) => DuringShowNothing
  /\ "onUI" \in Ats(stack) => DuringOnUI
  /\ "uiOff" \in Ats(stack) => DuringUIOff
  /\ "uiDone" \in Ats(stack) => On
  /\ "giveUp" \in Ats(stack) => DuringGiveUp
  /\ "destroy" \in Ats(stack) => DuringDestroy
  /\ Ats(stack) \cap Critical = {} => Settled
  /\ "setActive" \in Ats(stack) => control.active

Regions ==
  /\ control.hwnd = 0 => ~control.region
  /\ control.hwnd # 0 => (control.region <=> control.hwnd \in clipped)

ControlInv ==
  /\ Types
  /\ alive => Regions /\ Nested(stack) /\ Phases
  /\ ~alive => windows = {}

-----------------------------------------------------------------------------
(* The stack.                                                              *)

\* A call that is pushed, where nothing forbids it.
LEMMA Pushed ==
  ASSUME NEW s \in Seq(Frame), NEW f \in Frame
  PROVE  /\ Append(s, f) \in Seq(Frame)
         /\ Ats(Append(s, f)) = Ats(s) \cup {f.at}
         /\ (/\ Nested(s)
             /\ f.at \in Quiet \/ Ats(s) \cap Critical = {}
             /\ "setActive" \in Ats(s) => ~Unsteady(f)) => Nested(Append(s, f))
  <1>1. /\ Append(s, f) \in Seq(Frame)
        /\ Len(s) \in Nat /\ Len(Append(s, f)) = Len(s) + 1
        /\ \A i \in 1..Len(s) : Append(s, f)[i] = s[i]
        /\ Append(s, f)[Len(s) + 1] = f
    OBVIOUS
  <1> DEFINE t == Append(s, f)
  <1> HIDE DEF t
  <1>2. /\ \A i \in 1..Len(t) : (i = Len(s) + 1 /\ t[i] = f) \/ (i \in 1..Len(s) /\ t[i] = s[i])
        /\ \A i \in 1..Len(s) : i \in 1..Len(t) /\ t[i] = s[i]
        /\ Len(s) + 1 \in 1..Len(t) /\ t[Len(s) + 1] = f
    BY <1>1 DEF t
  <1>3. Ats(t) = Ats(s) \cup {f.at}
    BY <1>2 DEF Ats
  <1>4. ASSUME Nested(s),
               f.at \in Quiet \/ Ats(s) \cap Critical = {},
               "setActive" \in Ats(s) => ~Unsteady(f)
        PROVE  Nested(t)
    <2> SUFFICES ASSUME NEW i \in 1..Len(t), NEW j \in 1..Len(t), i < j
                 PROVE  /\ t[i].at \in Critical => t[j].at \in Quiet
                        /\ t[i].at = "setActive" => ~Unsteady(t[j])
      BY DEF Nested
    <2>1. i \in 1..Len(s) /\ t[i] = s[i] /\ t[i].at \in Ats(s)
      BY <1>1, <1>2 DEF Ats
    <2>2. CASE j = Len(s) + 1 /\ t[j] = f
      BY <1>4, <2>1, <2>2
    <2>3. CASE j \in 1..Len(s) /\ t[j] = s[j]
      BY <1>4, <2>1, <2>3 DEF Nested
    <2> QED
      BY <1>2, <2>2, <2>3
  <1> QED
    BY <1>1, <1>3, <1>4 DEF t

\* A call that returns: nothing critical was under it, unless it is quiet.
LEMMA Popped ==
  ASSUME NEW s \in Seq(Frame), s # <<>>
  PROVE  LET below == SubSeq(s, 1, Len(s) - 1)
             top == s[Len(s)]
         IN  /\ below \in Seq(Frame) /\ top \in Frame
             /\ Ats(s) = Ats(below) \cup {top.at}
             /\ Nested(s) =>
                  /\ Nested(below)
                  /\ top.at \notin Quiet => Ats(below) \cap Critical = {}
                  /\ Unsteady(top) => "setActive" \notin Ats(below)
  <1> DEFINE below == SubSeq(s, 1, Len(s) - 1)
             top == s[Len(s)]
  <1>1. /\ Len(s) \in Nat \ {0} /\ top \in Frame /\ Len(s) \in 1..Len(s)
        /\ below \in Seq(Frame) /\ Len(below) = Len(s) - 1
        /\ \A i \in 1..(Len(s) - 1) : below[i] = s[i]
    <2>1. Len(s) \in Nat \ {0}
      BY EmptySeq, LenProperties
    <2>2. top \in Frame
      BY <2>1, ElementOfSeq
    <2>3. Len(s) - 1 \in Int /\ \A i \in 1..(Len(s) - 1) : s[i] \in Frame
      BY <2>1, ElementOfSeq
    <2>4. /\ below \in Seq(Frame)
          /\ Len(below) = IF 1 <= Len(s) - 1 THEN Len(s) - 1 - 1 + 1 ELSE 0
          /\ \A i \in 1..(Len(s) - 1 - 1 + 1) : below[i] = s[1 + i - 1]
      BY <2>3, SubSeqProperties
    <2> HIDE DEF below
    <2>5. Len(below) = Len(s) - 1
      <3> DEFINE n == Len(s)
                 m == Len(below)
      <3>1. n \in Nat \ {0} /\ m = IF 1 <= n - 1 THEN n - 1 - 1 + 1 ELSE 0
        BY <2>1, <2>4
      <3> HIDE DEF n, m
      <3>2. m = n - 1
        BY <3>1
      <3> QED
        BY <3>2 DEF n, m
    <2>6. ASSUME NEW i \in 1..(Len(s) - 1) PROVE below[i] = s[i]
      <3>1. i \in 1..(Len(s) - 1 - 1 + 1) /\ 1 + i - 1 = i
        BY <2>1
      <3> QED
        BY <2>4, <3>1
    <2> QED
      BY <2>1, <2>2, <2>4, <2>5, <2>6
  <1> HIDE DEF below
  <1>2. /\ \A i \in 1..Len(s) : (i = Len(s)) \/ (i \in 1..Len(below) /\ below[i] = s[i])
        /\ \A i \in 1..Len(below) : i \in 1..Len(s) /\ i < Len(s) /\ below[i] = s[i]
    BY <1>1
  <1>3. Ats(s) = Ats(below) \cup {top.at}
    BY <1>1, <1>2 DEF Ats
  <1>4. ASSUME Nested(s)
        PROVE  /\ Nested(below)
               /\ top.at \notin Quiet => Ats(below) \cap Critical = {}
               /\ Unsteady(top) => "setActive" \notin Ats(below)
    <2>1. Nested(below)
      BY <1>2, <1>4 DEF Nested
    <2>2. \A i \in 1..Len(below) : /\ below[i].at \in Critical => top.at \in Quiet
                                   /\ below[i].at = "setActive" => ~Unsteady(top)
      BY <1>1, <1>2, <1>4 DEF Nested
    <2> QED
      BY <2>1, <2>2 DEF Ats
  <1> QED
    BY <1>1, <1>3, <1>4 DEF below

-----------------------------------------------------------------------------
(* What hosts refrain from, and the phases.                                *)

HostsRefrain == WellBehaved \subseteq Refrains

\* Where no operation in progress waits when another starts.
LEMMA Refraining ==
  ASSUME HostsRefrain, ControlInv
  PROVE  /\ Starts("activate") => Ats(stack) \cap
              (Critical \ {"onUI"}) = {}
         /\ Starts("deactivate") => Ats(stack) \cap
              {"getWindow", "getContext", "createWindow", "onUI", "setActive", "uiOff",
               "uiDone"} = {}
         /\ Starts("uiDeactivate") => "onUI" \notin Ats(stack)
         /\ Starts("hide") => "onUI" \notin Ats(stack)
         /\ Starts("close") => Ats(stack) \cap
              {"askSite", "canActivate", "onActivate", "getWindow", "getContext",
               "createWindow", "onUI", "setActive", "uiOff", "uiDone"} = {}
  <1>1. ASSUME NEW op, Starts(op), NEW at \in Ats(stack)
        PROVE  <<at, op>> \notin WellBehaved
    BY <1>1 DEF HostsRefrain, Starts, Ats
  <1>2. /\ \A at \in Critical \ {"onUI"} : <<at, "activate">> \in WellBehaved
        /\ \A at \in {"getWindow", "getContext", "createWindow", "onUI", "setActive",
                     "uiOff", "uiDone"} : <<at, "deactivate">> \in WellBehaved
        /\ <<"onUI", "uiDeactivate">> \in WellBehaved
        /\ <<"onUI", "hide">> \in WellBehaved
        /\ \A at \in {"askSite", "canActivate", "onActivate", "getWindow", "getContext",
                     "createWindow", "onUI", "setActive", "uiOff", "uiDone"} :
             <<at, "close">> \in WellBehaved
    BY DEF WellBehaved, Critical
  <1> QED
    BY <1>1, <1>2

\* An operation waits where its call says.
LEMMA CallIsFrame ==
  ASSUME NEW op \in Operations, NEW at \in Waits, NEW ui \in BOOLEAN
  PROVE  Call(op, at, ui) \in Frame /\ Call(op, at, ui).at = at /\ Call(op, at, ui).op = op
  BY DEF Call, Frame

\* The control at rest, or inside calls that say nothing about its state.
LEMMA SettledPhase ==
  ASSUME Ats(stack') \cap Critical = {}, Settled',
         "setActive" \in Ats(stack') => control'.active
  PROVE  Phases'
  BY DEF Phases, Critical, Entering, Arriving

\* What the phases are about has not changed.
SameView ==
  /\ control'.active = control.active /\ control'.ui = control.ui
  /\ control'.frame = control.frame /\ control'.hwnd = control.hwnd
  /\ control'.inPlaceSite = control.inPlaceSite
  /\ UNCHANGED <<told, toldUI, frameActive, windows>>

\* Steps that change neither that nor who waits in the middle of a change.
LEMMA PhasesStay ==
  ASSUME Phases, SameView,
         \A at \in Critical \cup {"setActive"} : at \in Ats(stack') <=> at \in Ats(stack)
  PROVE  Phases'
  <1>1. /\ (Off' <=> Off) /\ (On' <=> On) /\ (OnUI' <=> OnUI)
        /\ (DuringEntry' <=> DuringEntry) /\ (DuringArrival' <=> DuringArrival)
        /\ (DuringCreateWindow' <=> DuringCreateWindow)
        /\ (DuringShowNothing' <=> DuringShowNothing)
        /\ (DuringOnUI' <=> DuringOnUI) /\ (DuringUIOff' <=> DuringUIOff)
        /\ (DuringGiveUp' <=> DuringGiveUp) /\ (DuringDestroy' <=> DuringDestroy)
    <2>1. /\ (Told(0, 0)' <=> Told(0, 0)) /\ (Told(1, 0)' <=> Told(1, 0))
          /\ (Told(1, 1)' <=> Told(1, 1))
          /\ (HasWindow' <=> HasWindow) /\ (NoWindow' <=> NoWindow)
      BY DEF SameView, Told, HasWindow, NoWindow
    <2>2. (Active' <=> Active) /\ (Inactive' <=> Inactive)
      BY DEF SameView, Active, Inactive
    <2>3. /\ (Off' <=> Off) /\ (On' <=> On) /\ (OnUI' <=> OnUI)
          /\ (DuringCreateWindow' <=> DuringCreateWindow)
          /\ (DuringOnUI' <=> DuringOnUI) /\ (DuringUIOff' <=> DuringUIOff)
          /\ (DuringGiveUp' <=> DuringGiveUp) /\ (DuringDestroy' <=> DuringDestroy)
      BY <2>1, <2>2 DEF SameView, Off, On, OnUI, DuringCreateWindow, DuringOnUI, DuringUIOff,
                        DuringGiveUp, DuringDestroy
    <2>4. /\ (DuringEntry' <=> DuringEntry) /\ (DuringArrival' <=> DuringArrival)
          /\ (DuringShowNothing' <=> DuringShowNothing)
      BY <2>1, <2>3 DEF DuringEntry, DuringArrival, DuringShowNothing, SameView
    <2> QED
      BY <2>3, <2>4
  <1>2. Settled' <=> Settled
    BY <1>1 DEF Settled
  <1>3. Ats(stack') \cap Critical = {} <=> Ats(stack) \cap Critical = {}
    OBVIOUS
  <1>4. /\ Ats(stack') \cap Entering = {} <=> Ats(stack) \cap Entering = {}
        /\ Ats(stack') \cap Arriving = {} <=> Ats(stack) \cap Arriving = {}
    BY DEF Entering, Arriving, Critical
  <1> QED
    BY <1>1, <1>2, <1>3, <1>4 DEF Phases, Critical, SameView

\* The site in use is told of the end of something.
LEMMA ToldLess ==
  ASSUME NEW t \in [Sites -> Int], NEW p \in Sites,
         \A s \in Sites : t[s] = IF s = p THEN 1 ELSE 0
  PROVE  /\ [t EXCEPT ![p] = @ - 1] \in [Sites -> Int]
         /\ \A s \in Sites : [t EXCEPT ![p] = @ - 1][s] = 0
  <1>1. t[p] \in Int /\ t[p] - 1 = 0 /\ t[p] - 1 \in Int
    <2>1. t[p] = 1
      OBVIOUS
    <2> QED
      BY <2>1
  <1>2. PICK n : n = t[p] - 1
    OBVIOUS
  <1>3. [t EXCEPT ![p] = @ - 1] = [t EXCEPT ![p] = n] /\ n \in Int /\ n = 0
    BY <1>1, <1>2
  <1>4. /\ [t EXCEPT ![p] = n] \in [Sites -> Int]
        /\ \A s \in Sites : [t EXCEPT ![p] = n][s] = IF s = p THEN n ELSE t[s]
    BY <1>3
  <1> QED
    BY <1>3, <1>4

\* The end of InPlaceActivate leaves a window the host knows.
LEMMA ContinuesFrom ==
  ASSUME Types, NEW b \in Seq(Frame), NEW c \in ControlType, NEW ui \in BOOLEAN,
         Continues(b, c, ui), Nested(b), Ats(b) \cap Critical = {},
         c.active, c.frame, c.inPlaceSite \in Sites, c.hwnd # 0,
         windows' = {c.hwnd}, frameActive' = frameActive, c.ui <=> frameActive,
         \A s \in Sites : told'[s] = IF s = c.inPlaceSite THEN 1 ELSE 0,
         \A s \in Sites : toldUI[s] = IF s = c.inPlaceSite /\ c.ui THEN 1 ELSE 0
  PROVE  /\ stack' \in Seq(Frame) /\ Nested(stack') /\ Phases'
         /\ control' \in ControlType /\ toldUI' \in [Sites -> Int]
         /\ control'.hwnd = c.hwnd /\ control'.region = c.region
  <1>1. /\ control' = [c EXCEPT !.visible = TRUE, !.ui = c.ui \/ ui]
        /\ stack' = IF ui /\ ~c.ui THEN Append(b, Call("activate", "onUI", TRUE)) ELSE b
        /\ toldUI' = IF ui /\ ~c.ui THEN [toldUI EXCEPT ![c.inPlaceSite] = @ + 1] ELSE toldUI
    BY DEF Continues
  <1>2. /\ control' \in ControlType
        /\ control'.hwnd = c.hwnd /\ control'.region = c.region
        /\ control'.active = c.active /\ control'.frame = c.frame
        /\ control'.inPlaceSite = c.inPlaceSite
        /\ control'.ui = (c.ui \/ ui)
    BY <1>1 DEF ControlType
  <1>3. c.inPlaceSite # NoSite /\ Active' /\ HasWindow'
    BY <1>2, ControlAssumption DEF Active, HasWindow
  <1>4. CASE ui /\ ~c.ui
    <2> DEFINE f == Call("activate", "onUI", TRUE)
    <2>1. f \in Frame /\ f.at = "onUI" /\ ~Unsteady(f)
      <3>1. "activate" \in Operations /\ "onUI" \in Waits /\ TRUE \in BOOLEAN
        BY DEF Operations, Waits
      <3>2. f \in Frame /\ f.at = "onUI"
        BY <3>1 DEF Call, Frame
      <3> QED
        BY <3>2 DEF Unsteady
    <2> HIDE DEF f
    <2>2. stack' = Append(b, f)
      BY <1>1, <1>4 DEF f
    <2>3. stack' \in Seq(Frame) /\ Nested(stack') /\ Ats(stack') = Ats(b) \cup {"onUI"}
      BY <2>1, <2>2, Pushed
    <2>4. toldUI' = [toldUI EXCEPT ![c.inPlaceSite] = @ + 1] /\ toldUI \in [Sites -> Int]
      BY <1>1, <1>4 DEF Types
    <2>5. /\ toldUI' \in [Sites -> Int]
          /\ \A s \in Sites : toldUI'[s] = IF s = c.inPlaceSite THEN 1 ELSE 0
      BY <1>4, <2>4
    <2>6. DuringOnUI'
      BY <1>2, <1>3, <1>4, <2>5 DEF DuringOnUI, Told
    <2>7. Phases'
      BY <1>2, <2>3, <2>6 DEF Phases, Critical, Entering, Arriving
    <2> QED
      BY <1>2, <2>3, <2>5, <2>7
  <1>5. CASE ~(ui /\ ~c.ui)
    <2>1. stack' = b /\ toldUI' = toldUI /\ (control'.ui <=> c.ui)
      BY <1>1, <1>2, <1>5
    <2>2. Settled'
      BY <1>2, <1>3, <2>1 DEF Settled, On, OnUI, Told
    <2>3. Phases'
      BY <1>2, <2>1, <2>2, SettledPhase
    <2> QED
      BY <1>2, <2>1, <2>3 DEF Types
  <1> QED
    BY <1>4, <1>5

-----------------------------------------------------------------------------
(* The steps of InPlaceActivate.                                           *)

\* What is known when a call returns.
LEMMA TopReturns ==
  ASSUME ControlInv, NEW at, Returns(at)
  PROVE  /\ alive /\ Types /\ Regions /\ Phases
         /\ Below \in Seq(Frame) /\ Nested(Below)
         /\ Top \in Frame /\ Top.at = at
         /\ Ats(stack) = Ats(Below) \cup {at}
         /\ at \notin Quiet => Ats(Below) \cap Critical = {}
         /\ Unsteady(Top) => "setActive" \notin Ats(Below)
  <1>1. alive /\ stack # <<>> /\ Top.at = at /\ stack \in Seq(Frame) /\ Nested(stack)
    BY DEF Returns, ControlInv, Types
  <1> QED
    BY <1>1, Popped DEF Top, Below, ControlInv

\* What the invariant needs of a step of a living control.
LEMMA Keeps ==
  ASSUME Types', Regions', Nested(stack'), Phases', alive' = TRUE
  PROVE  ControlInv'
  BY DEF ControlInv

\* What is known when a call returns in the middle of a change.
LEMMA CriticalReturns ==
  ASSUME ControlInv, NEW at \in Critical, Returns(at), at \notin {"onUI", "uiOff", "uiDone"}
  PROVE  /\ alive /\ Types /\ Regions /\ Phases
         /\ Below \in Seq(Frame) /\ Nested(Below)
         /\ at \in Ats(stack) /\ Ats(Below) \cap Critical = {}
         /\ "setActive" \notin Ats(Below)
         /\ Top \in Frame
  BY TopReturns DEF Critical, Quiet, Unsteady

\* RETURN_ON_ERROR leaves a control without a window inactive, and its host
\* knows as soon as it has been told.
LEMMA GivesUpKeeps ==
  ASSUME Types, alive, NEW b \in Seq(Frame), Nested(b), Ats(b) \cap Critical = {},
         "setActive" \notin Ats(b),
         NEW c \in ControlType, GivesUp(b, c),
         ~c.ui, ~c.region, c.hwnd = 0, ~frameActive, windows = {},
         c.active => c.inPlaceSite \in Sites,
         \A s \in Sites : told[s] = IF c.active /\ s = c.inPlaceSite THEN 1 ELSE 0,
         \A s \in Sites : toldUI[s] = 0,
         UNCHANGED <<frameActive, desktop, life>>
  PROVE  ControlInv'
  <1>1. UNCHANGED <<windows, clipped, made, closed, alive, crashed, toldUI>>
    BY DEF desktop, life, GivesUp
  <1>2. CASE c.active
    <2> DEFINE f == Call("activate", "giveUp", FALSE)
    <2>1. f \in Frame /\ f.at = "giveUp"
      <3>1. "activate" \in Operations /\ "giveUp" \in Waits /\ FALSE \in BOOLEAN
        BY DEF Operations, Waits
      <3> QED
        BY <3>1, CallIsFrame
    <2>2. /\ control' = [c EXCEPT !.active = FALSE]
          /\ stack' = Append(b, f)
          /\ told' = [told EXCEPT ![c.inPlaceSite] = @ - 1]
      BY <1>2 DEF GivesUp
    <2> HIDE DEF f
    <2>3. /\ control' \in ControlType /\ ~control'.active /\ ~control'.ui
          /\ control'.hwnd = 0 /\ ~control'.region
      BY <2>2 DEF ControlType
    <2>4. /\ stack' \in Seq(Frame) /\ Nested(stack') /\ Ats(stack') = Ats(b) \cup {"giveUp"}
      BY <2>1, <2>2, Pushed
    <2>5. told' \in [Sites -> Int] /\ \A s \in Sites : told'[s] = 0
      <3>1. PICK p : p = c.inPlaceSite
        OBVIOUS
      <3>2. PICK t : t = told
        OBVIOUS
      <3>3. t \in [Sites -> Int] /\ p \in Sites
        BY <1>2, <3>1, <3>2 DEF Types
      <3>4. \A s \in Sites : t[s] = IF s = p THEN 1 ELSE 0
        BY <1>2, <3>1, <3>2
      <3>5. told' = [t EXCEPT ![p] = @ - 1]
        BY <2>2, <3>1, <3>2
      <3> QED
        BY <3>3, <3>4, <3>5, ToldLess
    <2>6. Types' /\ Regions'
      BY <1>1, <2>3, <2>4, <2>5 DEF Types, Regions
    <2>7. DuringGiveUp'
      BY <1>1, <2>3, <2>5 DEF DuringGiveUp, Inactive, NoWindow, Told
    <2>8. Phases'
      BY <2>4, <2>7 DEF Phases, Critical, Entering, Arriving
    <2> QED
      BY <1>1, <2>4, <2>6, <2>8, Keeps
  <1>3. CASE ~c.active
    <2>1. control' = [c EXCEPT !.frame = FALSE] /\ stack' = b /\ told' = told
      BY <1>3 DEF GivesUp
    <2>2. /\ control' \in ControlType /\ ~control'.active /\ ~control'.ui
          /\ control'.hwnd = 0 /\ ~control'.region /\ ~control'.frame
      BY <1>3, <2>1 DEF ControlType
    <2>3. Types' /\ Regions'
      BY <1>1, <2>1, <2>2 DEF Types, Regions
    <2>4. Settled'
      BY <1>1, <1>3, <2>1, <2>2 DEF Settled, Off, Inactive, NoWindow, Told
    <2>5. Phases'
      BY <2>1, <2>4, SettledPhase
    <2> QED
      BY <1>1, <2>1, <2>3, <2>5, Keeps
  <1> QED
    BY <1>2, <1>3

\* What the calls of an activation, up to CreateWindow, return to.
LEMMA OnTheWay ==
  ASSUME ControlInv, NEW at \in Entering \cup Arriving \cup {"createWindow"}, Returns(at)
  PROVE  /\ control \in ControlType /\ ~control.ui /\ ~control.region /\ control.hwnd = 0
         /\ ~frameActive /\ windows = {} /\ clipped = {}
         /\ control.inPlaceSite \in Sites
         /\ \A s \in Sites : told[s] = IF control.active /\ s = control.inPlaceSite
                                      THEN 1 ELSE 0
         /\ \A s \in Sites : toldUI[s] = 0
         /\ at \in Entering => ~control.active /\ ~control.frame
         /\ at \notin Entering => control.active
  <1>1. at \in Critical /\ at \notin {"onUI", "uiOff", "uiDone"}
    BY DEF Entering, Arriving, Critical
  <1>2. Types /\ Regions /\ Phases /\ at \in Ats(stack)
    BY <1>1, CriticalReturns
  <1>3. /\ at \in Entering => DuringEntry
        /\ at \in Arriving => DuringArrival
        /\ at = "createWindow" => DuringCreateWindow
    BY <1>2 DEF Phases
  <1>4. /\ control.inPlaceSite \in Sites /\ control \in ControlType
        /\ control.hwnd = 0 /\ windows = {}
    BY <1>2, <1>3
       DEF DuringEntry, DuringArrival, DuringCreateWindow, Off, NoWindow, Active, Types,
           ControlType
  <1>5. ~control.region /\ clipped = {}
    BY <1>2, <1>4 DEF Regions, Types
  <1>6. CASE at \in Entering
    BY <1>3, <1>4, <1>5, <1>6 DEF DuringEntry, Off, Inactive, Told
  <1>7. CASE at \in Arriving
    <2>1. at \notin Entering
      BY <1>7 DEF Entering, Arriving
    <2> QED
      BY <1>3, <1>4, <1>5, <1>7, <2>1 DEF DuringArrival, Told
  <1>8. CASE at = "createWindow"
    <2>1. at \notin Entering
      BY <1>8 DEF Entering
    <2> QED
      BY <1>3, <1>4, <1>5, <1>8, <2>1 DEF DuringCreateWindow, Active, Told
  <1> QED
    BY <1>6, <1>7, <1>8

\* A host or a table that fails an activation.
LEMMA ActivationFailsKeeps ==
  ASSUME ControlInv, ActivationFails
  PROVE  ControlInv'
  <1>1. PICK at \in {"canActivate", "onActivate", "getWindow", "getContext", "createWindow"} :
          Returns(at)
    BY DEF ActivationFails
  <1>2. /\ at \in Critical /\ at \notin {"onUI", "uiOff", "uiDone"}
        /\ at \in Entering \cup Arriving \cup {"createWindow"}
    BY DEF Critical, Entering, Arriving
  <1>3. PICK b : b = Below
    OBVIOUS
  <1>4. PICK c : c = control
    OBVIOUS
  <1>5. GivesUp(b, c) /\ UNCHANGED <<frameActive, desktop, life>>
    BY <1>3, <1>4 DEF ActivationFails, GivesUp
  <1>6. /\ alive /\ Types /\ b \in Seq(Frame) /\ Nested(b)
        /\ Ats(b) \cap Critical = {} /\ "setActive" \notin Ats(b)
    BY <1>1, <1>2, <1>3, CriticalReturns
  <1>7. /\ c \in ControlType /\ ~c.ui /\ ~c.region /\ c.hwnd = 0 /\ ~frameActive
        /\ windows = {} /\ c.inPlaceSite \in Sites
        /\ \A s \in Sites : told[s] = IF c.active /\ s = c.inPlaceSite THEN 1 ELSE 0
        /\ \A s \in Sites : toldUI[s] = 0
    BY <1>1, <1>2, <1>4, OnTheWay
  <1> QED
    BY <1>5, <1>6, <1>7, GivesUpKeeps

\* An activation goes from one call to the next.
LEMMA GoesOn ==
  ASSUME ControlInv, NEW from \in Entering \cup Arriving \cup {"createWindow"}, Returns(from),
         NEW at \in Waits, NEW c, NowAt(at, c)
  PROVE  /\ control' = c /\ stack' \in Seq(Frame) /\ Nested(stack')
         /\ Ats(stack') = Ats(Below) \cup {at}
         /\ Ats(Below) \cap Critical = {} /\ "setActive" \notin Ats(Below)
         /\ alive /\ Types /\ Regions
  <1>1. from \in Critical /\ from \notin {"onUI", "uiOff", "uiDone"}
    BY DEF Entering, Arriving, Critical
  <1>2. /\ alive /\ Types /\ Regions /\ Below \in Seq(Frame) /\ Nested(Below)
        /\ Ats(Below) \cap Critical = {} /\ "setActive" \notin Ats(Below) /\ Top \in Frame
    BY <1>1, CriticalReturns
  <1> DEFINE f == Call("activate", at, Top.ui)
  <1>3. f \in Frame /\ f.at = at
    <2>1. "activate" \in Operations /\ Top.ui \in BOOLEAN
      BY <1>2 DEF Operations, Frame
    <2> QED
      BY <2>1, CallIsFrame
  <1>4. control' = c /\ stack' = Append(Below, f)
    BY DEF NowAt
  <1> HIDE DEF f
  <1> QED
    BY <1>2, <1>3, <1>4, Pushed

\* The calls of an activation that say yes.
LEMMA MayActivateKeeps ==
  ASSUME ControlInv, MayActivate
  PROVE  ControlInv'
  <1>1. /\ Returns("canActivate") /\ NowAt("onActivate", control)
        /\ UNCHANGED <<hostView, desktop, life>>
    BY DEF MayActivate
  <1>2. "canActivate" \in Entering /\ "onActivate" \in Waits
    BY DEF Entering, Waits
  <1>3. /\ control' = control /\ stack' \in Seq(Frame) /\ Nested(stack')
        /\ Ats(stack') = Ats(Below) \cup {"onActivate"}
        /\ Ats(Below) \cap Critical = {} /\ "setActive" \notin Ats(Below)
        /\ alive /\ Types /\ Regions
    BY <1>1, <1>2, GoesOn
  <1>4. Types' /\ Regions'
    BY <1>1, <1>3 DEF Types, Regions, hostView, desktop, life
  <1>5. DuringEntry'
    <2>1. /\ ~control.active /\ ~control.frame /\ ~control.ui /\ ~frameActive
          /\ control.hwnd = 0 /\ windows = {} /\ control.inPlaceSite \in Sites
          /\ \A s \in Sites : told[s] = 0 /\ toldUI[s] = 0
      BY <1>1, <1>2, OnTheWay
    <2> QED
      BY <1>1, <1>3, <2>1, ControlAssumption
         DEF DuringEntry, Off, Inactive, NoWindow, Told, hostView, desktop
  <1>6. Phases'
    BY <1>3, <1>5 DEF Phases, Critical, Entering, Arriving
  <1> QED
    BY <1>1, <1>3, <1>4, <1>6, Keeps DEF life

\* From here on the host has been told.
LEMMA OnInPlaceActivateReturnsKeeps ==
  ASSUME ControlInv, OnInPlaceActivateReturns
  PROVE  ControlInv'
  <1>1. PICK c : c = [control EXCEPT !.active = TRUE]
    OBVIOUS
  <1>2. /\ Returns("onActivate") /\ NowAt("getWindow", c)
        /\ told' = [told EXCEPT ![control.inPlaceSite] = @ + 1]
        /\ UNCHANGED <<toldUI, frameActive, desktop, life>>
    BY <1>1 DEF OnInPlaceActivateReturns, NowAt
  <1>3. "onActivate" \in Entering /\ "getWindow" \in Waits
    BY DEF Entering, Waits
  <1>4. /\ control' = c /\ stack' \in Seq(Frame) /\ Nested(stack')
        /\ Ats(stack') = Ats(Below) \cup {"getWindow"}
        /\ Ats(Below) \cap Critical = {} /\ "setActive" \notin Ats(Below)
        /\ alive /\ Types /\ Regions
    BY <1>2, <1>3, GoesOn
  <1>5. /\ ~control.active /\ ~control.ui /\ ~frameActive /\ ~control.region
        /\ control.hwnd = 0 /\ windows = {} /\ control.inPlaceSite \in Sites
        /\ \A s \in Sites : told[s] = 0 /\ toldUI[s] = 0
    BY <1>2, <1>3, OnTheWay
  <1>6. /\ control' \in ControlType /\ control'.active /\ ~control'.ui /\ control'.hwnd = 0
        /\ ~control'.region /\ control'.inPlaceSite = control.inPlaceSite
    BY <1>1, <1>4, <1>5 DEF Types, ControlType
  <1>7. /\ told' \in [Sites -> Int]
        /\ \A s \in Sites : told'[s] = IF s = control.inPlaceSite THEN 1 ELSE 0
    BY <1>2, <1>4, <1>5 DEF Types
  <1>8. Types' /\ Regions'
    BY <1>2, <1>4, <1>6, <1>7 DEF Types, Regions, desktop, life
  <1>9. DuringArrival'
    BY <1>2, <1>5, <1>6, <1>7, ControlAssumption DEF DuringArrival, NoWindow, Told, desktop
  <1>10. Phases'
    BY <1>4, <1>9 DEF Phases, Critical, Entering, Arriving
  <1> QED
    BY <1>2, <1>4, <1>8, <1>10, Keeps DEF life

LEMMA GetWindowReturnsKeeps ==
  ASSUME ControlInv, GetWindowReturns
  PROVE  ControlInv'
  <1>1. /\ Returns("getWindow") /\ NowAt("getContext", control)
        /\ UNCHANGED <<hostView, desktop, life>>
    BY DEF GetWindowReturns
  <1>2. "getWindow" \in Arriving /\ "getWindow" \notin Entering /\ "getContext" \in Waits
    BY DEF Entering, Arriving, Waits
  <1>3. /\ control' = control /\ stack' \in Seq(Frame) /\ Nested(stack')
        /\ Ats(stack') = Ats(Below) \cup {"getContext"}
        /\ Ats(Below) \cap Critical = {} /\ "setActive" \notin Ats(Below)
        /\ alive /\ Types /\ Regions
    BY <1>1, <1>2, GoesOn
  <1>4. Types' /\ Regions'
    BY <1>1, <1>3 DEF Types, Regions, hostView, desktop, life
  <1>5. DuringArrival'
    <2>1. /\ control.active /\ ~control.ui /\ ~frameActive
          /\ control.hwnd = 0 /\ windows = {} /\ control.inPlaceSite \in Sites
          /\ \A s \in Sites : /\ told[s] = IF s = control.inPlaceSite THEN 1 ELSE 0
                             /\ toldUI[s] = 0
      BY <1>1, <1>2, OnTheWay
    <2> QED
      BY <1>1, <1>3, <2>1, ControlAssumption
         DEF DuringArrival, NoWindow, Told, hostView, desktop
  <1>6. Phases'
    BY <1>3, <1>5 DEF Phases, Critical, Entering, Arriving
  <1> QED
    BY <1>1, <1>3, <1>4, <1>6, Keeps DEF life

\* The frame is there, and there is no window yet.
LEMMA ContextGivenKeeps ==
  ASSUME ControlInv, NEW clip \in BOOLEAN, NEW placed \in BOOLEAN, ContextGiven(clip, placed)
  PROVE  ControlInv'
  <1>1. PICK c : c = [control EXCEPT !.frame = TRUE]
    OBVIOUS
  <1>2. Returns("getContext") /\ UNCHANGED <<frameActive, windows, made, life>>
    BY DEF ContextGiven
  <1>3. "getContext" \in Arriving /\ "getContext" \notin Entering /\ "createWindow" \in Waits
    BY DEF Entering, Arriving, Waits
  <1>4. /\ control.active /\ ~control.ui /\ ~frameActive /\ ~control.region
        /\ control.hwnd = 0 /\ windows = {} /\ control.inPlaceSite \in Sites
        /\ control \in ControlType
        /\ \A s \in Sites : /\ told[s] = IF s = control.inPlaceSite THEN 1 ELSE 0
                           /\ toldUI[s] = 0
    BY <1>2, <1>3, OnTheWay
  <1>5. /\ c \in ControlType /\ c.active /\ ~c.ui /\ c.hwnd = 0 /\ c.frame
        /\ ~c.region /\ c.inPlaceSite = control.inPlaceSite
    BY <1>1, <1>4 DEF ControlType
  <1>6. NowAt("createWindow", c) /\ UNCHANGED <<told, toldUI, clipped>>
    BY <1>1, <1>5 DEF ContextGiven
  <1>7. /\ control' = c /\ stack' \in Seq(Frame) /\ Nested(stack')
        /\ Ats(stack') = Ats(Below) \cup {"createWindow"}
        /\ Ats(Below) \cap Critical = {} /\ "setActive" \notin Ats(Below)
        /\ alive /\ Types /\ Regions
    BY <1>2, <1>3, <1>6, GoesOn
  <1>8. Types' /\ Regions'
    BY <1>2, <1>5, <1>6, <1>7 DEF Types, Regions, life
  <1>9. DuringCreateWindow'
    BY <1>2, <1>4, <1>5, <1>6, <1>7, ControlAssumption
       DEF DuringCreateWindow, Active, NoWindow, Told
  <1>10. Phases'
    BY <1>7, <1>9 DEF Phases, Critical, Entering, Arriving
  <1> QED
    BY <1>2, <1>7, <1>8, <1>10, Keeps DEF life

\* The table has made no window, and the host is asked to show the control.
LEMMA CreateWindowReturnsNoneKeeps ==
  ASSUME ControlInv, CreateWindowReturnsNone
  PROVE  ControlInv'
  <1>1. PICK c : c = [control EXCEPT !.hwnd = 0]
    OBVIOUS
  <1>2. Returns("createWindow") /\ UNCHANGED <<frameActive, desktop, life>>
    BY DEF CreateWindowReturnsNone
  <1>3. /\ "createWindow" \in Entering \cup Arriving \cup {"createWindow"}
        /\ "showNothing" \in Waits /\ "createWindow" \in Critical
    BY DEF Waits, Critical
  <1>4. /\ Types /\ Regions /\ alive /\ DuringCreateWindow
        /\ Below \in Seq(Frame) /\ Nested(Below)
        /\ Ats(Below) \cap Critical = {} /\ "setActive" \notin Ats(Below)
    BY <1>2, <1>3, CriticalReturns DEF Phases
  <1>5. c = control /\ control \in ControlType
    BY <1>1, <1>4 DEF Types, ControlType, DuringCreateWindow, NoWindow
  <1>6. CASE control.site # NoSite
    <2>1. NowAt("showNothing", c) /\ UNCHANGED <<told, toldUI>>
      BY <1>1, <1>5, <1>6 DEF CreateWindowReturnsNone
    <2>2. /\ control' = control /\ stack' \in Seq(Frame) /\ Nested(stack')
          /\ Ats(stack') = Ats(Below) \cup {"showNothing"}
      BY <1>2, <1>3, <1>5, <2>1, GoesOn
    <2>3. Types' /\ Regions'
      BY <1>2, <1>4, <2>1, <2>2 DEF Types, Regions, desktop, life
    <2>4. DuringShowNothing'
      BY <1>2, <1>4, <2>1, <2>2
         DEF DuringShowNothing, DuringCreateWindow, Active, NoWindow, Told, desktop
    <2>5. Phases'
      BY <1>4, <2>2, <2>4 DEF Phases, Critical, Entering, Arriving
    <2> QED
      BY <1>2, <1>4, <2>2, <2>3, <2>5, Keeps DEF life
  <1>7. CASE control.site = NoSite
    <2>1. PICK b : b = Below
      OBVIOUS
    <2>2. GivesUp(Below, c)
      BY <1>1, <1>5, <1>7 DEF CreateWindowReturnsNone
    <2>3. GivesUp(b, c)
      BY <2>1, <2>2 DEF GivesUp
    <2>4. /\ ~c.ui /\ ~c.region /\ c.hwnd = 0 /\ ~frameActive
          /\ windows = {} /\ c.inPlaceSite \in Sites
          /\ \A s \in Sites : told[s] = IF c.active /\ s = c.inPlaceSite THEN 1 ELSE 0
          /\ \A s \in Sites : toldUI[s] = 0
      BY <1>2, <1>3, <1>5, OnTheWay
    <2> QED
      BY <1>2, <1>4, <1>5, <2>1, <2>3, <2>4, GivesUpKeeps
  <1> QED
    BY <1>6, <1>7

\* A window has been made, and the host is asked to show it.
LEMMA CreateWindowReturnsKeeps ==
  ASSUME ControlInv, CreateWindowReturns
  PROVE  ControlInv'
  <1>1. /\ alive /\ Types /\ Regions /\ Phases
        /\ Below \in Seq(Frame) /\ Nested(Below)
        /\ "createWindow" \in Ats(stack) /\ Ats(Below) \cap Critical = {}
        /\ Unsteady(Top) => "setActive" \notin Ats(Below)
        /\ Top \in Frame /\ Top.at = "createWindow"
    BY TopReturns DEF CreateWindowReturns, Quiet
  <1>2. DuringCreateWindow /\ "setActive" \notin Ats(Below)
    BY <1>1 DEF Phases, Unsteady
  <1>3. PICK c : c = [control EXCEPT !.hwnd = made + 1]
    OBVIOUS
  <1>4. /\ made < MaxWindows /\ made' = made + 1 /\ windows' = windows \cup {made + 1}
        /\ UNCHANGED <<told, frameActive, clipped, life>>
    BY DEF CreateWindowReturns
  <1>5. /\ made \in Nat /\ made + 1 \in 1..MaxWindows /\ made' \in 0..MaxWindows
        /\ windows' = {made + 1} /\ clipped = {} /\ windows' \in SUBSET (1..made')
    BY <1>1, <1>2, <1>4, ControlAssumption DEF Types, DuringCreateWindow, NoWindow
  <1>6. /\ c \in ControlType /\ c.hwnd = made + 1 /\ c.hwnd # 0
        /\ c.active = control.active /\ c.ui = control.ui /\ c.frame = control.frame
        /\ c.region = control.region /\ c.inPlaceSite = control.inPlaceSite
    <2>1. PICK w : w = made + 1
      OBVIOUS
    <2>2. w \in 0..MaxWindows /\ w # 0 /\ control \in ControlType
      BY <1>1, <1>5, <2>1 DEF Types
    <2>3. c = [control EXCEPT !.hwnd = w]
      BY <1>3, <2>1
    <2>4. /\ c \in ControlType /\ c.hwnd = w
          /\ c.active = control.active /\ c.ui = control.ui /\ c.frame = control.frame
          /\ c.region = control.region /\ c.inPlaceSite = control.inPlaceSite
      BY <2>2, <2>3 DEF ControlType
    <2> QED
      BY <2>1, <2>2, <2>4
  <1>7. /\ c.active /\ c.frame /\ c.inPlaceSite \in Sites /\ ~c.ui /\ ~frameActive /\ ~c.region
        /\ \A s \in Sites : told[s] = IF s = c.inPlaceSite THEN 1 ELSE 0
        /\ \A s \in Sites : toldUI[s] = 0
    BY <1>1, <1>2, <1>6
       DEF DuringCreateWindow, Active, NoWindow, Told, Regions, ControlType
  <1>8. /\ stack' \in Seq(Frame) /\ Nested(stack') /\ Phases'
        /\ control' \in ControlType /\ toldUI' \in [Sites -> Int]
        /\ control'.hwnd = c.hwnd /\ control'.region = c.region
    <2>1. CASE control.site # NoSite
      <3>1. /\ control' = c /\ UNCHANGED toldUI
            /\ stack' = Append(Below, Call("activate", "showObject", Top.ui))
        <4>1. [control EXCEPT !.hwnd = made + 1].site # NoSite
          BY <1>1, <2>1 DEF Types, ControlType
        <4> QED
          BY <1>3, <4>1 DEF CreateWindowReturns, NowAt
      <3> DEFINE f == Call("activate", "showObject", Top.ui)
      <3>2. f \in Frame /\ f.at = "showObject"
        <4>1. "activate" \in Operations /\ "showObject" \in Waits /\ Top.ui \in BOOLEAN
          BY <1>1 DEF Operations, Waits, Frame
        <4> QED
          BY <4>1, CallIsFrame
      <3> HIDE DEF f
      <3>3. stack' = Append(Below, f)
        BY <3>1 DEF f
      <3>4. /\ stack' \in Seq(Frame) /\ Nested(stack')
            /\ Ats(stack') = Ats(Below) \cup {"showObject"}
        BY <1>1, <1>2, <3>2, <3>3, Pushed
      <3>5. Settled'
        <4>1. Active' /\ HasWindow' /\ ~control'.ui /\ ~frameActive'
          BY <1>4, <1>5, <1>6, <1>7, <3>1, ControlAssumption DEF Active, HasWindow
        <4>2. Told(1, 0)'
          BY <1>4, <1>7, <3>1 DEF Told
        <4> QED
          BY <4>1, <4>2 DEF Settled, On
      <3>6. Phases'
        BY <1>1, <1>2, <3>4, <3>5, SettledPhase DEF Critical
      <3> QED
        BY <1>1, <1>6, <3>1, <3>4, <3>6 DEF Types
    <2>2. CASE control.site = NoSite
      <3>1. PICK b : b = Below
        OBVIOUS
      <3>2. PICK ui : ui = Top.ui
        OBVIOUS
      <3>3. Continues(Below, c, Top.ui)
        <4>1. ~([control EXCEPT !.hwnd = made + 1].site # NoSite)
          BY <1>1, <2>2 DEF Types, ControlType
        <4> QED
          BY <1>3, <4>1 DEF CreateWindowReturns
      <3>4. Continues(b, c, ui)
        BY <3>1, <3>2, <3>3 DEF Continues
      <3>5. b \in Seq(Frame) /\ Nested(b) /\ Ats(b) \cap Critical = {} /\ ui \in BOOLEAN
        BY <1>1, <3>1, <3>2 DEF Frame
      <3> QED
        BY <1>1, <1>4, <1>5, <1>6, <1>7, <3>4, <3>5, ContinuesFrom
    <2> QED
      BY <2>1, <2>2
  <1>9. Types' /\ Regions'
    BY <1>1, <1>4, <1>5, <1>6, <1>7, <1>8 DEF Types, Regions, life
  <1> QED
    BY <1>1, <1>4, <1>8, <1>9, Keeps DEF life

\* The control waits where nothing of what it does is half done.
LEMMA TopSettled ==
  ASSUME ControlInv, NEW at, Returns(at), at \notin Critical, at \notin Quiet
  PROVE  Settled /\ ("setActive" \in Ats(Below) => control.active)
  BY TopReturns DEF Phases

\* The host has shown the control, and may have changed everything meanwhile.
LEMMA ShowObjectReturnsKeeps ==
  ASSUME ControlInv, ShowObjectReturns, Returns("showObject")
  PROVE  ControlInv'
  <1>1. /\ alive /\ Types /\ Regions /\ Phases
        /\ Below \in Seq(Frame) /\ Nested(Below) /\ Ats(Below) \cap Critical = {}
        /\ Top \in Frame
    BY TopReturns DEF ShowObjectReturns, Quiet
  <1>2. Settled /\ ("setActive" \in Ats(Below) => control.active)
    BY TopSettled DEF ShowObjectReturns, Critical, Quiet
  <1>3. UNCHANGED <<frameActive, desktop, life>>
    BY DEF ShowObjectReturns
  <1>4. CASE control.hwnd # 0 /\ Continues(Below, control, Top.ui) /\ UNCHANGED told
    <2>1. On \/ OnUI
      BY <1>2, <1>4 DEF Settled, Off, NoWindow
    <2>2. PICK b : b = Below
      OBVIOUS
    <2>3. PICK c : c = control
      OBVIOUS
    <2>4. PICK ui : ui = Top.ui
      OBVIOUS
    <2>5. Continues(b, c, ui)
      BY <1>4, <2>2, <2>3, <2>4 DEF Continues
    <2>6. b \in Seq(Frame) /\ Nested(b) /\ Ats(b) \cap Critical = {} /\ ui \in BOOLEAN
      BY <1>1, <2>2, <2>4 DEF Frame
    <2>7. /\ c \in ControlType /\ c.active /\ c.frame /\ c.inPlaceSite \in Sites /\ c.hwnd # 0
          /\ windows' = {c.hwnd} /\ frameActive' = frameActive /\ (c.ui <=> frameActive)
      BY <1>1, <1>3, <1>4, <2>1, <2>3 DEF On, OnUI, Active, HasWindow, Types, ControlType, desktop
    <2>8. /\ \A s \in Sites : told'[s] = IF s = c.inPlaceSite THEN 1 ELSE 0
          /\ \A s \in Sites : toldUI[s] = IF s = c.inPlaceSite /\ c.ui THEN 1 ELSE 0
      BY <1>4, <2>1, <2>3 DEF On, OnUI, Told
    <2>9. /\ stack' \in Seq(Frame) /\ Nested(stack') /\ Phases'
          /\ control' \in ControlType /\ toldUI' \in [Sites -> Int]
          /\ control'.hwnd = c.hwnd /\ control'.region = c.region
      BY <1>1, <2>5, <2>6, <2>7, <2>8, ContinuesFrom
    <2>10. Types' /\ Regions'
      BY <1>1, <1>3, <1>4, <2>3, <2>9 DEF Types, Regions, desktop, life
    <2> QED
      BY <1>1, <1>3, <2>9, <2>10, Keeps DEF life
  <1>5. CASE control.hwnd = 0 /\ GivesUp(Below, control)
    <2>1. Off
      BY <1>2, <1>5 DEF Settled, On, OnUI, HasWindow
    <2>2. ~control.active /\ "setActive" \notin Ats(Below)
      BY <1>2, <2>1 DEF Off, Inactive
    <2>3. PICK b : b = Below
      OBVIOUS
    <2>4. PICK c : c = control
      OBVIOUS
    <2>5. GivesUp(b, c)
      BY <1>5, <2>3, <2>4 DEF GivesUp
    <2>6. /\ c \in ControlType /\ ~c.ui /\ ~c.region /\ ~c.active /\ c.hwnd = 0 /\ ~frameActive
          /\ windows = {} /\ \A s \in Sites : told[s] = 0 /\ toldUI[s] = 0
      BY <1>1, <1>5, <2>1, <2>4 DEF Off, Inactive, NoWindow, Told, Regions, Types
    <2> QED
      BY <1>1, <1>3, <2>2, <2>3, <2>5, <2>6, GivesUpKeeps
  <1> QED
    BY <1>4, <1>5 DEF ShowObjectReturns

\* So may one that was shown a control without a window, but not activate it.
LEMMA ShowNothingReturnsKeeps ==
  ASSUME ControlInv, ShowObjectReturns, Returns("showNothing")
  PROVE  ControlInv'
  <1>1. "showNothing" \in Critical
    BY DEF Critical
  <1>2. /\ alive /\ Types /\ Regions /\ DuringShowNothing
        /\ Below \in Seq(Frame) /\ Nested(Below)
        /\ Ats(Below) \cap Critical = {} /\ "setActive" \notin Ats(Below)
    BY <1>1, CriticalReturns DEF Phases
  <1>3. PICK b : b = Below
    OBVIOUS
  <1>4. PICK c : c = control
    OBVIOUS
  <1>5. control.hwnd = 0 /\ windows = {}
    BY <1>2 DEF DuringShowNothing, DuringCreateWindow, Off, NoWindow
  <1>6. GivesUp(Below, control) /\ UNCHANGED <<frameActive, desktop, life>>
    BY <1>5 DEF ShowObjectReturns
  <1>7. GivesUp(b, c)
    BY <1>3, <1>4, <1>6 DEF GivesUp
  <1>8. /\ c \in ControlType /\ ~c.ui /\ ~c.region /\ c.hwnd = 0 /\ ~frameActive
    BY <1>2, <1>4, <1>5
       DEF DuringShowNothing, DuringCreateWindow, Off, Inactive, Regions, Types
  <1>9. /\ c.active => c.inPlaceSite \in Sites
        /\ \A s \in Sites : told[s] = IF c.active /\ s = c.inPlaceSite THEN 1 ELSE 0
        /\ \A s \in Sites : toldUI[s] = 0
    BY <1>2, <1>4, <1>8
       DEF DuringShowNothing, DuringCreateWindow, Active, Off, Inactive, Told, ControlType
  <1> QED
    BY <1>2, <1>3, <1>5, <1>6, <1>7, <1>8, <1>9, GivesUpKeeps

\* The host's user interface is the control's, and the frame is there.
LEMMA OnUIActivateReturnsKeeps ==
  ASSUME ControlInv, OnUIActivateReturns
  PROVE  ControlInv'
  <1>1. /\ alive /\ Types /\ Regions /\ Phases
        /\ Below \in Seq(Frame) /\ Nested(Below)
        /\ "onUI" \in Ats(stack) /\ Ats(Below) \cap Critical = {}
    BY TopReturns DEF OnUIActivateReturns, Quiet
  <1>2. DuringOnUI
    BY <1>1 DEF Phases
  <1> DEFINE f == Call("activate", "setActive", TRUE)
  <1>3. f \in Frame /\ f.at = "setActive" /\ ~Unsteady(f)
    <2>1. "activate" \in Operations /\ "setActive" \in Waits /\ TRUE \in BOOLEAN
      BY DEF Operations, Waits
    <2>2. f \in Frame /\ f.at = "setActive"
      BY <2>1, CallIsFrame
    <2> QED
      BY <2>2 DEF Unsteady
  <1>4. /\ frameActive' = TRUE /\ stack' = Append(Below, f)
        /\ UNCHANGED <<control, told, toldUI, desktop, closed, alive, crashed>>
    BY <1>2 DEF OnUIActivateReturns, DuringOnUI, Active
  <1> HIDE DEF f
  <1>5. /\ stack' \in Seq(Frame) /\ Nested(stack')
        /\ Ats(stack') = Ats(Below) \cup {"setActive"}
    BY <1>1, <1>3, <1>4, Pushed
  <1>6. Types' /\ Regions'
    BY <1>1, <1>4, <1>5 DEF Types, Regions, desktop
  <1>7. Settled' /\ control'.active
    BY <1>2, <1>4 DEF DuringOnUI, Settled, OnUI, Active, HasWindow, Told, desktop
  <1>8. Phases'
    BY <1>1, <1>5, <1>7, SettledPhase DEF Critical
  <1> QED
    BY <1>1, <1>4, <1>5, <1>6, <1>8, Keeps

\* The frame knows its active object: nothing has deactivated the control.
LEMMA SetActiveReturnsKeeps ==
  ASSUME ControlInv, SetActiveReturns
  PROVE  ControlInv'
  <1>1. /\ alive /\ Types /\ Regions /\ Phases
        /\ Below \in Seq(Frame) /\ Nested(Below)
        /\ "setActive" \in Ats(stack) /\ Ats(Below) \cap Critical = {}
    BY TopReturns DEF SetActiveReturns, Quiet
  <1>2. Settled
    BY TopSettled DEF SetActiveReturns, Critical, Quiet
  <1>3. control.active /\ control.frame
    BY <1>1, <1>2 DEF Phases, Settled, Off, On, OnUI, Active, Inactive
  <1>4. /\ crashed' = FALSE /\ stack' = Below
        /\ UNCHANGED <<control, hostView, desktop, closed, alive>>
    BY <1>3 DEF SetActiveReturns
  <1>5. Types' /\ Regions'
    BY <1>1, <1>4 DEF Types, Regions, hostView, desktop
  <1>6. Settled' /\ control'.active
    BY <1>2, <1>3, <1>4
       DEF Settled, Off, On, OnUI, Active, Inactive, HasWindow, NoWindow, Told, hostView, desktop
  <1>7. Phases'
    BY <1>1, <1>4, <1>6, SettledPhase
  <1> QED
    BY <1>1, <1>4, <1>5, <1>7, Keeps

\* The host knows that the activation has come to nothing.
LEMMA GiveUpReturnsKeeps ==
  ASSUME ControlInv, GiveUpReturns
  PROVE  ControlInv'
  <1>1. /\ alive /\ Types /\ Regions /\ Phases
        /\ Below \in Seq(Frame) /\ Nested(Below)
        /\ "giveUp" \in Ats(stack) /\ Ats(Below) \cap Critical = {}
        /\ Unsteady(Top) => "setActive" \notin Ats(Below)
        /\ Top.at = "giveUp"
    BY TopReturns DEF GiveUpReturns, Quiet
  <1>2. DuringGiveUp /\ "setActive" \notin Ats(Below)
    BY <1>1 DEF Phases, Unsteady
  <1>3. /\ control' = [control EXCEPT !.frame = FALSE] /\ stack' = Below
        /\ UNCHANGED <<hostView, desktop, life>>
    BY DEF GiveUpReturns
  <1>4. /\ control' \in ControlType /\ control'.frame = FALSE
        /\ control'.active = control.active /\ control'.ui = control.ui
        /\ control'.hwnd = control.hwnd /\ control'.region = control.region
        /\ control'.inPlaceSite = control.inPlaceSite
    BY <1>1, <1>3 DEF Types, ControlType
  <1>5. Types' /\ Regions'
    BY <1>1, <1>3, <1>4 DEF Types, Regions, hostView, desktop, life
  <1>6. Settled'
    BY <1>2, <1>3, <1>4
       DEF DuringGiveUp, Settled, Off, Inactive, NoWindow, Told, hostView, desktop
  <1>7. Phases'
    BY <1>1, <1>2, <1>3, <1>6, SettledPhase
  <1> QED
    BY <1>1, <1>3, <1>5, <1>7, Keeps DEF life

-----------------------------------------------------------------------------
(* The steps of the other operations.                                      *)

\* A control that hosts may deactivate is not on its way anywhere, or it waits
\* for a host that was shown a control without a window.
LEMMA DeactivatesFrom ==
  ASSUME HostsRefrain, ControlInv, Starts("deactivate") \/ Starts("close"), control.active
  PROVE  /\ Ats(stack) \cap (Critical \ {"showNothing"}) = {} /\ "setActive" \notin Ats(stack)
         /\ \/ Ats(stack) \cap Critical = {} /\ (On \/ OnUI)
            \/ DuringCreateWindow
  <1>1. /\ alive /\ Phases
        /\ Ats(stack) \cap {"getWindow", "getContext", "createWindow", "onUI", "setActive",
                           "uiOff", "uiDone"} = {}
    BY Refraining DEF ControlInv, Starts, Calm
  <1>2. Ats(stack) \cap {"askSite", "canActivate", "onActivate", "giveUp", "destroy"} = {}
    BY <1>1
       DEF Phases, Entering, DuringEntry, DuringGiveUp, DuringDestroy, Off, Inactive
  <1>3. Ats(stack) \cap (Critical \ {"showNothing"}) = {} /\ "setActive" \notin Ats(stack)
    BY <1>1, <1>2 DEF Critical
  <1>4. CASE "showNothing" \in Ats(stack)
    BY <1>1, <1>3, <1>4 DEF Phases, DuringShowNothing, Off, Inactive
  <1>5. CASE "showNothing" \notin Ats(stack)
    <2>1. Ats(stack) \cap Critical = {}
      BY <1>3, <1>5
    <2> QED
      BY <1>1, <1>3, <2>1 DEF Phases, Settled, Off, Inactive
  <1> QED
    BY <1>4, <1>5

\* Nor is one whose user interface a host may deactivate.
LEMMA LeavesUIFrom ==
  ASSUME HostsRefrain, ControlInv, Starts("uiDeactivate") \/ Starts("hide"), control.ui
  PROVE  Ats(stack) \cap Critical = {} /\ OnUI
  <1>1. alive /\ Phases /\ "onUI" \notin Ats(stack)
    BY Refraining DEF ControlInv, Starts, Calm
  <1>2. Ats(stack) \cap Entering = {} /\ Ats(stack) \cap Arriving = {}
    BY <1>1 DEF Phases, DuringEntry, DuringArrival, Off, Inactive
  <1>3. Ats(stack) \cap Critical = {}
    BY <1>1, <1>2 DEF Critical, Entering, Arriving, Phases, DuringCreateWindow,
                      DuringShowNothing, DuringUIOff, DuringGiveUp, DuringDestroy, On, Off,
                      Inactive
  <1> QED
    BY <1>1, <1>3 DEF Phases, Settled, Off, On, Inactive

\* UIDeactivate tells the frame before the site.
LEMMA LeavesUIKeeps ==
  ASSUME ControlInv, alive, NEW op \in Operations,
         Ats(stack) \cap Critical = {}, OnUI,
         op = "deactivate" => "setActive" \notin Ats(stack),
         LeavesUI(op), closed' \in BOOLEAN
  PROVE  ControlInv'
  <1>1. Types /\ Regions /\ Nested(stack) /\ Phases /\ stack \in Seq(Frame)
    BY DEF ControlInv, Types
  <1> DEFINE f == Call(op, "uiOff", FALSE)
  <1>2. f \in Frame /\ f.at = "uiOff" /\ (Unsteady(f) => op = "deactivate")
    <2>1. "uiOff" \in Waits /\ FALSE \in BOOLEAN
      BY DEF Waits
    <2>2. f \in Frame /\ f.at = "uiOff" /\ f.op = op
      BY <2>1, CallIsFrame
    <2> QED
      BY <2>2 DEF Unsteady
  <1>3. /\ control' = [control EXCEPT !.ui = FALSE]
        /\ frameActive' = FALSE /\ stack' = Append(stack, f)
        /\ UNCHANGED <<told, toldUI, desktop, alive, crashed>>
    BY DEF LeavesUI, OnUI, Active
  <1> HIDE DEF f
  <1>4. /\ stack' \in Seq(Frame) /\ Nested(stack')
        /\ Ats(stack') = Ats(stack) \cup {"uiOff"}
    BY <1>1, <1>2, <1>3, Pushed
  <1>5. /\ control' \in ControlType /\ ~control'.ui
        /\ control'.active = control.active /\ control'.frame = control.frame
        /\ control'.hwnd = control.hwnd /\ control'.region = control.region
        /\ control'.inPlaceSite = control.inPlaceSite
    BY <1>1, <1>3 DEF Types, ControlType
  <1>6. Types' /\ Regions'
    <2>1. Types'
      BY <1>1, <1>3, <1>4, <1>5 DEF Types, desktop
    <2>2. Regions'
      BY <1>1, <1>3, <1>5 DEF Regions, desktop
    <2> QED
      BY <2>1, <2>2
  <1>7. DuringUIOff' /\ control'.active
    BY <1>3, <1>5 DEF OnUI, DuringUIOff, Active, HasWindow, Told, desktop
  <1>8. Phases'
    BY <1>4, <1>7 DEF Phases, Critical, Entering, Arriving
  <1> QED
    BY <1>3, <1>4, <1>6, <1>8, Keeps

\* InPlaceDeactivate gives up the window before the site.
LEMMA LeavesWindowKeeps ==
  ASSUME ControlInv, alive, On,
         NEW b \in Seq(Frame), Nested(b),
         Ats(b) \cap Critical = {}, "setActive" \notin Ats(b),
         LeavesWindow(b), closed' \in BOOLEAN,
         UNCHANGED <<toldUI, frameActive, desktop, alive, crashed>>
  PROVE  ControlInv'
  <1>1. Types /\ Regions
    BY DEF ControlInv
  <1> DEFINE f == Call("deactivate", "destroy", FALSE)
  <1>2. f \in Frame /\ f.at = "destroy"
    <2>1. "deactivate" \in Operations /\ "destroy" \in Waits /\ FALSE \in BOOLEAN
      BY DEF Operations, Waits
    <2> QED
      BY <2>1, CallIsFrame
  <1>3. /\ control' = [control EXCEPT !.active = FALSE, !.visible = FALSE]
        /\ stack' = Append(b, f) /\ told' = told
    <2>1. [control EXCEPT !.active = FALSE, !.visible = FALSE].hwnd # 0
      BY <1>1 DEF Types, ControlType, On, HasWindow
    <2> QED
      BY <2>1 DEF LeavesWindow
  <1> HIDE DEF f
  <1>4. /\ stack' \in Seq(Frame) /\ Nested(stack')
        /\ Ats(stack') = Ats(b) \cup {"destroy"}
    BY <1>2, <1>3, Pushed
  <1>5. /\ control' \in ControlType /\ ~control'.active
        /\ control'.ui = control.ui
        /\ control'.hwnd = control.hwnd /\ control'.region = control.region
        /\ control'.inPlaceSite = control.inPlaceSite
    BY <1>1, <1>3 DEF Types, ControlType
  <1>6. Types' /\ Regions'
    BY <1>1, <1>3, <1>4, <1>5 DEF Types, Regions, desktop
  <1>7. DuringDestroy'
    BY <1>3, <1>5 DEF On, DuringDestroy, Active, Inactive, HasWindow, Told, desktop
  <1>8. Phases'
    BY <1>4, <1>7 DEF Phases, Critical, Entering, Arriving
  <1> QED
    BY <1>4, <1>6, <1>8, Keeps

\* Without a window there is only the site to tell.
LEMMA LeavesHostKeeps ==
  ASSUME ControlInv, alive, DuringCreateWindow,
         Ats(stack) \cap (Critical \ {"showNothing"}) = {}, "setActive" \notin Ats(stack),
         LeavesWindow(stack), closed' \in BOOLEAN,
         UNCHANGED <<toldUI, frameActive, desktop, alive, crashed>>
  PROVE  ControlInv'
  <1>1. Types /\ Regions /\ Nested(stack) /\ stack \in Seq(Frame)
    BY DEF ControlInv, Types
  <1> DEFINE f == Call("deactivate", "deactivated", FALSE)
  <1>2. f \in Frame /\ f.at = "deactivated" /\ ~Unsteady(f)
    <2>1. "deactivate" \in Operations /\ "deactivated" \in Waits /\ FALSE \in BOOLEAN
      BY DEF Operations, Waits
    <2>2. f \in Frame /\ f.at = "deactivated"
      BY <2>1, CallIsFrame
    <2> QED
      BY <2>2 DEF Unsteady
  <1>3. PICK c : c = [control EXCEPT !.active = FALSE, !.visible = FALSE]
    OBVIOUS
  <1>4. /\ c \in ControlType /\ ~c.active /\ c.hwnd = 0 /\ ~c.ui /\ ~c.region
        /\ c.inPlaceSite = control.inPlaceSite
    BY <1>1, <1>3 DEF DuringCreateWindow, NoWindow, Types, Regions, ControlType
  <1>5. /\ control' = [c EXCEPT !.frame = FALSE]
        /\ told' = [told EXCEPT ![control.inPlaceSite] = @ - 1]
        /\ stack' = Append(stack, f)
    <2>1. LeavesHost(stack, c)
      BY <1>3, <1>4 DEF LeavesWindow
    <2> QED
      BY <1>4, <2>1 DEF LeavesHost
  <1> HIDE DEF f
  <1>6. /\ control' \in ControlType /\ ~control'.active /\ control'.hwnd = 0 /\ ~control'.ui
        /\ ~control'.region /\ ~control'.frame
    BY <1>4, <1>5 DEF ControlType
  <1>7. /\ stack' \in Seq(Frame) /\ Nested(stack')
        /\ Ats(stack') = Ats(stack) \cup {"deactivated"}
    BY <1>1, <1>2, <1>5, Pushed DEF Quiet
  <1>8. told' \in [Sites -> Int] /\ \A s \in Sites : told'[s] = 0
    <2>1. PICK p : p = control.inPlaceSite
      OBVIOUS
    <2>2. PICK t : t = told
      OBVIOUS
    <2>3. t \in [Sites -> Int] /\ p \in Sites
      BY <1>1, <2>1, <2>2 DEF Types, ControlType, DuringCreateWindow, Active
    <2>4. \A s \in Sites : t[s] = IF s = p THEN 1 ELSE 0
      BY <2>1, <2>2 DEF DuringCreateWindow, Told
    <2>5. told' = [t EXCEPT ![p] = @ - 1]
      BY <1>5, <2>1, <2>2
    <2> QED
      BY <2>3, <2>4, <2>5, ToldLess
  <1>9. Types' /\ Regions'
    BY <1>1, <1>6, <1>7, <1>8 DEF Types, Regions, desktop
  <1>10. Off'
    <2>1. \A s \in Sites : toldUI'[s] = 0
      BY DEF DuringCreateWindow, Told
    <2>2. windows' = {} /\ ~frameActive'
      BY DEF DuringCreateWindow, NoWindow, desktop
    <2> QED
      BY <1>6, <1>8, <2>1, <2>2 DEF Off, Inactive, NoWindow, Told
  <1>11. Phases'
    BY <1>7, <1>10 DEF Phases, Critical, Entering, Arriving, DuringShowNothing, Settled
  <1> QED
    BY <1>7, <1>9, <1>11, Keeps

\* InPlaceDeactivate and Close, as far as their first call.
LEMMA DeactivatesKeeps ==
  ASSUME HostsRefrain, ControlInv, Starts("deactivate") \/ Starts("close"), control.active,
         Deactivates, closed' \in BOOLEAN
  PROVE  ControlInv'
  <1>1. /\ Ats(stack) \cap (Critical \ {"showNothing"}) = {} /\ "setActive" \notin Ats(stack)
        /\ \/ Ats(stack) \cap Critical = {} /\ (On \/ OnUI)
           \/ DuringCreateWindow
    BY DeactivatesFrom
  <1>2. alive /\ stack \in Seq(Frame) /\ Nested(stack)
    BY DEF ControlInv, Types, Starts, Calm
  <1>3. CASE control.ui /\ LeavesUI("deactivate")
    <2>1. Ats(stack) \cap Critical = {} /\ OnUI
      BY <1>1, <1>3 DEF On, DuringCreateWindow
    <2>2. "deactivate" \in Operations
      BY DEF Operations
    <2> QED
      BY <1>1, <1>2, <1>3, <2>1, <2>2, LeavesUIKeeps
  <1>4. CASE /\ ~control.ui /\ LeavesWindow(stack)
             /\ UNCHANGED <<toldUI, frameActive, desktop, alive, crashed>>
    <2>1. CASE DuringCreateWindow
      BY <1>1, <1>2, <1>4, <2>1, LeavesHostKeeps
    <2>2. CASE Ats(stack) \cap Critical = {} /\ (On \/ OnUI)
      <3>1. On
        BY <1>4, <2>2 DEF OnUI
      <3>2. PICK b : b = stack
        OBVIOUS
      <3>3. b \in Seq(Frame) /\ Nested(b) /\ Ats(b) \cap Critical = {} /\ "setActive" \notin Ats(b)
        BY <1>1, <1>2, <2>2, <3>2
      <3>4. LeavesWindow(b)
        BY <1>4, <3>2 DEF LeavesWindow, LeavesHost
      <3> QED
        BY <1>2, <1>4, <3>1, <3>3, <3>4, LeavesWindowKeeps
    <2> QED
      BY <1>1, <2>1, <2>2
  <1> QED
    BY <1>3, <1>4 DEF Deactivates

\* The frame has let go of the control: the site is told next.
LEMMA UIOffReturnsKeeps ==
  ASSUME ControlInv, UIOffReturns
  PROVE  ControlInv'
  <1>1. /\ alive /\ Types /\ Regions /\ Phases
        /\ Below \in Seq(Frame) /\ Nested(Below)
        /\ "uiOff" \in Ats(stack) /\ Ats(Below) \cap Critical = {}
        /\ Unsteady(Top) => "setActive" \notin Ats(Below)
        /\ Top \in Frame /\ Top.at = "uiOff"
    BY TopReturns DEF UIOffReturns, Quiet
  <1>2. DuringUIOff
    BY <1>1 DEF Phases
  <1>3. PICK op : op = Top.op
    OBVIOUS
  <1> DEFINE f == Call(op, "uiDone", FALSE)
  <1>4. /\ f \in Frame /\ f.at = "uiDone"
        /\ "setActive" \in Ats(Below) => ~Unsteady(f)
    <2>1. op \in Operations /\ "uiDone" \in Waits /\ FALSE \in BOOLEAN
      BY <1>1, <1>3 DEF Waits, Frame
    <2>2. f \in Frame /\ f.at = "uiDone" /\ f.op = op
      BY <2>1, CallIsFrame
    <2> QED
      BY <1>1, <1>3, <2>2 DEF Unsteady
  <1>5. /\ toldUI' = [toldUI EXCEPT ![control.inPlaceSite] = @ - 1]
        /\ stack' = Append(Below, f)
        /\ UNCHANGED <<control, told, frameActive, desktop, life>>
    BY <1>3 DEF UIOffReturns
  <1> HIDE DEF f
  <1>6. /\ stack' \in Seq(Frame) /\ Nested(stack')
        /\ Ats(stack') = Ats(Below) \cup {"uiDone"}
    BY <1>1, <1>4, <1>5, Pushed
  <1>7. /\ toldUI' \in [Sites -> Int]
        /\ \A s \in Sites : toldUI'[s] = 0
    <2>1. PICK p : p = control.inPlaceSite
      OBVIOUS
    <2>2. PICK t : t = toldUI
      OBVIOUS
    <2>3. t \in [Sites -> Int] /\ p \in Sites
      BY <1>1, <1>2, <2>1, <2>2 DEF Types, ControlType, DuringUIOff, Active
    <2>4. \A s \in Sites : t[s] = IF s = p THEN 1 ELSE 0
      BY <1>2, <2>1, <2>2 DEF DuringUIOff, Told
    <2>5. toldUI' = [t EXCEPT ![p] = @ - 1]
      BY <1>5, <2>1, <2>2
    <2> QED
      BY <2>3, <2>4, <2>5, ToldLess
  <1>8. Types' /\ Regions'
    BY <1>1, <1>5, <1>6, <1>7 DEF Types, Regions, desktop, life
  <1>9. On' /\ control'.active
    <2>1. Active' /\ HasWindow' /\ ~control'.ui /\ ~frameActive' /\ control'.active
      BY <1>2, <1>5 DEF DuringUIOff, Active, HasWindow, desktop
    <2>2. Told(1, 0)'
      BY <1>2, <1>5, <1>7 DEF DuringUIOff, Told
    <2> QED
      BY <2>1, <2>2 DEF On
  <1>10. Phases'
    BY <1>1, <1>6, <1>9 DEF Phases, Critical, Entering, Arriving
  <1> QED
    BY <1>1, <1>5, <1>6, <1>8, <1>10, Keeps DEF life

\* UIDeactivate is over, and InPlaceDeactivate or DoVerb goes on.
LEMMA UIDoneReturnsKeeps ==
  ASSUME ControlInv, UIDoneReturns
  PROVE  ControlInv'
  <1>1. /\ alive /\ Types /\ Regions /\ Phases
        /\ Below \in Seq(Frame) /\ Nested(Below)
        /\ "uiDone" \in Ats(stack) /\ Ats(Below) \cap Critical = {}
        /\ Unsteady(Top) => "setActive" \notin Ats(Below)
        /\ Top \in Frame /\ Top.at = "uiDone"
    BY TopReturns DEF UIDoneReturns, Quiet
  <1>2. On
    BY <1>1 DEF Phases
  <1>3. UNCHANGED <<toldUI, frameActive, desktop, life>>
    BY DEF UIDoneReturns
  <1>4. CASE Top.op = "deactivate"
    <2>1. PICK b : b = Below
      OBVIOUS
    <2>2. LeavesWindow(Below)
      BY <1>4 DEF UIDoneReturns
    <2>3. LeavesWindow(b)
      BY <2>1, <2>2 DEF LeavesWindow, LeavesHost
    <2>4. b \in Seq(Frame) /\ Nested(b) /\ Ats(b) \cap Critical = {} /\ "setActive" \notin Ats(b)
      BY <1>1, <1>4, <2>1 DEF Unsteady
    <2>5. closed' \in BOOLEAN
      BY <1>1, <1>3 DEF Types, life
    <2> QED
      BY <1>1, <1>2, <1>3, <2>3, <2>4, <2>5, LeavesWindowKeeps DEF life
  <1>5. CASE Top.op # "deactivate"
    <2>1. /\ stack' = Below /\ UNCHANGED told
          /\ control' = [control EXCEPT !.visible = FALSE] \/ control' = control
      BY <1>5 DEF UIDoneReturns
    <2>2. /\ control' \in ControlType
          /\ control'.active = control.active /\ control'.ui = control.ui
          /\ control'.frame = control.frame
          /\ control'.hwnd = control.hwnd /\ control'.region = control.region
          /\ control'.inPlaceSite = control.inPlaceSite
      BY <1>1, <2>1 DEF Types, ControlType
    <2>3. Types'
      BY <1>1, <1>3, <2>1, <2>2 DEF Types, desktop, life
    <2>4. Regions'
      BY <1>1, <1>3, <2>2 DEF Regions, desktop
    <2>5. On' /\ control'.active
      BY <1>2, <1>3, <2>1, <2>2 DEF On, Active, HasWindow, Told, desktop
    <2>6. Phases'
      BY <1>1, <2>1, <2>5, SettledPhase DEF Settled
    <2> QED
      BY <1>1, <1>3, <2>1, <2>3, <2>4, <2>6, Keeps DEF life
  <1> QED
    BY <1>4, <1>5

\* The window is gone: the site is told of the end.
LEMMA DestroyReturnsKeeps ==
  ASSUME ControlInv, DestroyReturns
  PROVE  ControlInv'
  <1>1. /\ alive /\ Types /\ Regions /\ Phases
        /\ Below \in Seq(Frame) /\ Nested(Below)
        /\ "destroy" \in Ats(stack) /\ Ats(Below) \cap Critical = {}
        /\ Unsteady(Top) => "setActive" \notin Ats(Below)
        /\ Top.at = "destroy"
    BY TopReturns DEF DestroyReturns, Quiet
  <1>2. DuringDestroy /\ "setActive" \notin Ats(Below)
    BY <1>1 DEF Phases, Unsteady
  <1> DEFINE f == Call("deactivate", "deactivated", FALSE)
  <1>3. f \in Frame /\ f.at = "deactivated" /\ ~Unsteady(f)
    <2>1. "deactivate" \in Operations /\ "deactivated" \in Waits /\ FALSE \in BOOLEAN
      BY DEF Operations, Waits
    <2>2. f \in Frame /\ f.at = "deactivated"
      BY <2>1, CallIsFrame
    <2> QED
      BY <2>2 DEF Unsteady
  <1>4. PICK c : c = WithoutWindow
    OBVIOUS
  <1>5. /\ c \in ControlType /\ c.hwnd = 0 /\ c.region = FALSE
        /\ c.active = control.active /\ c.ui = control.ui
        /\ c.inPlaceSite = control.inPlaceSite
    <2>1. control \in ControlType /\ 0 \in 0..MaxWindows
      BY <1>1, ControlAssumption DEF Types
    <2>2. c = [control EXCEPT !.hwnd = 0, !.region = FALSE]
      BY <1>4 DEF WithoutWindow
    <2> QED
      BY <2>1, <2>2 DEF ControlType
  <1>6. /\ windows' = windows \ {control.hwnd} /\ clipped' = clipped \ {control.hwnd}
        /\ control' = [c EXCEPT !.frame = FALSE]
        /\ told' = [told EXCEPT ![control.inPlaceSite] = @ - 1]
        /\ stack' = Append(Below, f)
        /\ UNCHANGED <<toldUI, frameActive, made, life>>
    <2>1. LeavesHost(Below, WithoutWindow)
      BY DEF DestroyReturns
    <2>2. /\ control' = [c EXCEPT !.frame = FALSE]
          /\ told' = [told EXCEPT ![control.inPlaceSite] = @ - 1]
          /\ stack' = Append(Below, f)
      BY <1>4, <1>5, <2>1 DEF LeavesHost
    <2> QED
      BY <2>2 DEF DestroyReturns
  <1> HIDE DEF f
  <1>7. /\ control' \in ControlType /\ control'.hwnd = 0 /\ control'.region = FALSE
        /\ control'.frame = FALSE
        /\ control'.active = control.active /\ control'.ui = control.ui
        /\ control'.inPlaceSite = control.inPlaceSite
    BY <1>5, <1>6 DEF ControlType
  <1>8. /\ stack' \in Seq(Frame) /\ Nested(stack')
        /\ Ats(stack') = Ats(Below) \cup {"deactivated"}
    BY <1>1, <1>3, <1>6, Pushed
  <1>9. windows' = {} /\ clipped' = {}
    BY <1>1, <1>2, <1>6 DEF DuringDestroy, HasWindow, Types
  <1>10. /\ told' \in [Sites -> Int]
         /\ \A s \in Sites : told'[s] = 0
    <2>1. PICK p : p = control.inPlaceSite
      OBVIOUS
    <2>2. PICK t : t = told
      OBVIOUS
    <2>3. t \in [Sites -> Int] /\ p \in Sites
      BY <1>1, <1>2, <2>1, <2>2 DEF Types, ControlType, DuringDestroy
    <2>4. \A s \in Sites : t[s] = IF s = p THEN 1 ELSE 0
      BY <1>2, <2>1, <2>2 DEF DuringDestroy, Told
    <2>5. told' = [t EXCEPT ![p] = @ - 1]
      BY <1>6, <2>1, <2>2
    <2> QED
      BY <2>3, <2>4, <2>5, ToldLess
  <1>11. Types'
    BY <1>1, <1>6, <1>7, <1>8, <1>9, <1>10 DEF Types, life
  <1>12. Regions'
    BY <1>7 DEF Regions
  <1>13. Settled'
    <2>1. Inactive' /\ ~control'.frame /\ NoWindow'
      BY <1>2, <1>6, <1>7, <1>9 DEF DuringDestroy, Inactive, NoWindow
    <2>2. Told(0, 0)'
      BY <1>2, <1>6, <1>7, <1>10 DEF DuringDestroy, Told
    <2> QED
      BY <2>1, <2>2 DEF Settled, Off
  <1>14. Phases'
    BY <1>1, <1>2, <1>8, <1>13, SettledPhase DEF Critical
  <1> QED
    BY <1>1, <1>6, <1>8, <1>11, <1>12, <1>14, Keeps DEF life

\* Whatever the control waits for, it has a window or none exists.
LEMMA WindowKnown ==
  ASSUME Phases
  PROVE  HasWindow \/ NoWindow
  <1>1. CASE Ats(stack) \cap Entering # {} \/ Ats(stack) \cap Arriving # {}
    BY <1>1 DEF Phases, DuringEntry, DuringArrival, Off
  <1>2. CASE Ats(stack) \cap Entering = {} /\ Ats(stack) \cap Arriving = {}
    BY <1>2 DEF Phases, Critical, Entering, Arriving, Settled, On, Off, OnUI,
                DuringCreateWindow, DuringShowNothing, DuringOnUI, DuringUIOff,
                DuringGiveUp, DuringDestroy
  <1> QED
    BY <1>1, <1>2

\* Steps that only push or pop a call that says nothing of the control's state.
LEMMA StackKeeps ==
  ASSUME ControlInv, alive, stack' \in Seq(Frame), Nested(stack'),
         \A at \in Critical \cup {"setActive"} : at \in Ats(stack') <=> at \in Ats(stack),
         UNCHANGED <<control, hostView, desktop, life>>
  PROVE  ControlInv'
  <1>1. Types' /\ Regions' /\ alive' = TRUE
    BY DEF ControlInv, Types, Regions, hostView, desktop, life
  <1>2. SameView
    BY DEF SameView, hostView, desktop
  <1>3. Phases'
    BY <1>2, PhasesStay DEF ControlInv
  <1> QED
    BY <1>1, <1>3, Keeps

\* The returns of calls that change nothing.
LEMMA QuietReturnsKeep ==
  ASSUME ControlInv, DeactivatedReturns \/ SetExtentReturns \/ PosRectReturns
  PROVE  ControlInv'
  <1>1. UNCHANGED <<control, hostView, desktop, life>>
    BY DEF DeactivatedReturns, SetExtentReturns, PosRectReturns
  <1>2. PICK at \in {"deactivated", "setExtent", "posRect"} : Returns(at)
    BY DEF DeactivatedReturns, SetExtentReturns, PosRectReturns
  <1>3. /\ alive /\ Below \in Seq(Frame) /\ Nested(Below)
        /\ Ats(stack) = Ats(Below) \cup {at}
        /\ \A x \in Critical \cup {"setActive"} : x # at
    BY <1>2, TopReturns DEF Critical
  <1>4. CASE stack' = Below
    BY <1>1, <1>3, <1>4, StackKeeps
  <1>5. CASE stack' = Append(Below, Call("extent", "posRect", FALSE))
    <2> DEFINE f == Call("extent", "posRect", FALSE)
    <2>1. f \in Frame /\ f.at = "posRect" /\ ~Unsteady(f)
      <3>1. "extent" \in Operations /\ "posRect" \in Waits /\ FALSE \in BOOLEAN
        BY DEF Operations, Waits
      <3>2. f \in Frame /\ f.at = "posRect"
        BY <3>1, CallIsFrame
      <3> QED
        BY <3>2 DEF Unsteady
    <2>2. stack' = Append(Below, f)
      BY <1>5
    <2> HIDE DEF f
    <2>3. /\ stack' \in Seq(Frame) /\ Nested(stack')
          /\ Ats(stack') = Ats(Below) \cup {"posRect"}
      BY <1>3, <2>1, <2>2, Pushed DEF Quiet
    <2>4. \A x \in Critical \cup {"setActive"} : x \in Ats(stack') <=> x \in Ats(stack)
      BY <1>3, <2>3 DEF Critical
    <2> QED
      BY <1>1, <1>3, <2>3, <2>4, StackKeeps
  <1> QED
    BY <1>4, <1>5 DEF DeactivatedReturns, SetExtentReturns, PosRectReturns

\* SetExtent asks the table, at any time.
LEMMA SetExtentKeeps ==
  ASSUME ControlInv, SetExtent
  PROVE  ControlInv'
  <1> DEFINE f == Call("extent", "setExtent", FALSE)
  <1>1. f \in Frame /\ f.at = "setExtent" /\ ~Unsteady(f)
    <2>1. "extent" \in Operations /\ "setExtent" \in Waits /\ FALSE \in BOOLEAN
      BY DEF Operations, Waits
    <2>2. f \in Frame /\ f.at = "setExtent"
      BY <2>1, CallIsFrame
    <2> QED
      BY <2>2 DEF Unsteady
  <1>2. /\ stack' = Append(stack, f) /\ UNCHANGED <<control, hostView, desktop, life>>
        /\ alive /\ stack \in Seq(Frame) /\ Nested(stack)
    BY DEF SetExtent, Starts, Calm, ControlInv, Types
  <1> HIDE DEF f
  <1>3. /\ stack' \in Seq(Frame) /\ Nested(stack')
        /\ Ats(stack') = Ats(stack) \cup {"setExtent"}
    BY <1>1, <1>2, Pushed DEF Quiet
  <1>4. \A x \in Critical \cup {"setActive"} : x \in Ats(stack') <=> x \in Ats(stack)
    BY <1>3 DEF Critical
  <1> QED
    BY <1>2, <1>3, <1>4, StackKeeps

\* An active control that is activated again.
LEMMA ActivateAgainKeeps ==
  ASSUME HostsRefrain, ControlInv, NEW ui \in BOOLEAN, InPlaceActivate(ui), control.active
  PROVE  ControlInv'
  <1>1. /\ alive /\ Types /\ Regions /\ Phases /\ Nested(stack) /\ stack \in Seq(Frame)
        /\ UNCHANGED <<told, frameActive, desktop, life>>
    BY DEF InPlaceActivate, Starts, Calm, ControlInv, Types
  <1>2. Ats(stack) \cap (Critical \ {"onUI"}) = {}
    BY Refraining DEF InPlaceActivate
  <1>3. "onUI" \in Ats(stack) \/ Ats(stack) \cap Critical = {}
    BY <1>2
  <1>4. PICK c : c = control
    OBVIOUS
  <1>5. Active /\ HasWindow
    BY <1>1, <1>3 DEF Phases, Settled, On, OnUI, DuringOnUI, Off, Inactive
  <1>6. c = control
    BY <1>4
  <1>7. Continues(stack, c, ui)
    <2>1. Activates(stack, control, ui)
      BY <1>5 DEF InPlaceActivate, Active
    <2>2. Continues(stack, control, ui)
      BY <2>1 DEF Activates
    <2> QED
      BY <1>4, <2>2 DEF Continues
  <1>8. CASE control.ui
    <2>1. /\ control' = [control EXCEPT !.visible = TRUE, !.ui = TRUE]
          /\ stack' = stack /\ toldUI' = toldUI
      BY <1>6, <1>7, <1>8 DEF Continues
    <2>2. /\ control' \in ControlType
          /\ control'.active = control.active /\ control'.ui = TRUE
          /\ control'.frame = control.frame
          /\ control'.hwnd = control.hwnd /\ control'.region = control.region
          /\ control'.inPlaceSite = control.inPlaceSite
      BY <1>1, <2>1 DEF Types, ControlType
    <2>3. control'.ui = control.ui
      <3>1. control.ui \in BOOLEAN
        BY <1>1 DEF Types, ControlType
      <3> QED
        BY <1>8, <2>2, <3>1
    <2>4. Types'
      BY <1>1, <2>1, <2>2 DEF Types, desktop, life
    <2>5. Regions'
      BY <1>1, <2>2 DEF Regions, desktop
    <2>6. SameView
      BY <1>1, <2>1, <2>2, <2>3 DEF SameView, desktop
    <2>7. Phases'
      BY <1>1, <2>1, <2>6, PhasesStay
    <2> QED
      BY <1>1, <2>1, <2>4, <2>5, <2>7, Keeps DEF life
  <1>9. CASE ~control.ui
    <2>1. On /\ Ats(stack) \cap Critical = {}
      BY <1>1, <1>3, <1>5, <1>9
         DEF Phases, DuringOnUI, Settled, Off, OnUI, Active, Inactive
    <2>2. PICK b : b = stack
      OBVIOUS
    <2>3. b \in Seq(Frame) /\ Nested(b) /\ Ats(b) \cap Critical = {}
      BY <1>1, <2>1, <2>2
    <2>4. Continues(b, c, ui)
      BY <1>7, <2>2 DEF Continues
    <2>5. /\ c \in ControlType /\ c.active /\ c.frame /\ c.inPlaceSite \in Sites /\ c.hwnd # 0
          /\ windows' = {c.hwnd} /\ frameActive' = frameActive /\ (c.ui <=> frameActive)
      BY <1>1, <1>6, <2>1 DEF On, Active, HasWindow, Types, ControlType, desktop
    <2>6. /\ \A s \in Sites : told'[s] = IF s = c.inPlaceSite THEN 1 ELSE 0
          /\ \A s \in Sites : toldUI[s] = IF s = c.inPlaceSite /\ c.ui THEN 1 ELSE 0
      BY <1>1, <1>6, <1>9, <2>1 DEF On, Told
    <2>7. /\ stack' \in Seq(Frame) /\ Nested(stack') /\ Phases'
          /\ control' \in ControlType /\ toldUI' \in [Sites -> Int]
          /\ control'.hwnd = c.hwnd /\ control'.region = c.region
      BY <1>1, <2>3, <2>4, <2>5, <2>6, ContinuesFrom
    <2>8. Types'
      BY <1>1, <2>7 DEF Types, desktop, life
    <2>9. Regions'
      BY <1>1, <1>6, <2>7 DEF Regions, desktop
    <2> QED
      BY <1>1, <2>7, <2>8, <2>9, Keeps DEF life
  <1> QED
    BY <1>8, <1>9

\* A control that is activated, as far as the first question to its site.
LEMMA ActivateKeeps ==
  ASSUME HostsRefrain, ControlInv, NEW ui \in BOOLEAN, InPlaceActivate(ui), ~control.active
  PROVE  ControlInv'
  <1>1. /\ alive /\ Types /\ Regions /\ Phases /\ Nested(stack) /\ stack \in Seq(Frame)
        /\ UNCHANGED <<told, frameActive, desktop, life>>
    BY DEF InPlaceActivate, Starts, Calm, ControlInv, Types
  <1>2. Ats(stack) \cap (Critical \ {"onUI"}) = {}
    BY Refraining DEF InPlaceActivate
  <1>3. Ats(stack) \cap Critical = {} /\ "setActive" \notin Ats(stack)
    BY <1>1, <1>2 DEF Critical, Phases, DuringOnUI, Active
  <1>4. Off
    BY <1>1, <1>3 DEF Phases, Settled, On, OnUI, Active
  <1>5. PICK site : site = IF control.inPlaceSite # NoSite THEN control.inPlaceSite ELSE control.site
    OBVIOUS
  <1>6. site \in Sites /\ site # NoSite
    BY <1>1, <1>5, ControlAssumption DEF InPlaceActivate, Types, ControlType
  <1>7. PICK c : c = [control EXCEPT !.inPlaceSite = site]
    OBVIOUS
  <1>8. /\ c \in ControlType /\ c.inPlaceSite = site /\ c.frame = control.frame
        /\ c.active = control.active /\ c.ui = control.ui
        /\ c.hwnd = control.hwnd /\ c.region = control.region
    BY <1>1, <1>6, <1>7 DEF Types, ControlType
  <1>9. PICK at \in {"askSite", "canActivate"} :
          /\ control' = c /\ stack' = Append(stack, Call("activate", at, ui))
          /\ UNCHANGED toldUI
    <2>1. CASE control.inPlaceSite # NoSite
      <3>1. Activates(stack, control, ui)
        BY <2>1 DEF InPlaceActivate
      <3>2. c = control
        BY <1>1, <1>5, <1>7, <2>1 DEF Types, ControlType
      <3> QED
        BY <3>1, <3>2 DEF Activates
    <2>2. CASE control.inPlaceSite = NoSite
      BY <1>5, <1>7, <2>2 DEF InPlaceActivate
    <2> QED
      BY <2>1, <2>2
  <1> DEFINE f == Call("activate", at, ui)
  <1>10. f \in Frame /\ f.at = at
    <2>1. "activate" \in Operations /\ at \in Waits
      BY DEF Operations, Waits
    <2> QED
      BY <2>1, CallIsFrame
  <1>11. stack' = Append(stack, f)
    BY <1>9
  <1> HIDE DEF f
  <1>12. /\ stack' \in Seq(Frame) /\ Nested(stack') /\ Ats(stack') = Ats(stack) \cup {at}
    BY <1>1, <1>3, <1>10, <1>11, Pushed
  <1>13. Types' /\ Regions'
    BY <1>1, <1>8, <1>9, <1>12 DEF Types, Regions, desktop, life
  <1>14. DuringEntry'
    BY <1>1, <1>4, <1>6, <1>8, <1>9, ControlAssumption
       DEF DuringEntry, Off, Inactive, NoWindow, Told, desktop
  <1>15. Phases'
    BY <1>3, <1>12, <1>14 DEF Phases, Critical, Entering, Arriving
  <1> QED
    BY <1>1, <1>12, <1>13, <1>15, Keeps DEF life

\* The client site has an in-place site.
LEMMA SiteGivenKeeps ==
  ASSUME ControlInv, SiteGiven
  PROVE  ControlInv'
  <1>1. "askSite" \in Entering /\ "canActivate" \in Waits
    BY DEF Entering, Waits
  <1>2. /\ ~control.active /\ ~control.frame /\ ~control.ui /\ ~frameActive
        /\ control.hwnd = 0 /\ windows = {} /\ control.inPlaceSite \in Sites
        /\ \A s \in Sites : told[s] = 0 /\ toldUI[s] = 0
    BY <1>1, OnTheWay DEF SiteGiven
  <1>3. /\ Returns("askSite") /\ NowAt("canActivate", control)
        /\ UNCHANGED <<hostView, desktop, life>>
    BY <1>2 DEF SiteGiven, Activates, NowAt, hostView
  <1>4. /\ control' = control /\ stack' \in Seq(Frame) /\ Nested(stack')
        /\ Ats(stack') = Ats(Below) \cup {"canActivate"}
        /\ Ats(Below) \cap Critical = {} /\ "setActive" \notin Ats(Below)
        /\ alive /\ Types /\ Regions
    BY <1>1, <1>3, GoesOn
  <1>5. Types' /\ Regions'
    BY <1>3, <1>4 DEF Types, Regions, hostView, desktop, life
  <1>6. DuringEntry'
    BY <1>2, <1>3, <1>4, ControlAssumption
       DEF DuringEntry, Off, Inactive, NoWindow, Told, hostView, desktop
  <1>7. Phases'
    BY <1>4, <1>6 DEF Phases, Critical, Entering, Arriving
  <1> QED
    BY <1>3, <1>4, <1>5, <1>7, Keeps DEF life

\* The client site has none.
LEMMA SiteRefusedKeeps ==
  ASSUME ControlInv, SiteRefused
  PROVE  ControlInv'
  <1>1. "askSite" \in Entering /\ "askSite" \in Critical
    BY DEF Entering, Critical
  <1>2. /\ ~control.active /\ ~control.frame /\ ~control.ui /\ ~frameActive
        /\ control.hwnd = 0 /\ windows = {} /\ ~control.region
        /\ \A s \in Sites : told[s] = 0 /\ toldUI[s] = 0
    BY <1>1, OnTheWay DEF SiteRefused
  <1>3. /\ alive /\ Types /\ Below \in Seq(Frame) /\ Nested(Below)
        /\ Ats(Below) \cap Critical = {} /\ "setActive" \notin Ats(Below)
    BY <1>1, CriticalReturns DEF SiteRefused
  <1>4. /\ control' = [control EXCEPT !.inPlaceSite = NoSite] /\ stack' = Below
        /\ UNCHANGED <<hostView, desktop, life>>
    BY DEF SiteRefused
  <1>5. /\ control' \in ControlType /\ ~control'.active /\ ~control'.frame /\ ~control'.ui
        /\ control'.hwnd = 0 /\ ~control'.region
    BY <1>2, <1>3, <1>4 DEF Types, ControlType
  <1>6. Types' /\ Regions'
    BY <1>3, <1>4, <1>5 DEF Types, Regions, hostView, desktop, life
  <1>7. Settled'
    BY <1>2, <1>4, <1>5 DEF Settled, Off, Inactive, NoWindow, Told, hostView, desktop
  <1>8. Phases'
    BY <1>3, <1>4, <1>7, SettledPhase
  <1> QED
    BY <1>3, <1>4, <1>6, <1>8, Keeps DEF life

\* Steps that change nothing but who the client site is, or what is shown, or
\* whether the host has closed the control.
LEMMA QuietCallsKeep ==
  ASSUME ControlInv, alive, UNCHANGED <<hostView, desktop, stack, alive, crashed>>,
         control' \in ControlType, closed' \in BOOLEAN,
         control'.active = control.active, control'.ui = control.ui,
         control'.frame = control.frame, control'.hwnd = control.hwnd,
         control'.region = control.region, control'.inPlaceSite = control.inPlaceSite
  PROVE  ControlInv'
  <1>1. Types'
    BY DEF ControlInv, Types, hostView, desktop
  <1>2. Regions'
    BY DEF ControlInv, Regions, desktop
  <1>3. SameView
    BY DEF SameView, hostView, desktop
  <1>4. Phases'
    BY <1>3, PhasesStay DEF ControlInv
  <1> QED
    BY <1>1, <1>2, <1>4, Keeps DEF ControlInv

\* The calls of a host that end an activation, or part of one.
LEMMA EndingsKeep ==
  ASSUME HostsRefrain, ControlInv, InPlaceDeactivate \/ UIDeactivate \/ Hide \/ Close
  PROVE  ControlInv'
  <1>1. alive /\ Types /\ Phases /\ Nested(stack)
    BY DEF InPlaceDeactivate, UIDeactivate, Hide, Close, Starts, Calm, ControlInv
  <1>2. closed' \in BOOLEAN
    BY <1>1 DEF InPlaceDeactivate, UIDeactivate, Hide, Close, Types
  <1>3. CASE InPlaceDeactivate
    BY <1>2, <1>3, DeactivatesKeeps DEF InPlaceDeactivate
  <1>4. CASE UIDeactivate
    <2>1. Ats(stack) \cap Critical = {} /\ OnUI /\ LeavesUI("uiDeactivate")
      BY <1>4, LeavesUIFrom DEF UIDeactivate
    <2>2. "uiDeactivate" \in Operations
      BY DEF Operations
    <2> QED
      BY <1>1, <1>2, <2>1, <2>2, LeavesUIKeeps
  <1>5. CASE Hide
    <2>1. CASE control.ui /\ LeavesUI("hide")
      <3>1. Ats(stack) \cap Critical = {} /\ OnUI
        BY <1>5, <2>1, LeavesUIFrom DEF Hide
      <3>2. "hide" \in Operations
        BY DEF Operations
      <3> QED
        BY <1>1, <1>2, <2>1, <3>1, <3>2, LeavesUIKeeps
    <2>2. CASE /\ control' = [control EXCEPT !.visible = FALSE]
               /\ UNCHANGED <<stack, hostView, desktop, alive, crashed>>
      <3>1. control \in ControlType
        BY <1>1 DEF Types
      <3>2. /\ control' \in ControlType
            /\ control'.active = control.active /\ control'.ui = control.ui
            /\ control'.frame = control.frame /\ control'.hwnd = control.hwnd
            /\ control'.region = control.region /\ control'.inPlaceSite = control.inPlaceSite
        BY <2>2, <3>1 DEF ControlType
      <3> QED
        BY <1>1, <1>2, <2>2, <3>2, QuietCallsKeep
    <2> QED
      BY <1>5, <2>1, <2>2 DEF Hide
  <1>6. CASE Close
    <2>1. CASE control.active /\ Deactivates
      BY <1>2, <1>6, <2>1, DeactivatesKeeps DEF Close
    <2>2. CASE UNCHANGED <<control, stack, hostView, desktop, alive, crashed>>
      BY <1>1, <1>2, <2>2, QuietCallsKeep DEF Types
    <2> QED
      BY <1>6, <2>1, <2>2 DEF Close
  <1> QED
    BY <1>3, <1>4, <1>5, <1>6

\* A host may change the client site at any time.
LEMMA SetClientSiteKeeps ==
  ASSUME ControlInv, NEW site \in Sites \cup {NoSite}, SetClientSite(site)
  PROVE  ControlInv'
  <1>1. /\ alive /\ Types /\ control' = [control EXCEPT !.site = site]
        /\ UNCHANGED <<hostView, desktop, stack, life>>
    BY DEF SetClientSite, Calm, ControlInv
  <1>2. /\ control' \in ControlType
        /\ control'.active = control.active /\ control'.ui = control.ui
        /\ control'.frame = control.frame /\ control'.hwnd = control.hwnd
        /\ control'.region = control.region /\ control'.inPlaceSite = control.inPlaceSite
    BY <1>1 DEF Types, ControlType
  <1>3. closed' \in BOOLEAN
    BY <1>1 DEF Types, life
  <1> QED
    BY <1>1, <1>2, <1>3, QuietCallsKeep DEF life

\* SetObjectRects remembers what it has done to the window.
LEMMA SetObjectRectsKeeps ==
  ASSUME ControlInv, NEW clip \in BOOLEAN, SetObjectRects(clip)
  PROVE  ControlInv'
  <1>1. /\ alive /\ Types /\ Regions /\ Phases /\ Nested(stack)
        /\ control' = Placed(control, clip) /\ clipped' = Clipped(control, clip)
        /\ UNCHANGED <<hostView, windows, made, stack, life>>
    BY DEF SetObjectRects, Calm, ControlInv
  <1>2. PICK region : region = IF control.hwnd = 0 THEN control.region ELSE clip
    OBVIOUS
  <1>3. region \in BOOLEAN /\ control' = [control EXCEPT !.region = region]
    BY <1>1, <1>2 DEF Placed, Types, ControlType
  <1>4. /\ control' \in ControlType /\ control'.region = region
        /\ control'.active = control.active /\ control'.ui = control.ui
        /\ control'.frame = control.frame /\ control'.hwnd = control.hwnd
        /\ control'.inPlaceSite = control.inPlaceSite
    BY <1>1, <1>3 DEF Types, ControlType
  <1>5. control.hwnd # 0 => control.hwnd \in windows
    BY <1>1, WindowKnown DEF HasWindow, NoWindow
  <1>6. clipped' \in SUBSET windows
    BY <1>1, <1>5 DEF Types, Clipped
  <1>7. Types'
    BY <1>1, <1>4, <1>6 DEF Types, hostView, life
  <1>8. Regions'
    BY <1>1, <1>2, <1>4 DEF Regions, Clipped
  <1>9. SameView
    BY <1>1, <1>4 DEF SameView, hostView
  <1>10. Phases'
    BY <1>1, <1>9, PhasesStay
  <1> QED
    BY <1>1, <1>7, <1>8, <1>10, Keeps DEF life

\* The last reference goes when nothing is in progress.
LEMMA LastReleaseKeeps ==
  ASSUME ControlInv, LastRelease
  PROVE  ControlInv'
  <1>1. /\ alive /\ Types /\ Regions /\ Phases /\ Nested(stack)
        /\ stack = <<>> /\ stack \in Seq(Frame)
        /\ UNCHANGED <<control, hostView, desktop, closed, crashed>>
    BY DEF LastRelease, Calm, ControlInv, Types
  <1>2. CASE control.hwnd # 0
    <2> DEFINE f == Call("release", "last", FALSE)
    <2>1. f \in Frame /\ f.at = "last" /\ ~Unsteady(f)
      <3>1. "release" \in Operations /\ "last" \in Waits /\ FALSE \in BOOLEAN
        BY DEF Operations, Waits
      <3>2. f \in Frame /\ f.at = "last"
        BY <3>1, CallIsFrame
      <3> QED
        BY <3>2 DEF Unsteady
    <2>2. stack' = <<f>> /\ UNCHANGED alive
      BY <1>2 DEF LastRelease
    <2> HIDE DEF f
    <2>3. stack' = Append(stack, f)
      BY <1>1, <2>2
    <2>4. Ats(stack) = {}
      BY <1>1 DEF Ats
    <2>5. /\ stack' \in Seq(Frame) /\ Nested(stack') /\ Ats(stack') = Ats(stack) \cup {"last"}
      BY <1>1, <2>1, <2>3, <2>4, Pushed
    <2>6. \A x \in Critical \cup {"setActive"} : x \in Ats(stack') <=> x \in Ats(stack)
      BY <2>5 DEF Critical
    <2> QED
      BY <1>1, <2>2, <2>5, <2>6, StackKeeps DEF life
  <1>3. CASE control.hwnd = 0
    <2>1. alive' = FALSE /\ UNCHANGED stack
      BY <1>3 DEF LastRelease
    <2>2. windows' = {}
      BY <1>1, <1>3, WindowKnown DEF HasWindow, NoWindow, desktop
    <2>3. Types'
      BY <1>1, <2>1 DEF Types, hostView, desktop
    <2> QED
      BY <2>1, <2>2, <2>3 DEF ControlInv
  <1> QED
    BY <1>2, <1>3

\* The destructor destroys the window that is left.
LEMMA LastDestroyReturnsKeeps ==
  ASSUME ControlInv, LastDestroyReturns
  PROVE  ControlInv'
  <1>1. /\ alive /\ Types /\ Phases /\ Below \in Seq(Frame)
    BY TopReturns DEF LastDestroyReturns
  <1>2. /\ windows' = windows \ {control.hwnd} /\ clipped' = clipped \ {control.hwnd}
        /\ control' = [control EXCEPT !.hwnd = 0, !.region = FALSE]
        /\ stack' = Below /\ alive' = FALSE
        /\ UNCHANGED <<hostView, made, closed, crashed>>
    BY DEF LastDestroyReturns, WithoutWindow
  <1>3. windows' = {}
    BY <1>1, <1>2, WindowKnown DEF HasWindow, NoWindow
  <1>4. control' \in ControlType
    <2>1. control \in ControlType /\ 0 \in 0..MaxWindows
      BY <1>1, ControlAssumption DEF Types
    <2> QED
      BY <1>2, <2>1 DEF ControlType
  <1>5. Types'
    BY <1>1, <1>2, <1>3, <1>4 DEF Types, hostView
  <1> QED
    BY <1>2, <1>3, <1>5 DEF ControlInv

-----------------------------------------------------------------------------
(* The invariant, and what follows from it.                                *)

\* A new control is inactive.
LEMMA ControlInit ==
  ASSUME Init
  PROVE  ControlInv
  <1>1. Ats(stack) = {} /\ Nested(stack)
    BY DEF Init, Ats, Nested
  <1>2. control \in ControlType
    <2>1. 0 \in 0..MaxWindows
      BY ControlAssumption
    <2> QED
      BY <2>1 DEF Init, ControlType
  <1>3. Types
    <2>1. [s \in Sites |-> 0] \in [Sites -> Int] /\ <<>> \in Seq(Frame)
      OBVIOUS
    <2>2. told \in [Sites -> Int] /\ toldUI \in [Sites -> Int] /\ stack \in Seq(Frame)
      BY <2>1 DEF Init
    <2>3. made \in 0..MaxWindows /\ windows \in SUBSET (1..made) /\ clipped \in SUBSET windows
      BY ControlAssumption DEF Init
    <2> QED
      BY <1>2, <2>2, <2>3 DEF Init, Types
  <1>4. Settled
    BY DEF Init, Settled, Off, Inactive, NoWindow, Told
  <1>5. Phases
    BY <1>1, <1>4 DEF Phases, Critical, Entering, Arriving
  <1> QED
    BY <1>1, <1>3, <1>5 DEF Init, ControlInv, Regions

\* Every step keeps the invariant.
LEMMA ControlNext ==
  ASSUME HostsRefrain, ControlInv, [Next]_vars
  PROVE  ControlInv'
  <1>1. CASE Calls
    <2>1. ASSUME NEW ui \in BOOLEAN, InPlaceActivate(ui) PROVE ControlInv'
      BY <2>1, ActivateAgainKeeps, ActivateKeeps
    <2>2. ASSUME NEW site \in Sites \cup {NoSite}, SetClientSite(site) PROVE ControlInv'
      BY <2>2, SetClientSiteKeeps
    <2>3. ASSUME NEW clip \in BOOLEAN, SetObjectRects(clip) PROVE ControlInv'
      BY <2>3, SetObjectRectsKeeps
    <2> QED
      BY <1>1, <2>1, <2>2, <2>3, EndingsKeep, SetExtentKeeps, LastReleaseKeeps DEF Calls
  <1>2. CASE Answers
    <2>1. ASSUME NEW clip \in BOOLEAN, NEW placed \in BOOLEAN, ContextGiven(clip, placed)
          PROVE  ControlInv'
      BY <2>1, ContextGivenKeeps
    <2>2. ASSUME ShowObjectReturns PROVE ControlInv'
      <3>1. Returns("showObject") \/ Returns("showNothing")
        BY <2>2 DEF ShowObjectReturns
      <3> QED
        BY <2>2, <3>1, ShowObjectReturnsKeeps, ShowNothingReturnsKeeps
    <2> QED
      BY <1>2, <2>1, <2>2, SiteGivenKeeps, SiteRefusedKeeps, MayActivateKeeps,
         OnInPlaceActivateReturnsKeeps, GetWindowReturnsKeeps, ActivationFailsKeeps,
         CreateWindowReturnsKeeps, CreateWindowReturnsNoneKeeps, OnUIActivateReturnsKeeps,
         SetActiveReturnsKeeps, GiveUpReturnsKeeps, UIOffReturnsKeeps, UIDoneReturnsKeeps,
         DestroyReturnsKeeps, QuietReturnsKeep, LastDestroyReturnsKeeps DEF Answers
  <1>3. CASE UNCHANGED vars
    BY <1>3 DEF vars, ControlInv, Types, Regions, Phases, Settled, Off, On, OnUI, Active,
                Inactive, HasWindow, NoWindow, Told, DuringEntry, DuringArrival,
                DuringCreateWindow, DuringShowNothing,
                DuringOnUI, DuringUIOff, DuringGiveUp, DuringDestroy, hostView, desktop, life
  <1> QED
    BY <1>1, <1>2, <1>3 DEF Next

\* Hosts that refrain never meet a state outside the invariant.
LEMMA Invariance ==
  ASSUME HostsRefrain
  PROVE  Spec => []ControlInv
  <1>1. Init => ControlInv
    BY ControlInit
  <1>2. ControlInv /\ [Next]_vars => ControlInv'
    BY ControlNext
  <1> QED
    BY <1>1, <1>2, PTL DEF Spec

\* Every variable keeps its type.
THEOREM ControlTypes ==
  ASSUME HostsRefrain
  PROVE  Spec => []TypeOK
  <1>1. ControlInv => TypeOK
    <2> SUFFICES ASSUME ControlInv PROVE TypeOK
      OBVIOUS
    <2>1. Types
      BY DEF ControlInv
    <2>2. windows \in SUBSET (1..MaxWindows)
      BY <2>1, ControlAssumption DEF Types
    <2> QED
      BY <2>1, <2>2 DEF Types, TypeOK, ControlType
  <1> QED
    BY <1>1, Invariance, PTL

\* InPlaceActivate and UIDeactivate use a frame they have, whatever their
\* receivers ask of the control while they wait (RequestMenu, SetActiveObject).
THEOREM FramesLive ==
  ASSUME HostsRefrain
  PROVE  Spec => []UsesLiveFrame
  <1>1. ControlInv => UsesLiveFrame
    BY DEF ControlInv, Types, UsesLiveFrame
  <1> QED
    BY <1>1, Invariance, PTL

\* Nothing is in progress in a control at rest.
LEMMA RestingSettled ==
  ASSUME ControlInv, Resting
  PROVE  Settled
  <1>1. Ats(stack) = {} /\ Phases
    BY DEF Resting, Ats, ControlInv
  <1> QED
    BY <1>1 DEF Phases

\* Between calls the site in use has been told of as many activations and UI
\* activations as the control is in, and no other site of any.
THEOREM HostsKnow ==
  ASSUME HostsRefrain
  PROVE  Spec => []HostKnows
  <1>1. ControlInv => HostKnows
    <2> SUFFICES ASSUME ControlInv, Resting, NEW s \in Sites
                 PROVE  /\ told[s] = IF control.active /\ s = control.inPlaceSite
                                     THEN 1 ELSE 0
                        /\ toldUI[s] = IF control.ui /\ s = control.inPlaceSite
                                       THEN 1 ELSE 0
      BY DEF HostKnows
    <2> QED
      BY RestingSettled DEF Settled, Off, On, OnUI, Active, Inactive, Told
  <1> QED
    BY <1>1, Invariance, PTL

\* Between calls a control has its window and its frame just while it is
\* active, and the host's menus just while its user interface is.
THEOREM WindowsWithActivation ==
  ASSUME HostsRefrain
  PROVE  Spec => []WindowWithActivation
  <1>1. ControlInv => WindowWithActivation
    <2> SUFFICES ASSUME ControlInv PROVE WindowWithActivation
      OBVIOUS
    <2>1. Resting => Off \/ On \/ OnUI
      BY RestingSettled DEF Settled
    <2> QED
      BY <2>1 DEF WindowWithActivation, Off, On, OnUI, Active, Inactive, HasWindow, NoWindow
  <1> QED
    BY <1>1, Invariance, PTL

\* m_hasWindowRgn tells whether the window has a region.
THEOREM RegionsTracked ==
  ASSUME HostsRefrain
  PROVE  Spec => []RegionTracked
  <1>1. ControlInv => RegionTracked
    <2> SUFFICES ASSUME ControlInv, control.hwnd \in windows
                 PROVE  control.region <=> control.hwnd \in clipped
      BY DEF RegionTracked
    <2>1. alive /\ Regions /\ Types
      BY DEF ControlInv
    <2>2. control.hwnd # 0
      BY <2>1 DEF Types
    <2> QED
      BY <2>1, <2>2 DEF Regions
  <1> QED
    BY <1>1, Invariance, PTL

\* The destructor, or the deactivation before it, has destroyed the window of
\* a deleted control.
THEOREM NoWindowLeft ==
  ASSUME HostsRefrain
  PROVE  Spec => []LeavesNoWindow
  <1>1. ControlInv => LeavesNoWindow
    BY DEF ControlInv, LeavesNoWindow
  <1> QED
    BY <1>1, Invariance, PTL

=============================================================================
