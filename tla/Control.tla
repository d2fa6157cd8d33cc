-------------------------------- MODULE Control --------------------------------
(***************************************************************************)
(* OLE controls written in Lua (tLuaControl): how a host activates a       *)
(* control in place, activates its user interface, deactivates and         *)
(* releases it.                                                            *)
(*                                                                         *)
(* The control runs on one thread, but almost every step of it calls       *)
(* somebody: the host's site and frame, or the methods CreateWindow and    *)
(* DestroyWindow of the Lua table.  While such a call lasts its receiver   *)
(* can call the control again, so operations are kept on a stack of        *)
(* frames, each waiting at the call it made.                               *)
(*                                                                         *)
(* Every call of a method of the site or the frame and of the table is a   *)
(* wait, with these exceptions: SetFocus goes with the OnUIActivate before *)
(* it, and SetBorderSpace with the SetActiveObject before it; Release, and *)
(* SetClientSite's queries, are taken not to call the control, nor is a    *)
(* window procedure while its window is moved, shown or hidden.            *)
(*                                                                         *)
(* Left out: sizes and positions, painting, the advise holder, and the     *)
(* border-space window, which is obtained, told and given up together with *)
(* the frame.                                                              *)
(***************************************************************************)
EXTENDS Integers, Sequences

CONSTANTS
  Sites,        \* client sites a host can give the control
  NoSite,       \* a null pointer to a site
  MaxWindows,   \* bound: windows ever made
  MaxDepth,     \* bound: operations in progress at once
  Refrains      \* pairs of a call out and an operation: what the receivers
                \* of the call do not ask of the control until it returns

Waits == {"askSite", "canActivate", "onActivate", "getWindow", "getContext",
          "createWindow", "showObject", "showNothing", "onUI", "setActive", "giveUp", "uiOff", "uiDone", "destroy", "deactivated",
          "setExtent", "posRect", "last"}
Operations == {"activate", "deactivate", "uiDeactivate", "hide", "close", "extent",
               "release"}

ASSUME ControlAssumption ==
  /\ NoSite \notin Sites
  /\ MaxWindows \in Nat /\ MaxDepth \in Nat
  /\ Refrains \subseteq Waits \X Operations

VARIABLES
  control,      \* the members of tLuaControl
  told,         \* OnInPlaceActivate less OnInPlaceDeactivate, for each site
  toldUI,       \* OnUIActivate less OnUIDeactivate, for each site
  frameActive,  \* the control is the active object of the host's frame
  windows,      \* windows that exist
  clipped,      \* windows that have a region
  made,         \* windows made so far
  stack,        \* operations in progress, the outermost first
  closed,       \* the host has closed the control
  alive,        \* the object has not been deleted
  crashed       \* a null pointer to the frame has been used

hostView == <<told, toldUI, frameActive>>
desktop == <<windows, clipped, made>>
life == <<closed, alive, crashed>>
vars == <<control, hostView, desktop, stack, life>>

Frame == [op : Operations, at : Waits, ui : BOOLEAN]
Call(op, at, ui) == [op |-> op, at |-> at, ui |-> ui]

-----------------------------------------------------------------------------
(* The stack.                                                              *)

Top == stack[Len(stack)]
Below == SubSeq(stack, 1, Len(stack) - 1)
Returns(at) == alive /\ ~crashed /\ stack # <<>> /\ Top.at = at

Calm == alive /\ ~crashed
\* An operation starts when nothing runs, or out of a call of another one.
Starts(op) ==
  /\ Calm /\ ~closed
  /\ Len(stack) < MaxDepth
  /\ \A i \in 1..Len(stack) : stack[i].at # "last" /\ <<stack[i].at, op>> \notin Refrains

-----------------------------------------------------------------------------
(* InPlaceActivate.  (Forms a mistake would give an operator precede it    *)
(* here and below; only the sensitivity checks use them.)                  *)

\* The end of InPlaceActivate: show the window, then activate the UI.
Continues(below, c, ui) ==
  /\ control' = [c EXCEPT !.visible = TRUE, !.ui = c.ui \/ ui]
  /\ stack' = IF ui /\ ~c.ui THEN Append(below, Call("activate", "onUI", TRUE)) ELSE below
  /\ toldUI' = IF ui /\ ~c.ui THEN [toldUI EXCEPT ![c.inPlaceSite] = @ + 1] ELSE toldUI

\* RETURN_ON_ERROR.
GivesUpSilently(below, c) ==
  /\ control' = [c EXCEPT !.active = FALSE, !.frame = FALSE]
  /\ stack' = below
  /\ UNCHANGED <<told, toldUI>>

GivesUp(below, c) ==
  /\ control' = IF c.active THEN [c EXCEPT !.active = FALSE] ELSE [c EXCEPT !.frame = FALSE]
  /\ stack' = IF c.active THEN Append(below, Call("activate", "giveUp", FALSE)) ELSE below
  /\ told' = IF c.active THEN [told EXCEPT ![c.inPlaceSite] = @ - 1] ELSE told
  /\ UNCHANGED toldUI

\* The check of m_fInPlaceActive, and CanInPlaceActivate if there is reason to.
Activates(below, c, ui) ==
  IF c.active THEN Continues(below, c, ui)
  ELSE /\ control' = c
       /\ stack' = Append(below, Call("activate", "canActivate", ui))
       /\ UNCHANGED toldUI

\* The client site is asked for its IOleInPlaceSite when there is none.
InPlaceActivate(ui) ==
  /\ Starts("activate") /\ control.site # NoSite
  /\ IF control.inPlaceSite # NoSite THEN Activates(stack, control, ui)
     ELSE /\ control' = [control EXCEPT !.inPlaceSite = control.site]
          /\ stack' = Append(stack, Call("activate", "askSite", ui))
          /\ UNCHANGED toldUI
  /\ UNCHANGED <<told, frameActive, desktop, life>>

SiteGiven ==
  /\ Returns("askSite")
  /\ Activates(Below, control, Top.ui)
  /\ UNCHANGED <<told, frameActive, desktop, life>>

SiteRefused ==
  /\ Returns("askSite")
  /\ control' = [control EXCEPT !.inPlaceSite = NoSite]
  /\ stack' = Below
  /\ UNCHANGED <<hostView, desktop, life>>

\* One of the calls on the way to a window has failed.
ActivationFails ==
  /\ \E at \in {"canActivate", "onActivate", "getWindow", "getContext", "createWindow"} :
       Returns(at)
  /\ GivesUp(Below, control)
  /\ UNCHANGED <<frameActive, desktop, life>>

\* The activation goes on to its next call.
NowAt(at, c) ==
  /\ control' = c
  /\ stack' = Append(Below, Call("activate", at, Top.ui))

MayActivate ==
  /\ Returns("canActivate")
  /\ NowAt("onActivate", control)
  /\ UNCHANGED <<hostView, desktop, life>>

OnInPlaceActivateReturns ==
  /\ Returns("onActivate")
  /\ NowAt("getWindow", [control EXCEPT !.active = TRUE])
  /\ told' = [told EXCEPT ![control.inPlaceSite] = @ + 1]
  /\ UNCHANGED <<toldUI, frameActive, desktop, life>>

GetWindowReturns ==
  /\ Returns("getWindow")
  /\ NowAt("getContext", control)
  /\ UNCHANGED <<hostView, desktop, life>>

\* SetObjectRects moves the window and sets its region, or takes it away.
Placed(c, clip) == [c EXCEPT !.region = IF c.hwnd = 0 THEN @ ELSE clip]
ClippedAnyway(c, clip) ==
  IF ~(c.region \/ clip) THEN clipped
  ELSE IF clip THEN clipped \cup {c.hwnd} ELSE clipped \ {c.hwnd}
Clipped(c, clip) ==
  IF c.hwnd = 0 \/ ~(c.region \/ clip) THEN clipped
  ELSE IF clip THEN clipped \cup {c.hwnd} ELSE clipped \ {c.hwnd}

\* GetWindowContext has given a frame; SetObjectRects, which does nothing when
\* there is no window yet, may fail.
ContextGiven(clip, placed) ==
  LET c == [control EXCEPT !.frame = TRUE] IN
    /\ Returns("getContext")
    /\ IF c.hwnd = 0 THEN NowAt("createWindow", c) /\ UNCHANGED <<told, toldUI, clipped>>
       ELSE IF placed
       THEN /\ Continues(Below, Placed(c, clip), Top.ui)
            /\ clipped' = Clipped(c, clip)
            /\ UNCHANGED told
       ELSE GivesUp(Below, c) /\ UNCHANGED clipped
    /\ UNCHANGED <<frameActive, windows, made, life>>

\* CreateInPlaceWindow: the table's CreateWindow returns a window, and the
\* host is asked to show the control.
CreateWindowReturns ==
  LET w == made + 1
      c == [control EXCEPT !.hwnd = w] IN
    /\ Returns("createWindow") /\ made < MaxWindows
    /\ made' = w /\ windows' = windows \cup {w}
    /\ IF c.site # NoSite THEN NowAt("showObject", c) /\ UNCHANGED toldUI
       ELSE Continues(Below, c, Top.ui)
    /\ UNCHANGED <<told, frameActive, clipped, life>>

\* CreateWindow returns nil, or no pointer: the host is asked all the same.
CreateWindowReturnsNone ==
  LET c == [control EXCEPT !.hwnd = 0] IN
    /\ Returns("createWindow")
    /\ IF c.site # NoSite THEN NowAt("showNothing", c) /\ UNCHANGED <<told, toldUI>>
       ELSE GivesUp(Below, c)
    /\ UNCHANGED <<frameActive, desktop, life>>

ShowObjectReturns ==
  /\ Returns("showObject") \/ Returns("showNothing")
  /\ \/ control.hwnd # 0 /\ Continues(Below, control, Top.ui) /\ UNCHANGED told
     \/ control.hwnd = 0 /\ GivesUp(Below, control)
  /\ UNCHANGED <<frameActive, desktop, life>>

\* The frame is told whose menus and keys it shows, then about borders.
OnUIActivateReturns ==
  /\ Returns("onUI")
  /\ \/ /\ control.frame
        /\ frameActive' = TRUE
        /\ stack' = Append(Below, Call("activate", "setActive", TRUE))
        /\ UNCHANGED crashed
     \/ /\ ~control.frame /\ crashed' = TRUE
        /\ UNCHANGED <<frameActive, stack>>
  /\ UNCHANGED <<control, told, toldUI, desktop, closed, alive>>

SetActiveReturns ==
  /\ Returns("setActive")
  /\ crashed' = ~control.frame
  /\ stack' = Below
  /\ UNCHANGED <<control, hostView, desktop, closed, alive>>

GiveUpReturns ==
  /\ Returns("giveUp")
  /\ control' = [control EXCEPT !.frame = FALSE]
  /\ stack' = Below
  /\ UNCHANGED <<hostView, desktop, life>>

-----------------------------------------------------------------------------
(* InPlaceDeactivate, UIDeactivate, DoVerb and Close.                      *)

\* UIDeactivate, as far as its first call.
LeavesUI(op) ==
  /\ control' = [control EXCEPT !.ui = FALSE]
  /\ \/ /\ control.frame
        /\ frameActive' = FALSE
        /\ stack' = Append(stack, Call(op, "uiOff", FALSE))
        /\ UNCHANGED crashed
     \/ /\ ~control.frame /\ crashed' = TRUE
        /\ UNCHANGED <<frameActive, stack>>
  /\ UNCHANGED <<told, toldUI, desktop, alive>>

\* The end of InPlaceDeactivate.
LeavesHost(below, c) ==
  /\ control' = [c EXCEPT !.frame = FALSE]
  /\ told' = [told EXCEPT ![c.inPlaceSite] = @ - 1]
  /\ stack' = Append(below, Call("deactivate", "deactivated", FALSE))

\* The middle: the window goes before the host is told.
LeavesWindow(below) ==
  LET c == [control EXCEPT !.active = FALSE, !.visible = FALSE] IN
    IF c.hwnd = 0 THEN LeavesHost(below, c)
    ELSE /\ control' = c
         /\ stack' = Append(below, Call("deactivate", "destroy", FALSE))
         /\ UNCHANGED told

DeactivatesBelowUI ==
  /\ LeavesWindow(stack)
  /\ UNCHANGED <<toldUI, frameActive, desktop, alive, crashed>>

Deactivates ==
  \/ control.ui /\ LeavesUI("deactivate")
  \/ /\ ~control.ui /\ LeavesWindow(stack)
     /\ UNCHANGED <<toldUI, frameActive, desktop, alive, crashed>>

InPlaceDeactivate ==
  /\ Starts("deactivate") /\ control.active
  /\ Deactivates
  /\ UNCHANGED closed

UIDeactivate ==
  /\ Starts("uiDeactivate") /\ control.ui
  /\ LeavesUI("uiDeactivate")
  /\ UNCHANGED closed

\* DoVerb(OLEIVERB_HIDE).
Hide ==
  /\ Starts("hide")
  /\ \/ control.ui /\ LeavesUI("hide")
     \/ /\ ~control.ui /\ control.visible
        /\ control' = [control EXCEPT !.visible = FALSE]
        /\ UNCHANGED <<stack, hostView, desktop, alive, crashed>>
  /\ UNCHANGED closed

\* A host that has closed the control only releases it.
CloseInUI ==
  /\ Starts("close") /\ closed' = TRUE
  /\ \/ control.ui /\ LeavesUI("uiDeactivate")
     \/ ~control.ui /\ UNCHANGED <<control, stack, hostView, desktop, alive, crashed>>

Close ==
  /\ Starts("close") /\ closed' = TRUE
  /\ \/ control.active /\ Deactivates
     \/ ~control.active /\ UNCHANGED <<control, stack, hostView, desktop, alive, crashed>>

UIOffReturns ==
  /\ Returns("uiOff")
  /\ toldUI' = [toldUI EXCEPT ![control.inPlaceSite] = @ - 1]
  /\ stack' = Append(Below, Call(Top.op, "uiDone", FALSE))
  /\ UNCHANGED <<control, told, frameActive, desktop, life>>

UIDoneReturns ==
  /\ Returns("uiDone")
  /\ CASE Top.op = "deactivate" -> LeavesWindow(Below)
       [] Top.op = "hide" -> /\ control' = [control EXCEPT !.visible = FALSE]
                             /\ stack' = Below /\ UNCHANGED told
       [] OTHER -> stack' = Below /\ UNCHANGED <<control, told>>
  /\ UNCHANGED <<toldUI, frameActive, desktop, life>>

\* The table has destroyed the window.
WithoutRegion == [control EXCEPT !.region = FALSE]
WithoutWindowButRegion == [control EXCEPT !.hwnd = 0]
WithoutWindow == [control EXCEPT !.hwnd = 0, !.region = FALSE]

DestroyReturns ==
  /\ Returns("destroy")
  /\ windows' = windows \ {control.hwnd} /\ clipped' = clipped \ {control.hwnd}
  /\ LeavesHost(Below, WithoutWindow)
  /\ UNCHANGED <<toldUI, frameActive, made, life>>

DeactivatedReturns ==
  /\ Returns("deactivated")
  /\ stack' = Below
  /\ UNCHANGED <<control, hostView, desktop, life>>

-----------------------------------------------------------------------------
(* Sites, rectangles, and the last Release.                                *)

SetClientSite(site) ==
  /\ Calm /\ ~closed
  /\ control.site # site
  /\ control' = [control EXCEPT !.site = site]
  /\ UNCHANGED <<hostView, desktop, stack, life>>

SetObjectRects(clip) ==
  /\ Calm /\ ~closed
  /\ control' = Placed(control, clip) /\ clipped' = Clipped(control, clip)
  /\ UNCHANGED <<hostView, windows, made, stack, life>>

\* SetExtent asks the table, and tells the site if the control is active then.
SetExtent ==
  /\ Starts("extent")
  /\ stack' = Append(stack, Call("extent", "setExtent", FALSE))
  /\ UNCHANGED <<control, hostView, desktop, life>>

SetExtentReturns ==
  /\ Returns("setExtent")
  /\ \/ stack' = Below       \* inactive, or the method has failed
     \/ control.active /\ stack' = Append(Below, Call("extent", "posRect", FALSE))
  /\ UNCHANGED <<control, hostView, desktop, life>>

PosRectReturns ==
  /\ Returns("posRect")
  /\ stack' = Below
  /\ UNCHANGED <<control, hostView, desktop, life>>

\* A caller of the control has a reference until the call returns.
LastReleaseDeletes ==
  /\ Calm /\ stack = <<>>
  /\ alive' = FALSE
  /\ UNCHANGED <<control, hostView, desktop, stack, closed, crashed>>

LastRelease ==
  /\ Calm /\ stack = <<>>
  /\ IF control.hwnd # 0
     THEN stack' = <<Call("release", "last", FALSE)>> /\ UNCHANGED alive
     ELSE alive' = FALSE /\ UNCHANGED stack
  /\ UNCHANGED <<control, hostView, desktop, closed, crashed>>

LastDestroyReturns ==
  /\ Returns("last")
  /\ windows' = windows \ {control.hwnd} /\ clipped' = clipped \ {control.hwnd}
  /\ control' = WithoutWindow
  /\ stack' = Below /\ alive' = FALSE
  /\ UNCHANGED <<hostView, made, closed, crashed>>

-----------------------------------------------------------------------------
Init ==
  /\ control = [site |-> NoSite, inPlaceSite |-> NoSite, active |-> FALSE,
                visible |-> FALSE, ui |-> FALSE, frame |-> FALSE, hwnd |-> 0,
                region |-> FALSE]
  /\ told = [s \in Sites |-> 0] /\ toldUI = [s \in Sites |-> 0]
  /\ frameActive = FALSE
  /\ windows = {} /\ clipped = {} /\ made = 0
  /\ stack = <<>>
  /\ closed = FALSE /\ alive = TRUE /\ crashed = FALSE

Calls ==
  \/ \E ui \in BOOLEAN : InPlaceActivate(ui)
  \/ InPlaceDeactivate \/ UIDeactivate \/ Hide \/ Close \/ SetExtent \/ LastRelease
  \/ \E site \in Sites \cup {NoSite} : SetClientSite(site)
  \/ \E clip \in BOOLEAN : SetObjectRects(clip)

\* What was called returns, and the operation on top goes on.
Answers ==
  \/ SiteGiven \/ SiteRefused \/ MayActivate \/ OnInPlaceActivateReturns
  \/ GetWindowReturns \/ \E clip, placed \in BOOLEAN : ContextGiven(clip, placed)
  \/ CreateWindowReturns \/ CreateWindowReturnsNone \/ ShowObjectReturns
  \/ ActivationFails
  \/ OnUIActivateReturns \/ SetActiveReturns \/ GiveUpReturns
  \/ UIOffReturns \/ UIDoneReturns \/ DestroyReturns \/ DeactivatedReturns
  \/ SetExtentReturns \/ PosRectReturns \/ LastDestroyReturns

Next == Calls \/ Answers

Spec == Init /\ [][Next]_vars

\* Hosts and Lua methods return.
FairSpec == Spec /\ WF_vars(Answers)

-----------------------------------------------------------------------------
(* The hosts and Lua methods under which the properties hold.              *)

\* What a host must not ask in the middle of a call of the control: with any
\* one pair less, a property below fails.
WellBehaved ==
  ({"askSite", "canActivate", "onActivate"} \X {"activate", "close"})
    \cup ({"getWindow", "getContext", "createWindow"} \X {"activate", "deactivate", "close"})
    \cup ({"showNothing"} \X {"activate"})
    \cup ({"onUI"} \X {"deactivate", "uiDeactivate", "hide", "close"})
    \cup ({"setActive"} \X {"deactivate", "close"})
    \cup ({"uiOff", "uiDone"} \X {"activate", "deactivate", "close"})
    \cup ({"giveUp", "destroy"} \X {"activate"})

-----------------------------------------------------------------------------
(* Properties.                                                             *)

\* Every variable keeps its type.
TypeOK ==
  /\ control \in [site : Sites \cup {NoSite}, inPlaceSite : Sites \cup {NoSite},
                  active : BOOLEAN, visible : BOOLEAN, ui : BOOLEAN, frame : BOOLEAN,
                  hwnd : 0..MaxWindows, region : BOOLEAN]
  /\ told \in [Sites -> Int] /\ toldUI \in [Sites -> Int]
  /\ frameActive \in BOOLEAN
  /\ windows \in SUBSET (1..MaxWindows) /\ clipped \in SUBSET windows
  /\ made \in 0..MaxWindows
  /\ stack \in Seq(Frame)
  /\ closed \in BOOLEAN /\ alive \in BOOLEAN /\ crashed \in BOOLEAN

Resting == stack = <<>> /\ alive

\* The frame and the site that InPlaceActivate and UIDeactivate go on to use
\* are there, whatever was called while they were waiting.
UsesLiveFrame == ~crashed

\* Between calls the host knows what the control is: the site in use has been
\* told of one activation if and only if the control is active, of one UI
\* activation if and only if that is active, and no other site of any.
HostKnows ==
  Resting => \A s \in Sites :
    /\ told[s] = IF control.active /\ s = control.inPlaceSite THEN 1 ELSE 0
    /\ toldUI[s] = IF control.ui /\ s = control.inPlaceSite THEN 1 ELSE 0

\* Between calls the control has one window and the frame while it is active,
\* and neither afterwards; the UI is active in an active control only.
WindowWithActivation ==
  Resting => /\ windows = IF control.active THEN {control.hwnd} ELSE {}
             /\ control.hwnd # 0 <=> control.active
             /\ control.frame <=> control.active
             /\ control.ui => control.active
             /\ control.ui <=> frameActive

\* m_hasWindowRgn says whether the window has a region, also when the window
\* is another one than the region was set on.
RegionTracked == control.hwnd \in windows => (control.region <=> control.hwnd \in clipped)

\* A deleted control leaves no window behind.
LeavesNoWindow == ~alive => windows = {}

\* "Obtain IOleInPlaceSite of IOleClientSite": a control becomes active in the
\* site it was last given.
ActivatesInItsSite ==
  [][\A s \in Sites : told'[s] > told[s] => s = control.site]_vars

\* A control that is closed ends up inactive, with its host told and its
\* window gone.
CloseEnds == closed ~> (told = [s \in Sites |-> 0] /\ windows = {} /\ stack = <<>>)

================================================================================
