----------------------------- MODULE ButtonPress ----------------------------
(***************************************************************************)
(* A button, core/src/ui/view/button_control.cpp, under the pointer        *)
(* dispatch of core/src/ui/pointer_input.cpp.                              *)
(*                                                                         *)
(* A finger holds the button from its Down until its Up, or until it is    *)
(* told Cancel: beyond the slop, by a session of two fingers, by the       *)
(* platform, or because the button goes away.  A long press takes the      *)
(* finger away and tells the button nothing.  Where a finger is matters    *)
(* only as inside or outside of the button.                                *)
(***************************************************************************)
EXTENDS ButtonState, Integers

CONSTANTS Finger, MaxClicks   \* bound on the calls of onPressed

vars == buttonVars

TypeOK ==
  /\ pressed \in BOOLEAN /\ enabled \in BOOLEAN /\ visible \in BOOLEAN
  /\ mounted \in BOOLEAN /\ rebuilt \in BOOLEAN
  /\ longPress \in BOOLEAN /\ abandoned \in BOOLEAN
  /\ held \subseteq Finger
  /\ clicks \in 0 .. MaxClicks

-----------------------------------------------------------------------------

\* createButtonView, and the updateButtonView that Button::createRenderObject adds.
\* onLongPress is a field of every View: who has the view may set it.
Init ==
  /\ pressed = FALSE
  /\ enabled \in BOOLEAN
  /\ visible = TRUE /\ mounted = TRUE
  /\ held = {}
  /\ rebuilt = FALSE
  /\ clicks = 0
  /\ longPress \in BOOLEAN /\ abandoned = FALSE

\* handlePointer of a Cancel told to each of the fingers fs.
AfterCancel(fs) == IF fs # {} /\ Hears THEN FALSE ELSE pressed

\* A finger is recorded also where the button does not hear it.
Down(f) ==
  /\ f \notin held
  /\ mounted /\ visible
  /\ held' = held \cup {f}
  /\ pressed' = (Hears \/ pressed)
  /\ rebuilt' = FALSE /\ abandoned' = FALSE
  /\ UNCHANGED <<enabled, visible, mounted, clicks, longPress>>

Move(f, inside) ==
  /\ f \in held
  /\ pressed' = IF Hears THEN inside ELSE pressed
  /\ rebuilt' = FALSE
  /\ UNCHANGED <<enabled, visible, mounted, held, clicks, longPress, abandoned>>

Up(f, inside) ==
  /\ f \in held
  /\ held' = held \ {f}
  /\ pressed' = IF Hears THEN FALSE ELSE pressed
  /\ LET clicked == Hears /\ pressed /\ inside
     IN /\ clicked => clicks < MaxClicks
        /\ clicks' = IF clicked THEN clicks + 1 ELSE clicks
  /\ rebuilt' = FALSE
  /\ UNCHANGED <<enabled, visible, mounted, longPress, abandoned>>

Cancel(fs) ==
  /\ fs # {} /\ fs \subseteq held
  /\ held' = held \ fs
  /\ pressed' = AfterCancel(fs)
  /\ rebuilt' = FALSE
  /\ UNCHANGED <<enabled, visible, mounted, clicks, longPress, abandoned>>

\* tickGestureTimer: the finger held still, loses its target, and onLongPress is
\* called.  What onLongPress does comes as steps of its own.
LongPress(f) ==
  /\ f \in held /\ longPress
  /\ held' = held \ {f}
  /\ abandoned' = (pressed /\ held' = {})
  /\ rebuilt' = FALSE
  /\ UNCHANGED <<pressed, enabled, visible, mounted, clicks, longPress>>

\* updateButtonView: a button that is disabled gives up its fingers first.
UpdateButtonView(on) ==
  /\ mounted
  /\ enabled' = on
  /\ held' = IF ~on /\ enabled THEN {} ELSE held
  /\ pressed' = FALSE
  /\ rebuilt' = on /\ abandoned' = FALSE
  /\ UNCHANGED <<visible, mounted, clicks, longPress>>

\* A mistake: setVisible that hides first, so that the button does not hear the
\* Cancel of its fingers.
SetVisibleHidesFirst(on) ==
  /\ on # visible
  /\ visible' = on
  /\ held' = IF on THEN held ELSE {}
  /\ rebuilt' = FALSE
  /\ UNCHANGED <<pressed, enabled, mounted, clicks, longPress, abandoned>>

\* View::setVisible: the fingers are cancelled while the button still hears.
SetVisible(on) ==
  /\ on # visible
  /\ visible' = on
  /\ held' = IF on THEN held ELSE {}
  /\ pressed' = IF on THEN pressed ELSE AfterCancel(held)
  /\ rebuilt' = FALSE
  /\ UNCHANGED <<enabled, mounted, clicks, longPress, abandoned>>

\* removeChild: as above for a view that leaves the tree.
Unmount ==
  /\ mounted
  /\ mounted' = FALSE
  /\ held' = {}
  /\ pressed' = AfterCancel(held)
  /\ rebuilt' = FALSE
  /\ UNCHANGED <<enabled, visible, clicks, longPress, abandoned>>

\* A new button in the place of the one that left.
Mount ==
  /\ ~mounted
  /\ mounted' = TRUE /\ visible' = TRUE /\ pressed' = FALSE
  /\ enabled' \in BOOLEAN /\ longPress' \in BOOLEAN
  /\ rebuilt' = FALSE /\ abandoned' = FALSE
  /\ UNCHANGED <<held, clicks>>

\* performSemanticsAction: no finger takes part.
SemanticsTap ==
  /\ mounted /\ enabled
  /\ clicks < MaxClicks
  /\ clicks' = clicks + 1
  /\ rebuilt' = FALSE
  /\ UNCHANGED <<pressed, enabled, visible, mounted, held, longPress, abandoned>>

Next ==
  \/ \E f \in Finger : Down(f) \/ LongPress(f)
  \/ \E f \in Finger, inside \in BOOLEAN : Move(f, inside) \/ Up(f, inside)
  \/ \E fs \in SUBSET Finger : Cancel(fs)
  \/ \E on \in BOOLEAN : UpdateButtonView(on) \/ SetVisible(on)
  \/ Unmount \/ Mount \/ SemanticsTap

Spec == Init /\ [][Next]_vars

-----------------------------------------------------------------------------
(* Properties *)

\* What the comment at the head of ButtonView says: a rebuild does not break
\* off a press, unless it disables the button.
RebuildKeepsPress == [][rebuilt' /\ enabled => pressed' = pressed]_vars

\* What the same comment says of a press: it ends with the Up, outside of the button
\* or with a Cancel, so that a button that shows as pressed has a finger on it.  A
\* long press of its own breaks this.
EveryPressIsHeld == pressed => Hears /\ mounted /\ held # {}
=============================================================================
