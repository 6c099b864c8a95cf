----------------------------- MODULE ButtonState -----------------------------
(***************************************************************************)
(* The state of a button, core/src/ui/view/button_control.cpp, and what is *)
(* promised of it.  ButtonPress has the operations.                        *)
(***************************************************************************)

VARIABLES
  pressed, enabled, visible,
  mounted,     \* the view is in the tree
  held,        \* fingers whose PointerState has the button for its target
  rebuilt,     \* the last step was a rebuild that left the button enabled
  clicks,      \* calls of onPressed
  longPress,   \* the view has an onLongPress
  abandoned    \* history: a long press took the last finger off the pressed button,
               \* and nothing has come to it since

buttonVars ==
  <<pressed, enabled, visible, mounted, held, rebuilt, clicks, longPress, abandoned>>

Hears == visible /\ enabled

\* A button shows as pressed only while it is shown, answers, and a finger is
\* on it: whichever way the last finger went, and however the button was
\* disabled, hidden or rebuilt under it, no press is left behind.  The one
\* exception is a button with an onLongPress of its own: the timer that calls it
\* takes the finger away without a word (pointer_input.cpp line 544), and the
\* press stays until the next finger or the next rebuild.
PressedIsHeld ==
  pressed => \/ Hears /\ mounted /\ held # {}
             \/ longPress /\ abandoned
==============================================================================
