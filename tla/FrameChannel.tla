---------------------------- MODULE FrameChannel ----------------------------
(***************************************************************************)
(* What FramePipeline promises its two users, without slots, rings, locks  *)
(* or condition variables: a bounded FIFO channel from the UI thread to    *)
(* one consumer.  Frames are taken in the order they were submitted, each  *)
(* at most once and with the content they were submitted with; at most     *)
(* Capacity frames are in the channel, the one being consumed included;    *)
(* after Close nothing is taken any more and what is pending is dropped    *)
(* with the channel.                                                       *)
(***************************************************************************)
EXTENDS Naturals, Sequences

CONSTANTS
  Frame,      \* the frames that can be submitted
  Capacity    \* frames in the channel at once, the active one included

VARIABLES
  pending,    \* submitted and not yet taken, oldest first
  active,     \* <<f>> while f is being consumed, else << >>
  closed      \* stop() was called, or a callback of the consumer failed

chanVars == <<pending, active, closed>>

Init ==
  /\ pending = << >>
  /\ active = << >>
  /\ closed = FALSE

\* A submission that was under way when the channel closed still lands in it.
Submit(f) ==
  /\ Len(pending) + Len(active) < Capacity
  /\ pending' = Append(pending, f)
  /\ UNCHANGED <<active, closed>>

Take ==
  /\ ~closed
  /\ active = << >>
  /\ pending # << >>
  /\ active' = <<Head(pending)>>
  /\ pending' = Tail(pending)
  /\ UNCHANGED closed

Complete ==
  /\ active # << >>
  /\ active' = << >>
  /\ UNCHANGED <<pending, closed>>

\* The consumer failed on the active frame: it is gone and the channel closes.
Fail ==
  /\ active # << >>
  /\ active' = << >>
  /\ closed' = TRUE
  /\ UNCHANGED pending

Close ==
  /\ closed' = TRUE
  /\ UNCHANGED <<pending, active>>

Next ==
  \/ \E f \in Frame : Submit(f)
  \/ Take
  \/ Complete
  \/ Fail
  \/ Close

Spec == Init /\ [][Next]_chanVars
=============================================================================
