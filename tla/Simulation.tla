----------------------------- MODULE Simulation -----------------------------
(***************************************************************************)
(* What a parallel scheduler promises: seen from any KP, events take       *)
(* effect for good in the order of their signatures, as they would if one  *)
(* processor executed them all.  An effect that is for good is a commit.   *)
(***************************************************************************)
EXTENDS Naturals

CONSTANTS Event, Kp, Sig

VARIABLE done       \* the committed events

Init == done = {}

\* Several events may be committed at once, none into the past of its KP.
Commit ==
  /\ done \subseteq done' /\ done' \subseteq Event
  /\ \A e \in done' \ done, f \in done : Kp[e] = Kp[f] => Sig[f] <= Sig[e]

Spec == Init /\ [][Commit]_done
=============================================================================
