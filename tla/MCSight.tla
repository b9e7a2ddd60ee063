------------------------------- MODULE MCSight -------------------------------
(***************************************************************************)
(* Nothing, a ball, the same one too far away beside an obstacle, and      *)
(* another one beside the obstacle.                                        *)
(***************************************************************************)
EXTENDS Sight

CONSTANTS c1, c2

View(b, valid, o) == [ball |-> b, valid |-> valid, obs |-> o]

MCViews ==
  {View(NoBall, FALSE, FALSE), View(c1, TRUE, FALSE),
   View(c1, FALSE, TRUE), View(c2, TRUE, TRUE)}

=============================================================================
