------------------------------ MODULE MCRobotLink ------------------------------
(* Instances of RobotLink for TLC. *)
EXTENDS RobotLink

CONSTANTS p1, p2, m1, m2, m3

TwoPins == <<p1, p2>>

\* A motor alone, two together, a third.
SomeRuns ==
    {<<<<m1, "some">>>>, <<<<m1, "zero">>>>, <<<<m3, "some">>>>,
     <<<<m1, "some">>, <<m2, "some">>>>}
=============================================================================
