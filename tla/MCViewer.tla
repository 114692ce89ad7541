------------------------------ MODULE MCViewer ------------------------------
(***************************************************************************)
(* Instances of Viewer: one task at a time, as the button allows, and one  *)
(* or two entries of the combo box.  Threads of the hub are alike.         *)
(***************************************************************************)
EXTENDS Viewer, TLC

MCTasks == {"task"}
OneOp == {0}
TwoOps == {0, 1}
Symmetry == Permutations(Threads)

\* Bound: where the hub is restarted, one thread makes captures of one slot.
PlainWhereRestarted ==
  Starts > 1 => \A n \in 1 .. Captures : made[n].length = 1 /\ made[n].thread = made[1].thread
=============================================================================
