------------------------------ MODULE MCRunner ------------------------------
(* Two workflow files; the first may be listed, too. Each starts out with a  *)
(* task queue of its own, but every other edit of the second moves it to the *)
(* task queue of the first.                                                  *)
EXTENDS Runner

CONSTANTS f1, f2, q1, q2

TwoFiles == {f1, f2}
FirstOrNone == {{}, {f1}}
TwoQueues == {q1, q2}
SharedOrNot ==
  [f \in Files |-> [v \in Versions |-> IF f = f1 \/ v % 2 = 1 THEN q1 ELSE q2]]
=============================================================================
