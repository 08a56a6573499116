----------------------------- MODULE MCTaskList -----------------------------
(* Small instances of TaskList for TLC: which task lists are considered. *)
EXTENDS TaskList

Plain == [kind |-> "work", hasIf |-> FALSE, then |-> "none",
          target |-> Missing, shapes |-> FALSE, exports |-> FALSE]

Conditional == [Plain EXCEPT !.hasIf = TRUE]
Exiting     == [Plain EXCEPT !.then = "exit"]
Exporting   == [Plain EXCEPT !.exports = TRUE]
Switch      == [Plain EXCEPT !.kind = "route"]
ShapingSwitch == [Switch EXCEPT !.shapes = TRUE, !.then = "continue"]
Block       == [Plain EXCEPT !.kind = "block"]
ShapedChild == [Plain EXCEPT !.kind = "child", !.shapes = TRUE]
Child       == [Plain EXCEPT !.kind = "child"]
Listener    == [Plain EXCEPT !.kind = "listen"]
InlineDo    == [Plain EXCEPT !.kind = "do"]
Jump(t)     == [Plain EXCEPT !.then = "goto", !.target = t]

ListsOf(tasks) == [Pos -> tasks]

\* No task that is re-entered after Continue-As-New, and no jump.
TransparentPlans ==
  ListsOf({Plain, Conditional, Exiting, Exporting, Switch, Block, ShapedChild})

\* Jumps forward, backward, to the task itself and to a name that is not
\* there; listeners and inline do tasks, which without Continue-As-New are
\* ordinary tasks.
JumpPlans ==
  ListsOf({Plain, Conditional, Switch, ShapingSwitch, Block, ShapedChild,
           Listener, InlineDo}
          \cup {Jump(t) : t \in Pos \cup {Missing}})

\* Lists that continue as new, where a single task may use up the limit, once
\* with room to rewind and once without; and lists with jumps that never do.
ManyLists ==
  [tasks : TransparentPlans, limit : {3, 4}] \cup [tasks : JumpPlans, limit : {0}]

\* One list per disagreement between the documentation and the code.
WorkThenListen ==
  {[tasks |-> [i \in Pos |-> IF i = 2 THEN Listener ELSE Plain], limit |-> 4]}

WorkThenChild ==
  {[tasks |-> [i \in Pos |-> IF i = 2 THEN Child ELSE Plain], limit |-> 0]}
=============================================================================
