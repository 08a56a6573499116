------------------------------ MODULE MCScopes ------------------------------
(* Small instances of Scopes for TLC: which programs are considered. *)
EXTENDS Scopes

LoopWithTry ==
  << <<"for", Root>>, <<"leaf", Body(1)>>, <<"try", Body(1)>>,
     <<"leaf", Body(3)>>, <<"leaf", Catch(3)>>, <<"leaf", Root>> >>

TryInTry ==
  << <<"try", Root>>, <<"try", Body(1)>>, <<"leaf", Body(2)>>,
     <<"leaf", Catch(2)>>, <<"leaf", Catch(1)>>, <<"leaf", Root>> >>

LoopWithDo ==
  << <<"leaf", Root>>, <<"for", Root>>, <<"do", Body(2)>>,
     <<"leaf", Body(3)>>, <<"route", Body(3)>>, <<"leaf", Body(2)>> >>

TryWithLoop ==
  << <<"try", Root>>, <<"for", Body(1)>>, <<"leaf", Body(2)>>,
     <<"leaf", Body(2)>>, <<"leaf", Catch(1)>>, <<"leaf", Root>> >>

LoopInLoop ==
  << <<"for", Root>>, <<"for", Body(1)>>, <<"leaf", Body(2)>>,
     <<"try", Body(2)>>, <<"route", Body(4)>>, <<"leaf", Catch(4)>> >>

\* The root's list begins with a do task.
DoTree ==
  << <<"do", Root>>, <<"do", Body(1)>>, <<"leaf", Body(2)>>,
     <<"try", Body(1)>>, <<"leaf", Body(4)>>, <<"leaf", Catch(4)>> >>

Plain    == [then |-> "none", shapes |-> FALSE, exports |-> FALSE]
Variants == {[Plain EXCEPT !.then = "exit"], [Plain EXCEPT !.then = "end"],
             [Plain EXCEPT !.shapes = TRUE], [Plain EXCEPT !.exports = TRUE]}

\* In these trees, what is not in a leading do task is nested.
IsNested(tree, i) ==
  CASE tree[i][1] \in {"for", "try"} -> TRUE
    [] tree[i][1] = "do" -> tree[1][1] # "do"
    [] OTHER -> FALSE

\* The tree with a variant at one task and another at a second one.
Decorated(tree, variants) ==
  {[i \in Task |->
      LET v == IF i = t THEN p[1] ELSE IF i = u THEN p[2] ELSE Plain IN
      [kind |-> tree[i][1], list |-> tree[i][2], then |-> v.then,
       shapes |-> v.shapes, exports |-> v.exports,
       nested |-> IsNested(tree, i)]] :
     t \in Task, u \in Task, p \in variants \X (variants \cup {Plain})}

NoEnd == {v \in Variants : v.then # "end"}

\* Without a parent, `end` in a leading do task is left out: see DoThenEnd.
MCPrograms ==
  [root \in BOOLEAN |->
     IF root
     THEN UNION {Decorated(tree, Variants) :
                   tree \in {LoopWithTry, TryInTry, LoopWithDo, TryWithLoop,
                             LoopInLoop}}
            \cup Decorated(DoTree, NoEnd)
     ELSE Decorated(LoopWithTry, Variants) \cup Decorated(DoTree, Variants)]

\* A do task whose only task ends the workflow, and a task after it.
DoThenEnd ==
  LET Def(kind, list, then) == [kind |-> kind, list |-> list, then |-> then,
                                shapes |-> FALSE, exports |-> FALSE,
                                nested |-> FALSE]
  IN [root \in BOOLEAN |->
        {<<Def("do", Root, "none"), Def("leaf", Body(1), "end"),
           Def("leaf", Root, "none")>>}]
=============================================================================
