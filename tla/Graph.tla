------------------------------- MODULE Graph -------------------------------
(***************************************************************************)
(* `zigflow graph`: the diagram that is drawn of a document once it is     *)
(* loaded (pkg/graph/mermaid.go). A diagram is a set of nodes, each with   *)
(* the task that it stands for, and a set of edges between the IDs of      *)
(* nodes; shapes, labels and subgraphs are left out.                       *)
(***************************************************************************)
EXTENDS Documents

(***************************************************************************)
(* What the renderer keeps, and the IDs of nodes.                          *)
(***************************************************************************)
\* The list at a place as a tree, each task with the lists in it.
RECURSIVE Nested(_, _)
Nested(do, l) ==
  [i \in DOMAIN do[l] |->
     [lists |-> [k \in 1..Cardinality(ListsOf(do[l][i])) |-> Nested(do, Append(l, <<i, k>>))]] @@ do[l][i]]

Blank == [nodes |-> {}, edges |-> {}, cases |-> {}, crossEdges |-> {}, seen |-> <<>>]

SanitizeID(s) == IF s = <<>> THEN <<"n">> ELSE [i \in DOMAIN s |-> IF s[i] \in {".", "\\", "/", "~"} THEN "_" ELSE s[i]]
Joined(ctx, key) == SanitizeID(ctx) \o <<"_">> \o SanitizeID(key)
Times(b, ctx, key) == Cardinality({i \in DOMAIN b.seen : b.seen[i] = <<ctx, key>>})

\* The second task of a key in one context is given the number 2.
NodeID(b, ctx, key) ==
  Joined(ctx, key) \o (IF Times(b, ctx, key) = 0 THEN <<>> ELSE <<"_", Times(b, ctx, key) + 1>>)
StartID(ctx) == SanitizeID(ctx) \o <<"__start">>
EndID(ctx) == SanitizeID(ctx) \o <<"__end">>
SubWFStartID(name) == <<"wf_">> \o StartID(name)
SubWFEndID(name) == <<"wf_">> \o EndID(name)

Declare(b, id) == [b EXCEPT !.nodes = @ \cup {[id |-> id, task |-> Nothing]}]
Link(b, from, to) == IF from = <<>> THEN b ELSE [b EXCEPT !.edges = @ \cup {<<from, to>>}]
NodeResult(b, entry, exit) == [b |-> b, entry |-> entry, exit |-> exit]

\* A node for the task.
RenderLeaf(b, ctx, t) ==
  LET id == NodeID(b, ctx, t.key)
  IN NodeResult([b EXCEPT !.nodes = @ \cup {[id |-> id, task |-> t]}, !.seen = Append(@, <<ctx, t.key>>)], id, id)

(***************************************************************************)
(* Which do tasks are drawn as workflows of their own.                     *)
(***************************************************************************)
IsAllDoTasks(list) == \A t \in Range(list) : t.kind = "do"

\* Mutant: every do task is one.
SplitTasksAtEveryDo(list) ==
  [main |-> SelectSeq(list, LAMBDA t : t.kind # "do"), subWFs |-> SelectSeq(list, LAMBDA t : t.kind = "do")]

\* Only those behind a task of another kind are.
SplitTasks(list) ==
  LET behind(t) == \E i, j \in DOMAIN list : i < j /\ list[i].kind # "do" /\ list[j] = t
  IN [main |-> SelectSeq(list, LAMBDA t : t.kind # "do" \/ ~behind(t)),
      subWFs |-> SelectSeq(list, LAMBDA t : t.kind = "do" /\ behind(t))]

(***************************************************************************)
(* The tasks. Those of a list are linked from `from` on, if there is one.  *)
(***************************************************************************)
\* The cases of a switch lead to sub-workflows, or to what would be the node
\* of another task of the same context.
RenderSwitch(b, ctx, t, subs) ==
  LET r == RenderLeaf(b, ctx, t)
  IN [r EXCEPT !.b.crossEdges = @ \cup {<<r.entry, SubWFStartID(x)>> : x \in t.then \cap subs},
               !.b.cases = @ \cup {<<r.entry, Joined(ctx, x)>> : x \in t.then \ subs}]

RECURSIVE RenderTask(_, _, _, _), RenderList(_, _, _, _, _), RenderFork(_, _, _, _)
RenderList(b, ctx, list, subs, from) ==
  LET step(r, t) == LET new == RenderTask(r.b, ctx, t, subs)
                    IN NodeResult(Link(new.b, r.exit, new.entry), IF r.entry = <<>> THEN new.entry ELSE r.entry, new.exit)
  IN FoldLeft(step, NodeResult(b, <<>>, from), list)

\* A list between a start and an end of its own.
RenderBetween(b, ctx, list, start, end) ==
  LET r == RenderList(Declare(Declare(b, start), end), ctx, list, {}, start)
  IN Link(r.b, r.exit, end)

RenderDoInline(b, ctx, t, subs) ==
  IF t.lists[1] = <<>> THEN RenderLeaf(b, ctx, t) ELSE RenderList(b, ctx, t.lists[1], subs, <<>>)

\* A body and, for a try task, its catch are contexts of their own.
RenderFor(b, ctx, t) ==
  LET r == RenderLeaf(b, ctx, t)
      body == Joined(ctx, t.key) \o <<"_body">>
      list == RenderList(Declare(r.b, StartID(body)), body, t.lists[1], {}, StartID(body))
  IN IF t.lists[1] = <<>> THEN r
     ELSE [r EXCEPT !.b = Link(Link(list.b, r.entry, StartID(body)), list.exit, r.entry)]

RenderTry(b, ctx, t) ==
  LET try == Joined(ctx, t.key) \o <<"_try">>
      catch == Joined(ctx, t.key) \o <<"_catch">>
      drawn == RenderBetween(b, try, t.lists[1], StartID(try), EndID(try))
      both == RenderBetween(drawn, catch, t.lists[2], StartID(catch), EndID(catch))
  IN NodeResult(IF t.lists[2] = <<>> THEN drawn ELSE Link(both, EndID(try), StartID(catch)), StartID(try), EndID(try))

\* A branch that is not a do task is drawn as an empty one.
RenderFork(b, ctx, t, branches) ==
  LET join == Joined(ctx, t.key) \o <<"__join">>
  IN IF branches = <<>>
     THEN LET r == RenderLeaf(b, ctx, t) IN NodeResult(Declare(r.b, join), r.entry, join)
     ELSE LET r == RenderFork(b, ctx, t, Front(branches))
              branch == Last(branches)
              own == ctx \o <<"_">> \o branch.key
              list == IF branch.kind = "do" THEN branch.lists[1] ELSE <<>>
              drawn == RenderBetween(r.b, own, list, StartID(own), EndID(own))
          IN [r EXCEPT !.b = Link(Link(drawn, r.entry, StartID(own)), EndID(own), join)]

RenderTask(b, ctx, t, subs) ==
  CASE t.kind = "do" -> RenderDoInline(b, ctx, t, subs)
    [] t.kind = "try" -> RenderTry(b, ctx, t)
    [] t.kind = "switch" -> RenderSwitch(b, ctx, t, subs)
    [] t.kind = "fork" -> RenderFork(b, ctx, t, t.lists[1])
    [] t.kind = "for" -> RenderFor(b, ctx, t)
    [] OTHER -> RenderLeaf(b, ctx, t)

\* A workflow of its own, from its start to its end.
RenderSubgraphFlow(b, name, list, subs) ==
  LET r == RenderList(Declare(Declare(b, SubWFStartID(name)), SubWFEndID(name)), name, list, subs, SubWFStartID(name))
  IN Link(r.b, r.exit, SubWFEndID(name))
RenderFlatFlow(b, name, list) == RenderBetween(b, name, list, StartID(name), EndID(name))

RenderAll(b, dos) == FoldLeft(LAMBDA acc, t : RenderSubgraphFlow(acc, t.key, t.lists[1], {}), b, dos)

Generate(doc) ==
  LET name == WorkflowType(doc)
      list == Nested(doc.do, <<>>)
      split == SplitTasks(list)
  IN IF IsAllDoTasks(list) THEN RenderAll(Blank, list)
     ELSE IF split.subWFs = <<>> THEN RenderFlatFlow(Blank, name, split.main)
     ELSE RenderAll(RenderSubgraphFlow(Blank, name, split.main, {t.key : t \in Range(split.subWFs)}), split.subWFs)

-----------------------------------------------------------------------------
(***************************************************************************)
(* The property.                                                           *)
(***************************************************************************)
\* The tasks that the executor of a list comes to, in it and below it, and
\* that have a node of their own.
RECURSIVE Executed(_)
Executed(list) ==
  UNION {LET t == list[i]
             below == UNION {Executed(l) : l \in Range(t.lists)}
             branches == UNION {Executed(u.lists[1]) : u \in {u \in Range(t.lists[1]) : u.kind = "do"}}
         IN CASE t.kind = "fork" -> {t} \cup branches
              [] t.kind \in {"do", "try"} -> below
              [] OTHER -> {t} \cup below
         : i \in {i \in DOMAIN list : Added(list, i)}}

RECURSIVE Reach(_, _)
Reach(edges, ids) ==
  LET next == ids \cup {e[2] : e \in {e \in edges : e[1] \in ids}}
  IN IF next = ids THEN ids ELSE Reach(edges, next)

Drawn(diagram, start) ==
  LET ids == Reach(diagram.edges, {start})
  IN {n.task : n \in {n \in diagram.nodes : n.id \in ids}} \ {Nothing}

\* Whether a diagram is that of what the worker makes of a document.
IsTopology(diagram, new, doc) ==
  LET list == Nested(doc.do, <<>>)
      left == {list[p[1][1]].key : p \in {p \in new.built.left : Len(p) = 1}}
      whole(key) == Drawn(diagram, SubWFStartID(key))
      main == IF left = {} THEN Drawn(diagram, StartID(WorkflowType(doc))) ELSE whole(WorkflowType(doc))
      ownIDs == Cardinality({n.id : n \in diagram.nodes}) = Cardinality(diagram.nodes)
  IN (new.error = "none" /\ ownIDs /\ \A p \in new.built.left : Len(p) = 1) =>
       /\ IF IsAllDoTasks(list)
          THEN \A t \in Range(list) : whole(t.key) = Executed(t.lists[1])
          ELSE main = Executed(list)
       /\ \A t \in Range(list) : t.key \in left => whole(t.key) = Executed(t.lists[1])
       /\ \A e \in diagram.crossEdges : \E n \in diagram.nodes : n.id = e[2]
       /\ \A t \in Range(list) :
            t.kind = "switch" =>
              \A x \in t.then \cap left :
                <<Joined(WorkflowType(doc), t.key), SubWFStartID(x)>> \in diagram.crossEdges

\* "The diagram reflects the same workflow topology that the Zigflow runtime
\* uses" (cmd/graph.go:43): from the start of a workflow the edges lead to
\* the tasks that the worker would execute in it and to no other, and a switch
\* of its list leads to the start of the do task that it names. This holds if
\* the only do tasks that are not executed in order are the document's own:
\* in a list below, they are drawn as if they were (mermaid.go:338); and if no
\* two tasks share an ID, as those of the keys a.b and a_b do (mermaid.go:75).
\* A single task that is a branch is not drawn (mermaid.go:436) and not asked
\* for. Only what a worker can be built from is looked at.
DiagramIsTopology == stage = "inspect" => IsTopology(Generate(held), NewWorkflow(held), held)
=============================================================================
