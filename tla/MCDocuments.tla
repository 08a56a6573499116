---------------------------- MODULE MCDocuments ----------------------------
(***************************************************************************)
(* Documents that put every form of expression into every kind of place,   *)
(* every flaw into every kind of list, do tasks and switches into every    *)
(* order, and every kind of result into every part of an activity's input. *)
(***************************************************************************)
EXTENDS Graph

MCPure == [length |-> 0, map |-> 1, empty |-> 0]
MCUnlisted == [toarray |-> 0]
MCClocks == [now |-> 0, localtime |-> 0]

(***************************************************************************)
(* Expressions and lists of tasks are written as trees here, a term with   *)
(* its parts and a task with its lists.                                    *)
(***************************************************************************)
RECURSIVE Expression(_)
Expression(tree) ==
  LET below == [c \in DOMAIN tree.parts |-> Expression(tree.parts[c])]
  IN [p \in UNION {{<<c>> \o q : q \in DOMAIN below[c]} : c \in DOMAIN below} |-> below[p[1]][Tail(p)]]
       @@ (<<>> :> tree.term)

\* A task of a document without its lists.
Parsed(t) ==
  [f \in DOMAIN t \ {"lists"} |->
     CASE f \in {"base", "body"} -> {Expression(e) : e \in t[f]}
       [] f = "inputs" -> [p \in DOMAIN t.inputs |-> [t.inputs[p] EXCEPT !.expr = Expression(@)]]
       [] OTHER -> t[f]]

RECURSIVE Lists(_, _)
Lists(list, l) ==
  {<<l, [i \in DOMAIN list |-> Parsed(list[i])]>>}
    \cup UNION {UNION {Lists(list[i].lists[k], Append(l, <<i, k>>)) : k \in DOMAIN list[i].lists} : i \in DOMAIN list}
Flat(list) ==
  LET lists == Lists(list, <<>>)
  IN [l \in {x[1] : x \in lists} |-> (CHOOSE x \in lists : x[1] = l)[2]]

Tree(term, parts) == [term |-> term, parts |-> parts]
Access(name, key, args) == Tree([form |-> "call", name |-> name, key |-> key, args |-> Len(args)], args)
Call(name) == Access(name, "", <<>>)
Apply(name, arg) == Access(name, "", <<arg>>)
Node(parts) == Tree([form |-> "node"], parts)
Bind(source, names, body) == Tree([form |-> "bind", vars |-> names], <<source, body>>)
Fold(source, names, start, update) == Tree([form |-> "fold", vars |-> names], <<source, start, update>>)
Def(name, params, body) == [name |-> name, params |-> params, body |-> body]
Defs(defs, body) ==
  Tree([form |-> "defs", defs |-> [i \in DOMAIN defs |-> [name |-> defs[i].name, params |-> defs[i].params]]],
       [i \in DOMAIN defs |-> defs[i].body] \o <<body>>)
Label(name, body) == Tree([form |-> "label", name |-> name], <<body>>)
Import(body) == Tree([form |-> "import"], <<body>>)

Data(key) == Access("$data", key, <<>>)
X == Data("x")
Activity == Data("activity")
Clock == Call("now")

Expressions ==
  {X, Activity, Data(""), Clock, Call("uuid"), Call("$nope"), Import(X),
   Node(<<X, Clock>>), Apply("map", Clock), Apply("map", X), Node(<<X, Call("toarray")>>), Node(<<Call("$ENV")>>),
   Bind(Clock, {"$x"}, Call("$x")), Bind(X, {"$x"}, Node(<<Call("$x"), Clock>>)), Bind(X, {"$x"}, Call("$x")),
   Fold(X, {"$x"}, Clock, Call("$x")), Fold(X, {"$x"}, X, Node(<<Clock, Call("$x")>>)),
   Fold(X, {"$x"}, Call("$x"), X), Fold(Bind(X, {"$y"}, Call("$y")), {"$x"}, X, Call("$x")),
   Defs(<<Def("now", <<>>, X)>>, Clock), Defs(<<Def("f", <<>>, Clock)>>, Call("f")),
   Defs(<<Def("f", <<"g">>, Call("g"))>>, Apply("f", Clock)),
   Defs(<<Def("f", <<"g">>, Call("g"))>>, Apply("f", X)), Defs(<<Def("f", <<>>, X)>>, Node(<<Call("f"), Call("uuid")>>)),
   Label("$out", Node(<<Call("localtime")>>)), Label("$out", Call("empty"))}

\* Keys.
A == <<"a">>
B == <<"b">>
C == <<"c">>
D == <<"d">>
T == <<"t">>
Dotted == <<"a", ".", "b">>

Doc(tasks) ==
  [yaml |-> TRUE, conforms |-> TRUE, dsl |-> TRUE, names |-> [workflowType |-> <<"w">>],
   exprs |-> {}, scheduleInput |-> {}, do |-> Flat(tasks)]

Leaf(key, kind) == [lists |-> <<>>] @@ Task(key, kind)
With(key, kind, body) == [Leaf(key, kind) EXCEPT !.body = body]
Set(key) == With(key, "set", {X})
Holding(key, kind, lists) == [Leaf(key, kind) EXCEPT !.lists = lists]
Do(key, list) == Holding(key, "do", <<list>>)
For(key, list) == Holding(key, "for", <<list>>)
Try(key, list, catch) == Holding(key, "try", <<list, catch>>)
Fork(key, branches) == Holding(key, "fork", <<branches>>)
Switch(key, target) == [Leaf(key, "switch") EXCEPT !.then = {target}, !.body = {X}]
Takes(key, kind, inputs) == [Leaf(key, kind) EXCEPT !.inputs = inputs]
Http(key) == Takes(key, "http", <<>>)
Grpc(key) == Takes(key, "grpc", <<>>)

\* Every expression in every kind of place.
ExpressionTasks ==
  UNION {{With(A, "set", {e}), With(A, "wait", {e}), With(A, "switch", {e}),
          [Set(A) EXCEPT !.base = {e}], Takes(A, "shell", ExecArgs \o <<A>> :> Input(e, "plain"))} : e \in Expressions}

\* Flaws, and what has to be normalised, post-loaded or collected.
Delicate ==
  {With(A, "wait", {X}), With(A, "raise", {Clock}), With(A, "set", {Clock}), Http(A),
   [Set(A) EXCEPT !.base = {Clock}],
   Leaf(A, "script"), [Leaf(A, "script") EXCEPT !.await = "no"],
   [Leaf(A, "workflow") EXCEPT !.callee = [type |-> B]]}
    \cup {[Set(A) EXCEPT !.flaw = f] : f \in {"call", "validate", "struct"}}

\* Every kind of list around a task.
Around(t) ==
  {<<t>>, <<Do(T, <<t>>)>>, <<For(T, <<t>>)>>, <<Try(T, <<t>>, <<Set(C)>>)>>, <<Try(T, <<Set(C)>>, <<t>>)>>,
   <<Fork(T, <<t, Set(C)>>)>>, <<Fork(T, <<Set(C), Do(B, <<t>>)>>)>>,
   <<For(T, <<Try(B, <<Set(C)>>, <<Fork(D, <<t>>)>>)>>)>>, <<Set(B), Do(T, <<For(C, <<t>>)>>)>>}

\* do tasks, a switch and another task, in every order.
Redirects ==
  LET pieces(target) == {Do(A, <<Set(C)>>), Do(B, <<Do(D, <<Set(C)>>)>>), Switch(T, target), Set(C)}
      lists == UNION {{l \in UNION {[1..n -> pieces(x)] : n \in 2..4} : IsInjective(l)} : x \in {A, B}}
  IN lists \cup {<<For(T, l)>> : l \in lists} \cup {<<Try(T, <<Set(C)>>, l)>> : l \in lists}
       \cup {<<Fork(T, <<Do(<<"e">>, l), Set(C)>>)>> : l \in lists}

Shared ==
  {<<Do(A, <<Http(C)>>), Do(B, <<Grpc(C)>>)>>,
   <<Try(A, <<Http(C)>>, <<Grpc(C)>>), Grpc(B)>>,
   <<Do(Dotted, <<Http(C)>>), Do(A, <<Grpc(<<"b", ".", "c">>)>>)>>,
   <<Do(<<"a", "\\">>, <<Http(<<"b">>)>>), Do(A, <<Grpc(<<"\\", ".", "b">>)>>)>>,
   <<Fork(A, <<Http(C), Do(B, <<Grpc(C)>>)>>)>>,
   <<For(A, <<Http(C)>>), For(B, <<Grpc(C)>>)>>,
   <<Set(C), Do(A, <<Do(B, <<Http(C)>>)>>), Do(D, <<Do(B, <<Grpc(C)>>)>>)>>,
   <<Set(C), Do(<<"w">>, <<Http(A)>>)>>,
   <<Do(A, <<Fork(T, <<Http(C)>>)>>), Do(B, <<Fork(T, <<Grpc(C)>>)>>)>>,
   <<For(A, <<>>), Set(B)>>}

\* One input of every kind of result, next to one that looks like an
\* expression, where their places are most alike.
Body == <<"body">>
InputPlaces(kind) ==
  CASE kind = "http" -> {<<Body, <<"a", "/", "b">>>>}
    [] kind = "grpc" -> {Method, <<<<"args">>, A>>}
    [] kind = "shell" -> {ExecArgs \o <<A>>, ExecEnv \o <<A>>}
    [] kind = "script" -> {ExecArgs \o <<A>>, Source}
    [] kind = "docker" -> {Image, Arguments \o <<A>>, Variables \o <<A>>}
    [] kind = "kubernetes" -> {Arguments \o <<A>>, Variables \o <<A>>, Image}
Neighbour(kind) ==
  CASE kind = "http" -> <<Body, A, B>>
    [] kind = "grpc" -> <<<<"args">>, <<"~">>>>
    [] kind \in {"shell", "script"} -> ExecEnv \o <<<<"a", "~", "1">>>>
    [] kind \in {"docker", "kubernetes"} -> Arguments \o <<B>>
InputTasks ==
  UNION {{Takes(A, kind, (place :> Input(e, gives)) @@ (Neighbour(kind) :> Input(X, "lookalike"))) :
            place \in InputPlaces(kind), e \in {X, Activity, Bind(X, {"$data"}, Activity), Bind(Activity, {"$data"}, X)},
            gives \in Gives}
         : kind \in ActivityKinds}

Flawed ==
  LET sound == Doc(<<Set(A)>>)
  IN {[sound EXCEPT !.yaml = FALSE], [sound EXCEPT !.conforms = FALSE], [sound EXCEPT !.dsl = FALSE],
      [Doc(<<Try(T, <<Set(A)>>, <<>>)>>) EXCEPT !.conforms = FALSE],
      [sound EXCEPT !.names = [name |-> <<"w">>], !.conforms = FALSE],
      [sound EXCEPT !.names = <<>>, !.conforms = FALSE]}
      \cup {[sound EXCEPT !.exprs = {Expression(e)}] : e \in {X, Clock, Import(X)}}
      \cup {[sound EXCEPT !.scheduleInput = {Expression(e)}] : e \in {X, Clock, Import(X)}}
      \cup {Doc(<<[Try(T, <<Set(A)>>, <<Set(B)>>) EXCEPT !.body = {Clock}]>>)}

MCChar ==
  {"a", "b", "c", "d", "e", "t", "w", ".", "\\", "/", "~", "1", "body", "args", "method", "source", "exec", "env",
   "image", "arguments", "environment"}

MCFiles ==
  {Doc(<<t>>) : t \in ExpressionTasks \cup InputTasks}
    \cup {Doc(l) : l \in UNION {Around(t) : t \in Delicate} \cup Redirects \cup Shared}
    \cup {[Doc(l) EXCEPT !.conforms = FALSE] : l \in Around([Leaf(A, "workflow") EXCEPT !.callee = [name |-> B]])}
    \cup Flawed

MCEdits ==
  {Doc(<<With(A, "raise", {Clock})>>), Doc(<<For(T, <<[Set(A) EXCEPT !.base = {Call("$nope")}]>>)>>),
   [Doc(<<[Set(A) EXCEPT !.base = {X}]>>) EXCEPT !.conforms = FALSE]}

\* What two of the proofs suppose of the documents.
ASSUME NoneMisleadsHere == NoneMisleads
ASSUME KeysAreUniqueHere == KeysAreUnique
=============================================================================
