---------------------------- MODULE Expressions ----------------------------
(***************************************************************************)
(* Runtime expressions: what jq makes of a parsed expression, and what the *)
(* determinism check of Zigflow says about it (pkg/utils/                  *)
(* expression_determinism.go, pkg/utils/runtime_expressions.go).           *)
(*                                                                         *)
(* An expression is a function from the places of its terms to the terms.  *)
(* The place of the whole is <<>>, and that of part c of the term at p is  *)
(* Append(p, c). A term is a record of one of these forms:                 *)
(*   "call"    of a function, or of a variable, whose name then begins     *)
(*             with "$"; its parts are its `args` arguments, and `key` is  *)
(*             that of its first access, "" for none that is known before  *)
(*             it runs;                                                    *)
(*   "bind"    part 1 as `vars` | part 2;                                  *)
(*   "fold"    reduce or foreach part 1 as `vars` (part 2; the others);    *)
(*   "defs"    definitions, each with a name and parameters: their bodies, *)
(*             in their order, are the parts before the last one;          *)
(*   "label"   with a name and one part;                                   *)
(*   "import"  with one part;                                              *)
(*   "node"    whatever neither jq nor the check tells apart: an operator, *)
(*             an object, an array, an `if`, a string, an index, a `try`.  *)
(***************************************************************************)
EXTENDS Sequences, FiniteSets, Functions, TLC

CONSTANTS
  Pure,       \* builtins that depend on their input only: a function from
              \* names to numbers of arguments
  Unlisted,   \* other builtins of the same kind, that Zigflow does not list
  Clocks      \* builtins that read the host's clock or timezone

\* What the state of a workflow gives to every expression.
StateVariables == {"$context", "$data", "$env", "$input", "$output", "$propagated"}

ASSUME BuiltinsAssumption ==
  /\ DOMAIN Pure \cap DOMAIN Clocks = {}
  /\ DOMAIN Pure \cap DOMAIN Unlisted = {}
  /\ StateVariables \cap DOMAIN Clocks = {}

Calls(e) == {p \in DOMAIN e : e[p].form = "call"}

(***************************************************************************)
(* The check. Whether a name is declared where it is used depends on the   *)
(* terms around it only, so each walk over an expression is a quantifier.  *)
(***************************************************************************)

\* Zigflow's own functions. None of them is deterministic.
JqFuncs == {"uuid", "timestamp", "timestamp_iso8601"}

\* The allow-list.
IsDeterministicBuiltin(name) == name \in DOMAIN Pure

\* The names that a term declares for its part c. Those of definitions are
\* hoisted: they are in the scope of every definition next to them.
Declares(term, c) ==
  CASE term.form = "bind"  -> IF c = 2 THEN term.vars ELSE {}
    [] term.form = "fold"  -> IF c = 1 THEN {} ELSE term.vars
    [] term.form = "label" -> {term.name}
    [] term.form = "defs"  -> {d.name : d \in Range(term.defs)}
                                \cup (IF c \in DOMAIN term.defs THEN Range(term.defs[c].params) ELSE {})
    [] OTHER -> {}
TermAround(e, p, m) == e[SubSeq(p, 1, m - 1)]
DeclaredAt(e, p) == UNION {Declares(TermAround(e, p, m), p[m]) : m \in DOMAIN p}

\* Mutant: a list of what is known to be unsafe, instead of what is safe.
ClassifyNameByDenyList(name, scope) ==
  IF name \in scope \/ name \notin JqFuncs \cup {"now"} THEN {} ELSE {name}

\* A name is safe if it is declared in the expression itself, belongs to the
\* state, or is listed; otherwise it is flagged.
ClassifyName(name, scope) ==
  IF name \in scope \cup StateVariables \/ (name \notin JqFuncs /\ IsDeterministicBuiltin(name))
  THEN {}
  ELSE {name}

\* The symbols that the check flags in an expression.
Issues(e) ==
  UNION {ClassifyName(e[p].name, DeclaredAt(e, p)) : p \in Calls(e)}
    \cup (IF \E p \in DOMAIN e : e[p].form = "import" THEN {"import"} ELSE {})

IsDeterministic(e) == Issues(e) = {}

\* Whether the value may depend on $data.activity: $data counts unless its
\* first access is a static key other than "activity". It is looked for in
\* every term, whatever declares the name.
NamesActivity(term) == term.name = "$data" /\ term.key \in {"", "activity"}
ReferencesActivityState(e) == \E p \in Calls(e) : NamesActivity(e[p])

(***************************************************************************)
(* What jq makes of it. A function is known by its name and the number of  *)
(* its arguments.                                                          *)
(***************************************************************************)
Signature(term) == <<term.name, term.args>>
Signatures(builtins) == {<<f, builtins[f]>> : f \in DOMAIN builtins}

\* The functions that read the clock, or draw a number.
ClockBuiltins == Signatures(Clocks) \cup (JqFuncs \X {0})

\* What every expression can call: the functions of jq and of Zigflow, and
\* the variables of the state. The environment of the process is not given to
\* jq, whose $ENV is empty.
Builtins ==
  ClockBuiltins \cup Signatures(Pure) \cup Signatures(Unlisted) \cup ((StateVariables \cup {"$ENV"}) \X {0})

\* A definition is seen by itself and by what comes after it, and what a fold
\* starts with does not see its variables.
JqDeclares(term, c) ==
  CASE term.form = "bind" -> IF c = 2 THEN term.vars \X {0} ELSE {}
    [] term.form = "fold" -> IF c \in {1, 2} THEN {} ELSE term.vars \X {0}
    [] term.form = "defs" -> {<<term.defs[i].name, Len(term.defs[i].params)>> : i \in DOMAIN term.defs \cap 1..c}
                               \cup (IF c \in DOMAIN term.defs THEN Range(term.defs[c].params) \X {0} ELSE {})
    [] OTHER -> {}
JqDeclaredAt(e, p) == UNION {JqDeclares(TermAround(e, p, m), p[m]) : m \in DOMAIN p}

Compiles(e) ==
  /\ \A p \in DOMAIN e : e[p].form # "import"
  /\ \A p \in Calls(e) : Signature(e[p]) \in JqDeclaredAt(e, p) \cup Builtins

\* Whether the value may depend on when and where it is evaluated.
ReadsClock(e) == \E p \in Calls(e) : Signature(e[p]) \in ClockBuiltins \ JqDeclaredAt(e, p)

\* Whether it may depend on $data.activity.
ReadsActivity(e) == \E p \in Calls(e) : NamesActivity(e[p]) /\ Signature(e[p]) \notin JqDeclaredAt(e, p)

(***************************************************************************)
(* The check takes the name of a builtin that reads the clock for one that *)
(* the expression declares, where jq does not: the definition has another  *)
(* number of arguments, or comes later.                                    *)
(***************************************************************************)
Misleads(e) ==
  \E p \in Calls(e) : Signature(e[p]) \in ClockBuiltins \ JqDeclaredAt(e, p) /\ e[p].name \in DeclaredAt(e, p)
=============================================================================
