------------------------------ MODULE MCListen ------------------------------
(* Small instances of Listen: which listeners are considered. *)
EXTENDS Listen

CONSTANTS x, y, z

To(all, type, caught) ==
  [all |-> all, type |-> type, acceptIf |-> {x, z}, caught |-> caught]

\* The listeners to all, or any, of the signals, updates and queries of a set. There is
\* an acceptIf on x and z and none on y.
ListenersTo(ids, caught) ==
  {To(all, [n \in Names |-> IF n \in ids THEN f[n] ELSE "none"], caught) :
     all \in BOOLEAN, f \in [ids -> {"signal", "update", "query"}]}

\* Two listeners that share no event: to x and y and then to z, or to z first;
\* the first one caught, so that the second one runs, and the second one not.
DisjointListeners ==
  {p \in [Tasks -> UNION {ListenersTo(ids, caught) :
                            ids \in {{x, y}, {z}}, caught \in BOOLEAN}] :
     /\ p[1].type[z] = "none" <=> p[2].type[z] # "none"
     /\ p[1].caught /\ ~p[2].caught}

=============================================================================
