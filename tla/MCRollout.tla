------------------------------ MODULE MCRollout ------------------------------
(***************************************************************************)
(* Two replicas. A version that changes one schedule and adds another; one *)
(* that removes its schedule; one that cannot be served and is corrected;  *)
(* and a workflow with a disabled client and an enabled one.               *)
(***************************************************************************)
EXTENDS Rollout

Clients == <<Client("file", TRUE), Client("http", FALSE)>>
Plan(versions, stale) ==
  [versions |-> versions, clients |-> <<>>, stale |-> stale, fires |-> FALSE, crashes |-> 1, failures |-> 0]

A(schedule) == Document("a", schedule)
B(schedule) == Document("b", schedule)

MCPlans ==
  {Plan(<<<<A("cron"), B("none")>>, <<A("every"), B("every")>>>>, TRUE),
   Plan(<<<<A("cron")>>, <<A("none")>>>>, FALSE),
   Plan(<<<<A("cron")>>, <<A("after")>>, <<A("every")>>>>, TRUE),
   Plan(<<<<A("cron")>>, <<[A("every") EXCEPT !.named = FALSE]>>>>, FALSE),
   Plan(<<<<A("cron")>>, <<[A("every") EXCEPT !.readable = FALSE]>>, <<[A("every") EXCEPT !.builds = FALSE]>>>>, FALSE),
   [Plan(<<<<A("cron")>>>>, FALSE) EXCEPT !.clients = Clients, !.fires = TRUE, !.failures = 1],
   [Plan(<<<<A("cron")>>>>, FALSE) EXCEPT !.clients = <<[Client("http", FALSE) EXCEPT !.loads = FALSE]>>]}
=============================================================================
