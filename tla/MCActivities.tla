---------------------------- MODULE MCActivities ----------------------------
(***************************************************************************)
(* Every kind of activity, every lifetime and name of a container, with a  *)
(* heartbeat of 0 for a command and for a Job.                             *)
(***************************************************************************)
EXTENDS Activities

MCPlans ==
  {t \in Task :
     /\ t.keeps => t.kind \in {"docker", "kubernetes"}
     /\ t.named => t.kind = "docker"
     /\ t.zero => t.kind \in {"shell", "kubernetes"} /\ ~t.keeps}
=============================================================================
