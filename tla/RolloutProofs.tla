---------------------------- MODULE RolloutProofs ----------------------------
(***************************************************************************)
(* Proofs about Rollout, for any replicas and any plan: replicas that all  *)
(* serve what is deployed have left it the schedules that it asks for.     *)
(***************************************************************************)
EXTENDS Rollout, TLAPS

\* The documents of a version have IDs of their own. The default ID is made of
\* the type of the workflow alone, so that two task queues may share one.
DistinctIDs ==
  \A v \in DOMAIN plan.versions : \A i, j \in DOMAIN plan.versions[v] :
    plan.versions[v][i].id = plan.versions[v][j].id => i = j

\* A version that takes a schedule away finds it in the list.
RemovalsAreSeen ==
  plan.stale =>
    \A v, w \in DOMAIN plan.versions : \A d \in Documents(v), e \in Documents(w) :
      w < v /\ d.id = e.id /\ Scheduled(e) => Scheduled(d)

Starting == {"list", "delete", "create"}

StartupOK ==
  /\ plan \in Plans
  /\ deployed \in DOMAIN plan.versions
  /\ pc \in [Replicas -> Starting \cup {"down", "build", "serve"}]
  /\ version \in [Replicas -> 1 .. deployed]
  /\ at \in [Replicas -> Nat \ {0}]
  /\ listed \in [Replicas -> SUBSET STRING]
  /\ \A p \in Replicas : pc[p] \in Starting => at[p] \in DOMAIN plan.versions[version[p]]
  /\ \A p \in Replicas : pc[p] = "create" => Scheduled(Current(p))

ServerOK ==
  /\ DOMAIN schedules \subseteq STRING
  /\ schedules \in [DOMAIN schedules -> Definition]
  /\ visible \subseteq STRING

\* An index that does not lag behind is up to date.
IndexInv == ~ plan.stale => visible = DOMAIN schedules

\* A schedule was asked for by some version up to the deployed one.
Origins ==
  \A id \in DOMAIN schedules :
    \E v \in 1 .. deployed : \E d \in Documents(v) : d.id = id /\ Scheduled(d)

AsAsked(d) ==
  IF Scheduled(d)
  THEN d.id \in DOMAIN schedules /\ schedules[d.id] = d
  ELSE d.id \notin DOMAIN schedules

\* Replica p will not touch the schedule of the i-th deployed document again.
Handled(p, i) ==
  /\ version[p] = deployed
  /\ \/ pc[p] \in {"build", "serve"}
     \/ pc[p] \in Starting /\ i < at[p]
     \/ /\ pc[p] = "delete" /\ i = at[p]
        /\ ~ Scheduled(Current(p)) /\ Current(p).id \notin listed[p]

\* The last replica to handle a document has left its schedule as it should be.
LastHandles ==
  \A i \in DOMAIN plan.versions[deployed] :
    (\A p \in Replicas : Handled(p, i)) => AsAsked(plan.versions[deployed][i])

IInv ==
  /\ StartupOK /\ ServerOK /\ IndexInv /\ Origins /\ LastHandles
  /\ DistinctIDs /\ RemovalsAreSeen

-----------------------------------------------------------------------------
(* Lemmas *)

LEMMA VersionsOK ==
  ASSUME RolloutAssumption, StartupOK, NEW v \in 1 .. deployed
  PROVE  /\ v \in DOMAIN plan.versions
         /\ \A i \in DOMAIN plan.versions[v] :
              /\ i \in Nat \ {0} /\ i =< Len(plan.versions[v])
              /\ plan.versions[v][i] \in Definition
         /\ Len(plan.versions[v]) \in Nat \ {0}
         /\ \A i \in 1 .. Len(plan.versions[v]) : i \in DOMAIN plan.versions[v]
<1>1. plan.versions \in Seq(Seq(Definition) \ {<<>>})
  BY DEF RolloutAssumption, StartupOK
<1>2. v \in DOMAIN plan.versions
  BY <1>1 DEF StartupOK
<1>3. plan.versions[v] \in Seq(Definition) /\ plan.versions[v] # <<>>
  BY <1>1, <1>2
<1> QED
  BY <1>2, <1>3

LEMMA CurrentOK ==
  ASSUME RolloutAssumption, StartupOK, NEW p \in Replicas, pc[p] \in Starting
  PROVE  /\ version[p] \in 1 .. deployed /\ version[p] \in DOMAIN plan.versions
         /\ at[p] \in DOMAIN plan.versions[version[p]]
         /\ at[p] \in Nat \ {0} /\ at[p] =< Len(plan.versions[version[p]])
         /\ Current(p) \in Definition /\ Current(p).id \in STRING
<1>1. /\ version[p] \in 1 .. deployed
      /\ at[p] \in DOMAIN plan.versions[version[p]]
  BY DEF StartupOK
<1> QED
  BY <1>1, VersionsOK DEF Current, Definition

\* Steps in which no schedule changes and nobody gets further with a document.
LEMMA NobodyHandles ==
  ASSUME LastHandles, UNCHANGED <<plan, deployed, schedules>>,
         \A p \in Replicas, i \in DOMAIN plan.versions[deployed] :
           Handled(p, i)' => Handled(p, i)
  PROVE  LastHandles'
BY DEF LastHandles, AsAsked

\* Replica p goes down.
Downs(p) ==
  /\ pc' = [pc EXCEPT ![p] = "down"]
  /\ UNCHANGED <<version, at>>

LEMMA DownOK ==
  ASSUME RolloutAssumption, IInv, NEW p \in Replicas, Downs(p),
         UNCHANGED <<plan, deployed, listed>>
  PROVE  StartupOK' /\ \A i : ~ Handled(p, i)'
<1>1. pc'[p] = "down" /\ \A q \in Replicas : q # p => pc'[q] = pc[q]
  BY DEF IInv, StartupOK, Downs
<1>2. \A i : ~ Handled(p, i)'
  BY <1>1 DEF Handled, Starting
<1>3. StartupOK'
  BY <1>1 DEF IInv, StartupOK, Downs, Starting, Current
<1> QED
  BY <1>2, <1>3

\* Steps that leave what is deployed and asked for, and the server, as it is.
LEMMA ServerKept ==
  ASSUME IInv, UNCHANGED <<plan, deployed, schedules>>,
         visible' = visible \/ visible' = DOMAIN schedules
  PROVE  ServerOK' /\ IndexInv' /\ Origins' /\ DistinctIDs' /\ RemovalsAreSeen'
BY DEF IInv, ServerOK, IndexInv, Origins, DistinctIDs, RemovalsAreSeen, Documents

LEMMA DownInv ==
  ASSUME RolloutAssumption, IInv, NEW p \in Replicas, Downs(p),
         UNCHANGED <<plan, deployed, listed, schedules, visible>>
  PROVE  IInv'
<1>1. StartupOK'
  BY DownOK DEF IInv, StartupOK
<1>2. LastHandles'
  BY DownOK, <1>1 DEF LastHandles, StartupOK
<1> QED
  BY <1>1, <1>2, ServerKept DEF IInv

LEMMA StartInv ==
  ASSUME RolloutAssumption, IInv, NEW p \in Replicas, Start(p)
  PROVE  IInv'
<1>1. /\ pc[p] = "down" /\ pc' = [pc EXCEPT ![p] = "list"] /\ at' = [at EXCEPT ![p] = 1]
      /\ version' = [version EXCEPT ![p] = deployed]
      /\ UNCHANGED <<plan, deployed, schedules, visible, listed>>
  BY DEF Start, server
<1>2. /\ pc'[p] = "list" /\ at'[p] = 1 /\ version'[p] = deployed
      /\ \A q \in Replicas : q # p =>
           pc'[q] = pc[q] /\ at'[q] = at[q] /\ version'[q] = version[q]
  BY <1>1 DEF IInv, StartupOK
<1>3. 1 \in DOMAIN plan.versions[deployed] /\ deployed \in 1 .. deployed
  <2>1. deployed \in Nat \ {0}
    BY DEF IInv, StartupOK, RolloutAssumption
  <2> QED BY <2>1, VersionsOK DEF IInv
<1>4. StartupOK'
  BY <1>1, <1>2, <1>3 DEF IInv, StartupOK, Starting, Current
<1>5. LastHandles'
  <2>1. p \in Replicas /\ \A i \in DOMAIN plan.versions[deployed] : ~ Handled(p, i)'
    <3>1. deployed \in 1 .. deployed
      BY <1>3
    <3>2. \A i \in DOMAIN plan.versions[deployed] : i \in Nat \ {0}
      BY <3>1, VersionsOK DEF IInv
    <3> QED BY <1>2, <3>2 DEF Handled, Starting
  <2> QED BY <1>1, <2>1 DEF LastHandles
<1> QED
  BY <1>1, <1>4, <1>5, ServerKept DEF IInv

LEMMA ListInv ==
  ASSUME RolloutAssumption, IInv, NEW p \in Replicas, GetScheduleInfo(p)
  PROVE  IInv'
<1>1. pc[p] = "list" /\ pc[p] \in Starting /\ UNCHANGED <<plan, deployed, schedules, visible>>
  BY DEF GetScheduleInfo, server, Starting
<1>2. CASE Fail(p) /\ UNCHANGED listed
  BY <1>1, <1>2, DownInv DEF Fail, Downs
<1>3. CASE /\ pc' = [pc EXCEPT ![p] = "delete"] /\ listed' = [listed EXCEPT ![p] = visible]
           /\ UNCHANGED <<version, at>>
  <2>1. /\ pc'[p] = "delete" /\ listed'[p] = visible
        /\ \A q \in Replicas : q # p => pc'[q] = pc[q] /\ listed'[q] = listed[q]
    BY <1>3 DEF IInv, StartupOK
  <2>2. StartupOK'
    BY <1>1, <1>3, <2>1 DEF IInv, StartupOK, ServerOK, Starting, Current
  <2>3. ASSUME NEW i \in DOMAIN plan.versions[deployed], Handled(p, i)', ~ Handled(p, i)
        PROVE  AsAsked(plan.versions[deployed][i])
    <3>1. /\ version[p] = deployed /\ i = at[p]
          /\ ~ Scheduled(Current(p)) /\ Current(p).id \notin visible
      BY <1>1, <1>3, <2>1, <2>3 DEF Handled, Starting, Current
    <3>2. plan.versions[deployed][i] = Current(p)
      BY <3>1 DEF Current
    <3>3. Current(p).id \notin DOMAIN schedules
      <4>1. CASE ~ plan.stale
        BY <3>1, <4>1 DEF IInv, IndexInv
      <4>2. CASE plan.stale
        <5> SUFFICES ASSUME Current(p).id \in DOMAIN schedules
                     PROVE  FALSE
          OBVIOUS
        <5>1. PICK v \in 1 .. deployed : \E e \in Documents(v) :
                e.id = Current(p).id /\ Scheduled(e)
          BY DEF IInv, Origins
        <5>2. PICK e \in Documents(v) : e.id = Current(p).id /\ Scheduled(e)
          BY <5>1
        <5>3. Current(p) \in Documents(deployed)
          BY <3>2 DEF Documents, Range
        <5>4. /\ v \in DOMAIN plan.versions /\ deployed \in DOMAIN plan.versions
              /\ v < deployed \/ v = deployed
          <6>1. deployed \in Nat
            BY DEF IInv, StartupOK, RolloutAssumption
          <6> QED BY <6>1, VersionsOK DEF IInv, StartupOK
        <5>5. v # deployed
          <6>1. PICK j \in DOMAIN plan.versions[v] : e = plan.versions[v][j]
            BY <5>2 DEF Documents, Range
          <6> QED BY <3>1, <3>2, <5>2, <5>4, <6>1 DEF IInv, DistinctIDs
        <5> QED BY <3>1, <4>2, <5>2, <5>3, <5>4, <5>5 DEF IInv, RemovalsAreSeen
      <4> QED BY <4>1, <4>2
    <3> QED BY <3>1, <3>2, <3>3 DEF AsAsked
  <2>4. \A q \in Replicas, i \in DOMAIN plan.versions[deployed] :
          q # p /\ Handled(q, i)' => Handled(q, i)
    BY <1>1, <1>3, <2>1 DEF Handled, Current
  <2>5. LastHandles'
    BY <1>1, <2>3, <2>4 DEF IInv, LastHandles, AsAsked
  <2> QED BY <1>1, <2>2, <2>5, ServerKept DEF IInv
<1> QED
  BY <1>2, <1>3 DEF GetScheduleInfo, emission, telemetry

\* Replica p is through with its document, or goes on to create its schedule.
GetsOn(p) ==
  \/ Updated(p)
  \/ /\ Scheduled(Current(p)) /\ pc' = [pc EXCEPT ![p] = "create"]
     /\ UNCHANGED <<version, at>>

\* Then it has handled this document, and those that it had handled already.
LEMMA GetsOnOK ==
  ASSUME RolloutAssumption, IInv, NEW p \in Replicas, pc[p] \in Starting,
         GetsOn(p), UNCHANGED <<plan, deployed, listed>>
  PROVE  /\ StartupOK'
         /\ \A q \in Replicas, i \in DOMAIN plan.versions[deployed] :
              Handled(q, i)' =>
                \/ Handled(q, i)
                \/ /\ q = p /\ version[p] = deployed /\ i = at[p]
                   /\ plan.versions[deployed][i] = Current(p)
                   /\ Updated(p)
<1>1. /\ version[p] \in 1 .. deployed /\ at[p] \in Nat \ {0}
      /\ at[p] \in DOMAIN plan.versions[version[p]]
      /\ at[p] =< Len(plan.versions[version[p]])
  BY CurrentOK DEF IInv
<1>2. /\ version' = version
      /\ \A q \in Replicas : q # p => pc'[q] = pc[q] /\ at'[q] = at[q]
  BY DEF IInv, StartupOK, GetsOn, Updated
<1>3. \A q, i : q \in Replicas /\ q # p /\ Handled(q, i)' => Handled(q, i)
  BY <1>2 DEF Handled, Current
<1>4. CASE Updated(p) /\ at[p] < Len(plan.versions[version[p]])
  <2>1. pc'[p] = "list" /\ at'[p] = at[p] + 1 /\ at' = [at EXCEPT ![p] = @ + 1]
        /\ pc' = [pc EXCEPT ![p] = "list"]
    BY <1>4 DEF Updated, IInv, StartupOK
  <2>2. at[p] + 1 \in DOMAIN plan.versions[version[p]]
    BY <1>1, <1>4, VersionsOK DEF IInv
  <2>3. StartupOK'
    <3>1. /\ pc' \in [Replicas -> Starting \cup {"down", "build", "serve"}]
          /\ at' \in [Replicas -> Nat \ {0}]
      BY <1>1, <2>1 DEF IInv, StartupOK, Starting
    <3>2. \A q \in Replicas :
            pc'[q] \in Starting => at'[q] \in DOMAIN plan.versions[version[q]]
      BY <1>2, <2>1, <2>2 DEF IInv, StartupOK
    <3>3. \A q \in Replicas : pc'[q] = "create" => Scheduled(Current(q))'
      BY <1>2, <2>1 DEF IInv, StartupOK, Current
    <3> QED BY <1>2, <3>1, <3>2, <3>3 DEF IInv, StartupOK
  <2>4. ASSUME NEW i \in DOMAIN plan.versions[deployed], Handled(p, i)'
        PROVE  Handled(p, i) \/ (version[p] = deployed /\ i = at[p])
    <3>1. version[p] = deployed /\ i < at[p] + 1
      BY <1>2, <2>1, <2>4 DEF Handled, Starting
    <3>2. i \in Nat
      BY <1>1, <3>1, VersionsOK DEF IInv
    <3> QED BY <1>1, <3>1, <3>2 DEF Handled
  <2> QED BY <1>3, <1>4, <2>3, <2>4 DEF Current
<1>5. CASE Updated(p) /\ ~ (at[p] < Len(plan.versions[version[p]]))
  <2>1. pc'[p] = "build" /\ at' = at /\ pc' = [pc EXCEPT ![p] = "build"]
    BY <1>5 DEF Updated, IInv, StartupOK
  <2>2. StartupOK'
    BY <1>1, <1>2, <2>1 DEF IInv, StartupOK, Starting, Current
  <2>3. ASSUME NEW i \in DOMAIN plan.versions[deployed], Handled(p, i)'
        PROVE  Handled(p, i) \/ (version[p] = deployed /\ i = at[p])
    <3>1. version[p] = deployed
      BY <1>2, <2>3 DEF Handled
    <3>2. i \in Nat /\ i =< Len(plan.versions[version[p]])
      BY <1>1, <3>1, VersionsOK DEF IInv
    <3>3. Len(plan.versions[version[p]]) \in Nat
      BY <1>1, VersionsOK DEF IInv
    <3> QED BY <1>1, <1>5, <3>1, <3>2, <3>3 DEF Handled
  <2> QED BY <1>3, <1>5, <2>2, <2>3 DEF Current
<1>6. CASE /\ Scheduled(Current(p)) /\ pc' = [pc EXCEPT ![p] = "create"]
           /\ UNCHANGED <<version, at>>
  <2>1. pc'[p] = "create"
    BY <1>6 DEF IInv, StartupOK
  <2>2. StartupOK'
    BY <1>1, <1>2, <1>6, <2>1 DEF IInv, StartupOK, Starting, Current
  <2>3. \A i : Handled(p, i)' => Handled(p, i)
    BY <1>6, <2>1 DEF Handled, Starting
  <2> QED BY <1>3, <2>2, <2>3
<1> QED
  BY <1>4, <1>5, <1>6 DEF GetsOn

\* Replica p deletes or creates the schedule of its document, and no other.
TouchesOwn(p) ==
  /\ \A id \in STRING : id # Current(p).id =>
       /\ id \in DOMAIN schedules' <=> id \in DOMAIN schedules
       /\ id \in DOMAIN schedules => schedules'[id] = schedules[id]
  /\ visible' = IF plan.stale THEN visible ELSE DOMAIN schedules'
  /\ DOMAIN schedules' \subseteq STRING
  /\ schedules' \in [DOMAIN schedules' -> Definition]

LEMMA TouchesOwnOK ==
  ASSUME RolloutAssumption, IInv, NEW p \in Replicas, pc[p] \in Starting,
         TouchesOwn(p), UNCHANGED <<plan, deployed>>,
         Current(p).id \in DOMAIN schedules' => Scheduled(Current(p))
  PROVE  /\ ServerOK' /\ IndexInv' /\ Origins' /\ DistinctIDs' /\ RemovalsAreSeen'
         /\ \A i \in DOMAIN plan.versions[deployed] :
              \/ plan.versions[deployed][i].id = Current(p).id
              \/ AsAsked(plan.versions[deployed][i])
                   => AsAsked(plan.versions[deployed][i])'
<1>1. /\ version[p] \in 1 .. deployed /\ Current(p) \in Documents(version[p])
      /\ Current(p).id \in STRING
  BY CurrentOK DEF IInv, Current, Documents, Range
<1>2. ServerOK' /\ IndexInv'
  BY DEF IInv, ServerOK, IndexInv, TouchesOwn, StartupOK, RolloutAssumption
<1>3. Origins'
  <2> SUFFICES ASSUME NEW id \in DOMAIN schedules'
               PROVE  \E v \in 1 .. deployed : \E d \in Documents(v) :
                        d.id = id /\ Scheduled(d)
    BY DEF Origins, Documents
  <2>1. CASE id = Current(p).id
    BY <1>1, <2>1
  <2>2. CASE id # Current(p).id
    <3>1. id \in DOMAIN schedules
      BY <2>2 DEF TouchesOwn
    <3> QED BY <3>1 DEF IInv, Origins
  <2> QED BY <2>1, <2>2
<1>4. ASSUME NEW i \in DOMAIN plan.versions[deployed],
             plan.versions[deployed][i].id # Current(p).id,
             AsAsked(plan.versions[deployed][i])
      PROVE  AsAsked(plan.versions[deployed][i])'
  <2> DEFINE d == plan.versions[deployed][i]
  <2>1. d \in Definition /\ d.id \in STRING
    <3>1. deployed \in 1 .. deployed
      BY DEF IInv, StartupOK, RolloutAssumption
    <3> QED BY <3>1, VersionsOK DEF IInv, Definition
  <2> QED BY <1>4, <2>1 DEF TouchesOwn, AsAsked
<1>5. DistinctIDs' /\ RemovalsAreSeen'
  BY DEF IInv, DistinctIDs, RemovalsAreSeen, Documents
<1> QED
  BY <1>2, <1>3, <1>4, <1>5

LeavesAsAsked(p) ==
  IF Scheduled(Current(p))
  THEN Current(p).id \in DOMAIN schedules' /\ schedules'[Current(p).id] = Current(p)
  ELSE Current(p).id \notin DOMAIN schedules'

\* A replica that touches a schedule and is through with it leaves it as asked.
LEMMA TouchInv ==
  ASSUME RolloutAssumption, IInv, NEW p \in Replicas, pc[p] \in Starting,
         TouchesOwn(p), UNCHANGED <<plan, deployed, listed>>,
         Current(p).id \in DOMAIN schedules' => Scheduled(Current(p)),
         ~ Handled(p, at[p]),
         Downs(p) \/ (GetsOn(p) /\ (Updated(p) => LeavesAsAsked(p)))
  PROVE  IInv'
<1>1. ServerOK' /\ IndexInv' /\ Origins' /\ DistinctIDs' /\ RemovalsAreSeen'
  BY TouchesOwnOK
<1>2. CASE Downs(p)
  <2>1. StartupOK' /\ \A i : ~ Handled(p, i)'
    BY <1>2, DownOK
  <2> QED BY <1>1, <2>1 DEF IInv, LastHandles
<1>3. CASE GetsOn(p) /\ (Updated(p) => LeavesAsAsked(p))
  <2>1. StartupOK'
    BY <1>3, GetsOnOK
  <2>2. ASSUME NEW i \in DOMAIN plan.versions[deployed],
               \A q \in Replicas : Handled(q, i)'
        PROVE  AsAsked(plan.versions[deployed][i])'
    <3>1. version[p] = deployed
      BY <1>3, <2>2 DEF Handled, GetsOn, Updated
    <3>2. CASE i = at[p]
      <4>1. plan.versions[deployed][i] = Current(p) /\ Updated(p)
        BY <1>3, <2>2, <3>2, GetsOnOK
      <4> QED BY <1>3, <4>1 DEF LeavesAsAsked, AsAsked
    <3>3. CASE i # at[p]
      <4>1. \A q \in Replicas : Handled(q, i)
        BY <1>3, <2>2, <3>3, GetsOnOK
      <4>2. AsAsked(plan.versions[deployed][i])
        BY <4>1 DEF IInv, LastHandles
      <4>3. plan.versions[deployed][i].id # Current(p).id
        BY <3>1, <3>3, CurrentOK DEF IInv, DistinctIDs, Current
      <4> QED BY <4>2, <4>3, TouchesOwnOK
    <3> QED BY <3>2, <3>3
  <2>3. LastHandles'
    BY <2>2 DEF LastHandles
  <2> QED BY <1>1, <2>1, <2>3 DEF IInv
<1> QED
  BY <1>2, <1>3

LEMMA DeleteInv ==
  ASSUME RolloutAssumption, IInv, NEW p \in Replicas, DeleteOldSchedules(p)
  PROVE  IInv'
<1>1. /\ pc[p] = "delete" /\ pc[p] \in Starting /\ UNCHANGED <<plan, deployed, listed>>
      /\ OldSchedules(p) = {} \/ OldSchedules(p) = {Current(p).id}
      /\ OldSchedules(p) = {} <=> Current(p).id \notin listed[p]
      /\ Current(p).id \in STRING
  BY CurrentOK DEF DeleteOldSchedules, Starting, OldSchedules, IInv
<1>2. ASSUME AfterDelete(p)
      PROVE  \/ Downs(p)
             \/ GetsOn(p) /\ (Updated(p) => ~ Scheduled(Current(p)))
  <2>1. CASE ~ Scheduled(Current(p))
    BY <1>2, <2>1 DEF AfterDelete, GetsOn
  <2>2. CASE Scheduled(Current(p)) /\ Fail(p)
    BY <2>2 DEF Fail, Downs
  <2>3. CASE /\ Scheduled(Current(p)) /\ pc' = [pc EXCEPT ![p] = "create"]
             /\ UNCHANGED <<version, at>>
    <3>1. ~ Updated(p)
      BY <1>1, <2>3 DEF Updated, IInv, StartupOK
    <3> QED BY <2>3, <3>1 DEF GetsOn
  <2> QED BY <1>2, <2>1, <2>2, <2>3 DEF AfterDelete
<1>3. CASE OldSchedules(p) = {} /\ AfterDelete(p) /\ UNCHANGED server
  <2>1. UNCHANGED <<schedules, visible>>
    BY <1>3 DEF server
  <2>2. CASE Downs(p)
    BY <1>1, <2>1, <2>2, DownInv
  <2>3. CASE GetsOn(p) /\ (Updated(p) => ~ Scheduled(Current(p)))
    <3>1. StartupOK'
      BY <1>1, <2>3, GetsOnOK
    <3>2. \A q \in Replicas, i \in DOMAIN plan.versions[deployed] :
            Handled(q, i)' => Handled(q, i)
      BY <1>1, <1>3, <2>3, GetsOnOK DEF Handled
    <3>3. LastHandles'
      BY <1>1, <2>1, <3>2, NobodyHandles DEF IInv
    <3> QED BY <1>1, <2>1, <3>1, <3>3, ServerKept DEF IInv
  <2> QED BY <1>2, <1>3, <2>2, <2>3
<1>4. CASE Fail(p) /\ UNCHANGED server
  BY <1>1, <1>4, DownInv DEF Fail, Downs, server
<1>5. CASE /\ OldSchedules(p) # {} /\ Unschedule(OldSchedules(p)) /\ AfterDelete(p)
  <2>1. schedules' = [i \in DOMAIN schedules \ {Current(p).id} |-> schedules[i]]
    BY <1>1, <1>5 DEF Unschedule
  <2>2. Current(p).id \notin DOMAIN schedules' /\ TouchesOwn(p)
    BY <2>1, <1>5 DEF TouchesOwn, Unschedule, Indexed, IInv, ServerOK
  <2>3. ~ Handled(p, at[p])
    <3>1. at[p] \in Nat
      BY <1>1, CurrentOK DEF IInv
    <3> QED BY <1>1, <1>5, <3>1 DEF Handled
  <2>4. Downs(p) \/ (GetsOn(p) /\ (Updated(p) => LeavesAsAsked(p)))
    BY <1>2, <1>5, <2>2 DEF LeavesAsAsked
  <2> QED BY <1>1, <2>2, <2>3, <2>4, TouchInv
<1> QED
  BY <1>3, <1>4, <1>5 DEF DeleteOldSchedules

LEMMA CreateInv ==
  ASSUME RolloutAssumption, IInv, NEW p \in Replicas, Create(p)
  PROVE  IInv'
<1>1. /\ pc[p] = "create" /\ pc[p] \in Starting /\ UNCHANGED <<plan, deployed, listed>>
      /\ Scheduled(Current(p)) /\ Current(p) \in Definition /\ Current(p).id \in STRING
  BY CurrentOK DEF Create, Starting, IInv, StartupOK
<1>2. CASE Fail(p) /\ UNCHANGED server
  BY <1>1, <1>2, DownInv DEF Fail, Downs, server
<1>3. CASE ~ CreateFails(p) /\ Updated(p)
  <2>1. /\ Current(p).id \notin DOMAIN schedules
        /\ schedules' = [i \in DOMAIN schedules \cup {Current(p).id} |->
                           IF i \in DOMAIN schedules THEN schedules[i] ELSE Current(p)]
        /\ Indexed(DOMAIN schedules')
    BY <1>1, <1>3, CurrentOK DEF Create, CreateFails
  <2>2. TouchesOwn(p) /\ LeavesAsAsked(p)
    BY <1>1, <2>1 DEF TouchesOwn, LeavesAsAsked, Indexed, IInv, ServerOK
  <2>3. ~ Handled(p, at[p])
    <3>1. at[p] \in Nat
      BY <1>1, CurrentOK DEF IInv
    <3> QED BY <1>1, <3>1 DEF Handled
  <2> QED BY <1>1, <1>3, <2>2, <2>3, TouchInv DEF GetsOn
<1> QED
  BY <1>2, <1>3 DEF Create

LEMMA NextInv ==
  ASSUME RolloutAssumption, IInv, [Next]_vars
  PROVE  IInv'
<1>1. CASE Index
  <2>1. /\ visible' = DOMAIN schedules
        /\ UNCHANGED <<plan, deployed, schedules, pc, version, at, listed>>
    BY <1>1 DEF Index, starting
  <2>2. StartupOK' /\ LastHandles'
    BY <2>1 DEF IInv, StartupOK, LastHandles, Handled, AsAsked, Current
  <2> QED BY <2>1, <2>2, ServerKept DEF IInv
<1>2. CASE Deploy
  <2>1. /\ deployed < Len(plan.versions) /\ deployed' = deployed + 1
        /\ UNCHANGED <<plan, schedules, visible, pc, version, at, listed>>
    BY <1>2 DEF Deploy, starting, server
  <2>2. /\ plan.versions \in Seq(Seq(Definition) \ {<<>>})
        /\ deployed \in Nat \ {0} /\ deployed' \in DOMAIN plan.versions
    BY <2>1 DEF IInv, StartupOK, RolloutAssumption
  <2>3. \A p \in Replicas : version[p] # deployed' /\ version[p] \in 1 .. deployed'
    BY <2>1, <2>2 DEF IInv, StartupOK
  <2>4. StartupOK'
    BY <2>1, <2>2, <2>3 DEF IInv, StartupOK, Current
  <2>5. LastHandles'
    BY <2>1, <2>3, RolloutAssumption DEF LastHandles, Handled, RolloutAssumption
  <2>6. Origins'
    BY <2>1, <2>2 DEF IInv, Origins, Documents
  <2>7. ServerOK' /\ IndexInv' /\ DistinctIDs' /\ RemovalsAreSeen'
    BY <2>1 DEF IInv, ServerOK, IndexInv, DistinctIDs, RemovalsAreSeen, Documents
  <2> QED BY <2>4, <2>5, <2>6, <2>7 DEF IInv
<1>3. ASSUME NEW p \in Replicas, StartWorkers(p) \/ Stop(p) \/ Crash(p)
      PROVE  IInv'
  <2>1. UNCHANGED <<plan, deployed, schedules, visible, listed>>
    BY <1>3 DEF StartWorkers, Stop, Crash, server
  <2>2. CASE Downs(p)
    BY <2>1, <2>2, DownInv
  <2>3. CASE /\ pc[p] = "build" /\ pc' = [pc EXCEPT ![p] = "serve"]
             /\ UNCHANGED <<version, at>>
    <3>1. pc'[p] = "serve" /\ \A q \in Replicas : q # p => pc'[q] = pc[q]
      BY <2>3 DEF IInv, StartupOK
    <3>2. StartupOK'
      BY <2>1, <2>3, <3>1 DEF IInv, StartupOK, Starting, Current
    <3>3. \A q \in Replicas : \A i : Handled(q, i)' => Handled(q, i)
      BY <2>1, <2>3, <3>1 DEF Handled, Current, Starting
    <3>4. LastHandles'
      BY <2>1, <3>3, NobodyHandles DEF IInv
    <3> QED BY <2>1, <3>2, <3>4, ServerKept DEF IInv
  <2> QED BY <1>3, <2>2, <2>3 DEF StartWorkers, Stop, Crash, Fail, Downs
<1>4. CASE UNCHANGED <<plan, deployed, server, starting>>
  <2>1. UNCHANGED <<plan, deployed, schedules, visible, pc, version, at, listed>>
    BY <1>4 DEF server, starting
  <2>2. StartupOK' /\ LastHandles'
    BY <2>1 DEF IInv, StartupOK, LastHandles, Handled, AsAsked, Current
  <2> QED BY <2>1, <2>2, ServerKept DEF IInv
<1>5. CASE Trigger \/ \E p \in Replicas : Work(p) \/ Evict(p) \/ Heartbeat(p)
  BY <1>4, <1>5 DEF Trigger, Work, ExecuteTask, Send, CompleteTask, Evict, Heartbeat
<1>6. CASE UNCHANGED vars
  BY <1>4, <1>6 DEF vars
<1> QED
  BY <1>1, <1>2, <1>3, <1>5, <1>6, StartInv, ListInv, DeleteInv, CreateInv
  DEF Next, Startup

\* Whenever every replica serves the deployed version, each of its documents has
\* the schedule that it asks for and no other version's, whichever replicas
\* started, failed and crashed in between and in whatever order they deleted and
\* created. It is assumed that the documents of a version do not share an ID,
\* and that a version which takes a schedule away sees it in the list.
THEOREM LeavesItsSchedules ==
  Spec /\ DistinctIDs /\ RemovalsAreSeen => []ServedIsScheduled
<1>1. RolloutAssumption /\ Init /\ DistinctIDs /\ RemovalsAreSeen => IInv
  <2> SUFFICES ASSUME RolloutAssumption, Init, DistinctIDs, RemovalsAreSeen
               PROVE  IInv
    OBVIOUS
  <2>1. DOMAIN schedules = {} /\ visible = {}
    BY DEF Init
  <2>2. plan.versions \in Seq(Seq(Definition) \ {<<>>}) \ {<<>>}
    BY DEF Init, RolloutAssumption
  <2>3. 1 \in DOMAIN plan.versions
    BY <2>2
  <2>4. StartupOK
    BY <2>3 DEF Init, StartupOK, Starting
  <2>5. ServerOK /\ IndexInv /\ Origins
    BY <2>1 DEF Init, ServerOK, IndexInv, Origins
  <2>6. LastHandles
    BY DEF Init, LastHandles, Handled, Starting, RolloutAssumption
  <2> QED BY <2>4, <2>5, <2>6 DEF IInv
<1>2. RolloutAssumption /\ IInv /\ [Next]_vars => IInv'
  BY NextInv
<1>3. IInv => ServedIsScheduled
  <2> SUFFICES ASSUME IInv, \A p \in Replicas : pc[p] = "serve" /\ version[p] = deployed
               PROVE  AsDeployed
    BY DEF ServedIsScheduled
  <2>1. \A i \in DOMAIN plan.versions[deployed] : AsAsked(plan.versions[deployed][i])
    BY DEF IInv, LastHandles, Handled
  <2> QED BY <2>1 DEF AsDeployed, AsAsked, Documents, Range
<1> QED
  BY <1>1, <1>2, <1>3, RolloutAssumption, PTL DEF Spec
=============================================================================
