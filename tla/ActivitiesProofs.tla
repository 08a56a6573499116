------------------------- MODULE ActivitiesProofs -------------------------
(***************************************************************************)
(* Proofs about Activities, for any tasks, any number of attempts and any  *)
(* number of faults.                                                       *)
(***************************************************************************)
EXTENDS Activities, TLAPS

\* What an attempt reports as its output is what it has read from its own pod.
ReadsOwn == \A a \in Attempts : report[a] = "ok" => read[a] = a

\* A Job has one pod.
OnePod ==
  /\ \A i \in DOMAIN pods : pc[pods[i]] \notin {"none", "preparing"}
  /\ \A i, j \in DOMAIN pods : pods[i] = pods[j] => i = j

\* Where a box can be, by kind, and that one with a code has ended.
Boxes ==
  \A a \in Attempts :
    /\ pc[a] \in {"none", "preparing"} => box[a] = "none"
    /\ code[a] # None => box[a] \in {"exited", "deleting", "removed"}
    /\ box[a] = "exited" => task.kind = "kubernetes" \/ (task.kind = "docker" /\ task.keeps)
    /\ box[a] = "deleting" => task.kind = "kubernetes"

\* What an attempt has still to clean up, and that it has done so by its end.
Leftovers ==
  \A a \in Attempts :
    /\ pc[a] = "reading" => task.kind = "kubernetes"
    /\ pc[a] = "cleaning" => task.kind \in {"kubernetes", "script"}
    /\ pc[a] = "cleaning" /\ task.kind = "script" => box[a] \in {"none", "removed"}
    /\ a \in files => /\ task.kind = "script"
                      /\ pc[a] \in {"preparing", "executing", "cleaning"} \/ cut[a] = "crashed"
    /\ pc[a] \in {"reporting", "gone"} /\ cut[a] \in {"no", "abandoned"}
         => box[a] \in {"none", "deleting", "removed"} \/ task.keeps

\* Temporal only goes on to the next attempt when this one is gone or cut short.
Superseded ==
  \A b \in Attempts :
    b < cur \/ (b = cur /\ server = "scheduled") => pc[b] = "gone" \/ cut[b] # "no"

\* Only a Job can be lost or left by a cluster that fails, and only a container
\* is refused its name.
Excuses ==
  /\ \A a \in Attempts : cut[a] \in {"unsure", "undeleted"} => task.kind = "kubernetes"
  /\ conflicts # {} => task.kind = "docker"

IInv ==
  /\ TypeOK /\ OutputIsOwn /\ NameIsFreed
  /\ ReadsOwn /\ OnePod /\ Boxes /\ Leftovers /\ Superseded /\ Excuses

USE ActivitiesAssumption

LEMMA InitIInv == Init => IInv
  BY DEF Init, IInv, TypeOK, OutputIsOwn, NameIsFreed, ReadsOwn, OnePod, Boxes, Leftovers,
         Superseded, Excuses, Attempts, Cuts, None, Succeeded, Failed

LEMMA InputsFailIInv ==
  ASSUME IInv, InputsFail
  PROVE  IInv'
<1>1. TypeOK'
  BY DEF IInv, InputsFail, TypeOK, Attempts, Cuts, given, outside
<1>2. OutputIsOwn' /\ ReadsOwn'
  BY <1>1 DEF IInv, InputsFail, TypeOK, OutputIsOwn, ReadsOwn, given, outside
<1>3. OnePod'
  BY <1>1 DEF IInv, InputsFail, TypeOK, OnePod, given, outside
<1>4. Boxes'
  BY <1>1 DEF IInv, InputsFail, TypeOK, Boxes, given, outside
<1>5. Leftovers'
  BY <1>1 DEF IInv, InputsFail, TypeOK, Boxes, Leftovers, given, outside
<1>6. Superseded'
  BY <1>1 DEF IInv, InputsFail, TypeOK, Superseded, Attempts, given, outside
<1>7. Excuses' /\ NameIsFreed'
  BY <1>1 DEF IInv, InputsFail, TypeOK, Excuses, NameIsFreed, given, outside
<1> QED
  BY <1>1, <1>2, <1>3, <1>4, <1>5, <1>6, <1>7 DEF IInv

LEMMA StartAttemptIInv ==
  ASSUME IInv, StartAttempt
  PROVE  IInv'
<1>1. TypeOK'
  BY DEF IInv, StartAttempt, TypeOK, Attempts, Cuts, given, outside
<1>2. OutputIsOwn' /\ ReadsOwn'
  BY <1>1 DEF IInv, StartAttempt, TypeOK, OutputIsOwn, ReadsOwn, given, outside
<1>3. OnePod'
  BY <1>1 DEF IInv, StartAttempt, TypeOK, OnePod, given, outside
<1>4. Boxes'
  BY <1>1 DEF IInv, StartAttempt, TypeOK, Boxes, given, outside
<1>5. Leftovers'
  BY <1>1 DEF IInv, StartAttempt, TypeOK, Boxes, Leftovers, given, outside
<1>6. Superseded'
  BY <1>1 DEF IInv, StartAttempt, TypeOK, Superseded, Attempts, given, outside
<1>7. Excuses' /\ NameIsFreed'
  BY <1>1 DEF IInv, StartAttempt, TypeOK, Excuses, NameIsFreed, Attempts, given, outside
<1> QED
  BY <1>1, <1>2, <1>3, <1>4, <1>5, <1>6, <1>7 DEF IInv

LEMMA AttemptTimesOutIInv ==
  ASSUME IInv, AttemptTimesOut
  PROVE  IInv'
<1>1. TypeOK'
  BY DEF IInv, AttemptTimesOut, Settle, TypeOK, Attempts, Cuts, given, outside
<1>2. OutputIsOwn' /\ ReadsOwn'
  BY <1>1 DEF IInv, AttemptTimesOut, Settle, TypeOK, OutputIsOwn, ReadsOwn, given, outside
<1>3. OnePod'
  BY <1>1 DEF IInv, AttemptTimesOut, Settle, TypeOK, OnePod, given, outside
<1>4. Boxes'
  BY <1>1 DEF IInv, AttemptTimesOut, Settle, TypeOK, Boxes, given, outside
<1>5. Leftovers'
  BY <1>1 DEF IInv, AttemptTimesOut, Settle, TypeOK, Boxes, Leftovers, given, outside
<1>6. Superseded'
  BY <1>1 DEF IInv, AttemptTimesOut, Settle, TypeOK, Superseded, Attempts, given, outside
<1>7. Excuses' /\ NameIsFreed'
  BY <1>1 DEF IInv, AttemptTimesOut, Settle, TypeOK, Excuses, NameIsFreed, given, outside
<1> QED
  BY <1>1, <1>2, <1>3, <1>4, <1>5, <1>6, <1>7 DEF IInv

LEMMA CancelIInv ==
  ASSUME IInv, Cancel
  PROVE  IInv'
<1>1. TypeOK'
  BY DEF IInv, Cancel, TypeOK, Attempts, Cuts, given, outside
<1>2. OutputIsOwn' /\ ReadsOwn'
  BY <1>1 DEF IInv, Cancel, TypeOK, OutputIsOwn, ReadsOwn, given, outside
<1>3. OnePod'
  BY <1>1 DEF IInv, Cancel, TypeOK, OnePod, given, outside
<1>4. Boxes'
  BY <1>1 DEF IInv, Cancel, TypeOK, Boxes, given, outside
<1>5. Leftovers'
  BY <1>1 DEF IInv, Cancel, TypeOK, Boxes, Leftovers, given, outside
<1>6. Superseded'
  BY <1>1 DEF IInv, Cancel, TypeOK, Superseded, Attempts, given, outside
<1>7. Excuses' /\ NameIsFreed'
  BY <1>1 DEF IInv, Cancel, TypeOK, Excuses, NameIsFreed, given, outside
<1> QED
  BY <1>1, <1>2, <1>3, <1>4, <1>5, <1>6, <1>7 DEF IInv

LEMMA ContextEndsIInv ==
  ASSUME IInv, NEW a \in Attempts, ContextEnds(a)
  PROVE  IInv'
<1>1. TypeOK'
  BY DEF IInv, ContextEnds, Live, TypeOK, Attempts, Cuts, given, outside
<1>2. OutputIsOwn' /\ ReadsOwn'
  BY <1>1 DEF IInv, ContextEnds, Live, TypeOK, OutputIsOwn, ReadsOwn, given, outside
<1>3. OnePod'
  BY <1>1 DEF IInv, ContextEnds, Live, TypeOK, OnePod, given, outside
<1>4. Boxes'
  BY <1>1 DEF IInv, ContextEnds, Live, TypeOK, Boxes, given, outside
<1>5. Leftovers'
  BY <1>1 DEF IInv, ContextEnds, Live, TypeOK, Boxes, Leftovers, given, outside
<1>6. Superseded'
  BY <1>1 DEF IInv, ContextEnds, Live, TypeOK, Superseded, Attempts, given, outside
<1>7. Excuses' /\ NameIsFreed'
  BY <1>1 DEF IInv, ContextEnds, Live, TypeOK, Excuses, NameIsFreed, given, outside
<1> QED
  BY <1>1, <1>2, <1>3, <1>4, <1>5, <1>6, <1>7 DEF IInv

LEMMA PrepareFailsIInv ==
  ASSUME IInv, NEW a \in Attempts, PrepareFails(a)
  PROVE  IInv'
<1>1. TypeOK'
  BY DEF IInv, PrepareFails, Returns, PrepareErrors, TypeOK, Attempts, Cuts, given, outside
<1>2. OutputIsOwn' /\ ReadsOwn'
  BY <1>1 DEF IInv, PrepareFails, Returns, PrepareErrors, TypeOK, OutputIsOwn, ReadsOwn, given, outside
<1>3. OnePod'
  BY <1>1 DEF IInv, PrepareFails, Returns, PrepareErrors, TypeOK, OnePod, given, outside
<1>4. Boxes'
  BY <1>1 DEF IInv, PrepareFails, Returns, PrepareErrors, TypeOK, Boxes, given, outside
<1>5. Leftovers'
  BY <1>1 DEF IInv, PrepareFails, Returns, PrepareErrors, TypeOK, Boxes, Leftovers, given, outside
<1>6. Superseded'
  BY <1>1 DEF IInv, PrepareFails, Returns, PrepareErrors, TypeOK, Superseded, Attempts, given, outside
<1>7. Excuses' /\ NameIsFreed'
  BY <1>1 DEF IInv, PrepareFails, Returns, PrepareErrors, TypeOK, Excuses, NameIsFreed, given, outside
<1> QED
  BY <1>1, <1>2, <1>3, <1>4, <1>5, <1>6, <1>7 DEF IInv

LEMMA LaunchIInv ==
  ASSUME IInv, NEW a \in Attempts, Launch(a)
  PROVE  IInv'
<1>0. Append(pods, a) \in Seq(Attempts)
  BY DEF IInv, TypeOK
<1>1. TypeOK'
  BY <1>0 DEF IInv, Launch, NameTaken, TypeOK, Attempts, Cuts, given, outside
<1>2. OutputIsOwn' /\ ReadsOwn'
  BY <1>1 DEF IInv, Launch, NameTaken, TypeOK, OutputIsOwn, ReadsOwn, given, outside
<1>3. OnePod'
  BY <1>1 DEF IInv, Launch, NameTaken, TypeOK, OnePod, given, outside
<1>4. Boxes'
  BY <1>1 DEF IInv, Launch, NameTaken, TypeOK, Boxes, given, outside
<1>5. Leftovers'
  BY <1>1 DEF IInv, Launch, NameTaken, TypeOK, Boxes, Leftovers, given, outside
<1>6. Superseded'
  BY <1>1 DEF IInv, Launch, NameTaken, TypeOK, Superseded, Attempts, given, outside
<1>7. Excuses' /\ NameIsFreed'
  BY <1>1 DEF IInv, Launch, NameTaken, TypeOK, Excuses, NameIsFreed, given, outside
<1> QED
  BY <1>1, <1>2, <1>3, <1>4, <1>5, <1>6, <1>7 DEF IInv

LEMMA LaunchRefusedIInv ==
  ASSUME IInv, NEW a \in Attempts, LaunchRefused(a)
  PROVE  IInv'
<1>1. TypeOK'
  BY DEF IInv, LaunchRefused, Returns, NameTaken, TypeOK, Attempts, Cuts, given, outside
<1>2. OutputIsOwn' /\ ReadsOwn'
  BY <1>1 DEF IInv, LaunchRefused, Returns, NameTaken, TypeOK, OutputIsOwn, ReadsOwn, given, outside
<1>3. OnePod'
  BY <1>1 DEF IInv, LaunchRefused, Returns, NameTaken, TypeOK, OnePod, given, outside
<1>4. Boxes'
  BY <1>1 DEF IInv, LaunchRefused, Returns, NameTaken, TypeOK, Boxes, given, outside
<1>5. Leftovers'
  BY <1>1 DEF IInv, LaunchRefused, Returns, NameTaken, TypeOK, Boxes, Leftovers, given, outside
<1>6. Superseded'
  BY <1>1 DEF IInv, LaunchRefused, Returns, NameTaken, TypeOK, Superseded, Attempts, given, outside
<1>7. Excuses'
  BY DEF IInv, LaunchRefused, Returns, NameTaken, Excuses, given, outside
<1>8. NameIsFreed'
  <2>1. CASE a \in expired \/ task.keeps
    BY <2>1 DEF IInv, LaunchRefused, Returns, NameIsFreed, given, outside
  <2>2. CASE a \notin expired /\ ~task.keeps
    <3>1. PICK b \in Attempts : box[b] = "running" /\ task.kind = "docker"
      BY <2>2 DEF IInv, Boxes, LaunchRefused, NameTaken
    <3>2. a # b /\ a <= cur /\ b <= cur /\ cur \in Nat
      BY <3>1 DEF IInv, TypeOK, Boxes, LaunchRefused, Attempts
    <3>3. \A c \in Attempts : cut[c] \in {"no", "crashed", "killed", "abandoned"}
      BY <3>1 DEF IInv, TypeOK, Excuses, Cuts
    <3>4. CASE b < cur
      <4>1. cut[b] # "no"
        BY <2>2, <3>1, <3>4 DEF IInv, Superseded, Leftovers
      <4> QED
        BY <3>3, <3>4, <4>1 DEF LaunchRefused, NameIsFreed, given
    <3>5. CASE a < cur
      <4>1. cut[a] # "no"
        BY <3>5 DEF IInv, Superseded, LaunchRefused
      <4> QED
        BY <3>3, <3>5, <4>1 DEF LaunchRefused, NameIsFreed, given
    <3> QED
      BY <3>2, <3>4, <3>5 DEF Attempts
  <2> QED
    BY <2>1, <2>2
<1> QED
  BY <1>1, <1>2, <1>3, <1>4, <1>5, <1>6, <1>7, <1>8 DEF IInv

LEMMA LaunchUnsureIInv ==
  ASSUME IInv, NEW a \in Attempts, LaunchUnsure(a)
  PROVE  IInv'
<1>0. Append(pods, a) \in Seq(Attempts)
  BY DEF IInv, TypeOK
<1>1. TypeOK'
  BY <1>0 DEF IInv, LaunchUnsure, Returns, TypeOK, Attempts, Cuts, given, outside
<1>2. OutputIsOwn' /\ ReadsOwn'
  BY <1>1 DEF IInv, LaunchUnsure, Returns, TypeOK, OutputIsOwn, ReadsOwn, given, outside
<1>3. OnePod'
  BY <1>1 DEF IInv, LaunchUnsure, Returns, TypeOK, OnePod, given, outside
<1>4. Boxes'
  BY <1>1 DEF IInv, LaunchUnsure, Returns, TypeOK, Boxes, given, outside
<1>5. Leftovers'
  BY <1>1 DEF IInv, LaunchUnsure, Returns, TypeOK, Boxes, Leftovers, given, outside
<1>6. Superseded'
  BY <1>1 DEF IInv, LaunchUnsure, Returns, TypeOK, Superseded, Attempts, given, outside
<1>7. Excuses' /\ NameIsFreed'
  BY <1>1 DEF IInv, LaunchUnsure, Returns, TypeOK, Excuses, NameIsFreed, given, outside
<1> QED
  BY <1>1, <1>2, <1>3, <1>4, <1>5, <1>6, <1>7 DEF IInv

LEMMA ObservesIInv ==
  ASSUME IInv, NEW a \in Attempts, Observes(a)
  PROVE  IInv'
<1>1. TypeOK'
  BY DEF IInv, Observes, Returns, Outcome, ClassifyHTTPStatus, Deferred, TypeOK, Attempts, Cuts, given, outside
<1>2. OutputIsOwn' /\ ReadsOwn'
  BY <1>1 DEF IInv, Observes, Returns, Outcome, ClassifyHTTPStatus, Deferred, TypeOK, OutputIsOwn, ReadsOwn, given, outside
<1>3. OnePod'
  BY <1>1 DEF IInv, Observes, Returns, Outcome, ClassifyHTTPStatus, Deferred, TypeOK, OnePod, given, outside
<1>4. Boxes'
  BY <1>1 DEF IInv, Observes, Returns, Outcome, ClassifyHTTPStatus, Deferred, TypeOK, Boxes, given, outside
<1>5. Leftovers'
  BY <1>1 DEF IInv, Observes, Returns, Outcome, ClassifyHTTPStatus, Deferred, TypeOK, Boxes, Leftovers, given, outside
<1>6. Superseded'
  BY <1>1 DEF IInv, Observes, Returns, Outcome, ClassifyHTTPStatus, Deferred, TypeOK, Superseded, Attempts, given, outside
<1>7. Excuses' /\ NameIsFreed'
  BY <1>1 DEF IInv, Observes, Returns, Outcome, ClassifyHTTPStatus, Deferred, TypeOK, Excuses, NameIsFreed, given, outside
<1> QED
  BY <1>1, <1>2, <1>3, <1>4, <1>5, <1>6, <1>7 DEF IInv

LEMMA InterruptedIInv ==
  ASSUME IInv, NEW a \in Attempts, Interrupted(a)
  PROVE  IInv'
<1>1. TypeOK'
  BY DEF IInv, Interrupted, Returns, Deferred, TypeOK, Attempts, Cuts, given, outside
<1>2. OutputIsOwn' /\ ReadsOwn'
  BY <1>1 DEF IInv, Interrupted, Returns, Deferred, TypeOK, OutputIsOwn, ReadsOwn, given, outside
<1>3. OnePod'
  BY <1>1 DEF IInv, Interrupted, Returns, Deferred, TypeOK, OnePod, given, outside
<1>4. Boxes'
  BY <1>1 DEF IInv, Interrupted, Returns, Deferred, TypeOK, Boxes, given, outside
<1>5. Leftovers'
  BY <1>1 DEF IInv, Interrupted, Returns, Deferred, TypeOK, Boxes, Leftovers, given, outside
<1>6. Superseded'
  BY <1>1 DEF IInv, Interrupted, Returns, Deferred, TypeOK, Superseded, Attempts, given, outside
<1>7. Excuses' /\ NameIsFreed'
  BY <1>1 DEF IInv, Interrupted, Returns, Deferred, TypeOK, Excuses, NameIsFreed, given, outside
<1> QED
  BY <1>1, <1>2, <1>3, <1>4, <1>5, <1>6, <1>7 DEF IInv

LEMMA JobCompletesIInv ==
  ASSUME IInv, NEW a \in Attempts, JobCompletes(a)
  PROVE  IInv'
<1>1. TypeOK'
  BY DEF IInv, JobCompletes, TypeOK, Attempts, Cuts, given, outside
<1>2. OutputIsOwn' /\ ReadsOwn'
  BY <1>1 DEF IInv, JobCompletes, TypeOK, OutputIsOwn, ReadsOwn, given, outside
<1>3. OnePod'
  BY <1>1 DEF IInv, JobCompletes, TypeOK, OnePod, given, outside
<1>4. Boxes'
  BY <1>1 DEF IInv, JobCompletes, TypeOK, Boxes, given, outside
<1>5. Leftovers'
  BY <1>1 DEF IInv, JobCompletes, TypeOK, Boxes, Leftovers, given, outside
<1>6. Superseded'
  BY <1>1 DEF IInv, JobCompletes, TypeOK, Superseded, Attempts, given, outside
<1>7. Excuses' /\ NameIsFreed'
  BY <1>1 DEF IInv, JobCompletes, TypeOK, Excuses, NameIsFreed, given, outside
<1> QED
  BY <1>1, <1>2, <1>3, <1>4, <1>5, <1>6, <1>7 DEF IInv

LEMMA WaitFailsIInv ==
  ASSUME IInv, NEW a \in Attempts, WaitFails(a)
  PROVE  IInv'
<1>1. TypeOK'
  BY DEF IInv, WaitFails, Returns, TypeOK, Attempts, Cuts, given, outside
<1>2. OutputIsOwn' /\ ReadsOwn'
  BY <1>1 DEF IInv, WaitFails, Returns, TypeOK, OutputIsOwn, ReadsOwn, given, outside
<1>3. OnePod'
  BY <1>1 DEF IInv, WaitFails, Returns, TypeOK, OnePod, given, outside
<1>4. Boxes'
  BY <1>1 DEF IInv, WaitFails, Returns, TypeOK, Boxes, given, outside
<1>5. Leftovers'
  BY <1>1 DEF IInv, WaitFails, Returns, TypeOK, Boxes, Leftovers, given, outside
<1>6. Superseded'
  BY <1>1 DEF IInv, WaitFails, Returns, TypeOK, Superseded, Attempts, given, outside
<1>7. Excuses' /\ NameIsFreed'
  BY <1>1 DEF IInv, WaitFails, Returns, TypeOK, Excuses, NameIsFreed, given, outside
<1> QED
  BY <1>1, <1>2, <1>3, <1>4, <1>5, <1>6, <1>7 DEF IInv

LEMMA ClusterFailsIInv ==
  ASSUME IInv, NEW a \in Attempts, ClusterFails(a)
  PROVE  IInv'
<1>1. TypeOK'
  BY DEF IInv, ClusterFails, Returns, TypeOK, Attempts, Cuts, given, outside
<1>2. OutputIsOwn' /\ ReadsOwn'
  BY <1>1 DEF IInv, ClusterFails, Returns, TypeOK, OutputIsOwn, ReadsOwn, given, outside
<1>3. OnePod'
  BY <1>1 DEF IInv, ClusterFails, Returns, TypeOK, OnePod, given, outside
<1>4. Boxes'
  BY <1>1 DEF IInv, ClusterFails, Returns, TypeOK, Boxes, given, outside
<1>5. Leftovers'
  BY <1>1 DEF IInv, ClusterFails, Returns, TypeOK, Boxes, Leftovers, given, outside
<1>6. Superseded'
  BY <1>1 DEF IInv, ClusterFails, Returns, TypeOK, Superseded, Attempts, given, outside
<1>7. Excuses' /\ NameIsFreed'
  BY <1>1 DEF IInv, ClusterFails, Returns, TypeOK, Excuses, NameIsFreed, given, outside
<1> QED
  BY <1>1, <1>2, <1>3, <1>4, <1>5, <1>6, <1>7 DEF IInv

\* Whatever else the labels select, the pod that is read is the attempt's own.
LEMMA NewestIsOwn ==
  ASSUME IInv, NEW a \in Attempts
  PROVE  NewestPodControlledBy(a) \in {0, a}
<1> DEFINE own == {i \in Existing : pods[i] = a}
<1>1. CASE own = {}
  BY <1>1 DEF NewestPodControlledBy, Newest
<1>2. ASSUME NEW i \in own PROVE NewestPodControlledBy(a) = a
  <2>1. i \in DOMAIN pods /\ i \in Nat /\ pods[i] = a
    BY DEF Existing, IInv, TypeOK
  <2>2. \A j \in own : j <= i
    BY <2>1 DEF IInv, OnePod, Existing
  <2> DEFINE m == CHOOSE k \in own : \A j \in own : j <= k
  <2>3. m \in own
    BY <2>2
  <2> QED
    BY <2>3 DEF NewestPodControlledBy, Newest
<1> QED
  BY <1>1, <1>2

LEMMA ReadLogsIInv ==
  ASSUME IInv, NEW a \in Attempts, ReadLogs(a)
  PROVE  IInv'
<1>0. NewestPodControlledBy(a) \in {0, a} /\ a # 0
  BY NewestIsOwn DEF Attempts
<1>1. TypeOK'
  BY <1>0 DEF IInv, ReadLogs, Returns, TypeOK, Attempts, Cuts, given, outside
<1>2. OutputIsOwn' /\ ReadsOwn'
  BY <1>0, <1>1 DEF IInv, ReadLogs, Returns, TypeOK, OutputIsOwn, ReadsOwn, given, outside
<1>3. OnePod'
  BY <1>1 DEF IInv, ReadLogs, Returns, TypeOK, OnePod, given, outside
<1>4. Boxes'
  BY <1>1 DEF IInv, ReadLogs, Returns, TypeOK, Boxes, given, outside
<1>5. Leftovers'
  BY <1>1 DEF IInv, ReadLogs, Returns, TypeOK, Boxes, Leftovers, given, outside
<1>6. Superseded'
  BY <1>1 DEF IInv, ReadLogs, Returns, TypeOK, Superseded, Attempts, given, outside
<1>7. Excuses' /\ NameIsFreed'
  BY <1>1 DEF IInv, ReadLogs, Returns, TypeOK, Excuses, NameIsFreed, given, outside
<1> QED
  BY <1>1, <1>2, <1>3, <1>4, <1>5, <1>6, <1>7 DEF IInv

LEMMA CleanUpIInv ==
  ASSUME IInv, NEW a \in Attempts, CleanUp(a)
  PROVE  IInv'
<1>1. TypeOK'
  BY DEF IInv, CleanUp, DeleteJob, TypeOK, Attempts, Cuts, given, outside
<1>2. OutputIsOwn' /\ ReadsOwn'
  BY <1>1 DEF IInv, CleanUp, DeleteJob, TypeOK, OutputIsOwn, ReadsOwn, given, outside
<1>3. OnePod'
  BY <1>1 DEF IInv, CleanUp, DeleteJob, TypeOK, OnePod, given, outside
<1>4. Boxes'
  BY <1>1 DEF IInv, CleanUp, DeleteJob, TypeOK, Boxes, given, outside
<1>5. Leftovers'
  BY <1>1 DEF IInv, CleanUp, DeleteJob, TypeOK, Boxes, Leftovers, given, outside
<1>6. Superseded'
  BY <1>1 DEF IInv, CleanUp, DeleteJob, TypeOK, Superseded, Attempts, given, outside
<1>7. Excuses' /\ NameIsFreed'
  BY <1>1 DEF IInv, CleanUp, DeleteJob, TypeOK, Excuses, NameIsFreed, given, outside
<1> QED
  BY <1>1, <1>2, <1>3, <1>4, <1>5, <1>6, <1>7 DEF IInv

LEMMA CleanUpFailsIInv ==
  ASSUME IInv, NEW a \in Attempts, CleanUpFails(a)
  PROVE  IInv'
<1>0. faults' \in 0 .. MaxFaults /\ cut' \in [Attempts -> Cuts]
  BY DEF IInv, CleanUpFails, TypeOK, Cuts
<1>1. TypeOK'
  BY <1>0 DEF IInv, CleanUpFails, TypeOK, Attempts, given, outside
<1>2. OutputIsOwn' /\ ReadsOwn'
  BY <1>1 DEF IInv, CleanUpFails, TypeOK, OutputIsOwn, ReadsOwn, given, outside
<1>3. OnePod'
  BY <1>1 DEF IInv, CleanUpFails, TypeOK, OnePod, given, outside
<1>4. Boxes'
  BY <1>1 DEF IInv, CleanUpFails, TypeOK, Boxes, given, outside
<1>5. Leftovers'
  BY <1>1 DEF IInv, CleanUpFails, TypeOK, Boxes, Leftovers, given, outside
<1>6. Superseded'
  BY <1>1 DEF IInv, CleanUpFails, TypeOK, Superseded, Attempts, given, outside
<1>7. Excuses' /\ NameIsFreed'
  BY <1>1 DEF IInv, CleanUpFails, TypeOK, Excuses, NameIsFreed, given, outside
<1> QED
  BY <1>1, <1>2, <1>3, <1>4, <1>5, <1>6, <1>7 DEF IInv

LEMMA ReportsIInv ==
  ASSUME IInv, NEW a \in Attempts, Reports(a)
  PROVE  IInv'
<1>1. TypeOK'
  BY DEF IInv, Reports, Settle, TypeOK, Attempts, Cuts, given, outside
<1>2. OutputIsOwn' /\ ReadsOwn'
  BY <1>1 DEF IInv, Reports, Settle, TypeOK, OutputIsOwn, ReadsOwn, given, outside
<1>3. OnePod'
  BY <1>1 DEF IInv, Reports, Settle, TypeOK, OnePod, given, outside
<1>4. Boxes'
  BY <1>1 DEF IInv, Reports, Settle, TypeOK, Boxes, given, outside
<1>5. Leftovers'
  BY <1>1 DEF IInv, Reports, Settle, TypeOK, Boxes, Leftovers, given, outside
<1>6. Superseded'
  BY <1>1 DEF IInv, Reports, Settle, TypeOK, Superseded, Attempts, given, outside
<1>7. Excuses' /\ NameIsFreed'
  BY <1>1 DEF IInv, Reports, Settle, TypeOK, Excuses, NameIsFreed, given, outside
<1> QED
  BY <1>1, <1>2, <1>3, <1>4, <1>5, <1>6, <1>7 DEF IInv

LEMMA CrashIInv ==
  ASSUME IInv, NEW a \in Attempts, Crash(a)
  PROVE  IInv'
<1>1. TypeOK'
  BY DEF IInv, Crash, Dies, Live, TypeOK, Attempts, Cuts, given, outside
<1>2. OutputIsOwn' /\ ReadsOwn'
  BY <1>1 DEF IInv, Crash, Dies, Live, TypeOK, OutputIsOwn, ReadsOwn, given, outside
<1>3. OnePod'
  BY <1>1 DEF IInv, Crash, Dies, Live, TypeOK, OnePod, given, outside
<1>4. Boxes'
  BY <1>1 DEF IInv, Crash, Dies, Live, TypeOK, Boxes, given, outside
<1>5. Leftovers'
  BY <1>1 DEF IInv, Crash, Dies, Live, TypeOK, Boxes, Leftovers, given, outside
<1>6. Superseded'
  BY <1>1 DEF IInv, Crash, Dies, Live, TypeOK, Superseded, Attempts, given, outside
<1>7. Excuses' /\ NameIsFreed'
  BY <1>1 DEF IInv, Crash, Dies, Live, TypeOK, Excuses, NameIsFreed, given, outside
<1> QED
  BY <1>1, <1>2, <1>3, <1>4, <1>5, <1>6, <1>7 DEF IInv

LEMMA TickerPanicsIInv ==
  ASSUME IInv, NEW a \in Attempts, TickerPanics(a)
  PROVE  IInv'
<1>1. TypeOK'
  BY DEF IInv, TickerPanics, Dies, Live, TypeOK, Attempts, Cuts, given, outside
<1>2. OutputIsOwn' /\ ReadsOwn'
  BY <1>1 DEF IInv, TickerPanics, Dies, Live, TypeOK, OutputIsOwn, ReadsOwn, given, outside
<1>3. OnePod'
  BY <1>1 DEF IInv, TickerPanics, Dies, Live, TypeOK, OnePod, given, outside
<1>4. Boxes'
  BY <1>1 DEF IInv, TickerPanics, Dies, Live, TypeOK, Boxes, given, outside
<1>5. Leftovers'
  BY <1>1 DEF IInv, TickerPanics, Dies, Live, TypeOK, Boxes, Leftovers, given, outside
<1>6. Superseded'
  BY <1>1 DEF IInv, TickerPanics, Dies, Live, TypeOK, Superseded, Attempts, given, outside
<1>7. Excuses' /\ NameIsFreed'
  BY <1>1 DEF IInv, TickerPanics, Dies, Live, TypeOK, Excuses, NameIsFreed, given, outside
<1> QED
  BY <1>1, <1>2, <1>3, <1>4, <1>5, <1>6, <1>7 DEF IInv

LEMMA BoxEndsIInv ==
  ASSUME IInv, NEW a \in Attempts, BoxEnds(a)
  PROVE  IInv'
<1>1. TypeOK'
  BY DEF IInv, BoxEnds, AfterExit, Codes, TypeOK, Attempts, Cuts, given, outside
<1>2. OutputIsOwn' /\ ReadsOwn'
  BY <1>1 DEF IInv, BoxEnds, AfterExit, Codes, TypeOK, OutputIsOwn, ReadsOwn, given, outside
<1>3. OnePod'
  BY <1>1 DEF IInv, BoxEnds, AfterExit, Codes, TypeOK, OnePod, given, outside
<1>4. Boxes'
  BY <1>1 DEF IInv, BoxEnds, AfterExit, Codes, TypeOK, Boxes, given, outside
<1>5. Leftovers'
  BY <1>1 DEF IInv, BoxEnds, AfterExit, Codes, TypeOK, Boxes, Leftovers, given, outside
<1>6. Superseded'
  BY <1>1 DEF IInv, BoxEnds, AfterExit, Codes, TypeOK, Superseded, Attempts, given, outside
<1>7. Excuses' /\ NameIsFreed'
  BY <1>1 DEF IInv, BoxEnds, AfterExit, Codes, TypeOK, Excuses, NameIsFreed, given, outside
<1> QED
  BY <1>1, <1>2, <1>3, <1>4, <1>5, <1>6, <1>7 DEF IInv

LEMMA ClusterDeletesIInv ==
  ASSUME IInv, NEW a \in Attempts, ClusterDeletes(a)
  PROVE  IInv'
<1>1. TypeOK'
  BY DEF IInv, ClusterDeletes, Removed, TypeOK, Attempts, Cuts, given, outside
<1>2. OutputIsOwn' /\ ReadsOwn'
  BY <1>1 DEF IInv, ClusterDeletes, Removed, TypeOK, OutputIsOwn, ReadsOwn, given, outside
<1>3. OnePod'
  BY <1>1 DEF IInv, ClusterDeletes, Removed, TypeOK, OnePod, given, outside
<1>4. Boxes'
  BY <1>1 DEF IInv, ClusterDeletes, Removed, TypeOK, Boxes, given, outside
<1>5. Leftovers'
  BY <1>1 DEF IInv, ClusterDeletes, Removed, TypeOK, Boxes, Leftovers, given, outside
<1>6. Superseded'
  BY <1>1 DEF IInv, ClusterDeletes, Removed, TypeOK, Superseded, Attempts, given, outside
<1>7. Excuses' /\ NameIsFreed'
  BY <1>1 DEF IInv, ClusterDeletes, Removed, TypeOK, Excuses, NameIsFreed, given, outside
<1> QED
  BY <1>1, <1>2, <1>3, <1>4, <1>5, <1>6, <1>7 DEF IInv

LEMMA ClusterExpiresIInv ==
  ASSUME IInv, NEW a \in Attempts, ClusterExpires(a)
  PROVE  IInv'
<1>1. TypeOK'
  BY DEF IInv, ClusterExpires, Removed, TypeOK, Attempts, Cuts, given, outside
<1>2. OutputIsOwn' /\ ReadsOwn'
  BY <1>1 DEF IInv, ClusterExpires, Removed, TypeOK, OutputIsOwn, ReadsOwn, given, outside
<1>3. OnePod'
  BY <1>1 DEF IInv, ClusterExpires, Removed, TypeOK, OnePod, given, outside
<1>4. Boxes'
  BY <1>1 DEF IInv, ClusterExpires, Removed, TypeOK, Boxes, given, outside
<1>5. Leftovers'
  BY <1>1 DEF IInv, ClusterExpires, Removed, TypeOK, Boxes, Leftovers, given, outside
<1>6. Superseded'
  BY <1>1 DEF IInv, ClusterExpires, Removed, TypeOK, Superseded, Attempts, given, outside
<1>7. Excuses' /\ NameIsFreed'
  BY <1>1 DEF IInv, ClusterExpires, Removed, TypeOK, Excuses, NameIsFreed, given, outside
<1> QED
  BY <1>1, <1>2, <1>3, <1>4, <1>5, <1>6, <1>7 DEF IInv

LEMMA NextIInv == IInv /\ [Next]_vars => IInv'
<1> SUFFICES ASSUME IInv, [Next]_vars PROVE IInv'
  OBVIOUS
<1>1. CASE UNCHANGED vars
  BY <1>1 DEF vars, given, outside, IInv, TypeOK, OutputIsOwn, NameIsFreed, ReadsOwn, OnePod, Boxes,
     Leftovers, Superseded, Excuses
<1>2. CASE InputsFail \/ StartAttempt \/ AttemptTimesOut \/ Cancel
  BY <1>2, InputsFailIInv, StartAttemptIInv, AttemptTimesOutIInv, CancelIInv
<1>3. ASSUME NEW a \in Attempts, Attempt(a) PROVE IInv'
  BY <1>3, PrepareFailsIInv, LaunchIInv, LaunchRefusedIInv, ObservesIInv, InterruptedIInv,
     JobCompletesIInv, WaitFailsIInv, ReadLogsIInv, CleanUpIInv, ReportsIInv DEF Attempt
<1>4. ASSUME NEW a \in Attempts,
             \/ ContextEnds(a) \/ LaunchUnsure(a) \/ ClusterFails(a) \/ CleanUpFails(a)
             \/ Crash(a) \/ TickerPanics(a)
      PROVE  IInv'
  BY <1>4, ContextEndsIInv, LaunchUnsureIInv, ClusterFailsIInv, CleanUpFailsIInv, CrashIInv,
     TickerPanicsIInv
<1>5. ASSUME NEW a \in Attempts, BoxEnds(a) \/ ClusterDeletes(a) \/ ClusterExpires(a)
      PROVE  IInv'
  BY <1>5, BoxEndsIInv, ClusterDeletesIInv, ClusterExpiresIInv
<1> QED
  BY <1>1, <1>2, <1>3, <1>4, <1>5 DEF Next

LEMMA InvariantIInv == Spec => []IInv
  BY InitIInv, NextIInv, PTL DEF Spec

\* The state of an activity stays in its type, for any tasks and any number of
\* attempts.
THEOREM TypeCorrect == Spec => []TypeOK
<1>1. IInv => TypeOK
  BY DEF IInv
<1> QED
  BY <1>1, InvariantIInv, PTL

\* What the workflow gets has been read from the attempt's own pod, whatever other
\* attempts have left in the cluster (newestPodControlledBy).
THEOREM GetsOwnOutput == Spec => []OutputIsOwn
<1>1. IInv => OutputIsOwn
  BY DEF IInv
<1> QED
  BY <1>1, InvariantIInv, PTL

\* An attempt that is gone has left nothing behind, unless it was cut short or the
\* document keeps it (deleteJob, --rm, os.RemoveAll).
THEOREM LeavesNothing == Spec => []NothingLeft
<1>1. IInv => NothingLeft
  BY DEF IInv, Leftovers, NothingLeft
<1> QED
  BY <1>1, InvariantIInv, PTL

\* A retry after an attempt that merely failed finds the name of its container free
\* (runDockerCommand).
THEOREM FindsNameFree == Spec => []NameIsFreed
<1>1. IInv => NameIsFreed
  BY DEF IInv
<1> QED
  BY <1>1, InvariantIInv, PTL
=============================================================================
