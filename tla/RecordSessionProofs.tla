------------------------ MODULE RecordSessionProofs ------------------------
(***************************************************************************)
(* For any processes the target may start and any sources whose start may  *)
(* fail: the launched root is measured as long as it runs, and collected   *)
(* when the recording is over.                                             *)
(***************************************************************************)
EXTENDS RecordSession, TLAPS

States == {"none", "gated", "live", "zombie", "gone"}

\* Where nothing has been asked to stop yet.
Early == {"resolve", "spawn", "start", "poll", "term", "grace", "kill", "wait"}

\* Where the released root may run.
Released == {"poll", "term", "grace", "kill", "wait"}

Unwound == {"drop", "join", "done"}

\* The sources whose workers RootIsMeasured is about.
Measuring == {"pmu", "procfs", "allocations"}

TypeOK ==
  /\ ps \in [Procs -> States] /\ parent \in [Procs -> Procs \cup {Reaper}]
  /\ worker \in [Sources -> {"none", "running", "ended"}]
  /\ at \in Nat \ {0}
  /\ pc \in Early \cup Unwound \cup {"stop", "reap"}

\* The root is created, gated and released in this order, it runs only between its
\* release and the stopping of the sources, and Process's drop collects it.
RootFollows ==
  ~attached =>
    /\ pc \in {"resolve", "spawn"} => ps[Root] = "none"
    /\ pc = "start" => ps[Root] = "gated"
    /\ pc \in {"stop", "reap"} => ps[Root] # "live"
    /\ pc \in Unwound => ps[Root] \in {"none", "gone"}

\* Workers are told to stop only when the sources are stopped or dropped.
NoEarlyStop == pc \in Early => flag = {}

\* The sources up to the one being started run, and all of them once the root is
\* released.
SourcesRun ==
  ~attached =>
    /\ pc = "start" => \A i \in DOMAIN Order :
         i < at /\ Order[i] \in Measuring \cap available => worker[Order[i]] = "running"
    /\ pc \in Released => \A s \in Measuring \cap available : worker[s] = "running"

SessionInvariant == TypeOK /\ RootFollows /\ NoEarlyStop /\ SourcesRun

----------------------------------------------------------------------------
LEMMA RootIsProc == Root \in Procs /\ Root \notin Others
BY SessionAssumption DEF Procs

LEMMA OrderIs ==
  /\ DOMAIN Order = 1 .. 6 /\ Len(Order) = 6
  /\ Sources = {"pmu", "precise", "telemetry", "procfs", "bpf", "allocations"}
  /\ \A i \in 1 .. 6 : Order[i] \in Sources
<1>1. DOMAIN Order = 1 .. 6 /\ Len(Order) = 6 BY DEF Order
<1>2. Sources = {Order[1], Order[2], Order[3], Order[4], Order[5], Order[6]}
  <2>1. \A i \in 1 .. 6 : i = 1 \/ i = 2 \/ i = 3 \/ i = 4 \/ i = 5 \/ i = 6 OBVIOUS
  <2> QED BY <1>1, <2>1 DEF Sources
<1>3. Sources = {"pmu", "precise", "telemetry", "procfs", "bpf", "allocations"}
  BY <1>2 DEF Order
<1> QED BY <1>1, <1>3 DEF Sources

\* Deaths leave every process in a state, and the root neither comes to life nor
\* comes back.
LEMMA DeadType ==
  ASSUME TypeOK, NEW dead \in SUBSET Procs, Dead(dead)
  PROVE  /\ ps' \in [Procs -> States] /\ parent' \in [Procs -> Procs \cup {Reaper}]
         /\ ps'[Root] = "live" => ps[Root] = "live"
         /\ Root \notin dead /\ ps[Root] # "zombie" => ps'[Root] = ps[Root]
BY RootIsProc DEF TypeOK, Dead, States

\* A living root is in the tree that wait_for_target polls.
LEMMA LivingRoot == TypeOK /\ ps[Root] = "live" => Root \in Living
BY RootIsProc DEF TypeOK, Living, Tree, Present

LEMMA SessionInitially == Init => SessionInvariant
<1> SUFFICES ASSUME Init PROVE SessionInvariant OBVIOUS
<1> USE RootIsProc DEF Init
<1>1. ps \in [Procs -> States] /\ parent \in [Procs -> Procs \cup {Reaper}]
  BY DEF States
<1>2. TypeOK BY <1>1 DEF TypeOK, Early
<1>3. RootFollows BY DEF RootFollows, Unwound
<1>4. NoEarlyStop /\ SourcesRun BY DEF NoEarlyStop, SourcesRun, Released
<1> QED BY <1>2, <1>3, <1>4 DEF SessionInvariant

\* What the target does by itself changes neither the session nor its sources.
LEMMA TargetPreserves == SessionInvariant /\ Target => SessionInvariant'
<1> SUFFICES ASSUME SessionInvariant, Target PROVE SessionInvariant' OBVIOUS
<1> USE RootIsProc
<1>1. ASSUME NEW p \in Procs, NEW q \in Others, Fork(p, q) PROVE SessionInvariant'
  <2>1. q \in Procs BY DEF Procs
  <2> QED BY <1>1, <2>1 DEF Fork, SessionInvariant, TypeOK, RootFollows, NoEarlyStop,
             SourcesRun, options, tasks, States, Released
<1>2. ASSUME NEW p \in Procs, ProcExit(p) PROVE SessionInvariant'
  <2>1. /\ ps' \in [Procs -> States] /\ parent' \in [Procs -> Procs \cup {Reaper}]
        /\ ps'[Root] = "live" => ps[Root] = "live"
        /\ Root # p /\ ps[Root] # "zombie" => ps'[Root] = ps[Root]
    BY <1>2, DeadType DEF ProcExit, SessionInvariant
  <2>2. ps[p] = "live" BY <1>2 DEF ProcExit
  <2> QED BY <1>2, <2>1, <2>2 DEF ProcExit, SessionInvariant, TypeOK, RootFollows, NoEarlyStop,
             SourcesRun, options, tasks
<1>3. ASSUME NEW p \in Procs, Collect(p) PROVE SessionInvariant'
  BY <1>3 DEF Collect, SessionInvariant, TypeOK, RootFollows, NoEarlyStop, SourcesRun,
     options, tasks, States
<1> QED BY <1>1, <1>2, <1>3 DEF Target

\* A worker that measures ends only when it was told to.
LEMMA ThreadsPreserve == SessionInvariant /\ Threads => SessionInvariant'
<1> SUFFICES ASSUME SessionInvariant, Threads PROVE SessionInvariant' OBVIOUS
<1> USE RootIsProc, OrderIs
<1>1. ASSUME NEW s \in Sources, WorkerEnds(s) PROVE SessionInvariant'
  <2>1. pc \notin Early BY <1>1 DEF WorkerEnds, SessionInvariant, NoEarlyStop
  <2> QED BY <1>1, <2>1 DEF WorkerEnds, SessionInvariant, TypeOK, RootFollows, NoEarlyStop,
             SourcesRun, options, procs, Early, Released
<1>2. CASE TelemetryEnds
  BY <1>2 DEF TelemetryEnds, SessionInvariant, TypeOK, RootFollows, NoEarlyStop,
     SourcesRun, options, procs, Measuring
<1>3. CASE WriterEnds
  BY <1>3 DEF WriterEnds, SessionInvariant, TypeOK, RootFollows, NoEarlyStop,
     SourcesRun, options, procs, tasks
<1> QED BY <1>1, <1>2, <1>3 DEF Threads

LEMMA SessionPreserves == SessionInvariant /\ Session => SessionInvariant'
<1> SUFFICES ASSUME SessionInvariant, Session PROVE SessionInvariant' OBVIOUS
<1> USE RootIsProc, OrderIs DEF SessionInvariant, options, procs, tasks, ends, Goto
<1>1. CASE Resolve
  <2>1. TypeOK' /\ RootFollows' /\ NoEarlyStop'
    BY <1>1 DEF Resolve, TypeOK, RootFollows, NoEarlyStop, Early, Unwound
  <2>2. SourcesRun'
    BY <1>1 DEF Resolve, SourcesRun, Released
  <2> QED BY <2>1, <2>2
<1>2. CASE Spawn
  BY <1>2 DEF Spawn, Fail, TypeOK, RootFollows, NoEarlyStop, SourcesRun, Early, Released,
     Unwound, States
<1>3. CASE StartSource
  <2>1. TypeOK' /\ RootFollows' /\ NoEarlyStop'
    BY <1>3 DEF StartSource, Current, TypeOK, RootFollows, NoEarlyStop
  <2>2. SourcesRun'
    <3> SUFFICES ASSUME ~attached, NEW i \in DOMAIN Order, i < at + 1,
                        Order[i] \in Measuring \cap available
                 PROVE  worker'[Order[i]] = "running"
      BY <1>3 DEF StartSource, SourcesRun, Released
    <3>1. CASE i = at
      <4>1. Runs(Order[i]) BY DEF Runs
      <4>2. Order[i] # "bpf" BY DEF Measuring
      <4> QED BY <1>3, <3>1, <4>1, <4>2 DEF StartSource, Current, TypeOK
    <3>2. CASE i < at
      <4>1. worker[Order[i]] = "running" BY <1>3, <3>2 DEF StartSource, SourcesRun
      <4> QED BY <1>3, <4>1 DEF StartSource, Current, TypeOK
    <3> QED BY <1>3, <3>1, <3>2 DEF TypeOK
  <2> QED BY <2>1, <2>2
<1>4. CASE StartFails
  BY <1>4 DEF StartFails, Fail, TypeOK, RootFollows, NoEarlyStop, SourcesRun, Early, Released,
     Unwound
<1>5. CASE Release
  <2>1. TypeOK' /\ RootFollows' /\ NoEarlyStop'
    BY <1>5 DEF Release, TypeOK, RootFollows, NoEarlyStop, Early, Unwound, States
  <2>2. SourcesRun'
    <3> SUFFICES ASSUME ~attached, NEW s \in Measuring \cap available
                 PROVE  worker[s] = "running"
      BY <1>5 DEF Release, SourcesRun, Released
    <3>1. PICK i \in DOMAIN Order : s = Order[i] BY DEF Measuring, Sources
    <3>2. i < at BY <1>5 DEF Release, TypeOK
    <3> QED BY <1>5, <3>1, <3>2 DEF Release, SourcesRun
  <2> QED BY <2>1, <2>2
<1>6. CASE CountersMissing
  BY <1>6 DEF CountersMissing, TypeOK, RootFollows, NoEarlyStop, SourcesRun, Early, Released,
     Unwound
<1>7. CASE PollExit
  <2>1. ps[Root] # "live" BY <1>7, LivingRoot DEF PollExit
  <2> QED BY <1>7, <2>1 DEF PollExit, TypeOK, RootFollows, NoEarlyStop, SourcesRun, Early,
             Released, Unwound
<1>8. CASE PollLimit
  BY <1>8 DEF PollLimit, TypeOK, RootFollows, NoEarlyStop, SourcesRun, Early, Released, Unwound
<1>9. CASE Terminate \/ GraceOver \/ GraceExpired \/ Killed
  <2>1. /\ UNCHANGED <<attached, ps, parent, available, worker, flag>>
        /\ pc \in Released /\ pc' \in Released /\ at' = 1
    BY <1>9 DEF Terminate, GraceOver, GraceExpired, Killed, Insist, Released
  <2> QED BY <2>1 DEF TypeOK, RootFollows, NoEarlyStop, SourcesRun, Early, Released, Unwound
<1>10. ASSUME NEW p \in Procs, SendKill(p) PROVE SessionInvariant'
  <2>1. ps' \in [Procs -> States] /\ parent' \in [Procs -> Procs \cup {Reaper}]
    BY <1>10, DeadType DEF SendKill, TypeOK
  <2> QED BY <1>10, <2>1 DEF SendKill, TypeOK, RootFollows, NoEarlyStop, SourcesRun, Early,
             Released, Unwound
<1>11. CASE WaitRoot
  BY <1>11 DEF WaitRoot, RootEnded, TypeOK, RootFollows, NoEarlyStop, SourcesRun, Early,
     Released, Unwound
<1>12. CASE AskStop \/ Joined \/ Stopped
  <2>1. /\ UNCHANGED <<attached, ps, parent, available, worker>>
        /\ pc = "stop" /\ pc' \in {"stop", "reap"} /\ at' \in Nat \ {0}
    BY <1>12 DEF AskStop, Joined, Stopped, TypeOK
  <2> QED BY <2>1 DEF TypeOK, RootFollows, NoEarlyStop, SourcesRun, Early, Released, Unwound
<1>13. CASE Reap
  BY <1>13 DEF Reap, Reaped, TypeOK, RootFollows, NoEarlyStop, SourcesRun, Early, Released,
     Unwound, States
<1>14. CASE AskDrop \/ DropSource \/ DropDispatcher \/ Conclude
  <2>1. /\ UNCHANGED <<attached, ps, parent, available, worker>>
        /\ pc \in Unwound /\ pc' \in Unwound /\ at' \in Nat \ {0}
    BY <1>14 DEF AskDrop, DropSource, DropDispatcher, Conclude, TypeOK, Unwound
  <2> QED BY <2>1 DEF TypeOK, RootFollows, NoEarlyStop, SourcesRun, Early, Released, Unwound
<1> QED BY <1>1, <1>2, <1>3, <1>4, <1>5, <1>6, <1>7, <1>8, <1>9, <1>10, <1>11, <1>12, <1>13,
           <1>14 DEF Session

LEMMA SessionInductive == SessionInvariant /\ [Next]_vars => SessionInvariant'
<1> SUFFICES ASSUME SessionInvariant, [Next]_vars PROVE SessionInvariant' OBVIOUS
<1>1. CASE UNCHANGED vars
  BY <1>1 DEF vars, options, procs, tasks, SessionInvariant, TypeOK, RootFollows, NoEarlyStop,
     SourcesRun
<1> QED BY <1>1, TargetPreserves, SessionPreserves, ThreadsPreserve DEF Next, Over

\* The order in which snapshot starts sources, releases the child and stops them
\* leaves no moment of the root unmeasured, for any process tree.
THEOREM RootMeasured == Spec => []RootIsMeasured
<1>1. SessionInvariant => RootIsMeasured
  <2> SUFFICES ASSUME SessionInvariant, ~attached, ps[Root] = "live",
                      NEW s \in Measuring \cap available
               PROVE  worker[s] = "running"
    BY DEF RootIsMeasured, Measuring
  <2>1. pc \in Released
    BY DEF SessionInvariant, TypeOK, RootFollows, Early, Released, Unwound
  <2> QED BY <2>1 DEF SessionInvariant, SourcesRun
<1> QED BY <1>1, SessionInitially, SessionInductive, PTL DEF Spec

\* Whatever failed, the drop of Process has killed and reaped the child by the time
\* do_record returns.
THEOREM RootCollected == Spec => []RootIsCollected
<1>1. SessionInvariant => RootIsCollected
  BY DEF SessionInvariant, RootFollows, RootIsCollected, Unwound
<1> QED BY <1>1, SessionInitially, SessionInductive, PTL DEF Spec
============================================================================
