-------------------------- MODULE SupervisorProofs --------------------------
(***************************************************************************)
(* What holds of the pool for every SERVERNUMBER, MAXSERVERS, table of     *)
(* process slots and bound: the master's count is exact, the pool is       *)
(* bounded, and the fork loop always finds a slot in a table of PoolMax.   *)
(***************************************************************************)
EXTENDS Supervisor, FiniteSetTheorems, TLAPS

\* The larger of the two limits of the loop.
LEMMA PoolMaxInt == PoolMax \in Int /\ PoolMax >= SERVERNUMBER /\ PoolMax >= MAXSERVERS + 1
  BY ConfigAssumption DEF PoolMax

\* Type correctness of the specification, for every value of the constants.
THEOREM TypeCorrect == Spec => []TypeOK
<1>1. Init => TypeOK
  <2> SUFFICES ASSUME Init PROVE TypeOK
    OBVIOUS
  <2>1. /\ worker \in [Procs -> WorkerStates]
        /\ childrestart \in [Procs -> BOOLEAN]
        /\ sigint \in [Procs -> BOOLEAN]
    BY DEF Init, WorkerStates
  <2>2. [l \in Logs |-> 0] \in [Logs -> Nat \cup {Closed}]
    OBVIOUS
  <2>3. /\ log \in [Logs -> Nat \cup {Closed}]
        /\ workerlog \in [Procs -> [Logs -> Nat \cup {Closed}]]
    BY <2>2 DEF Init
  <2>4. rereadall \in BOOLEAN /\ restartchilds \in BOOLEAN /\ hangup \in BOOLEAN
    BY Zenon DEF Init
  <2>5. QED
    BY <2>1, <2>3, <2>4 DEF Init, TypeOK, MasterPlaces
<1>2. TypeOK /\ [Next]_vars => TypeOK'
  <2> SUFFICES ASSUME TypeOK, [Next]_vars PROVE TypeOK'
    OBVIOUS
  <2> USE DEF TypeOK, Logs, MasterPlaces, WorkerStates, master, pool, env
  <2>1. CASE MasterStep
    <3>1. CASE TestReread  BY <3>1 DEF TestReread
    <3>2. CASE ClearReread  BY <3>2 DEF ClearReread
    <3>3. CASE ReopenErrorLog  BY <3>3 DEF ReopenErrorLog
    <3>4. CASE ReopenAccessLog  BY <3>4 DEF ReopenAccessLog
    <3>15. CASE ReopenErrorLogFails  BY <3>15 DEF ReopenErrorLogFails, OpenFails
    <3>16. CASE ReopenAccessLogFails  BY <3>16 DEF ReopenAccessLogFails, OpenFails
    <3>5. CASE RestartChilds  BY <3>5 DEF RestartChilds
    <3>6. CASE ReapDone  BY <3>6 DEF ReapDone
    <3>7. ASSUME NEW p \in Procs, Reap(p) PROVE TypeOK'
      BY <3>7 DEF Reap
    <3>8. ASSUME NEW p \in Procs, Fork(p) PROVE TypeOK'
      BY <3>8 DEF Fork, StartchildAfterFork
    <3>9. CASE ForkFails  BY <3>9, BoundAssumption DEF ForkFails
    <3>10. CASE ForkRetry  BY <3>10 DEF ForkRetry
    <3>11. CASE SpawnDone  BY <3>11 DEF SpawnDone
    <3>12. CASE CheckBacklog
      <4>1. hangup' \in BOOLEAN  
        <5>1. (backlog > 0) \in BOOLEAN  OBVIOUS
        <5>2. QED  BY <3>12, <5>1 DEF CheckBacklog
      <4>2. pc' \in MasterPlaces  BY <3>12 DEF CheckBacklog
      <4>3. QED  BY <3>12, <4>1, <4>2 DEF CheckBacklog
    <3>13. CASE CheckAgain  BY <3>13 DEF CheckAgain, MayGrow
    <3>14. QED
      BY <2>1, <3>1, <3>2, <3>3, <3>4, <3>5, <3>6, <3>7, <3>8, <3>9, <3>10, <3>11,
         <3>12, <3>13, <3>15, <3>16 DEF MasterStep
  <2>2. CASE ExitProcess
    BY <2>2, BoundAssumption DEF ExitProcess, InGroup, Running
  <2>3. ASSUME NEW p \in Procs, WorkerStep(p) PROVE TypeOK'
    <3>1. CASE InstallSignals(p)  BY <3>1 DEF InstallSignals
    <3>2. CASE AcceptClient(p)  BY <3>2 DEF AcceptClient
    <3>3. CASE CloseBrowser(p)  BY <3>3 DEF CloseBrowser, Ended
    <3>4. CASE Crash(p)  BY <3>4, BoundAssumption DEF Crash, Ended
    <3>5. CASE WorkerSigInt(p)  BY <3>5 DEF WorkerSigInt, Ended
    <3>6. QED  BY <2>3, <3>1, <3>2, <3>3, <3>4, <3>5 DEF WorkerStep
  <2>4. CASE Connect  BY <2>4 DEF Connect
  <2>5. CASE RotateAndHup  BY <2>5 DEF RotateAndHup
  <2>6. CASE UNCHANGED vars  BY <2>6 DEF vars
  <2>7. QED
    BY <2>1, <2>2, <2>3, <2>4, <2>5, <2>6 DEF Next
<1>3. QED
  BY <1>1, <1>2, PTL DEF Spec

-----------------------------------------------------------------------------
(***************************************************************************)
(* PoolBound is not inductive: the growth by two adds to the workers still *)
(* to be forked, and only because none is left to fork when the loop looks *)
(* at the listening socket is the sum bounded.                             *)
(***************************************************************************)
NonePending == pc \in {"check", "checkagain"} => startchild = 0

PoolInv == TypeOK /\ NonePending /\ PoolBound

\* The pool together with the workers still to be forked never exceeds
\* PoolMax, whatever the values of SERVERNUMBER and MAXSERVERS.
THEOREM PoolBounded == Spec => []PoolBound
<1>1. Init /\ TypeOK => PoolInv
  BY PoolMaxInt, ConfigAssumption DEF Init, PoolInv, NonePending, PoolBound
<1>2. PoolInv /\ TypeOK' /\ [Next]_vars => PoolInv'
  <2> SUFFICES ASSUME PoolInv, TypeOK', [Next]_vars
               PROVE NonePending' /\ PoolBound'
    BY DEF PoolInv
  <2> USE PoolMaxInt, ConfigAssumption DEF PoolInv, NonePending, PoolBound, TypeOK
  <2>1. CASE MasterStep
    <3>1. CASE TestReread  BY <3>1 DEF TestReread
    <3>2. CASE ClearReread  BY <3>2 DEF ClearReread
    <3>3. CASE ReopenErrorLog  BY <3>3 DEF ReopenErrorLog
    <3>4. CASE ReopenAccessLog  BY <3>4 DEF ReopenAccessLog
    <3>15. CASE ReopenErrorLogFails  BY <3>15 DEF ReopenErrorLogFails, OpenFails
    <3>16. CASE ReopenAccessLogFails  BY <3>16 DEF ReopenAccessLogFails, OpenFails
    <3>5. CASE RestartChilds  BY <3>5 DEF RestartChilds
    <3>6. CASE ReapDone  BY <3>6 DEF ReapDone
    <3>7. ASSUME NEW p \in Procs, Reap(p) PROVE NonePending' /\ PoolBound'
      BY <3>7 DEF Reap
    <3>8. ASSUME NEW p \in Procs, Fork(p) PROVE NonePending' /\ PoolBound'
      BY <3>8 DEF Fork, StartchildAfterFork, SpawnNeeded
    <3>9. CASE ForkFails  BY <3>9 DEF ForkFails
    <3>10. CASE ForkRetry  BY <3>10 DEF ForkRetry
    <3>11. CASE SpawnDone  BY <3>11 DEF SpawnDone, SpawnNeeded
    <3>12. CASE CheckBacklog  BY <3>12 DEF CheckBacklog
    <3>13. CASE CheckAgain  BY <3>13 DEF CheckAgain, MayGrow
    <3>14. QED
      BY <2>1, <3>1, <3>2, <3>3, <3>4, <3>5, <3>6, <3>7, <3>8, <3>9, <3>10, <3>11,
         <3>12, <3>13, <3>15, <3>16 DEF MasterStep
  <2>2. CASE ExitProcess  BY <2>2 DEF ExitProcess
  <2>3. ASSUME NEW p \in Procs, WorkerStep(p) PROVE NonePending' /\ PoolBound'
    BY <2>3 DEF WorkerStep, InstallSignals, AcceptClient, CloseBrowser, Crash,
                WorkerSigInt, master
  <2>4. CASE Connect  BY <2>4 DEF Connect, master
  <2>5. CASE RotateAndHup  BY <2>5 DEF RotateAndHup
  <2>6. CASE UNCHANGED vars  BY <2>6 DEF vars, master
  <2>7. QED
    BY <2>1, <2>2, <2>3, <2>4, <2>5, <2>6 DEF Next
<1>3. PoolInv => PoolBound
  BY DEF PoolInv
<1>4. QED
  BY <1>1, <1>2, <1>3, TypeCorrect, PTL DEF Spec

-----------------------------------------------------------------------------
(* The count of the workers.                                               *)

LEMMA UsedFinite == IsFiniteSet(Used) /\ Cardinality(Used) \in Nat
  BY ConfigAssumption, FS_Subset, FS_CardinalityType DEF Used

\* A worker that ends while the master runs keeps its slot, as a zombie.
LEMMA WorkerKeepsSlot ==
  ASSUME TypeOK, NEW p \in Procs, WorkerStep(p), pc # "exited"
  PROVE  Used' = Used /\ Instances' = Instances /\ pc' = pc
<1>1. Instances' = Instances /\ pc' = pc
  BY DEF WorkerStep, InstallSignals, AcceptClient, CloseBrowser, Crash, WorkerSigInt, master
<1>2. worker[p] # "free"
  BY DEF WorkerStep, InstallSignals, AcceptClient, CloseBrowser, Crash, WorkerSigInt, Running
<1>3. \E s \in {"waiting", "serving", "closed", "zombie"} :
         worker' = [worker EXCEPT ![p] = s]
  BY DEF WorkerStep, InstallSignals, AcceptClient, CloseBrowser, Crash, WorkerSigInt, Ended
<1>4. QED
  BY <1>1, <1>2, <1>3 DEF Used, TypeOK

\* The master's count is the number of slots it has not reaped, in every
\* interleaving of deaths, forks and reaps.
THEOREM InstancesCounted == Spec => []InstancesCount
<1>1. Init => InstancesCount
  <2> SUFFICES ASSUME Init PROVE InstancesCount
    OBVIOUS
  <2>1. Used = {}
    BY DEF Init, Used
  <2>2. QED
    BY <2>1, FS_EmptySet DEF Init, InstancesCount
<1>2. TypeOK /\ InstancesCount /\ [Next]_vars => InstancesCount'
  <2> SUFFICES ASSUME TypeOK, InstancesCount, [Next]_vars, pc' # "exited"
               PROVE Instances' = Cardinality(Used')
    BY DEF InstancesCount
  <2>1. ASSUME NEW p \in Procs, Reap(p) PROVE Instances' = Cardinality(Used')
    <3>1. p \in Used /\ Used' = Used \ {p}
      BY <2>1 DEF Reap, Used, TypeOK
    <3>2. Cardinality(Used') = Cardinality(Used) - 1
      BY <3>1, UsedFinite, FS_RemoveElement
    <3>3. QED
      BY <2>1, <3>2 DEF Reap, InstancesCount
  <2>2. ASSUME NEW p \in Procs, Fork(p) PROVE Instances' = Cardinality(Used')
    <3>1. p \notin Used /\ Used' = Used \cup {p}
      BY <2>2 DEF Fork, Used, TypeOK
    <3>2. Cardinality(Used') = Cardinality(Used) + 1
      BY <3>1, UsedFinite, FS_AddElement
    <3>3. QED
      BY <2>2, <3>2 DEF Fork, InstancesCount
  <2>3. ASSUME NEW p \in Procs, WorkerStep(p) PROVE Instances' = Cardinality(Used')
    <3>1. pc # "exited"
      BY <2>3 DEF WorkerStep, InstallSignals, AcceptClient, CloseBrowser, Crash,
                  WorkerSigInt, master
    <3>2. QED
      BY <2>3, <3>1, WorkerKeepsSlot DEF InstancesCount
  <2>4. ASSUME pc # "exited", worker' = worker, Instances' = Instances
        PROVE Instances' = Cardinality(Used')
    BY <2>4 DEF Used, InstancesCount
  <2>5. CASE MasterStep
    <3>1. CASE \E p \in Procs : Reap(p) \/ Fork(p)
      BY <3>1, <2>1, <2>2
    <3>2. CASE ~ \E p \in Procs : Reap(p) \/ Fork(p)
      <4>1. pc # "exited" /\ worker' = worker /\ Instances' = Instances
        BY <2>5, <3>2 DEF MasterStep, TestReread, ClearReread, ReopenErrorLog,
           ReopenErrorLogFails, OpenFails, ReopenAccessLog, ReopenAccessLogFails, RestartChilds, ReapDone, ForkFails, ForkRetry, SpawnDone,
           CheckBacklog, CheckAgain, pool
      <4>2. QED  BY <4>1, <2>4
    <3>3. QED  BY <3>1, <3>2
  <2>6. CASE ExitProcess  BY <2>6 DEF ExitProcess
  <2>7. CASE Connect  BY <2>7, <2>4 DEF Connect, master, pool
  <2>8. CASE RotateAndHup  BY <2>8, <2>4 DEF RotateAndHup, pool
  <2>9. CASE UNCHANGED vars  BY <2>9, <2>4 DEF vars, master, pool
  <2>10. QED
    BY <2>3, <2>5, <2>6, <2>7, <2>8, <2>9 DEF Next
<1>3. QED
  BY <1>1, <1>2, TypeCorrect, PTL DEF Spec

\* In a process table with room for PoolMax workers the master always finds a
\* slot when it wants a worker: the retry loop, which never reaps, is left as
\* soon as fork() has memory again.
THEOREM SlotAlwaysFree == Spec => []SlotForFork
<1>1. TypeOK /\ InstancesCount /\ PoolBound => SlotForFork
  <2> SUFFICES ASSUME TypeOK, InstancesCount, PoolBound,
                      pc \in {"spawn", "forkwait"}, SpawnNeeded,
                      Cardinality(Procs) >= PoolMax, Free = {}
               PROVE FALSE
    BY DEF SlotForFork
  <2>1. Used = Procs
    BY DEF Used, Free
  <2>2. Instances = Cardinality(Procs)
    BY <2>1 DEF InstancesCount
  <2>3. Instances < PoolMax
    BY PoolMaxInt, ConfigAssumption DEF SpawnNeeded, PoolBound, TypeOK
  <2>4. QED
    BY <2>2, <2>3, PoolMaxInt, UsedFinite DEF TypeOK
<1>2. QED
  BY <1>1, TypeCorrect, InstancesCounted, PoolBounded, PTL

\* Between the two open() calls the access log is closed.
AccessClosed == pc = "reopenAccess" /\ ~USESYSLOG => log["access"] = Closed

LogsInv == MasterLogsCurrent /\ AccessClosed

\* The master never settles on rotated log files: the flag of SIGHUP is cleared
\* before the files are opened, so a signal that arrives in between is seen in
\* the next round, and a log that could not be opened is closed, not old.
THEOREM LogsStayCurrent == Spec => []MasterLogsCurrent
<1>1. Init => LogsInv
  BY DEF Init, LogsInv, AccessClosed, MasterLogsCurrent, SeenTo, Logs
<1>2. TypeOK /\ LogsInv /\ [Next]_vars => LogsInv'
  <2> SUFFICES ASSUME TypeOK, LogsInv, [Next]_vars PROVE LogsInv'
    OBVIOUS
  <2> USE DEF TypeOK, LogsInv, AccessClosed, MasterLogsCurrent, SeenTo, Logs, master, pool, env
  <2>1. CASE TestReread  BY <2>1 DEF TestReread
  <2>2. CASE ClearReread  BY <2>2 DEF ClearReread
  <2>3. CASE ReopenErrorLog  BY <2>3 DEF ReopenErrorLog
  <2>4. CASE ReopenAccessLog  BY <2>4 DEF ReopenAccessLog
  <2>14. CASE ReopenErrorLogFails  BY <2>14 DEF ReopenErrorLogFails, OpenFails
  <2>15. CASE ReopenAccessLogFails
    <3>1. CASE rereadall  BY <2>15, <3>1 DEF ReopenAccessLogFails, OpenFails
    <3>2. CASE ~rereadall  BY <2>15, <3>2 DEF ReopenAccessLogFails, OpenFails
    <3>3. QED  BY <3>1, <3>2
  <2>5. CASE RotateAndHup  BY <2>5 DEF RotateAndHup
  <2>6. CASE UNCHANGED <<pc, rereadall, log, rotation, openerrors>>  BY <2>6
  <2>7. ASSUME pc' \notin {"clear", "reopenError", "reopenAccess"},
               pc \notin {"exited", "clear", "reopenError", "reopenAccess"},
               openerrors \subseteq openerrors', UNCHANGED <<rereadall, log, rotation>>
        PROVE LogsInv'
    BY <2>7
  <2>8. CASE MasterStep
    <3>1. CASE \/ TestReread \/ ClearReread \/ ReopenErrorLog \/ ReopenErrorLogFails
               \/ ReopenAccessLog \/ ReopenAccessLogFails
      BY <3>1, <2>1, <2>2, <2>3, <2>4, <2>14, <2>15
    <3>2. CASE RestartChilds \/ ReapDone \/ \E p \in Procs : Reap(p) \/ Fork(p)
      BY <3>2, <2>7 DEF RestartChilds, ReapDone, Reap, Fork
    <3>3. CASE ForkFails \/ ForkRetry \/ SpawnDone \/ CheckBacklog \/ CheckAgain
      BY <3>3, <2>7 DEF ForkFails, ForkRetry, SpawnDone, CheckBacklog, CheckAgain
    <3>4. QED  BY <2>8, <3>1, <3>2, <3>3 DEF MasterStep
  <2>9. CASE ExitProcess  BY <2>9 DEF ExitProcess
  <2>10. ASSUME NEW p \in Procs, WorkerStep(p) PROVE LogsInv'
    BY <2>10, <2>6 DEF WorkerStep, InstallSignals, AcceptClient, CloseBrowser, Crash,
                       WorkerSigInt
  <2>11. CASE Connect  BY <2>11, <2>6 DEF Connect
  <2>12. CASE UNCHANGED vars  BY <2>12, <2>6 DEF vars
  <2>13. QED
    BY <2>5, <2>8, <2>9, <2>10, <2>11, <2>12 DEF Next
<1>3. LogsInv => MasterLogsCurrent
  BY DEF LogsInv
<1>4. QED
  BY <1>1, <1>2, <1>3, TypeCorrect, PTL DEF Spec
-----------------------------------------------------------------------------
(* The refinement of Pool.                                                 *)

\* A step that leaves worker, backlog and the end of the master alone is a
\* stuttering step of the pool.
LEMMA HiddenStep ==
  ASSUME worker' = worker, backlog' = backlog, (pc' # "exited") = (pc # "exited")
  PROVE  UNCHANGED P!vars
<1>1. worker' = worker => [p \in Procs |-> AsSeen(p)]' = [p \in Procs |-> AsSeen(p)]
  BY DEF AsSeen
<1>2. QED
  BY <1>1 DEF P!vars

\* A step that changes one slot, from s to t, does so to the outside too.
LEMMA SlotStep ==
  ASSUME TypeOK, NEW p \in Procs, NEW t \in WorkerStates,
         worker' = [worker EXCEPT ![p] = t]
  PROVE  /\ [q \in Procs |-> AsSeen(q)]' =
              [[q \in Procs |-> AsSeen(q)] EXCEPT ![p] =
                  CASE t = "free" -> "free"
                    [] t \in {"forked", "waiting"} -> "idle"
                    [] t = "serving" -> "busy"
                    [] t = "closed" -> "spent"
                    [] t = "zombie" -> "dead"]
  BY DEF TypeOK, AsSeen, WorkerStates

LEMMA TakenIsUsed == TypeOK => P!Taken = Used
  BY DEF TypeOK, WorkerStates, P!Taken, Used, AsSeen

\* The supervisor implements the abstract pool: the count and the bound of the
\* pool make every fork one that Pool allows.
THEOREM PoolImplemented == Spec => ImplementsPool
<1>1. Init => P!Init
  BY DEF Init, P!Init, AsSeen
<1>2. TypeOK /\ InstancesCount /\ PoolBound /\ [Next]_vars => [P!Next]_(P!vars)
  <2> SUFFICES ASSUME TypeOK, InstancesCount, PoolBound, [Next]_vars
               PROVE  [P!Next]_(P!vars)
    OBVIOUS
  <2>1. ASSUME NEW p \in Procs, Fork(p) PROVE P!Next
    <3>1. Cardinality(P!Taken) < PoolMax
      BY <2>1, TakenIsUsed, PoolMaxInt, ConfigAssumption
         DEF Fork, SpawnNeeded, InstancesCount, PoolBound, TypeOK
    <3>2. P!Hire(p)
      <4>1. /\ worker[p] = "free" /\ worker' = [worker EXCEPT ![p] = "forked"]
            /\ pc = "spawn" /\ pc' = pc /\ backlog' = backlog
        BY <2>1 DEF Fork, env
      \* The instance has its own copy of FiniteSets.
      <4>2. P!Cardinality(P!Taken) = Cardinality(P!Taken)
        BY DEF Cardinality, P!Cardinality
      <4>3. QED
        BY <4>1, <4>2, <3>1, SlotStep DEF P!Hire, AsSeen, WorkerStates
    <3>3. QED  BY <3>2 DEF P!Next
  <2>2. ASSUME NEW p \in Procs, Reap(p) PROVE P!Next
    <3>1. P!Reap(p)
      BY <2>2, SlotStep DEF Reap, P!Reap, AsSeen, WorkerStates, env
    <3>2. QED  BY <3>1 DEF P!Next
  <2>3. CASE ExitProcess
    <3>1. P!Shutdown
      BY <2>3 DEF ExitProcess, P!Shutdown, AsSeen, TypeOK, WorkerStates
    <3>2. QED  BY <3>1 DEF P!Next
  <2>4. ASSUME NEW p \in Procs, WorkerStep(p) PROVE [P!Next]_(P!vars)
    <3>1. ASSUME Running(p), worker' = [worker EXCEPT ![p] = Ended],
                 backlog' = backlog, pc' = pc
          PROVE  P!Next
      <4>1. P!Die(p)
        BY <3>1, SlotStep DEF Running, Ended, P!Die, P!Alive, AsSeen, WorkerStates
      <4>2. QED  BY <4>1 DEF P!Next
    <3>2. CASE InstallSignals(p)
      <4>1. UNCHANGED P!vars
        BY <3>2, SlotStep DEF InstallSignals, AsSeen, WorkerStates, env, master,
                              P!vars, TypeOK
      <4>2. QED  BY <4>1
    <3>3. CASE AcceptClient(p)
      <4>1. P!Take(p)
        BY <3>3, SlotStep DEF AcceptClient, P!Take, AsSeen, WorkerStates, master
      <4>2. QED  BY <4>1 DEF P!Next
    <3>4. CASE CloseBrowser(p)
      <4>1. CASE worker' = [worker EXCEPT ![p] = "closed"]
        <5>1. P!Finish(p)
          BY <3>4, <4>1, SlotStep
             DEF CloseBrowser, P!Finish, AsSeen, WorkerStates, env, master
        <5>2. QED  BY <5>1 DEF P!Next
      <4>2. CASE worker' = [worker EXCEPT ![p] = Ended]
        BY <3>4, <4>2, <3>1 DEF CloseBrowser, Running, env, master
      <4>3. QED  BY <3>4, <4>1, <4>2 DEF CloseBrowser
    <3>5. CASE Crash(p)
      BY <3>5, <3>1 DEF Crash, master
    <3>6. CASE WorkerSigInt(p)
      BY <3>6, <3>1 DEF WorkerSigInt, env, master
    <3>7. QED  BY <2>4, <3>2, <3>3, <3>4, <3>5, <3>6 DEF WorkerStep
  <2>5. CASE Connect
    <3>1. P!Arrive
      BY <2>5 DEF Connect, P!Arrive, AsSeen, master, pool
    <3>2. QED  BY <3>1 DEF P!Next
  <2>6. CASE MasterStep
    <3>1. CASE \E p \in Procs : Reap(p) \/ Fork(p)
      BY <3>1, <2>1, <2>2
    <3>2. CASE ~ \E p \in Procs : Reap(p) \/ Fork(p)
      <4>1. /\ worker' = worker /\ backlog' = backlog
            /\ pc # "exited" /\ pc' # "exited"
        BY <2>6, <3>2 DEF MasterStep, TestReread, ClearReread, ReopenErrorLog,
           ReopenErrorLogFails, OpenFails, ReopenAccessLog, ReopenAccessLogFails, RestartChilds, ReapDone, ForkFails, ForkRetry, SpawnDone,
           CheckBacklog, CheckAgain, pool, env
      <4>2. QED  BY <4>1, HiddenStep
    <3>3. QED  BY <3>1, <3>2
  <2>7. CASE RotateAndHup
    BY <2>7, HiddenStep DEF RotateAndHup, pool
  <2>8. CASE UNCHANGED vars
    BY <2>8, HiddenStep DEF vars, master, pool, env
  <2>9. QED
    BY <2>3, <2>4, <2>5, <2>6, <2>7, <2>8 DEF Next
<1>3. QED
  BY <1>1, <1>2, TypeCorrect, InstancesCounted, PoolBounded, PTL
     DEF Spec, ImplementsPool, P!Spec
=============================================================================
