----------------------------- MODULE Supervisor -----------------------------
(***************************************************************************)
(* The pre-forked process pool of thunder.cpp: one master process that     *)
(* forks proxy workers, reaps them, grows the pool under load and reopens  *)
(* its logs on SIGHUP, and the workers as far as the master, the listening *)
(* socket and the signals can see them.  What a worker does with the       *)
(* connection it accepted is the subject of ProxySession.                  *)
(*                                                                         *)
(* The master is sequential; pc is its place in the server loop.  Signals  *)
(* are delivered between any two of its steps.                             *)
(***************************************************************************)
EXTENDS Integers, FiniteSets

CONSTANTS
    Procs,          \* the slots the process table grants to the workers
    SERVERNUMBER,   \* workers started at once (thunder.conf)
    MAXSERVERS,     \* limit of the growth (thunder.conf)
    USESYSLOG,      \* TRUE: logs go to syslog
    ClosedFdOutcomes, \* what FD_SET(-1, ..) may do in this build: "abort", "stall"
    MaxConns,       \* bound: connections the clients open
    MaxHups,        \* bound: log rotations, each followed by SIGHUP
    MaxCrashes,     \* bound: workers that die of a bug or a kill
    MaxForkErrors,  \* bound: fork() failures although a slot is free (memory)
    MaxOpenErrors,  \* bound: rotations after which an open() of a log fails
    MaxTerms,       \* bound: 1 if the master may get SIGTERM, else 0
    Leader          \* the master leads its process group, as setsid() makes it

\* Params::TestConfig refuses SERVERNUMBER < 1 and says nothing of MAXSERVERS.
ASSUME ConfigAssumption ==
    /\ SERVERNUMBER \in Nat \ {0}
    /\ MAXSERVERS \in Int
    /\ USESYSLOG \in BOOLEAN
    /\ ClosedFdOutcomes \subseteq {"abort", "stall"}
    /\ Leader \in BOOLEAN
    /\ IsFiniteSet(Procs)

ASSUME BoundAssumption ==
    /\ MaxConns \in Nat /\ MaxHups \in Nat /\ MaxCrashes \in Nat
    /\ MaxForkErrors \in Nat /\ MaxOpenErrors \in Nat /\ MaxTerms \in Nat

VARIABLES
    pc,             \* place of the master in its loop
    rereadall,      \* set by the SIGHUP handler
    restartchilds,
    Instances,      \* the master's count of its workers
    startchild,     \* workers still to be forked on top of SERVERNUMBER
    hangup,         \* the first look at the listening socket found a client
    worker,         \* state of each process slot
    childrestart,   \* SIGUSR1 reached the worker after its handler was set
    sigint,         \* SIGINT is pending in the worker
    backlog,        \* connections waiting in the listening socket
    log,            \* rotation each of the master's log descriptors belongs to
    workerlog,      \* the same for the descriptors each worker inherited
    rotation,       \* rotations of the log files so far
    openerrors,     \* the rotations after which an open() failed
    conns, crashes, forkerrors, terms   \* what the bounds count

master == <<pc, rereadall, restartchilds, Instances, startchild, hangup, log>>
pool == <<worker, childrestart, sigint, workerlog>>
env == <<backlog, rotation, openerrors, conns, crashes, forkerrors, terms>>
vars == <<master, pool, env>>

Logs == {"error", "access"}

\* What log holds of a descriptor that is closed.
Closed == -1

WorkerStates == {"free", "forked", "waiting", "serving", "closed", "zombie"}
MasterPlaces == {"reread", "clear", "reopenError", "reopenAccess", "restart",
                 "reap", "spawn", "forkwait", "check", "checkagain", "exited"}

Running(p) == worker[p] \in {"forked", "waiting", "serving", "closed"}
Used == {p \in Procs : worker[p] # "free"}
Free == Procs \ Used
Zombies == {p \in Procs : worker[p] = "zombie"}
Live == {p \in Procs : Running(p)}

TypeOK ==
    /\ pc \in MasterPlaces
    /\ rereadall \in BOOLEAN /\ restartchilds \in BOOLEAN /\ hangup \in BOOLEAN
    /\ Instances \in Int
    /\ startchild \in Nat
    /\ worker \in [Procs -> WorkerStates]
    /\ childrestart \in [Procs -> BOOLEAN]
    /\ sigint \in [Procs -> BOOLEAN]
    /\ log \in [Logs -> Nat \cup {Closed}]
    /\ workerlog \in [Procs -> [Logs -> Nat \cup {Closed}]]
    /\ rotation \in Nat /\ openerrors \subseteq Nat /\ backlog \in Nat
    /\ conns \in Nat /\ crashes \in Nat /\ forkerrors \in Nat /\ terms \in Nat

Init ==
    /\ pc = "reread"
    /\ rereadall = FALSE /\ restartchilds = FALSE /\ hangup = FALSE
    /\ Instances = 0 /\ startchild = 0
    /\ worker = [p \in Procs |-> "free"]
    /\ childrestart = [p \in Procs |-> FALSE]
    /\ sigint = [p \in Procs |-> FALSE]
    /\ log = [l \in Logs |-> 0]
    /\ workerlog = [p \in Procs |-> [l \in Logs |-> 0]]
    /\ backlog = 0 /\ rotation = 0 /\ openerrors = {}
    /\ conns = 0 /\ crashes = 0 /\ forkerrors = 0 /\ terms = 0

-----------------------------------------------------------------------------
(* The master's loop.                                                      *)

\* if ( rereadall ): the flag is read ...
TestReread ==
    /\ pc = "reread"
    /\ pc' = IF rereadall THEN "clear" ELSE "restart"
    /\ UNCHANGED <<rereadall, restartchilds, Instances, startchild, hangup, log, pool, env>>

\* ... and cleared, before the logs are reopened.
ClearReread ==
    /\ pc = "clear"
    /\ rereadall' = FALSE
    /\ pc' = "reopenError"
    /\ UNCHANGED <<restartchilds, Instances, startchild, hangup, log, pool, env>>

\* LogFile::InitLogFiles closes both descriptors and opens the error log first;
\* with syslog it returns early.
ReopenErrorLog ==
    /\ pc = "reopenError"
    /\ log' = IF USESYSLOG THEN log
              ELSE [l \in Logs |-> IF l = "error" THEN rotation ELSE Closed]
    /\ pc' = "reopenAccess"
    /\ UNCHANGED <<rereadall, restartchilds, Instances, startchild, hangup, pool, env>>

\* An open() of this rotation's log fails: no space, no permission, no descriptor.
OpenFails ==
    /\ ~USESYSLOG
    /\ openerrors' = openerrors \cup {rotation}
    /\ Cardinality(openerrors') <= MaxOpenErrors

\* InitLogFiles gives up with both logs closed, and nobody looks at its result.
ReopenErrorLogFails ==
    /\ pc = "reopenError"
    /\ OpenFails
    /\ log' = [l \in Logs |-> Closed]
    /\ restartchilds' = TRUE
    /\ pc' = "restart"
    /\ UNCHANGED <<rereadall, Instances, startchild, hangup, pool,
                   backlog, rotation, conns, crashes, forkerrors, terms>>

\* Variant (mutant): the flag is cleared when the logs have been reopened.
ReopenAccessLog_ClearLate ==
    /\ pc = "reopenAccess"
    /\ log' = IF USESYSLOG THEN log ELSE [log EXCEPT !["access"] = rotation]
    /\ restartchilds' = (restartchilds \/ ~USESYSLOG)
    /\ rereadall' = FALSE
    /\ pc' = "restart"
    /\ UNCHANGED <<Instances, startchild, hangup, pool, env>>

ReopenAccessLog ==
    /\ pc = "reopenAccess"
    /\ log' = IF USESYSLOG THEN log ELSE [log EXCEPT !["access"] = rotation]
    /\ restartchilds' = (restartchilds \/ ~USESYSLOG)
    /\ pc' = "restart"
    /\ UNCHANGED <<rereadall, Instances, startchild, hangup, pool, env>>

\* The access log stays closed; the workers are told to restart all the same.
ReopenAccessLogFails ==
    /\ pc = "reopenAccess"
    /\ OpenFails
    /\ restartchilds' = TRUE
    /\ pc' = "restart"
    /\ UNCHANGED <<rereadall, Instances, startchild, hangup, log, pool,
                   backlog, rotation, conns, crashes, forkerrors, terms>>

\* killpg(SIGUSR1): the master ignores it, and so does a worker that has not
\* installed its own handlers yet.
RestartChilds ==
    /\ pc = "restart"
    /\ pc' = "reap"
    /\ restartchilds' = FALSE
    /\ childrestart' = [p \in Procs |->
            childrestart[p] \/ (restartchilds /\ Running(p) /\ worker[p] # "forked")]
    /\ UNCHANGED <<rereadall, Instances, startchild, hangup, log,
                   worker, sigint, workerlog, env>>

\* Variant (mutant): the loop reaps and forgets to count.
Reap_NoCount(p) ==
    /\ pc = "reap"
    /\ worker[p] = "zombie"
    /\ worker' = [worker EXCEPT ![p] = "free"]
    /\ UNCHANGED <<pc, Instances, rereadall, restartchilds, startchild, hangup, log,
                   childrestart, sigint, workerlog, env>>

\* waitpid(WNOHANG) returned a worker, which frees its slot.
Reap(p) ==
    /\ pc = "reap"
    /\ worker[p] = "zombie"
    /\ worker' = [worker EXCEPT ![p] = "free"]
    /\ Instances' = Instances - 1
    /\ UNCHANGED <<pc, rereadall, restartchilds, startchild, hangup, log,
                   childrestart, sigint, workerlog, env>>

ReapDone ==
    /\ pc = "reap"
    /\ Zombies = {}
    /\ pc' = "spawn"
    /\ UNCHANGED <<rereadall, restartchilds, Instances, startchild, hangup, log, pool, env>>

SpawnNeeded == startchild > 0 \/ Instances < SERVERNUMBER

\* What the parent does of startchild after a fork.
\* Variant (mutant): it is counted down for the first SERVERNUMBER workers too.
StartchildAfterFork_Always == startchild - 1

StartchildAfterFork == IF startchild > 0 THEN startchild - 1 ELSE startchild

\* fork() takes a free slot; the worker inherits the handlers and the logs.
Fork(p) ==
    /\ pc = "spawn"
    /\ SpawnNeeded
    /\ worker[p] = "free"
    /\ worker' = [worker EXCEPT ![p] = "forked"]
    /\ childrestart' = [childrestart EXCEPT ![p] = FALSE]
    /\ sigint' = [sigint EXCEPT ![p] = FALSE]
    /\ workerlog' = [workerlog EXCEPT ![p] = log]
    /\ startchild' = StartchildAfterFork
    /\ Instances' = Instances + 1
    /\ UNCHANGED <<pc, rereadall, restartchilds, hangup, log, env>>

\* fork() failed for want of a slot, or of memory: log it and sleep(10) ...
ForkFails ==
    /\ pc = "spawn"
    /\ SpawnNeeded
    /\ \/ Free = {} /\ forkerrors' = forkerrors
       \/ forkerrors < MaxForkErrors /\ forkerrors' = forkerrors + 1
    /\ pc' = "forkwait"
    /\ UNCHANGED <<rereadall, restartchilds, Instances, startchild, hangup, log, pool,
                   backlog, rotation, openerrors, conns, crashes, terms>>

\* ... then try again, without a waitpid() in between.
ForkRetry ==
    /\ pc = "forkwait"
    /\ pc' = "spawn"
    /\ UNCHANGED <<rereadall, restartchilds, Instances, startchild, hangup, log, pool, env>>

SpawnDone ==
    /\ pc = "spawn"
    /\ ~SpawnNeeded
    /\ pc' = "check"
    /\ UNCHANGED <<rereadall, restartchilds, Instances, startchild, hangup, log, pool, env>>

\* if ( Instances >= servernumber ): hangup = CheckForData(0), then sleep(1).
CheckBacklog ==
    /\ pc = "check"
    /\ IF Instances >= SERVERNUMBER
          THEN hangup' = (backlog > 0) /\ pc' = "checkagain"
          ELSE hangup' = hangup /\ pc' = "reread"
    /\ UNCHANGED <<rereadall, restartchilds, Instances, startchild, log, pool, env>>

\* Variants (mutants): the limit is off by one, or is the wrong parameter.
MayGrow_AtLimit == hangup /\ Instances <= MAXSERVERS /\ backlog > 0
MayGrow_ServerNumber == hangup /\ Instances < SERVERNUMBER /\ backlog > 0

\* A client waited a second ago, the pool may grow, and a client waits now.
MayGrow == hangup /\ Instances < MAXSERVERS /\ backlog > 0

CheckAgain ==
    /\ pc = "checkagain"
    /\ startchild' = IF MayGrow THEN startchild + 2 ELSE startchild
    /\ pc' = "reread"
    /\ UNCHANGED <<rereadall, restartchilds, Instances, hangup, log, pool, env>>

\* killpg reaches every process of the group.
\* Variant (mutant): only the workers that installed their handlers.
InGroup_Installed(p) == Running(p) /\ worker[p] # "forked"

InGroup(p) == Running(p)

\* The ExitProcess handler: killpg(SIGINT) if the master leads its group, exit(0).
\* Its dead workers pass to init, which reaps them.
ExitProcess ==
    /\ pc # "exited"
    /\ terms < MaxTerms
    /\ terms' = terms + 1
    /\ pc' = "exited"
    /\ sigint' = [p \in Procs |-> sigint[p] \/ (Leader /\ InGroup(p))]
    /\ worker' = [p \in Procs |-> IF worker[p] = "zombie" THEN "free" ELSE worker[p]]
    /\ UNCHANGED <<rereadall, restartchilds, Instances, startchild, hangup, log,
                   childrestart, workerlog, backlog, rotation, openerrors, conns, crashes, forkerrors>>

MasterStep ==
    \/ TestReread \/ ClearReread \/ ReopenErrorLog \/ ReopenErrorLogFails
    \/ ReopenAccessLog \/ ReopenAccessLogFails
    \/ RestartChilds \/ ReapDone
    \/ \E p \in Procs : Reap(p) \/ Fork(p)
    \/ ForkFails \/ ForkRetry \/ SpawnDone \/ CheckBacklog \/ CheckAgain

-----------------------------------------------------------------------------
(* The workers, and what the master sees of them.                          *)

\* A worker that ends is a zombie of the master, or is reaped by init.
Ended == IF pc = "exited" THEN "free" ELSE "zombie"

InstallSignals(p) ==
    /\ worker[p] = "forked"
    /\ worker' = [worker EXCEPT ![p] = "waiting"]
    /\ UNCHANGED <<master, childrestart, sigint, workerlog, env>>

AcceptClient(p) ==
    /\ worker[p] = "waiting"
    /\ backlog > 0
    /\ backlog' = backlog - 1
    /\ worker' = [worker EXCEPT ![p] = "serving"]
    /\ UNCHANGED <<master, childrestart, sigint, workerlog,
                   rotation, openerrors, conns, crashes, forkerrors, terms>>

\* The browser connection is closed and the loop goes on with sock_fd = -1.
\* FD_SET(-1, ..) is undefined: a fortified build aborts the worker, another
\* lets it time out in select() for ever.  It never calls AcceptClient again.
CloseBrowser(p) ==
    /\ worker[p] = "serving"
    /\ \E outcome \in ClosedFdOutcomes :
          worker' = [worker EXCEPT ![p] = IF outcome = "stall" THEN "closed" ELSE Ended]
    /\ UNCHANGED <<master, childrestart, sigint, workerlog, env>>

Crash(p) ==
    /\ Running(p)
    /\ crashes < MaxCrashes
    /\ crashes' = crashes + 1
    /\ worker' = [worker EXCEPT ![p] = Ended]
    /\ UNCHANGED <<master, childrestart, sigint, workerlog,
                   backlog, rotation, openerrors, conns, forkerrors, terms>>

\* The ExitProcess handler in a worker: exit(0).
WorkerSigInt(p) ==
    /\ Running(p)
    /\ sigint[p]
    /\ worker' = [worker EXCEPT ![p] = Ended]
    /\ UNCHANGED <<master, childrestart, sigint, workerlog, env>>

WorkerStep(p) ==
    \/ InstallSignals(p) \/ AcceptClient(p) \/ CloseBrowser(p)
    \/ Crash(p) \/ WorkerSigInt(p)

-----------------------------------------------------------------------------
(* Clients and the administrator.                                          *)

Connect ==
    /\ conns < MaxConns
    /\ pc # "exited"
    /\ conns' = conns + 1
    /\ backlog' = backlog + 1
    /\ UNCHANGED <<master, pool, rotation, openerrors, crashes, forkerrors, terms>>

\* The log files are rotated and the master gets SIGHUP: RereadAll.
RotateAndHup ==
    /\ rotation < MaxHups
    /\ pc # "exited"
    /\ rotation' = rotation + 1
    /\ rereadall' = TRUE
    /\ UNCHANGED <<pc, restartchilds, Instances, startchild, hangup, log,
                   pool, backlog, openerrors, conns, crashes, forkerrors, terms>>

Next ==
    \/ MasterStep
    \/ ExitProcess
    \/ \E p \in Procs : WorkerStep(p)
    \/ Connect
    \/ RotateAndHup

Spec == Init /\ [][Next]_vars

(***************************************************************************)
(* Fairness: the scheduler runs the master and every worker that can run,  *)
(* accept() returns when a client waits, and a pending SIGINT is           *)
(* delivered.  Nothing is assumed of clients, of crashes, of the           *)
(* administrator, or of the end of a connection.                           *)
(***************************************************************************)
Fairness ==
    /\ WF_vars(MasterStep)
    /\ WF_vars(\E p \in Procs : AcceptClient(p))
    /\ \A p \in Procs : WF_vars(InstallSignals(p)) /\ WF_vars(WorkerSigInt(p))

FairSpec == Spec /\ Fairness

\* Only where it is said: every browser connection ends, too, be it by the
\* ten seconds a worker grants an idle one.
EndingSpec == FairSpec /\ \A p \in Procs : WF_vars(CloseBrowser(p))

-----------------------------------------------------------------------------
(* Safety.                                                                 *)

\* The master never loses or invents a worker: while it runs, its count is
\* the number of slots it has not reaped, whatever dies in between.
InstancesCount ==
    pc # "exited" => Instances = Cardinality(Used)

\* What the guards of the loop promise together: the growth by two can
\* overshoot MAXSERVERS by one worker, and never by more.
PoolMax == IF SERVERNUMBER > MAXSERVERS + 1 THEN SERVERNUMBER ELSE MAXSERVERS + 1

PoolBound == Instances + startchild <= PoolMax

\* The retry loop around fork() does not reap.  It cannot be caught in it
\* for want of a slot when the table has room for PoolMax workers: whenever
\* the master wants a worker, a slot is free.
SlotForFork ==
    pc \in {"spawn", "forkwait"} /\ SpawnNeeded /\ Cardinality(Procs) >= PoolMax
        => Free # {}

\* No SIGHUP is lost, not even one that arrives while the logs are being
\* reopened for an older one: unless it has a rotation yet to see to, the
\* master writes to the newest files.  It never settles on a rotated one: a log
\* that is not the newest is closed, and only if an open() failed after that
\* very rotation (nobody looks at what InitLogFiles returned).
SeenTo(l) == log[l] = rotation \/ (log[l] = Closed /\ rotation \in openerrors)

MasterLogsCurrent ==
    pc \notin {"exited", "clear", "reopenError"} /\ ~USESYSLOG /\ ~rereadall
        => /\ SeenTo("error")
           /\ pc # "reopenAccess" => SeenTo("access")

\* What a slot of the process table is to the outside: the handlers a worker
\* has or has not installed yet, and all of the master's loop, are hidden.
AsSeen(p) ==
    CASE worker[p] = "free" -> "free"
      [] worker[p] \in {"forked", "waiting"} -> "idle"
      [] worker[p] = "serving" -> "busy"
      [] worker[p] = "closed" -> "spent"
      [] worker[p] = "zombie" -> "dead"

P == INSTANCE Pool WITH
    Slots <- Procs, Size <- PoolMax,
    open <- pc # "exited", slot <- [p \in Procs |-> AsSeen(p)], waiting <- backlog

\* The supervisor implements the pool: every fork finds the pool below PoolMax
\* (though the decision to grow is a second old and by two), every death is
\* reaped once before its slot is used again, no worker takes two clients, and
\* no step of the master after SIGTERM brings a worker back.
ImplementsPool == P!Spec

-----------------------------------------------------------------------------
(* Liveness.                                                               *)

Down == pc = "exited"

\* Workers that died are replaced: when the deaths stop, the pool ends up with
\* SERVERNUMBER running workers and keeps them.
PoolReplenished ==
    <>[](Down \/ Cardinality(Live) >= SERVERNUMBER)

\* A backlog makes the pool grow: while it is below MAXSERVERS a waiting
\* client is always accepted in the end, though no worker accepts twice.
BacklogServed ==
    (backlog > 0) ~> (Down \/ backlog = 0 \/ Instances >= MAXSERVERS)

\* SIGTERM to a master that leads its group ends the whole service, workers
\* that were forked a moment ago included.
ShutdownComplete ==
    Leader /\ Down ~> \A p \in Procs : worker[p] = "free"

\* thunder.cpp: "Send restart signal to childs if needed".  The signal is
\* sent so that the workers, too, write to the new logs.
WorkerLogsCurrent ==
    \A n \in 1..MaxHups : \A p \in Procs :
        (rotation >= n /\ Running(p)) ~> (Down \/ ~Running(p) \/
                                         \A l \in Logs : workerlog[p][l] >= n)

\* proxyhandler.cpp: "Wait for first connection", then "New connection
\* needed?" for the next one: every client is accepted in the end.
EveryClientAccepted ==
    (backlog > 0) ~> (Down \/ backlog = 0)
=============================================================================
