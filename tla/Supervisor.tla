----------------------------- MODULE Supervisor -----------------------------
(***************************************************************************)
(* The process the user starts (mosec/server.py, mosec/runtime.py): it     *)
(* starts the Rust service, keeps the worker processes of every stage      *)
(* alive, and on a signal, a dead stage or a dead service drains the       *)
(* service before it lets the workers go.  A check of a stage is a         *)
(* snapshot and then one start per missing worker, because workers may die *)
(* and signals may come in between.  Stages are numbered as they were      *)
(* appended.  The environment of the process is followed for one variable, *)
(* which the runtimes of some stages set for their workers (mosec/env.py). *)
(***************************************************************************)
EXTENDS Integers

CONSTANTS
  Last,          \* the number of stages
  Num,           \* stage -> its number of workers
  MaxDeaths,     \* bound: workers that die of themselves
  SetsEnv,       \* the stages whose runtime has env: a value for each worker
  MayCrash       \* whether the service may exit unasked, and a start may fail

VARIABLES
  pc,            \* the server process
  stage,         \* the stage being checked
  need,          \* need_start_id, the workers of it to start
  init,          \* whether this is the first check
  stop,          \* _server_shutdown
  notify,        \* _shutdown_notify
  shutdown,      \* _shutdown
  rs,            \* the Rust service
  stuck,         \* workers that its end caught in the middle of a payload
  daemon,        \* a process of the user's, registered with register_daemon
  environ,       \* the variable: Unset, Empty, or the Users value
  seen,          \* stage -> worker -> the value its last process started with
  slot,          \* _pool: stage -> worker -> its process, 0 for None
  made,          \* processes started so far
  alive,         \* worker processes that run, as <<stage, worker, process>>
  deaths         \* workers that died of themselves

local == <<stage, need, init>>

flags == <<stop, notify, shutdown>>

workers == <<slot, made, alive, deaths>>

service == <<rs, stuck>>

outside == <<daemon, environ, seen>>

sVars == <<pc, local, flags, service, workers, outside>>

Stages == 1 .. Last

Ids(s) == 1 .. Num[s]

ASSUME SupervisorAssumption ==
  /\ Last \in Nat \ {0}
  /\ DOMAIN Num = Stages
  /\ \A s \in Stages : Num[s] \in Nat \ {0}
  /\ MaxDeaths \in Nat /\ SetsEnv \subseteq Stages
  /\ MayCrash \in BOOLEAN

(* _process_healthy. *)
Healthy(s, w) == slot[s][w] # 0 /\ <<s, w, slot[s][w]>> \in alive

Goto(label) == pc' = label

-----------------------------------------------------------------------------
(* _start_rs_runtime; an exception goes on to _halt. *)
StartService ==
  /\ pc = "boot"
  /\ \/ stop /\ rs' = rs /\ Goto("loop")
     \/ ~stop /\ rs' = "up" /\ Goto("loop")
     \/ MayCrash /\ rs' = rs /\ Goto("halt")
  /\ UNCHANGED <<local, flags, stuck, workers, outside>>

(* _manage_py_runtime. *)
LoopHead ==
  /\ pc = "loop"
  /\ \/ stop /\ Goto("halt") /\ stage' = stage
     \/ ~stop /\ Goto("check") /\ stage' = 1
  /\ UNCHANGED <<need, init, flags, service, workers, outside>>

(* The next stage, or the end of check_and_start. *)
NextStage ==
  IF stage < Last THEN Goto("check") /\ stage' = stage + 1 /\ init' = init
  ELSE Goto("daemon") /\ stage' = stage /\ init' = FALSE

(* Mutations of Missing: one healthy worker will do; all are started. *)
MissingAny(s) ==
  IF \E w \in Ids(s) : Healthy(s, w) THEN {} ELSE Ids(s)

MissingAll(s) == Ids(s)

(* The workers of a stage that are not healthy. *)
Missing(s) == {w \in Ids(s) : ~Healthy(s, w)}

(* _check: the snapshot of a stage and what it leads to. *)
Check ==
  /\ pc = "check"
  /\ slot' = [slot EXCEPT ![stage] =
                [w \in Ids(stage) |-> IF Healthy(stage, w) THEN @[w] ELSE 0]]
  /\ \/ /\ Missing(stage) = {}
        /\ NextStage
        /\ UNCHANGED <<need, stop>>
     \/ /\ Missing(stage) # {}
        /\ ~init /\ \A w \in Ids(stage) : ~Healthy(stage, w)
        /\ stop' = TRUE
        /\ Goto("daemon") /\ init' = FALSE
        /\ UNCHANGED <<stage, need>>
     \/ /\ Missing(stage) # {}
        /\ init \/ \E w \in Ids(stage) : Healthy(stage, w)
        /\ need' = Missing(stage)
        /\ Goto("start")
        /\ UNCHANGED <<stage, init, stop>>
  /\ UNCHANGED <<notify, shutdown, service, made, alive, deaths, outside>>

(* Values of the variable: none, the empty string, the one the user's      *)
(* shell has set, and the one a runtime has configured for a worker.       *)
Unset == << >>

Empty == <<"">>

Users == <<"users">>

Configured(s, w) == <<s, w>>

(* Mutation of Restored: nothing is put back. *)
RestoredNever(s) ==
  IF s \in SetsEnv
  THEN Configured(s, CHOOSE w \in need : \A v \in need : w <= v) ELSE environ

(* env_var_context: what it puts back, whether or not the start succeeds.  *)
(* A variable that was not set comes back empty.                           *)
Restored(s) == IF s \in SetsEnv /\ environ = Unset THEN Empty ELSE environ

(* _start_process, in the order of the ids: the process inherits the       *)
(* environment of the moment.                                              *)
StartWorker ==
  /\ pc = "start"
  /\ need # {}
  /\ LET w == CHOOSE w \in need : \A v \in need : w <= v
     IN /\ need' = need \ {w}
        /\ slot' = [slot EXCEPT ![stage][w] = made + 1]
        /\ alive' = alive \cup {<<stage, w, made + 1>>}
        /\ seen' = [seen EXCEPT ![stage][w] =
                      IF stage \in SetsEnv THEN Configured(stage, w) ELSE environ]
  /\ environ' = Restored(stage)
  /\ made' = made + 1
  /\ UNCHANGED <<pc, stage, init, flags, service, deaths, daemon>>

(* A start raises: the loop is left for _halt. *)
StartRaises ==
  /\ pc = "start"
  /\ MayCrash /\ need # {}
  /\ need' = {}
  /\ environ' = Restored(stage)
  /\ Goto("halt")
  /\ UNCHANGED <<stage, init, flags, service, workers, daemon, seen>>

StageStarted ==
  /\ pc = "start"
  /\ need = {}
  /\ NextStage
  /\ UNCHANGED <<need, flags, service, workers, outside>>

(* _check_daemon: the service and the user's daemon must not exit. *)
CheckDaemon ==
  /\ pc = "daemon"
  /\ stop' = (stop \/ rs = "gone" \/ daemon = "gone")
  /\ Goto("loop")
  /\ UNCHANGED <<local, notify, shutdown, service, workers, outside>>

-----------------------------------------------------------------------------
(* The service is gone.  A worker that was reading a payload spins in       *)
(* _recv_all from now on: it takes no notice of the closed connection.     *)
ServiceGone ==
  /\ rs' = "gone"
  /\ stuck' \in IF rs = "gone" THEN {stuck} ELSE SUBSET alive

(* _halt: SIGTERM to the service, if there is one. *)
Halt ==
  /\ pc = "halt"
  /\ notify' = TRUE
  /\ \/ rs = "none" /\ rs' = rs /\ Goto("release")
     \/ rs # "none" /\ rs' = (IF rs = "up" THEN "draining" ELSE rs) /\ Goto("drain")
  /\ UNCHANGED <<local, stop, shutdown, stuck, workers, outside>>

(* The service exits within the graceful period. *)
Drained ==
  /\ pc = "drain"
  /\ rs = "gone"
  /\ Goto("release")
  /\ UNCHANGED <<local, flags, service, workers, outside>>

(* Mutation of Kill: the server waits for as long as it takes. *)
KillNever == pc = "none" /\ UNCHANGED sVars

(* The period is over: kill. *)
Kill ==
  /\ pc = "drain"
  /\ ServiceGone
  /\ Goto("release")
  /\ UNCHANGED <<local, flags, workers, outside>>

Release ==
  /\ pc = "release"
  /\ shutdown' = TRUE
  /\ Goto("done")
  /\ UNCHANGED <<local, stop, notify, service, workers, outside>>

-----------------------------------------------------------------------------
(* SIGTERM or SIGINT. *)
Signal ==
  /\ ~stop
  /\ stop' = TRUE
  /\ UNCHANGED <<pc, local, notify, shutdown, service, workers, outside>>

(* The service ends: asked to, or of itself. *)
ServiceExit ==
  /\ rs = "draining" \/ (MayCrash /\ rs = "up")
  /\ ServiceGone
  /\ UNCHANGED <<pc, local, flags, workers, outside>>

(* The user's daemon ends; nobody stops it. *)
DaemonExit ==
  /\ daemon = "up"
  /\ daemon' = "gone"
  /\ UNCHANGED <<pc, local, flags, service, workers, environ, seen>>

(* A worker dies, in user code or by the system. *)
WorkerDies ==
  /\ deaths < MaxDeaths
  /\ deaths' = deaths + 1
  /\ \E p \in alive : alive' = alive \ {p}
  /\ UNCHANGED <<pc, local, flags, service, slot, made, outside>>

(* A worker ends, because of the shutdown event or because the service at  *)
(* the other end of its socket is gone, unless it is stuck.                *)
WorkerEnds ==
  /\ shutdown \/ rs = "gone"
  /\ \E p \in alive \ stuck : alive' = alive \ {p}
  /\ UNCHANGED <<pc, local, flags, service, slot, made, deaths, outside>>

-----------------------------------------------------------------------------
SInit ==
  /\ pc = "boot" /\ stage = 1 /\ need = {} /\ init = TRUE
  /\ stop = FALSE /\ notify = FALSE /\ shutdown = FALSE
  /\ rs = "none" /\ stuck = {}
  /\ slot = [s \in Stages |-> [w \in Ids(s) |-> 0]]
  /\ made = 0 /\ alive = {} /\ deaths = 0
  /\ daemon \in {"none", "up"} /\ environ \in {Unset, Users}
  /\ seen = [s \in Stages |-> [w \in Ids(s) |-> Unset]]

Managing ==
  \/ StartService \/ LoopHead \/ Check \/ StartWorker \/ StartRaises
  \/ StageStarted \/ CheckDaemon

Halting == Halt \/ Drained \/ Release

SNext ==
  \/ Managing \/ Halting \/ Kill
  \/ Signal \/ ServiceExit \/ DaemonExit \/ WorkerDies \/ WorkerEnds

SSpec == SInit /\ [][SNext]_sVars

(* The server process runs, its clock passes the graceful period, and a    *)
(* worker that was let go ends if it can see that it was.  Nothing makes   *)
(* the service drain, and nothing ends a worker that is stuck.             *)
SFairSpec ==
  /\ SSpec
  /\ WF_sVars(Managing) /\ WF_sVars(Halting) /\ WF_sVars(Kill) /\ WF_sVars(WorkerEnds)

-----------------------------------------------------------------------------
(* Every worker that runs is the process its slot of the pool holds: a     *)
(* worker is replaced when it is dead and never while it runs, so no id is *)
(* taken twice and none is lost sight of.                                  *)
Tracked ==
  \A p \in alive : slot[p[1]][p[2]] = p[3]

(* A worker sees the value its runtime has configured for it, and one      *)
(* without a configured value never sees another's: only the user's own,   *)
(* or nothing.  (Nothing may be the empty string after another stage has   *)
(* been started.)                                                          *)
OwnEnvironment ==
  \A p \in alive :
    seen[p[1]][p[2]] \in
      IF p[1] \in SetsEnv THEN {Configured(p[1], p[2])} ELSE {Unset, Empty, Users}

(* A stage that has lost a worker comes back to its full number, or the    *)
(* service is stopped.                                                     *)
Recovers ==
  \A s \in Stages :
    (\E w \in Ids(s) : ~Healthy(s, w)) ~> ((\A w \in Ids(s) : Healthy(s, w)) \/ stop \/ pc = "done")

(* Once it is to stop, by a signal, a failed stage, an exception or the    *)
(* end of the service or of a daemon, everything stops: the service,       *)
(* whether or not it drains in time, and every worker but those that the   *)
(* end of the service caught in the middle of a payload.                   *)
Stops ==
  (stop \/ pc = "halt" \/ rs = "gone" \/ daemon = "gone") ~>
    (pc = "done" /\ rs \in {"none", "gone"} /\ alive \subseteq stuck)
=============================================================================
