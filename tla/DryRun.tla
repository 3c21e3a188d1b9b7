------------------------------- MODULE DryRun -------------------------------
(***************************************************************************)
(* The dry run (mosec/dry_run.py): for each endpoint one process per stage *)
(* is started, an example is sent through the pipes that join them, and    *)
(* the processes are waited for.  One event, shutdown_notify, tells the    *)
(* processes of an endpoint to leave, reports an exception, and records a  *)
(* signal.                                                                 *)
(***************************************************************************)
EXTENDS Schema

CONSTANTS
  MayFail,       \* whether user code may raise or a process may die
  MaySignal      \* whether a termination signal may come

VARIABLES
  router,        \* Server._router: the routes, each [endpoint, pipeline] with
                 \* the ids of its runtimes
  object,        \* the Runtime objects: id -> [worker, num, batch, ...]
  pc,            \* DryRunner.run and warmup
  at,            \* the endpoint
  code,          \* the exit code, -1 while it runs
  joined,        \* processes wait_all is done with
  notify,        \* shutdown_notify
  proc,          \* stage -> its process
  full,          \* the pipes that hold data; pipe k leaves stage k
  passed,        \* endpoints whose example came through
  failed,        \* whether a process died or raised
  signalled      \* whether a signal came

history == <<passed, failed, signalled>>

dVars == <<pc, at, code, joined, notify, proc, full, history>>

ASSUME DryRunAssumption == MayFail \in BOOLEAN /\ MaySignal \in BOOLEAN

Depth == Len(router[at].pipeline)

(* warmup: whether the first stage of an endpoint has an example. *)
HasExample(e) == Workers[object[router[e].pipeline[1]].worker].example

Stages == 1 .. Depth

Ended(k) == proc[k] \in {"ok", "bad"}

Goto(label) == pc' = label

(* sys.exit, or the end of run. *)
Exit(c) == Goto("exit") /\ code' = c

-----------------------------------------------------------------------------
(* The pool of an endpoint. *)
StartPool ==
  /\ pc = "start" /\ at <= Len(router)
  /\ proc' = [k \in Stages |-> "init"]
  /\ full' = {}
  /\ joined' = 0
  /\ Goto(IF HasExample(at) THEN "send" ELSE "release")
  /\ UNCHANGED <<at, code, notify, history>>

(* warmup: the example enters the first pipe. *)
SendExample ==
  /\ pc = "send"
  /\ full' = full \cup {0}
  /\ Goto("poll")
  /\ UNCHANGED <<at, code, joined, notify, proc, history>>

(* The loop over the last pipe. *)
Poll ==
  /\ pc = "poll"
  /\ Goto(IF notify \/ Depth \in full THEN "result" ELSE "probe")
  /\ UNCHANGED <<at, code, joined, notify, proc, full, history>>

(* Mutation of Probe: nobody looks. *)
ProbeNobody ==
  /\ pc = "probe"
  /\ Goto("poll")
  /\ UNCHANGED <<at, code, joined, notify, proc, full, history>>

(* probe_worker_liveness: a process with an exit code, whichever it is,    *)
(* counts as failed.                                                       *)
Probe ==
  /\ pc = "probe"
  /\ \/ /\ \E k \in Stages : Ended(k)
        /\ notify' = TRUE
        /\ Goto("result")
     \/ /\ \A k \in Stages : ~Ended(k)
        /\ notify' = notify
        /\ Goto("poll")
  /\ UNCHANGED <<at, code, joined, proc, full, history>>

(* The result, or the end of the dry run. *)
Result ==
  /\ pc = "result"
  /\ \/ /\ notify
        /\ Exit(1)
        /\ UNCHANGED <<full, passed>>
     \/ /\ ~notify
        /\ full' = full \ {Depth}
        /\ passed' = passed \cup {at}
        /\ Goto("release")
        /\ UNCHANGED code
  /\ UNCHANGED <<at, joined, notify, proc, failed, signalled>>

(* The processes that still wait are told to leave. *)
ReleaseWorkers ==
  /\ pc = "release"
  /\ notify' = TRUE
  /\ Goto("join")
  /\ UNCHANGED <<at, code, joined, proc, full, history>>

(* Mutation of Join: the exit code is not looked at. *)
JoinBlind ==
  /\ pc = "join"
  /\ joined < Depth
  /\ Ended(joined + 1)
  /\ joined' = joined + 1
  /\ UNCHANGED <<pc, at, code, notify, proc, full, history>>

(* wait_all: the first process with an exit code other than zero ends it. *)
Join ==
  /\ pc = "join"
  /\ joined < Depth
  /\ \/ /\ proc[joined + 1] = "ok"
        /\ joined' = joined + 1
        /\ UNCHANGED <<pc, code>>
     \/ /\ proc[joined + 1] = "bad"
        /\ joined' = joined
        /\ Exit(1)
  /\ UNCHANGED <<at, notify, proc, full, history>>

(* All have ended: the event is cleared for the next endpoint. *)
NextEndpoint ==
  /\ pc = "join"
  /\ joined = Depth
  /\ notify' = FALSE
  /\ at' = at + 1
  /\ Goto("start")
  /\ UNCHANGED <<code, joined, proc, full, history>>

(* No endpoint is left, if there was one. *)
Finish ==
  /\ pc = "start" /\ at > Len(router)
  /\ Exit(0)
  /\ UNCHANGED <<at, joined, notify, proc, full, history>>

-----------------------------------------------------------------------------
Become(k, state) == proc' = [proc EXCEPT ![k] = state]

(* dry_run_func: the constructor of the worker, then the wait for data. *)
Construct(k) ==
  /\ proc[k] = "init"
  /\ Become(k, "wait")
  /\ UNCHANGED <<pc, at, code, joined, notify, full, history>>

SeeData(k) ==
  /\ proc[k] = "wait"
  /\ ~notify /\ (k - 1) \in full
  /\ Become(k, "ready")
  /\ UNCHANGED <<pc, at, code, joined, notify, full, history>>

(* Told to leave, before or after the data came. *)
LeaveEarly(k) ==
  /\ proc[k] \in {"wait", "ready"}
  /\ notify
  /\ Become(k, "ok")
  /\ UNCHANGED <<pc, at, code, joined, notify, full, history>>

TakeData(k) ==
  /\ proc[k] = "ready"
  /\ ~notify
  /\ full' = full \ {k - 1}
  /\ Become(k, "work")
  /\ UNCHANGED <<pc, at, code, joined, notify, history>>

(* forward and the send of its result. *)
PassOn(k) ==
  /\ proc[k] = "work"
  /\ full' = full \cup {k}
  /\ Become(k, "done")
  /\ UNCHANGED <<pc, at, code, joined, notify, history>>

(* An exception is caught: the event is set and the process ends well. *)
Raise(k) ==
  /\ proc[k] = "work"
  /\ MayFail
  /\ notify' = TRUE
  /\ failed' = TRUE
  /\ Become(k, "done")
  /\ UNCHANGED <<pc, at, code, joined, full, passed, signalled>>

ProcessEnd(k) ==
  /\ proc[k] = "done"
  /\ Become(k, "ok")
  /\ UNCHANGED <<pc, at, code, joined, notify, full, history>>

(* The constructor raises, or the process is killed. *)
ProcessDies(k) ==
  /\ MayFail
  /\ proc[k] \in {"init", "wait", "ready", "work", "done"}
  /\ failed' = TRUE
  /\ Become(k, "bad")
  /\ UNCHANGED <<pc, at, code, joined, notify, full, passed, signalled>>

(* terminate. *)
Signal ==
  /\ MaySignal /\ pc # "exit" /\ ~signalled
  /\ signalled' = TRUE
  /\ notify' = TRUE
  /\ UNCHANGED <<pc, at, code, joined, proc, full, passed, failed>>

-----------------------------------------------------------------------------
DInit ==
  /\ pc = "start" /\ at = 1 /\ code = -1 /\ joined = 0 /\ notify = FALSE
  /\ proc = [k \in {} |-> "ok"] /\ full = {}
  /\ passed = {} /\ failed = FALSE /\ signalled = FALSE

Runner ==
  \/ StartPool \/ SendExample \/ Poll \/ Probe \/ Result \/ ReleaseWorkers
  \/ Join \/ NextEndpoint \/ Finish

Process(k) ==
  \/ Construct(k) \/ SeeData(k) \/ LeaveEarly(k) \/ TakeData(k) \/ PassOn(k)
  \/ Raise(k) \/ ProcessEnd(k)

Processes ==
  /\ pc # "exit"
  /\ \E k \in DOMAIN proc : Process(k) \/ ProcessDies(k)

DNext == Runner \/ Processes \/ Signal

-----------------------------------------------------------------------------
(* A dry run that exits with zero has brought the example of every         *)
(* endpoint through all of its stages, and no process died or raised: the  *)
(* one event cannot hide a failure.                                        *)
SuccessIsReal ==
  code = 0 => /\ ~failed
              /\ \A e \in DOMAIN router : HasExample(e) => e \in passed

=============================================================================
