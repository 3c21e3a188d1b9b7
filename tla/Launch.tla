------------------------------- MODULE Launch -------------------------------
(***************************************************************************)
(* A program that uses mosec, from its import to the start of the service  *)
(* or of the dry run: Server.__init__, append_worker, register_runtime and *)
(* run (mosec/server.py) with the constructor of Runtime                   *)
(* (mosec/runtime.py).  The program is a list of calls; a call that raises *)
(* ends the program, or the program ignores it and goes on.  Times are in  *)
(* milliseconds.                                                           *)
(***************************************************************************)
EXTENDS DryRun, Settings, FiniteSets

CONSTANTS
  Programs,      \* the programs: sequences of calls
  Sources        \* the command lines and environments: [cli, env]

(* A Runtime: its worker class, processes, batch size, times, how the      *)
(* processes are started and how many environments are given.              *)
Runtime == [worker : STRING, num : Int, batch : Int, wait : Int, timeout : Int,
            method : STRING, envs : Int]

(* The calls of a program: Runtime(...), append_worker, register_runtime.  *)
Call == [op : {"runtime"}, runtime : Runtime]
        \cup [op : {"append"}, runtime : Runtime, routes : Seq(STRING)]
        \cup [op : {"register"}, steps : Seq(STRING \X Nat)]

ASSUME ProgramsAssumption == Programs \subseteq Seq(Call)

VARIABLES
  phase,         \* where the program is
  program,       \* the calls still to come
  source,        \* its command line and environment
  level,         \* the level set_logger left in the environment, 0 before
  config,        \* Server._configs
  count,         \* Runtime._stage_id
  runtimes,      \* PyRuntimeManager.runtimes
  doc,           \* Server._openapi_spec
  conf,          \* config.json, as the Rust service reads it
  ignored        \* whether a refused endpoint was ignored by the program

settings == <<source, level, config>>

registry == <<count, object, router, runtimes, ignored>>

started == <<doc, conf>>

lVars == <<phase, program, settings, registry, started, dVars>>

Reserved == {"/", "/metrics", "/openapi", "/openapi/metadata.json",
             "/openapi/swagger", "/openapi/swagger/"}

-----------------------------------------------------------------------------
(* The import of mosec: the options are parsed for the level only. *)
Import ==
  /\ phase = "import"
  /\ LET args == Parsed(source.cli, source.env)
         ok   == Parses(source.cli) /\ LevelKnown(args)
     IN /\ level' = IF ok THEN GetLogLevel(args) ELSE level
        /\ phase' = IF ok THEN "server" ELSE "no_settings"
  /\ UNCHANGED <<program, source, config, registry, started, dVars>>

(* The answers of is_port_available; the last one is an exception. *)
IsPortAvailable == {"free", "taken", "error"}

(* Server(): the options are parsed again, and the port must be free. *)
NewServer ==
  /\ phase = "server"
  /\ \E port \in IsPortAvailable :
       \/ port = "free"
          /\ config' = ParseArguments(source.cli, source.env) /\ phase' = "calls"
       \/ port # "free" /\ config' = config /\ phase' = "no_settings"
  /\ UNCHANGED <<program, source, level, registry, started, dVars>>

-----------------------------------------------------------------------------
(* validate_env: envs is the length of env, -1 for None. *)
ValidEnv(r) == r.envs \in {-1, r.num}

(* validate_int_ge and validate_float_ge. *)
AtLeast(number, threshold) == number >= threshold

(* _validate. *)
Valid(r) ==
  /\ ValidEnv(r)
  /\ AtLeast(r.num, 1) /\ AtLeast(r.batch, 1)
  /\ AtLeast(r.wait, 0) /\ AtLeast(r.timeout, 0)
  /\ r.method \in {"spawn", "fork"}

(* The name of a runtime, and of the socket of its stage. *)
Name(r) == <<object[r].worker, r>>

(* The call is over; or it raised, which ends the program or is ignored. *)
Returns == phase' = phase /\ program' = Tail(program)

Raises == Returns \/ (phase' = "raised" /\ program' = << >>)

AddStage(rs, step) ==
  IF \E i \in DOMAIN rs : rs[i].endpoint = step[1]
  THEN [i \in DOMAIN rs |->
          IF rs[i].endpoint = step[1]
          THEN [rs[i] EXCEPT !.pipeline = Append(@, step[2])] ELSE rs[i]]
  ELSE Append(rs, [endpoint |-> step[1], pipeline |-> <<step[2]>>])

(* Mutation of Accepted: only the first endpoint is looked at. *)
AcceptedFirst(steps) ==
  IF steps # << >> /\ steps[1][1] \in Reserved THEN << >> ELSE steps

(* _register_route stops at the first reserved endpoint. *)
Accepted(steps) ==
  LET bad == SelectInSeq(steps, LAMBDA s : s[1] \in Reserved)
  IN IF bad = 0 THEN steps ELSE SubSeq(steps, 1, bad - 1)

(* The loop over the pairs <<endpoint, runtime>>. *)
AddStages(rs, steps) ==
  LET after[n \in 0 .. Len(steps)] ==
        IF n = 0 THEN rs ELSE AddStage(after[n - 1], steps[n])
  IN after[Len(steps)]

(* Pipelines that were extended before the exception stay so. *)
RegisterRoute(steps) == router' = AddStages(router, Accepted(steps))

(* Runtime(...): the id is used up, whether or not the arguments are valid. *)
NewRuntime ==
  /\ phase = "calls" /\ program # << >> /\ Head(program).op = "runtime"
  /\ count' = count + 1
  /\ LET r == Head(program).runtime
     IN \/ Valid(r) /\ object' = object @@ (count + 1 :> r) /\ Returns
        \/ ~Valid(r) /\ object' = object /\ Raises
  /\ UNCHANGED <<settings, router, runtimes, ignored, started, dVars>>

(* append_worker: the runtime is on its routes before it is registered. *)
AppendWorker ==
  /\ phase = "calls" /\ program # << >> /\ Head(program).op = "append"
  /\ count' = count + 1
  /\ LET call  == Head(program)
         given == call.runtime
         r     == [given EXCEPT !.timeout = IF @ > 0 THEN @ ELSE config.timeout,
                                !.wait = IF @ >= 1 THEN @ ELSE config.wait]
         steps == [i \in DOMAIN call.routes |-> <<call.routes[i], count + 1>>]
     IN \/ /\ ~Valid(r)
           /\ Raises
           /\ UNCHANGED <<object, router, runtimes, ignored>>
        \/ /\ Valid(r)
           /\ object' = object @@ (count + 1 :> r)
           /\ RegisterRoute(steps)
           /\ \/ Accepted(steps) = steps
                 /\ runtimes' = runtimes \cup {count + 1} /\ Returns /\ ignored' = ignored
              \/ Accepted(steps) # steps
                 /\ runtimes' = runtimes /\ Raises /\ ignored' = TRUE
  /\ UNCHANGED <<settings, started, dVars>>

(* _align_timeout_wait. *)
Aligned(r) ==
  [r EXCEPT !.timeout = IF @ > 0 THEN @ ELSE config.timeout,
            !.wait = IF @ > 0 THEN @ ELSE config.wait]

(* register_runtime: on a server without workers, all routes and then all  *)
(* runtimes, in no particular order.                                       *)
RegisterRuntime ==
  /\ phase = "calls" /\ program # << >> /\ Head(program).op = "register"
  /\ LET steps == Head(program).steps
         done  == {Accepted(steps)[i][2] : i \in DOMAIN Accepted(steps)}
     IN \/ /\ runtimes # {}
           /\ Raises
           /\ UNCHANGED <<object, router, runtimes, ignored>>
        \/ /\ runtimes = {}
           /\ RegisterRoute(steps)
           /\ object' = [r \in DOMAIN object |->
                           IF r \in done THEN Aligned(object[r]) ELSE object[r]]
           /\ \/ Accepted(steps) = steps
                 /\ runtimes' = done /\ Returns /\ ignored' = ignored
              \/ Accepted(steps) # steps
                 /\ runtimes' = runtimes /\ Raises /\ ignored' = TRUE
  /\ UNCHANGED <<count, settings, started, dVars>>

-----------------------------------------------------------------------------
(* run: _validate_server, and the turn to the dry run. *)
Run ==
  /\ phase = "calls" /\ program = << >>
  /\ \/ runtimes = {} /\ phase' = "raised" /\ doc' = doc
     \/ /\ runtimes # {}
        /\ doc' = GenerateOpenapi(router, object)
        /\ phase' = IF doc'.failed THEN "no_schema"
                    ELSE IF config.dry_run THEN "dry" ELSE "start"
  /\ UNCHANGED <<program, settings, registry, conf, dVars>>

(* The configuration the service is started with. *)
Configuration ==
  [log_level |-> config.log_level,
   runtimes  |-> {[worker |-> Name(r), max_batch_size |-> object[r].batch,
                   max_wait_time |-> object[r].wait] : r \in runtimes},
   routes    |-> [i \in DOMAIN router |->
                    [endpoint |-> router[i].endpoint,
                     workers  |-> [k \in DOMAIN router[i].pipeline |->
                                     Name(router[i].pipeline[k])],
                     is_sse   |-> Workers[object[Last(router[i].pipeline)].worker].sse]]]

(* _start_rs_runtime: the files are written and the service is started; a  *)
(* failure removes the files and is propagated.                            *)
StartRsRuntime ==
  /\ phase = "start"
  /\ \/ conf' = Configuration /\ phase' = "serving"
     \/ conf' = conf /\ phase' = "raised"
  /\ UNCHANGED <<program, settings, registry, doc, dVars>>

(* DryRunner(...).run(). *)
DryRun ==
  /\ phase = "dry"
  /\ DNext
  /\ UNCHANGED <<phase, program, settings, registry, started>>

-----------------------------------------------------------------------------
LInit ==
  /\ phase = "import" /\ program \in Programs /\ source \in Sources
  /\ level = 0 /\ config = Default
  /\ count = 0 /\ runtimes = {} /\ ignored = FALSE
  /\ object = [r \in {} |-> << >>] /\ router = << >>
  /\ doc = NoDoc /\ conf = [routes |-> << >>]
  /\ DInit

Launching ==
  Import \/ NewServer \/ NewRuntime \/ AppendWorker \/ RegisterRuntime \/ Run \/ StartRsRuntime

LNext == Launching \/ DryRun

LSpec == LInit /\ [][LNext]_lVars

(* The program runs, user code returns, and processes end. *)
LFairSpec ==
  /\ LSpec
  /\ WF_lVars(Launching)
  /\ WF_lVars(phase = "dry" /\ Runner /\ UNCHANGED <<phase, program, settings, registry, started>>)
  /\ WF_lVars(phase = "dry" /\ pc # "exit" /\ (\E k \in DOMAIN proc : Process(k))
                /\ UNCHANGED <<phase, program, settings, registry, started>>)

-----------------------------------------------------------------------------
(* What the service is started with makes sense to it: no two stages share *)
(* a name (and a socket), no route hides one of its own, and every worker  *)
(* that a route names has been declared (TaskManager::init_from_config     *)
(* panics otherwise), unless the program went on after a refused endpoint. *)
RoutesResolve ==
  phase = "serving" =>
    /\ Cardinality({c.worker : c \in conf.runtimes}) = Cardinality(runtimes)
    /\ \A i \in DOMAIN conf.routes : conf.routes[i].endpoint \notin Reserved
    /\ ignored \/
         \A i \in DOMAIN conf.routes : \A k \in DOMAIN conf.routes[i].workers :
           \E c \in conf.runtimes : c.worker = conf.routes[i].workers[k]

(* The Python processes and the Rust service log at one level and in one   *)
(* format, although the level is computed at the import, again for the     *)
(* configuration, and a third time by the service.                         *)
LevelsAgree ==
  phase = "serving" => PyLog(level) = RsLog(conf.log_level)

(* Typed schemas take priority over ordinary ones in any order of routes:  *)
(* a typed boundary is documented as annotated, no two documented types    *)
(* share a name, and an ordinary boundary fails the start only by an       *)
(* unexpected error.                                                       *)
TypedFirst ==
  LET bs == Boundaries(router, object)
      B  == {bs[i] : i \in DOMAIN bs}
      bad(b) == ~Resolves(b.annotation, b.batched)
  IN /\ phase \in {"dry", "serving"} =>
          /\ \A b \in B : b.typed => doc.types[b.key] = Resolve(b.annotation, b.batched)
          /\ \A b, c \in B : ~Conflicts(doc.types[b.key], doc.types[c.key])
     /\ phase = "no_schema" =>
          \/ \E b \in B : bad(b) /\ (b.typed \/ b.annotation.kind = "error")
          \/ \E b, c \in B : /\ b.typed /\ c.typed /\ ~bad(b) /\ ~bad(c)
                             /\ Conflicts(Resolve(b.annotation, b.batched),
                                          Resolve(c.annotation, c.batched))

(* The launch ends, in a running service, a refusal or a dry run that is   *)
(* over, whatever the processes of the dry run do.                         *)
Terminates ==
  <>(phase \in {"no_settings", "raised", "no_schema", "serving"} \/ pc = "exit")
=============================================================================
