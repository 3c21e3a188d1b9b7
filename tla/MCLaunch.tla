------------------------------ MODULE MCLaunch ------------------------------
(* Eleven programs under eight command lines and environments. *)
EXTENDS Launch

NoHint == [kind |-> "any", of |-> <<"", 0>>]

Ann(kind, name, id) == [kind |-> kind, of |-> <<name, id>>]

Class(typed, sse, example, input, output) ==
  [typed |-> typed, sse |-> sse, example |-> example, input |-> input, output |-> output]

(* Plain and Other name a model Req that is not the one of Typed; Rival is *)
(* typed as well; the annotations of Vague and of Broken do not evaluate.  *)
Classes ==
  [Plain  |-> Class(FALSE, FALSE, TRUE, Ann("type", "Req", 1), Ann("list", "Resp", 1)),
   Other  |-> Class(FALSE, FALSE, FALSE, NoHint, Ann("pair", "Req", 1)),
   Typed  |-> Class(TRUE, FALSE, TRUE, Ann("list", "Req", 2), Ann("type", "Resp", 1)),
   Rival  |-> Class(TRUE, FALSE, FALSE, Ann("type", "Req", 3), NoHint),
   Vague  |-> Class(FALSE, TRUE, FALSE, Ann("invalid", "", 0), NoHint),
   Broken |-> Class(FALSE, FALSE, FALSE, NoHint, Ann("error", "", 0))]

R(worker, batch) ==
  [worker |-> worker, num |-> 1, batch |-> batch, wait |-> 0, timeout |-> 0,
   method |-> "spawn", envs |-> -1]

New(r) == [op |-> "runtime", runtime |-> r]

App(r, routes) == [op |-> "append", runtime |-> r, routes |-> routes]

Reg(steps) == [op |-> "register", steps |-> steps]

Eleven ==
  { <<App(R("Plain", 1), <<"/a">>), App(R("Plain", 2), <<"/a">>), App(R("Typed", 2), <<"/a", "/b">>)>>,
    <<App(R("Plain", 1), <<"/a">>), App(R("Typed", 1), <<"/b">>)>>,
    <<App(R("Other", 2), <<"/a">>), App(R("Rival", 1), <<"/b">>), App(R("Typed", 2), <<"/c">>)>>,
    <<App(R("Vague", 1), <<"/a">>), App(R("Plain", 1), <<"/b", "/metrics">>)>>,
    <<App(R("Broken", 1), <<"/a">>)>>,
    <<App([R("Plain", 1) EXCEPT !.num = 0], <<"/a">>), App([R("Plain", 1) EXCEPT !.timeout = -1], <<"/a">>)>>,
    <<New(R("Typed", 1)), New(R("Plain", 1)), Reg(<< <<"/a", 1>>, <<"/a", 2>>, <<"/b", 2>> >>)>>,
    <<New(R("Plain", 1)), New([R("Other", 1) EXCEPT !.envs = 2]), New(R("Other", 1)),
      Reg(<< <<"/a", 1>>, <<"/", 3>> >>), Reg(<< <<"/a", 1>>, <<"/b", 3>> >>)>>,
    <<App(R("Other", 1), <<"/a">>), New(R("Plain", 1)), Reg(<< <<"/b", 2>> >>)>>,
    <<App(R("Plain", 1), << >>)>>,
    << >> }

Src(cli, env) == [cli |-> cli, env |-> env]

None == [o \in {} |-> ""]

Eight ==
  { Src(None, None),
    Src([log_level |-> "error"], [log_level |-> "warning", timeout |-> "many"]),
    Src([log_level |-> "error"], [debug |-> "0", timeout |-> "500"]),
    Src([wait |-> "20", debug |-> "yes"], [log_level |-> "verbose"]),
    Src(None, [log_level |-> "verbose"]),
    Src([log_level |-> "verbose"], None),
    Src([timeout |-> "many"], None),
    Src(None, [dry_run |-> "false", log_level |-> ""]) }
=============================================================================
