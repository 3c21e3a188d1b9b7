------------------------------ MODULE Settings ------------------------------
(***************************************************************************)
(* The settings of a service (mosec/args.py, mosec/env.py, mosec/log.py):  *)
(* what the command line, the environment and the defaults make of the     *)
(* twelve options, and the level at which the processes log.  Raw values   *)
(* are texts; a source is a function from some options to texts.  The      *)
(* level is computed twice, when mosec is imported and when a Server is    *)
(* made, and read by the Rust service a third time.                        *)
(***************************************************************************)
EXTENDS Integers

(* build_arguments_parser: the options, how each is converted, and what it *)
(* is if nobody gives it.                                                  *)
Kind ==
  [path |-> "str", capacity |-> "int", timeout |-> "int", wait |-> "int",
   address |-> "str", port |-> "int", namespace |-> "str", debug |-> "bool",
   log_level |-> "str", dry_run |-> "bool", compression |-> "bool",
   max_request_size |-> "int"]

Options == DOMAIN Kind

Default ==
  [path |-> "temporary", capacity |-> 1024, timeout |-> 3000, wait |-> 10,
   address |-> "0.0.0.0", port |-> 8000, namespace |-> "mosec_service",
   debug |-> FALSE, log_level |-> "info", dry_run |-> FALSE,
   compression |-> FALSE, max_request_size |-> 10 * 1024 * 1024]

Levels == {"debug", "info", "warning", "error"}

(* MOSEC_ENV_CONFIG: the options the environment can give. *)
EnvOptions == Options \ {"wait", "compression"}

-----------------------------------------------------------------------------
(* Python's conversions.  The texts that are numbers; any text that is not *)
(* empty is true; a string is itself.                                      *)
Numbers == [t \in {"0", "20", "500", "8000"} |->
              CASE t = "0" -> 0 [] t = "20" -> 20 [] t = "500" -> 500 [] t = "8000" -> 8000]

Converts(o, text) == Kind[o] = "int" => text \in DOMAIN Numbers

Convert(o, text) ==
  CASE Kind[o] = "int"  -> Numbers[text]
    [] Kind[o] = "bool" -> text # ""
    [] Kind[o] = "str"  -> text

(* get_env_namespace: a variable that is empty or that does not convert is *)
(* skipped.                                                                *)
InEnv(env, o) ==
  /\ o \in EnvOptions \cap DOMAIN env
  /\ env[o] # "" /\ Converts(o, env[o])

(* argparse leaves the program when a value of the command line does not   *)
(* convert or is not one of the choices.                                   *)
Parses(cli) ==
  \A o \in DOMAIN cli :
    Converts(o, cli[o]) /\ (o = "log_level" => cli[o] \in Levels)

(* parse_known_args into the namespace of the environment. *)
Parsed(cli, env) ==
  [o \in Options |->
     IF o \in DOMAIN cli THEN Convert(o, cli[o])
     ELSE IF InEnv(env, o) THEN Convert(o, env[o])
     ELSE Default[o]]

(* parse_arguments, after the port was found free. *)
ParseArguments(cli, env) ==
  LET args == Parsed(cli, env)
  IN [args EXCEPT !.log_level = IF args.debug THEN "debug" ELSE @]

-----------------------------------------------------------------------------
(* The numbers of the logging module. *)
LevelMap == [debug |-> 10, info |-> 20, warning |-> 30, error |-> 40]

(* get_log_level: the KeyError for a level that is not in the map, which   *)
(* only the environment can give, stops the import of mosec.               *)
LevelKnown(args) == args.debug \/ args.log_level \in DOMAIN LevelMap

(* Mutation of GetLogLevel: debug is forgotten. *)
GetLogLevelPlain(args) ==
  IF args.log_level \in DOMAIN LevelMap THEN LevelMap[args.log_level] ELSE 20

GetLogLevel(args) == IF args.debug THEN 10 ELSE LevelMap[args.log_level]

(* get_logger, get_internal_logger and use_log, from the level that        *)
(* set_logger has left in the environment.                                 *)
PyLog(level) == [level |-> level, pretty |-> level = LevelMap.debug]

(* The Rust service, from the text in its configuration. *)
RsLog(text) ==
  [level  |-> CASE text = "debug" -> 10
                [] text = "error" -> 40
                [] text = "warning" -> 30
                [] OTHER -> 20,
   pretty |-> text = "debug"]
=============================================================================
