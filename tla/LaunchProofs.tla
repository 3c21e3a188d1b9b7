---------------------------- MODULE LaunchProofs ----------------------------
(***************************************************************************)
(* Proofs about the way from a program to its service, for any programs,   *)
(* command lines and environments, and about the dry run, for any routes.  *)
(***************************************************************************)
EXTENDS Launch, FiniteSetTheorems, NaturalsInduction, WellFoundedInduction, TLAPS

(* The level that set_logger has left in the environment and the settings  *)
(* of the server come from the same sources.                               *)
Args == Parsed(source.cli, source.env)

LevelInv ==
  /\ phase \in {"server", "calls", "start", "serving"} =>
       LevelKnown(Args) /\ level = GetLogLevel(Args)
  /\ phase \in {"calls", "start", "serving"} =>
       config = ParseArguments(source.cli, source.env)
  /\ phase = "serving" => conf.log_level = config.log_level

LEMMA InitLevel == LInit => LevelInv
BY DEF LInit, LevelInv

LEMMA NextLevel == LevelInv /\ [LNext]_lVars => LevelInv'
<1> SUFFICES ASSUME LevelInv, [LNext]_lVars PROVE LevelInv'
  OBVIOUS
<1>1. CASE Import
  BY <1>1 DEF Import, LevelInv, Args, settings, registry, started
<1>2. CASE NewServer
  BY <1>2 DEF NewServer, LevelInv, Args, started
<1>3. CASE NewRuntime \/ AppendWorker \/ RegisterRuntime
  <2>1. phase = "calls" /\ phase' \in {"calls", "raised"} /\ UNCHANGED <<settings, conf>>
    BY <1>3 DEF NewRuntime, AppendWorker, RegisterRuntime, Returns, Raises, started
  <2> QED  BY <2>1 DEF LevelInv, Args, settings
<1>4. CASE Run
  <2>1. phase = "calls" /\ phase' \in {"raised", "no_schema", "dry", "start"}
        /\ UNCHANGED <<settings, conf>>
    BY <1>4 DEF Run
  <2> QED  BY <2>1 DEF LevelInv, Args, settings
<1>5. CASE StartRsRuntime
  <2>1. phase = "start" /\ UNCHANGED settings /\ phase' \in {"serving", "raised"}
        /\ (phase' = "serving" => conf' = Configuration)
    BY <1>5 DEF StartRsRuntime
  <2>2. Configuration.log_level = config.log_level
    BY DEF Configuration
  <2> QED  BY <2>1, <2>2 DEF LevelInv, Args, settings
<1>6. CASE DryRun \/ UNCHANGED lVars
  <2>1. UNCHANGED <<phase, settings, conf>>
    BY <1>6 DEF DryRun, lVars, started
  <2> QED  BY <2>1 DEF LevelInv, Args, settings
<1> QED  BY <1>1, <1>2, <1>3, <1>4, <1>5, <1>6 DEF LNext, Launching

(* The three computations of the level agree: get_log_level at the import, *)
(* parse_arguments for the configuration, and the service's reading of it. *)
LEMMA SameLevel ==
  ASSUME NEW cli, NEW env, LevelKnown(Parsed(cli, env))
  PROVE  PyLog(GetLogLevel(Parsed(cli, env))) = RsLog(ParseArguments(cli, env).log_level)
<1> DEFINE args == Parsed(cli, env)
<1>1. DOMAIN args = Options /\ "log_level" \in Options
  BY DEF Parsed, Options, Kind
<1>2. ParseArguments(cli, env).log_level = IF args.debug THEN "debug" ELSE args.log_level
  BY <1>1 DEF ParseArguments, Parsed
<1>3. args.debug \/ args.log_level \in {"debug", "info", "warning", "error"}
  BY DEF LevelKnown, LevelMap
<1> HIDE DEF args
<1> QED  BY <1>2, <1>3 DEF PyLog, RsLog, GetLogLevel, LevelMap, args

(* Whatever the command line and the environment say, the Python processes *)
(* and the Rust service of a service that is started log at one level and  *)
(* in one format.                                                          *)
THEOREM LevelsAgreeHolds == LSpec => []LevelsAgree
<1>1. LevelInv => LevelsAgree
  BY SameLevel DEF LevelInv, LevelsAgree, Args
<1> QED  BY <1>1, InitLevel, NextLevel, PTL DEF LSpec

-----------------------------------------------------------------------------
(***************************************************************************)
(* The routes.  AddStages is a loop; what holds of its result is shown by  *)
(* an induction on the number of rounds, in the form that every nonempty   *)
(* set of numbers has a least element.                                     *)
(***************************************************************************)
LEMMA LeastNumber ==
  ASSUME NEW S \in SUBSET Nat, S # {}
  PROVE  \E m \in S : \A n \in S : m <= n
<1>1. PICK m \in S : \A n \in S : ~(<<n, m>> \in OpToRel(<, Nat))
  BY NatLessThanWellFounded, WFMin
<1>2. ASSUME NEW n \in S PROVE m <= n
  <2>1. n \in Nat /\ m \in Nat /\ ~(n < m)
    BY <1>1, Zenon DEF OpToRel
  <2> QED  BY <2>1
<1> QED  BY <1>2

LEMMA SetInduction ==
  ASSUME NEW S, 0 \in S, \A n \in Nat : n \in S => n + 1 \in S
  PROVE  Nat \subseteq S
<1> DEFINE out == {n \in Nat : n \notin S}
<1>1. SUFFICES ASSUME out # {} PROVE FALSE
  OBVIOUS
<1>2. out \in SUBSET Nat
  OBVIOUS
<1>3. PICK m \in out : \A n \in out : m <= n
  <2> HIDE DEF out
  <2> QED  BY <1>1, <1>2, LeastNumber
<1>4. m \in Nat /\ m # 0 /\ m \notin S
  BY <1>3
<1>5. m - 1 \in Nat /\ m - 1 \notin out
  BY <1>3, <1>4
<1>6. m - 1 \in S /\ (m - 1) + 1 = m
  BY <1>4, <1>5
<1> QED  BY <1>4, <1>5, <1>6

(* No two routes have one endpoint. *)
Distinct(rs) == \A i, j \in DOMAIN rs : rs[i].endpoint = rs[j].endpoint => i = j

(* Routes with endpoints of E and runtimes of I. *)
RoutesOf(E, I) == {rs \in Seq([endpoint : E, pipeline : Seq(I)]) : Distinct(rs)}

LEMMA AddStageType ==
  ASSUME NEW E, NEW I, NEW rs \in RoutesOf(E, I), NEW step \in E \X I
  PROVE  AddStage(rs, step) \in RoutesOf(E, I)
<1> DEFINE R == [endpoint : E, pipeline : Seq(I)]
           e == step[1]
           id == step[2]
           new == [endpoint |-> e, pipeline |-> <<id>>]
           longer(x) == [x EXCEPT !.pipeline = Append(@, id)]
<1>1. e \in E /\ id \in I
  OBVIOUS
<1>2. new \in R
  BY <1>1
<1>3. ASSUME NEW x \in R PROVE longer(x) \in R
  <2>1. x.pipeline \in Seq(I)
    OBVIOUS
  <2>2. Append(x.pipeline, id) \in Seq(I)
    BY <1>1, <2>1
  <2> QED  BY <2>2
<1>4. rs \in Seq(R)
  BY DEF RoutesOf
<1>5. \/ AddStage(rs, step) = [i \in DOMAIN rs |-> IF rs[i].endpoint = e THEN longer(rs[i]) ELSE rs[i]]
      \/ AddStage(rs, step) = Append(rs, new)
  BY Zenon DEF AddStage
<1> HIDE DEF R, e, id, new, longer
<1>6. [i \in DOMAIN rs |-> IF rs[i].endpoint = e THEN longer(rs[i]) ELSE rs[i]] \in Seq(R)
  <2>1. DOMAIN rs = 1 .. Len(rs) /\ Len(rs) \in Nat /\ \A i \in DOMAIN rs : rs[i] \in R
    BY <1>4
  <2>2. \A i \in 1 .. Len(rs) : (IF rs[i].endpoint = e THEN longer(rs[i]) ELSE rs[i]) \in R
    BY <1>3, <2>1
  <2> QED  BY <2>1, <2>2
<1>7. Append(rs, new) \in Seq(R)
  BY <1>2, <1>4
<1>8. AddStage(rs, step) \in Seq(R)
  BY <1>5, <1>6, <1>7, Zenon
<1>9. Distinct(AddStage(rs, step))
  <2>1. \A i, j \in DOMAIN rs : rs[i].endpoint = rs[j].endpoint => i = j
    BY DEF RoutesOf, Distinct
  <2>2. DOMAIN rs = 1 .. Len(rs) /\ Len(rs) \in Nat /\ \A i \in DOMAIN rs : rs[i] \in R
    BY <1>4
  <2>3. \A x \in R : longer(x).endpoint = x.endpoint
    BY DEF longer, R
  <2>4. new.endpoint = e
    BY DEF new
  <2> DEFINE long == [i \in DOMAIN rs |-> IF rs[i].endpoint = e THEN longer(rs[i]) ELSE rs[i]]
  <2>5. CASE \E i \in DOMAIN rs : rs[i].endpoint = e
    <3>1. AddStage(rs, step) = long
      BY <2>5, Zenon DEF AddStage, e, id, longer
    <3>2. DOMAIN long = DOMAIN rs /\ \A i \in DOMAIN rs : long[i].endpoint = rs[i].endpoint
      BY <2>2, <2>3
    <3> HIDE DEF long
    <3> QED  BY <2>1, <3>1, <3>2 DEF Distinct
  <2>6. CASE \A i \in DOMAIN rs : rs[i].endpoint # e
    <3>1. AddStage(rs, step) = Append(rs, new)
      BY <2>6, Zenon DEF AddStage, e, id, new
    <3>2. /\ DOMAIN Append(rs, new) = 1 .. Len(rs) + 1 /\ Append(rs, new)[Len(rs) + 1] = new
          /\ \A i \in 1 .. Len(rs) : Append(rs, new)[i] = rs[i]
      BY <1>2, <1>4, <2>2
    <3>3. ASSUME NEW i \in 1 .. Len(rs) + 1, NEW j \in 1 .. Len(rs) + 1,
                 Append(rs, new)[i].endpoint = Append(rs, new)[j].endpoint
          PROVE  i = j
      <4>1. \A n \in 1 .. Len(rs) + 1 : n \in 1 .. Len(rs) \/ n = Len(rs) + 1
        BY <2>2
      <4>2. CASE i \in 1 .. Len(rs) /\ j \in 1 .. Len(rs)
        BY <2>1, <2>2, <3>2, <3>3, <4>2
      <4>3. CASE i = Len(rs) + 1 /\ j = Len(rs) + 1
        BY <4>3
      <4>4. CASE i \in 1 .. Len(rs) /\ j = Len(rs) + 1
        BY <2>2, <2>4, <2>6, <3>2, <3>3, <4>4
      <4>5. CASE j \in 1 .. Len(rs) /\ i = Len(rs) + 1
        BY <2>2, <2>4, <2>6, <3>2, <3>3, <4>5
      <4> QED  BY <4>1, <4>2, <4>3, <4>4, <4>5
    <3> QED  BY <3>1, <3>2, <3>3 DEF Distinct
  <2> QED  BY <2>5, <2>6
<1> QED  BY <1>8, <1>9 DEF RoutesOf, R

(* The loop exists, and keeps the type of the routes. *)
LEMMA AddStagesType ==
  ASSUME NEW E, NEW I, NEW rs \in RoutesOf(E, I), NEW steps \in Seq(E \X I)
  PROVE  AddStages(rs, steps) \in RoutesOf(E, I)
<1> DEFINE N == Len(steps)
           Round(f, n) == IF n = 0 THEN rs ELSE AddStage(f[n - 1], steps[n])
           Is(f, m) == f \in [0 .. m -> RoutesOf(E, I)] /\ \A n \in 0 .. m : f[n] = Round(f, n)
           S == {m \in Nat : m <= N => \E f : Is(f, m)}
<1>0. N \in Nat /\ \A n \in 1 .. N : steps[n] \in E \X I
  OBVIOUS
<1>1. 0 \in S
  <2>1. Is([n \in 0 .. 0 |-> rs], 0)
    OBVIOUS
  <2> QED  BY <2>1
<1>2. ASSUME NEW m \in Nat, m \in S PROVE m + 1 \in S
  <2>1. SUFFICES ASSUME m + 1 <= N PROVE \E f : Is(f, m + 1)
    OBVIOUS
  <2>2. PICK f : Is(f, m)
    BY <1>0, <1>2, <2>1
  <2> DEFINE next == AddStage(f[m], steps[m + 1])
             g == [n \in 0 .. m + 1 |-> IF n = m + 1 THEN next ELSE f[n]]
  <2>3. f[m] \in RoutesOf(E, I) /\ m + 1 \in 1 .. N
    BY <1>0, <2>1, <2>2
  <2>4. next \in RoutesOf(E, I)
    BY <1>0, <2>3, AddStageType
  <2> HIDE DEF next
  <2>5. g \in [0 .. m + 1 -> RoutesOf(E, I)]
    BY <2>2, <2>4
  <2>6. ASSUME NEW n \in 0 .. m + 1 PROVE g[n] = Round(g, n)
    <3>1. CASE n = 0
      BY <2>2, <3>1
    <3>2. CASE n = m + 1
      <4>1. g[n] = next /\ g[n - 1] = f[m] /\ n # 0
        BY <3>2
      <4> QED  BY <3>2, <4>1 DEF next
    <3>3. CASE n # 0 /\ n # m + 1
      <4>1. n \in 0 .. m /\ g[n] = f[n] /\ g[n - 1] = f[n - 1]
        BY <3>3
      <4>2. f[n] = Round(f, n)
        BY <2>2, <4>1
      <4> QED  BY <3>3, <4>1, <4>2
    <3> QED  BY <3>1, <3>2, <3>3
  <2> QED  BY <2>5, <2>6
<1>3. Nat \subseteq S
  <2> HIDE DEF S
  <2> QED  BY <1>1, <1>2, SetInduction
<1>4. PICK f : Is(f, N)
  BY <1>0, <1>3
<1> DEFINE loop == CHOOSE g : g = [n \in 0 .. N |-> Round(g, n)]
<1>5. loop = [n \in 0 .. N |-> Round(loop, n)]
  <2>1. f = [n \in 0 .. N |-> Round(f, n)]
    BY <1>4
  <2> HIDE DEF Round
  <2> QED  BY <2>1
<1>6. AddStages(rs, steps) = loop[N]
  BY DEF AddStages
<1> HIDE DEF loop
<1> DEFINE T == {m \in Nat : m <= N => loop[m] \in RoutesOf(E, I)}
<1>7. 0 \in T
  BY <1>0, <1>5
<1>8. ASSUME NEW m \in Nat, m \in T PROVE m + 1 \in T
  <2>1. SUFFICES ASSUME m + 1 <= N PROVE loop[m + 1] \in RoutesOf(E, I)
    OBVIOUS
  <2>2. loop[m] \in RoutesOf(E, I) /\ m + 1 \in 1 .. N
    BY <1>0, <1>8, <2>1
  <2>3. loop[m + 1] = AddStage(loop[m], steps[m + 1])
    <3>1. m + 1 \in 0 .. N /\ m + 1 # 0 /\ (m + 1) - 1 = m
      BY <1>0, <2>2
    <3>2. loop[m + 1] = Round(loop, m + 1)
      BY <1>5, <3>1, Zenon
    <3> QED  BY <3>1, <3>2
  <2> QED  BY <1>0, <2>2, <2>3, AddStageType
<1>9. Nat \subseteq T
  <2> HIDE DEF T
  <2> QED  BY <1>7, <1>8, SetInduction
<1> QED  BY <1>0, <1>6, <1>9

(* Routes to fewer endpoints and runtimes. *)
LEMMA RoutesMonotone ==
  ASSUME NEW E, NEW F, E \subseteq F, NEW I, NEW J, I \subseteq J
  PROVE  RoutesOf(E, I) \subseteq RoutesOf(F, J)
<1>1. Seq(I) \subseteq Seq(J)
  OBVIOUS
<1> DEFINE R == [endpoint : E, pipeline : Seq(I)]
           Q == [endpoint : F, pipeline : Seq(J)]
<1>2. R \subseteq Q
  BY <1>1
<1> HIDE DEF R, Q
<1>3. Seq(R) \subseteq Seq(Q)
  BY <1>2
<1> QED  BY <1>3 DEF RoutesOf, R, Q

Free == STRING \ Reserved

(* Before the first reserved endpoint there is none. *)
LEMMA AcceptedType ==
  ASSUME NEW I, NEW steps \in Seq(STRING \X I)
  PROVE  Accepted(steps) \in Seq(Free \X I)
<1> DEFINE bad == {i \in 1 .. Len(steps) : steps[i][1] \in Reserved}
<1>1. Len(steps) \in Nat /\ DOMAIN steps = 1 .. Len(steps)
      /\ \A i \in 1 .. Len(steps) : steps[i] \in STRING \X I
  OBVIOUS
<1>2. \A i \in 1 .. Len(steps) : i \notin bad => steps[i] \in Free \X I
  BY <1>1 DEF Free
<1>3. bad \in SUBSET Nat /\ bad \subseteq 1 .. Len(steps)
  BY <1>1
<1>4. Accepted(steps) = IF bad # {} /\ Min(bad) # 0 THEN SubSeq(steps, 1, Min(bad) - 1) ELSE steps
  BY DEF Accepted, SelectInSeq
<1> HIDE DEF bad
<1>5. CASE bad = {}
  <2>1. Accepted(steps) = steps
    BY <1>4, <1>5
  <2>2. steps = [i \in 1 .. Len(steps) |-> steps[i]]
    BY <1>1
  <2> QED  BY <1>1, <1>2, <1>5, <2>1, <2>2
<1>6. CASE bad # {}
  <2> DEFINE first == Min(bad)
             m == first - 1
  <2>1. first \in bad /\ \A i \in bad : first <= i
    BY <1>3, <1>6, LeastNumber DEF Min
  <2>2. Accepted(steps) = IF first # 0 THEN SubSeq(steps, 1, m) ELSE steps
    BY <1>4, <1>6, Zenon
  <2> HIDE DEF first
  <2>3. first \in 1 .. Len(steps) /\ m \in Nat /\ m <= Len(steps)
    BY <1>1, <1>3, <2>1
  <2>5. \A i \in 1 .. m : i \in 1 .. Len(steps) /\ i \notin bad
    BY <1>1, <2>1, <2>3
  <2>6. Accepted(steps) = SubSeq(steps, 1, m)
    BY <2>2, <2>3
  <2> HIDE DEF m
  <2>7. SubSeq(steps, 1, m) = [i \in 1 .. m |-> steps[i]]
    BY <1>1, <2>3
  <2> QED  BY <1>2, <2>3, <2>5, <2>6, <2>7
<1> QED  BY <1>5, <1>6

(* A call has the arguments of its operation. *)
LEMMA CallType ==
  ASSUME NEW c \in Call
  PROVE  /\ c.op = "append" => c.routes \in Seq(STRING)
         /\ c.op = "register" => c.steps \in Seq(STRING \X Nat)
BY DEF Call

(* The routes lead to registered runtimes, unless a refused endpoint was   *)
(* ignored: then the runtime is on the routes before the refused one.      *)
RegistryInv ==
  /\ program \in Seq(Call) /\ count \in Nat /\ ignored \in BOOLEAN
  /\ IsFiniteSet(runtimes)
  /\ router \in RoutesOf(Free, Nat)
  /\ ignored = FALSE => router \in RoutesOf(Free, runtimes)

LEMMA InitRegistry == LInit => RegistryInv
<1> SUFFICES ASSUME LInit PROVE RegistryInv
  OBVIOUS
<1>1. program \in Seq(Call) /\ count \in Nat
  BY ProgramsAssumption DEF LInit
<1>2. ignored \in BOOLEAN
  BY Zenon DEF LInit
<1>3. IsFiniteSet(runtimes)
  BY FS_EmptySet DEF LInit
<1>4. router \in RoutesOf(Free, Nat) /\ router \in RoutesOf(Free, runtimes)
  BY DEF LInit, RoutesOf, Distinct
<1> QED  BY <1>1, <1>2, <1>3, <1>4 DEF RegistryInv

LEMMA NextRegistry == RegistryInv /\ [LNext]_lVars => RegistryInv'
<1> SUFFICES ASSUME RegistryInv, [LNext]_lVars PROVE RegistryInv'
  OBVIOUS
<1>0. /\ program \in Seq(Call) /\ count \in Nat /\ ignored \in BOOLEAN /\ IsFiniteSet(runtimes)
      /\ router \in RoutesOf(Free, Nat)
      /\ ignored = FALSE => router \in RoutesOf(Free, runtimes)
  BY DEF RegistryInv
<1>1. ASSUME Returns \/ Raises, program # << >> PROVE program' \in Seq(Call)
  <2>1. Tail(program) \in Seq(Call) /\ << >> \in Seq(Call)
    BY <1>0, <1>1
  <2> QED  BY <1>1, <2>1, Zenon DEF Returns, Raises
<1>2. program # << >> => Head(program) \in Call
  BY <1>0
<1>3. ASSUME program' \in Seq(Call), count' \in Nat,
             UNCHANGED <<router, runtimes, ignored>>
      PROVE  RegistryInv'
  BY <1>0, <1>3 DEF RegistryInv
<1>4. CASE NewRuntime
  BY <1>0, <1>1, <1>3, <1>4 DEF NewRuntime
<1>5. CASE AppendWorker
  <2>1. program' \in Seq(Call) /\ count' = count + 1 /\ count' \in Nat
    BY <1>0, <1>1, <1>5 DEF AppendWorker
  <2> DEFINE routes == Head(program).routes
             steps == [i \in DOMAIN routes |-> <<routes[i], count + 1>>]
  <2>2. routes \in Seq(STRING)
    BY <1>2, <1>5, CallType DEF AppendWorker
  <2>3. steps \in Seq(STRING \X {count + 1})
    BY <2>2
  <2>4. Accepted(steps) \in Seq(Free \X {count + 1})
    <3> HIDE DEF steps
    <3> QED  BY <2>3, AcceptedType
  <2>5. \/ UNCHANGED <<router, runtimes, ignored>>
        \/ /\ router' = AddStages(router, Accepted(steps))
           /\ \/ runtimes' = runtimes \cup {count + 1} /\ ignored' = ignored
              \/ runtimes' = runtimes /\ ignored' = TRUE
    BY <1>5 DEF AppendWorker, RegisterRoute
  <2>6. CASE router' = AddStages(router, Accepted(steps))
    <3> HIDE DEF steps
    <3>1. router' \in RoutesOf(Free, Nat)
      <4>1. Accepted(steps) \in Seq(Free \X Nat)
        BY <2>1, <2>4
      <4> QED  BY <1>0, <2>6, <4>1, AddStagesType
    <3>2. ASSUME ignored = FALSE, runtimes' = runtimes \cup {count + 1}
          PROVE  router' \in RoutesOf(Free, runtimes')
      <4>1. Accepted(steps) \in Seq(Free \X runtimes')
        BY <2>4, <3>2
      <4>2. router \in RoutesOf(Free, runtimes')
        BY <1>0, <3>2, RoutesMonotone
      <4> QED  BY <2>6, <4>1, <4>2, AddStagesType
    <3>3. IsFiniteSet(runtimes')
      BY <1>0, <2>5, FS_AddElement
    <3>4. ignored' \in BOOLEAN
      BY <1>0, <2>5
    <3>5. ignored' = FALSE => router' \in RoutesOf(Free, runtimes')
      BY <1>0, <2>5, <3>2
    <3> QED  BY <2>1, <3>1, <3>3, <3>4, <3>5 DEF RegistryInv
  <2> QED  BY <1>3, <2>1, <2>5, <2>6
<1>6. CASE RegisterRuntime
  <2> DEFINE steps == Head(program).steps
             done == {Accepted(steps)[i][2] : i \in DOMAIN Accepted(steps)}
  <2>1. program' \in Seq(Call) /\ count' = count
    BY <1>0, <1>1, <1>6 DEF RegisterRuntime
  <2>2. steps \in Seq(STRING \X Nat)
    BY <1>2, <1>6, CallType DEF RegisterRuntime
  <2>3. \/ UNCHANGED <<router, runtimes, ignored>>
        \/ /\ router' = AddStages(router, Accepted(steps)) /\ runtimes = {}
           /\ \/ runtimes' = done /\ ignored' = ignored
              \/ runtimes' = runtimes /\ ignored' = TRUE
    BY <1>6 DEF RegisterRuntime, RegisterRoute
  <2> HIDE DEF steps
  <2>4. Accepted(steps) \in Seq(Free \X Nat)
    BY <2>2, AcceptedType
  <2>5. Accepted(steps) \in Seq(Free \X done)
    <3> DEFINE a == Accepted(steps)
    <3>1. \A i \in 1 .. Len(a) : a[i] \in Free \X done
      BY <2>4
    <3>2. Len(a) \in Nat /\ a = [i \in 1 .. Len(a) |-> a[i]]
      BY <2>4
    <3> HIDE DEF a, done
    <3>3. a \in Seq(Free \X done)
      BY <3>1, <3>2
    <3> QED  BY <3>3 DEF a
  <2>6. IsFiniteSet(done)
    <3> DEFINE a == Accepted(steps)
               second == [i \in 1 .. Len(a) |-> a[i][2]]
    <3>1. Len(a) \in Nat /\ DOMAIN a = 1 .. Len(a)
      BY <2>4
    <3>3. IsFiniteSet(1 .. Len(a))
      BY <3>1, FS_Interval
    <3>4. second \in Surjection(1 .. Len(a), done)
      BY <3>1 DEF Surjection
    <3> HIDE DEF second, done, a
    <3> QED  BY <3>3, <3>4, FS_Surjection
  <2> HIDE DEF done
  <2>7. CASE router' = AddStages(router, Accepted(steps)) /\ runtimes = {}
    <3>1. router' \in RoutesOf(Free, Nat)
      BY <1>0, <2>4, <2>7, AddStagesType
    <3>2. ASSUME ignored = FALSE, runtimes' = done
          PROVE  router' \in RoutesOf(Free, runtimes')
      <4>1. router \in RoutesOf(Free, done)
        BY <1>0, <2>7, <3>2, RoutesMonotone
      <4> QED  BY <2>5, <2>7, <3>2, <4>1, AddStagesType
    <3>3. IsFiniteSet(runtimes') /\ ignored' \in BOOLEAN
      BY <1>0, <2>3, <2>6
    <3>4. ignored' = FALSE => router' \in RoutesOf(Free, runtimes')
      BY <1>0, <2>3, <3>2
    <3> QED  BY <1>0, <2>1, <3>1, <3>3, <3>4 DEF RegistryInv
  <2> QED  BY <1>0, <1>3, <2>1, <2>3, <2>7
<1>7. CASE Import \/ NewServer \/ Run \/ StartRsRuntime \/ DryRun \/ UNCHANGED lVars
  <2>1. UNCHANGED <<program, count, router, runtimes, ignored>>
    BY <1>7 DEF Import, NewServer, Run, StartRsRuntime, DryRun, lVars, registry
  <2> QED  BY <1>0, <1>3, <2>1
<1> QED  BY <1>4, <1>5, <1>6, <1>7 DEF LNext, Launching

(* Whatever a program calls (append_worker, register_runtime) and whatever *)
(* it ignores, no route has a reserved endpoint, and the routes lead to    *)
(* registered runtimes unless a refused endpoint was ignored.              *)
THEOREM RegistryInvariant == LSpec => []RegistryInv
BY InitRegistry, NextRegistry, PTL DEF LSpec

(* The configuration that _start_rs_runtime writes. *)
LEMMA ConfigurationResolves ==
  ASSUME RegistryInv
  PROVE  /\ Cardinality({c.worker : c \in Configuration.runtimes}) = Cardinality(runtimes)
         /\ \A i \in DOMAIN Configuration.routes :
              Configuration.routes[i].endpoint \notin Reserved
         /\ ignored = FALSE =>
              \A i \in DOMAIN Configuration.routes :
                \A k \in DOMAIN Configuration.routes[i].workers :
                  \E c \in Configuration.runtimes : c.worker = Configuration.routes[i].workers[k]
<1> DEFINE entry(r) == [worker |-> Name(r), max_batch_size |-> object[r].batch,
                        max_wait_time |-> object[r].wait]
           sse(i) == Workers[object[Last(router[i].pipeline)].worker].sse
           line(i) == [endpoint |-> router[i].endpoint,
                       workers |-> [k \in DOMAIN router[i].pipeline |-> Name(router[i].pipeline[k])],
                       is_sse |-> sse(i)]
<1>1. Configuration.runtimes = {entry(r) : r \in runtimes}
  BY DEF Configuration
<1>2. Configuration.routes = [i \in DOMAIN router |-> line(i)]
  BY DEF Configuration
<1>3. \A r : entry(r).worker = Name(r)
  OBVIOUS
<1>4. \A i : line(i).endpoint = router[i].endpoint
             /\ line(i).workers = [k \in DOMAIN router[i].pipeline |-> Name(router[i].pipeline[k])]
  OBVIOUS
<1> HIDE DEF entry, line
<1>5. Cardinality({c.worker : c \in Configuration.runtimes}) = Cardinality(runtimes)
  <2> DEFINE names == {Name(r) : r \in runtimes}
             name == [r \in runtimes |-> Name(r)]
  <2>1. {c.worker : c \in Configuration.runtimes} = names
    BY <1>1, <1>3
  <2>2. \A r, q : Name(r) = Name(q) => r = q
    BY DEF Name
  <2>3. name \in Bijection(runtimes, names)
    BY <2>2 DEF Bijection, Injection, Surjection, IsInjective
  <2>4. IsFiniteSet(runtimes) /\ ExistsBijection(runtimes, names)
    BY <2>3 DEF ExistsBijection, RegistryInv
  <2> HIDE DEF names
  <2> QED  BY <2>1, <2>4, FS_Bijection
<1>6. ASSUME NEW I, router \in RoutesOf(Free, I), NEW i \in DOMAIN router
      PROVE  router[i].endpoint \in Free /\ router[i].pipeline \in Seq(I)
  <2> DEFINE R == [endpoint : Free, pipeline : Seq(I)]
  <2>1. router \in Seq(R)
    BY <1>6 DEF RoutesOf
  <2> HIDE DEF R
  <2>2. router[i] \in R
    BY <1>6, <2>1
  <2> QED  BY <2>2 DEF R
<1>7. \A i \in DOMAIN Configuration.routes : Configuration.routes[i].endpoint \notin Reserved
  BY <1>2, <1>4, <1>6 DEF RegistryInv, Free
<1>8. ASSUME ignored = FALSE, NEW i \in DOMAIN Configuration.routes,
             NEW k \in DOMAIN Configuration.routes[i].workers
      PROVE  \E c \in Configuration.runtimes : c.worker = Configuration.routes[i].workers[k]
  <2>1. i \in DOMAIN router /\ Configuration.routes[i] = line(i)
    BY <1>2, <1>8
  <2>2. router[i].pipeline \in Seq(runtimes)
    BY <1>6, <1>8, <2>1 DEF RegistryInv
  <2> DEFINE p == router[i].pipeline
  <2>3. k \in DOMAIN p /\ Configuration.routes[i].workers[k] = Name(p[k])
    <3>1. Configuration.routes[i].workers = [n \in DOMAIN p |-> Name(p[n])]
      BY <1>4, <2>1, Zenon
    <3>2. k \in DOMAIN [n \in DOMAIN p |-> Name(p[n])]
      BY <1>8, <3>1, Zenon
    <3> HIDE DEF p
    <3>3. k \in DOMAIN p
      BY <3>2
    <3> QED  BY <3>1, <3>3, Zenon
  <2>4. p[k] \in runtimes
    <3> HIDE DEF p
    <3> QED  BY <2>2, <2>3 DEF p
  <2> QED  BY <1>1, <1>3, <2>3, <2>4
<1> QED  BY <1>5, <1>7, <1>8

(* The configuration of every service that is started resolves: stages     *)
(* have names of their own, no route is reserved, and the Rust service     *)
(* knows every worker that a route names, unless a refused endpoint was    *)
(* ignored.                                                                *)
THEOREM RoutesResolveHolds == LSpec => []RoutesResolve
<1>1. LInit => RoutesResolve
  BY DEF LInit, RoutesResolve
<1>2. RegistryInv /\ RoutesResolve /\ [LNext]_lVars => RoutesResolve'
  <2> SUFFICES ASSUME RegistryInv, RoutesResolve, [LNext]_lVars, phase' = "serving"
               PROVE  RoutesResolve'
    BY DEF RoutesResolve
  <2>1. CASE StartRsRuntime
    <3>1. conf' = Configuration /\ UNCHANGED <<runtimes, ignored>>
      BY <2>1 DEF StartRsRuntime, registry
    <3>2. ignored \/ ignored = FALSE
      BY DEF RegistryInv
    <3> QED  BY <3>1, <3>2, ConfigurationResolves DEF RoutesResolve
  <2>2. CASE UNCHANGED lVars
    BY <2>2 DEF RoutesResolve, lVars, registry, started
  <2>3. CASE DryRun
    BY <2>3 DEF DryRun
  <2>4. CASE Launching /\ ~StartRsRuntime
    BY <2>4 DEF Launching, Import, NewServer, NewRuntime, AppendWorker, RegisterRuntime, Run,
       Returns, Raises
  <2> QED  BY <2>1, <2>2, <2>3, <2>4 DEF LNext
<1> QED  BY <1>1, <1>2, RegistryInvariant, PTL DEF LSpec

-----------------------------------------------------------------------------
(***************************************************************************)
(* The schemas.  TrySchemaType decides about a boundary from the decisions *)
(* about those before it; the rank of a boundary is its place in the two   *)
(* passes.                                                                 *)
(***************************************************************************)
Fits(bs, f, i) ==
  /\ Resolves(bs[i].annotation, bs[i].batched)
  /\ \A j \in DOMAIN bs :
       Before(bs, j, i) /\ f[j] =>
         ~Conflicts(Resolve(bs[i].annotation, bs[i].batched),
                    Resolve(bs[j].annotation, bs[j].batched))

LEMMA Acceptance ==
  ASSUME NEW N \in Nat, NEW bs, DOMAIN bs = 1 .. N
  PROVE  \A i \in 1 .. N : TrySchemaType(bs)[i] <=> Fits(bs, TrySchemaType(bs), i)
<1> DEFINE rank(i) == IF bs[i].typed THEN i ELSE N + i
           Is(f, m) == \A i \in 1 .. N : rank(i) <= m => f[i] = Fits(bs, f, i)
           S == {m \in Nat : \E f : DOMAIN f = 1 .. N /\ Is(f, m)}
<1>0. \A i \in 1 .. N : rank(i) \in Nat /\ rank(i) # 0 /\ rank(i) <= N + N
  OBVIOUS
<1>1. \A i, j \in 1 .. N : Before(bs, j, i) => rank(j) < rank(i)
  BY DEF Before
<1>2. ASSUME NEW f, NEW g, NEW i \in 1 .. N, \A j \in 1 .. N : Before(bs, j, i) => f[j] = g[j]
      PROVE  Fits(bs, f, i) = Fits(bs, g, i)
  BY <1>2 DEF Fits
<1> HIDE DEF rank
<1>3. 0 \in S
  <2>1. Is([i \in 1 .. N |-> TRUE], 0)
    BY <1>0
  <2> HIDE DEF Is
  <2> QED  BY <2>1
<1>4. ASSUME NEW m \in Nat, m \in S PROVE m + 1 \in S
  <2>1. PICK f : DOMAIN f = 1 .. N /\ Is(f, m)
    BY <1>4
  <2> DEFINE g == [i \in 1 .. N |-> IF rank(i) = m + 1 THEN Fits(bs, f, i) ELSE f[i]]
  <2>2. ASSUME NEW i \in 1 .. N, rank(i) <= m + 1 PROVE g[i] = Fits(bs, g, i)
    <3>1. \A j \in 1 .. N : Before(bs, j, i) => f[j] = g[j]
      <4>1. ASSUME NEW j \in 1 .. N, Before(bs, j, i) PROVE rank(j) # m + 1
        BY <1>0, <1>1, <2>2, <4>1
      <4> QED  BY <4>1
    <3>2. Fits(bs, f, i) = Fits(bs, g, i)
      BY <1>2, <3>1
    <3>3. CASE rank(i) = m + 1
      <4>1. g[i] = Fits(bs, f, i)
        BY <3>3
      <4> QED  BY <3>2, <4>1
    <3>4. CASE rank(i) # m + 1
      <4>1. rank(i) <= m /\ g[i] = f[i]
        BY <1>0, <2>2, <3>4
      <4>2. f[i] = Fits(bs, f, i)
        BY <2>1, <4>1
      <4> QED  BY <3>2, <4>1, <4>2
    <3> QED  BY <3>3, <3>4
  <2>3. DOMAIN g = 1 .. N /\ Is(g, m + 1)
    BY <2>2
  <2> HIDE DEF g, Is
  <2> QED  BY <2>3
<1>5. Nat \subseteq S
  <2> HIDE DEF S
  <2> QED  BY <1>3, <1>4, SetInduction
<1>6. PICK f : DOMAIN f = 1 .. N /\ Is(f, N + N)
  BY <1>5
<1> DEFINE F == [i \in 1 .. N |-> Fits(bs, f, i)]
           acc == CHOOSE g : g = [i \in DOMAIN bs |-> Fits(bs, g, i)]
<1>7. \A i \in 1 .. N : F[i] = Fits(bs, F, i)
  <2>1. \A i \in 1 .. N : f[i] = Fits(bs, f, i)
    BY <1>0, <1>6
  <2>2. \A i \in 1 .. N : F[i] = f[i]
    BY <2>1
  <2>3. \A i \in 1 .. N : Fits(bs, f, i) = Fits(bs, F, i)
    <3> HIDE DEF F
    <3> QED  BY <1>2, <2>2
  <2> QED  BY <2>3
<1>8. F = [i \in DOMAIN bs |-> Fits(bs, F, i)]
  <2>1. DOMAIN F = DOMAIN bs /\ F = [i \in DOMAIN F |-> F[i]]
    OBVIOUS
  <2> HIDE DEF F
  <2> QED  BY <1>7, <2>1
<1>9. acc = [i \in DOMAIN bs |-> Fits(bs, acc, i)]
  <2> HIDE DEF F
  <2> QED  BY <1>8
<1>10. TrySchemaType(bs) = acc
  BY DEF TrySchemaType, Fits
<1> HIDE DEF acc
<1> QED  BY <1>9, <1>10

(* What generate_openapi makes of the decisions. *)
LEMMA Documented ==
  ASSUME NEW rs \in RoutesOf(Free, Nat), NEW obj
  PROVE  LET bs  == Boundaries(rs, obj)
             acc == TrySchemaType(bs)
             G   == GenerateOpenapi(rs, obj)
         IN /\ DOMAIN bs = 1 .. 2 * Len(rs)
            /\ G.failed = \E i \in DOMAIN bs :
                            ~acc[i] /\ (bs[i].typed \/ bs[i].annotation.kind = "error")
            /\ \A i \in DOMAIN bs :
                 G.types[bs[i].key] = IF acc[i] THEN Resolve(bs[i].annotation, bs[i].batched)
                                      ELSE NoType
<1> DEFINE bs == Boundaries(rs, obj)
           acc == TrySchemaType(bs)
           G == GenerateOpenapi(rs, obj)
           N == 2 * Len(rs)
           raises == \E i \in DOMAIN bs :
                       ~acc[i] /\ (bs[i].typed \/ bs[i].annotation.kind = "error")
           place(k) == CHOOSE i \in DOMAIN bs : bs[i].key = k
           keys == {bs[i].key : i \in DOMAIN bs}
           entry(k) == IF acc[place(k)]
                       THEN Resolve(bs[place(k)].annotation, bs[place(k)].batched) ELSE NoType
<1>1. Len(rs) \in Nat /\ N \in Nat /\ DOMAIN rs = 1 .. Len(rs)
  BY DEF RoutesOf
<1>2. DOMAIN bs = 1 .. N
  BY DEF Boundaries
<1>3. \A r : Request(r, obj).key = <<r.endpoint, "request">>
             /\ Response(r, obj).key = <<r.endpoint, "response">>
  BY DEF Request, Response, Boundary
<1> DEFINE half(i) == IF i % 2 = 1 THEN (i + 1) \div 2 ELSE i \div 2
           way(i) == IF i % 2 = 1 THEN "request" ELSE "response"
<1>4. \A i \in 1 .. N : bs[i].key = <<rs[half(i)].endpoint, way(i)>>
  BY <1>3 DEF Boundaries
<1>5. ASSUME NEW i \in 1 .. N, NEW j \in 1 .. N, bs[i].key = bs[j].key PROVE i = j
  <2>1. ASSUME NEW n \in 1 .. N
        PROVE  /\ half(n) \in DOMAIN rs
               /\ n = IF way(n) = "request" THEN 2 * half(n) - 1 ELSE 2 * half(n)
    BY <1>1
  <2>2. \A x, y \in DOMAIN rs : rs[x].endpoint = rs[y].endpoint => x = y
    BY DEF RoutesOf, Distinct
  <2> HIDE DEF bs, half, way
  <2>3. <<rs[half(i)].endpoint, way(i)>> = <<rs[half(j)].endpoint, way(j)>>
    BY <1>4, <1>5
  <2>4. half(i) = half(j) /\ way(i) = way(j)
    BY <2>1, <2>2, <2>3
  <2> QED  BY <2>1, <2>4
<1>6. G = [failed |-> raises, types |-> [k \in keys |-> entry(k)]]
  BY Zenon DEF GenerateOpenapi
<1>7. G.failed = raises /\ G.types = [k \in keys |-> entry(k)]
  <2> HIDE DEF G, raises, keys, entry
  <2> QED  BY <1>6
<1>8. ASSUME NEW i \in DOMAIN bs
      PROVE  G.types[bs[i].key] = IF acc[i] THEN Resolve(bs[i].annotation, bs[i].batched)
                                  ELSE NoType
  <2>1. bs[i].key \in keys
    OBVIOUS
  <2>2. place(bs[i].key) = i
    <3> HIDE DEF bs
    <3> QED  BY <1>2, <1>5
  <2>3. G.types[bs[i].key] = entry(bs[i].key)
    <3> HIDE DEF G, keys, entry, bs
    <3> QED  BY <1>7, <2>1
  <2> HIDE DEF G, bs, acc, place
  <2> QED  BY <2>2, <2>3
<1> QED  BY <1>2, <1>7, <1>8

(* A typed boundary does not resolve, or an ordinary one for an unexpected *)
(* reason, or two typed boundaries conflict.                               *)
MustFail(bs) ==
  LET B == {bs[i] : i \in DOMAIN bs}
      bad(b) == ~Resolves(b.annotation, b.batched)
  IN \/ \E b \in B : bad(b) /\ (b.typed \/ b.annotation.kind = "error")
     \/ \E b, c \in B : /\ b.typed /\ c.typed /\ ~bad(b) /\ ~bad(c)
                        /\ Conflicts(Resolve(b.annotation, b.batched),
                                     Resolve(c.annotation, c.batched))

(* Typed boundaries are documented as annotated, no two documented types   *)
(* conflict, and only typed boundaries and unexpected errors fail.         *)
LEMMA TypedOrder ==
  ASSUME NEW rs \in RoutesOf(Free, Nat), NEW obj
  PROVE  LET bs == Boundaries(rs, obj)
             B  == {bs[i] : i \in DOMAIN bs}
             G  == GenerateOpenapi(rs, obj)
         IN /\ ~G.failed =>
                 /\ \A b \in B : b.typed => G.types[b.key] = Resolve(b.annotation, b.batched)
                 /\ \A b, c \in B : ~Conflicts(G.types[b.key], G.types[c.key])
            /\ G.failed => MustFail(bs)
<1> DEFINE bs == Boundaries(rs, obj)
           acc == TrySchemaType(bs)
           G == GenerateOpenapi(rs, obj)
           B == {bs[i] : i \in DOMAIN bs}
           N == 2 * Len(rs)
           bad(b) == ~Resolves(b.annotation, b.batched)
           type(b) == Resolve(b.annotation, b.batched)
<1>0. N \in Nat
  BY DEF RoutesOf
<1>1. /\ DOMAIN bs = 1 .. N
      /\ G.failed = \E i \in DOMAIN bs : ~acc[i] /\ (bs[i].typed \/ bs[i].annotation.kind = "error")
      /\ \A i \in DOMAIN bs : G.types[bs[i].key] = IF acc[i] THEN type(bs[i]) ELSE NoType
  BY Documented, Zenon
<1> HIDE DEF bs, G
<1>2. \A i \in 1 .. N : acc[i] <=> Fits(bs, acc, i)
  BY <1>0, <1>1, Acceptance
<1> HIDE DEF acc, N, type
<1>3. ASSUME ~G.failed
      PROVE  /\ \A b \in B : b.typed => G.types[b.key] = type(b)
             /\ \A b, c \in B : ~Conflicts(G.types[b.key], G.types[c.key])
  <2>1. ASSUME NEW i \in DOMAIN bs, bs[i].typed PROVE G.types[bs[i].key] = type(bs[i])
    BY <1>1, <1>3, <2>1
  <2>2. ASSUME NEW i \in DOMAIN bs, NEW j \in DOMAIN bs
        PROVE  ~Conflicts(G.types[bs[i].key], G.types[bs[j].key])
    <3>1. \A t, u : Conflicts(t, u) => Conflicts(u, t) /\ t # u /\ t # NoType /\ u # NoType
      <4>1. NoType.name = ""
        BY DEF NoType
      <4> QED  BY <4>1, Zenon DEF Conflicts
    <3>2. CASE acc[i] /\ acc[j]
      <4>1. i = j \/ Before(bs, i, j) \/ Before(bs, j, i)
        BY <1>0, <1>1 DEF Before
      <4>2. Fits(bs, acc, i) /\ Fits(bs, acc, j)
        BY <1>1, <1>2, <3>2
      <4>3. ~Conflicts(type(bs[i]), type(bs[j]))
        BY <3>1, <3>2, <4>1, <4>2 DEF Fits, type
      <4> QED  BY <1>1, <3>2, <4>3
    <3>3. CASE ~acc[i] \/ ~acc[j]
      BY <1>1, <3>1, <3>3
    <3> QED  BY <3>2, <3>3
  <2> QED  BY <2>1, <2>2
<1>4. ASSUME G.failed PROVE MustFail(bs)
  <2>1. PICK i \in DOMAIN bs : ~acc[i] /\ (bs[i].typed \/ bs[i].annotation.kind = "error")
    BY <1>1, <1>4
  <2>2. CASE bad(bs[i])
    BY <2>1, <2>2 DEF MustFail
  <2>3. CASE ~bad(bs[i])
    <3>1. bs[i].annotation.kind # "error"
      BY <2>3 DEF Resolves
    <3>2. bs[i].typed
      BY <2>1, <3>1
    <3>3. PICK j \in DOMAIN bs : Before(bs, j, i) /\ acc[j] /\ Conflicts(type(bs[i]), type(bs[j]))
      BY <1>1, <1>2, <2>1, <2>3 DEF Fits, type
    <3>4. bs[j].typed
      BY <3>2, <3>3 DEF Before
    <3>5. ~bad(bs[j])
      BY <1>1, <1>2, <3>3 DEF Fits
    <3> QED  BY <2>3, <3>2, <3>3, <3>4, <3>5 DEF MustFail, type
  <2> QED  BY <2>2, <2>3
<1> QED  BY <1>3, <1>4, Zenon DEF bs, G, type

(* The document is that of the routes, which are fixed once it is made. *)
DocInv ==
  /\ phase \in {"dry", "start", "serving"} =>
       doc = GenerateOpenapi(router, object) /\ ~doc.failed
  /\ phase = "no_schema" => doc = GenerateOpenapi(router, object) /\ doc.failed

(* Typed schemas take priority over ordinary ones for every set of worker  *)
(* classes and annotations and in any order of routes (generate_openapi).  *)
THEOREM TypedFirstHolds == LSpec => []TypedFirst
<1>1. LInit => DocInv
  BY DEF LInit, DocInv
<1>2. DocInv /\ [LNext]_lVars => DocInv'
  <2> SUFFICES ASSUME DocInv, [LNext]_lVars PROVE DocInv'
    OBVIOUS
  <2>1. CASE Run
    BY <2>1 DEF Run, DocInv, registry
  <2>2. CASE StartRsRuntime
    BY <2>2 DEF StartRsRuntime, DocInv, registry
  <2>3. CASE DryRun \/ UNCHANGED lVars
    <3>1. UNCHANGED <<phase, doc, router, object>>
      BY <2>3 DEF DryRun, lVars, registry, started
    <3> QED  BY <3>1 DEF DocInv
  <2>4. CASE Launching /\ ~Run /\ ~StartRsRuntime
    <3>1. phase' \notin {"dry", "start", "serving", "no_schema"}
      BY <2>4 DEF Launching, Import, NewServer, NewRuntime, AppendWorker, RegisterRuntime,
         Returns, Raises
    <3> QED  BY <3>1 DEF DocInv
  <2> QED  BY <2>1, <2>2, <2>3, <2>4 DEF LNext
<1>3. RegistryInv /\ DocInv => TypedFirst
  <2> SUFFICES ASSUME RegistryInv, DocInv PROVE TypedFirst
    OBVIOUS
  <2>1. router \in RoutesOf(Free, Nat)
    BY DEF RegistryInv
  <2>2. CASE phase \in {"dry", "serving"}
    <3>1. doc = GenerateOpenapi(router, object) /\ ~doc.failed /\ phase # "no_schema"
      BY <2>2 DEF DocInv
    <3> QED  BY <2>1, <3>1, TypedOrder, Zenon DEF TypedFirst
  <2>3. CASE phase = "no_schema"
    <3>1. GenerateOpenapi(router, object).failed /\ phase \notin {"dry", "serving"}
      BY <2>3 DEF DocInv
    <3>2. MustFail(Boundaries(router, object))
      BY <2>1, <3>1, TypedOrder
    <3> QED  BY <3>1, <3>2, Zenon DEF TypedFirst, MustFail
  <2>4. CASE phase \notin {"dry", "serving", "no_schema"}
    BY <2>4, Zenon DEF TypedFirst
  <2> QED  BY <2>2, <2>3, <2>4
<1> QED  BY <1>1, <1>2, <1>3, RegistryInvariant, PTL DEF LSpec

-----------------------------------------------------------------------------
(***************************************************************************)
(* The dry run.  Its example is a token: it is in one pipe, or in the      *)
(* hands of one process, or gone.                                          *)
(***************************************************************************)
Route == [endpoint : STRING, pipeline : Seq(Nat)]

RoutesTyped == router \in Seq(Route)

PoolStates == {"init", "wait", "ready", "work", "done", "ok", "bad"}

Active == {"send", "poll", "probe", "result", "release", "join"}

DryTypes ==
  /\ at \in Nat \ {0} /\ joined \in Nat /\ full \subseteq Nat
  /\ notify \in BOOLEAN /\ failed \in BOOLEAN
  /\ pc \in Active \cup {"start", "exit"}
  /\ pc \in Active =>
       at <= Len(router) /\ proc \in [Stages -> PoolStates] /\ full \subseteq 0 .. Depth
  /\ pc = "start" => \A k \in DOMAIN proc : proc[k] = "ok"
  /\ phase # "dry" => pc = "start" /\ at = 1

(* The example is in one place; it is not there before it is sent and      *)
(* after it was received.                                                  *)
TokenInv ==
  /\ \A i, j \in full : i = j
  /\ pc \in Active =>
       \A k \in Stages : /\ proc[k] = "work" => full = {}
                         /\ proc[k] = "ready" => full = {k - 1}
  /\ pc \in Active =>
       \A k, j \in Stages : proc[k] = "work" /\ proc[j] = "work" => k = j
  /\ pc \in {"send", "release", "join"} =>
       full = {} /\ \A k \in Stages : proc[k] # "work"
  /\ pc = "result" /\ ~notify => Depth \in full

(* A failure is not forgotten: a process is dead, or the event is set      *)
(* before anybody else would set it.                                       *)
FailureInv ==
  /\ pc \in Active \cup {"start"} /\ failed =>
       /\ pc # "start"
       /\ \/ \E k \in Stages : proc[k] = "bad"
          \/ notify /\ pc \in {"poll", "probe", "result"}
  /\ pc = "join" => \A k \in Stages : k <= joined => proc[k] = "ok"
  /\ pc \in Active \ {"join"} => joined = 0

ProgressInv ==
  /\ pc # "exit" => code = -1
  /\ \A e \in 1 .. at - 1 : HasExample(e) => e \in passed
  /\ pc \in {"release", "join"} /\ HasExample(at) => at \in passed

DryInv == DryTypes /\ TokenInv /\ FailureInv /\ ProgressInv /\ SuccessIsReal

LEMMA InitDry == LInit => DryInv
<1> SUFFICES ASSUME LInit PROVE DryInv
  OBVIOUS
<1>1. /\ phase = "import" /\ pc = "start" /\ at = 1 /\ code = -1 /\ joined = 0 /\ notify = FALSE
      /\ proc = [k \in {} |-> "ok"] /\ full = {} /\ passed = {} /\ failed = FALSE
  BY DEF LInit, DInit
<1>2. DryTypes
  <2>1. \A k \in DOMAIN proc : proc[k] = "ok"
    BY <1>1
  <2>2. at \in Nat \ {0} /\ joined \in Nat /\ full \subseteq Nat /\ pc = "start" /\ at = 1
    BY <1>1
  <2>3. notify \in BOOLEAN /\ failed \in BOOLEAN
    BY <1>1, Zenon
  <2> QED  BY <2>1, <2>2, <2>3 DEF DryTypes, Active
<1>3. TokenInv /\ FailureInv
  BY <1>1 DEF TokenInv, FailureInv, Active
<1>4. ProgressInv /\ SuccessIsReal
  BY <1>1 DEF ProgressInv, SuccessIsReal
<1> QED  BY <1>2, <1>3, <1>4 DEF DryInv

(* Before the dry run its variables rest. *)
LEMMA LaunchingDry ==
  ASSUME DryInv, Launching
  PROVE  DryInv'
<1>1. phase # "dry" /\ UNCHANGED dVars
  BY DEF Launching, Import, NewServer, NewRuntime, AppendWorker, RegisterRuntime, Run,
     StartRsRuntime
<1>2. UNCHANGED <<pc, at, code, joined, notify, proc, full, passed, failed>>
  BY <1>1 DEF dVars, history
<1>3. pc = "start" /\ at = 1 /\ code = -1
  BY <1>1 DEF DryInv, DryTypes, ProgressInv
<1>4. DryTypes'
  BY <1>2, <1>3 DEF DryInv, DryTypes, Active
<1>5. TokenInv' /\ FailureInv'
  BY <1>2, <1>3 DEF DryInv, TokenInv, FailureInv, Active
<1>6. ProgressInv' /\ SuccessIsReal'
  BY <1>2, <1>3 DEF ProgressInv, SuccessIsReal
<1> QED  BY <1>4, <1>5, <1>6 DEF DryInv

(* The number of stages of the endpoint. *)
LEMMA DepthType ==
  ASSUME RoutesTyped, DryTypes, pc \in Active \/ at <= Len(router)
  PROVE  Depth \in Nat /\ Len(router) \in Nat /\ DOMAIN router = 1 .. Len(router)
<1>1. at \in 1 .. Len(router)
  BY DEF RoutesTyped, DryTypes
<1>2. router[at] \in Route
  BY <1>1 DEF RoutesTyped
<1> QED  BY <1>2 DEF Depth, Route, RoutesTyped

(* The routes are fixed during a dry run. *)
LEMMA SameExamples ==
  ASSUME UNCHANGED <<router, object>>
  PROVE  \A e : HasExample(e)' <=> HasExample(e)
BY DEF HasExample

(* A step of one process, while the dry run goes on. *)
LEMMA ProcessDry ==
  ASSUME DryInv, RoutesTyped, phase = "dry", pc # "exit",
         NEW k \in DOMAIN proc, Process(k) \/ ProcessDies(k),
         UNCHANGED <<phase, router, object>>
  PROVE  DryInv'
<1>0. DryTypes /\ TokenInv /\ FailureInv /\ ProgressInv /\ SuccessIsReal
  BY DEF DryInv
<1>1. /\ UNCHANGED <<pc, at, code, joined, passed>> /\ pc # "start" /\ pc \in Active
      /\ k \in Stages /\ proc \in [Stages -> PoolStates]
  <2>1. UNCHANGED <<pc, at, code, joined, passed>> /\ proc[k] # "ok"
    BY DEF Process, ProcessDies, Construct, SeeData, LeaveEarly, TakeData, PassOn, Raise,
       ProcessEnd, history
  <2> QED  BY <1>0, <2>1 DEF DryTypes
<1>2. Depth \in Nat /\ Depth' = Depth /\ Stages' = Stages /\ Stages = 1 .. Depth
  BY <1>0, <1>1, DepthType DEF Depth, Stages
<1>3. k \in Nat /\ k - 1 \in Nat /\ k - 1 \in 0 .. Depth /\ k \in 0 .. Depth /\ k - 1 # Depth
  BY <1>1, <1>2
<1>4. ProgressInv' /\ SuccessIsReal'
  <2>1. code = -1
    BY <1>0 DEF ProgressInv
  <2> QED  BY <1>0, <1>1, <2>1, SameExamples DEF ProgressInv, SuccessIsReal
<1>5. PICK s \in PoolStates : proc' = [proc EXCEPT ![k] = s]
  BY DEF Process, ProcessDies, Construct, SeeData, LeaveEarly, TakeData, PassOn, Raise,
     ProcessEnd, Become, PoolStates
<1>6. proc'[k] = s /\ \A j \in Stages : j # k => proc'[j] = proc[j]
  BY <1>1, <1>5
<1>7. full' \in {full, full \ {k - 1}, full \cup {k}} /\ notify' \in {notify, TRUE}
  BY DEF Process, ProcessDies, Construct, SeeData, LeaveEarly, TakeData, PassOn, Raise,
     ProcessEnd
<1>8. DryTypes'
  <2>1. full' \subseteq 0 .. Depth /\ notify' \in BOOLEAN /\ failed' \in BOOLEAN
    <3>1. failed' \in {failed, TRUE}
      BY DEF Process, ProcessDies, Construct, SeeData, LeaveEarly, TakeData, PassOn, Raise,
         ProcessEnd, history
    <3> QED  BY <1>0, <1>1, <1>3, <1>7, <3>1 DEF DryTypes
  <2>2. proc' \in [Stages -> PoolStates]
    BY <1>1, <1>5
  <2> QED  BY <1>0, <1>1, <1>2, <2>1, <2>2 DEF DryTypes, Active
<1>9. TokenInv'
  <2>1. CASE SeeData(k)
    <3>1. /\ ~notify /\ full = {k - 1} /\ UNCHANGED <<full, notify>>
          /\ proc' = [proc EXCEPT ![k] = "ready"]
      BY <1>0, <2>1 DEF SeeData, Become, TokenInv
    <3>2. proc'[k] = "ready" /\ \A j \in Stages : j # k => proc'[j] = proc[j]
      BY <1>1, <3>1
    <3>3. \A j \in Stages : proc'[j] # "work" /\ (proc'[j] = "ready" => full = {j - 1})
      BY <1>0, <1>1, <3>1, <3>2 DEF TokenInv
    <3>4. pc \notin {"send", "release", "join"}
      BY <1>0, <1>1, <3>1 DEF TokenInv
    <3>5. (\A i, j \in full : i = j) /\ (pc = "result" => Depth \in full)
      BY <1>0, <3>1 DEF TokenInv
    <3> QED  BY <1>1, <1>2, <3>1, <3>3, <3>4, <3>5 DEF TokenInv
  <2>2. CASE TakeData(k)
    <3>1. /\ proc[k] = "ready" /\ full = {k - 1} /\ full' = {} /\ notify' = notify
          /\ proc' = [proc EXCEPT ![k] = "work"]
      BY <1>0, <1>1, <2>2 DEF TakeData, Become, TokenInv
    <3>2. proc'[k] = "work" /\ \A j \in Stages : j # k => proc'[j] = proc[j]
      BY <1>1, <3>1
    <3>3. \A j \in Stages : proc[j] # "work" /\ (proc[j] = "ready" => j = k)
      <4>1. \A j \in Stages : proc[j] = "ready" => j - 1 = k - 1
        BY <1>0, <1>1, <3>1 DEF TokenInv
      <4> QED  BY <1>0, <1>1, <1>2, <1>3, <3>1, <4>1 DEF TokenInv
    <3>4. pc \notin {"send", "release", "join"}
      BY <1>0, <3>1 DEF TokenInv
    <3>5. Depth \notin full
      BY <1>2, <1>3, <3>1
    <3> QED  BY <1>0, <1>1, <1>2, <3>1, <3>2, <3>3, <3>4, <3>5 DEF TokenInv
  <2>3. CASE PassOn(k)
    <3>1. /\ proc[k] = "work" /\ full = {} /\ full' = {k} /\ notify' = notify
          /\ proc' = [proc EXCEPT ![k] = "done"]
      BY <1>0, <1>1, <2>3 DEF PassOn, Become, TokenInv
    <3>2. proc'[k] = "done" /\ \A j \in Stages : j # k => proc'[j] = proc[j]
      BY <1>1, <3>1
    <3>3. \A j \in Stages : proc'[j] # "work" /\ proc'[j] # "ready"
      BY <1>0, <1>1, <3>1, <3>2 DEF TokenInv
    <3>4. pc \notin {"send", "release", "join"}
      BY <1>0, <1>1, <3>1 DEF TokenInv
    <3> QED  BY <1>0, <1>1, <1>2, <3>1, <3>3, <3>4 DEF TokenInv
  <2>4. CASE ~(SeeData(k) \/ TakeData(k) \/ PassOn(k))
    <3>1. full' = full /\ (notify' = notify \/ notify') /\ s \notin {"ready", "work"}
      BY <1>1, <1>5, <1>6, <2>4 DEF Process, ProcessDies, Construct, LeaveEarly, Raise,
         ProcessEnd, Become
    <3> QED  BY <1>0, <1>1, <1>2, <1>6, <3>1 DEF TokenInv
  <2> QED  BY <2>1, <2>2, <2>3, <2>4
<1>10. FailureInv'
  <2>1. proc[k] \notin {"ok", "bad"}
    BY DEF Process, ProcessDies, Construct, SeeData, LeaveEarly, TakeData, PassOn, Raise,
       ProcessEnd
  <2>2. pc = "join" => \A j \in Stages : j <= joined => proc'[j] = "ok"
    BY <1>0, <1>6, <2>1 DEF FailureInv
  <2>3. \A j \in Stages : proc[j] = "bad" => proc'[j] = "bad"
    BY <1>6, <2>1
  <2>4. notify => notify'
    BY <1>7
  <2>5. CASE Raise(k)
    <3>1. notify' /\ proc[k] = "work"
      BY <2>5 DEF Raise
    <3>2. pc \in {"poll", "probe", "result"}
      BY <1>0, <1>1, <3>1 DEF TokenInv, Active
    <3> QED  BY <1>0, <1>1, <1>2, <2>2, <3>1, <3>2 DEF FailureInv
  <2>6. CASE ProcessDies(k)
    <3>1. proc'[k] = "bad"
      BY <1>1, <2>6 DEF ProcessDies, Become
    <3> QED  BY <1>0, <1>1, <1>2, <2>2, <3>1 DEF FailureInv
  <2>7. CASE ~Raise(k) /\ ~ProcessDies(k)
    <3>1. failed' = failed
      BY <2>7 DEF Process, Construct, SeeData, LeaveEarly, TakeData, PassOn, ProcessEnd, history
    <3> QED  BY <1>0, <1>1, <1>2, <2>2, <2>3, <2>4, <3>1 DEF FailureInv
  <2> QED  BY <2>5, <2>6, <2>7
<1> QED  BY <1>4, <1>8, <1>9, <1>10 DEF DryInv

LEMMA RunnerDry ==
  ASSUME DryInv, RoutesTyped, phase = "dry", Runner, UNCHANGED <<phase, router, object>>
  PROVE  DryInv'
<1>0. DryTypes /\ TokenInv /\ FailureInv /\ ProgressInv /\ SuccessIsReal
  BY DEF DryInv
<1>e. \A e : HasExample(e)' <=> HasExample(e)
  BY SameExamples
<1>d. at' = at => Depth' = Depth /\ Stages' = Stages
  BY DEF Depth, Stages
<1>s. Stages = 1 .. Depth
  BY DEF Stages
<1>1. CASE StartPool
  <2>1. /\ pc = "start" /\ at <= Len(router) /\ proc' = [k \in Stages |-> "init"] /\ full' = {}
        /\ joined' = 0 /\ pc' = IF HasExample(at) THEN "send" ELSE "release"
        /\ UNCHANGED <<at, code, notify, passed, failed>>
    BY <1>1 DEF StartPool, Goto, history
  <2>2. Depth \in Nat
    BY <1>0, <2>1, DepthType
  <2>3. DryTypes'
    BY <1>0, <1>d, <2>1 DEF DryTypes, Active, PoolStates
  <2>4. TokenInv' /\ FailureInv'
    BY <1>0, <1>d, <2>1 DEF TokenInv, FailureInv, Active
  <2>5. ProgressInv' /\ SuccessIsReal'
    BY <1>0, <1>e, <2>1 DEF ProgressInv, SuccessIsReal
  <2> QED  BY <2>3, <2>4, <2>5 DEF DryInv
<1>2. CASE SendExample
  <2>1. /\ pc = "send" /\ full' = full \cup {0} /\ pc' = "poll"
        /\ UNCHANGED <<at, code, joined, notify, proc, passed, failed>>
    BY <1>2 DEF SendExample, Goto, history
  <2>2. full = {} /\ \A k \in Stages : proc[k] # "work" /\ proc[k] # "ready"
    BY <1>0, <2>1 DEF TokenInv, Active
  <2>3. Depth \in Nat
    BY <1>0, <2>1, DepthType DEF Active
  <2>4. DryTypes'
    BY <1>0, <1>d, <2>1, <2>3 DEF DryTypes, Active
  <2>5. TokenInv' /\ FailureInv'
    BY <1>0, <1>d, <2>1, <2>2 DEF TokenInv, FailureInv, Active
  <2>6. ProgressInv' /\ SuccessIsReal'
    BY <1>0, <1>e, <2>1 DEF ProgressInv, SuccessIsReal
  <2> QED  BY <2>4, <2>5, <2>6 DEF DryInv
<1>3. CASE Poll \/ Probe
  <2>1. /\ pc \in {"poll", "probe"} /\ pc' \in {"poll", "probe", "result"}
        /\ notify' \in {notify, TRUE}
        /\ pc' = "result" /\ ~notify' => Depth \in full
        /\ UNCHANGED <<at, code, joined, proc, full, passed, failed>>
    <3>1. CASE Poll
      BY <3>1 DEF Poll, Goto, history
    <3>2. CASE Probe
      BY <3>2 DEF Probe, Goto, history
    <3> QED  BY <1>3, <3>1, <3>2
  <2>2. DryTypes'
    BY <1>0, <1>d, <2>1 DEF DryTypes, Active
  <2>3. TokenInv'
    BY <1>0, <1>d, <2>1 DEF TokenInv, Active
  <2>5. FailureInv'
    <3>1. notify => notify'
      BY <2>1
    <3> QED  BY <1>0, <1>d, <2>1, <3>1 DEF FailureInv, Active
  <2>4. ProgressInv' /\ SuccessIsReal'
    BY <1>0, <1>e, <2>1 DEF ProgressInv, SuccessIsReal
  <2> QED  BY <2>2, <2>3, <2>5, <2>4 DEF DryInv
<1>4. ASSUME pc \in Active, pc' = "exit", code' = 1,
             UNCHANGED <<at, joined, notify, proc, full, passed, failed>>
      PROVE  DryInv'
  <2>1. DryTypes'
    BY <1>0, <1>4 DEF DryTypes, Active
  <2>2. TokenInv' /\ FailureInv'
    BY <1>0, <1>4 DEF TokenInv, FailureInv, Active
  <2>3. ProgressInv' /\ SuccessIsReal'
    BY <1>0, <1>4, <1>e DEF ProgressInv, SuccessIsReal
  <2> QED  BY <2>1, <2>2, <2>3 DEF DryInv
<1>5. CASE Result
  <2>1. CASE notify
    BY <1>4, <1>5, <2>1 DEF Result, Exit, Goto, Active
  <2>2. CASE ~notify
    <3>1. /\ pc = "result" /\ full' = full \ {Depth} /\ passed' = passed \cup {at}
          /\ pc' = "release" /\ UNCHANGED <<at, code, joined, notify, proc, failed>>
      BY <1>5, <2>2 DEF Result, Goto
    <3>2. full = {Depth}
      BY <1>0, <2>2, <3>1 DEF TokenInv
    <3>3. Depth \in Nat
      BY <1>0, <3>1, DepthType DEF Active
    <3>4. \A k \in Stages : proc[k] # "work" /\ proc[k] # "ready"
      <4>1. SUFFICES ASSUME NEW k \in Stages, proc[k] = "ready" PROVE FALSE
        BY <1>0, <3>1, <3>2 DEF TokenInv, Active
      <4>2. Depth = k - 1
        BY <1>0, <3>1, <3>2, <4>1 DEF TokenInv, Active
      <4> QED  BY <1>s, <3>3, <4>2
    <3>5. DryTypes'
      BY <1>0, <1>d, <3>1 DEF DryTypes, Active
    <3>6. TokenInv'
      BY <1>0, <1>d, <3>1, <3>2, <3>4 DEF TokenInv, Active
    <3>7. FailureInv'
      BY <1>0, <1>d, <2>2, <3>1 DEF FailureInv, Active
    <3>8. ProgressInv' /\ SuccessIsReal'
      BY <1>0, <1>e, <3>1 DEF ProgressInv, SuccessIsReal
    <3> QED  BY <3>5, <3>6, <3>7, <3>8 DEF DryInv
  <2> QED  BY <2>1, <2>2
<1>6. CASE ReleaseWorkers
  <2>1. /\ pc = "release" /\ notify' = TRUE /\ pc' = "join"
        /\ UNCHANGED <<at, code, joined, proc, full, passed, failed>>
    BY <1>6 DEF ReleaseWorkers, Goto, history
  <2>2. DryTypes'
    BY <1>0, <1>d, <2>1 DEF DryTypes, Active
  <2>3. TokenInv'
    BY <1>0, <1>d, <2>1 DEF TokenInv, Active
  <2>4. FailureInv'
    <3>1. \A k \in Stages : ~(k <= joined)
      BY <1>0, <1>s, <2>1, DepthType DEF FailureInv, Active
    <3> QED  BY <1>0, <1>d, <2>1, <3>1 DEF FailureInv, Active
  <2>5. ProgressInv' /\ SuccessIsReal'
    BY <1>0, <1>e, <2>1 DEF ProgressInv, SuccessIsReal
  <2> QED  BY <2>2, <2>3, <2>4, <2>5 DEF DryInv
<1>7. CASE Join
  <2>1. CASE proc[joined + 1] = "bad"
    BY <1>4, <1>7, <2>1 DEF Join, Exit, Goto, Active, history
  <2>2. CASE proc[joined + 1] = "ok"
    <3>1. /\ pc = "join" /\ joined' = joined + 1
          /\ UNCHANGED <<pc, at, code, notify, proc, full, passed, failed>>
      BY <1>7, <2>2 DEF Join, history
    <3>2. DryTypes'
      BY <1>0, <1>d, <3>1 DEF DryTypes, Active
    <3>3. TokenInv'
      BY <1>0, <1>d, <3>1 DEF TokenInv, Active
    <3>4. FailureInv'
      <4>1. joined \in Nat /\ Depth \in Nat
        BY <1>0, <3>1, DepthType DEF DryTypes, Active
      <4>2. \A k \in Stages : k <= joined + 1 => k <= joined \/ k = joined + 1
        BY <1>s, <4>1
      <4>3. \A k \in Stages : k <= joined + 1 => proc[k] = "ok"
        BY <1>0, <2>2, <3>1, <4>2 DEF FailureInv
      <4> QED  BY <1>0, <1>d, <3>1, <4>3 DEF FailureInv, Active
    <3>5. ProgressInv' /\ SuccessIsReal'
      BY <1>0, <1>e, <3>1 DEF ProgressInv, SuccessIsReal
    <3> QED  BY <3>2, <3>3, <3>4, <3>5 DEF DryInv
  <2> QED  BY <1>7, <2>1, <2>2 DEF Join
<1>8. CASE NextEndpoint
  <2>1. /\ pc = "join" /\ joined = Depth /\ notify' = FALSE /\ at' = at + 1 /\ pc' = "start"
        /\ UNCHANGED <<code, joined, proc, full, passed, failed>>
    BY <1>8 DEF NextEndpoint, Goto, history
  <2>2. Depth \in Nat
    BY <1>0, <2>1, DepthType DEF Active
  <2>3. \A k \in Stages : proc[k] = "ok"
    BY <1>0, <1>s, <2>1, <2>2 DEF FailureInv
  <2>4. ~failed
    BY <1>0, <2>1, <2>3 DEF FailureInv, Active
  <2>5. DryTypes'
    <3>1. DOMAIN proc = Stages /\ at + 1 \in Nat \ {0}
      BY <1>0, <2>1 DEF DryTypes, Active
    <3>2. \A k \in DOMAIN proc' : proc'[k] = "ok"
      BY <2>1, <2>3, <3>1
    <3> QED  BY <1>0, <2>1, <3>1, <3>2 DEF DryTypes, Active
  <2>6. TokenInv' /\ FailureInv'
    BY <1>0, <2>1, <2>4 DEF TokenInv, FailureInv, Active
  <2>7. ProgressInv'
    <3>1. at \in Nat /\ \A e \in 1 .. at' - 1 : e \in 1 .. at - 1 \/ e = at
      BY <1>0, <2>1 DEF DryTypes
    <3> QED  BY <1>0, <1>e, <2>1, <3>1 DEF ProgressInv
  <2>8. SuccessIsReal'
    BY <1>0, <2>1 DEF ProgressInv, SuccessIsReal
  <2> QED  BY <2>5, <2>6, <2>7, <2>8 DEF DryInv
<1>9. CASE Finish
  <2>1. /\ pc = "start" /\ at > Len(router) /\ pc' = "exit" /\ code' = 0
        /\ UNCHANGED <<at, joined, notify, proc, full, passed, failed>>
    BY <1>9 DEF Finish, Exit, Goto, history
  <2>2. DryTypes'
    BY <1>0, <2>1 DEF DryTypes, Active
  <2>3. TokenInv' /\ FailureInv' /\ ~failed
    BY <1>0, <2>1 DEF TokenInv, FailureInv, Active
  <2>4. \A e \in DOMAIN router : e \in 1 .. at - 1
    BY <1>0, <2>1 DEF RoutesTyped, DryTypes
  <2>5. ProgressInv' /\ SuccessIsReal'
    BY <1>0, <1>e, <2>1, <2>3, <2>4 DEF ProgressInv, SuccessIsReal
  <2> QED  BY <2>2, <2>3, <2>5 DEF DryInv
<1> QED
  BY <1>1, <1>2, <1>3, <1>5, <1>6, <1>7, <1>8, <1>9 DEF Runner

LEMMA NextDry == DryInv /\ RoutesTyped /\ [LNext]_lVars => DryInv'
<1> SUFFICES ASSUME DryInv, RoutesTyped, [LNext]_lVars PROVE DryInv'
  OBVIOUS
<1>0. DryTypes /\ TokenInv /\ FailureInv /\ ProgressInv /\ SuccessIsReal
  BY DEF DryInv
<1>1. CASE DryRun /\ Runner
  BY <1>1, RunnerDry DEF DryRun, registry
<1>2. CASE DryRun /\ Processes
  BY <1>2, ProcessDry DEF DryRun, Processes, registry
<1>3. CASE (DryRun /\ Signal) \/ UNCHANGED lVars
  <2>1. /\ UNCHANGED <<phase, router, object, pc, at, code, joined, proc, full, passed, failed>>
        /\ notify' \in {notify, TRUE}
    BY <1>3 DEF DryRun, Signal, lVars, dVars, history, registry
  <2>2. Depth' = Depth /\ Stages' = Stages /\ \A e : HasExample(e)' <=> HasExample(e)
    BY <2>1, SameExamples DEF Depth, Stages
  <2>3. DryTypes'
    BY <1>0, <2>1, <2>2 DEF DryTypes
  <2>4. TokenInv' /\ FailureInv'
    BY <1>0, <2>1, <2>2 DEF TokenInv, FailureInv
  <2>5. ProgressInv' /\ SuccessIsReal'
    BY <1>0, <2>1, <2>2 DEF ProgressInv, SuccessIsReal
  <2> QED  BY <2>3, <2>4, <2>5 DEF DryInv
<1> QED  BY <1>1, <1>2, <1>3, LaunchingDry DEF LNext, DryRun, DNext

(* Exit code zero of a dry run is not a coincidence: for any routes, any   *)
(* interleaving of the runner with its processes, their exceptions, deaths *)
(* and a signal, every endpoint with an example has seen it come through,  *)
(* and nothing failed (DryRunner.run).                                     *)
THEOREM SuccessIsRealHolds == LSpec => []SuccessIsReal
<1>1. DryInv => SuccessIsReal
  BY DEF DryInv
<1>2. RegistryInv => RoutesTyped
  <2>1. RoutesOf(Free, Nat) \subseteq RoutesOf(STRING, Nat)
    BY RoutesMonotone DEF Free
  <2> QED  BY <2>1 DEF RegistryInv, RoutesTyped, RoutesOf, Route
<1> QED  BY <1>1, <1>2, RegistryInvariant, InitDry, NextDry, PTL DEF LSpec
=============================================================================
