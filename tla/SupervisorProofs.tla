-------------------------- MODULE SupervisorProofs --------------------------
(***************************************************************************)
(* Proofs about the process that keeps the workers alive, for any number   *)
(* of stages, workers and deaths.                                          *)
(***************************************************************************)
EXTENDS Supervisor, WellFoundedInduction, TLAPS

(* The ids to start have a least one, which _start_process takes first. *)
LEMMA LeastNeeded ==
  ASSUME NEW S \in SUBSET Nat, S # {}
  PROVE  (CHOOSE w \in S : \A v \in S : w <= v) \in S
<1>1. PICK m \in S : \A n \in S : ~(<<n, m>> \in OpToRel(<, Nat))
  BY NatLessThanWellFounded, WFMin
<1>2. ASSUME NEW n \in S PROVE m <= n
  <2>1. n \in Nat /\ m \in Nat
    OBVIOUS
  <2>2. ~(n < m)
    BY <2>1, <1>1, Zenon DEF OpToRel
  <2> QED  BY <2>1, <2>2
<1> QED  BY <1>2

(* A pool: a process, or 0, for every worker of every stage. *)
IsPool(f) ==
  /\ DOMAIN f = Stages
  /\ \A s \in Stages : f[s] \in [Ids(s) -> Nat]

(* A value for every worker of every stage. *)
IsMap(f) ==
  /\ DOMAIN f = Stages /\ f = [s \in Stages |-> f[s]]
  /\ \A s \in Stages : DOMAIN f[s] = Ids(s) /\ f[s] = [w \in Ids(s) |-> f[s][w]]

PoolTypes ==
  /\ stage \in Stages
  /\ made \in Nat
  /\ IsMap(slot) /\ IsPool(slot)
  /\ IsMap(seen)
  /\ environ \in {Unset, Empty, Users}
  /\ alive \subseteq Stages \X Nat \X Nat
  /\ \A p \in alive : p[2] \in Ids(p[1]) /\ p[3] # 0

(* The workers still to be started are not running. *)
ToStart ==
  pc = "start" =>
    /\ need \subseteq Ids(stage)
    /\ \A p \in alive : p[1] = stage => p[2] \notin need

PoolInv == PoolTypes /\ ToStart /\ Tracked /\ OwnEnvironment

LEMMA Counts ==
  /\ Stages \subseteq Nat /\ 1 \in Stages /\ Last \in Nat
  /\ \A s \in Stages : Ids(s) \subseteq Nat /\ (s < Last => s + 1 \in Stages)
BY SupervisorAssumption DEF Stages, Ids

LEMMA InitPool == SInit => PoolInv
<1> SUFFICES ASSUME SInit PROVE PoolInv
  OBVIOUS
<1>1. /\ slot = [s \in Stages |-> [w \in Ids(s) |-> 0]]
      /\ seen = [s \in Stages |-> [w \in Ids(s) |-> Unset]]
      /\ stage = 1 /\ made = 0 /\ alive = {} /\ pc = "boot" /\ environ \in {Unset, Users}
  BY DEF SInit
<1>2. IsMap(slot) /\ IsPool(slot)
  BY <1>1 DEF IsMap, IsPool
<1>3. IsMap(seen)
  BY <1>1 DEF IsMap
<1> QED  BY <1>1, <1>2, <1>3, Counts DEF PoolInv, PoolTypes, ToStart, Tracked, OwnEnvironment

(* A worker that runs is healthy, and so is not started again. *)
LEMMA RunningIsHealthy ==
  ASSUME PoolInv, NEW p \in alive
  PROVE  Healthy(p[1], p[2]) /\ p[1] \in Stages /\ p[2] \in Ids(p[1])
<1>1. p \in Stages \X Nat \X Nat /\ p[2] \in Ids(p[1]) /\ p[3] # 0 /\ slot[p[1]][p[2]] = p[3]
  BY DEF PoolInv, PoolTypes, Tracked
<1>2. p = <<p[1], p[2], p[3]>> /\ p[1] \in Stages
  BY <1>1
<1> QED  BY <1>1, <1>2 DEF Healthy

(* A step that starts no worker: some may end. *)
LEMMA PoolShrinks ==
  ASSUME PoolInv, alive' \subseteq alive, UNCHANGED <<slot, made, seen>>,
         stage' \in Stages, environ' \in {Unset, Empty, Users},
         pc' = "start" => pc = "start" /\ UNCHANGED <<stage, need>>
  PROVE  PoolInv'
<1>1. PoolTypes'
  BY DEF PoolInv, PoolTypes
<1>2. ToStart'
  BY DEF PoolInv, ToStart
<1>3. Tracked' /\ OwnEnvironment'
  BY DEF PoolInv, Tracked, OwnEnvironment
<1> QED  BY <1>1, <1>2, <1>3 DEF PoolInv

LEMMA NextPool == PoolInv /\ [SNext]_sVars => PoolInv'
<1> SUFFICES ASSUME PoolInv, [SNext]_sVars PROVE PoolInv'
  OBVIOUS
<1>0. /\ stage \in Stages /\ made \in Nat /\ IsMap(slot) /\ IsPool(slot) /\ IsMap(seen)
      /\ environ \in {Unset, Empty, Users}
      /\ alive \subseteq Stages \X Nat \X Nat /\ Tracked /\ OwnEnvironment
  BY DEF PoolInv, PoolTypes
<1>s. ASSUME NextStage PROVE stage' \in Stages /\ pc' # "start"
  BY <1>0, <1>s, Counts DEF NextStage, Goto
<1>1. CASE Check
  <2>1. /\ slot' = [slot EXCEPT ![stage] =
                      [w \in Ids(stage) |-> IF Healthy(stage, w) THEN slot[stage][w] ELSE 0]]
        /\ UNCHANGED <<made, alive, seen, environ>> /\ stage' \in Stages
        /\ pc' = "start" => stage' = stage /\ need' = Missing(stage)
    BY <1>0, <1>1, <1>s DEF Check, outside, Goto
  <2>2. /\ DOMAIN slot' = Stages /\ \A s \in Stages : s # stage => slot'[s] = slot[s]
        /\ slot'[stage] = [w \in Ids(stage) |-> IF Healthy(stage, w) THEN slot[stage][w] ELSE 0]
        /\ slot' = [s \in Stages |-> slot'[s]]
    BY <1>0, <2>1 DEF IsMap
  <2>3. slot'[stage] \in [Ids(stage) -> Nat]
    BY <1>0, <2>2 DEF IsPool
  <2>4. IsPool(slot')
    BY <1>0, <2>2, <2>3 DEF IsPool
  <2>5. IsMap(slot')
    <3> SUFFICES ASSUME NEW s \in Stages
                 PROVE  DOMAIN slot'[s] = Ids(s) /\ slot'[s] = [w \in Ids(s) |-> slot'[s][w]]
      BY <2>2 DEF IsMap
    <3>1. slot'[s] \in [Ids(s) -> Nat]
      BY <2>4 DEF IsPool
    <3> QED  BY <3>1
  <2>6. PoolTypes'
    BY <1>0, <2>1, <2>4, <2>5 DEF PoolInv, PoolTypes
  <2>7. Tracked'
    <3> SUFFICES ASSUME NEW p \in alive PROVE slot'[p[1]][p[2]] = p[3]
      BY <2>1 DEF Tracked
    <3>1. Healthy(p[1], p[2]) /\ p[1] \in Stages /\ p[2] \in Ids(p[1]) /\ slot[p[1]][p[2]] = p[3]
      BY <1>0, RunningIsHealthy DEF Tracked
    <3> QED  BY <2>2, <3>1
  <2>8. ToStart'
    <3> SUFFICES ASSUME pc' = "start"
                 PROVE  /\ Missing(stage) \subseteq Ids(stage)
                        /\ \A p \in alive : p[1] = stage => p[2] \notin Missing(stage)
      BY <2>1 DEF ToStart
    <3> QED  BY RunningIsHealthy DEF Missing
  <2>9. OwnEnvironment'
    BY <1>0, <2>1 DEF OwnEnvironment
  <2> QED  BY <2>6, <2>7, <2>8, <2>9 DEF PoolInv
<1>2. CASE StartWorker
  <2> DEFINE w == CHOOSE x \in need : \A v \in need : x <= v
             value == IF stage \in SetsEnv THEN Configured(stage, w) ELSE environ
  <2>1. /\ pc = "start" /\ need # {} /\ need' = need \ {w}
        /\ slot' = [slot EXCEPT ![stage][w] = made + 1]
        /\ alive' = alive \cup {<<stage, w, made + 1>>}
        /\ seen' = [seen EXCEPT ![stage][w] = value]
        /\ environ' = Restored(stage) /\ made' = made + 1 /\ UNCHANGED <<pc, stage>>
    BY <1>2 DEF StartWorker
  <2>2. need \subseteq Ids(stage) /\ \A p \in alive : p[1] = stage => p[2] \notin need
    BY <2>1 DEF PoolInv, ToStart
  <2>3. w \in need
    BY <1>0, <2>1, <2>2, Counts, LeastNeeded
  <2>4. w \in Ids(stage) /\ w \in Nat
    BY <1>0, <2>2, <2>3, Counts
  <2> DEFINE new == <<stage, w, made + 1>>
  <2> HIDE DEF w
  <2>5. /\ new \in Stages \X Nat \X Nat /\ new[1] = stage /\ new[2] = w /\ new[3] = made + 1
        /\ made + 1 \in Nat /\ made + 1 # 0
    BY <1>0, <2>4, Counts
  <2>6. environ' \in {Unset, Empty, Users}
    BY <1>0, <2>1 DEF Restored
  <2>7. /\ slot'[stage] = [slot[stage] EXCEPT ![w] = made + 1]
        /\ \A s \in Stages : s # stage => slot'[s] = slot[s]
        /\ DOMAIN slot' = Stages /\ slot' = [s \in Stages |-> slot'[s]]
    BY <1>0, <2>1 DEF IsMap
  <2>8. /\ slot'[stage] \in [Ids(stage) -> Nat] /\ slot'[stage][w] = made + 1
        /\ \A x \in Ids(stage) : x # w => slot'[stage][x] = slot[stage][x]
    BY <1>0, <2>4, <2>5, <2>7 DEF IsPool
  <2>9. IsPool(slot')
    BY <1>0, <2>7, <2>8 DEF IsPool
  <2>10. IsMap(slot')
    <3> SUFFICES ASSUME NEW s \in Stages
                 PROVE  DOMAIN slot'[s] = Ids(s) /\ slot'[s] = [x \in Ids(s) |-> slot'[s][x]]
      BY <2>7 DEF IsMap
    <3>1. slot'[s] \in [Ids(s) -> Nat]
      BY <2>9 DEF IsPool
    <3> QED  BY <3>1
  <2> HIDE DEF value
  <2>11. /\ seen'[stage] = [seen[stage] EXCEPT ![w] = value]
         /\ \A s \in Stages : s # stage => seen'[s] = seen[s]
         /\ DOMAIN seen' = Stages /\ seen' = [s \in Stages |-> seen'[s]]
    BY <1>0, <2>1 DEF IsMap
  <2>12. /\ DOMAIN seen'[stage] = Ids(stage)
         /\ seen'[stage] = [x \in Ids(stage) |-> seen'[stage][x]]
         /\ seen'[stage][w] = value
         /\ \A x \in Ids(stage) : x # w => seen'[stage][x] = seen[stage][x]
    <3>1. DOMAIN seen[stage] = Ids(stage) /\ seen[stage] = [x \in Ids(stage) |-> seen[stage][x]]
      BY <1>0 DEF IsMap
    <3> QED  BY <2>4, <2>11, <3>1
  <2>13. IsMap(seen')
    BY <1>0, <2>11, <2>12 DEF IsMap
  <2> HIDE DEF new
  <2>14. alive' = alive \cup {new} /\ \A p \in alive' : p \in alive \/ p = new
    BY <2>1 DEF new
  <2>15. PoolTypes'
    <3>1. \A p \in alive' : p[2] \in Ids(p[1]) /\ p[3] # 0
      BY <2>4, <2>5, <2>14 DEF PoolInv, PoolTypes
    <3> QED  BY <1>0, <2>1, <2>5, <2>6, <2>9, <2>10, <2>13, <2>14, <3>1 DEF PoolTypes
  <2>16. ASSUME NEW p \in alive
         PROVE  /\ p[1] \in Stages /\ p[2] \in Ids(p[1]) /\ ~(p[1] = stage /\ p[2] = w)
                /\ slot'[p[1]][p[2]] = slot[p[1]][p[2]]
                /\ seen'[p[1]][p[2]] = seen[p[1]][p[2]]
    <3>1. p[1] \in Stages /\ p[2] \in Ids(p[1])
      BY RunningIsHealthy
    <3>2. ~(p[1] = stage /\ p[2] = w)
      BY <2>2, <2>3
    <3> QED  BY <2>7, <2>8, <2>11, <2>12, <3>1, <3>2
  <2>17. Tracked'
    <3> SUFFICES ASSUME NEW p \in alive' PROVE slot'[p[1]][p[2]] = p[3]
      BY DEF Tracked
    <3>1. CASE p \in alive
      BY <1>0, <2>16, <3>1 DEF Tracked
    <3>2. CASE p = new
      BY <2>5, <2>8, <3>2
    <3> QED  BY <2>14, <3>1, <3>2
  <2>18. ToStart'
    <3> SUFFICES ASSUME NEW p \in alive', p[1] = stage PROVE p[2] \notin need \ {w}
      BY <2>1, <2>2 DEF ToStart
    <3> QED  BY <2>2, <2>5, <2>14
  <2>19. OwnEnvironment'
    <3> SUFFICES ASSUME NEW p \in alive'
                 PROVE  seen'[p[1]][p[2]] \in IF p[1] \in SetsEnv THEN {Configured(p[1], p[2])}
                                                              ELSE {Unset, Empty, Users}
      BY DEF OwnEnvironment
    <3>1. CASE p \in alive
      BY <1>0, <2>16, <3>1 DEF OwnEnvironment
    <3>2. CASE p = new
      BY <1>0, <2>5, <2>12, <3>2 DEF value
    <3> QED  BY <2>14, <3>1, <3>2
  <2> QED  BY <2>15, <2>17, <2>18, <2>19 DEF PoolInv
<1>3. CASE StartRaises
  <2>1. environ' \in {Unset, Empty, Users}
    BY <1>0, <1>3 DEF StartRaises, Restored
  <2> QED  BY <1>0, <1>3, <2>1, PoolShrinks DEF StartRaises, Goto, workers
<1>4. CASE StageStarted
  BY <1>0, <1>4, <1>s, PoolShrinks DEF StageStarted, workers, outside
<1>5. CASE LoopHead
  BY <1>0, <1>5, Counts, PoolShrinks DEF LoopHead, Goto, workers, outside
<1>6. CASE StartService \/ CheckDaemon \/ Halting \/ Kill
  <2>1. UNCHANGED <<alive, slot, made, seen, stage, environ>> /\ pc' # "start"
    BY <1>6 DEF StartService, CheckDaemon, Halting, Halt, Drained, Release, Kill, Goto, workers,
       outside, local
  <2> QED  BY <1>0, <2>1, PoolShrinks
<1>7. CASE Signal \/ ServiceExit \/ DaemonExit \/ WorkerDies \/ WorkerEnds \/ UNCHANGED sVars
  <2>1. alive' \subseteq alive /\ UNCHANGED <<slot, made, seen, stage, need, environ, pc>>
    BY <1>7 DEF Signal, ServiceExit, DaemonExit, WorkerDies, WorkerEnds, sVars, workers, outside,
       local
  <2> QED  BY <1>0, <2>1, PoolShrinks
<1> QED
  BY <1>1, <1>2, <1>3, <1>4, <1>5, <1>6, <1>7 DEF SNext, Managing

(* The full invariant of the pool. *)
LEMMA PoolInvariant == SSpec => []PoolInv
BY InitPool, NextPool, PTL DEF SSpec

(* Every worker process that runs is the one its slot of the pool holds,   *)
(* however deaths, signals and failed starts fall between the snapshot of  *)
(* a check and the starts it leads to: check_and_start of runtime.py never *)
(* starts a second process for an id and never loses one.                  *)
THEOREM WorkersTracked == SSpec => []Tracked
<1>1. PoolInv => Tracked
  BY DEF PoolInv
<1> QED  BY <1>1, PoolInvariant, PTL

(* A worker sees the value configured for it, and one without a configured *)
(* value never sees another worker's: env_var_context puts the variable    *)
(* back after every start, and after a start that raises.                  *)
THEOREM EnvironmentIsOwn == SSpec => []OwnEnvironment
<1>1. PoolInv => OwnEnvironment
  BY DEF PoolInv
<1> QED  BY <1>1, PoolInvariant, PTL
=============================================================================
