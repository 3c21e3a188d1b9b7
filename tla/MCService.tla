----------------------------- MODULE MCService -----------------------------
(***************************************************************************)
(* Instances of Service for TLC.  Runtime a is a plain worker, b the last  *)
(* stage of both routes and z an SSEWorker; route /ab goes through a and   *)
(* b, route /b through b alone, so that b is egress for one task and       *)
(* ingress and egress for the next.                                        *)
(***************************************************************************)
EXTENDS Service, TLC

CONSTANTS r1, r2, a, b, z, ca, cb, cz, ab, justb, feed

(* r1 on the route of two stages, the others on the one of one stage. *)
TwoRoutes == [r \in Requests |-> IF r = r1 THEN ab ELSE justb]

Streams == [r \in Requests |-> feed]

(* The stream of r1 has an event, the one of r2 none. *)
OneEvent == [r \in Requests |-> IF r = r1 THEN 1 ELSE 0]

NoEvents == [r \in Requests |-> 0]

Pipelines == ab :> <<a, b>> @@ justb :> <<b>> @@ feed :> <<z>>

(* One worker for each stage; its slot is taken again after a death. *)
ConnStages == ca :> a @@ cb :> b @@ cz :> z

MCStageOf == [c \in Conns |-> ConnStages[c]]

MCPipeline == [e \in Endpoints |-> Pipelines[e]]

Batches1 == [s \in Stages |-> 1]

Batches2 == [s \in Stages |-> 2]
=============================================================================
