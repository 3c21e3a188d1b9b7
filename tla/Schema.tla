------------------------------- MODULE Schema -------------------------------
(***************************************************************************)
(* The OpenAPI document of a service (mosec/openapi.py and the annotation  *)
(* helpers of mosec/utils.py): every route documents the annotation of     *)
(* what its first stage takes and of what its last stage returns.  A model *)
(* type is a name and an identity; two types with one name conflict.       *)
(*                                                                         *)
(* An annotation is [kind, of]: "any" (or none), "type", "list" (list[T]), *)
(* "pair" (list[A, B]), "invalid" (raises one of the four exceptions that  *)
(* _try_schema_type catches: an unknown name, bad syntax, an unsupported   *)
(* type) and "error" (evaluating it raises something else).                *)
(***************************************************************************)
EXTENDS Integers, Sequences, SequencesExt

CONSTANT Workers   \* the user's classes: class -> [typed, sse, example, input, output]

NoType == [name |-> "", id |-> 0, array |-> FALSE]

TypeOf(t, array) == [name |-> t[1], id |-> t[2], array |-> array]

(* get_forward_input_type and get_forward_return_type: each annotation is  *)
(* resolved by itself, and list[T] is the batch of a runtime that batches. *)
Resolves(a, batched) ==
  a.kind \in {"any", "type", "list"} \/ (a.kind = "pair" /\ ~batched)

Resolve(a, batched) ==
  CASE a.kind = "any"            -> NoType
    [] a.kind = "type"           -> TypeOf(a.of, FALSE)
    [] a.kind = "list"           -> TypeOf(a.of, ~batched)
    [] a.kind = "pair"           -> TypeOf(a.of, TRUE)

(* The two boundaries of a route; rt gives the runtime of an id. *)
Boundary(route, direction, rt, annotation) ==
  [key |-> <<route.endpoint, direction>>, annotation |-> annotation,
   batched |-> rt.batch > 1, typed |-> Workers[rt.worker].typed]

Request(route, object) ==
  LET rt == object[Head(route.pipeline)]
  IN Boundary(route, "request", rt, Workers[rt.worker].input)

Response(route, object) ==
  LET rt == object[Last(route.pipeline)]
  IN Boundary(route, "response", rt, Workers[rt.worker].output)

Boundaries(router, object) ==
  [i \in 1 .. 2 * Len(router) |->
     IF i % 2 = 1 THEN Request(router[(i + 1) \div 2], object)
     ELSE Response(router[i \div 2], object)]

(* Mutation of Before: one pass, in the order of the routes. *)
BeforeInRoutes(bs, j, i) == j < i

(* There are two passes, and the typed boundaries are registered first. *)
Before(bs, j, i) ==
  \/ bs[j].typed /\ ~bs[i].typed
  \/ (bs[j].typed <=> bs[i].typed) /\ j < i

(* defspec refuses a second model of a name. *)
Conflicts(t, u) == t.name # "" /\ t.name = u.name /\ t.id # u.id

(* _try_schema_type, for each boundary in turn: it is accepted when its    *)
(* annotation resolves to a type that conflicts with none accepted before. *)
TrySchemaType(bs) ==
  LET type(i) == Resolve(bs[i].annotation, bs[i].batched)
      accepted[i \in DOMAIN bs] ==
        /\ Resolves(bs[i].annotation, bs[i].batched)
        /\ \A j \in DOMAIN bs :
             Before(bs, j, i) /\ accepted[j] => ~Conflicts(type(i), type(j))
  IN accepted

(* generate_openapi: ordinary boundaries tolerate the four exceptions only *)
(* and are left out; any other refusal fails the start.                    *)
GenerateOpenapi(router, object) ==
  LET bs       == Boundaries(router, object)
      accepted == TrySchemaType(bs)
      raises   == \E i \in DOMAIN bs :
                    ~accepted[i] /\ (bs[i].typed \/ bs[i].annotation.kind = "error")
      place(k) == CHOOSE i \in DOMAIN bs : bs[i].key = k
  IN [failed |-> raises,
      types  |-> [k \in {bs[i].key : i \in DOMAIN bs} |->
                    IF accepted[place(k)]
                    THEN Resolve(bs[place(k)].annotation, bs[place(k)].batched)
                    ELSE NoType]]

NoDoc == [failed |-> FALSE, types |-> [k \in {} |-> NoType]]
=============================================================================
