----------------------------- MODULE MCProviders -----------------------------
(***************************************************************************)
(* Instances, for TLC, of what calls a provider outside: Plans, Featured   *)
(* and HeroImage, and of RateLimit, which meters such requests.  They      *)
(* share no state, so a behaviour is one of theirs.  One of HeroImage ends *)
(* when a script has overtaken a resolver: HeroesSettle says nothing then. *)
(***************************************************************************)
EXTENDS Plans, Featured, RateLimit, HeroImage, TLC

CONSTANTS caller, other, here, there   \* two callers of the lock and their processes

VARIABLE side

providersVars == <<planVars, featuredVars, rateVars, heroVars, lockVars, side>>

ProcessOfEach == caller :> here @@ other :> there

MCInit ==
  /\ PlanInit /\ FeaturedInit /\ RateInit /\ HeroInit
  /\ side \in {"plans", "featured", "limits", "hero"}
  /\ side # "featured" => deployed = Workers /\ budgetIn = "redis"
  /\ budgetIn = "process" => Cardinality(deployed) = 1  \* several workers are given a Redis
  /\ side # "limits" => policy = "public"

MCNext ==
  /\ UNCHANGED side
  /\ \/ side = "plans" /\ PlanNext /\ UNCHANGED <<featuredVars, rateVars, heroVars, lockVars>>
     \/ side = "featured" /\ FeaturedNext /\ UNCHANGED <<planVars, rateVars, heroVars, lockVars>>
     \/ side = "limits" /\ RateNext /\ UNCHANGED <<planVars, featuredVars, heroVars, lockVars>>
     \/ side = "hero" /\ ~overtaken /\ HeroNext /\ UNCHANGED <<planVars, featuredVars, rateVars>>

MCSpec == MCInit /\ [][MCNext]_providersVars

-----------------------------------------------------------------------------
\* Every variable of the five modules stays in its type.
TypesOK == PlanTypeOK /\ FeaturedTypeOK /\ RateTypeOK /\ LockTypeOK /\ HeroTypeOK
=============================================================================
