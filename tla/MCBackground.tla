----------------------------- MODULE MCBackground -----------------------------
(***************************************************************************)
(* Instances, for TLC, of what has to come to an end: one device's push    *)
(* token with its sign-outs, and the sweeps that score photos.  They share *)
(* no state, so a behaviour is of one of them.                             *)
(***************************************************************************)
EXTENDS PhotoModeration, PushTokens

VARIABLE side

BackgroundInit ==
  /\ Init /\ PushInit
  /\ side \in {"push", "sweep"}
  /\ side = "sweep" => owner = Nobody /\ consent = {}

BackgroundNext ==
  /\ UNCHANGED side
  /\ \/ side = "push" /\ PushNext /\ UNCHANGED vars
     \/ side = "sweep" /\ Next /\ UNCHANGED pushVars

BackgroundSpec ==
  /\ BackgroundInit /\ [][BackgroundNext]_<<vars, pushVars, side>>
  /\ ClientFairness /\ Fairness

-----------------------------------------------------------------------------
\* Every variable of the two modules stays in its type.
TypesOK == TypeOK /\ PushTypeOK
=============================================================================
