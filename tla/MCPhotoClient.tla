---------------------------- MODULE MCPhotoClient ----------------------------
(***************************************************************************)
(* Instances, for TLC, of what becomes of a round's photos: the requests   *)
(* on the server, or the form in the app.  A behaviour is of one of them.  *)
(* The form is taken twice: alone with its saves, and with photos while    *)
(* only its tier is changed.                                               *)
(***************************************************************************)
EXTENDS MCPhotoStorage, RatingFlow

VARIABLE about

Idly == Init /\ \A p \in Photo : pending[p] = "valid" /\ \A d \in Round : rounds[d] = "ordinary"
TheOuting == CHOOSE o \in Outings : TRUE

ClientInit ==
  /\ about \in {"requests", "saves", "photos"}
  /\ IF about = "requests" THEN Init ELSE Idly
  /\ FlowInit
  /\ about # "saves" => form.details = Offered /\ form.outing = TheOuting
  /\ about = "requests" => ~Rated

ClientNext ==
  /\ UNCHANGED about
  /\ \/ about = "requests" /\ Next /\ UNCHANGED flowVars
     \/ /\ about = "saves" /\ FlowNext /\ UNCHANGED <<vars, photos>>
     \/ /\ about = "photos" /\ FlowNext /\ UNCHANGED vars
        /\ form'.outing = form.outing /\ form'.details = form.details
        /\ form.tier = NoTier \/ form'.tier \in {form.tier, baseline.tier}

ClientSpec == ClientInit /\ [][ClientNext]_<<vars, flowVars, about>>

Alike == Requests \cup Permutations(Photos)

-----------------------------------------------------------------------------
\* Every variable of the two modules stays in its type.
TypesOK == TypeOK /\ FlowTypeOK
=============================================================================
