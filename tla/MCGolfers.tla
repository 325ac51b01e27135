------------------------------ MODULE MCGolfers ------------------------------
(***************************************************************************)
(* Instances of Social, RoundLog, SavedLists and GreenFees for TLC.  They  *)
(* share no state, so a behaviour is about two golfers' relationships, or  *)
(* one golfer's rounds, or one golfer's lists, or the fee of one course.   *)
(***************************************************************************)
EXTENDS Social, RoundLog, SavedLists, GreenFees

CONSTANTS ann, bob, cid, round, phone

VARIABLE about

golfersVars == <<vars, logVars, savedVars, feeVars, about>>

MCOwner == [r \in {round} |-> bob]
MCCanonical == [c \in Courses |-> 1]

MCInit ==
  /\ Init /\ LogInit /\ SavedInit /\ FeeInit
  /\ about \in {"relationships", "rounds", "lists", "fees"}
  \* The phone is bob's, and at most bob has linked ann's number.
  /\ db.device[phone] = (IF Live(bob) THEN bob ELSE None) /\ db.contacts \subseteq {<<bob, ann>>}
  /\ about # "relationships" => ~Live(ann) /\ ~Live(bob)
  /\ about # "lists" => AllLists = {}
  \* Where there are two lists already, they are public and the first has every course.
  /\ Cardinality(AllLists) = 2 =>
       /\ \A l \in AllLists : lists[l].vis = "public"
       /\ saves = {1} \X Courses

MCNext ==
  /\ UNCHANGED about
  /\ \/ about = "relationships" /\ Next /\ UNCHANGED <<logVars, savedVars, feeVars>>
     \/ about = "rounds" /\ LogNext /\ UNCHANGED <<vars, savedVars, feeVars>>
     \/ about = "lists" /\ SavedNext /\ UNCHANGED <<vars, logVars, feeVars>>
     \/ about = "fees" /\ FeeNext /\ UNCHANGED <<vars, logVars, savedVars>>

MCSpec == MCInit /\ [][MCNext]_golfersVars

-----------------------------------------------------------------------------
\* Every variable of the four modules stays in its type.
TypesOK == TypeOK /\ LogTypeOK /\ SavedTypeOK /\ FeeTypeOK
=============================================================================
