-------------------------------- MODULE Plans --------------------------------
(***************************************************************************)
(* Trip plans and the AI itinerary: plans.py with planner_narrative.py.    *)
(*                                                                         *)
(* A plan is replaced as a whole: its rows are deleted by statements that  *)
(* see what was committed, and new ones are inserted at the commit.  An AI *)
(* itinerary is generated without a transaction: the plan is read, the     *)
(* provider is called, the plan is read again and must ask for the same.   *)
(* A payload is the set of courses that are its candidates.                *)
(***************************************************************************)
EXTENDS FiniteSets, Naturals

CONSTANTS Payloads,    \* what a plan may be asked for: sets of courses
          PlanRequests,\* bound: requests of a behaviour
          CostLimit    \* ai_planner_monthly_cost_limit_cents, in calls

ASSUME PlansAssumption == PlanRequests \in Nat /\ CostLimit \in Nat

VARIABLES
  plans,       \* rows of plans, with the payload in plan_constraints
  candidates,  \* rows of plan_candidates: [plan, course, of]
  items,       \* rows of itinerary_items: [plan, course, of, ai]
  generations, \* rows of plan_generations: [plan, status, call], one unit of cost for a billed call
  planner,     \* the requests
  billed,      \* history: calls the provider has answered
  voided,      \* history: billed calls that leave no cost for one of three reasons: the answer
               \* cannot be read, the plan was found changed, or the plan is gone
  crossed,     \* history: plans written by a request while another one was about to write
  peak         \* history: the most calls that were under way at a time

planVars == <<plans, candidates, items, generations, planner, billed, voided, crossed, peak>>

Planners == 1..PlanRequests
PlanIds  == Planners
Fallbacks == {"no_candidates", "monthly_cost_limit", "provider_error", "plan_changed", "invalid_output"}
NoPlan == [exists |-> FALSE, of |-> {}, status |-> "draft"]
Candidate(p, payload) == {[plan |-> p, course |-> c, of |-> payload] : c \in payload}
Items(p, payload, ai) == {[plan |-> p, course |-> c, of |-> payload, ai |-> ai] : c \in payload}
CandidatesOf(p) == {r \in candidates : r.plan = p}
ItemsOf(p) == {r \in items : r.plan = p}

Away == [op |-> "away", pc |-> "none", plan |-> 1, of |-> {}, rows |-> {}, gone |-> {}]
Planner == [op : {"away", "left", "update", "generate"}, pc : {"none", "cleared", "awaiting", "checked"},
            plan : PlanIds, of : Payloads \cup {{}},
            rows : SUBSET [plan : PlanIds, course : UNION Payloads, of : Payloads],
            gone : SUBSET [plan : PlanIds, course : UNION Payloads, of : Payloads, ai : BOOLEAN]]
UnderWay == {j \in Planners : planner[j].op = "generate"}   \* called, not yet recorded
Writing(p) == {j \in Planners : planner[j].plan = p /\ planner[j].pc \in {"cleared", "checked"}}

PlanInit ==
  /\ plans = [p \in PlanIds |-> NoPlan]
  /\ candidates = {} /\ items = {} /\ generations = {}
  /\ planner = [j \in Planners |-> Away]
  /\ billed = {} /\ voided = {} /\ crossed = {} /\ peak = 0

\* A request is its number; a plan has the number of the request that created it.
Comes(j) == planner[j] = Away /\ \A i \in 1..(j - 1) : planner[i] # Away
Leaves(j) == planner' = [planner EXCEPT ![j] = [Away EXCEPT !.op = "left"]]
\* A commit on a plan crosses with every other request that is about to write it.
Crosses(j, p) == crossed' = IF Writing(p) \ {j} = {} THEN crossed ELSE crossed \cup {p}

-----------------------------------------------------------------------------
(* Creating, replacing, saving and deleting plans.                         *)

CreatePlan(j) ==
  /\ Comes(j) /\ Leaves(j)
  /\ \E payload \in Payloads :
       /\ plans' = [plans EXCEPT ![j] = [exists |-> TRUE, of |-> payload, status |-> "draft"]]
       /\ candidates' = candidates \cup Candidate(j, payload)
       /\ items' = items \cup Items(j, payload, FALSE)
  /\ UNCHANGED <<generations, billed, voided, crossed, peak>>

\* _replace_plan_data writes the constraints, which locks their row if they differ, and
\* deletes the rows it sees.
UpdatePlan(j) ==
  /\ Comes(j)
  /\ \E p \in PlanIds, payload \in Payloads :
       /\ plans[p].exists
       /\ payload # plans[p].of => \A i \in Writing(p) : planner[i].of = plans[p].of
       /\ planner' = [planner EXCEPT ![j] =
            [op |-> "update", pc |-> "cleared", plan |-> p, of |-> payload,
             rows |-> CandidatesOf(p), gone |-> ItemsOf(p)]]
  /\ UNCHANGED <<plans, candidates, items, generations, billed, voided, crossed, peak>>

\* The new rows must not repeat a course that another request has put there meanwhile.
UpdateCommits(j) ==
  LET w == planner[j]   p == w.plan   kept == CandidatesOf(p) \ w.rows IN
  /\ w.op = "update"
  /\ Leaves(j)
  /\ IF ~plans[p].exists \/ (\E r \in kept : r.course \in w.of)
     THEN UNCHANGED <<plans, candidates, items, crossed>>
     ELSE /\ plans' = [plans EXCEPT ![p] = [@ EXCEPT !.of = w.of, !.status = "draft"]]
          /\ candidates' = (candidates \ w.rows) \cup Candidate(p, w.of)
          /\ items' = (items \ w.gone) \cup Items(p, w.of, FALSE)
          \* A replacement nothing crossed puts everything right.
          /\ crossed' = IF Writing(p) = {j} /\ CandidatesOf(p) = w.rows /\ ItemsOf(p) = w.gone
                        THEN crossed \ {p} ELSE crossed \cup {p}
  /\ UNCHANGED <<generations, billed, voided, peak>>

SavePlan(j) ==
  /\ Comes(j) /\ Leaves(j)
  /\ \E p \in PlanIds : plans[p].exists /\ plans' = [plans EXCEPT ![p].status = "saved"]
  /\ UNCHANGED <<candidates, items, generations, billed, voided, crossed, peak>>

\* Deviation: the metadata of its generations outlives a plan.
NoCascade(p) == {}
GenerationsOf(p) == {g \in generations : g.plan = p}

\* The rows of a plan, its generations among them, go with it.
DeletePlan(j) ==
  /\ Comes(j) /\ Leaves(j)
  /\ \E p \in PlanIds :
       /\ plans[p].exists
       /\ plans' = [plans EXCEPT ![p] = NoPlan]
       /\ candidates' = candidates \ CandidatesOf(p)
       /\ items' = items \ ItemsOf(p)
       /\ generations' = generations \ GenerationsOf(p)
       /\ voided' = voided \cup {g.call : g \in GenerationsOf(p)}
       /\ Crosses(j, p)
  /\ UNCHANGED <<billed, peak>>

-----------------------------------------------------------------------------
(* Generating an itinerary.                                                *)

Costed == {g \in generations : g.status = "succeeded" \/ g.why = "invalid_output"}
\* The month's cost, in calls that were recorded with one.
MonthlyCost == Cardinality(Costed)
OverLimit == MonthlyCost >= CostLimit

Record(j, p, status, why) ==
  generations' = generations \cup {[plan |-> p, status |-> status, why |-> why, call |-> j]}

\* The request is what the plan asks for and its candidates; it is remembered over the call.
BeginGeneration(j) ==
  /\ Comes(j)
  /\ \E p \in PlanIds :
       /\ plans[p].exists
       /\ IF CandidatesOf(p) = {} \/ OverLimit
          THEN /\ Leaves(j)
               /\ Record(j, p, "fallback", IF CandidatesOf(p) = {} THEN "no_candidates" ELSE "monthly_cost_limit")
               /\ UNCHANGED peak
          ELSE /\ planner' = [planner EXCEPT ![j] =
                    [op |-> "generate", pc |-> "awaiting", plan |-> p, of |-> plans[p].of,
                     rows |-> CandidatesOf(p), gone |-> {}]]
               /\ peak' = IF Cardinality(UnderWay) >= peak THEN Cardinality(UnderWay) + 1 ELSE peak
               /\ UNCHANGED generations
  /\ UNCHANGED <<plans, candidates, items, billed, voided, crossed>>

\* No itinerary comes back: the deterministic one stays, and no cost is recorded.
NoItinerary(j) ==
  LET p == planner[j].plan IN
  /\ planner[j].pc = "awaiting"
  /\ Leaves(j)
  /\ IF plans[p].exists THEN Record(j, p, "fallback", "provider_error") ELSE UNCHANGED generations
  /\ UNCHANGED <<plans, candidates, items, crossed, peak>>

\* The provider was not reached or refused the request: nothing is billed.
ProviderFails(j) == NoItinerary(j) /\ UNCHANGED <<billed, voided>>

\* It answered with success, but blocked, cut off, without usage figures or not to be parsed; or
\* it answered after the timeout.  The tokens are billed, and what they cost is dropped.
AnswerIsUnreadable(j) == NoItinerary(j) /\ billed' = billed \cup {j} /\ voided' = voided \cup {j}

\* Deviation: what the plan asks for now is not compared with what it asked for.
StillExists(w) == plans[w.plan].exists
SameRequest(w) == plans[w.plan].exists /\ plans[w.plan].of = w.of /\ CandidatesOf(w.plan) = w.rows

\* Deviation: an answer that cannot be used is recorded without its cost.
FreeFallback(j, p) == Record(j, p, "fallback", "provider_error")
UselessAnswer(j, p) == Record(j, p, "fallback", "invalid_output")

\* The answer can be read; it is billed whatever becomes of it.
ProviderAnswers(j) ==
  LET w == planner[j]   p == w.plan IN
  /\ w.pc = "awaiting"
  /\ billed' = billed \cup {j}
  /\ \/ /\ ~SameRequest(w)
        /\ Leaves(j)
        /\ voided' = voided \cup {j}
        /\ IF plans[p].exists THEN Record(j, p, "fallback", "plan_changed") ELSE UNCHANGED generations
     \/ /\ SameRequest(w)          \* _validated_items refuses it
        /\ Leaves(j)
        /\ UselessAnswer(j, p)
        /\ UNCHANGED voided
     \/ /\ SameRequest(w)
        /\ planner' = [planner EXCEPT ![j].pc = "checked"]
        /\ UNCHANGED <<generations, voided>>
  /\ UNCHANGED <<plans, candidates, items, crossed, peak>>

\* The items that are there are replaced by those of the answer.
GenerationCommits(j) ==
  LET w == planner[j]   p == w.plan IN
  /\ w.pc = "checked"
  /\ Leaves(j)
  /\ IF ~plans[p].exists
     THEN voided' = voided \cup {j} /\ UNCHANGED <<plans, items, generations, crossed>>
     ELSE /\ plans' = [plans EXCEPT ![p].status = "draft"]
          /\ items' = (items \ ItemsOf(p)) \cup Items(p, w.of, TRUE)
          /\ Record(j, p, "succeeded", "none")
          /\ Crosses(j, p)
          /\ UNCHANGED voided
  /\ UNCHANGED <<candidates, billed, peak>>

-----------------------------------------------------------------------------
PlanStep(j) ==
  \/ CreatePlan(j) \/ UpdatePlan(j) \/ UpdateCommits(j) \/ SavePlan(j) \/ DeletePlan(j)
  \/ BeginGeneration(j) \/ ProviderFails(j) \/ AnswerIsUnreadable(j) \/ ProviderAnswers(j) \/ GenerationCommits(j)
PlanNext == \E j \in Planners : PlanStep(j)
PlanSpec == PlanInit /\ [][PlanNext]_planVars

-----------------------------------------------------------------------------
(* Properties.                                                             *)

\* Every variable stays in its type, and no row is left of a plan that is gone.
PlanTypeOK ==
  /\ plans \in [PlanIds -> [exists : BOOLEAN, of : Payloads \cup {{}}, status : {"draft", "saved"}]]
  /\ planner \in [Planners -> Planner]
  /\ billed \subseteq Planners /\ voided \subseteq Planners /\ crossed \subseteq PlanIds
  /\ \A r \in candidates \cup items \cup generations : plans[r.plan].exists

\* However long the provider takes and whatever happens to the plan meanwhile, the candidates
\* are those of the plan as it is and the itinerary is one of them, whole, and either the
\* provider's or the deterministic one, unless two requests crossed at the moment of their
\* commits.
ItineraryFitsPlan ==
  \A p \in PlanIds : plans[p].exists /\ p \notin crossed =>
    /\ CandidatesOf(p) = Candidate(p, plans[p].of)
    /\ \E ai \in BOOLEAN : ItemsOf(p) = Items(p, plans[p].of, ai)

\* A billed call whose answer can be read counts against the month, also when _validated_items
\* refuses the itinerary, unless its plan was found changed or has been deleted.  (An answer that
\* cannot be read is billed and costs nothing here: AnswerIsUnreadable.)
BilledCallsCount ==
  \A j \in billed \ voided : planner[j].op = "left" => \E g \in Costed : g.call = j

\* The cost is read before a call and recorded after it, so what is recorded of a month may
\* exceed its limit, but by no more than the calls that were under way together.
OvershootBounded == MonthlyCost <= (IF peak = 0 THEN 0 ELSE CostLimit + peak - 1)

\* What readable answers cost a month is recorded while their plans stay, and what is recorded
\* exceeds its limit by little.
PlanSpendHolds == BilledCallsCount /\ OvershootBounded
=============================================================================
