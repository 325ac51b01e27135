---------------------------- MODULE ProviderProofs ----------------------------
(***************************************************************************)
(* Proofs about what calls a paid provider: the itinerary of a trip        *)
(* (Plans), the featured course of the week (Featured) and the meters in   *)
(* front of both (RateLimit).                                              *)
(***************************************************************************)
EXTENDS MCProviders, HeroImageProofs

-----------------------------------------------------------------------------
(* Plans: the inductive invariant.                                         *)

CandidateRow == [plan : PlanIds, course : UNION Payloads, of : Payloads]
ItemRow == [plan : PlanIds, course : UNION Payloads, of : Payloads, ai : BOOLEAN]
GenerationRow ==
  [plan : PlanIds, status : {"succeeded", "fallback"}, why : Fallbacks \cup {"none"}, call : Planners]

\* Rows are of plans that exist, and plans of requests that have left.
PlanTyped ==
  /\ plans \in [PlanIds -> [exists : BOOLEAN, of : Payloads \cup {{}}, status : {"draft", "saved"}]]
  /\ planner \in [Planners -> Planner]
  /\ candidates \subseteq CandidateRow /\ items \subseteq ItemRow /\ generations \subseteq GenerationRow
  /\ billed \subseteq Planners /\ voided \subseteq Planners /\ crossed \subseteq PlanIds /\ peak \in Nat
RowsHavePlans == \A r \in candidates \cup items \cup generations : plans[r.plan].exists
Existing(p) == plans[p].exists => plans[p].of \in Payloads /\ planner[p].op = "left"

\* A request by itself: it remembers rows of the plan it is about, which is not its own.
RequestRight(j) ==
  LET w == planner[j] IN
  /\ w.op = "update" <=> w.pc = "cleared"
  /\ w.op = "generate" <=> w.pc \in {"awaiting", "checked"}
  /\ w.op \in {"update", "generate"} =>
       /\ w.of \in Payloads /\ planner[w.plan].op = "left"
       /\ \A r \in w.rows \cup w.gone : r.plan = w.plan
  \* What was found the same still is, unless a commit crossed with the request.
  /\ w.pc = "checked" /\ plans[w.plan].exists /\ w.plan \notin crossed => w.of = plans[w.plan].of
  /\ j \in billed => w.op = "left" \/ w.pc = "checked"

Fits1(p) ==
  /\ CandidatesOf(p) = Candidate(p, plans[p].of)
  /\ \E ai \in BOOLEAN : ItemsOf(p) = Items(p, plans[p].of, ai)
PlanRight(p) == Existing(p) /\ (plans[p].exists /\ p \notin crossed => Fits1(p))

\* The calls under way will add to the cost: both together are bounded.
SpendRight ==
  /\ IsFiniteSet(generations)
  /\ peak = 0 => Costed = {} /\ UnderWay = {}
  /\ peak # 0 => MonthlyCost + Cardinality(UnderWay) <= CostLimit + peak - 1

PlanInv ==
  /\ PlanTyped /\ RowsHavePlans
  /\ \A j \in Planners : RequestRight(j)
  /\ \A p \in PlanIds : PlanRight(p)
  /\ BilledCallsCount /\ SpendRight

-----------------------------------------------------------------------------
(* Plans: the steps.                                                       *)

Left == [Away EXCEPT !.op = "left"]
\* Nothing of a request but that of j changes, and j had not left.
OnlyRequest(j) ==
  /\ planner' \in [Planners -> Planner] /\ planner[j].op # "left"
  /\ \A i \in Planners \ {j} : planner'[i] = planner[i]

LEMMA PlannersFinite ==
  /\ PlanRequests \in Nat /\ CostLimit \in Nat /\ IsFiniteSet(Planners)
  /\ \A S \in SUBSET Planners : IsFiniteSet(S) /\ Cardinality(S) \in Nat
<1>1. PlanRequests \in Nat /\ CostLimit \in Nat
  BY PlansAssumption
<1>2. IsFiniteSet(Planners)
  BY <1>1, FS_Interval DEF Planners
<1> QED
  BY <1>1, <1>2, FS_Subset, FS_CardinalityType

LEMMA LeftTyped ==
  ASSUME NEW j \in Planners
  PROVE  /\ Left \in Planner /\ Away \in Planner
         /\ Left.op = "left" /\ Left.pc = "none" /\ Away.op = "away" /\ Away.pc = "none"
<1>1. 1 \in PlanIds
  BY PlannersFinite DEF Planners, PlanIds
<1>2. Left = [op |-> "left", pc |-> "none", plan |-> 1, of |-> {}, rows |-> {}, gone |-> {}]
  BY DEF Left, Away
<1> QED
  BY <1>1, <1>2 DEF Planner, Away

LEMMA LeavesOnly ==
  ASSUME PlanTyped, NEW j \in Planners, Leaves(j), planner[j].op # "left"
  PROVE  /\ OnlyRequest(j) /\ planner'[j] = Left /\ planner'[j].op = "left" /\ planner'[j].pc = "none"
<1>1. planner \in [Planners -> Planner] /\ planner' = [planner EXCEPT ![j] = Left]
  BY DEF PlanTyped, Leaves, Left
<1> QED
  BY <1>1, LeftTyped DEF OnlyRequest

LEMMA ComesAway ==
  ASSUME NEW j \in Planners, Comes(j)
  PROVE  planner[j].op = "away" /\ planner[j].pc = "none" /\ planner[j].op # "left"
BY LeftTyped DEF Comes

\* A request that has left, or waits, is right.
LEMMA RestRight ==
  ASSUME NEW j \in Planners, planner'[j] = Left
  PROVE  RequestRight(j)'
BY LeftTyped DEF RequestRight

\* While no row, no plan's request and no crossing changes, the plans and the other requests
\* stay right.
LEMMA QuietStep ==
  ASSUME PlanInv, NEW j \in Planners, OnlyRequest(j), billed' \subseteq billed \cup {j},
         candidates' = candidates, items' = items, crossed' = crossed,
         \A p \in PlanIds : (plans'[p].exists <=> plans[p].exists) /\ plans'[p].of = plans[p].of
  PROVE  /\ \A p \in PlanIds : PlanRight(p)'
         /\ \A i \in Planners \ {j} : RequestRight(i)'
<1> PlanIds = Planners
  BY DEF PlanIds
<1>1. \A p \in PlanIds : planner[p].op = "left" => planner'[p].op = "left"
  BY DEF OnlyRequest
<1>2. ASSUME NEW p \in PlanIds
      PROVE  PlanRight(p)'
  <2>1. PlanRight(p)
    BY DEF PlanInv
  <2>2. Existing(p)'
    BY <1>1, <2>1 DEF PlanRight, Existing
  <2>3. CandidatesOf(p)' = CandidatesOf(p) /\ ItemsOf(p)' = ItemsOf(p)
    BY DEF CandidatesOf, ItemsOf
  <2>4. (plans[p].exists /\ p \notin crossed => Fits1(p))'
    BY <2>1, <2>3 DEF PlanRight, Fits1
  <2> QED
    BY <2>2, <2>4 DEF PlanRight
<1>3. ASSUME NEW i \in Planners \ {j}
      PROVE  RequestRight(i)'
  <2>1. RequestRight(i) /\ planner'[i] = planner[i]
    BY DEF PlanInv, OnlyRequest
  <2>2. planner[i].plan \in PlanIds
    BY DEF PlanInv, PlanTyped, Planner
  <2>3. i \in billed' => i \in billed
    OBVIOUS
  <2> QED
    BY <1>1, <2>1, <2>2, <2>3 DEF RequestRight
<1> QED
  BY <1>2, <1>3

LEMMA CostsFinite ==
  ASSUME IsFiniteSet(generations)
  PROVE  IsFiniteSet(Costed) /\ Cardinality(Costed) \in Nat /\ MonthlyCost \in Nat
<1>1. Costed \subseteq generations
  BY DEF Costed
<1> QED
  BY <1>1, FS_Subset, FS_CardinalityType DEF MonthlyCost

\* What is spent or under way only shrinks.
LEMMA SpendShrinks ==
  ASSUME PlanInv, peak' = peak, generations' \subseteq generations, UnderWay' \subseteq UnderWay
  PROVE  SpendRight'
<1>1. SpendRight /\ peak \in Nat
  BY DEF PlanInv, PlanTyped
<1>2. IsFiniteSet(generations) /\ IsFiniteSet(generations') /\ Costed' \subseteq Costed
  BY <1>1, FS_Subset DEF SpendRight, Costed
<1>3. IsFiniteSet(Costed) /\ Cardinality(Costed) \in Nat /\ MonthlyCost = Cardinality(Costed)
  BY <1>2, CostsFinite DEF MonthlyCost
<1>4. /\ Cardinality(Costed') <= Cardinality(Costed) /\ Cardinality(Costed') \in Nat
      /\ MonthlyCost' = Cardinality(Costed')
  BY <1>2, <1>3, FS_Subset, FS_CardinalityType DEF MonthlyCost
<1>5. UnderWay \subseteq Planners
  BY DEF UnderWay
<1>6. IsFiniteSet(UnderWay) /\ Cardinality(UnderWay) \in Nat
  BY <1>5, PlannersFinite
<1>7. Cardinality(UnderWay') <= Cardinality(UnderWay) /\ Cardinality(UnderWay') \in Nat
  BY <1>6, FS_Subset, FS_CardinalityType
<1>8. CASE peak = 0
  BY <1>1, <1>2, <1>8 DEF SpendRight
<1>9. CASE peak # 0
  BY <1>1, <1>2, <1>3, <1>4, <1>6, <1>7, <1>9, PlannersFinite DEF SpendRight
<1> QED
  BY <1>8, <1>9

\* A call that is recorded was under way.
LEMMA SpendMoves ==
  ASSUME PlanInv, peak' = peak, NEW j \in UnderWay, UnderWay' = UnderWay \ {j},
         NEW g, generations' = generations \cup {g}
  PROVE  SpendRight'
<1>1. SpendRight /\ peak \in Nat
  BY DEF PlanInv, PlanTyped
<1>2. IsFiniteSet(generations) /\ IsFiniteSet(generations') /\ Costed' \subseteq Costed \cup {g}
  BY <1>1, FS_AddElement DEF SpendRight, Costed
<1>3. IsFiniteSet(Costed) /\ Cardinality(Costed) \in Nat /\ MonthlyCost = Cardinality(Costed)
  BY <1>2, CostsFinite DEF MonthlyCost
<1>4. IsFiniteSet(Costed \cup {g}) /\ Cardinality(Costed \cup {g}) <= Cardinality(Costed) + 1
  <2>1. /\ IsFiniteSet(Costed \cup {g})
        /\ Cardinality(Costed \cup {g})
             = IF g \in Costed THEN Cardinality(Costed) ELSE Cardinality(Costed) + 1
    BY <1>3, FS_AddElement
  <2> QED
    BY <1>3, <2>1
<1>5. /\ Cardinality(Costed') <= Cardinality(Costed \cup {g}) /\ Cardinality(Costed') \in Nat
      /\ Cardinality(Costed \cup {g}) \in Nat
      /\ MonthlyCost' = Cardinality(Costed')
  BY <1>2, <1>4, FS_Subset, FS_CardinalityType DEF MonthlyCost
<1>6. UnderWay \subseteq Planners
  BY DEF UnderWay
<1>7. IsFiniteSet(UnderWay) /\ Cardinality(UnderWay) \in Nat
  BY <1>6, PlannersFinite
<1>8. /\ Cardinality(UnderWay \ {j}) = Cardinality(UnderWay) - 1
      /\ IsFiniteSet(UnderWay \ {j}) /\ Cardinality(UnderWay \ {j}) \in Nat
  BY <1>7, FS_RemoveElement, FS_CardinalityType
<1>9. peak # 0
  BY <1>1 DEF SpendRight
<1>10. MonthlyCost + Cardinality(UnderWay) <= CostLimit + peak - 1
  BY <1>1, <1>9 DEF SpendRight
<1>11. MonthlyCost' + Cardinality(UnderWay') <= CostLimit + peak - 1
  BY <1>1, <1>3, <1>4, <1>5, <1>7, <1>8, <1>10, PlannersFinite
<1> QED
  BY <1>2, <1>9, <1>11 DEF SpendRight

\* A new call: the month was below its limit when it began.
LEMMA SpendBegins ==
  ASSUME PlanInv, ~OverLimit, generations' = generations, NEW j \in Planners, j \notin UnderWay,
         UnderWay' = UnderWay \cup {j},
         peak' = IF Cardinality(UnderWay) >= peak THEN Cardinality(UnderWay) + 1 ELSE peak
  PROVE  SpendRight' /\ peak' \in Nat
<1>1. SpendRight /\ peak \in Nat /\ IsFiniteSet(generations)
  BY DEF PlanInv, PlanTyped, SpendRight
<1>2. /\ MonthlyCost \in Nat /\ MonthlyCost' = MonthlyCost /\ MonthlyCost < CostLimit
      /\ IsFiniteSet(generations')
  BY <1>1, CostsFinite, PlannersFinite DEF OverLimit, MonthlyCost, Costed
<1>3. UnderWay \subseteq Planners
  BY DEF UnderWay
<1>4. IsFiniteSet(UnderWay) /\ Cardinality(UnderWay) \in Nat
  BY <1>3, PlannersFinite
<1>5. Cardinality(UnderWay') = Cardinality(UnderWay) + 1
  BY <1>4, FS_AddElement
<1>6. peak' \in Nat /\ peak' >= Cardinality(UnderWay) + 1 /\ peak' # 0
  BY <1>1, <1>4
<1>7. MonthlyCost' + Cardinality(UnderWay') <= CostLimit + peak' - 1
  BY <1>2, <1>4, <1>5, <1>6, PlannersFinite
<1> QED
  BY <1>2, <1>6, <1>7 DEF SpendRight

LEMMA CandidatesAfter ==
  ASSUME NEW p, NEW payload, NEW R, \A r \in R : r.plan = p,
         candidates' = (candidates \ R) \cup Candidate(p, payload)
  PROVE  /\ CandidatesOf(p)' = (CandidatesOf(p) \ R) \cup Candidate(p, payload)
         /\ \A q : q # p => CandidatesOf(q)' = CandidatesOf(q)
<1>1. \A r \in Candidate(p, payload) : r.plan = p
  BY DEF Candidate
<1> HIDE DEF Candidate
<1> QED
  BY <1>1 DEF CandidatesOf

LEMMA ItemsAfter ==
  ASSUME NEW p, NEW R, NEW N, \A r \in R : r.plan = p, \A r \in N : r.plan = p,
         items' = (items \ R) \cup N
  PROVE  /\ ItemsOf(p)' = (ItemsOf(p) \ R) \cup N
         /\ \A q : q # p => ItemsOf(q)' = ItemsOf(q)
BY DEF ItemsOf

LEMMA RowsTyped ==
  ASSUME NEW p \in PlanIds, NEW payload \in Payloads, NEW ai \in BOOLEAN
  PROVE  /\ Candidate(p, payload) \subseteq CandidateRow /\ Items(p, payload, ai) \subseteq ItemRow
         /\ \A r \in Candidate(p, payload) \cup Items(p, payload, ai) : r.plan = p
<1>1. \A c \in payload : c \in UNION Payloads
  OBVIOUS
<1>2. Candidate(p, payload) \subseteq CandidateRow /\ \A r \in Candidate(p, payload) : r.plan = p
  BY <1>1 DEF Candidate, CandidateRow
<1>3. Items(p, payload, ai) \subseteq ItemRow /\ \A r \in Items(p, payload, ai) : r.plan = p
  BY <1>1 DEF Items, ItemRow
<1> QED
  BY <1>2, <1>3

LEMMA CallsStayCounted ==
  ASSUME PlanInv, NEW j \in Planners, OnlyRequest(j), generations \subseteq generations',
         billed' \subseteq billed \cup {j}, voided \subseteq voided',
         j \in billed' \ voided' /\ planner'[j].op = "left" => \E g \in Costed' : g.call = j
  PROVE  BilledCallsCount'
<1>1. Costed \subseteq Costed'
  BY DEF Costed
<1>2. BilledCallsCount
  BY DEF PlanInv
<1>3. ASSUME NEW i \in billed' \ voided', planner'[i].op = "left"
      PROVE  \E g \in Costed' : g.call = i
  <2>1. CASE i = j
    BY <1>3, <2>1
  <2>2. CASE i # j
    <3>1. i \in billed \ voided
      BY <2>2
    <3>2. i \in Planners
      BY <3>1 DEF PlanInv, PlanTyped
    <3>3. planner[i].op = "left"
      BY <1>3, <2>2, <3>2 DEF OnlyRequest
    <3> QED
      BY <1>1, <1>2, <3>1, <3>3 DEF BilledCallsCount
  <2> QED
    BY <2>1, <2>2
<1> QED
  BY <1>3 DEF BilledCallsCount

\* No call ends or begins with a request that was none.
LEMMA UnderWayStays ==
  ASSUME PlanInv, NEW j \in Planners, OnlyRequest(j), planner'[j].op # "generate"
  PROVE  UnderWay' = UnderWay \ {j}
BY DEF UnderWay, OnlyRequest

LEMMA CreateKeepsInv ==
  ASSUME PlanInv, NEW j \in Planners, CreatePlan(j)
  PROVE  PlanInv'
<1>a. PICK payload \in Payloads :
      /\ plans' = [plans EXCEPT ![j] = [exists |-> TRUE, of |-> payload, status |-> "draft"]]
      /\ candidates' = candidates \cup Candidate(j, payload)
      /\ items' = items \cup Items(j, payload, FALSE)
  BY DEF CreatePlan
<1> PlanIds = Planners
  BY DEF PlanIds
<1>0. PlanTyped
  BY DEF PlanInv
<1>1. Comes(j) /\ Leaves(j) /\ UNCHANGED <<generations, billed, voided, crossed, peak>>
  BY DEF CreatePlan
<1>2. planner[j].op = "away" /\ planner[j].op # "left"
  BY <1>1, ComesAway
<1>3. /\ OnlyRequest(j) /\ planner'[j] = Left /\ planner'[j].op = "left" /\ planner'[j].pc = "none"
  BY <1>0, <1>1, <1>2, LeavesOnly
<1>4. /\ plans'[j].exists /\ plans'[j].of = payload
      /\ \A p \in PlanIds \ {j} : plans'[p] = plans[p]
      /\ plans' \in [PlanIds -> [exists : BOOLEAN, of : Payloads \cup {{}}, status : {"draft", "saved"}]]
  BY <1>0, <1>a DEF PlanTyped
<1>5. ~plans[j].exists
  BY <1>2 DEF PlanInv, PlanRight, Existing
<1>6. CandidatesOf(j) = {} /\ ItemsOf(j) = {}
  BY <1>5 DEF PlanInv, RowsHavePlans, CandidatesOf, ItemsOf
<1>7. /\ CandidatesOf(j)' = Candidate(j, payload)
      /\ \A q : q # j => CandidatesOf(q)' = CandidatesOf(q)
  <2>1. candidates' = (candidates \ {}) \cup Candidate(j, payload)
    BY <1>a
  <2> QED
    BY <1>6, <2>1, CandidatesAfter
<1>8. /\ ItemsOf(j)' = Items(j, payload, FALSE)
      /\ \A q : q # j => ItemsOf(q)' = ItemsOf(q)
  <2> DEFINE N == Items(j, payload, FALSE)
  <2>1. (\A r \in N : r.plan = j) /\ items' = (items \ {}) \cup N
    BY <1>a, RowsTyped
  <2> HIDE DEF N
  <2>2. /\ ItemsOf(j)' = (ItemsOf(j) \ {}) \cup N
        /\ \A q : q # j => ItemsOf(q)' = ItemsOf(q)
    BY <2>1, ItemsAfter
  <2> QED
    BY <1>6, <2>2 DEF N
<1>9. /\ Candidate(j, payload) \subseteq CandidateRow /\ Items(j, payload, FALSE) \subseteq ItemRow
      /\ \A r \in Candidate(j, payload) \cup Items(j, payload, FALSE) : r.plan = j
  BY RowsTyped
<1>10. PlanTyped'
  BY <1>0, <1>a, <1>1, <1>3, <1>4, <1>9 DEF PlanTyped, OnlyRequest, CandidateRow, ItemRow, GenerationRow, PlanIds, Planners
<1>11. RowsHavePlans'
  <2>1. ASSUME NEW r \in candidates \cup items \cup generations
        PROVE  plans'[r.plan].exists
    <3>1. r.plan \in PlanIds
      BY <1>0 DEF PlanTyped, CandidateRow, ItemRow, GenerationRow
    <3>2. plans[r.plan].exists
      BY DEF PlanInv, RowsHavePlans
    <3> QED
      BY <1>4, <1>5, <3>1, <3>2
  <2> QED
    BY <1>a, <1>1, <1>4, <1>9, <2>1 DEF RowsHavePlans
<1>12. ASSUME NEW i \in Planners
       PROVE  RequestRight(i)'
  <2>1. CASE i = j
    BY <1>3, <2>1, RestRight
  <2>2. CASE i # j
    <3>1. RequestRight(i) /\ planner'[i] = planner[i]
      BY <1>3, <2>2 DEF PlanInv, OnlyRequest
    <3>2. planner[i].plan \in PlanIds
      BY <1>0 DEF PlanTyped, Planner
    <3>3. ASSUME planner[i].op \in {"update", "generate"}
          PROVE  /\ planner[planner[i].plan].op = "left" /\ planner'[planner[i].plan].op = "left"
                 /\ plans'[planner[i].plan] = plans[planner[i].plan]
      BY <1>2, <1>3, <1>4, <3>1, <3>2, <3>3 DEF RequestRight, OnlyRequest
    <3>4. planner[i].pc = "checked" => planner[i].op = "generate"
      BY <3>1 DEF RequestRight
    <3> QED
      BY <1>1, <3>1, <3>3, <3>4 DEF RequestRight
  <2> QED
    BY <2>1, <2>2
<1>13. ASSUME NEW p \in PlanIds
       PROVE  PlanRight(p)'
  <2>1. CASE p = j
    <3>1. Existing(j)'
      BY <1>3, <1>4 DEF Existing
    <3>2. Fits1(j)'
      <4>1. ItemsOf(j)' = Items(j, payload, FALSE) /\ CandidatesOf(j)' = Candidate(j, payload)
        BY <1>7, <1>8
      <4> QED
        BY <1>4, <4>1 DEF Fits1
    <3> QED
      BY <2>1, <3>1, <3>2 DEF PlanRight
  <2>2. CASE p # j
    <3>1. PlanRight(p) /\ plans'[p] = plans[p]
      BY <1>4, <2>2 DEF PlanInv
    <3>2. Existing(p)'
      BY <1>3, <2>2, <3>1 DEF PlanRight, Existing, OnlyRequest
    <3>3. CandidatesOf(p)' = CandidatesOf(p) /\ ItemsOf(p)' = ItemsOf(p)
      BY <1>7, <1>8, <2>2
    <3>4. Fits1(p) => Fits1(p)'
      BY <3>1, <3>3 DEF Fits1
    <3> QED
      BY <1>1, <3>1, <3>2, <3>4 DEF PlanRight
  <2> QED
    BY <2>1, <2>2
<1>14. BilledCallsCount'
  <2>1. j \notin billed
    BY <1>1, <1>2, ComesAway DEF PlanInv, RequestRight
  <2> QED
    BY <1>1, <1>3, <2>1, CallsStayCounted
<1>15. SpendRight'
  <2>1. UnderWay' \subseteq UnderWay
    BY <1>3, UnderWayStays
  <2> QED
    BY <1>1, <2>1, SpendShrinks
<1> QED
  BY <1>10, <1>11, <1>12, <1>13, <1>14, <1>15 DEF PlanInv

\* What a request that has begun and leaves a plan's rows alone has to keep.
LEMMA QuietKeepsInv ==
  ASSUME PlanInv, PlanTyped', NEW j \in Planners, OnlyRequest(j), RequestRight(j)',
         candidates' = candidates, items' = items, crossed' = crossed,
         \A p \in PlanIds : (plans'[p].exists <=> plans[p].exists) /\ plans'[p].of = plans[p].of,
         billed' \subseteq billed \cup {j}, voided \subseteq voided', generations \subseteq generations',
         \A g \in generations' \ generations : plans[g.plan].exists,
         j \in billed' \ voided' /\ planner'[j].op = "left" => \E g \in Costed' : g.call = j,
         SpendRight'
  PROVE  PlanInv'
<1>1. /\ \A p \in PlanIds : PlanRight(p)'
      /\ \A i \in Planners \ {j} : RequestRight(i)'
  BY QuietStep
<1>2. RowsHavePlans'
  <2>1. ASSUME NEW r \in candidates \cup items \cup generations'
        PROVE  plans'[r.plan].exists
    <3>1. r.plan \in PlanIds
      BY DEF PlanTyped, CandidateRow, ItemRow, GenerationRow
    <3>2. plans[r.plan].exists
      BY DEF PlanInv, RowsHavePlans
    <3> QED
      BY <3>1, <3>2
  <2> QED
    BY <2>1 DEF RowsHavePlans
<1>3. BilledCallsCount'
  BY CallsStayCounted
<1> QED
  BY <1>1, <1>2, <1>3 DEF PlanInv

LEMMA NotBilled ==
  ASSUME PlanInv, NEW j \in Planners, planner[j].op # "left", planner[j].pc # "checked"
  PROVE  j \notin billed
BY DEF PlanInv, RequestRight

LEMMA UpdateKeepsInv ==
  ASSUME PlanInv, NEW j \in Planners, UpdatePlan(j)
  PROVE  PlanInv'
<1>0. PlanTyped /\ PlanIds = Planners
  BY DEF PlanInv, PlanIds
<1>1. PICK p \in PlanIds, payload \in Payloads :
        /\ plans[p].exists
        /\ planner' = [planner EXCEPT ![j] =
             [op |-> "update", pc |-> "cleared", plan |-> p, of |-> payload,
              rows |-> CandidatesOf(p), gone |-> ItemsOf(p)]]
  BY DEF UpdatePlan
<1>2. Comes(j) /\ UNCHANGED <<plans, candidates, items, generations, billed, voided, crossed, peak>>
  BY DEF UpdatePlan
<1>3. planner[j].op = "away" /\ planner[j].pc = "none"
  BY <1>2, ComesAway
<1>4. /\ CandidatesOf(p) \subseteq candidates /\ ItemsOf(p) \subseteq items
      /\ \A r \in CandidatesOf(p) \cup ItemsOf(p) : r.plan = p
  BY DEF CandidatesOf, ItemsOf
<1> DEFINE w == [op |-> "update", pc |-> "cleared", plan |-> p, of |-> payload,
                 rows |-> CandidatesOf(p), gone |-> ItemsOf(p)]
<1>5. w \in Planner
  BY <1>0, <1>4 DEF Planner, PlanTyped, CandidateRow, ItemRow
<1>6. /\ w.op = "update" /\ w.pc = "cleared" /\ w.plan = p /\ w.of = payload
      /\ \A r \in w.rows \cup w.gone : r.plan = w.plan
  BY <1>4
<1>7. planner' = [planner EXCEPT ![j] = w]
  BY <1>1
<1> HIDE DEF w
<1>8. OnlyRequest(j) /\ planner'[j] = w
  BY <1>0, <1>3, <1>5, <1>7 DEF OnlyRequest, PlanTyped
<1>9. PlanTyped'
  BY <1>0, <1>2, <1>8 DEF PlanTyped, OnlyRequest, CandidateRow, ItemRow, GenerationRow, PlanIds, Planners
<1>10. planner[p].op = "left"
  BY <1>1 DEF PlanInv, PlanRight, Existing
<1>11. planner'[p].op = "left"
  BY <1>0, <1>3, <1>8, <1>10 DEF OnlyRequest
<1>12. j \notin billed
  BY <1>3, NotBilled
<1>13. RequestRight(j)'
  BY <1>2, <1>6, <1>8, <1>11, <1>12 DEF RequestRight
<1>14. UnderWay' \subseteq UnderWay
  BY <1>6, <1>8, UnderWayStays
<1>15. SpendRight'
  BY <1>2, <1>14, SpendShrinks
<1> QED
  BY <1>2, <1>6, <1>8, <1>9, <1>13, <1>15, QuietKeepsInv

LEMMA SaveKeepsInv ==
  ASSUME PlanInv, NEW j \in Planners, SavePlan(j)
  PROVE  PlanInv'
<1>0. PlanTyped /\ PlanIds = Planners
  BY DEF PlanInv, PlanIds
<1>1. PICK p \in PlanIds : plans[p].exists /\ plans' = [plans EXCEPT ![p].status = "saved"]
  BY DEF SavePlan
<1>2. Comes(j) /\ Leaves(j) /\ UNCHANGED <<candidates, items, generations, billed, voided, crossed, peak>>
  BY DEF SavePlan
<1>3. planner[j].op # "left" /\ planner[j].pc = "none"
  BY <1>2, ComesAway
<1>4. OnlyRequest(j) /\ planner'[j] = Left /\ planner'[j].op = "left"
  BY <1>0, <1>2, <1>3, LeavesOnly
<1>5. /\ plans' \in [PlanIds -> [exists : BOOLEAN, of : Payloads \cup {{}}, status : {"draft", "saved"}]]
      /\ \A q \in PlanIds : (plans'[q].exists <=> plans[q].exists) /\ plans'[q].of = plans[q].of
  BY <1>0, <1>1 DEF PlanTyped
<1>6. PlanTyped'
  BY <1>0, <1>2, <1>4, <1>5 DEF PlanTyped, OnlyRequest, CandidateRow, ItemRow, GenerationRow, PlanIds, Planners
<1>7. UnderWay' \subseteq UnderWay
  BY <1>4, UnderWayStays
<1>8. SpendRight'
  BY <1>2, <1>7, SpendShrinks
<1>9. j \notin billed
  BY <1>3, NotBilled
<1> QED
  BY <1>2, <1>4, <1>5, <1>6, <1>8, <1>9, RestRight, QuietKeepsInv

LEMMA DeleteKeepsInv ==
  ASSUME PlanInv, NEW j \in Planners, DeletePlan(j)
  PROVE  PlanInv'
<1>0. PlanTyped /\ PlanIds = Planners
  BY DEF PlanInv, PlanIds
<1>1. PICK p \in PlanIds :
        /\ plans[p].exists
        /\ plans' = [plans EXCEPT ![p] = NoPlan]
        /\ candidates' = candidates \ CandidatesOf(p)
        /\ items' = items \ ItemsOf(p)
        /\ generations' = generations \ GenerationsOf(p)
        /\ voided' = voided \cup {g.call : g \in GenerationsOf(p)}
        /\ Crosses(j, p)
  BY DEF DeletePlan
<1>2. Comes(j) /\ Leaves(j) /\ UNCHANGED <<billed, peak>>
  BY DEF DeletePlan
<1>3. planner[j].op # "left" /\ planner[j].pc = "none"
  BY <1>2, ComesAway
<1>4. OnlyRequest(j) /\ planner'[j] = Left /\ planner'[j].op = "left"
  BY <1>0, <1>2, <1>3, LeavesOnly
<1>5. /\ plans' \in [PlanIds -> [exists : BOOLEAN, of : Payloads \cup {{}}, status : {"draft", "saved"}]]
      /\ \A q \in PlanIds \ {p} : plans'[q] = plans[q]
      /\ ~plans'[p].exists
  BY <1>0, <1>1 DEF PlanTyped, NoPlan
<1>6. crossed \subseteq crossed' /\ crossed' \subseteq crossed \cup {p}
  BY <1>1 DEF Crosses
<1>7. /\ candidates' \subseteq candidates /\ items' \subseteq items /\ generations' \subseteq generations
      /\ \A r \in candidates' \cup items' \cup generations' : r.plan # p
  BY <1>1 DEF CandidatesOf, ItemsOf, GenerationsOf
<1>8. {g.call : g \in GenerationsOf(p)} \subseteq Planners
  BY <1>0 DEF PlanTyped, GenerationRow, GenerationsOf
<1>9. PlanTyped'
  <2>1. candidates' \subseteq CandidateRow /\ items' \subseteq ItemRow /\ generations' \subseteq GenerationRow
    BY <1>0, <1>7 DEF PlanTyped
  <2>2. voided' \subseteq Planners /\ crossed' \subseteq PlanIds
    BY <1>0, <1>1, <1>6, <1>8 DEF PlanTyped
  <2> QED
    BY <1>0, <1>2, <1>4, <1>5, <2>1, <2>2
       DEF PlanTyped, OnlyRequest, CandidateRow, ItemRow, GenerationRow, PlanIds, Planners
<1>10. RowsHavePlans'
  <2>1. ASSUME NEW r \in candidates' \cup items' \cup generations'
        PROVE  plans'[r.plan].exists
    <3>1. r.plan \in PlanIds \ {p}
      BY <1>0, <1>7 DEF PlanTyped, CandidateRow, ItemRow, GenerationRow
    <3>2. plans[r.plan].exists
      BY <1>7 DEF PlanInv, RowsHavePlans
    <3> QED
      BY <1>5, <3>1, <3>2
  <2> QED
    BY <2>1 DEF RowsHavePlans
<1>11. ASSUME NEW i \in Planners
       PROVE  RequestRight(i)'
  <2>1. CASE i = j
    BY <1>4, <2>1, RestRight
  <2>2. CASE i # j
    <3>1. RequestRight(i) /\ planner'[i] = planner[i]
      BY <1>4, <2>2 DEF PlanInv, OnlyRequest
    <3>2. planner[i].plan \in PlanIds
      BY <1>0 DEF PlanTyped, Planner
    <3>3. planner[planner[i].plan].op = "left" => planner'[planner[i].plan].op = "left"
      BY <1>0, <1>4, <3>2 DEF OnlyRequest
    <3>4. plans'[planner[i].plan].exists =>
            plans[planner[i].plan].exists /\ plans'[planner[i].plan].of = plans[planner[i].plan].of
      BY <1>5, <3>2
    <3> QED
      BY <1>2, <1>6, <3>1, <3>3, <3>4 DEF RequestRight
  <2> QED
    BY <2>1, <2>2
<1>12. ASSUME NEW q \in PlanIds
       PROVE  PlanRight(q)'
  <2>1. CASE q = p
    BY <1>5, <2>1 DEF PlanRight, Existing
  <2>2. CASE q # p
    <3>1. PlanRight(q) /\ plans'[q] = plans[q]
      BY <1>5, <2>2 DEF PlanInv
    <3>2. Existing(q)'
      BY <1>0, <1>4, <3>1 DEF PlanRight, Existing, OnlyRequest
    <3>3. CandidatesOf(q)' = CandidatesOf(q) /\ ItemsOf(q)' = ItemsOf(q)
      BY <1>1, <2>2 DEF CandidatesOf, ItemsOf
    <3>4. Fits1(q) => Fits1(q)'
      BY <3>1, <3>3 DEF Fits1
    <3> QED
      BY <1>6, <3>1, <3>2, <3>4 DEF PlanRight
  <2> QED
    BY <2>1, <2>2
<1>13. BilledCallsCount'
  <2>1. ASSUME NEW i \in billed' \ voided', planner'[i].op = "left"
        PROVE  \E g \in Costed' : g.call = i
    <3>1. i \in billed \ voided /\ i \in Planners
      BY <1>0, <1>1, <1>2 DEF PlanTyped
    <3>2. i # j
      BY <1>3, <3>1, NotBilled
    <3>3. planner[i].op = "left"
      BY <1>4, <2>1, <3>1, <3>2 DEF OnlyRequest
    <3>4. PICK g \in Costed : g.call = i
      BY <3>1, <3>3 DEF PlanInv, BilledCallsCount
    <3>5. g \notin GenerationsOf(p)
      BY <1>1, <3>4
    <3>6. g \in Costed'
      BY <1>1, <3>5 DEF Costed
    <3> QED
      BY <3>4, <3>6
  <2> QED
    BY <2>1 DEF BilledCallsCount
<1>14. SpendRight'
  <2>1. UnderWay' \subseteq UnderWay
    BY <1>4, UnderWayStays
  <2> QED
    BY <1>2, <1>7, <2>1, SpendShrinks
<1> QED
  BY <1>9, <1>10, <1>11, <1>12, <1>13, <1>14 DEF PlanInv

LEMMA BeginKeepsInv ==
  ASSUME PlanInv, NEW j \in Planners, BeginGeneration(j)
  PROVE  PlanInv'
<1>0. PlanTyped /\ PlanIds = Planners
  BY DEF PlanInv, PlanIds
<1>1. PICK p \in PlanIds :
       /\ plans[p].exists
       /\ IF CandidatesOf(p) = {} \/ OverLimit
          THEN /\ Leaves(j)
               /\ Record(j, p, "fallback", IF CandidatesOf(p) = {} THEN "no_candidates" ELSE "monthly_cost_limit")
               /\ UNCHANGED peak
          ELSE /\ planner' = [planner EXCEPT ![j] =
                    [op |-> "generate", pc |-> "awaiting", plan |-> p, of |-> plans[p].of,
                     rows |-> CandidatesOf(p), gone |-> {}]]
               /\ peak' = IF Cardinality(UnderWay) >= peak THEN Cardinality(UnderWay) + 1 ELSE peak
               /\ UNCHANGED generations
  BY DEF BeginGeneration
<1>2. Comes(j) /\ UNCHANGED <<plans, candidates, items, billed, voided, crossed>>
  BY DEF BeginGeneration
<1>3. planner[j].op = "away" /\ planner[j].op # "left" /\ planner[j].pc = "none"
  BY <1>2, ComesAway
<1>4. j \notin billed
  BY <1>3, NotBilled
<1>5. CASE CandidatesOf(p) = {} \/ OverLimit
  <2> DEFINE g == [plan |-> p, status |-> "fallback",
                   why |-> IF CandidatesOf(p) = {} THEN "no_candidates" ELSE "monthly_cost_limit",
                   call |-> j]
  <2>1. Leaves(j) /\ generations' = generations \cup {g} /\ peak' = peak
    BY <1>1, <1>5 DEF Record
  <2>2. g \in GenerationRow /\ g.plan = p /\ g.status # "succeeded" /\ g.why # "invalid_output"
    BY <1>0 DEF GenerationRow, Fallbacks
  <2> HIDE DEF g
  <2>3. OnlyRequest(j) /\ planner'[j] = Left /\ planner'[j].op = "left"
    BY <1>0, <1>3, <2>1, LeavesOnly
  <2>4. PlanTyped'
    BY <1>0, <1>2, <2>1, <2>2, <2>3
       DEF PlanTyped, OnlyRequest, CandidateRow, ItemRow, GenerationRow, PlanIds, Planners
  <2>5. UnderWay' \subseteq UnderWay
    BY <2>3, UnderWayStays
  <2>6. SpendRight'
    <3>1. SpendRight
      BY DEF PlanInv
    <3>2. Costed' = Costed
      BY <2>1, <2>2 DEF Costed
    <3>3. UnderWay' = UnderWay
      BY <1>3, <2>3, UnderWayStays DEF UnderWay
    <3>4. IsFiniteSet(generations')
      BY <2>1, <3>1, FS_AddElement DEF SpendRight
    <3>5. MonthlyCost' = MonthlyCost
      BY <3>2 DEF MonthlyCost
    <3> QED
      BY <2>1, <3>1, <3>2, <3>3, <3>4, <3>5 DEF SpendRight
  <2>7. \A h \in generations' \ generations : plans[h.plan].exists
    BY <1>1, <2>1, <2>2
  <2> QED
    BY <1>2, <1>4, <2>1, <2>3, <2>4, <2>6, <2>7, RestRight, QuietKeepsInv
<1>6. CASE ~(CandidatesOf(p) = {} \/ OverLimit)
  <2> DEFINE w == [op |-> "generate", pc |-> "awaiting", plan |-> p, of |-> plans[p].of,
                   rows |-> CandidatesOf(p), gone |-> {}]
  <2>1. /\ planner' = [planner EXCEPT ![j] = w]
        /\ peak' = IF Cardinality(UnderWay) >= peak THEN Cardinality(UnderWay) + 1 ELSE peak
        /\ generations' = generations
    BY <1>1, <1>6
  <2>2. plans[p].of \in Payloads /\ planner[p].op = "left"
    BY <1>1 DEF PlanInv, PlanRight, Existing
  <2>3. CandidatesOf(p) \subseteq candidates /\ \A r \in CandidatesOf(p) : r.plan = p
    BY DEF CandidatesOf
  <2>4. w \in Planner
    BY <1>0, <2>2, <2>3 DEF Planner, PlanTyped, CandidateRow
  <2>5. /\ w.op = "generate" /\ w.pc = "awaiting" /\ w.plan = p /\ w.of \in Payloads
        /\ \A r \in w.rows \cup w.gone : r.plan = w.plan
    BY <2>2, <2>3
  <2> HIDE DEF w
  <2>6. OnlyRequest(j) /\ planner'[j] = w
    BY <1>0, <1>3, <2>1, <2>4 DEF OnlyRequest, PlanTyped
  <2>7. UnderWay' = UnderWay \cup {j} /\ j \notin UnderWay
    BY <1>3, <2>5, <2>6 DEF UnderWay, OnlyRequest
  <2>8. SpendRight' /\ peak' \in Nat
    BY <1>6, <2>1, <2>7, SpendBegins
  <2>9. PlanTyped'
    BY <1>0, <1>2, <2>1, <2>6, <2>8
       DEF PlanTyped, OnlyRequest, CandidateRow, ItemRow, GenerationRow, PlanIds, Planners
  <2>10. planner'[p].op = "left"
    BY <1>0, <1>3, <2>2, <2>6 DEF OnlyRequest
  <2>11. RequestRight(j)'
    BY <1>2, <1>4, <2>5, <2>6, <2>10 DEF RequestRight
  <2> QED
    BY <1>2, <2>1, <2>5, <2>6, <2>8, <2>9, <2>11, QuietKeepsInv
<1> QED
  BY <1>5, <1>6

\* A request that leaves a call may record what became of it.
LEMMA CallEndsKeepsInv ==
  ASSUME PlanInv, NEW j \in Planners, planner[j].op = "generate", Leaves(j),
         UNCHANGED <<plans, candidates, items, crossed, peak>>,
         billed' \subseteq billed \cup {j}, voided \subseteq voided', voided' \subseteq Planners,
         \/ generations' = generations
         \/ \E g \in GenerationRow : generations' = generations \cup {g} /\ plans[g.plan].exists,
         j \in billed' \ voided' => \E g \in Costed' : g.call = j
  PROVE  PlanInv'
<1>0. PlanTyped
  BY DEF PlanInv
<1>1. OnlyRequest(j) /\ planner'[j] = Left /\ planner'[j].op = "left"
  BY <1>0, LeavesOnly
<1>2. UnderWay' = UnderWay \ {j} /\ j \in UnderWay
  BY <1>1, UnderWayStays DEF UnderWay
<1>3. CASE generations' = generations
  <2>1. SpendRight'
    BY <1>2, <1>3, SpendShrinks
  <2>2. PlanTyped'
    BY <1>0, <1>1, <1>3 DEF PlanTyped, OnlyRequest, CandidateRow, ItemRow, GenerationRow, PlanIds, Planners
  <2> QED
    BY <1>1, <1>3, <2>1, <2>2, RestRight, QuietKeepsInv
<1>4. ASSUME NEW g \in GenerationRow, generations' = generations \cup {g}, plans[g.plan].exists
      PROVE  PlanInv'
  <2>1. SpendRight'
    BY <1>2, <1>4, SpendMoves
  <2>2. PlanTyped'
    BY <1>0, <1>1, <1>4 DEF PlanTyped, OnlyRequest, CandidateRow, ItemRow, GenerationRow, PlanIds, Planners
  <2>3. \A h \in generations' \ generations : plans[h.plan].exists
    BY <1>4
  <2> QED
    BY <1>1, <1>4, <2>1, <2>2, <2>3, RestRight, QuietKeepsInv
<1> QED
  BY <1>3, <1>4

LEMMA FailureKeepsInv ==
  ASSUME PlanInv, NEW j \in Planners, ProviderFails(j) \/ AnswerIsUnreadable(j)
  PROVE  PlanInv'
<1> DEFINE p == planner[j].plan
           g == [plan |-> p, status |-> "fallback", why |-> "provider_error", call |-> j]
<1>1. /\ planner[j].pc = "awaiting" /\ Leaves(j)
      /\ IF plans[p].exists THEN generations' = generations \cup {g} ELSE UNCHANGED generations
      /\ UNCHANGED <<plans, candidates, items, crossed, peak>>
      /\ \/ UNCHANGED <<billed, voided>>
         \/ billed' = billed \cup {j} /\ voided' = voided \cup {j}
  BY DEF ProviderFails, AnswerIsUnreadable, NoItinerary, Record
<1>2. planner[j].op = "generate" /\ j \notin billed
  BY <1>1 DEF PlanInv, RequestRight
<1>3. p \in PlanIds
  BY DEF PlanInv, PlanTyped, Planner
<1>4. g \in GenerationRow /\ g.plan = p
  BY <1>3 DEF GenerationRow, Fallbacks
<1> HIDE DEF g, p
<1>5. \/ generations' = generations
      \/ \E h \in GenerationRow : generations' = generations \cup {h} /\ plans[h.plan].exists
  BY <1>1, <1>4
<1>6. /\ voided' \subseteq Planners /\ voided \subseteq voided' /\ billed' \subseteq billed \cup {j}
      /\ j \notin billed' \ voided'
  BY <1>1, <1>2 DEF PlanInv, PlanTyped
<1> QED
  BY <1>1, <1>2, <1>5, <1>6, CallEndsKeepsInv

LEMMA AnswerKeepsInv ==
  ASSUME PlanInv, NEW j \in Planners, ProviderAnswers(j)
  PROVE  PlanInv'
<1> DEFINE w == planner[j]
           p == w.plan
           FallbackRow(why) == [plan |-> p, status |-> "fallback", why |-> why, call |-> j]
<1>0. PlanTyped /\ PlanIds = Planners
  BY DEF PlanInv, PlanIds
<1>1. w.pc = "awaiting" /\ billed' = billed \cup {j} /\ UNCHANGED <<plans, candidates, items, crossed, peak>>
  BY DEF ProviderAnswers
<1>2. w.op = "generate" /\ w.op # "left"
  BY <1>1 DEF PlanInv, RequestRight
<1>3. p \in PlanIds
  BY <1>0 DEF PlanTyped, Planner
<1>4. \A why \in Fallbacks : FallbackRow(why) \in GenerationRow /\ FallbackRow(why).plan = p
  BY <1>3 DEF GenerationRow
<1>5. \/ /\ ~SameRequest(w) /\ Leaves(j) /\ voided' = voided \cup {j}
         /\ IF plans[p].exists THEN Record(j, p, "fallback", "plan_changed") ELSE UNCHANGED generations
      \/ /\ SameRequest(w) /\ Leaves(j) /\ UselessAnswer(j, p) /\ UNCHANGED voided
      \/ /\ SameRequest(w) /\ planner' = [planner EXCEPT ![j].pc = "checked"]
         /\ UNCHANGED <<generations, voided>>
  BY Zenon DEF ProviderAnswers
<1>6. CASE /\ ~SameRequest(w) /\ Leaves(j) /\ voided' = voided \cup {j}
           /\ IF plans[p].exists THEN Record(j, p, "fallback", "plan_changed") ELSE UNCHANGED generations
  <2>1. \/ generations' = generations
        \/ generations' = generations \cup {FallbackRow("plan_changed")} /\ plans[p].exists
    BY <1>6 DEF Record
  <2>2. "plan_changed" \in Fallbacks
    BY DEF Fallbacks
  <2>3. \/ generations' = generations
        \/ \E h \in GenerationRow : generations' = generations \cup {h} /\ plans[h.plan].exists
    BY <1>4, <2>1, <2>2
  <2>4. voided' \subseteq Planners /\ voided \subseteq voided' /\ j \in voided'
    BY <1>0, <1>6 DEF PlanTyped
  <2> QED
    BY <1>1, <1>2, <1>6, <2>3, <2>4, CallEndsKeepsInv
<1>7. CASE SameRequest(w) /\ Leaves(j) /\ UselessAnswer(j, p) /\ UNCHANGED voided
  <2>1. "invalid_output" \in Fallbacks
    BY DEF Fallbacks
  <2>2. generations' = generations \cup {FallbackRow("invalid_output")}
    BY <1>7 DEF UselessAnswer, Record
  <2>3. FallbackRow("invalid_output").why = "invalid_output" /\ FallbackRow("invalid_output").call = j
    OBVIOUS
  <2>4. FallbackRow("invalid_output") \in Costed'
    BY <2>2, <2>3 DEF Costed
  <2>5. plans[p].exists
    BY <1>7 DEF SameRequest
  <2>6. \E h \in GenerationRow : generations' = generations \cup {h} /\ plans[h.plan].exists
    BY <1>4, <2>1, <2>2, <2>5
  <2>7. voided' \subseteq Planners /\ voided \subseteq voided'
    BY <1>0, <1>7 DEF PlanTyped
  <2>8. \E h \in Costed' : h.call = j
    BY <2>3, <2>4
  <2> QED
    BY <1>1, <1>2, <1>7, <2>6, <2>7, <2>8, CallEndsKeepsInv
<1>8. CASE /\ SameRequest(w) /\ planner' = [planner EXCEPT ![j].pc = "checked"]
           /\ UNCHANGED <<generations, voided>>
  <2> DEFINE v == [w EXCEPT !.pc = "checked"]
  <2>1. planner' = [planner EXCEPT ![j] = v]
    BY <1>8
  <2>2. w \in Planner
    BY <1>0 DEF PlanTyped
  <2>3. /\ v \in Planner /\ v.op = w.op /\ v.pc = "checked" /\ v.plan = w.plan /\ v.of = w.of
        /\ v.rows = w.rows /\ v.gone = w.gone
    BY <2>2 DEF Planner
  <2> HIDE DEF v
  <2>4. OnlyRequest(j) /\ planner'[j] = v
    BY <1>0, <1>2, <2>1, <2>3 DEF PlanTyped, OnlyRequest
  <2>5. RequestRight(j)
    BY DEF PlanInv
  <2>6. planner'[p].op = "left"
    BY <1>0, <1>2, <1>3, <2>4, <2>5 DEF RequestRight, OnlyRequest
  <2>7. plans[w.plan].of = w.of
    BY <1>8 DEF SameRequest
  <2>8. RequestRight(j)'
    BY <1>1, <1>2, <2>3, <2>4, <2>5, <2>6, <2>7 DEF RequestRight
  <2>9. PlanTyped'
    BY <1>0, <1>1, <1>8, <2>4 DEF PlanTyped, OnlyRequest, CandidateRow, ItemRow, GenerationRow, PlanIds, Planners
  <2>10. UnderWay' \subseteq UnderWay
    BY <1>2, <2>3, <2>4 DEF UnderWay, OnlyRequest
  <2>11. SpendRight'
    BY <1>1, <1>8, <2>10, SpendShrinks
  <2>12. planner'[j].op # "left"
    BY <1>2, <2>3, <2>4
  <2> QED
    BY <1>1, <1>8, <2>4, <2>8, <2>9, <2>11, <2>12, QuietKeepsInv
<1> QED
  BY <1>5, <1>6, <1>7, <1>8

LEMMA DraftRow ==
  ASSUME NEW b \in [exists : BOOLEAN, of : Payloads \cup {{}}, status : {"draft", "saved"}],
         NEW payload \in Payloads
  PROVE  LET row == [b EXCEPT !.of = payload, !.status = "draft"] IN
         /\ row \in [exists : BOOLEAN, of : Payloads \cup {{}}, status : {"draft", "saved"}]
         /\ row.of = payload /\ (row.exists <=> b.exists)
OBVIOUS

LEMMA UpdateCommitKeepsInv ==
  ASSUME PlanInv, NEW j \in Planners, UpdateCommits(j)
  PROVE  PlanInv'
<1> DEFINE w == planner[j]
<1>a. PICK p, payload, rows, gone : p = w.plan /\ payload = w.of /\ rows = w.rows /\ gone = w.gone
  OBVIOUS
<1> DEFINE kept == CandidatesOf(p) \ rows
           new == Items(p, payload, FALSE)
<1>0. PlanTyped /\ PlanIds = Planners
  BY DEF PlanInv, PlanIds
<1>1. /\ w.op = "update" /\ Leaves(j) /\ UNCHANGED <<generations, billed, voided, peak>>
      /\ IF ~plans[p].exists \/ (\E r \in kept : r.course \in payload)
         THEN UNCHANGED <<plans, candidates, items, crossed>>
         ELSE /\ plans' = [plans EXCEPT ![p] = [@ EXCEPT !.of = payload, !.status = "draft"]]
              /\ candidates' = (candidates \ rows) \cup Candidate(p, payload)
              /\ items' = (items \ gone) \cup new
              /\ crossed' = IF Writing(p) = {j} /\ CandidatesOf(p) = rows /\ ItemsOf(p) = gone
                            THEN crossed \ {p} ELSE crossed \cup {p}
  BY <1>a, Zenon DEF UpdateCommits
<1>2. /\ p \in PlanIds /\ payload \in Payloads /\ planner[p].op = "left"
      /\ \A r \in rows \cup gone : r.plan = p
  BY <1>0, <1>1, <1>a DEF PlanInv, RequestRight, PlanTyped, Planner
<1>3. j \notin billed
  BY <1>1 DEF PlanInv, RequestRight
<1>4. /\ OnlyRequest(j) /\ planner'[j] = Left /\ planner'[j].op = "left"
  BY <1>0, <1>1, LeavesOnly
<1>5. SpendRight'
  <2>1. UnderWay' \subseteq UnderWay
    BY <1>4, UnderWayStays
  <2> QED
    BY <1>1, <2>1, SpendShrinks
<1>6. RequestRight(j)'
  BY <1>4, RestRight
<1>7. CASE ~plans[p].exists \/ (\E r \in kept : r.course \in payload)
  <2>1. UNCHANGED <<plans, candidates, items, crossed>>
    BY <1>1, <1>7
  <2>2. PlanTyped'
    BY <1>0, <1>1, <1>4, <2>1 DEF PlanTyped, OnlyRequest, CandidateRow, ItemRow, GenerationRow, PlanIds, Planners
  <2> QED
    BY <1>1, <1>3, <1>4, <1>5, <1>6, <2>1, <2>2, QuietKeepsInv
<1>8. CASE ~(~plans[p].exists \/ (\E r \in kept : r.course \in payload))
  <2>0. /\ plans[p].exists
        /\ plans' = [plans EXCEPT ![p] = [@ EXCEPT !.of = payload, !.status = "draft"]]
        /\ candidates' = (candidates \ rows) \cup Candidate(p, payload)
        /\ items' = (items \ gone) \cup new
        /\ crossed' = IF Writing(p) = {j} /\ CandidatesOf(p) = rows /\ ItemsOf(p) = gone
                      THEN crossed \ {p} ELSE crossed \cup {p}
    BY <1>1, <1>8
  <2>1. /\ Candidate(p, payload) \subseteq CandidateRow /\ new \subseteq ItemRow
        /\ \A r \in Candidate(p, payload) \cup new : r.plan = p
    BY <1>2, RowsTyped
  <2> HIDE DEF new
  <2>2. /\ plans'[p].exists /\ plans'[p].of = payload
        /\ \A q \in PlanIds \ {p} : plans'[q] = plans[q]
        /\ plans' \in [PlanIds -> [exists : BOOLEAN, of : Payloads \cup {{}}, status : {"draft", "saved"}]]
    <3> DEFINE row == [plans[p] EXCEPT !.of = payload, !.status = "draft"]
    <3>0. plans[p] \in [exists : BOOLEAN, of : Payloads \cup {{}}, status : {"draft", "saved"}]
      BY <1>0, <1>2 DEF PlanTyped
    <3>1. /\ row \in [exists : BOOLEAN, of : Payloads \cup {{}}, status : {"draft", "saved"}]
          /\ row.of = payload /\ (row.exists <=> plans[p].exists)
      BY <1>2, <3>0, DraftRow
    <3>2. plans' = [plans EXCEPT ![p] = row]
      BY <2>0
    <3> HIDE DEF row
    <3> QED
      BY <1>0, <1>2, <2>0, <3>1, <3>2 DEF PlanTyped
  <2>3. /\ CandidatesOf(p)' = (CandidatesOf(p) \ rows) \cup Candidate(p, payload)
        /\ \A q : q # p => CandidatesOf(q)' = CandidatesOf(q)
    <3>1. \A r \in rows : r.plan = p
      BY <1>2
    <3>2. candidates' = (candidates \ rows) \cup Candidate(p, payload)
      BY <2>0
    <3> QED
      BY <3>1, <3>2, CandidatesAfter
  <2>4. /\ ItemsOf(p)' = (ItemsOf(p) \ gone) \cup new
        /\ \A q : q # p => ItemsOf(q)' = ItemsOf(q)
    <3>1. (\A r \in gone : r.plan = p) /\ (\A r \in new : r.plan = p)
      BY <1>2, <2>1
    <3>2. items' = (items \ gone) \cup new
      BY <2>0
    <3> QED
      BY <3>1, <3>2, ItemsAfter
  <2>5. PlanTyped'
    BY <1>0, <1>1, <1>2, <1>4, <2>0, <2>1, <2>2
       DEF PlanTyped, OnlyRequest, CandidateRow, ItemRow, GenerationRow, PlanIds, Planners
  <2>6. RowsHavePlans'
    <3>1. ASSUME NEW r \in candidates \cup items \cup generations
          PROVE  plans'[r.plan].exists
      <4>1. r.plan \in PlanIds
        BY <1>0 DEF PlanTyped, CandidateRow, ItemRow, GenerationRow
      <4>2. plans[r.plan].exists
        BY DEF PlanInv, RowsHavePlans
      <4> QED
        BY <2>2, <4>1, <4>2
    <3> QED
      BY <1>1, <2>0, <2>1, <2>2, <3>1 DEF RowsHavePlans
  <2>7. ASSUME NEW i \in Planners \ {j}
        PROVE  RequestRight(i)'
    <3>1. RequestRight(i) /\ planner'[i] = planner[i]
      BY <1>4 DEF PlanInv, OnlyRequest
    <3>2. planner[i].plan \in PlanIds
      BY <1>0 DEF PlanTyped, Planner
    <3>3. planner[planner[i].plan].op = "left" => planner'[planner[i].plan].op = "left"
      BY <1>0, <1>4, <3>2 DEF OnlyRequest
    <3>4. planner[i].pc = "checked" /\ planner[i].plan = p => p \in crossed'
      BY <2>0 DEF Writing
    <3>5. planner[i].plan # p =>
            plans'[planner[i].plan] = plans[planner[i].plan]
            /\ (planner[i].plan \in crossed' <=> planner[i].plan \in crossed)
      BY <2>0, <2>2, <3>2
    <3> QED
      BY <1>1, <3>1, <3>3, <3>4, <3>5 DEF RequestRight
  <2>8. ASSUME NEW q \in PlanIds
        PROVE  PlanRight(q)'
    <3>1. PlanRight(q) /\ (planner[q].op = "left" => planner'[q].op = "left")
      BY <1>0, <1>4 DEF PlanInv, OnlyRequest
    <3>2. CASE q = p
      <4>1. Existing(p)'
        BY <1>2, <2>2, <3>1, <3>2 DEF Existing
      <4>2. ASSUME p \notin crossed'
            PROVE  Fits1(p)'
        <5>1. CandidatesOf(p) = rows /\ ItemsOf(p) = gone
          BY <2>0, <4>2
        <5>2. CandidatesOf(p)' = Candidate(p, payload) /\ ItemsOf(p)' = Items(p, payload, FALSE)
          BY <2>3, <2>4, <5>1 DEF new
        <5> QED
          BY <2>2, <5>2 DEF Fits1
      <4> QED
        BY <3>2, <4>1, <4>2 DEF PlanRight
    <3>3. CASE q # p
      <4>1. plans'[q] = plans[q] /\ CandidatesOf(q)' = CandidatesOf(q) /\ ItemsOf(q)' = ItemsOf(q)
        BY <2>2, <2>3, <2>4, <3>3
      <4>2. Fits1(q) => Fits1(q)'
        BY <4>1 DEF Fits1
      <4>3. q \in crossed' <=> q \in crossed
        BY <2>0, <3>3
      <4> QED
        BY <3>1, <4>1, <4>2, <4>3 DEF PlanRight, Existing
    <3> QED
      BY <3>2, <3>3
  <2>9. BilledCallsCount'
    BY <1>1, <1>3, <1>4, CallsStayCounted
  <2> QED
    BY <1>5, <1>6, <2>5, <2>6, <2>7, <2>8, <2>9 DEF PlanInv
<1> QED
  BY <1>7, <1>8

LEMMA GenerationCommitKeepsInv ==
  ASSUME PlanInv, NEW j \in Planners, GenerationCommits(j)
  PROVE  PlanInv'
<1> DEFINE w == planner[j]
<1>a. PICK p, payload : p = w.plan /\ payload = w.of
  OBVIOUS
<1> DEFINE new == Items(p, payload, TRUE)
           g == [plan |-> p, status |-> "succeeded", why |-> "none", call |-> j]
<1>0. PlanTyped /\ PlanIds = Planners
  BY DEF PlanInv, PlanIds
<1>1. /\ w.pc = "checked" /\ Leaves(j) /\ UNCHANGED <<candidates, billed, peak>>
      /\ IF ~plans[p].exists
         THEN voided' = voided \cup {j} /\ UNCHANGED <<plans, items, generations, crossed>>
         ELSE /\ plans' = [plans EXCEPT ![p].status = "draft"]
              /\ items' = (items \ ItemsOf(p)) \cup new
              /\ generations' = generations \cup {g}
              /\ Crosses(j, p)
              /\ UNCHANGED voided
  BY <1>a, Zenon DEF GenerationCommits, Record
<1>2. w.op = "generate" /\ p \in PlanIds /\ payload \in Payloads /\ planner[p].op = "left"
  BY <1>0, <1>1, <1>a DEF PlanInv, RequestRight, PlanTyped, Planner
<1>3. CASE ~plans[p].exists
  <2>1. voided' = voided \cup {j} /\ UNCHANGED <<plans, items, generations, crossed>>
    BY <1>1, <1>3
  <2>2. voided' \subseteq Planners /\ voided \subseteq voided' /\ j \in voided'
    BY <1>0, <2>1 DEF PlanTyped
  <2> QED
    BY <1>1, <1>2, <2>1, <2>2, CallEndsKeepsInv
<1>4. CASE plans[p].exists
  <2>1. /\ plans' = [plans EXCEPT ![p].status = "draft"]
        /\ items' = (items \ ItemsOf(p)) \cup new
        /\ generations' = generations \cup {g}
        /\ Crosses(j, p) /\ UNCHANGED voided
    BY <1>1, <1>4
  <2>2. OnlyRequest(j) /\ planner'[j] = Left /\ planner'[j].op = "left"
    BY <1>0, <1>1, <1>2, LeavesOnly
  <2>3. new \subseteq ItemRow /\ \A r \in new : r.plan = p
    BY <1>2, RowsTyped
  <2>4. /\ g \in GenerationRow /\ g.plan = p /\ g.status = "succeeded" /\ g.call = j
    BY <1>2 DEF GenerationRow, PlanIds, Planners
  <2> HIDE DEF g, new
  <2>5. /\ plans' \in [PlanIds -> [exists : BOOLEAN, of : Payloads \cup {{}}, status : {"draft", "saved"}]]
        /\ \A q \in PlanIds : (plans'[q].exists <=> plans[q].exists) /\ plans'[q].of = plans[q].of
    BY <1>0, <1>2, <2>1 DEF PlanTyped
  <2>6. crossed \subseteq crossed' /\ crossed' \subseteq crossed \cup {p}
    BY <2>1 DEF Crosses
  <2>7. /\ ItemsOf(p)' = new
        /\ \A q : q # p => ItemsOf(q)' = ItemsOf(q)
    <3>1. \A r \in ItemsOf(p) : r.plan = p
      BY DEF ItemsOf
    <3>2. /\ ItemsOf(p)' = (ItemsOf(p) \ ItemsOf(p)) \cup new
          /\ \A q : q # p => ItemsOf(q)' = ItemsOf(q)
      BY <2>1, <2>3, <3>1, ItemsAfter
    <3> QED
      BY <3>2
  <2>8. PlanTyped'
    <3>1. items' \subseteq ItemRow /\ generations' \subseteq GenerationRow /\ crossed' \subseteq PlanIds
      BY <1>0, <1>2, <2>1, <2>3, <2>4, <2>6 DEF PlanTyped
    <3> QED
      BY <1>0, <1>1, <2>1, <2>2, <2>5, <3>1
         DEF PlanTyped, OnlyRequest, CandidateRow, ItemRow, GenerationRow, PlanIds, Planners
  <2>9. RowsHavePlans'
    <3>1. ASSUME NEW r \in candidates \cup items \cup generations
          PROVE  plans'[r.plan].exists
      <4>1. r.plan \in PlanIds
        BY <1>0 DEF PlanTyped, CandidateRow, ItemRow, GenerationRow
      <4>2. plans[r.plan].exists
        BY DEF PlanInv, RowsHavePlans
      <4> QED
        BY <2>5, <4>1, <4>2
    <3>2. plans'[p].exists
      BY <1>2, <1>4, <2>5
    <3> QED
      BY <1>1, <2>1, <2>3, <2>4, <3>1, <3>2 DEF RowsHavePlans
  <2>10. ASSUME NEW i \in Planners
         PROVE  RequestRight(i)'
    <3>1. CASE i = j
      BY <2>2, <3>1, RestRight
    <3>2. CASE i # j
      <4>1. RequestRight(i) /\ planner'[i] = planner[i]
        BY <2>2, <3>2 DEF PlanInv, OnlyRequest
      <4>2. planner[i].plan \in PlanIds
        BY <1>0 DEF PlanTyped, Planner
      <4>3. planner[planner[i].plan].op = "left" => planner'[planner[i].plan].op = "left"
        BY <1>0, <2>2, <4>2 DEF OnlyRequest
      <4>4. /\ plans'[planner[i].plan].exists <=> plans[planner[i].plan].exists
            /\ plans'[planner[i].plan].of = plans[planner[i].plan].of
        BY <2>5, <4>2
      <4> QED
        BY <1>1, <2>6, <4>1, <4>3, <4>4 DEF RequestRight
    <3> QED
      BY <3>1, <3>2
  <2>11. ASSUME NEW q \in PlanIds
         PROVE  PlanRight(q)'
    <3>1. PlanRight(q) /\ (planner[q].op = "left" => planner'[q].op = "left")
      BY <1>0, <2>2 DEF PlanInv, OnlyRequest
    <3>2. CandidatesOf(q)' = CandidatesOf(q)
      BY <1>1 DEF CandidatesOf
    <3>3. Existing(q)'
      BY <2>5, <3>1 DEF PlanRight, Existing
    <3>4. ASSUME plans'[q].exists, q \notin crossed'
          PROVE  Fits1(q)'
      <4>1. Fits1(q) /\ plans'[q].of = plans[q].of
        BY <2>5, <2>6, <3>1, <3>4 DEF PlanRight
      <4>2. CASE q # p
        <5>1. ItemsOf(q)' = ItemsOf(q)
          BY <2>7, <4>2
        <5> QED
          BY <3>2, <4>1, <5>1 DEF Fits1
      <4>3. CASE q = p
        <5>1. payload = plans[p].of
          BY <1>a, <1>1, <1>4, <2>6, <3>4, <4>3 DEF PlanInv, RequestRight
        <5>2. ItemsOf(p)' = Items(p, payload, TRUE)
          BY <2>7 DEF new
        <5> QED
          BY <3>2, <4>1, <4>3, <5>1, <5>2 DEF Fits1
      <4> QED
        BY <4>2, <4>3
    <3> QED
      BY <3>3, <3>4 DEF PlanRight
  <2>12. BilledCallsCount'
    <3>1. g \in Costed'
      BY <2>1, <2>4 DEF Costed
    <3> QED
      BY <1>1, <2>1, <2>2, <2>4, <3>1, CallsStayCounted
  <2>13. SpendRight'
    <3>1. UnderWay' = UnderWay \ {j} /\ j \in UnderWay
      BY <1>2, <2>2, UnderWayStays DEF UnderWay
    <3> QED
      BY <1>1, <2>1, <3>1, SpendMoves
  <2> QED
    BY <2>8, <2>9, <2>10, <2>11, <2>12, <2>13 DEF PlanInv
<1> QED
  BY <1>3, <1>4

-----------------------------------------------------------------------------
(* Plans: the theorems.                                                    *)

LEMMA PlanInitInv == PlanInit => PlanInv
<1> SUFFICES ASSUME PlanInit PROVE PlanInv
  OBVIOUS
<1> PlanIds = Planners
  BY DEF PlanIds
<1>1. \A j \in Planners : planner[j] = Away /\ Away \in Planner
  BY LeftTyped DEF PlanInit
<1>2. \A p \in PlanIds : ~plans[p].exists
  BY DEF PlanInit, NoPlan
<1>3. PlanTyped
  <2>1. planner \in [Planners -> Planner]
    BY <1>1 DEF PlanInit
  <2>2. plans \in [PlanIds -> [exists : BOOLEAN, of : Payloads \cup {{}}, status : {"draft", "saved"}]]
    BY DEF PlanInit, NoPlan
  <2> QED
    BY <2>1, <2>2 DEF PlanInit, PlanTyped
<1>4. \A j \in Planners : RequestRight(j)
  BY <1>1, LeftTyped DEF RequestRight, PlanInit
<1>5. \A p \in PlanIds : PlanRight(p)
  BY <1>2 DEF PlanRight, Existing
<1>6. RowsHavePlans /\ BilledCallsCount
  BY DEF PlanInit, RowsHavePlans, BilledCallsCount
<1>7. SpendRight
  <2>1. Costed = {} /\ UnderWay = {}
    BY <1>1, LeftTyped DEF PlanInit, Costed, UnderWay
  <2> QED
    BY <2>1, FS_EmptySet DEF PlanInit, SpendRight
<1> QED
  BY <1>3, <1>4, <1>5, <1>6, <1>7 DEF PlanInv

LEMMA PlanStepInv == PlanInv /\ [PlanNext]_planVars => PlanInv'
<1> SUFFICES ASSUME PlanInv, [PlanNext]_planVars PROVE PlanInv'
  OBVIOUS
<1>1. CASE UNCHANGED planVars
  BY <1>1 DEF planVars, PlanInv, PlanTyped, RowsHavePlans, RequestRight, PlanRight, Existing, Fits1,
              BilledCallsCount, SpendRight, MonthlyCost, Costed, UnderWay, CandidatesOf, ItemsOf
<1>2. ASSUME NEW j \in Planners, PlanStep(j)
      PROVE  PlanInv'
  BY <1>2, CreateKeepsInv, UpdateKeepsInv, UpdateCommitKeepsInv, SaveKeepsInv, DeleteKeepsInv,
     BeginKeepsInv, FailureKeepsInv, AnswerKeepsInv, GenerationCommitKeepsInv DEF PlanStep
<1> QED
  BY <1>1, <1>2 DEF PlanNext

\* What the invariant says of plans and of their cost.
LEMMA PlanInvImplies == PlanInv => PlanTypeOK /\ ItineraryFitsPlan /\ PlanSpendHolds
<1> SUFFICES ASSUME PlanInv PROVE PlanTypeOK /\ ItineraryFitsPlan /\ PlanSpendHolds
  OBVIOUS
<1>1. PlanTypeOK
  BY DEF PlanInv, PlanTyped, RowsHavePlans, PlanTypeOK
<1>2. ItineraryFitsPlan
  BY DEF PlanInv, PlanRight, Fits1, ItineraryFitsPlan
<1>3. OvershootBounded
  <2>1. SpendRight /\ peak \in Nat
    BY DEF PlanInv, PlanTyped
  <2>2. CASE peak = 0
    BY <2>1, <2>2, FS_EmptySet DEF SpendRight, OvershootBounded, MonthlyCost
  <2>3. CASE peak # 0
    <3>1. MonthlyCost \in Nat
      BY <2>1, CostsFinite DEF SpendRight
    <3>2. UnderWay \subseteq Planners
      BY DEF UnderWay
    <3>3. Cardinality(UnderWay) \in Nat
      BY <3>2, PlannersFinite
    <3> QED
      BY <2>1, <2>3, <3>1, <3>3, PlannersFinite DEF SpendRight, OvershootBounded
  <2> QED
    BY <2>2, <2>3
<1> QED
  BY <1>1, <1>2, <1>3 DEF PlanInv, PlanSpendHolds

LEMMA PlanInvariant == PlanSpec => []PlanInv
<1> QED
  BY PlanInitInv, PlanStepInv, PTL DEF PlanSpec

\* Deleting a plan leaves no row of it behind, and no request writes a row of a plan that is
\* gone, however the two cross (plans.py: delete_plan, _replace_plan_data, ai_generate_plan).
THEOREM PlanTypeCorrect == PlanSpec => []PlanTypeOK
<1> QED
  BY PlanInvariant, PlanInvImplies, PTL

\* For every set of payloads and any number of requests: what the provider answered is only
\* written while the plan asks for what it was asked for, so that candidates and itinerary are
\* those of the plan (plans.py: ai_generate_plan after the call, _replace_plan_data).
THEOREM ItineraryAlwaysFits == PlanSpec => []ItineraryFitsPlan
<1> QED
  BY PlanInvariant, PlanInvImplies, PTL

\* Every billed call counts against the month unless its answer could not be read or its plan
\* changed or went away, and what is recorded exceeds the limit by less than the calls that were
\* under way together (plans.py: the cost check of ai_generate_plan, which is a read before the
\* call; planner_narrative.py: the answers that carry no cost).
THEOREM PlanSpendAlwaysHolds == PlanSpec => []PlanSpendHolds
<1> QED
  BY PlanInvariant, PlanInvImplies, PTL
-----------------------------------------------------------------------------
(* Featured: the inductive invariant.                                      *)

PickRow == [user : FeaturedUsers, seq : 1..LastSequence, course : Catalogue,
            dismissed : BOOLEAN, cost : 0..FeaturedRequests]
AskRow == [kind : {"none", "get", "dismiss"}, user : FeaturedUsers \cup {"none"},
           worker : Workers \cup {"none"}, pc : Synchronous \cup {"away", "queued", "calling", "left"},
           epoch : Nat, course : Catalogue \cup {"none"}, seen : Nat, seq : 0..LastSequence,
           reserved : BOOLEAN]

FeaturedTyped ==
  /\ deployed \in Deployments /\ budgetIn \in {"redis", "process"}
  /\ members \subseteq FeaturedUsers /\ erased \in Nat
  /\ picks \subseteq PickRow /\ IsFiniteSet(picks)
  /\ inflight \in [Workers \cup {"redis"} -> Nat] /\ epoch \in [Workers -> Nat]
  /\ asks \in [Asks -> AskRow] /\ paidFor \subseteq Asks

Choosing == {"reserving", "calling", "inserting"}    \* a course is chosen, and not yet stored
IsDismissing(a, u) == a.kind = "dismiss" /\ a.user = u /\ a.pc \in Choosing

\* A request by itself: what it holds and has paid at each of its steps.
AskAlone(a, paid) ==
  /\ a.pc \notin {"away", "left"} => a.worker \in deployed /\ a.user \in FeaturedUsers
  /\ a.pc \in {"away", "left", "queued", "locking", "reserving"} => ~a.reserved
  /\ a.pc \in {"away", "queued", "locking", "reserving", "calling"} => ~paid
  /\ a.pc = "calling" \/ (paid /\ a.pc # "left") => a.reserved
  /\ a.pc = "queued" => a.kind = "get"
  /\ a.pc = "locking" => a.kind = "dismiss"
  /\ a.pc \in Choosing => a.course \in Catalogue /\ a.kind \in {"get", "dismiss"} /\ a.seq # 0
  /\ a.pc \in Choosing /\ a.kind = "get" => a.seq = 1
  /\ a.pc \in {"folding", "waiting"} => paid

\* A dismissal follows the pick on show, with a course that is new while there is one.
Follows(a) ==
  /\ \E p \in Active(a.user) : a.seq = p.seq + 1
  /\ a.course \in FeaturedThisWeek(a.user) => FeaturedThisWeek(a.user) = Catalogue
AskRight(j) ==
  LET a == asks[j] IN
  /\ AskAlone(a, j \in paidFor)
  /\ IsDismissing(a, a.user) => Follows(a)
  /\ a.pc \in {"folding", "waiting"} /\ a.user \in members => \E p \in picks : p.user = a.user

OneDismisses ==
  \A i, j \in Asks : asks[i].user = asks[j].user
                     /\ IsDismissing(asks[i], asks[i].user) /\ IsDismissing(asks[j], asks[j].user) => i = j
OneRuns ==
  \A i, j \in Asks : i # j /\ asks[i].pc \in Synchronous /\ asks[j].pc \in Synchronous
                     => asks[i].worker # asks[j].worker

\* The picks of a user's week are numbered up to n, and the n-th alone is on show.
WeekUpTo(u, n) ==
  /\ \A k \in 1..n : \E p \in picks : p.user = u /\ p.seq = k
  /\ \A p \in picks : p.user = u => p.seq <= n /\ (p.dismissed <=> p.seq < n)
OnePerNumber == \A p, q \in picks : p.user = q.user /\ p.seq = q.seq => p = q
WeeksRight ==
  /\ OnePerNumber /\ NoRepeatInWeek
  /\ \A u \in FeaturedUsers : \E n \in 0..LastSequence : WeekUpTo(u, n)

Reserved == {j \in Asks : asks[j].reserved}
ReservedBy(w) == {j \in Asks : asks[j].reserved /\ asks[j].worker = w}
PaidAndLeft == {j \in paidFor : asks[j].pc = "left"}

\* A counter has at least the reservations that are held.
CountersRight ==
  /\ budgetIn = "process" => \A w \in Workers : inflight[w] = Cardinality(ReservedBy(w))
  /\ budgetIn = "redis" => inflight["redis"] >= Cardinality(Reserved)

\* A cost that has to wait for a dismissal is never recorded by one worker, which is stuck with
\* both requests; what is recorded and what is reserved stay within the limit together.  An
\* account deleted after the cost was read lowers what is recorded.
CostsRight ==
  /\ Recorded + erased <= Cardinality(PaidAndLeft)
  /\ OneWorker =>
       /\ Recorded + erased = Cardinality(PaidAndLeft)
       /\ Recorded + Cardinality(Reserved) <= SpendLimit
       /\ \A j \in Asks : asks[j].pc = "reserving" => asks[j].seen >= Recorded
       /\ \A j \in Asks : asks[j].pc = "waiting" =>
            \E i \in Asks : IsDismissing(asks[i], asks[j].user) /\ asks[i].pc = "calling"

FeaturedInv ==
  /\ FeaturedTyped
  /\ \A j \in Asks : AskRight(j)
  /\ OneDismisses /\ OneRuns /\ WeeksRight /\ CountersRight /\ CostsRight

-----------------------------------------------------------------------------
(* Featured: weeks and recorded costs.                                     *)

LEMMA FeaturedConstants ==
  /\ LastSequence \in Nat /\ LastSequence > 0 /\ SpendLimit \in Nat /\ FeaturedRequests \in Nat
  /\ Local \subseteq Catalogue /\ InState \subseteq Catalogue /\ Catalogue # {}
  /\ IsFiniteSet(Asks) /\ \A S \in SUBSET Asks : IsFiniteSet(S) /\ Cardinality(S) \in Nat
<1>1. /\ LastSequence \in Nat /\ LastSequence > 0 /\ SpendLimit \in Nat /\ FeaturedRequests \in Nat
      /\ Local \subseteq Catalogue /\ InState \subseteq Catalogue /\ Catalogue # {}
  BY FeaturedAssumption
<1>2. IsFiniteSet(Asks)
  BY <1>1, FS_Interval DEF Asks
<1> QED
  BY <1>1, <1>2, FS_Subset, FS_CardinalityType

\* One worker is the worker of every request.
LEMMA TheWorker ==
  ASSUME deployed \in Deployments, OneWorker
  PROVE  \E w \in Workers : deployed = {w}
<1>1. deployed \subseteq Workers /\ IsFiniteSet(Workers)
  BY FeaturedAssumption
<1>2. IsFiniteSet(deployed)
  BY <1>1, FS_Subset
<1> QED
  BY <1>1, <1>2, FS_Singleton DEF OneWorker

LEMMA OnShow ==
  ASSUME FeaturedTyped, OnePerNumber, NEW u, NEW n \in 0..LastSequence, WeekUpTo(u, n)
  PROVE  /\ n = 0 => \A p \in picks : p.user # u
         /\ n = 0 <=> Active(u) = {}
         /\ \A p \in Active(u) : p.seq = n /\ Active(u) = {p}
         /\ \A p \in picks : p.user = u => p.seq \in 1..n
<1>1. \A p \in picks : p.seq \in 1..LastSequence
  BY DEF FeaturedTyped, PickRow
<1>2. \A p \in picks : p.user = u => p.seq \in 1..n
  BY <1>1, FeaturedConstants DEF WeekUpTo
<1>3. \A p \in Active(u) : p \in picks /\ p.user = u /\ p.seq = n
  BY <1>2 DEF Active, WeekUpTo
<1>4. \A p \in Active(u) : Active(u) = {p}
  BY <1>3 DEF OnePerNumber
<1>5. ASSUME n # 0
      PROVE  Active(u) # {}
  <2>1. PICK p \in picks : p.user = u /\ p.seq = n
    BY <1>5 DEF WeekUpTo
  <2>2. ~p.dismissed
    BY <2>1 DEF WeekUpTo
  <2> QED
    BY <2>1, <2>2 DEF Active
<1>6. n = 0 => Active(u) = {} /\ \A p \in picks : p.user # u
  BY <1>2 DEF Active
<1> QED
  BY <1>2, <1>3, <1>4, <1>5, <1>6

\* A user with picks has exactly one on show.
LEMMA OneOnShow ==
  ASSUME FeaturedTyped, WeeksRight, NEW u \in FeaturedUsers
  PROVE  /\ \A p \in Active(u) : Active(u) = {p}
         /\ Active(u) = {} <=> \A p \in picks : p.user # u
         /\ Active(u) = {} <=> ~\E p \in picks : p.user = u /\ p.seq = 1
<1>1. PICK n \in 0..LastSequence : WeekUpTo(u, n)
  BY DEF WeeksRight
<1>2. OnePerNumber
  BY DEF WeeksRight
<1>3. n = 0 \/ \E p \in picks : p.user = u /\ p.seq = 1
  BY <1>1 DEF WeekUpTo
<1> QED
  BY <1>1, <1>2, <1>3, OnShow DEF Active

LEMMA WeeksInOrder ==
  ASSUME FeaturedTyped, WeeksRight
  PROVE  WeekInOrder
<1> SUFFICES ASSUME NEW u \in FeaturedUsers
             PROVE  LET mine == {p \in picks : p.user = u} IN
                    /\ {p.seq : p \in mine} = 1..Cardinality(mine)
                    /\ Cardinality(mine) <= LastSequence
                    /\ \A p \in mine : p.dismissed <=> p.seq < Cardinality(mine)
  BY DEF WeekInOrder
<1> DEFINE mine == {p \in picks : p.user = u}
<1>1. PICK n \in 0..LastSequence : WeekUpTo(u, n)
  BY DEF WeeksRight
<1>2. OnePerNumber
  BY DEF WeeksRight
<1>3. \A p \in mine : p.seq \in 1..n /\ (p.dismissed <=> p.seq < n)
  BY <1>1, <1>2, OnShow DEF WeekUpTo
<1>4. \A k \in 1..n : \E p \in mine : p.seq = k
  BY <1>1 DEF WeekUpTo
<1>5. \A p, q \in mine : p.seq = q.seq => p = q
  BY <1>2 DEF OnePerNumber
<1> HIDE DEF mine
<1> DEFINE f == [k \in 1..n |-> CHOOSE p \in mine : p.seq = k]
<1>6. \A k \in 1..n : f[k] \in mine /\ f[k].seq = k
  BY <1>4
<1>7. f \in [1..n -> mine]
  BY <1>6
<1> HIDE DEF f
<1>8. f \in Bijection(1..n, mine)
  <2>1. \A k, l \in 1..n : f[k] = f[l] => k = l
    BY <1>6
  <2>2. \A p \in mine : \E k \in 1..n : f[k] = p
    BY <1>3, <1>5, <1>6
  <2> QED
    BY <1>7, <2>1, <2>2 DEF Bijection, Injection, Surjection, IsInjective
<1>9. n \in Nat /\ IsFiniteSet(1..n) /\ Cardinality(1..n) = n
  BY FeaturedConstants, FS_Interval
<1>10. Cardinality(mine) = n
  BY <1>8, <1>9, FS_Bijection DEF ExistsBijection
<1>11. {p.seq : p \in mine} = 1..n
  BY <1>3, <1>4
<1>12. /\ {p.seq : p \in mine} = 1..Cardinality(mine)
       /\ Cardinality(mine) <= LastSequence
       /\ \A p \in mine : p.dismissed <=> p.seq < Cardinality(mine)
  BY <1>3, <1>9, <1>10, <1>11
<1> QED
  BY <1>12, Zenon DEF mine

\* The rows whose number is the recorded cost of a set of picks.
Units(P) == {x \in P \X Asks : x[2] <= x[1].cost}

LEMMA UnitsFinite ==
  ASSUME NEW P, IsFiniteSet(P)
  PROVE  IsFiniteSet(Units(P)) /\ Cardinality(Units(P)) \in Nat
<1>1. IsFiniteSet(P \X Asks) /\ Units(P) \subseteq P \X Asks
  BY FeaturedConstants, FS_Product DEF Units
<1> QED
  BY <1>1, FS_Subset, FS_CardinalityType

LEMMA UpTo ==
  ASSUME NEW c \in Nat
  PROVE  IsFiniteSet(1..c) /\ Cardinality(1..c) = c
BY FS_Interval

LEMMA UnitsOfOne ==
  ASSUME NEW p \in PickRow
  PROVE  IsFiniteSet(Units({p})) /\ Cardinality(Units({p})) = p.cost
<1>1. p.cost \in 0..FeaturedRequests /\ FeaturedRequests \in Nat
  BY FeaturedConstants DEF PickRow
<1> DEFINE f == [n \in 1..p.cost |-> <<p, n>>]
<1>2. f \in Bijection(1..p.cost, Units({p}))
  <2>1. \A n \in 1..p.cost : <<p, n>> \in Units({p})
    BY <1>1 DEF Units, Asks
  <2>2. \A x \in Units({p}) : \E n \in 1..p.cost : x = <<p, n>>
    BY <1>1 DEF Units, Asks
  <2>3. f \in [1..p.cost -> Units({p})]
    BY <2>1
  <2>4. \A m, n \in 1..p.cost : f[m] = f[n] => m = n
    OBVIOUS
  <2>5. \A x \in Units({p}) : \E n \in 1..p.cost : f[n] = x
    BY <2>2
  <2> QED
    BY <2>3, <2>4, <2>5 DEF Bijection, Injection, Surjection, IsInjective
<1>3. IsFiniteSet(1..p.cost) /\ Cardinality(1..p.cost) = p.cost
  <2>1. p.cost \in Nat
    BY <1>1
  <2> QED
    BY <2>1, UpTo
<1> QED
  BY <1>2, <1>3, FS_Bijection DEF ExistsBijection

LEMMA UnitsPlus ==
  ASSUME NEW P, IsFiniteSet(P), NEW p \in PickRow, p \notin P
  PROVE  Cardinality(Units(P \cup {p})) = Cardinality(Units(P)) + p.cost
<1>1. IsFiniteSet(Units(P)) /\ Cardinality(Units(P)) \in Nat
  BY UnitsFinite
<1>2. IsFiniteSet(Units({p})) /\ Cardinality(Units({p})) = p.cost /\ p.cost \in Nat
  BY UnitsOfOne, FeaturedConstants DEF PickRow
<1>3. Units(P \cup {p}) = Units(P) \cup Units({p})
  BY DEF Units
<1>4. Units(P) \cap Units({p}) = {}
  BY DEF Units
<1>5. Cardinality(Units(P) \cup Units({p}))
        = Cardinality(Units(P)) + Cardinality(Units({p})) - Cardinality(Units(P) \cap Units({p}))
  BY <1>1, <1>2, FS_Union
<1>6. Cardinality(Units(P) \cap Units({p})) = 0
  BY <1>4, FS_EmptySet
<1>7. Cardinality(Units(P \cup {p})) = Cardinality(Units(P)) + Cardinality(Units({p})) - 0
  BY <1>3, <1>5, <1>6
<1> QED
  BY <1>1, <1>2, <1>7

\* Replacing a pick changes what is recorded by the difference of the costs.
LEMMA UnitsReplaced ==
  ASSUME NEW P, IsFiniteSet(P), NEW p \in P, p \in PickRow, NEW q \in PickRow, q \notin P \ {p}
  PROVE  /\ Cardinality(Units((P \ {p}) \cup {q})) = Cardinality(Units(P)) - p.cost + q.cost
         /\ p.cost <= Cardinality(Units(P))
         /\ IsFiniteSet((P \ {p}) \cup {q})
<1>1. IsFiniteSet(P \ {p}) /\ IsFiniteSet((P \ {p}) \cup {q})
  BY FS_RemoveElement, FS_AddElement
<1>2. p.cost \in Nat /\ q.cost \in Nat
  BY FeaturedConstants DEF PickRow
<1>3. Cardinality(Units(P \ {p})) \in Nat
  BY <1>1, UnitsFinite
<1>4. Cardinality(Units((P \ {p}) \cup {p})) = Cardinality(Units(P \ {p})) + p.cost
  BY <1>1, UnitsPlus
<1>5. (P \ {p}) \cup {p} = P
  OBVIOUS
<1>6. Cardinality(Units((P \ {p}) \cup {q})) = Cardinality(Units(P \ {p})) + q.cost
  BY <1>1, UnitsPlus
<1>7. Cardinality(Units(P)) = Cardinality(Units(P \ {p})) + p.cost
  BY <1>4, <1>5
<1> QED
  BY <1>1, <1>2, <1>3, <1>6, <1>7

LEMMA RecordedUnits ==
  ASSUME FeaturedTyped
  PROVE  Recorded = Cardinality(Units(picks)) /\ Recorded \in Nat
<1>1. Recorded = Cardinality(Units(picks))
  BY DEF Recorded, CostOf, Units
<1> QED
  BY <1>1, UnitsFinite DEF FeaturedTyped

-----------------------------------------------------------------------------
(* Featured: what a step of one request leaves right.                      *)

OnlyAsk(j) ==
  /\ asks' \in [Asks -> AskRow] /\ UNCHANGED <<deployed, budgetIn, members>>
  /\ \A i \in Asks \ {j} : asks'[i] = asks[i]
\* Where the request goes, its worker runs nothing else and nobody else dismisses the user's pick.
RunsThere(j) ==
  asks'[j].pc \in Synchronous =>
    \A i \in Asks \ {j} : asks[i].pc \in Synchronous => asks[i].worker # asks'[j].worker
DismissesThere(j) ==
  IsDismissing(asks'[j], asks'[j].user) => \A i \in Asks \ {j} : ~IsDismissing(asks[i], asks'[j].user)

LEMMA OneStillRuns ==
  ASSUME OneRuns, OneDismisses, NEW j \in Asks, OnlyAsk(j), RunsThere(j), DismissesThere(j)
  PROVE  OneRuns' /\ OneDismisses'
<1>1. OneRuns'
  BY DEF OneRuns, OnlyAsk, RunsThere
<1>2. ASSUME NEW i \in Asks, NEW k \in Asks, (asks[i].user = asks[k].user)',
             IsDismissing(asks[i], asks[i].user)', IsDismissing(asks[k], asks[k].user)', i # k
      PROVE  FALSE
  <2>1. CASE i # j /\ k # j
    BY <1>2, <2>1 DEF OneDismisses, OnlyAsk, IsDismissing
  <2>2. CASE i = j
    BY <1>2, <2>2 DEF DismissesThere, OnlyAsk, IsDismissing
  <2>3. CASE k = j
    BY <1>2, <2>3 DEF DismissesThere, OnlyAsk, IsDismissing
  <2> QED
    BY <2>1, <2>2, <2>3
<1>3. OneDismisses'
  BY <1>2 DEF OneDismisses
<1> QED
  BY <1>1, <1>3

\* On one worker a request that is not suspended is the only one.
LEMMA Solo ==
  ASSUME FeaturedInv, OneWorker, NEW j \in Asks, asks[j].pc \notin {"away", "left"},
         asks[j].pc \in Synchronous \/ Runs(j)
  PROVE  \A i \in Asks \ {j} : asks[i].pc \notin Synchronous
<1>1. PICK w \in Workers : deployed = {w}
  BY TheWorker DEF FeaturedInv, FeaturedTyped
<1>2. asks[j].worker = w
  BY <1>1 DEF FeaturedInv, AskRight, AskAlone
<1>3. \A i \in Asks : asks[i].pc \in Synchronous => asks[i].worker = w
  <2>1. \A i \in Asks : asks[i].pc \in Synchronous => asks[i].pc \notin {"away", "left"}
    BY DEF Synchronous
  <2> QED
    BY <1>1, <2>1 DEF FeaturedInv, AskRight, AskAlone
<1> QED
  BY <1>2, <1>3 DEF FeaturedInv, OneRuns, Runs

LEMMA PicksStayRight ==
  ASSUME FeaturedInv, NEW j \in Asks, OnlyAsk(j), picks' = picks, paidFor' \ {j} = paidFor \ {j}
  PROVE  /\ \A i \in Asks \ {j} : AskRight(i)'
         /\ WeeksRight' /\ Recorded' = Recorded
<1>1. \A u : Active(u)' = Active(u) /\ FeaturedThisWeek(u)' = FeaturedThisWeek(u)
  BY DEF Active, FeaturedThisWeek
<1>2. ASSUME NEW i \in Asks \ {j}
      PROVE  AskRight(i)'
  <2>1. AskRight(i) /\ asks'[i] = asks[i] /\ (i \in paidFor' <=> i \in paidFor) /\ deployed' = deployed
         /\ members' = members
    BY DEF FeaturedInv, OnlyAsk
  <2>2. AskAlone(asks[i], i \in paidFor)'
    BY <2>1 DEF AskRight, AskAlone
  <2>3. (IsDismissing(asks[i], asks[i].user) => Follows(asks[i]))'
    BY <1>1, <2>1 DEF AskRight, IsDismissing, Follows
  <2> QED
    BY <2>1, <2>2, <2>3 DEF AskRight
<1>3. WeeksRight'
  BY DEF FeaturedInv, WeeksRight, OnePerNumber, NoRepeatInWeek, WeekUpTo
<1>4. Recorded' = Recorded
  BY DEF Recorded, CostOf
<1> QED
  BY <1>2, <1>3, <1>4

\* A counter may get ahead of the reservations: the reply of Redis was lost.
LEMMA AskMovesOn ==
  ASSUME FeaturedInv, NEW j \in Asks, OnlyAsk(j), UNCHANGED <<picks, epoch, erased>>,
         inflight' \in [Workers \cup {"redis"} -> Nat],
         inflight' = inflight \/ (budgetIn = "redis" /\ inflight'["redis"] >= inflight["redis"]),
         asks[j].pc # "left", paidFor \subseteq paidFor', paidFor' \subseteq paidFor \cup {j},
         j \in paidFor' => asks'[j].pc # "left",
         asks'[j].reserved <=> asks[j].reserved, asks[j].reserved => asks'[j].worker = asks[j].worker,
         AskRight(j)', RunsThere(j), DismissesThere(j),
         asks[j].pc = "calling" => Runs(j),
         asks'[j].pc = "reserving" => asks'[j].seen = Recorded,
         OneWorker /\ asks'[j].pc = "waiting" =>
           \E i \in Asks \ {j} : IsDismissing(asks[i], asks'[j].user) /\ asks[i].pc = "calling"
  PROVE  FeaturedInv'
<1>0. FeaturedTyped /\ OneRuns /\ OneDismisses /\ CountersRight /\ CostsRight
  BY DEF FeaturedInv
<1>1. /\ \A i \in Asks \ {j} : AskRight(i)'
      /\ WeeksRight' /\ Recorded' = Recorded
  BY PicksStayRight
<1>2. OneRuns' /\ OneDismisses'
  BY <1>0, OneStillRuns
<1>3. FeaturedTyped'
  BY <1>0 DEF FeaturedTyped, OnlyAsk, PickRow, AskRow, Asks, Synchronous
<1>4. Reserved' = Reserved /\ \A w \in Workers : ReservedBy(w)' = ReservedBy(w)
  BY DEF Reserved, ReservedBy, OnlyAsk
<1>5. CountersRight'
  <2>1. IsFiniteSet(Reserved) /\ Cardinality(Reserved) \in Nat
    BY FeaturedConstants DEF Reserved
  <2>2. inflight["redis"] \in Nat /\ inflight'["redis"] \in Nat
    BY <1>0 DEF FeaturedTyped
  <2>3. budgetIn # "redis" => inflight' = inflight
    OBVIOUS
  <2>4. budgetIn = "redis" => inflight'["redis"] >= Cardinality(Reserved)
    BY <1>0, <2>1, <2>2 DEF CountersRight
  <2> QED
    BY <1>0, <1>4, <2>3, <2>4 DEF CountersRight, OnlyAsk
<1>6. PaidAndLeft' = PaidAndLeft
  <2>1. paidFor \subseteq Asks /\ paidFor' \subseteq Asks
    BY <1>0, <1>3 DEF FeaturedTyped
  <2> QED
    BY <2>1 DEF PaidAndLeft, OnlyAsk
<1>7. CostsRight'
  <2>1. OneWorker' <=> OneWorker
    BY DEF OneWorker, OnlyAsk
  <2>2. OneWorker => \A i \in Asks : asks'[i].pc = "reserving" => asks'[i].seen >= Recorded
    <3>1. Recorded \in Nat
      BY <1>0, RecordedUnits
    <3> QED
      BY <1>0, <3>1 DEF CostsRight, OnlyAsk
  <2>3. ASSUME OneWorker, NEW i \in Asks, asks'[i].pc = "waiting"
        PROVE  \E k \in Asks : IsDismissing(asks'[k], asks'[i].user) /\ asks'[k].pc = "calling"
    <3>1. CASE i = j
      BY <2>3, <3>1 DEF OnlyAsk
    <3>2. CASE i # j
      <4>1. PICK k \in Asks : IsDismissing(asks[k], asks[i].user) /\ asks[k].pc = "calling"
        BY <1>0, <2>3, <3>2 DEF CostsRight, OnlyAsk
      <4>2. k # j
        <5>1. SUFFICES ASSUME k = j PROVE FALSE
          OBVIOUS
        <5>2. Runs(j) /\ asks[j].pc \notin {"away", "left"}
          BY <4>1, <5>1
        <5>3. asks[i].pc \notin Synchronous
          BY <2>3, <3>2, <5>2, Solo
        <5> QED
          BY <2>3, <3>2, <5>3 DEF OnlyAsk, Synchronous
      <4> QED
        BY <3>2, <4>1, <4>2 DEF OnlyAsk
    <3> QED
      BY <3>1, <3>2
  <2> QED
    BY <1>0, <1>1, <1>4, <1>6, <2>1, <2>2, <2>3 DEF CostsRight
<1> QED
  BY <1>1, <1>2, <1>3, <1>5, <1>7 DEF FeaturedInv

LEMMA AskMoves ==
  ASSUME FeaturedInv, NEW j \in Asks, OnlyAsk(j), UNCHANGED <<picks, inflight, epoch, erased>>,
         asks[j].pc # "left", paidFor \subseteq paidFor', paidFor' \subseteq paidFor \cup {j},
         j \in paidFor' => asks'[j].pc # "left",
         asks'[j].reserved <=> asks[j].reserved, asks[j].reserved => asks'[j].worker = asks[j].worker,
         AskRight(j)', RunsThere(j), DismissesThere(j),
         asks[j].pc = "calling" => Runs(j),
         asks'[j].pc = "reserving" => asks'[j].seen = Recorded,
         OneWorker /\ asks'[j].pc = "waiting" =>
           \E i \in Asks \ {j} : IsDismissing(asks[i], asks'[j].user) /\ asks[i].pc = "calling"
  PROVE  FeaturedInv'
<1>1. inflight' \in [Workers \cup {"redis"} -> Nat]
  BY DEF FeaturedInv, FeaturedTyped
<1> QED
  BY <1>1, AskMovesOn

LEMMA IdleTyped ==
  /\ Idle \in AskRow /\ ~Idle.reserved /\ Idle.pc = "away" /\ Idle.kind = "none"
  /\ [Idle EXCEPT !.pc = "left"] \in AskRow
  /\ [Idle EXCEPT !.pc = "left"].pc = "left" /\ ~[Idle EXCEPT !.pc = "left"].reserved
  /\ [Idle EXCEPT !.pc = "left"].kind = "none"
<1>1. 0 \in 0..LastSequence
  BY FeaturedConstants
<1> QED
  BY <1>1 DEF Idle, AskRow, Synchronous

LEMMA LeaveIs ==
  ASSUME FeaturedTyped, NEW j \in Asks, Leave(j), UNCHANGED <<deployed, budgetIn, members>>
  PROVE  /\ OnlyAsk(j) /\ asks'[j].pc = "left" /\ ~asks'[j].reserved /\ asks'[j].kind = "none"
         /\ AskRight(j)' /\ RunsThere(j) /\ DismissesThere(j)
<1> DEFINE a == [Idle EXCEPT !.pc = "left"]
<1>1. a \in AskRow /\ a.pc = "left" /\ ~a.reserved /\ a.kind = "none"
  BY IdleTyped
<1>2. asks' = [asks EXCEPT ![j] = a]
  BY DEF Leave
<1> HIDE DEF a
<1>3. OnlyAsk(j) /\ asks'[j] = a
  BY <1>1, <1>2 DEF OnlyAsk, FeaturedTyped
<1>4. a.pc \notin Synchronous /\ a.pc \notin Choosing
  BY <1>1 DEF Synchronous, Choosing
<1> QED
  BY <1>1, <1>3, <1>4 DEF AskRight, AskAlone, IsDismissing, RunsThere, DismissesThere

\* A request that has reserved nothing leaves.
LEMMA LeavesQuietly ==
  ASSUME FeaturedInv, NEW j \in Asks, Leave(j), UNCHANGED <<deployed, budgetIn, members, erased, picks, inflight, epoch, paidFor>>,
         asks[j].pc \in {"away", "queued", "locking"}
  PROVE  FeaturedInv'
<1>1. FeaturedTyped /\ AskRight(j)
  BY DEF FeaturedInv
<1>2. /\ OnlyAsk(j) /\ asks'[j].pc = "left" /\ ~asks'[j].reserved /\ asks'[j].kind = "none"
      /\ AskRight(j)' /\ RunsThere(j) /\ DismissesThere(j)
  BY <1>1, LeaveIs
<1>3. ~asks[j].reserved /\ j \notin paidFor
  BY <1>1 DEF AskRight, AskAlone
<1> QED
  BY <1>2, <1>3, AskMoves

-----------------------------------------------------------------------------
(* Featured: the steps of a request up to its call.                        *)

LEMMA ChoiceLemma ==
  ASSUME FeaturedTyped, NEW u, NEW c \in Candidates(u)
  PROVE  c \in Catalogue /\ (c \in FeaturedThisWeek(u) => FeaturedThisWeek(u) = Catalogue)
<1>1. FeaturedThisWeek(u) \subseteq Catalogue
  BY DEF FeaturedTyped, PickRow, FeaturedThisWeek
<1> DEFINE shown == FeaturedThisWeek(u)
           local == Local \ (playedBy[u] \cup shown)
           state == InState \ (playedBy[u] \cup shown)
           any == Catalogue \ shown
<1>2. c \in (IF local # {} THEN local ELSE IF state # {} THEN state ELSE IF any # {} THEN any ELSE Catalogue)
  BY Zenon DEF Candidates
<1>3. Local \subseteq Catalogue /\ InState \subseteq Catalogue
  BY FeaturedConstants
<1> HIDE DEF shown
<1>4. c \in Catalogue /\ (c \notin shown \/ any = {})
  BY <1>2, <1>3
<1> QED
  BY <1>1, <1>4 DEF shown

LEMMA NobodyDismisses ==
  ASSUME NEW u, Dismissing(u) = {}
  PROVE  \A i \in Asks : ~IsDismissing(asks[i], u)
BY DEF Dismissing, IsDismissing, Choosing

LEMMA GetArrivesKeepsInv ==
  ASSUME FeaturedInv, NEW j \in Asks, GetArrives(j)
  PROVE  FeaturedInv'
<1>0. FeaturedTyped /\ UNCHANGED <<deployed, budgetIn, members, erased, picks, inflight, epoch, paidFor>>
  BY DEF FeaturedInv, GetArrives
<1>1. PICK w \in Workers, u \in members :
        /\ Arrives(j, w)
        /\ IF Active(u) # {} THEN Leave(j)
           ELSE asks' = [asks EXCEPT ![j] = [Idle EXCEPT !.kind = "get", !.user = u, !.worker = w,
                                             !.pc = "queued", !.epoch = epoch[w]]]
  BY DEF GetArrives
<1>2. asks[j].pc = "away" /\ ~asks[j].reserved /\ w \in deployed /\ u \in FeaturedUsers
  BY <1>0, <1>1, IdleTyped DEF Arrives, FeaturedTyped
<1>3. CASE Leave(j)
  BY <1>0, <1>2, <1>3, LeavesQuietly
<1>4. CASE asks' = [asks EXCEPT ![j] = [Idle EXCEPT !.kind = "get", !.user = u, !.worker = w,
                                        !.pc = "queued", !.epoch = epoch[w]]]
  <2> DEFINE a == [Idle EXCEPT !.kind = "get", !.user = u, !.worker = w, !.pc = "queued", !.epoch = epoch[w]]
  <2>1. epoch[w] \in Nat
    BY <1>0 DEF FeaturedTyped
  <2>2. /\ a \in AskRow /\ a.pc = "queued" /\ a.kind = "get" /\ a.user = u /\ a.worker = w /\ ~a.reserved
    BY <1>2, <2>1, IdleTyped DEF AskRow, Idle
  <2>3. asks' = [asks EXCEPT ![j] = a]
    BY <1>4
  <2> HIDE DEF a
  <2>4. OnlyAsk(j) /\ asks'[j] = a
    BY <1>0, <2>2, <2>3 DEF OnlyAsk, FeaturedTyped
  <2>5. j \notin paidFor
    BY <1>2 DEF FeaturedInv, AskRight, AskAlone
  <2>6. AskRight(j)'
    BY <1>0, <1>2, <2>2, <2>4, <2>5 DEF AskRight, AskAlone, IsDismissing, Choosing
  <2>7. RunsThere(j) /\ DismissesThere(j)
    BY <2>2, <2>4 DEF RunsThere, DismissesThere, IsDismissing, Synchronous, Choosing
  <2> QED
    BY <1>0, <1>2, <2>2, <2>4, <2>5, <2>6, <2>7, AskMoves
<1> QED
  BY <1>1, <1>3, <1>4

\* A choice, made by a request that runs alone on its worker.
LEMMA ChoosesKeepsInv ==
  ASSUME FeaturedInv, NEW j \in Asks, UNCHANGED <<deployed, budgetIn, members, erased, picks, inflight, epoch, paidFor>>,
         NEW a \in AskRow, asks' = [asks EXCEPT ![j] = a],
         asks[j].pc \in {"away", "queued", "locking"},
         a.pc = "reserving" /\ ~a.reserved /\ a.seen = Recorded, a.kind \in {"get", "dismiss"},
         a.worker \in deployed, a.user \in FeaturedUsers, a.course \in Candidates(a.user), a.seq # 0,
         a.kind = "get" => a.seq = 1,
         a.kind = "dismiss" => Dismissing(a.user) = {} /\ \E p \in Active(a.user) : a.seq = p.seq + 1,
         \A i \in Asks \ {j} : asks[i].pc \in Synchronous => asks[i].worker # a.worker
  PROVE  FeaturedInv'
<1>0. FeaturedTyped
  BY DEF FeaturedInv
<1>1. OnlyAsk(j) /\ asks'[j] = a
  BY <1>0 DEF OnlyAsk, FeaturedTyped
<1>2. ~asks[j].reserved /\ j \notin paidFor
  BY DEF FeaturedInv, AskRight, AskAlone
<1>3. a.course \in Catalogue /\ (a.course \in FeaturedThisWeek(a.user) => FeaturedThisWeek(a.user) = Catalogue)
  BY <1>0, ChoiceLemma
<1>4. AskAlone(a, j \in paidFor)'
  BY <1>2, <1>3 DEF AskAlone, Choosing
<1>5. IsDismissing(a, a.user) => Follows(a)'
  <2>1. Active(a.user)' = Active(a.user) /\ FeaturedThisWeek(a.user)' = FeaturedThisWeek(a.user)
    BY DEF Active, FeaturedThisWeek
  <2> QED
    BY <1>3, <2>1 DEF IsDismissing, Follows
<1>6. AskRight(j)'
  BY <1>1, <1>4, <1>5 DEF AskRight, IsDismissing
<1>7. RunsThere(j)
  BY <1>1 DEF RunsThere
<1>8. DismissesThere(j)
  BY <1>1, NobodyDismisses DEF DismissesThere, IsDismissing
<1> QED
  BY <1>1, <1>2, <1>6, <1>7, <1>8, AskMoves

LEMMA GetIsLockedKeepsInv ==
  ASSUME FeaturedInv, NEW j \in Asks, GetIsLocked(j)
  PROVE  FeaturedInv'
<1> DEFINE u == asks[j].user
<1>0. FeaturedTyped /\ UNCHANGED <<deployed, budgetIn, members, erased, picks, inflight, epoch, paidFor>>
  BY DEF FeaturedInv, GetIsLocked
<1>1. /\ asks[j].pc = "queued" /\ Runs(j)
      /\ IF Active(u) # {} THEN Leave(j) ELSE Chooses(j, u, 1)
  BY DEF GetIsLocked
<1>2. CASE Leave(j)
  BY <1>0, <1>1, <1>2, LeavesQuietly
<1>3. ASSUME NEW c \in Candidates(u),
             asks' = [asks EXCEPT ![j].pc = "reserving", ![j].course = c, ![j].seq = 1, ![j].seen = Recorded]
      PROVE  FeaturedInv'
  <2>a. PICK b : b = asks[j]
    OBVIOUS
  <2>b. PICK a : a = [b EXCEPT !.pc = "reserving", !.course = c, !.seq = 1, !.seen = Recorded]
    OBVIOUS
  <2>1. /\ b \in AskRow /\ b.kind = "get" /\ b.worker \in deployed /\ b.user \in FeaturedUsers /\ ~b.reserved
    BY <2>a, <1>0, <1>1 DEF FeaturedTyped, FeaturedInv, AskRight, AskAlone
  <2>2. asks' = [asks EXCEPT ![j] = a]
    BY <2>a, <2>b, <1>0, <1>3 DEF FeaturedTyped
  <2>3. Recorded \in Nat /\ c \in Catalogue /\ 1 \in 0..LastSequence
    BY <1>0, <1>3, RecordedUnits, ChoiceLemma, FeaturedConstants
  <2>4. c \in Candidates(b.user)
    BY <1>3, <2>a
  <2>5. \A i \in Asks \ {j} : asks[i].pc \in Synchronous => asks[i].worker # b.worker
    BY <1>1, <2>a DEF Runs
  <2>6. /\ a \in AskRow /\ a.pc = "reserving" /\ ~a.reserved /\ a.seen = Recorded /\ a.kind = "get"
        /\ a.worker = b.worker /\ a.user = b.user /\ a.course = c /\ a.seq = 1
    BY <2>b, <2>1, <2>3 DEF AskRow, Synchronous
  <2>7. a.course \in Candidates(a.user)
    BY <2>4, <2>6
  <2>8. \A i \in Asks \ {j} : asks[i].pc \in Synchronous => asks[i].worker # a.worker
    BY <2>5, <2>6
  <2>9. a.worker \in deployed /\ a.user \in FeaturedUsers /\ a.seq # 0 /\ a.kind # "dismiss"
    BY <2>1, <2>6
  <2> QED
    BY <1>0, <1>1, <2>2, <2>6, <2>7, <2>8, <2>9, ChoosesKeepsInv
<1> QED
  BY <1>1, <1>2, <1>3 DEF Chooses

\* A dismissal has the lock of the pick on show.
LEMMA SucceedsKeepsInv ==
  ASSUME FeaturedInv, NEW j \in Asks, UNCHANGED <<deployed, budgetIn, members, erased, picks, inflight, epoch, paidFor>>,
         asks[j].pc \in {"away", "locking"}, NEW u \in FeaturedUsers, Dismissing(u) = {}, NEW p \in Active(u),
         NEW b \in AskRow, b.kind = "dismiss", b.user = u, b.worker \in deployed, ~b.reserved,
         \A i \in Asks \ {j} : asks[i].pc \in Synchronous => asks[i].worker # b.worker,
         Succeeds(j, b, p)
  PROVE  FeaturedInv'
<1>0. FeaturedTyped /\ ~asks[j].reserved /\ p.user = u
  BY DEF FeaturedInv, AskRight, AskAlone, Active
<1>1. CASE Leave(j)
  BY <1>1, LeavesQuietly
<1>2. ASSUME ~Exhausted(p), NEW c \in Candidates(u),
             asks' = [asks EXCEPT ![j] = [b EXCEPT !.pc = "reserving", !.course = c,
                                                   !.seq = p.seq + 1, !.seen = Recorded]]
      PROVE  FeaturedInv'
  <2>1. PICK a : a = [b EXCEPT !.pc = "reserving", !.course = c, !.seq = p.seq + 1, !.seen = Recorded]
    OBVIOUS
  <2>2. p.seq \in 0..LastSequence /\ p.seq + 1 \in 0..LastSequence /\ p.seq + 1 # 0
    BY <1>0, <1>2, FeaturedConstants DEF Active, FeaturedTyped, PickRow, Exhausted
  <2>3. Recorded \in Nat /\ c \in Catalogue
    BY <1>0, <1>2, RecordedUnits, ChoiceLemma
  <2>4. asks' = [asks EXCEPT ![j] = a]
    BY <1>2, <2>1
  <2>5. /\ a \in AskRow /\ a.pc = "reserving" /\ ~a.reserved /\ a.seen = Recorded /\ a.kind = "dismiss"
        /\ a.worker = b.worker /\ a.user = u /\ a.course = c /\ a.seq = p.seq + 1
    BY <2>1, <2>2, <2>3 DEF AskRow, Synchronous
  <2>6. a.course \in Candidates(a.user) /\ a.seq # 0 /\ a.worker \in deployed /\ a.user \in FeaturedUsers
    BY <1>2, <2>2, <2>5
  <2>7. Dismissing(a.user) = {} /\ \E r \in Active(a.user) : a.seq = r.seq + 1
    BY <2>5
  <2>8. \A i \in Asks \ {j} : asks[i].pc \in Synchronous => asks[i].worker # a.worker
    BY <2>5
  <2> QED
    BY <2>4, <2>5, <2>6, <2>7, <2>8, ChoosesKeepsInv
<1>3. \/ Leave(j)
      \/ /\ ~Exhausted(p)
         /\ \E c \in Candidates(u) :
              asks' = [asks EXCEPT ![j] = [b EXCEPT !.pc = "reserving", !.course = c,
                                                    !.seq = p.seq + 1, !.seen = Recorded]]
  BY <1>0, Zenon DEF Succeeds
<1> QED
  BY <1>1, <1>2, <1>3

LEMMA DismissArrivesKeepsInv ==
  ASSUME FeaturedInv, NEW j \in Asks, DismissArrives(j)
  PROVE  FeaturedInv'
<1>0. FeaturedTyped /\ UNCHANGED <<deployed, budgetIn, members, erased, picks, inflight, epoch, paidFor>>
  BY DEF FeaturedInv, DismissArrives
<1>1. PICK w \in Workers, u \in members :
       /\ Arrives(j, w)
       /\ \/ Active(u) = {} /\ Leave(j)
          \/ \E p \in Active(u) :
               LET ask == [Idle EXCEPT !.kind = "dismiss", !.user = u, !.worker = w, !.seq = p.seq] IN
               IF Dismissing(u) # {} THEN asks' = [asks EXCEPT ![j] = [ask EXCEPT !.pc = "locking"]]
               ELSE Succeeds(j, ask, p)
  BY Zenon DEF DismissArrives
<1>2. asks[j].pc = "away" /\ ~asks[j].reserved /\ w \in deployed /\ Free(w) /\ u \in FeaturedUsers
  BY <1>0, <1>1, IdleTyped DEF Arrives, FeaturedTyped
<1>3. CASE Leave(j)
  BY <1>0, <1>2, <1>3, LeavesQuietly
<1>4. \A i \in Asks \ {j} : asks[i].pc \in Synchronous => asks[i].worker # w
  BY <1>2 DEF Free
<1>5. ASSUME NEW p \in Active(u), NEW b, b = [Idle EXCEPT !.kind = "dismiss", !.user = u, !.worker = w, !.seq = p.seq]
      PROVE  b \in AskRow /\ b.kind = "dismiss" /\ b.user = u /\ b.worker = w /\ ~b.reserved
  <2>1. p.seq \in 0..LastSequence
    BY <1>0, <1>5, FeaturedConstants DEF Active, FeaturedTyped, PickRow
  <2> QED
    BY <1>2, <1>5, <2>1, IdleTyped DEF AskRow, Idle
<1>6. ASSUME NEW p \in Active(u), NEW b, b = [Idle EXCEPT !.kind = "dismiss", !.user = u, !.worker = w, !.seq = p.seq],
             asks' = [asks EXCEPT ![j] = [b EXCEPT !.pc = "locking"]]
      PROVE  FeaturedInv'
  <2>1. b \in AskRow /\ b.kind = "dismiss" /\ b.user = u /\ b.worker = w /\ ~b.reserved
    BY <1>5, <1>6
  <2>a. PICK a : a = [b EXCEPT !.pc = "locking"]
    OBVIOUS
  <2>2. a \in AskRow /\ a.pc = "locking" /\ a.kind = "dismiss" /\ a.user = u /\ a.worker = w /\ ~a.reserved
    BY <2>1, <2>a DEF AskRow, Synchronous
  <2>3. asks' = [asks EXCEPT ![j] = a]
    BY <1>6, <2>a
  <2>4. OnlyAsk(j) /\ asks'[j] = a
    BY <1>0, <2>2, <2>3 DEF OnlyAsk, FeaturedTyped
  <2>5. j \notin paidFor
    BY <1>2 DEF FeaturedInv, AskRight, AskAlone
  <2>6. AskRight(j)'
    BY <1>0, <1>2, <2>2, <2>4, <2>5 DEF AskRight, AskAlone, IsDismissing, Choosing
  <2>7. RunsThere(j) /\ DismissesThere(j)
    BY <1>4, <2>2, <2>4 DEF RunsThere, DismissesThere, IsDismissing, Choosing
  <2> QED
    BY <1>0, <1>2, <2>2, <2>4, <2>5, <2>6, <2>7, AskMoves
<1>7. ASSUME NEW p \in Active(u), Dismissing(u) = {},
             NEW b, b = [Idle EXCEPT !.kind = "dismiss", !.user = u, !.worker = w, !.seq = p.seq], Succeeds(j, b, p)
      PROVE  FeaturedInv'
  <2>1. b \in AskRow /\ b.kind = "dismiss" /\ b.user = u /\ b.worker = w /\ ~b.reserved
    BY <1>5, <1>7
  <2> QED
    BY <1>0, <1>2, <1>4, <1>7, <2>1, SucceedsKeepsInv
<1>8. Leave(j) \/ \E p \in Active(u) :
        \E b : /\ b = [Idle EXCEPT !.kind = "dismiss", !.user = u, !.worker = w, !.seq = p.seq]
               /\ \/ asks' = [asks EXCEPT ![j] = [b EXCEPT !.pc = "locking"]]
                  \/ Dismissing(u) = {} /\ Succeeds(j, b, p)
  BY <1>1, Zenon
<1> QED
  BY <1>3, <1>6, <1>7, <1>8

LEMMA DismissIsLockedKeepsInv ==
  ASSUME FeaturedInv, NEW j \in Asks, DismissIsLocked(j)
  PROVE  FeaturedInv'
<1>a. PICK u : u = asks[j].user
  OBVIOUS
<1>0. /\ FeaturedTyped /\ AskRight(j) /\ OneRuns
      /\ UNCHANGED <<deployed, budgetIn, members, erased, picks, inflight, epoch, paidFor>>
      /\ asks[j].pc = "locking" /\ Dismissing(u) = {}
      /\ Leave(j) \/ \E p \in Active(u) : Succeeds(j, asks[j], p)
  BY <1>a DEF FeaturedInv, DismissIsLocked
<1>1. CASE Leave(j)
  BY <1>0, <1>1, LeavesQuietly
<1>2. ASSUME NEW p \in Active(u), Succeeds(j, asks[j], p)
      PROVE  FeaturedInv'
  <2>b. PICK b : b = asks[j]
    OBVIOUS
  <2>1. b \in AskRow /\ b.kind = "dismiss" /\ b.user = u /\ u \in FeaturedUsers /\ b.worker \in deployed /\ ~b.reserved
    BY <1>0, <1>a, <2>b DEF FeaturedTyped, AskRight, AskAlone
  <2>2. \A i \in Asks \ {j} : asks[i].pc \in Synchronous => asks[i].worker # b.worker
    BY <1>0, <2>b DEF OneRuns, Synchronous
  <2> QED
    BY <1>0, <1>2, <2>1, <2>2, <2>b, SucceedsKeepsInv
<1> QED
  BY <1>0, <1>1, <1>2

LEMMA ReplyKeepsInv ==
  ASSUME FeaturedInv, NEW j \in Asks, ProviderReplies(j)
  PROVE  FeaturedInv'
<1>6. PICK b : b = asks[j]
  OBVIOUS
<1>a. PICK a : a = [b EXCEPT !.pc = "inserting"]
  OBVIOUS
<1>0. FeaturedTyped /\ AskRight(j) /\ UNCHANGED <<deployed, budgetIn, members, erased, picks, inflight, epoch>>
  BY DEF FeaturedInv, ProviderReplies
<1>1. b.pc = "calling" /\ Runs(j) /\ asks' = [asks EXCEPT ![j] = a] /\ paidFor' \in {paidFor, paidFor \cup {j}}
  BY <1>6, <1>a DEF ProviderReplies, Continue
<1>2. b \in AskRow /\ b.reserved
  BY <1>0, <1>1, <1>6 DEF FeaturedTyped, AskRight, AskAlone
<1>3. /\ AskAlone(b, j \in paidFor) /\ (IsDismissing(b, b.user) => Follows(b))
  BY <1>0, <1>6 DEF AskRight
<1>4. \A i \in Asks \ {j} : asks[i].pc \in Synchronous => asks[i].worker # b.worker
  BY <1>1, <1>6 DEF Runs
<1>5. IsDismissing(b, b.user) => \A i \in Asks \ {j} : ~IsDismissing(asks[i], b.user)
  BY <1>6 DEF FeaturedInv, OneDismisses, IsDismissing
<1>7. /\ a \in AskRow /\ a.pc = "inserting" /\ a.reserved /\ a.kind = b.kind /\ a.user = b.user
      /\ a.worker = b.worker /\ a.course = b.course /\ a.seq = b.seq
  BY <1>2, <1>a DEF AskRow, Synchronous
<1>8. OnlyAsk(j) /\ asks'[j] = a
  BY <1>0, <1>1, <1>7 DEF OnlyAsk, FeaturedTyped
<1>9. AskRight(j)'
  <2>1. AskAlone(a, j \in paidFor)'
    BY <1>0, <1>1, <1>3, <1>7 DEF AskAlone, Choosing
  <2>2. IsDismissing(a, a.user) => Follows(a)'
    <3>1. Active(b.user)' = Active(b.user) /\ FeaturedThisWeek(b.user)' = FeaturedThisWeek(b.user)
      BY <1>0, <1>6 DEF Active, FeaturedThisWeek
    <3> QED
      BY <1>1, <1>3, <1>7, <3>1 DEF IsDismissing, Follows, Choosing
  <2> QED
    BY <1>7, <1>8, <2>1, <2>2 DEF AskRight, IsDismissing
<1>10. RunsThere(j)
  BY <1>4, <1>7, <1>8 DEF RunsThere
<1>11. DismissesThere(j)
  BY <1>1, <1>5, <1>7, <1>8 DEF DismissesThere, IsDismissing, Choosing
<1> QED
  BY <1>0, <1>1, <1>2, <1>6, <1>7, <1>8, <1>9, <1>10, <1>11, AskMoves

-----------------------------------------------------------------------------
(* Featured: reservations.                                                 *)

\* A request whose course is chosen goes on with it.
LEMMA ChosenGoesOn ==
  ASSUME FeaturedInv, NEW j \in Asks, NEW b, b = asks[j], NEW a \in AskRow, asks' = [asks EXCEPT ![j] = a],
         UNCHANGED <<deployed, budgetIn, members, picks>>, b.pc \in Choosing, a.pc \in Choosing,
         a.kind = b.kind, a.user = b.user, a.worker = b.worker, a.course = b.course, a.seq = b.seq,
         b.pc \in Synchronous, AskAlone(a, j \in paidFor)'
  PROVE  OnlyAsk(j) /\ asks'[j] = a /\ AskRight(j)' /\ RunsThere(j) /\ DismissesThere(j)
<1>1. FeaturedTyped /\ AskRight(j) /\ OneRuns /\ OneDismisses
  BY DEF FeaturedInv
<1>2. OnlyAsk(j) /\ asks'[j] = a
  BY <1>1 DEF OnlyAsk, FeaturedTyped
<1>3. AskRight(j)'
  <2>1. Active(b.user)' = Active(b.user) /\ FeaturedThisWeek(b.user)' = FeaturedThisWeek(b.user)
    BY DEF Active, FeaturedThisWeek
  <2>2. IsDismissing(b, b.user) => Follows(b)
    BY <1>1 DEF AskRight
  <2>3. IsDismissing(a, a.user) => Follows(a)'
    BY <2>1, <2>2 DEF IsDismissing, Follows
  <2> QED
    BY <1>2, <2>3 DEF AskRight, IsDismissing, Choosing
<1>4. RunsThere(j)
  BY <1>1, <1>2 DEF RunsThere, OneRuns
<1>5. DismissesThere(j)
  BY <1>1, <1>2 DEF DismissesThere, OneDismisses, IsDismissing
<1> QED
  BY <1>2, <1>3, <1>4, <1>5

LEMMA ReservedIs ==
  ASSUME FeaturedInv
  PROVE  /\ IsFiniteSet(Reserved) /\ Cardinality(Reserved) \in Nat
         /\ \A w : IsFiniteSet(ReservedBy(w)) /\ Cardinality(ReservedBy(w)) \in Nat
         /\ \A j \in Reserved : asks[j].worker \in deployed
         /\ OneWorker => \A w \in deployed : ReservedBy(w) = Reserved
<1>1. \A j \in Reserved : asks[j].pc \notin {"away", "left"} /\ asks[j].worker \in deployed
  BY DEF Reserved, FeaturedInv, AskRight, AskAlone
<1>2. Reserved \in SUBSET Asks /\ \A w : ReservedBy(w) \in SUBSET Asks
  BY DEF Reserved, ReservedBy
<1>3. ASSUME OneWorker
      PROVE  \A w \in deployed : ReservedBy(w) = Reserved
  <2>1. PICK v \in Workers : deployed = {v}
    BY <1>3, TheWorker DEF FeaturedInv, FeaturedTyped
  <2> QED
    BY <1>1, <2>1 DEF Reserved, ReservedBy
<1> QED
  BY <1>1, <1>2, <1>3, FeaturedConstants

\* On one worker the counter covers every reservation.
LEMMA CounterCovers ==
  ASSUME FeaturedInv, OneWorker, NEW j \in Asks, asks[j].pc \notin {"away", "left"}
  PROVE  inflight[Counter(asks[j].worker)] \in Nat /\ inflight[Counter(asks[j].worker)] >= Cardinality(Reserved)
<1>1. FeaturedTyped /\ CountersRight /\ asks[j].worker \in deployed /\ deployed \subseteq Workers
  BY FeaturedAssumption DEF FeaturedInv, FeaturedTyped, AskRight, AskAlone
<1>2. Cardinality(Reserved) \in Nat /\ ReservedBy(asks[j].worker) = Reserved
  BY <1>1, ReservedIs
<1>3. CASE budgetIn = "redis"
  BY <1>1, <1>2, <1>3 DEF CountersRight, Counter, FeaturedTyped
<1>4. CASE budgetIn = "process"
  BY <1>1, <1>2, <1>4 DEF CountersRight, Counter, FeaturedTyped
<1> QED
  BY <1>1, <1>3, <1>4 DEF FeaturedTyped

LEMMA ReserveKeepsInv ==
  ASSUME FeaturedInv, NEW j \in Asks, Reserve(j)
  PROVE  FeaturedInv'
<1>0. /\ FeaturedTyped /\ AskRight(j) /\ CountersRight /\ CostsRight
      /\ UNCHANGED <<deployed, budgetIn, members, erased, picks, epoch, paidFor>> /\ asks[j].pc = "reserving"
  BY DEF FeaturedInv, Reserve
<1>a. PICK b : b = asks[j]
  OBVIOUS
<1>1. /\ b \in AskRow /\ b.pc = "reserving" /\ ~b.reserved /\ j \notin paidFor
      /\ b.worker \in deployed /\ b.worker \in Workers
      /\ AskAlone(b, FALSE)
  BY <1>0, <1>a, FeaturedAssumption DEF FeaturedTyped, AskRight, AskAlone
<1>2. b.pc \in Choosing /\ b.pc \in Synchronous
  BY <1>1 DEF Choosing, Synchronous
<1>b. PICK counter : counter = Counter(b.worker)
  OBVIOUS
<1>3. counter \in Workers \cup {"redis"} /\ inflight \in [Workers \cup {"redis"} -> Nat]
      /\ (budgetIn = "redis" => counter = "redis") /\ (budgetIn = "process" => counter = b.worker)
  BY <1>0, <1>1, <1>b DEF Counter, FeaturedTyped
\* It goes on without a reservation.
<1>4. ASSUME Continue(j, "inserting"), inflight' \in [Workers \cup {"redis"} -> Nat],
             inflight' = inflight \/ (budgetIn = "redis" /\ inflight'["redis"] >= inflight["redis"])
      PROVE  FeaturedInv'
  <2>a. PICK a : a = [b EXCEPT !.pc = "inserting"]
    OBVIOUS
  <2>1. /\ a \in AskRow /\ a.pc = "inserting" /\ ~a.reserved /\ a.kind = b.kind /\ a.user = b.user
        /\ a.worker = b.worker /\ a.course = b.course /\ a.seq = b.seq
    BY <1>1, <2>a DEF AskRow, Synchronous
  <2>2. asks' = [asks EXCEPT ![j] = a] /\ a.pc \in Choosing
    BY <1>a, <1>4, <2>a, <2>1 DEF Continue, Choosing
  <2>3. AskAlone(a, j \in paidFor)'
    BY <1>0, <1>1, <2>1 DEF AskAlone, Choosing
  <2>4. OnlyAsk(j) /\ asks'[j] = a /\ AskRight(j)' /\ RunsThere(j) /\ DismissesThere(j)
    BY <1>0, <1>a, <1>2, <2>1, <2>2, <2>3, ChosenGoesOn
  <2> QED
    BY <1>0, <1>a, <1>1, <1>4, <2>1, <2>4, AskMovesOn
\* It has reserved its call.
<1>5. ASSUME Fits(j), inflight' = [inflight EXCEPT ![counter] = @ + 1],
             asks' = [asks EXCEPT ![j].pc = "calling", ![j].reserved = TRUE]
      PROVE  FeaturedInv'
  <2>a. PICK a : a = [b EXCEPT !.pc = "calling", !.reserved = TRUE]
    OBVIOUS
  <2>1. /\ a \in AskRow /\ a.pc = "calling" /\ a.reserved /\ a.kind = b.kind /\ a.user = b.user
        /\ a.worker = b.worker /\ a.course = b.course /\ a.seq = b.seq
    BY <1>1, <2>a DEF AskRow, Synchronous
  <2>2. asks' = [asks EXCEPT ![j] = a] /\ a.pc \in Choosing
    BY <1>0, <1>a, <1>5, <2>a, <2>1 DEF FeaturedTyped, Choosing
  <2>3. AskAlone(a, j \in paidFor)'
    BY <1>0, <1>1, <2>1 DEF AskAlone, Choosing
  <2>4. OnlyAsk(j) /\ asks'[j] = a /\ AskRight(j)' /\ RunsThere(j) /\ DismissesThere(j)
    BY <1>0, <1>a, <1>2, <2>1, <2>2, <2>3, ChosenGoesOn
  <2>5. /\ \A i \in Asks \ {j} : AskRight(i)'
        /\ WeeksRight' /\ Recorded' = Recorded
    BY <1>0, <2>4, PicksStayRight
  <2>6. OneRuns' /\ OneDismisses'
    BY <2>4, OneStillRuns DEF FeaturedInv
  <2>7. inflight' \in [Workers \cup {"redis"} -> Nat]
    BY <1>3, <1>5
  <2>8. FeaturedTyped'
    BY <1>0, <2>4, <2>7 DEF FeaturedTyped, OnlyAsk, PickRow, AskRow, Asks, Synchronous
  <2>9. /\ Reserved' = Reserved \cup {j} /\ j \notin Reserved
        /\ ReservedBy(b.worker)' = ReservedBy(b.worker) \cup {j} /\ j \notin ReservedBy(b.worker)
        /\ \A w \in Workers \ {b.worker} : ReservedBy(w)' = ReservedBy(w)
    BY <1>1, <1>a, <2>1, <2>4 DEF Reserved, ReservedBy, OnlyAsk
  <2>10. /\ Cardinality(Reserved') = Cardinality(Reserved) + 1 /\ Cardinality(Reserved) \in Nat
         /\ Cardinality(ReservedBy(b.worker)') = Cardinality(ReservedBy(b.worker)) + 1
         /\ Cardinality(ReservedBy(b.worker)) \in Nat
    BY <2>9, ReservedIs, FS_AddElement
  <2>11. CountersRight'
    <3>1. CASE budgetIn = "process"
      <4>1. inflight'[b.worker] = inflight[b.worker] + 1
            /\ \A w \in Workers \ {b.worker} : inflight'[w] = inflight[w]
        BY <1>1, <1>3, <1>5, <3>1
      <4>2. \A w \in Workers : inflight[w] = Cardinality(ReservedBy(w))
        BY <1>0, <3>1 DEF CountersRight
      <4>3. \A w \in Workers : inflight'[w] = Cardinality(ReservedBy(w)')
        BY <1>1, <2>9, <2>10, <4>1, <4>2
      <4> QED
        BY <1>0, <3>1, <4>3 DEF CountersRight
    <3>2. CASE budgetIn = "redis"
      <4>1. inflight'["redis"] = inflight["redis"] + 1 /\ inflight["redis"] \in Nat
        BY <1>3, <1>5, <3>2
      <4>2. inflight["redis"] >= Cardinality(Reserved)
        BY <1>0, <3>2 DEF CountersRight
      <4> QED
        BY <1>0, <2>10, <3>2, <4>1, <4>2 DEF CountersRight
    <3> QED
      BY <1>0, <3>1, <3>2 DEF FeaturedTyped
  <2>12. PaidAndLeft' = PaidAndLeft
    <3>1. paidFor \subseteq Asks
      BY <1>0 DEF FeaturedTyped
    <3> QED
      BY <1>0, <1>1, <2>4, <3>1 DEF PaidAndLeft, OnlyAsk
  <2>13. CostsRight'
    <3>1. OneWorker' <=> OneWorker
      BY <1>0 DEF OneWorker
    <3>2. ASSUME OneWorker
          PROVE  Recorded + Cardinality(Reserved') <= SpendLimit
      <4>1. b.seen >= Recorded /\ b.seen \in Nat /\ Recorded \in Nat
        BY <1>0, <1>a, <1>1, <3>2, RecordedUnits DEF CostsRight, AskRow
      <4>2. inflight[counter] \in Nat /\ inflight[counter] >= Cardinality(Reserved)
        BY <1>0, <1>a, <1>b, <3>2, CounterCovers
      <4>3. b.seen + inflight[counter] + 1 <= SpendLimit
        BY <1>5, <1>a, <1>b DEF Fits
      <4> QED
        BY <2>10, <4>1, <4>2, <4>3, FeaturedConstants
    <3>3. OneWorker => \A i \in Asks : asks'[i].pc = "reserving" => asks'[i].seen >= Recorded
      BY <1>0, <2>1, <2>4 DEF CostsRight, OnlyAsk
    <3>4. ASSUME OneWorker, NEW i \in Asks
          PROVE  asks'[i].pc # "waiting"
      <4>1. i # j => asks[i].pc \notin Synchronous
        BY <1>0, <1>2, <1>a, <3>4, Solo
      <4> QED
        BY <2>1, <2>4, <4>1 DEF OnlyAsk, Synchronous
    <3> QED
      BY <1>0, <2>5, <2>12, <3>1, <3>2, <3>3, <3>4 DEF CostsRight
  <2> QED
    BY <2>4, <2>5, <2>6, <2>8, <2>11, <2>13 DEF FeaturedInv
<1>6. \/ Fits(j) /\ inflight' = [inflight EXCEPT ![counter] = @ + 1]
         /\ asks' = [asks EXCEPT ![j].pc = "calling", ![j].reserved = TRUE]
      \/ inflight' = [inflight EXCEPT ![counter] = @ + 1] /\ budgetIn = "redis" /\ Continue(j, "inserting")
      \/ Continue(j, "inserting") /\ UNCHANGED inflight
  BY <1>a, <1>b DEF Reserve
<1>7. CASE inflight' = [inflight EXCEPT ![counter] = @ + 1] /\ budgetIn = "redis" /\ Continue(j, "inserting")
  <2>1. inflight' \in [Workers \cup {"redis"} -> Nat] /\ inflight'["redis"] >= inflight["redis"]
    BY <1>3, <1>7
  <2> QED
    BY <1>4, <1>7, <2>1
<1>8. CASE Continue(j, "inserting") /\ UNCHANGED inflight
  BY <1>3, <1>4, <1>8
<1> QED
  BY <1>5, <1>6, <1>7, <1>8

-----------------------------------------------------------------------------
(* Featured: the end of a request, and changes of the picks.               *)

LEMMA AsLeftOne ==
  ASSUME NEW S, IsFiniteSet(S), NEW j \in S
  PROVE  /\ Cardinality(S) \in Nat /\ Cardinality(S) >= 1
         /\ Cardinality(S \ {j}) = Cardinality(S) - 1 /\ Cardinality(S \ {j}) \in Nat
<1>1. Cardinality(S \ {j}) = Cardinality(S) - 1 /\ IsFiniteSet(S \ {j})
  BY FS_RemoveElement
<1>2. Cardinality(S) \in Nat /\ Cardinality(S \ {j}) \in Nat
  BY <1>1, FS_CardinalityType
<1> QED
  BY <1>1, <1>2

\* The reservation of a request that leaves is given back, or stays in its counter.
LEMMA ReleaseLemma ==
  ASSUME FeaturedInv, NEW j \in Asks, asks[j].pc # "left", Leave(j), Release(j), UNCHANGED <<deployed, budgetIn, members>>
  PROVE  /\ inflight' \in [Workers \cup {"redis"} -> Nat] /\ CountersRight'
         /\ Reserved' = Reserved \ {j}
<1>0. FeaturedTyped /\ CountersRight
  BY DEF FeaturedInv
<1>1. /\ OnlyAsk(j) /\ asks'[j].pc = "left" /\ ~asks'[j].reserved
  BY <1>0, LeaveIs
<1>2. Reserved' = Reserved \ {j} /\ \A w : ReservedBy(w)' = ReservedBy(w) \ {j}
  BY <1>1 DEF Reserved, ReservedBy, OnlyAsk
<1>3. /\ IsFiniteSet(Reserved) /\ Cardinality(Reserved) \in Nat
      /\ \A w : IsFiniteSet(ReservedBy(w)) /\ Cardinality(ReservedBy(w)) \in Nat
  BY ReservedIs
<1>4. inflight \in [Workers \cup {"redis"} -> Nat] /\ budgetIn \in {"redis", "process"}
  BY <1>0 DEF FeaturedTyped
<1>5. CASE ~asks[j].reserved
  <2>1. inflight' = inflight
    BY <1>5 DEF Release
  <2>2. Reserved' = Reserved /\ \A w : ReservedBy(w)' = ReservedBy(w)
    BY <1>2, <1>5 DEF Reserved, ReservedBy
  <2>3. CountersRight'
    BY <1>0, <2>1, <2>2 DEF CountersRight
  <2> QED
    BY <1>2, <1>4, <2>1, <2>3
<1>6. CASE asks[j].reserved
  <2>a. PICK w : w = asks[j].worker
    OBVIOUS
  <2>1. asks[j].pc \notin {"away", "left"}
    BY <1>6 DEF FeaturedInv, AskRight, AskAlone
  <2>2. w \in Workers
    BY <1>0, <2>a, <2>1, FeaturedAssumption DEF FeaturedInv, FeaturedTyped, AskRight, AskAlone
  <2>b. PICK counter : counter = Counter(w)
    OBVIOUS
  <2>3. counter \in Workers \cup {"redis"} /\ (budgetIn = "redis" => counter = "redis") /\ (budgetIn = "process" => counter = w)
    BY <1>4, <2>2, <2>b DEF Counter
  <2>4. \/ inflight' = [inflight EXCEPT ![counter] = IF @ <= 1 THEN 0 ELSE @ - 1]
        \/ budgetIn = "redis" /\ inflight' = inflight
    BY <1>6, <2>a, <2>b DEF Release
  <2>5. /\ inflight' \in [Workers \cup {"redis"} -> Nat]
        /\ budgetIn = "redis" => inflight'["redis"] >= inflight["redis"] - 1
        /\ budgetIn = "process" =>
             /\ inflight'[w] = IF inflight[w] <= 1 THEN 0 ELSE inflight[w] - 1
             /\ \A v \in Workers \ {w} : inflight'[v] = inflight[v]
    <3>1. CASE inflight' = [inflight EXCEPT ![counter] = IF @ <= 1 THEN 0 ELSE @ - 1]
      <4>1. inflight[counter] \in Nat /\ (IF inflight[counter] <= 1 THEN 0 ELSE inflight[counter] - 1) \in Nat
        BY <1>4, <2>3
      <4>2. inflight' \in [Workers \cup {"redis"} -> Nat]
        BY <1>4, <2>3, <3>1, <4>1
      <4>3. /\ inflight'[counter] = IF inflight[counter] <= 1 THEN 0 ELSE inflight[counter] - 1
            /\ \A v \in (Workers \cup {"redis"}) \ {counter} : inflight'[v] = inflight[v]
        BY <1>4, <2>3, <3>1
      <4> QED
        BY <1>4, <2>2, <2>3, <4>1, <4>2, <4>3
    <3>2. CASE budgetIn = "redis" /\ inflight' = inflight
      BY <1>4, <3>2
    <3> QED
      BY <2>4, <3>1, <3>2
  <2>6. j \in Reserved /\ j \in ReservedBy(w) /\ \A v : v # w => j \notin ReservedBy(v)
    BY <1>6, <2>a DEF Reserved, ReservedBy
  <2>7. /\ Cardinality(Reserved \ {j}) = Cardinality(Reserved) - 1
        /\ Cardinality(ReservedBy(w) \ {j}) = Cardinality(ReservedBy(w)) - 1
        /\ Cardinality(ReservedBy(w)) >= 1
    BY <1>3, <2>6, AsLeftOne
  <2>8. CountersRight'
    <3>1. CASE budgetIn = "redis"
      <4>1. inflight["redis"] \in Nat /\ inflight'["redis"] \in Nat /\ inflight["redis"] >= Cardinality(Reserved)
        BY <1>0, <1>4, <2>5, <3>1 DEF CountersRight
      <4> QED
        BY <1>2, <1>3, <2>5, <2>7, <3>1, <4>1 DEF CountersRight
    <3>2. CASE budgetIn = "process"
      <4>1. \A v \in Workers : inflight[v] = Cardinality(ReservedBy(v))
        BY <1>0, <3>2 DEF CountersRight
      <4>2. \A v \in Workers \ {w} : ReservedBy(v)' = ReservedBy(v)
        BY <1>2, <2>6
      <4>3. inflight'[w] = Cardinality(ReservedBy(w)')
        <5>1. inflight[w] = Cardinality(ReservedBy(w))
          BY <2>2, <4>1
        <5>2. inflight'[w] = IF inflight[w] <= 1 THEN 0 ELSE inflight[w] - 1
          BY <2>5, <3>2
        <5>3. Cardinality(ReservedBy(w)) \in Nat
          BY <1>3
        <5>4. inflight'[w] = Cardinality(ReservedBy(w)) - 1
          BY <2>7, <5>1, <5>2, <5>3
        <5> QED
          BY <1>2, <2>7, <5>4
      <4>4. \A v \in Workers : inflight'[v] = Cardinality(ReservedBy(v)')
        BY <2>5, <3>2, <4>1, <4>2, <4>3
      <4> QED
        BY <3>2, <4>4 DEF CountersRight
    <3> QED
      BY <1>4, <3>1, <3>2
  <2> QED
    BY <1>2, <2>5, <2>8
<1> QED
  BY <1>5, <1>6

\* A request leaves with its cost, if it has one, on record or gone with its account.
LEMMA LeavingWithCost ==
  ASSUME FeaturedInv, NEW j \in Asks, asks[j].pc \in {"inserting", "folding", "waiting"},
         Leave(j), Release(j), UNCHANGED <<deployed, budgetIn, members, epoch, paidFor>>,
         picks' \subseteq PickRow, IsFiniteSet(picks'), WeeksRight',
         \A i \in Asks \ {j} : AskRight(i)',
         NEW cost, cost = IF j \in paidFor THEN 1 ELSE 0,
         Recorded' \in Nat, erased' \in Nat, erased' >= erased,
         Recorded' + erased' <= Recorded + erased + cost,
         OneWorker => Recorded' + erased' = Recorded + erased + cost
  PROVE  FeaturedInv'
<1>0. FeaturedTyped /\ CostsRight /\ OneRuns /\ OneDismisses /\ AskRight(j)
  BY DEF FeaturedInv
<1>1. /\ OnlyAsk(j) /\ asks'[j].pc = "left" /\ AskRight(j)' /\ RunsThere(j) /\ DismissesThere(j)
  BY <1>0, LeaveIs
<1>2. /\ inflight' \in [Workers \cup {"redis"} -> Nat] /\ CountersRight'
      /\ Reserved' = Reserved \ {j}
  BY ReleaseLemma
<1>3. OneRuns' /\ OneDismisses'
  BY <1>0, <1>1, OneStillRuns
<1>4. FeaturedTyped'
  BY <1>0, <1>1, <1>2 DEF FeaturedTyped, OnlyAsk, PickRow, AskRow, Asks, Synchronous
<1>5. Recorded \in Nat /\ cost \in Nat /\ erased \in Nat
  BY <1>0, RecordedUnits DEF FeaturedTyped
<1>6. IsFiniteSet(Reserved) /\ Cardinality(Reserved) \in Nat
  BY ReservedIs
<1>7. PaidAndLeft \subseteq Asks /\ IsFiniteSet(PaidAndLeft) /\ Cardinality(PaidAndLeft) \in Nat /\ j \notin PaidAndLeft
  BY <1>0, FeaturedConstants DEF PaidAndLeft, FeaturedTyped
<1>8. Cardinality(PaidAndLeft') = Cardinality(PaidAndLeft) + cost
  <2>1. CASE j \in paidFor
    <3>1. PaidAndLeft' = PaidAndLeft \cup {j}
      BY <1>0, <1>1, <2>1 DEF PaidAndLeft, OnlyAsk, FeaturedTyped
    <3>2. Cardinality(PaidAndLeft \cup {j}) = Cardinality(PaidAndLeft) + 1
      BY <1>7, FS_AddElement
    <3> QED
      BY <2>1, <3>1, <3>2
  <2>2. CASE j \notin paidFor
    <3>1. PaidAndLeft' = PaidAndLeft
      BY <1>0, <1>1, <2>2 DEF PaidAndLeft, OnlyAsk, FeaturedTyped
    <3> QED
      BY <1>7, <2>2, <3>1
  <2> QED
    BY <2>1, <2>2
<1>9. cost + Cardinality(Reserved') <= Cardinality(Reserved) /\ Cardinality(Reserved') \in Nat
  <2>1. CASE j \in paidFor
    <3>1. j \in Reserved
      BY <1>0, <2>1 DEF AskRight, AskAlone, Reserved
    <3> QED
      BY <1>2, <1>6, <2>1, <3>1, AsLeftOne
  <2>2. CASE j \notin paidFor
    <3>1. Reserved \ {j} \subseteq Reserved
      OBVIOUS
    <3>2. Cardinality(Reserved \ {j}) <= Cardinality(Reserved) /\ IsFiniteSet(Reserved \ {j})
      BY <1>6, <3>1, FS_Subset
    <3>3. Cardinality(Reserved \ {j}) \in Nat
      BY <3>2, FS_CardinalityType
    <3> QED
      BY <1>2, <1>6, <2>2, <3>2, <3>3
  <2> QED
    BY <2>1, <2>2
<1>10. CostsRight'
  <2>1. OneWorker' <=> OneWorker
    BY DEF OneWorker
  <2>2. Recorded' + erased' <= Cardinality(PaidAndLeft')
    BY <1>0, <1>5, <1>7, <1>8 DEF CostsRight
  <2>3. ASSUME OneWorker
        PROVE  /\ Recorded' + erased' = Cardinality(PaidAndLeft')
               /\ Recorded' + Cardinality(Reserved') <= SpendLimit
    <3>1. Recorded + erased = Cardinality(PaidAndLeft) /\ Recorded + Cardinality(Reserved) <= SpendLimit
      BY <1>0, <2>3 DEF CostsRight
    <3> QED
      BY <1>5, <1>6, <1>7, <1>8, <1>9, <2>3, <3>1, FeaturedConstants
  <2>4. ASSUME OneWorker, NEW i \in Asks
        PROVE  asks'[i].pc \notin Synchronous
    <3>1. i # j => asks[i].pc \notin Synchronous
      BY <2>4, Solo DEF Synchronous
    <3> QED
      BY <1>1, <3>1 DEF OnlyAsk, Synchronous
  <2>5. OneWorker => \A i \in Asks : asks'[i].pc # "reserving" /\ asks'[i].pc # "waiting"
    BY <2>4 DEF Synchronous
  <2> QED
    BY <2>1, <2>2, <2>3, <2>5 DEF CostsRight
<1> QED
  BY <1>1, <1>2, <1>3, <1>4, <1>10 DEF FeaturedInv

\* It is put on record.
LEMMA LeavingKeepsInv ==
  ASSUME FeaturedInv, NEW j \in Asks, asks[j].pc \in {"inserting", "folding", "waiting"},
         Leave(j), Release(j), UNCHANGED <<deployed, budgetIn, members, erased, epoch, paidFor>>,
         picks' \subseteq PickRow, IsFiniteSet(picks'), WeeksRight',
         \A i \in Asks \ {j} : AskRight(i)',
         NEW cost, cost = IF j \in paidFor THEN 1 ELSE 0,
         Recorded' \in Nat, Recorded' <= Recorded + cost,
         OneWorker => Recorded' = Recorded + cost
  PROVE  FeaturedInv'
<1>1. erased \in Nat /\ Recorded \in Nat /\ cost \in Nat
  BY RecordedUnits DEF FeaturedInv, FeaturedTyped
<1>2. Recorded' + erased' <= Recorded + erased + cost /\ erased' >= erased /\ erased' \in Nat
  BY <1>1
<1>3. ASSUME OneWorker
      PROVE  Recorded' + erased' = Recorded + erased + cost
  <2>1. Recorded' = Recorded + cost /\ erased' = erased
    BY <1>3
  <2> QED
    BY <1>1, <2>1
<1> QED
  BY <1>2, <1>3, LeavingWithCost

\* It has no row to go to.
LEMMA CostErasedKeepsInv ==
  ASSUME FeaturedInv, NEW j \in Asks, asks[j].pc \in {"inserting", "folding", "waiting"},
         Leave(j), Release(j), UNCHANGED <<deployed, budgetIn, members, picks, epoch, paidFor>>,
         erased' = erased + CostPaid(j)
  PROVE  FeaturedInv'
<1>0. FeaturedTyped
  BY DEF FeaturedInv
<1>1. OnlyAsk(j)
  BY <1>0, LeaveIs
<1>2. /\ \A i \in Asks \ {j} : AskRight(i)'
      /\ WeeksRight' /\ Recorded' = Recorded
  BY <1>1, PicksStayRight
<1>3. PICK cost : cost = IF j \in paidFor THEN 1 ELSE 0
  OBVIOUS
<1>4. erased' = erased + cost
  BY <1>3 DEF CostPaid
<1>5. cost \in Nat /\ erased \in Nat /\ Recorded \in Nat /\ picks' \subseteq PickRow /\ IsFiniteSet(picks')
  BY <1>0, <1>3, RecordedUnits DEF FeaturedTyped
<1>6. /\ Recorded' \in Nat /\ erased' \in Nat /\ erased' >= erased
      /\ Recorded' + erased' <= Recorded + erased + cost /\ Recorded' + erased' = Recorded + erased + cost
  BY <1>2, <1>4, <1>5
<1> QED
  BY <1>2, <1>3, <1>5, <1>6, LeavingWithCost

\* The picks of one user change, whom nobody else is dismissing a pick of.
LEMMA OthersStayRight ==
  ASSUME FeaturedInv, NEW j \in Asks, NEW u, OnlyAsk(j), paidFor' = paidFor,
         \A i \in Asks \ {j} : ~IsDismissing(asks[i], u),
         \A p : p.user # u => (p \in picks' <=> p \in picks),
         (\E p \in picks : p.user = u) => \E p \in picks' : p.user = u
  PROVE  \A i \in Asks \ {j} : AskRight(i)'
<1> SUFFICES ASSUME NEW i \in Asks \ {j}
             PROVE  AskRight(i)'
  OBVIOUS
<1>1. AskRight(i) /\ asks'[i] = asks[i] /\ deployed' = deployed /\ members' = members
  BY DEF FeaturedInv, OnlyAsk
<1>a. PICK v : v = asks[i].user
  OBVIOUS
<1>2. AskAlone(asks[i], i \in paidFor)'
  BY <1>1 DEF AskRight, AskAlone
<1>3. (\E p \in picks : p.user = v) => \E p \in picks' : p.user = v
  OBVIOUS
<1>4. ASSUME IsDismissing(asks[i], v)
      PROVE  Follows(asks[i])'
  <2>1. v # u
    BY <1>4
  <2>2. Active(v)' = Active(v) /\ FeaturedThisWeek(v)' = FeaturedThisWeek(v)
    BY <2>1 DEF Active, FeaturedThisWeek
  <2>3. Follows(asks[i])
    BY <1>1, <1>4, <1>a DEF AskRight
  <2> QED
    BY <1>1, <1>a, <2>2, <2>3 DEF Follows
<1> QED
  BY <1>1, <1>2, <1>3, <1>4, <1>a DEF AskRight, IsDismissing

-----------------------------------------------------------------------------
(* Featured: changes of a week.                                            *)

Before(P, u, k) == {p.course : p \in {q \in P : q.user = u /\ q.seq < k}}
NoRepeat(P) ==
  \A p, q \in P : p.user = q.user /\ p.course = q.course /\ p.seq < q.seq => Before(P, p.user, q.seq) = Catalogue

LEMMA NoRepeatIs == NoRepeatInWeek <=> NoRepeat(picks)
<1>1. \A p, q \in picks :
        {r.course : r \in {s \in picks : s.user = p.user /\ s.seq < q.seq}} = Before(picks, p.user, q.seq)
  BY DEF Before
<1>2. NoRepeat(picks) <=>
        \A p, q \in picks : p.user = q.user /\ p.course = q.course /\ p.seq < q.seq =>
            {r.course : r \in {s \in picks : s.user = p.user /\ s.seq < q.seq}} = Catalogue
  BY <1>1, Zenon DEF NoRepeat
<1> QED
  BY <1>2, Zenon DEF NoRepeatInWeek

LEMMA NoRepeatNext == NoRepeat(picks') => NoRepeatInWeek'
<1>1. \A u, k : {r.course : r \in {s \in picks' : s.user = u /\ s.seq < k}} = Before(picks', u, k)
  BY DEF Before
<1> QED
  BY <1>1 DEF NoRepeatInWeek, NoRepeat

\* The same picks for a reader of the week: of a pick only its cost may differ.
SameView(p, q) == /\ p.user = q.user /\ p.seq = q.seq /\ p.course = q.course
                  /\ (p.dismissed <=> q.dismissed)

LEMMA CostChangeKeepsWeeks ==
  ASSUME FeaturedTyped, WeeksRight, NEW p \in picks, NEW r, SameView(p, r), picks' = (picks \ {p}) \cup {r}
  PROVE  WeeksRight'
<1>1. \A q \in picks : \E s \in picks' : SameView(q, s)
  BY DEF SameView
<1>2. \A s \in picks' : \E q \in picks : SameView(q, s)
  BY DEF SameView
<1>3. OnePerNumber'
  <2>1. \A q \in picks : q.user = r.user /\ q.seq = r.seq => q = p
    BY DEF WeeksRight, OnePerNumber, SameView
  <2> QED
    BY <2>1 DEF WeeksRight, OnePerNumber
<1>4. \A u, k : Before(picks', u, k) = Before(picks, u, k)
  <2>1. ASSUME NEW u, NEW k, NEW c
        PROVE  c \in Before(picks', u, k) <=> c \in Before(picks, u, k)
    <3>1. c \in Before(picks, u, k) <=> \E q \in picks : q.user = u /\ q.seq < k /\ q.course = c
      BY DEF Before
    <3>2. c \in Before(picks', u, k) <=> \E q \in picks' : q.user = u /\ q.seq < k /\ q.course = c
      BY DEF Before
    <3> QED
      BY <1>1, <1>2, <3>1, <3>2 DEF SameView
  <2> QED
    BY <2>1
<1>5. NoRepeat(picks')
  <2>1. SUFFICES ASSUME NEW q \in picks', NEW s \in picks',
                        q.user = s.user, q.course = s.course, q.seq < s.seq
                 PROVE  Before(picks', q.user, s.seq) = Catalogue
    BY DEF NoRepeat
  <2>2. PICK q0 \in picks, s0 \in picks : SameView(q0, q) /\ SameView(s0, s)
    BY <1>2
  <2>3. NoRepeat(picks)
    BY NoRepeatIs DEF WeeksRight
  <2>4. Before(picks, q0.user, s0.seq) = Catalogue
    BY <2>1, <2>2, <2>3 DEF NoRepeat, SameView
  <2> QED
    BY <1>4, <2>2, <2>4 DEF SameView
<1>6. \A u, n : WeekUpTo(u, n) => WeekUpTo(u, n)'
  BY <1>1, <1>2 DEF WeekUpTo, SameView
<1>7. NoRepeatInWeek'
  BY <1>5, NoRepeatNext
<1> QED
  BY <1>3, <1>6, <1>7 DEF WeeksRight

\* A pick is added after the last one of its user's week, which is on show no more.
LEMMA AddedPickKeepsWeeks ==
  ASSUME FeaturedTyped, WeeksRight, NEW u \in FeaturedUsers, NEW n \in 0..LastSequence, WeekUpTo(u, n),
         n < LastSequence, NEW q \in PickRow, q.user = u, q.seq = n + 1, ~q.dismissed,
         q.course \in FeaturedThisWeek(u) => FeaturedThisWeek(u) = Catalogue,
         picks' = {p \in picks : p.user # u}
                    \cup {[p EXCEPT !.dismissed = TRUE] : p \in {r \in picks : r.user = u}} \cup {q}
  PROVE  WeeksRight'
<1> DEFINE old == {p \in picks : p.user = u}
           dim == {[p EXCEPT !.dismissed = TRUE] : p \in old}
<1>0. n \in Nat /\ OnePerNumber /\ NoRepeat(picks) /\ picks \subseteq PickRow
  BY FeaturedConstants, NoRepeatIs DEF WeeksRight, FeaturedTyped
<1>1. /\ \A p \in old : p \in PickRow /\ p.user = u /\ p.seq \in 1..n
  BY <1>0, OnShow
<1>2. \A p \in dim : \E r \in old : p.user = u /\ p.seq = r.seq /\ p.course = r.course /\ p.dismissed /\ p = [r EXCEPT !.dismissed = TRUE]
  BY <1>1 DEF PickRow
<1>3. \A r \in old : \E p \in dim : p.user = u /\ p.seq = r.seq /\ p.course = r.course /\ p.dismissed /\ p = [r EXCEPT !.dismissed = TRUE]
  <2>1. SUFFICES ASSUME NEW r \in old
                 PROVE  \E p \in dim : p.user = u /\ p.seq = r.seq /\ p.course = r.course /\ p.dismissed /\ p = [r EXCEPT !.dismissed = TRUE]
    OBVIOUS
  <2>2. [r EXCEPT !.dismissed = TRUE] \in dim
    OBVIOUS
  <2> QED
    BY <1>1, <2>2 DEF PickRow
<1>4. picks' = (picks \ old) \cup dim \cup {q}
  OBVIOUS
<1>5. \A p \in picks : p \in old <=> p.user = u
  OBVIOUS
<1> HIDE DEF old, dim
<1>6. OnePerNumber'
  <2>1. ASSUME NEW p \in picks', NEW r \in picks', p.user = r.user, p.seq = r.seq
        PROVE  p = r
    <3>1. CASE p.user # u
      <4>1. p \in picks /\ r \in picks
        BY <1>2, <1>4, <2>1, <3>1
      <4> QED
        BY <1>0, <2>1, <4>1 DEF OnePerNumber
    <3>2. CASE p.user = u
      <4>1. p \in dim \cup {q} /\ r \in dim \cup {q}
        BY <1>4, <1>5, <2>1, <3>2
      <4>2. \A s \in dim : s.seq \in 1..n
        BY <1>1, <1>2
      <4>3. CASE p = q \/ r = q
        BY <1>0, <2>1, <4>1, <4>2, <4>3
      <4>4. CASE p \in dim /\ r \in dim
        <5>1. PICK p0 \in old, r0 \in old :
                /\ p.seq = p0.seq /\ p = [p0 EXCEPT !.dismissed = TRUE]
                /\ r.seq = r0.seq /\ r = [r0 EXCEPT !.dismissed = TRUE]
          BY <1>2, <4>4
        <5>2. p0 \in picks /\ r0 \in picks /\ p0.user = r0.user
          BY <1>1 DEF old
        <5>3. p0 = r0
          BY <1>0, <2>1, <5>1, <5>2 DEF OnePerNumber
        <5> QED
          BY <5>1, <5>3
      <4> QED
        BY <4>1, <4>3, <4>4
    <3> QED
      BY <3>1, <3>2
  <2> QED
    BY <2>1 DEF OnePerNumber
<1>7. WeekUpTo(u, n + 1)'
  <2>1. ASSUME NEW k \in 1..(n + 1)
        PROVE  \E p \in picks' : p.user = u /\ p.seq = k
    <3>1. CASE k = n + 1
      BY <1>4, <3>1
    <3>2. CASE k # n + 1
      <4>1. k \in 1..n
        BY <1>0, <3>2
      <4>2. PICK r \in picks : r.user = u /\ r.seq = k
        BY <4>1 DEF WeekUpTo
      <4>3. PICK p \in dim : p.user = u /\ p.seq = r.seq
        BY <1>3, <1>5, <4>2
      <4> QED
        BY <1>4, <4>2, <4>3
    <3> QED
      BY <3>1, <3>2
  <2>2. ASSUME NEW p \in picks', p.user = u
        PROVE  p.seq <= n + 1 /\ (p.dismissed <=> p.seq < n + 1)
    <3>1. p \in dim \/ p = q
      BY <1>4, <1>5, <2>2
    <3>2. CASE p \in dim
      <4>1. p.dismissed /\ p.seq \in 1..n
        BY <1>1, <1>2, <3>2
      <4> QED
        BY <1>0, <4>1
    <3>3. CASE p = q
      BY <1>0, <3>3
    <3> QED
      BY <3>1, <3>2, <3>3
  <2> QED
    BY <2>1, <2>2 DEF WeekUpTo
<1>8. ASSUME NEW v \in FeaturedUsers, v # u
      PROVE  \E m \in 0..LastSequence : WeekUpTo(v, m)'
  <2>1. PICK m \in 0..LastSequence : WeekUpTo(v, m)
    BY DEF WeeksRight
  <2>2. \A p : p.user = v => (p \in picks' <=> p \in picks)
    BY <1>2, <1>4, <1>5, <1>8
  <2> QED
    BY <2>1, <2>2 DEF WeekUpTo
<1>9. \A v, k : v # u => Before(picks', v, k) = Before(picks, v, k)
  <2>1. ASSUME NEW v, NEW k, v # u
        PROVE  Before(picks', v, k) = Before(picks, v, k)
    <3>1. \A p : p.user = v => (p \in picks' <=> p \in picks)
      BY <1>2, <1>4, <1>5, <2>1
    <3> QED
      BY <3>1 DEF Before
  <2> QED
    BY <2>1
<1>10. \A k \in 1..(n + 1) : Before(picks', u, k) = Before(picks, u, k)
  <2>1. ASSUME NEW k \in 1..(n + 1), NEW c
        PROVE  c \in Before(picks', u, k) <=> c \in Before(picks, u, k)
    <3>1. c \in Before(picks, u, k) <=> \E p \in old : p.seq < k /\ p.course = c
      BY <1>5 DEF Before, old
    <3>2. c \in Before(picks', u, k) <=> \E p \in dim \cup {q} : p.user = u /\ p.seq < k /\ p.course = c
      BY <1>4, <1>5 DEF Before
    <3>3. ~(q.seq < k)
      BY <1>0
    <3>4. (\E p \in dim : p.user = u /\ p.seq < k /\ p.course = c) <=> \E p \in old : p.seq < k /\ p.course = c
      BY <1>2, <1>3
    <3> QED
      BY <3>1, <3>2, <3>3, <3>4
  <2> QED
    BY <2>1
<1>11. Before(picks, u, n + 1) = FeaturedThisWeek(u)
  <2>1. \A p \in picks : p.user = u => p.seq < n + 1
    BY <1>0, <1>1, <1>5
  <2> QED
    BY <2>1 DEF Before, FeaturedThisWeek
<1>12. NoRepeat(picks')
  <2>1. SUFFICES ASSUME NEW p \in picks', NEW r \in picks',
                        p.user = r.user, p.course = r.course, p.seq < r.seq
                 PROVE  Before(picks', p.user, r.seq) = Catalogue
    BY DEF NoRepeat
  <2>2. CASE p.user # u
    <3>1. p \in picks /\ r \in picks
      BY <1>2, <1>4, <2>1, <2>2
    <3>2. Before(picks, p.user, r.seq) = Catalogue
      BY <1>0, <2>1, <3>1 DEF NoRepeat
    <3> QED
      BY <1>9, <2>2, <3>2
  <2>3. CASE p.user = u
    <3>1. p \in dim \cup {q} /\ r \in dim \cup {q} /\ \A s \in dim : s.seq \in 1..n
      BY <1>1, <1>2, <1>4, <1>5, <2>1, <2>3
    <3>2. p \in dim /\ p.seq \in 1..n
      BY <1>0, <2>1, <3>1
    <3>3. PICK p0 \in old : p.seq = p0.seq /\ p.course = p0.course
      BY <1>2, <3>2
    <3>4. CASE r = q
      <4>1. q.course \in FeaturedThisWeek(u)
        BY <1>5, <2>1, <3>3, <3>4 DEF FeaturedThisWeek, old
      <4>2. r.seq = n + 1 /\ r.seq \in 1..(n + 1)
        BY <1>0, <3>4
      <4> QED
        BY <1>10, <1>11, <2>3, <4>1, <4>2
    <3>5. CASE r \in dim
      <4>1. PICK r0 \in old : r.seq = r0.seq /\ r.course = r0.course
        BY <1>2, <3>5
      <4>2. p0 \in picks /\ r0 \in picks /\ p0.user = u /\ r0.user = u
        BY <1>1 DEF old
      <4>3. Before(picks, u, r0.seq) = Catalogue
        BY <1>0, <2>1, <3>3, <4>1, <4>2 DEF NoRepeat
      <4>4. r.seq \in 1..(n + 1)
        BY <1>0, <3>1, <3>5
      <4> QED
        BY <1>10, <2>3, <4>1, <4>3, <4>4
    <3> QED
      BY <3>1, <3>4, <3>5
  <2> QED
    BY <2>2, <2>3
<1>13. NoRepeatInWeek'
  BY <1>12, NoRepeatNext
<1>14. n + 1 \in 0..LastSequence
  BY <1>0, FeaturedConstants
<1> QED
  BY <1>6, <1>7, <1>8, <1>13, <1>14 DEF WeeksRight

-----------------------------------------------------------------------------
(* Featured: the steps that store a pick or a cost.                        *)

LEMMA PickIs ==
  ASSUME FeaturedInv, NEW j \in Asks, asks[j].pc = "inserting"
  PROVE  /\ Pick(j) \in PickRow /\ Pick(j).user = asks[j].user /\ Pick(j).seq = asks[j].seq
         /\ Pick(j).course = asks[j].course /\ ~Pick(j).dismissed
         /\ Pick(j).cost = (IF j \in paidFor THEN 1 ELSE 0)
<1>1. asks[j] \in AskRow /\ asks[j].user \in FeaturedUsers /\ asks[j].course \in Catalogue /\ asks[j].seq # 0
  BY DEF FeaturedInv, FeaturedTyped, AskRight, AskAlone, Choosing
<1>2. asks[j].seq \in 1..LastSequence
  BY <1>1, FeaturedConstants DEF AskRow
<1>3. (IF j \in paidFor THEN 1 ELSE 0) \in 0..FeaturedRequests
  BY FeaturedConstants DEF Asks
<1> QED
  BY <1>1, <1>2, <1>3 DEF Pick, PickRow, CostPaid

LEMMA RecordedNext == Recorded' = Cardinality(Units(picks'))
BY DEF Recorded, CostOf, Units

LEMMA GetInsertsKeepsInv ==
  ASSUME FeaturedInv, NEW j \in Asks, GetInserts(j)
  PROVE  FeaturedInv'
<1>a. PICK u : u = asks[j].user
  OBVIOUS
<1>0. /\ FeaturedTyped /\ WeeksRight /\ AskRight(j) /\ OneRuns
      /\ UNCHANGED <<deployed, budgetIn, members, epoch, paidFor>>
      /\ asks[j].pc = "inserting" /\ asks[j].kind = "get"
  BY DEF FeaturedInv, GetInserts
<1>1. /\ u \in FeaturedUsers /\ asks[j].seq = 1
      /\ j \in paidFor => asks[j].reserved
  BY <1>0, <1>a DEF AskRight, AskAlone, Choosing
<1>2. Recorded = Cardinality(Units(picks)) /\ Recorded \in Nat /\ IsFiniteSet(picks) /\ picks \subseteq PickRow
  BY <1>0, RecordedUnits DEF FeaturedTyped
<1>3. \/ /\ picks' = picks /\ erased' = erased + CostPaid(j) /\ Leave(j) /\ Release(j)
      \/ /\ \E p \in picks : p.user = u /\ p.seq = 1
         /\ picks' = picks /\ erased' = erased
         /\ IF j \in paidFor THEN Continue(j, "folding") /\ UNCHANGED inflight ELSE Leave(j) /\ Release(j)
      \/ /\ ~\E p \in picks : p.user = u /\ p.seq = 1
         /\ picks' = picks \cup {Pick(j)} /\ erased' = erased /\ Leave(j) /\ Release(j)
  BY <1>a, Zenon DEF GetInserts
\* The race for the first pick is lost, with a cost to be added to it.
<1>4. CASE /\ \E p \in picks : p.user = u /\ p.seq = 1
           /\ picks' = picks /\ erased' = erased /\ j \in paidFor /\ Continue(j, "folding") /\ UNCHANGED inflight
  <2>b. PICK b : b = asks[j]
    OBVIOUS
  <2>c. PICK a : a = [b EXCEPT !.pc = "folding"]
    OBVIOUS
  <2>1. b \in AskRow /\ b.pc = "inserting" /\ AskAlone(b, TRUE)
    BY <1>0, <1>4, <2>b DEF FeaturedTyped, AskRight, AskAlone
  <2>2. /\ a \in AskRow /\ a.pc = "folding" /\ (a.reserved <=> b.reserved) /\ a.user = b.user /\ a.worker = b.worker
    BY <2>1, <2>c DEF AskRow, Synchronous
  <2>3. asks' = [asks EXCEPT ![j] = a]
    BY <1>4, <2>b, <2>c DEF Continue
  <2>4. OnlyAsk(j) /\ asks'[j] = a
    BY <1>0, <2>2, <2>3 DEF OnlyAsk, FeaturedTyped
  <2>5. AskRight(j)'
    <3>1. \E p \in picks' : p.user = a.user
      BY <1>4, <1>a, <2>2, <2>b
    <3>2. AskAlone(a, j \in paidFor)'
      BY <1>0, <1>4, <2>1, <2>2 DEF AskAlone, Choosing
    <3> QED
      BY <2>2, <2>4, <3>1, <3>2 DEF AskRight, IsDismissing, Choosing
  <2>6. RunsThere(j) /\ DismissesThere(j)
    BY <1>0, <2>2, <2>4, <2>b DEF RunsThere, DismissesThere, IsDismissing, Choosing, OneRuns, Synchronous
  <2> QED
    BY <1>0, <1>4, <2>2, <2>4, <2>5, <2>6, <2>b, AskMoves
<1>5. CASE picks' = picks /\ erased' = erased /\ j \notin paidFor /\ Leave(j) /\ Release(j)
  <2>1. erased' = erased + CostPaid(j)
    BY <1>0, <1>5 DEF CostPaid, FeaturedTyped
  <2> QED
    BY <1>0, <1>5, <2>1, CostErasedKeepsInv
<1>6. CASE /\ ~\E p \in picks : p.user = u /\ p.seq = 1
           /\ picks' = picks \cup {Pick(j)} /\ erased' = erased /\ Leave(j) /\ Release(j)
  <2>q. PICK q : q = Pick(j)
    OBVIOUS
  <2>1. /\ q \in PickRow /\ q.user = u /\ q.seq = 1 /\ ~q.dismissed
        /\ q.cost = (IF j \in paidFor THEN 1 ELSE 0)
    BY <1>0, <1>1, <1>a, <2>q, PickIs
  <2>2. Active(u) = {} /\ \A p \in picks : p.user # u
    BY <1>0, <1>1, <1>6, OneOnShow
  <2>3. OnlyAsk(j)
    BY <1>0, <1>6, LeaveIs
  <2>4. WeeksRight'
    <3>1. PICK n \in 0..LastSequence : WeekUpTo(u, n)
      BY <1>0, <1>1 DEF WeeksRight
    <3>2. n = 0 /\ n < LastSequence /\ n + 1 = 1
      BY <1>0, <2>2, <3>1, OnShow, FeaturedConstants DEF WeeksRight
    <3>3. q.course \notin FeaturedThisWeek(u)
      BY <2>2 DEF FeaturedThisWeek
    <3>4. picks' = {p \in picks : p.user # u}
                    \cup {[p EXCEPT !.dismissed = TRUE] : p \in {r \in picks : r.user = u}} \cup {q}
      BY <1>6, <2>2, <2>q
    <3> QED
      BY <1>0, <1>1, <2>1, <3>1, <3>2, <3>3, <3>4, AddedPickKeepsWeeks
  <2>5. \A i \in Asks \ {j} : AskRight(i)'
    <3>1. \A i \in Asks : ~IsDismissing(asks[i], u)
      BY <2>2 DEF FeaturedInv, AskRight, IsDismissing, Follows
    <3>2. \A p : p.user # u => (p \in picks' <=> p \in picks)
      BY <1>6, <2>1, <2>q
    <3> QED
      BY <1>0, <2>2, <2>3, <3>1, <3>2, OthersStayRight
  <2>6. q \notin picks
    BY <2>1, <2>2
  <2>7. picks' \subseteq PickRow /\ IsFiniteSet(picks')
    BY <1>2, <1>6, <2>1, <2>q, FS_AddElement
  <2>8. Recorded' = Recorded + q.cost
    BY <1>2, <1>6, <2>1, <2>6, <2>q, UnitsPlus, RecordedNext
  <2>9. q.cost \in Nat /\ Recorded' \in Nat /\ Recorded' <= Recorded + q.cost
    BY <1>2, <2>1, <2>8
  <2> QED
    BY <1>0, <1>6, <2>1, <2>4, <2>5, <2>7, <2>8, <2>9, LeavingKeepsInv
<1>7. CASE picks' = picks /\ erased' = erased + CostPaid(j) /\ Leave(j) /\ Release(j)
  BY <1>0, <1>7, CostErasedKeepsInv
<1> QED
  BY <1>3, <1>4, <1>5, <1>6, <1>7

LEMMA DismissIsAbortedKeepsInv ==
  ASSUME FeaturedInv, NEW j \in Asks, DismissIsAborted(j)
  PROVE  FeaturedInv'
BY CostErasedKeepsInv DEF DismissIsAborted

LEMMA DismissCommitsKeepsInv ==
  ASSUME FeaturedInv, NEW j \in Asks, DismissCommits(j)
  PROVE  FeaturedInv'
<1>a. PICK u : u = asks[j].user
  OBVIOUS
<1>q. PICK q : q = Pick(j)
  OBVIOUS
<1>0. /\ FeaturedTyped /\ WeeksRight /\ AskRight(j) /\ OneDismisses
      /\ UNCHANGED <<deployed, budgetIn, members, erased, epoch, paidFor>> /\ Leave(j) /\ Release(j)
      /\ asks[j].pc = "inserting" /\ asks[j].kind = "dismiss"
      /\ picks' = (picks \ Active(u)) \cup {[p EXCEPT !.dismissed = TRUE] : p \in Active(u)} \cup {q}
  BY <1>a, <1>q DEF FeaturedInv, DismissCommits
<1>1. u \in FeaturedUsers /\ IsDismissing(asks[j], u) /\ Follows(asks[j])
  BY <1>0, <1>a DEF AskRight, AskAlone, IsDismissing, Choosing
<1>2. Recorded = Cardinality(Units(picks)) /\ Recorded \in Nat /\ IsFiniteSet(picks) /\ picks \subseteq PickRow
  BY <1>0, RecordedUnits DEF FeaturedTyped
<1>3. PICK p \in Active(u) : asks[j].seq = p.seq + 1
  BY <1>1, <1>a DEF Follows
<1>4. PICK n \in 0..LastSequence : WeekUpTo(u, n)
  BY <1>0, <1>1 DEF WeeksRight
<1>5. /\ p.seq = n /\ Active(u) = {p} /\ p \in picks /\ p.user = u /\ p \in PickRow
      /\ \A r \in picks : r.user = u => r.seq \in 1..n
  BY <1>0, <1>2, <1>3, <1>4, OnShow DEF WeeksRight, Active
<1>6. /\ q \in PickRow /\ q.user = u /\ q.seq = n + 1 /\ ~q.dismissed /\ q.course = asks[j].course
      /\ q.cost = (IF j \in paidFor THEN 1 ELSE 0)
  BY <1>0, <1>3, <1>5, <1>a, <1>q, PickIs
<1>7. n \in Nat /\ n < LastSequence
  BY <1>6, FeaturedConstants DEF PickRow
<1>r. PICK r : r = [p EXCEPT !.dismissed = TRUE]
  OBVIOUS
<1>8. r \in PickRow /\ r.user = u /\ r.seq = n /\ r.cost = p.cost
  BY <1>5, <1>r DEF PickRow
<1>9. picks' = ((picks \ {p}) \cup {r}) \cup {q}
  BY <1>0, <1>5, <1>r
<1>10. OnlyAsk(j)
  BY <1>0, LeaveIs
<1>11. WeeksRight'
  <2>1. q.course \in FeaturedThisWeek(u) => FeaturedThisWeek(u) = Catalogue
    BY <1>1, <1>6, <1>a DEF Follows
  <2>2. ASSUME NEW s \in picks, s.user = u, s # p
        PROVE  [s EXCEPT !.dismissed = TRUE] = s
    <3>1. s.seq # n
      BY <1>0, <1>5, <2>2 DEF WeeksRight, OnePerNumber
    <3>2. s.dismissed /\ s \in PickRow
      BY <1>2, <1>4, <1>5, <1>7, <2>2, <3>1 DEF WeekUpTo
    <3>3. s.dismissed = TRUE
      BY <3>2 DEF PickRow
    <3> QED
      BY <3>2, <3>3 DEF PickRow
  <2>3. picks' = {s \in picks : s.user # u}
                    \cup {[s EXCEPT !.dismissed = TRUE] : s \in {v \in picks : v.user = u}} \cup {q}
    BY <1>5, <1>9, <1>r, <2>2
  <2> QED
    BY <1>0, <1>1, <1>4, <1>6, <1>7, <2>1, <2>3, AddedPickKeepsWeeks
<1>12. \A i \in Asks \ {j} : AskRight(i)'
  <2>1. \A i \in Asks \ {j} : ~IsDismissing(asks[i], u)
    BY <1>0, <1>1, <1>a DEF OneDismisses, IsDismissing
  <2>2. \A s : s.user # u => (s \in picks' <=> s \in picks)
    BY <1>5, <1>6, <1>8, <1>9
  <2>3. \E s \in picks' : s.user = u
    BY <1>6, <1>9
  <2> QED
    BY <1>0, <1>10, <2>1, <2>2, <2>3, OthersStayRight
<1>13. /\ Recorded' = Recorded + q.cost /\ q.cost \in Nat
       /\ picks' \subseteq PickRow /\ IsFiniteSet(picks')
  <2> DEFINE P == (picks \ {p}) \cup {r}
  <2>1. r \notin picks \ {p}
    BY <1>0, <1>5, <1>8 DEF WeeksRight, OnePerNumber
  <2>2. Cardinality(Units(P)) = Cardinality(Units(picks)) - p.cost + r.cost /\ IsFiniteSet(P)
    BY <1>2, <1>5, <1>8, <2>1, UnitsReplaced
  <2>3. p.cost \in Nat /\ q.cost \in Nat
    BY <1>5, <1>6, FeaturedConstants DEF PickRow
  <2>4. Cardinality(Units(P)) = Recorded
    BY <1>2, <1>8, <2>2, <2>3
  <2>5. q \notin P /\ P \subseteq PickRow
    BY <1>2, <1>5, <1>6, <1>7, <1>8
  <2> HIDE DEF P
  <2>6. Cardinality(Units(P \cup {q})) = Cardinality(Units(P)) + q.cost /\ IsFiniteSet(P \cup {q})
    BY <1>6, <2>2, <2>5, UnitsPlus, FS_AddElement
  <2>7. picks' = P \cup {q}
    BY <1>9 DEF P
  <2> QED
    BY <1>6, <2>3, <2>4, <2>5, <2>6, <2>7, RecordedNext
<1>14. Recorded' \in Nat /\ Recorded' <= Recorded + q.cost
  BY <1>2, <1>13
<1> QED
  BY <1>0, <1>6, <1>11, <1>12, <1>13, <1>14, LeavingKeepsInv

\* A cost is added to the pick on show.
LEMMA CostAddedKeepsInv ==
  ASSUME FeaturedInv, NEW j \in Asks, asks[j].pc \in {"folding", "waiting"}, Leave(j), Release(j),
         UNCHANGED <<deployed, budgetIn, members, erased, epoch, paidFor>>,
         NEW u \in FeaturedUsers, u = asks[j].user, Dismissing(u) = {}, NEW p \in Active(u),
         picks' = (picks \ {p}) \cup {[p EXCEPT !.cost = @ + 1]}
  PROVE  FeaturedInv'
<1>0. FeaturedTyped /\ WeeksRight /\ AskRight(j) /\ CostsRight
  BY DEF FeaturedInv
<1>r. PICK r : r = [p EXCEPT !.cost = @ + 1]
  OBVIOUS
<1>1. p \in picks /\ p.user = u /\ p \in PickRow /\ p.cost \in Nat /\ IsFiniteSet(picks) /\ picks \subseteq PickRow
  BY <1>0, FeaturedConstants DEF Active, FeaturedTyped, PickRow
<1>2. Recorded = Cardinality(Units(picks)) /\ Recorded \in Nat
  BY <1>0, RecordedUnits
<1>3. OnlyAsk(j) /\ j \in paidFor
  BY <1>0, LeaveIs DEF AskRight, AskAlone
<1>4. p.cost + 1 <= FeaturedRequests
  <2>1. p.cost <= Recorded
    <3>1. p \notin picks \ {p}
      OBVIOUS
    <3> QED
      BY <1>1, <1>2, <3>1, UnitsReplaced
  <2>2. Recorded + erased <= Cardinality(PaidAndLeft) /\ erased \in Nat
    BY <1>0 DEF CostsRight, FeaturedTyped
  <2>3. PaidAndLeft \subseteq Asks /\ j \notin PaidAndLeft
    BY <1>0 DEF PaidAndLeft, FeaturedTyped
  <2>4. Cardinality(PaidAndLeft) < Cardinality(Asks) /\ Cardinality(PaidAndLeft) \in Nat
    BY <2>3, FeaturedConstants, FewerElements
  <2>5. Cardinality(Asks) = FeaturedRequests
    BY UpTo, FeaturedConstants DEF Asks
  <2> QED
    BY <1>1, <1>2, <2>1, <2>2, <2>4, <2>5, FeaturedConstants
<1>5. r \in PickRow /\ r.cost = p.cost + 1 /\ SameView(p, r)
  BY <1>1, <1>4, <1>r, FeaturedConstants DEF PickRow, SameView
<1>6. picks' = (picks \ {p}) \cup {r}
  BY <1>r
<1>7. WeeksRight'
  BY <1>0, <1>1, <1>5, <1>6, CostChangeKeepsWeeks
<1>8. r \notin picks \ {p}
  BY <1>0, <1>1, <1>5 DEF WeeksRight, OnePerNumber, SameView
<1>9. Recorded' = Recorded + 1 /\ picks' \subseteq PickRow /\ IsFiniteSet(picks')
  <2>1. /\ Cardinality(Units((picks \ {p}) \cup {r})) = Cardinality(Units(picks)) - p.cost + r.cost
        /\ IsFiniteSet((picks \ {p}) \cup {r})
    BY <1>1, <1>5, <1>8, UnitsReplaced
  <2>2. Recorded' = Recorded - p.cost + r.cost
    BY <1>2, <1>6, <2>1, RecordedNext
  <2>3. Recorded' = Recorded + 1
    BY <1>1, <1>2, <1>5, <2>2
  <2> QED
    BY <1>1, <1>5, <1>6, <2>1, <2>3
<1>10. \A i \in Asks \ {j} : AskRight(i)'
  <2>1. \A i \in Asks : ~IsDismissing(asks[i], u)
    BY NobodyDismisses
  <2>2. \A s : s.user # u => (s \in picks' <=> s \in picks)
    BY <1>1, <1>5, <1>6 DEF SameView
  <2>3. \E s \in picks' : s.user = u
    BY <1>1, <1>5, <1>6 DEF SameView
  <2> QED
    BY <1>3, <2>1, <2>2, <2>3, OthersStayRight
<1>11. PICK cost : cost = 1 /\ cost = IF j \in paidFor THEN 1 ELSE 0
  BY <1>3
<1>12. Recorded' \in Nat /\ Recorded' <= Recorded + cost /\ Recorded' = Recorded + cost
  BY <1>2, <1>9, <1>11
<1> QED
  BY <1>7, <1>9, <1>10, <1>11, <1>12, LeavingKeepsInv

LEMMA FoldKeepsInv ==
  ASSUME FeaturedInv, NEW j \in Asks, CostIsFolded(j)
  PROVE  FeaturedInv'
<1>a. PICK u : u = asks[j].user
  OBVIOUS
<1>0. /\ FeaturedTyped /\ WeeksRight /\ AskRight(j) /\ OneRuns
      /\ UNCHANGED <<deployed, budgetIn, members, epoch, paidFor>> /\ asks[j].pc = "folding"
  BY DEF FeaturedInv, CostIsFolded
<1>1. u \in FeaturedUsers /\ j \in paidFor
  BY <1>0, <1>a DEF AskRight, AskAlone
<1>2. \A p \in Active(u) : Active(u) = {p}
  BY <1>0, <1>1, OneOnShow
<1>3. CASE Dismissing(u) # {}
  <2>1. PICK p \in Active(u) : /\ asks' = [asks EXCEPT ![j].pc = "waiting", ![j].seq = p.seq]
                               /\ UNCHANGED <<picks, inflight, erased>>
    BY <1>3, <1>a DEF CostIsFolded
  <2>b. PICK b : b = asks[j]
    OBVIOUS
  <2>c. PICK a : a = [b EXCEPT !.pc = "waiting", !.seq = p.seq]
    OBVIOUS
  <2>2. b \in AskRow /\ b.pc = "folding" /\ AskAlone(b, TRUE)
    BY <1>0, <1>1, <2>b DEF FeaturedTyped, AskRight, AskAlone
  <2>3. p.seq \in 0..LastSequence
    BY <1>0, FeaturedConstants DEF Active, FeaturedTyped, PickRow
  <2>4. /\ a \in AskRow /\ a.pc = "waiting" /\ (a.reserved <=> b.reserved) /\ a.user = b.user /\ a.worker = b.worker
    BY <2>2, <2>3, <2>c DEF AskRow, Synchronous
  <2>5. asks' = [asks EXCEPT ![j] = a]
    BY <1>0, <2>1, <2>b, <2>c DEF FeaturedTyped
  <2>6. OnlyAsk(j) /\ asks'[j] = a
    BY <1>0, <2>4, <2>5 DEF OnlyAsk, FeaturedTyped
  <2>7. AskRight(j)'
    <3>1. \E r \in picks' : r.user = a.user
      BY <1>a, <2>1, <2>4, <2>b DEF Active
    <3>2. AskAlone(a, j \in paidFor)'
      BY <1>0, <1>1, <2>2, <2>4 DEF AskAlone, Choosing
    <3> QED
      BY <2>4, <2>6, <3>1, <3>2 DEF AskRight, IsDismissing, Choosing
  <2>8. RunsThere(j) /\ DismissesThere(j)
    BY <1>0, <2>4, <2>6, <2>b DEF RunsThere, DismissesThere, IsDismissing, Choosing, OneRuns, Synchronous
  <2>9. OneWorker => \E i \in Asks \ {j} : IsDismissing(asks[i], u) /\ asks[i].pc = "calling"
    <3>1. SUFFICES ASSUME OneWorker
                   PROVE  \E i \in Asks \ {j} : IsDismissing(asks[i], u) /\ asks[i].pc = "calling"
      OBVIOUS
    <3>2. PICK i \in Asks : IsDismissing(asks[i], u)
      BY <1>3 DEF Dismissing, IsDismissing, Choosing
    <3>3. i # j
      BY <1>0, <3>2 DEF IsDismissing, Choosing
    <3>4. asks[i].pc \notin Synchronous
      BY <1>0, <3>1, <3>3, Solo DEF Synchronous
    <3> QED
      BY <3>2, <3>3, <3>4 DEF IsDismissing, Choosing, Synchronous
  <2> QED
    BY <1>0, <1>1, <1>a, <2>1, <2>2, <2>4, <2>6, <2>7, <2>8, <2>9, <2>b, AskMoves
<1>4. CASE Dismissing(u) = {} /\ Active(u) # {}
  <2>1. PICK p \in Active(u) : Active(u) = {p}
    BY <1>2, <1>4
  <2>2. /\ picks' = (picks \ Active(u)) \cup UNION {CostAdded(s) : s \in Active(u)}
        /\ Leave(j) /\ Release(j) /\ erased' = erased
    BY <1>4, <1>a DEF CostIsFolded, CostIsErased
  <2>3. picks' = (picks \ {p}) \cup {[p EXCEPT !.cost = @ + 1]}
    BY <2>1, <2>2 DEF CostAdded
  <2> QED
    BY <1>0, <1>1, <1>4, <1>a, <2>2, <2>3, CostAddedKeepsInv
<1>5. CASE Dismissing(u) = {} /\ Active(u) = {}
  <2>1. /\ picks' = (picks \ Active(u)) \cup UNION {CostAdded(s) : s \in Active(u)}
        /\ Leave(j) /\ Release(j) /\ erased' = erased + 1
    BY <1>5, <1>a DEF CostIsFolded, CostIsErased
  <2>2. picks' = picks /\ CostPaid(j) = 1
    BY <1>1, <1>5, <2>1 DEF CostPaid
  <2> QED
    BY <1>0, <2>1, <2>2, CostErasedKeepsInv
<1> QED
  BY <1>3, <1>4, <1>5

LEMMA ResumeKeepsInv ==
  ASSUME FeaturedInv, NEW j \in Asks, FoldingResumes(j)
  PROVE  FeaturedInv'
<1>a. PICK u : u = asks[j].user
  OBVIOUS
<1>b. PICK same : same = {p \in Active(u) : p.seq = asks[j].seq}
  OBVIOUS
<1>0. /\ FeaturedTyped /\ WeeksRight /\ AskRight(j) /\ CostsRight
      /\ UNCHANGED <<deployed, budgetIn, members, epoch, paidFor>> /\ asks[j].pc = "waiting" /\ Dismissing(u) = {}
      /\ picks' = (picks \ same) \cup UNION {CostAdded(p) : p \in same} /\ Leave(j) /\ Release(j)
      /\ erased' = IF Active(u) = {} THEN erased + 1 ELSE erased
  BY <1>a, <1>b, Zenon DEF FeaturedInv, FoldingResumes, CostIsErased
<1>1. u \in FeaturedUsers /\ j \in paidFor
  BY <1>0, <1>a DEF AskRight, AskAlone
<1>2. \A p \in Active(u) : Active(u) = {p}
  BY <1>0, <1>1, OneOnShow
<1>3. ASSUME NEW p \in same
      PROVE  FeaturedInv'
  <2>1. p \in Active(u) /\ same = {p} /\ erased' = erased
    BY <1>0, <1>2, <1>3, <1>b
  <2>2. picks' = (picks \ {p}) \cup {[p EXCEPT !.cost = @ + 1]}
    BY <1>0, <2>1 DEF CostAdded
  <2> QED
    BY <1>0, <1>1, <1>a, <2>1, <2>2, CostAddedKeepsInv
\* The cost is lost: several workers run.
<1>4. CASE same = {} /\ Active(u) # {}
  <2>1. picks' = picks /\ erased' = erased
    BY <1>0, <1>4
  <2>2. OnlyAsk(j)
    BY <1>0, LeaveIs
  <2>3. /\ \A i \in Asks \ {j} : AskRight(i)'
        /\ WeeksRight' /\ Recorded' = Recorded
    BY <1>0, <2>1, <2>2, PicksStayRight
  <2>4. ~OneWorker
    BY <1>0, <1>a, NobodyDismisses DEF CostsRight
  <2>5. picks' \subseteq PickRow /\ IsFiniteSet(picks') /\ Recorded \in Nat
    BY <1>0, <2>1, RecordedUnits DEF FeaturedTyped
  <2>6. PICK cost : cost = 1 /\ cost = IF j \in paidFor THEN 1 ELSE 0
    BY <1>1
  <2>7. Recorded' \in Nat /\ Recorded' <= Recorded + cost
    BY <2>3, <2>5, <2>6
  <2> QED
    BY <1>0, <2>1, <2>3, <2>4, <2>5, <2>6, <2>7, LeavingKeepsInv
<1>5. CASE same = {} /\ Active(u) = {}
  <2>1. picks' = picks /\ erased' = erased + CostPaid(j)
    BY <1>0, <1>1, <1>5 DEF CostPaid
  <2> QED
    BY <1>0, <2>1, CostErasedKeepsInv
<1> QED
  BY <1>3, <1>4, <1>5

LEMMA AccountIsDeletedKeepsInv ==
  ASSUME FeaturedInv, NEW u \in FeaturedUsers, AccountIsDeleted(u)
  PROVE  FeaturedInv'
<1>m. PICK mine : mine = {p \in picks : p.user = u}
  OBVIOUS
<1>0. /\ FeaturedTyped /\ WeeksRight /\ CostsRight
      /\ UNCHANGED <<deployed, budgetIn, inflight, epoch, asks, paidFor>> /\ Dismissing(u) = {}
      /\ members' = members \ {u} /\ picks' = picks \ mine /\ erased' = erased + CostOf(mine)
  BY <1>m DEF FeaturedInv, AccountIsDeleted
<1>1. /\ picks \subseteq PickRow /\ IsFiniteSet(picks) /\ IsFiniteSet(mine) /\ IsFiniteSet(picks')
      /\ picks' \subseteq picks /\ mine \subseteq picks
  <2>1. picks' \subseteq picks /\ mine \subseteq picks
    BY <1>0, <1>m
  <2>2. picks \subseteq PickRow /\ IsFiniteSet(picks)
    BY <1>0 DEF FeaturedTyped
  <2> QED
    BY <2>1, <2>2, FS_Subset
<1>2. CostOf(mine) = Cardinality(Units(mine)) /\ CostOf(mine) \in Nat
  <2>1. CostOf(mine) = Cardinality(Units(mine))
    BY DEF CostOf, Units
  <2> QED
    BY <1>1, <2>1, UnitsFinite
<1>3. Recorded' + CostOf(mine) = Recorded /\ Recorded' \in Nat /\ Recorded \in Nat
  <2>1. Recorded = Cardinality(Units(picks)) /\ Recorded \in Nat
    BY <1>0, RecordedUnits
  <2>2. /\ IsFiniteSet(Units(picks')) /\ Cardinality(Units(picks')) \in Nat
        /\ IsFiniteSet(Units(mine)) /\ Cardinality(Units(mine)) \in Nat
    BY <1>1, UnitsFinite
  <2>3. Units(picks) = Units(picks') \cup Units(mine) /\ Units(picks') \cap Units(mine) = {}
    BY <1>0, <1>1 DEF Units
  <2>4. Cardinality(Units(picks') \cup Units(mine))
          = Cardinality(Units(picks')) + Cardinality(Units(mine)) - Cardinality(Units(picks') \cap Units(mine))
    BY <2>2, FS_Union
  <2>5. Cardinality(Units(picks') \cap Units(mine)) = 0
    BY <2>3, FS_EmptySet
  <2>6. Recorded = Cardinality(Units(picks')) + Cardinality(Units(mine)) - 0
    BY <2>1, <2>3, <2>4, <2>5
  <2> QED
    BY <1>2, <2>1, <2>2, <2>6, RecordedNext
<1>4. FeaturedTyped'
  <2>1. erased \in Nat /\ members \subseteq FeaturedUsers
    BY <1>0 DEF FeaturedTyped
  <2>2. erased' \in Nat /\ members' \subseteq FeaturedUsers /\ picks' \subseteq PickRow
    BY <1>0, <1>1, <1>2, <2>1
  <2> QED
    BY <1>0, <1>1, <2>2 DEF FeaturedTyped, PickRow, AskRow, Asks, Synchronous
<1>5. \A p : p.user # u => (p \in picks' <=> p \in picks)
  BY <1>0, <1>m
<1>6. ASSUME NEW i \in Asks
      PROVE  AskRight(i)'
  <2>a. PICK v : v = asks[i].user
    OBVIOUS
  <2>1. AskRight(i)
    BY DEF FeaturedInv
  <2>2. AskAlone(asks[i], i \in paidFor)'
    BY <1>0, <2>1 DEF AskRight, AskAlone
  <2>3. ASSUME IsDismissing(asks[i], v)
        PROVE  Follows(asks[i])'
    <3>1. v # u
      BY <1>0, <2>3, NobodyDismisses
    <3>2. Active(v)' = Active(v) /\ FeaturedThisWeek(v)' = FeaturedThisWeek(v)
      BY <1>5, <3>1 DEF Active, FeaturedThisWeek
    <3>3. Follows(asks[i])
      BY <2>1, <2>3, <2>a DEF AskRight
    <3> QED
      BY <1>0, <2>a, <3>2, <3>3 DEF Follows
  <2>4. v \in members' => v \in members /\ v # u
    BY <1>0
  <2>5. (\E p \in picks : p.user = v) /\ v # u => \E p \in picks' : p.user = v
    BY <1>5
  <2> QED
    BY <1>0, <2>1, <2>2, <2>3, <2>4, <2>5, <2>a DEF AskRight, IsDismissing
<1>7. OneDismisses' /\ OneRuns'
  BY <1>0 DEF FeaturedInv, OneDismisses, OneRuns, IsDismissing
<1>8. WeeksRight'
  <2>1. OnePerNumber'
    BY <1>0, <1>1 DEF WeeksRight, OnePerNumber
  <2>2. \A v, k : v # u => Before(picks', v, k) = Before(picks, v, k)
    BY <1>5 DEF Before
  <2>3. NoRepeat(picks)
    BY <1>0, NoRepeatIs DEF WeeksRight
  <2>4. \A p \in picks' : p.user # u
    BY <1>0, <1>m
  <2>5. NoRepeat(picks')
    BY <1>1, <2>2, <2>3, <2>4 DEF NoRepeat
  <2>6. ASSUME NEW v \in FeaturedUsers
        PROVE  \E m \in 0..LastSequence : WeekUpTo(v, m)'
    <3>1. CASE v = u
      <4>1. WeekUpTo(u, 0)'
        BY <2>4 DEF WeekUpTo
      <4> QED
        BY <3>1, <4>1, FeaturedConstants
    <3>2. CASE v # u
      <4>1. PICK m \in 0..LastSequence : WeekUpTo(v, m)
        BY <1>0 DEF WeeksRight
      <4> QED
        BY <1>5, <3>2, <4>1 DEF WeekUpTo
    <3> QED
      BY <3>1, <3>2
  <2>7. NoRepeatInWeek'
    BY <2>5, NoRepeatNext
  <2> QED
    BY <2>1, <2>6, <2>7 DEF WeeksRight
<1>9. CountersRight'
  BY <1>0 DEF FeaturedInv, CountersRight, Reserved, ReservedBy
<1>10. CostsRight'
  <2>1. Recorded' + erased' = Recorded + erased /\ Recorded' <= Recorded
    <3>1. erased \in Nat
      BY <1>0 DEF FeaturedTyped
    <3> QED
      BY <1>0, <1>2, <1>3, <3>1
  <2>2. Reserved' = Reserved /\ PaidAndLeft' = PaidAndLeft /\ (OneWorker' <=> OneWorker)
    BY <1>0 DEF Reserved, PaidAndLeft, OneWorker
  <2>3. Cardinality(Reserved) \in Nat
    BY ReservedIs
  <2>4. OneWorker => Recorded' + Cardinality(Reserved) <= SpendLimit
    BY <1>0, <1>3, <2>1, <2>3, FeaturedConstants DEF CostsRight
  <2>5. OneWorker => \A j \in Asks : asks[j].pc = "reserving" => asks[j].seen >= Recorded'
    <3>1. \A j \in Asks : asks[j].seen \in Nat
      BY <1>0 DEF FeaturedTyped, AskRow
    <3> QED
      BY <1>0, <1>3, <2>1, <3>1 DEF CostsRight
  <2> QED
    BY <1>0, <2>1, <2>2, <2>4, <2>5 DEF CostsRight, IsDismissing
<1> QED
  BY <1>4, <1>6, <1>7, <1>8, <1>9, <1>10 DEF FeaturedInv

\* What happens around the requests.
LEMMA AroundKeepsInv ==
  ASSUME FeaturedInv, UNCHANGED <<deployed, budgetIn, members, erased, picks, asks, paidFor>>,
         inflight' \in [Workers \cup {"redis"} -> Nat], epoch' \in [Workers -> Nat], CountersRight'
  PROVE  FeaturedInv'
<1>1. FeaturedTyped'
  BY DEF FeaturedInv, FeaturedTyped, PickRow, AskRow, Asks, Synchronous
<1>2. \A u : Active(u)' = Active(u) /\ FeaturedThisWeek(u)' = FeaturedThisWeek(u)
  BY DEF Active, FeaturedThisWeek
<1>3. ASSUME NEW j \in Asks
      PROVE  AskRight(j)'
  <2>1. AskRight(j)
    BY DEF FeaturedInv
  <2>2. AskAlone(asks[j], j \in paidFor)'
    BY <2>1 DEF AskRight, AskAlone
  <2> QED
    BY <1>2, <2>1, <2>2 DEF AskRight, IsDismissing, Follows
<1>4. OneDismisses' /\ OneRuns'
  BY DEF FeaturedInv, OneDismisses, OneRuns, IsDismissing
<1>5. WeeksRight'
  BY DEF FeaturedInv, WeeksRight, OnePerNumber, NoRepeatInWeek, WeekUpTo
<1>6. CostsRight'
  BY DEF FeaturedInv, CostsRight, Recorded, CostOf, PaidAndLeft, OneWorker, Reserved, IsDismissing
<1> QED
  BY <1>1, <1>3, <1>4, <1>5, <1>6 DEF FeaturedInv

LEMMA ExpiryKeepsInv ==
  ASSUME FeaturedInv, ReservationsExpire
  PROVE  FeaturedInv'
<1>0. /\ FeaturedTyped /\ CountersRight /\ UNCHANGED <<deployed, budgetIn, members, erased, picks, epoch, asks, paidFor>>
      /\ inflight' = [inflight EXCEPT !["redis"] = 0] /\ \A j \in Asks : ~asks[j].reserved
  BY DEF FeaturedInv, ReservationsExpire
<1>1. Reserved' = {} /\ \A w : ReservedBy(w)' = {} /\ ReservedBy(w) = {}
  BY <1>0 DEF Reserved, ReservedBy
<1>2. inflight' \in [Workers \cup {"redis"} -> Nat] /\ epoch' \in [Workers -> Nat]
  BY <1>0 DEF FeaturedTyped
<1>3. CountersRight'
  <2>1. Cardinality({}) = 0
    BY FS_EmptySet
  <2>2. budgetIn = "process" => \A w \in Workers : inflight[w] = 0
    BY <1>0, <1>1, <2>1 DEF CountersRight
  <2>3. inflight \in [Workers \cup {"redis"} -> Nat]
    BY <1>0 DEF FeaturedTyped
  <2>4. budgetIn = "process" => \A w \in Workers : inflight'[w] = 0
    BY <1>0, <2>2, <2>3
  <2>5. inflight'["redis"] = 0
    BY <1>0, <2>3
  <2> QED
    BY <1>0, <1>1, <2>1, <2>4, <2>5 DEF CountersRight
<1> QED
  BY <1>0, <1>2, <1>3, AroundKeepsInv

LEMMA EnvironmentKeepsInv ==
  ASSUME FeaturedInv,
         \/ \E w \in Workers : LocksAreCleared(w)
         \/ \E u \in FeaturedUsers, c \in Catalogue : RoundIsPlayed(u, c)
         \/ UNCHANGED featuredVars
  PROVE  FeaturedInv'
<1>0. FeaturedTyped /\ CountersRight
  BY DEF FeaturedInv
<1>1. UNCHANGED <<deployed, budgetIn, members, erased, picks, asks, paidFor, inflight>> /\ epoch' \in [Workers -> Nat]
  <2>1. ASSUME NEW w \in Workers, LocksAreCleared(w)
        PROVE  UNCHANGED <<deployed, budgetIn, members, erased, picks, asks, paidFor, inflight>> /\ epoch' \in [Workers -> Nat]
    BY <1>0, <2>1 DEF LocksAreCleared, FeaturedTyped
  <2>2. ASSUME NEW u \in FeaturedUsers, NEW c \in Catalogue, RoundIsPlayed(u, c)
        PROVE  UNCHANGED <<deployed, budgetIn, members, erased, picks, asks, paidFor, inflight>> /\ epoch' \in [Workers -> Nat]
    BY <1>0, <2>2 DEF RoundIsPlayed, FeaturedTyped
  <2>3. CASE UNCHANGED featuredVars
    BY <1>0, <2>3 DEF featuredVars, FeaturedTyped
  <2> QED
    BY <2>1, <2>2, <2>3
<1>2. CountersRight'
  BY <1>0, <1>1 DEF CountersRight, Reserved, ReservedBy
<1>3. inflight' \in [Workers \cup {"redis"} -> Nat]
  BY <1>0, <1>1 DEF FeaturedTyped
<1> QED
  BY <1>1, <1>2, <1>3, AroundKeepsInv

-----------------------------------------------------------------------------
(* Featured: the theorems.                                                 *)

LEMMA FeaturedInitInv == FeaturedInit => FeaturedInv
<1> SUFFICES ASSUME FeaturedInit PROVE FeaturedInv
  OBVIOUS
<1>1. \A j \in Asks : asks[j] = Idle
  BY DEF FeaturedInit
<1>2. /\ Idle \in AskRow /\ ~Idle.reserved /\ Idle.pc = "away" /\ Idle.kind = "none"
      /\ Idle.pc \notin Synchronous /\ Idle.pc \notin Choosing
  BY IdleTyped DEF Synchronous, Choosing
<1>3. FeaturedTyped
  BY <1>2, FS_EmptySet DEF FeaturedInit, FeaturedTyped
<1>4. \A j \in Asks : AskRight(j)
  BY <1>1, <1>2 DEF AskRight, AskAlone, IsDismissing, FeaturedInit
<1>5. OneDismisses /\ OneRuns
  BY <1>1, <1>2 DEF OneDismisses, OneRuns, IsDismissing
<1>6. WeeksRight
  <2>1. \A u : WeekUpTo(u, 0)
    BY DEF FeaturedInit, WeekUpTo
  <2>2. 0 \in 0..LastSequence
    BY FeaturedConstants
  <2> QED
    BY <2>1, <2>2 DEF FeaturedInit, WeeksRight, OnePerNumber, NoRepeatInWeek
<1>7. Reserved = {} /\ PaidAndLeft = {} /\ Recorded = 0 /\ Cardinality({}) = 0 /\ \A w : ReservedBy(w) = {}
  <2>1. {x \in picks \X Asks : x[2] <= x[1].cost} = {}
    BY DEF FeaturedInit
  <2>2. \A j \in Asks : ~asks[j].reserved /\ asks[j].pc = "away"
    BY <1>1, <1>2
  <2>3. Reserved = {} /\ \A w : ReservedBy(w) = {}
    BY <2>2 DEF Reserved, ReservedBy
  <2>4. PaidAndLeft = {}
    BY <2>2 DEF PaidAndLeft, FeaturedInit
  <2>5. Cardinality({}) = 0
    BY FS_EmptySet
  <2>6. Recorded = 0
    BY Zenon, <2>1, <2>5 DEF Recorded, CostOf
  <2> QED
    BY <2>3, <2>4, <2>5, <2>6
<1>8. CountersRight
  <2>1. Cardinality(Reserved) = 0 /\ \A w : Cardinality(ReservedBy(w)) = 0
    BY Zenon, <1>7
  <2>2. inflight["redis"] = 0 /\ \A w \in Workers : inflight[w] = 0
    BY DEF FeaturedInit
  <2> QED
    BY <2>1, <2>2 DEF CountersRight
<1>9. CostsRight
  <2>1. erased = 0
    BY DEF FeaturedInit
  <2> QED
    BY <1>1, <1>2, <1>7, <2>1, FeaturedConstants DEF CostsRight
<1> QED
  BY <1>3, <1>4, <1>5, <1>6, <1>8, <1>9 DEF FeaturedInv

LEMMA FeaturedStepInv == FeaturedInv /\ [FeaturedNext]_featuredVars => FeaturedInv'
<1> SUFFICES ASSUME FeaturedInv, [FeaturedNext]_featuredVars PROVE FeaturedInv'
  OBVIOUS
<1>1. ASSUME NEW j \in Asks, AskStep(j)
      PROVE  FeaturedInv'
  BY <1>1, GetArrivesKeepsInv, GetIsLockedKeepsInv, GetInsertsKeepsInv, FoldKeepsInv, ResumeKeepsInv,
     DismissArrivesKeepsInv, DismissIsLockedKeepsInv, DismissCommitsKeepsInv,
     DismissIsAbortedKeepsInv, ReserveKeepsInv,
     ReplyKeepsInv DEF AskStep
<1> QED
  BY <1>1, ExpiryKeepsInv, AccountIsDeletedKeepsInv, EnvironmentKeepsInv DEF FeaturedNext

LEMMA FeaturedInvariant == FeaturedSpec => []FeaturedInv
<1> QED
  BY FeaturedInitInv, FeaturedStepInv, PTL DEF FeaturedSpec

\* What is recorded and what is reserved bound what was paid.
LEMMA PaidIsBounded ==
  ASSUME FeaturedInv
  PROVE  FeaturedSpendHolds
<1>0. FeaturedTyped /\ CostsRight
  BY DEF FeaturedInv
<1>1. CostsKept
  <2>1. PaidAndLeft = {j \in paidFor : asks[j].pc = "left"}
    BY DEF PaidAndLeft
  <2> QED
    BY <1>0, <2>1 DEF CostsRight, CostsKept
<1>2. ASSUME OneWorker
      PROVE  Cardinality(paidFor) <= SpendLimit + erased
  <2>1. paidFor \subseteq PaidAndLeft \cup Reserved
    BY <1>0 DEF FeaturedInv, FeaturedTyped, AskRight, AskAlone, PaidAndLeft, Reserved
  <2>2. /\ IsFiniteSet(PaidAndLeft) /\ Cardinality(PaidAndLeft) \in Nat
        /\ IsFiniteSet(Reserved) /\ Cardinality(Reserved) \in Nat
        /\ IsFiniteSet(paidFor) /\ Cardinality(paidFor) \in Nat
    BY <1>0, FeaturedConstants DEF PaidAndLeft, Reserved, FeaturedTyped
  <2>3. /\ IsFiniteSet(PaidAndLeft \cup Reserved)
        /\ Cardinality(PaidAndLeft \cup Reserved)
             = Cardinality(PaidAndLeft) + Cardinality(Reserved) - Cardinality(PaidAndLeft \cap Reserved)
    BY <2>2, FS_Union
  <2>4. Cardinality(PaidAndLeft \cap Reserved) \in Nat
    <3>1. PaidAndLeft \cap Reserved \subseteq Reserved
      OBVIOUS
    <3> QED
      BY <2>2, <3>1, FS_Subset, FS_CardinalityType
  <2>5. Cardinality(paidFor) <= Cardinality(PaidAndLeft \cup Reserved)
    BY <2>1, <2>3, FS_Subset
  <2>6. Cardinality(PaidAndLeft) + Cardinality(Reserved) <= SpendLimit + erased /\ erased \in Nat
    <3>1. Recorded \in Nat /\ erased \in Nat
      BY <1>0, RecordedUnits DEF FeaturedTyped
    <3> QED
      BY <1>0, <1>2, <2>2, <3>1, FeaturedConstants DEF CostsRight
  <2> QED
    BY <2>2, <2>3, <2>4, <2>5, <2>6, FeaturedConstants
<1> QED
  BY <1>1, <1>2 DEF FeaturedSpendHolds, SpendHolds

LEMMA FeaturedInvImplies == FeaturedInv => FeaturedTypeOK /\ FeaturedWeekHolds /\ FeaturedSpendHolds
<1> SUFFICES ASSUME FeaturedInv PROVE FeaturedTypeOK /\ FeaturedWeekHolds /\ FeaturedSpendHolds
  OBVIOUS
<1>1. FeaturedTypeOK
  <2>1. \A w : ReservedBy(w) = {j \in Asks : asks[j].reserved /\ asks[j].worker = w}
    BY DEF ReservedBy
  <2>2. \A j \in Asks : asks[j].pc \in Synchronous \cup {"away", "queued", "calling", "left"}
    BY DEF FeaturedInv, FeaturedTyped, AskRow
  <2>3. \A p \in picks : p.course \in Catalogue /\ p.cost \in Nat
    BY FeaturedConstants DEF FeaturedInv, FeaturedTyped, PickRow
  <2>4. budgetIn = "process" => \A w \in Workers : inflight[w] = Cardinality(ReservedBy(w))
    BY DEF FeaturedInv, CountersRight
  <2> QED
    BY <2>1, <2>2, <2>3, <2>4 DEF FeaturedTypeOK
<1>2. FeaturedWeekHolds
  BY WeeksInOrder DEF FeaturedInv, WeeksRight, FeaturedWeekHolds
<1> QED
  BY <1>1, <1>2, PaidIsBounded

\* The counter of a process is exactly the calls it has reserved and not given back, through
\* every failure of Redis and of the provider (featured_courses.py: the budget's reserve and release).
THEOREM FeaturedTypeCorrect == FeaturedSpec => []FeaturedTypeOK
<1> QED
  BY FeaturedInvariant, FeaturedInvImplies, PTL

\* However many workers run and whatever requests race for it, a user's week is numbered without
\* a gap, has one pick on show and repeats a course only when the catalogue is used up
\* (featured_courses.py: the unique index, the row lock of a dismissal, the lost race).
THEOREM WeekAlwaysHolds == FeaturedSpec => []FeaturedWeekHolds
<1> QED
  BY FeaturedInvariant, FeaturedInvImplies, PTL

\* For any limit and any number of requests: one worker pays for no more calls than the month
\* allows and, beyond it, what deleted accounts took along of the costs on record; every other
\* cost is recorded (featured_courses.py: the reservation before the call, the cost that is folded
\* into the pick that won; models.py: daily_featured_courses goes with its user).
THEOREM FeaturedSpendAlwaysHolds == FeaturedSpec => []FeaturedSpendHolds
<1> QED
  BY FeaturedInvariant, FeaturedInvImplies, PTL
-----------------------------------------------------------------------------
(* RateLimit: for buckets and quotas of any size, any number of requests   *)
(* and a clock of Redis that may be set back, what passes a meter is      *)
(* bounded, no itinerary goes unmetered, a refusal's waiting time suffices.*)

Answers == {"none", "429", "503", "admitted"}
RequestRecord ==
  [subject : Subjects \cup {"nobody"}, step : 0..4, day : Int,
   passed : SUBSET {"user", "ip", "quota"}, late : BOOLEAN, answer : Answers]

RateTypes ==
  /\ policy \in Policies /\ now \in 0..MaxTick /\ setBack \in 0..MaxSetBack
  /\ buckets \in [Buckets -> [on : BOOLEAN, tokens : 0..Capacity, at : Int, expires : Int]]
  /\ quotas \in [Subjects \X Days -> [count : Nat, expires : Int]]
  /\ callers \in [Requesters -> RequestRecord]

\* What an itinerary's request has passed before its n-th charge.
PlannerPassed(n) ==
  {m \in {"user", "ip", "quota"} : (m = "user" /\ n > 1) \/ (m = "ip" /\ n > 2) \/ (m = "quota" /\ n > 3)}

\* A request by itself: while it waits it has a charge to come, and the quota is the last.
RequestOK(s) ==
  /\ s.step > 0 => s.subject \in Subjects
  /\ s.step = 0 => s.passed = {}
  /\ s.answer = "none" => s.step <= Len(Path) /\ "quota" \notin s.passed
  /\ policy = "ai-planner" /\ s.answer \in {"none", "admitted"} => s.passed = PlannerPassed(s.step)
  /\ policy = "ai-planner" /\ s.answer = "admitted" => s.step = 4
RequestsOK == \A j \in Requesters : RequestOK(callers[j]) /\ callers[j].day \in -1..now

\* A bucket owes its tokens to its capacity and to the time at which it was filled last, by
\* Redis's clock as by the real one; a bucket that is gone had the time to fill up.
BucketOK(k) ==
  LET b == buckets[k]   spent == Cost * Cardinality(Passed(k)) IN
  /\ b.on => /\ spent + b.tokens <= Capacity + Refill * now
             /\ spent + b.tokens <= Capacity + Refill * (b.at + setBack)
             /\ b.expires = b.at + BucketTtl
  /\ ~b.on => spent <= Refill * now
BucketsOK == \A k \in Buckets : BucketOK(k)

\* Until its midnight a counter has counted whoever passed it, and is not gone.
Counting(u, d) ==
  {j \in Requesters : /\ callers[j].subject = u /\ "quota" \in callers[j].passed
                      /\ ~callers[j].late /\ callers[j].day \div DayLength = d}
QuotaOK(u, d) ==
  /\ Cardinality(Counting(u, d)) <= DailyQuota
  /\ now < Midnight(d) => Cardinality(Counting(u, d)) <= quotas[<<u, d>>].count
  /\ quotas[<<u, d>>].count > 0 => quotas[<<u, d>>].expires + setBack >= Midnight(d)
QuotasOK == \A u \in Subjects, d \in Days : QuotaOK(u, d)

RateInv == RateTypes /\ RequestsOK /\ BucketsOK /\ QuotasOK

-----------------------------------------------------------------------------
(* Arithmetic and sets.                                                    *)

LEMMA ConstantTypes ==
  /\ Capacity \in Nat /\ Refill \in Nat /\ Cost \in Nat /\ MinTtl \in Nat /\ DayLength \in Nat
  /\ Capacity > 0 /\ Refill > 0 /\ Cost > 0 /\ MinTtl > 0 /\ DayLength > 0
  /\ DailyQuota \in Nat /\ RateRequests \in Nat /\ MaxTick \in Nat /\ MaxSetBack \in Nat
  /\ Cost <= Capacity /\ "ip" \notin Subjects
<1>1. \A x \in {Capacity, Refill, Cost, MinTtl, DayLength} : x \in Nat /\ x # 0
  BY RateAssumption
<1>2. \A x \in {DailyQuota, RateRequests, MaxTick, MaxSetBack} : x \in Nat
  BY RateAssumption
<1> QED BY <1>1, <1>2, RateAssumption

LEMMA TimesMonotone ==
  ASSUME NEW f \in Nat, NEW x \in Int, NEW y \in Int, x <= y
  PROVE  f * x <= f * y
  OBVIOUS

\* A rounded-up quotient covers the dividend.
LEMMA CeilDivCovers ==
  ASSUME NEW x \in Nat, NEW y \in Nat, y > 0
  PROVE  /\ CeilDiv(x, y) \in Nat
         /\ y * CeilDiv(x, y) >= x
  BY DEF CeilDiv

\* An idle bucket lives long enough to fill up.
LEMMA TtlFills == BucketTtl \in Nat /\ Refill * BucketTtl >= Capacity
<1> DEFINE c == CeilDiv(2 * Capacity, Refill)
<1>1. c \in Nat /\ Refill * c >= 2 * Capacity
  BY ConstantTypes, CeilDivCovers
<1>2. BucketTtl \in Nat /\ BucketTtl >= c
  BY <1>1, ConstantTypes DEF BucketTtl, Larger
<1>3. Refill * c <= Refill * BucketTtl
  BY <1>1, <1>2, ConstantTypes, TimesMonotone
<1> HIDE DEF c
<1> QED BY <1>1, <1>2, <1>3, ConstantTypes

LEMMA RequestersFinite ==
  ASSUME NEW S \in SUBSET Requesters
  PROVE  IsFiniteSet(S) /\ Cardinality(S) \in Nat
<1>1. IsFiniteSet(Requesters)
  BY FS_Interval, ConstantTypes DEF Requesters
<1>2. IsFiniteSet(S)
  BY <1>1, FS_Subset
<1> QED BY <1>2, FS_CardinalityType

\* One more request adds at most one.
LEMMA OneMore ==
  ASSUME NEW S \in SUBSET Requesters, NEW T \in SUBSET Requesters, NEW j \in Requesters, T \subseteq S \cup {j}
  PROVE  Cardinality(T) <= Cardinality(S) + 1
<1>1. IsFiniteSet(S) /\ Cardinality(S) \in Nat /\ Cardinality(T) \in Nat
  BY RequestersFinite
<1>2. IsFiniteSet(S \cup {j}) /\ Cardinality(S \cup {j}) <= Cardinality(S) + 1 /\ Cardinality(S \cup {j}) \in Nat
  BY <1>1, FS_AddElement
<1>3. Cardinality(T) <= Cardinality(S \cup {j})
  BY <1>2, FS_Subset
<1> QED BY <1>1, <1>2, <1>3

LEMMA NoMore ==
  ASSUME NEW S \in SUBSET Requesters, NEW T \in SUBSET S
  PROVE  Cardinality(T) <= Cardinality(S)
  BY RequestersFinite, FS_Subset

LEMMA PathLemma ==
  ASSUME policy \in Policies
  PROVE  /\ Len(Path) \in Nat /\ (Len(Path) = 1 \/ Len(Path) = 3)
         /\ \A i \in 1..Len(Path) : Path[i] \in {"user", "ip", "quota"} /\ (Path[i] = "quota" <=> i = 3)
         /\ policy = "ai-planner" => Len(Path) = 3 /\ Path[1] = "user" /\ Path[2] = "ip" /\ Path[3] = "quota"
  BY DEF Policies, Path, Metered

LEMMA DayOfTick ==
  ASSUME NEW t \in 0..MaxTick
  PROVE  t \div DayLength \in Days
  BY ConstantTypes DEF Days

-----------------------------------------------------------------------------
(* A decision about a request.                                             *)

\* s is what becomes of j's request r, which has passed its charge or not.
Charged(j, r, s, allowed) ==
  /\ callers' = [callers EXCEPT ![j] = s]
  /\ s.subject = r.subject /\ s.day = r.day /\ s.late = r.late
  /\ s.passed = IF allowed THEN r.passed \cup {Stage(j)} ELSE r.passed

LEMMA StageLemma ==
  ASSUME RateTypes, RequestsOK, NEW j \in Requesters, Waiting(j)
  PROVE  /\ callers[j] \in RequestRecord /\ RequestOK(callers[j])
         /\ callers[j].step \in 1..Len(Path) /\ Len(Path) \in Nat /\ (Len(Path) = 1 \/ Len(Path) = 3)
         /\ callers[j].subject \in Subjects /\ "quota" \notin callers[j].passed
         /\ Stage(j) \in {"user", "ip", "quota"} /\ (Stage(j) = "quota" <=> callers[j].step = 3)
         /\ policy = "ai-planner" => /\ Len(Path) = 3
                                     /\ callers[j].step = 1 => Stage(j) = "user"
                                     /\ callers[j].step = 2 => Stage(j) = "ip"
                                     /\ callers[j].passed = PlannerPassed(callers[j].step)
<1>1. callers[j] \in RequestRecord /\ RequestOK(callers[j]) /\ policy \in Policies
  BY DEF RateTypes, RequestsOK
<1>2. callers[j].step > 0 /\ callers[j].answer = "none" /\ callers[j].step \in 0..4
  BY <1>1 DEF Waiting, RequestRecord
<1>3. /\ Len(Path) \in Nat /\ (Len(Path) = 1 \/ Len(Path) = 3)
      /\ \A i \in 1..Len(Path) : Path[i] \in {"user", "ip", "quota"} /\ (Path[i] = "quota" <=> i = 3)
      /\ policy = "ai-planner" => Len(Path) = 3 /\ Path[1] = "user" /\ Path[2] = "ip" /\ Path[3] = "quota"
  BY <1>1, PathLemma
<1>4. callers[j].step \in 1..Len(Path) /\ callers[j].subject \in Subjects /\ "quota" \notin callers[j].passed
  BY <1>1, <1>2, <1>3 DEF RequestOK
<1>5. policy = "ai-planner" => callers[j].passed = PlannerPassed(callers[j].step)
  BY <1>1, <1>2 DEF RequestOK
<1> QED BY <1>1, <1>3, <1>4, <1>5 DEF Stage

LEMMA DecidedLemma ==
  ASSUME RateTypes, RequestsOK, NEW j \in Requesters, Waiting(j),
         NEW r \in RequestRecord, r.subject = callers[j].subject, r.step = callers[j].step,
         r.passed = callers[j].passed, r.answer = "none",
         NEW decision \in {"allowed", "denied", "503", "open"},
         policy = "ai-planner" => decision # "open",
         Decided(j, r, decision)
  PROVE  \E s \in RequestRecord : RequestOK(s) /\ Charged(j, r, s, decision = "allowed")
<1> DEFINE n == Len(Path)
<1>0. /\ r.step \in 1..n /\ n \in Nat /\ (n = 1 \/ n = 3) /\ r.subject \in Subjects
      /\ "quota" \notin r.passed /\ r.passed \subseteq {"user", "ip", "quota"}
      /\ Stage(j) \in {"user", "ip", "quota"} /\ (Stage(j) = "quota" <=> r.step = 3)
      /\ policy = "ai-planner" => /\ n = 3 /\ r.passed = PlannerPassed(r.step)
                                  /\ r.step = 1 => Stage(j) = "user"
                                  /\ r.step = 2 => Stage(j) = "ip"
  BY StageLemma DEF RequestRecord
<1> HIDE DEF n
<1>1. CASE decision \in {"denied", "503"}
  <2> DEFINE s == [r EXCEPT !.answer = IF decision = "denied" THEN "429" ELSE "503"]
  <2>1. s \in RequestRecord /\ callers' = [callers EXCEPT ![j] = s]
    BY <1>1 DEF Decided, RequestRecord, Answers
  <2>2. s.step = r.step /\ s.passed = r.passed /\ s.subject = r.subject /\ s.answer \in {"429", "503"}
        /\ s.day = r.day /\ s.late = r.late
    BY <1>1 DEF RequestRecord
  <2> HIDE DEF s
  <2>3. RequestOK(s)
    BY <1>0, <2>1, <2>2 DEF RequestOK, n
  <2> QED BY <1>1, <2>1, <2>2, <2>3 DEF Charged
<1>2. CASE decision \in {"allowed", "open"}
  <2> DEFINE s == [r EXCEPT !.passed = IF decision = "allowed" THEN r.passed \cup {Stage(j)} ELSE r.passed,
                            !.answer = IF r.step = n THEN "admitted" ELSE "none",
                            !.step = r.step + 1]
  <2>1. s \in RequestRecord
    <3>1. (IF decision = "allowed" THEN r.passed \cup {Stage(j)} ELSE r.passed) \in SUBSET {"user", "ip", "quota"}
      BY <1>0
    <3>2. (IF r.step = n THEN "admitted" ELSE "none") \in Answers /\ r.step + 1 \in 0..4
      BY <1>0 DEF Answers
    <3> QED BY <3>1, <3>2 DEF RequestRecord
  <2>2. callers' = [callers EXCEPT ![j] = s]
    BY <1>2 DEF Decided, RequestRecord, n
  <2>3. /\ s.passed = (IF decision = "allowed" THEN r.passed \cup {Stage(j)} ELSE r.passed)
        /\ s.answer = (IF r.step = n THEN "admitted" ELSE "none") /\ s.step = r.step + 1
        /\ s.subject = r.subject /\ s.day = r.day /\ s.late = r.late
    BY DEF RequestRecord
  <2> HIDE DEF s
  <2>4. s.answer = "none" => s.step <= n /\ "quota" \notin s.passed
    <3> SUFFICES ASSUME s.answer = "none" PROVE s.step <= n /\ "quota" \notin s.passed
      OBVIOUS
    <3>1. r.step # n
      BY <2>3
    <3>2. r.step + 1 <= n /\ r.step # 3
      BY <1>0, <3>1
    <3> QED BY <1>0, <2>3, <3>2
  <2>5. policy = "ai-planner" => s.passed = PlannerPassed(s.step)
    <3> SUFFICES ASSUME policy = "ai-planner" PROVE s.passed = PlannerPassed(s.step)
      OBVIOUS
    <3>1. s.passed = PlannerPassed(r.step) \cup {Stage(j)}
      BY <1>0, <1>2, <2>3
    <3>2. CASE r.step = 1
      BY <1>0, <2>3, <3>1, <3>2 DEF PlannerPassed
    <3>3. CASE r.step = 2
      BY <1>0, <2>3, <3>1, <3>3 DEF PlannerPassed
    <3>4. CASE r.step = 3
      BY <1>0, <2>3, <3>1, <3>4 DEF PlannerPassed
    <3> QED BY <1>0, <3>2, <3>3, <3>4
  <2>6. policy = "ai-planner" /\ s.answer = "admitted" => s.step = 4
    BY <1>0, <2>3
  <2>7. RequestOK(s)
    BY <1>0, <2>3, <2>4, <2>5, <2>6 DEF RequestOK, n
  <2> QED BY <1>2, <2>1, <2>2, <2>3, <2>7 DEF Charged
<1> QED BY <1>1, <1>2

\* What a request's record says of its meters, once j's has become s.
LEMMA PassedAfter ==
  ASSUME RateTypes, NEW j \in Requesters, NEW s \in RequestRecord,
         callers' = [callers EXCEPT ![j] = s], NEW k \in Buckets
  PROVE  /\ Passed(k) \in SUBSET Requesters /\ Passed(k)' \in SUBSET Requesters
         /\ Passed(k)' \subseteq Passed(k) \cup {j}
         /\ j \in Passed(k)' => IF k = "ip" THEN "ip" \in s.passed ELSE "user" \in s.passed /\ s.subject = k
  BY DEF RateTypes, Passed

LEMMA CountingAfter ==
  ASSUME RateTypes, NEW j \in Requesters, NEW s \in RequestRecord,
         callers' = [callers EXCEPT ![j] = s], NEW u \in Subjects, NEW d \in Days
  PROVE  /\ Counting(u, d) \in SUBSET Requesters /\ Counting(u, d)' \in SUBSET Requesters
         /\ Counting(u, d)' \subseteq Counting(u, d) \cup {j}
         /\ j \in Counting(u, d)' => s.subject = u /\ "quota" \in s.passed /\ ~s.late /\ s.day \div DayLength = d
  BY DEF RateTypes, Counting

LEMMA RequestsAfter ==
  ASSUME RateTypes, RequestsOK, NEW j \in Requesters, NEW s \in RequestRecord,
         callers' = [callers EXCEPT ![j] = s], RequestOK(s), s.day \in -1..now,
         policy' = policy, now' = now
  PROVE  callers' \in [Requesters -> RequestRecord] /\ RequestsOK'
<1>1. callers' \in [Requesters -> RequestRecord]
  BY DEF RateTypes
<1>2. Path' = Path
  BY DEF Path
<1>3. ASSUME NEW i \in Requesters PROVE RequestOK(callers[i])' /\ callers'[i].day \in -1..now'
  <2>1. RequestOK(callers'[i]) /\ callers'[i].day \in -1..now
    BY DEF RequestsOK, RateTypes
  <2> QED BY <1>2, <2>1 DEF RequestOK
<1> QED BY <1>1, <1>3 DEF RequestsOK

\* A meter that a step leaves alone.
LEMMA BucketKept ==
  ASSUME RateTypes, NEW k \in Buckets, BucketOK(k), buckets'[k] = buckets[k],
         now' = now, setBack' = setBack, NEW j \in Requesters, NEW s \in RequestRecord,
         callers' = [callers EXCEPT ![j] = s], j \in Passed(k)' => j \in Passed(k)
  PROVE  BucketOK(k)'
<1>0. Passed(k) \in SUBSET Requesters /\ Passed(k)' \subseteq Passed(k)
  <2>1. Passed(k) \in SUBSET Requesters
    BY PassedAfter
  <2>2. Passed(k)' \subseteq Passed(k) \cup {j}
    BY PassedAfter
  <2> QED BY <2>1, <2>2
<1> DEFINE P == Cardinality(Passed(k))
           Q == Cardinality(Passed(k)')
<1>1. P \in Nat /\ Q \in Nat /\ Q <= P
  BY <1>0, RequestersFinite, NoMore
<1>2. Cost * Q <= Cost * P /\ Cost * Q \in Nat /\ Cost * P \in Nat
  BY <1>1, ConstantTypes, TimesMonotone
<1>3. buckets[k].tokens \in Nat /\ Refill * now \in Int /\ Refill * (buckets[k].at + setBack) \in Int
      /\ Capacity \in Nat
  BY ConstantTypes DEF RateTypes
<1>4. Cardinality(Passed(k))' = Q
  OBVIOUS
<1> HIDE DEF P, Q
<1> QED BY <1>2, <1>3, <1>4 DEF BucketOK, P

LEMMA QuotaKept ==
  ASSUME RateTypes, NEW u \in Subjects, NEW d \in Days, QuotaOK(u, d), quotas'[<<u, d>>] = quotas[<<u, d>>],
         now' = now, setBack' = setBack, NEW j \in Requesters, NEW s \in RequestRecord,
         callers' = [callers EXCEPT ![j] = s], j \in Counting(u, d)' => j \in Counting(u, d)
  PROVE  QuotaOK(u, d)'
<1>0. Counting(u, d) \in SUBSET Requesters /\ Counting(u, d)' \subseteq Counting(u, d)
  <2>1. Counting(u, d) \in SUBSET Requesters
    BY CountingAfter
  <2>2. Counting(u, d)' \subseteq Counting(u, d) \cup {j}
    BY CountingAfter
  <2> QED BY <2>1, <2>2
<1> DEFINE P == Cardinality(Counting(u, d))
           Q == Cardinality(Counting(u, d)')
<1>1. P \in Nat /\ Q \in Nat /\ Q <= P
  BY <1>0, RequestersFinite, NoMore
<1>2. quotas[<<u, d>>].count \in Nat /\ DailyQuota \in Nat
  BY ConstantTypes DEF RateTypes
<1>3. Cardinality(Counting(u, d))' = Q /\ Midnight(d)' = Midnight(d)
  BY DEF Midnight
<1> HIDE DEF P, Q
<1> QED BY <1>1, <1>2, <1>3 DEF QuotaOK, P

-----------------------------------------------------------------------------
(* The initial state and the requests' own steps.                          *)

LEMMA InitInv == RateInit => RateInv
<1> SUFFICES ASSUME RateInit PROVE RateInv
  OBVIOUS
<1>1. RateTypes
  BY ConstantTypes DEF RateInit, RateTypes, RequestRecord, Answers, NoKey, NoCount, NotCome, Fresh
<1>2. ASSUME NEW j \in Requesters PROVE RequestOK(callers[j]) /\ callers[j].day \in -1..now
  <2> DEFINE n == Len(Path)
  <2>1. callers[j] = NotCome /\ now = 0 /\ n \in Nat
    BY <1>1, PathLemma DEF RateInit, RateTypes
  <2> HIDE DEF n
  <2>2. PlannerPassed(0) = {}
    BY DEF PlannerPassed
  <2> QED BY <2>1, <2>2 DEF RequestOK, NotCome, Fresh, n
<1>3. ASSUME NEW k \in Buckets PROVE BucketOK(k)
  <2>1. Passed(k) = {} /\ ~buckets[k].on /\ now = 0
    BY <1>1 DEF RateInit, Passed, NotCome, Fresh, NoKey
  <2>2. Cost * Cardinality({}) <= Refill * 0
    BY FS_EmptySet, ConstantTypes
  <2> QED BY <2>1, <2>2 DEF BucketOK
<1>4. ASSUME NEW u \in Subjects, NEW d \in Days PROVE QuotaOK(u, d)
  <2>1. Counting(u, d) = {} /\ quotas[<<u, d>>].count = 0
    BY <1>1 DEF RateInit, Counting, NotCome, Fresh, NoCount
  <2>2. Cardinality({}) = 0
    BY FS_EmptySet
  <2> QED BY <2>1, <2>2, ConstantTypes DEF QuotaOK
<1> QED BY <1>1, <1>2, <1>3, <1>4 DEF RateInv, RequestsOK, BucketsOK, QuotasOK

LEMMA ArrivalKeepsInv ==
  ASSUME RateInv, NEW j \in Requesters, RequestComes(j)
  PROVE  RateInv'
<1> USE DEF RateInv
<1>1. PICK u \in Subjects : callers' = [callers EXCEPT ![j] = Fresh(u, 1)]
  BY DEF RequestComes
<1>2. callers[j] = NotCome /\ UNCHANGED <<policy, now, setBack, buckets, quotas>>
  BY DEF RequestComes
<1>3. PICK s \in RequestRecord :
        /\ callers' = [callers EXCEPT ![j] = s]
        /\ s.step = 1 /\ s.subject = u /\ s.passed = {} /\ s.answer = "none" /\ s.day = -1
  <2>1. Fresh(u, 1) \in RequestRecord
    BY DEF Fresh, RequestRecord, Answers
  <2> QED BY <1>1, <2>1 DEF Fresh
<1>4. "quota" \notin s.passed
  BY <1>3
<1>5. PlannerPassed(1) = {}
  BY DEF PlannerPassed
<1>6. RequestOK(s) /\ s.day \in -1..now
  <2> DEFINE n == Len(Path)
  <2>1. n \in Nat /\ (n = 1 \/ n = 3) /\ now \in Nat
    BY PathLemma, ConstantTypes DEF RateTypes
  <2> HIDE DEF n
  <2>2. s.day \in -1..now
    BY <1>3, <2>1
  <2>3. RequestOK(s)
    BY <1>3, <1>5, <2>1 DEF RequestOK, n
  <2> QED BY <2>2, <2>3
<1>7. callers' \in [Requesters -> RequestRecord] /\ RequestsOK'
  BY <1>2, <1>3, <1>6, RequestsAfter
<1>8. ASSUME NEW k \in Buckets PROVE BucketOK(k)'
  <2>1. j \in Passed(k)' => j \in Passed(k)
    BY <1>3, PassedAfter
  <2> QED BY <1>2, <1>3, <2>1, BucketKept DEF BucketsOK
<1>9. ASSUME NEW x \in Subjects, NEW d \in Days PROVE QuotaOK(x, d)'
  <2>1. j \notin Counting(x, d)'
    BY <1>3, <1>4, CountingAfter
  <2> QED BY <1>2, <1>3, <2>1, QuotaKept DEF QuotasOK
<1>10. RateTypes'
  BY <1>2, <1>7 DEF RateTypes
<1> QED BY <1>7, <1>8, <1>9, <1>10 DEF BucketsOK, QuotasOK

LEMMA ReadDateKeepsInv ==
  ASSUME RateInv, NEW j \in Requesters, ReadDate(j)
  PROVE  RateInv'
<1> USE DEF RateInv
<1>1. callers[j] \in RequestRecord /\ RequestOK(callers[j]) /\ now \in Nat
  BY ConstantTypes DEF RateTypes, RequestsOK
<1>2. Waiting(j) /\ UNCHANGED <<policy, now, setBack, buckets, quotas>>
  BY DEF ReadDate
<1>3. PICK s \in RequestRecord :
        /\ callers' = [callers EXCEPT ![j] = s]
        /\ s.step = callers[j].step /\ s.subject = callers[j].subject /\ s.passed = callers[j].passed
        /\ s.answer = callers[j].answer /\ s.day = now
  <2>1. [callers[j] EXCEPT !.day = now] \in RequestRecord
    BY <1>1 DEF RequestRecord
  <2> QED BY <1>1, <2>1 DEF ReadDate, RequestRecord
<1>5. RequestOK(s) /\ s.day \in -1..now
  BY <1>1, <1>3 DEF RequestOK
<1>6. "quota" \notin s.passed
  BY <1>2, <1>3, StageLemma
<1>7. callers' \in [Requesters -> RequestRecord] /\ RequestsOK'
  BY <1>2, <1>3, <1>5, RequestsAfter
<1>8. ASSUME NEW k \in Buckets PROVE BucketOK(k)'
  <2>1. j \in Passed(k)' => j \in Passed(k)
    BY <1>3, PassedAfter DEF Passed
  <2> QED BY <1>2, <1>3, <2>1, BucketKept DEF BucketsOK
<1>9. ASSUME NEW x \in Subjects, NEW d \in Days PROVE QuotaOK(x, d)'
  <2>1. j \notin Counting(x, d)'
    BY <1>3, <1>6, CountingAfter
  <2> QED BY <1>2, <1>3, <2>1, QuotaKept DEF QuotasOK
<1>10. RateTypes'
  BY <1>2, <1>7 DEF RateTypes
<1> QED BY <1>7, <1>8, <1>9, <1>10 DEF BucketsOK, QuotasOK

-----------------------------------------------------------------------------
(* The charges.                                                            *)

LEMMA TimesAdds ==
  ASSUME NEW f \in Nat, NEW x \in Int, NEW y \in Int
  PROVE  f * (x + y) = f * x + f * y /\ f * x \in Int
  OBVIOUS

\* What the token bucket script leaves is paid for, whether or not the request passed.
LEMMA DrawnLemma ==
  ASSUME RateTypes, NEW k \in Buckets, BucketOK(k)
  PROVE  /\ Drawn(k) \in [on : BOOLEAN, tokens : 0..Capacity, at : Int, expires : Int]
         /\ Drawn(k).on /\ Drawn(k).expires = Drawn(k).at + BucketTtl /\ Drawn(k).at + setBack = now
         /\ Cost * Cardinality(Passed(k)) + Drawn(k).tokens + (IF Affords(k) THEN Cost ELSE 0)
              <= Capacity + Refill * now
<1> DEFINE b == buckets[k]
           spent == Cost * Cardinality(Passed(k))
           full == Refilled(b, clock)
           gone == clock - b.at
<1>1. /\ b \in [on : BOOLEAN, tokens : 0..Capacity, at : Int, expires : Int]
      /\ now \in Nat /\ setBack \in Nat /\ clock \in Int /\ clock + setBack = now
  BY ConstantTypes DEF RateTypes, clock
<1>2. Passed(k) \in SUBSET Requesters
  BY DEF Passed
<1>3. spent \in Int
  BY <1>2, RequestersFinite, ConstantTypes
<1>4. full \in 0..Capacity /\ spent + full <= Capacity + Refill * now
  <2>1. CASE ~b.on
    <3>1. full = Capacity /\ spent <= Refill * now
      BY <2>1 DEF Refilled, BucketOK
    <3> QED BY <1>1, <1>3, <3>1, ConstantTypes
  <2>2. CASE b.on /\ gone <= 0
    <3>1. Larger(0, gone) = 0
      BY <1>1, <2>2 DEF Larger
    <3>2. full = Smaller(Capacity, b.tokens + 0 * Refill)
      BY <2>2, <3>1 DEF Refilled
    <3>3. full = b.tokens
      BY <1>1, <3>2, ConstantTypes DEF Smaller
    <3>4. spent + b.tokens <= Capacity + Refill * now
      BY <2>2 DEF BucketOK
    <3> QED BY <1>1, <3>3, <3>4
  <2>3. CASE b.on /\ gone > 0
    <3>1. Larger(0, gone) = gone /\ gone \in Int /\ gone + (b.at + setBack) = now
      BY <1>1, <2>3 DEF Larger
    <3>2. full = Smaller(Capacity, b.tokens + gone * Refill)
      BY <2>3, <3>1 DEF Refilled
    <3>3. Refill * gone + Refill * (b.at + setBack) = Refill * now
      <4>1. b.at + setBack \in Int
        BY <1>1
      <4> DEFINE x == gone
                 y == b.at + setBack
      <4>2. x \in Int /\ y \in Int /\ x + y = now
        BY <3>1, <4>1
      <4> HIDE DEF x, y
      <4>3. Refill * (x + y) = Refill * x + Refill * y
        BY <4>2, ConstantTypes, TimesAdds
      <4>4. Refill * x + Refill * y = Refill * now
        BY <4>2, <4>3
      <4> QED BY <4>4 DEF x, y
    <3>4. gone * Refill = Refill * gone /\ gone * Refill \in Nat
      BY <1>1, <2>3, <3>1, ConstantTypes
    <3>5. spent + b.tokens <= Capacity + Refill * (b.at + setBack)
      BY <2>3 DEF BucketOK
    <3>6. Refill * gone \in Int /\ Refill * (b.at + setBack) \in Int /\ Refill * now \in Int
      BY <1>1, <3>1, ConstantTypes, TimesAdds
    <3>7. full \in 0..Capacity /\ full <= b.tokens + gone * Refill
      BY <1>1, <3>2, <3>4, ConstantTypes DEF Smaller
    <3> HIDE DEF gone, full, b, spent
    <3>8. b.tokens \in Int
      BY <1>1
    <3> QED BY <1>3, <3>3, <3>4, <3>5, <3>6, <3>7, <3>8, ConstantTypes
  <2>4. gone \in Int
    BY <1>1
  <2> HIDE DEF gone
  <2> QED BY <1>1, <2>1, <2>2, <2>3, <2>4
<1>5. Affords(k) <=> full >= Cost
  BY DEF Affords
<1>6. /\ Drawn(k) = [on |-> TRUE, at |-> clock, expires |-> clock + BucketTtl,
                     tokens |-> full - (IF Affords(k) THEN Cost ELSE 0)]
  BY DEF Drawn
<1> HIDE DEF full, spent
<1>7. full - (IF Affords(k) THEN Cost ELSE 0) \in 0..Capacity
  BY <1>4, <1>5, ConstantTypes
<1>8. Refill * now \in Int
  BY <1>1, ConstantTypes, TimesAdds
<1>9. spent + (full - (IF Affords(k) THEN Cost ELSE 0)) + (IF Affords(k) THEN Cost ELSE 0) <= Capacity + Refill * now
  BY <1>3, <1>4, <1>8, ConstantTypes
<1>10. Drawn(k) \in [on : BOOLEAN, tokens : 0..Capacity, at : Int, expires : Int]
  BY <1>1, <1>6, <1>7, TtlFills
<1>11. Drawn(k).on /\ Drawn(k).expires = Drawn(k).at + BucketTtl /\ Drawn(k).at + setBack = now
  BY <1>1, <1>6
<1>12. Drawn(k).tokens = full - (IF Affords(k) THEN Cost ELSE 0)
  BY <1>6
<1> QED BY <1>9, <1>10, <1>11, <1>12 DEF spent

\* A charged bucket, with at most one more request let through.
LEMMA ChargedBucket ==
  ASSUME RateTypes, NEW k \in Buckets, BucketOK(k), buckets'[k] = Drawn(k), now' = now, setBack' = setBack,
         NEW j \in Requesters, NEW s \in RequestRecord, callers' = [callers EXCEPT ![j] = s],
         ~Affords(k) => (j \in Passed(k)' => j \in Passed(k))
  PROVE  BucketOK(k)'
<1> DEFINE P == Cardinality(Passed(k))
           Q == Cardinality(Passed(k)')
           grant == IF Affords(k) THEN 1 ELSE 0
           d == Drawn(k)
<1>1. Passed(k) \in SUBSET Requesters
  BY PassedAfter
<1>2. Passed(k)' \in SUBSET Requesters
  BY PassedAfter
<1>3. Passed(k)' \subseteq Passed(k) \cup {j}
  BY PassedAfter
<1>4. Q <= P + grant
  <2>1. CASE Affords(k)
    BY <1>1, <1>2, <1>3, <2>1, OneMore
  <2>2. CASE ~Affords(k)
    <3>1. Passed(k)' \subseteq Passed(k)
      BY <1>3, <2>2
    <3>2. P \in Nat /\ Q \in Nat /\ Q <= P
      BY <1>1, <1>2, <3>1, NoMore, RequestersFinite
    <3> HIDE DEF P, Q
    <3> QED BY <2>2, <3>2
  <2> QED BY <2>1, <2>2
<1>5. P \in Nat /\ Q \in Nat
  BY <1>1, <1>2, RequestersFinite
<1>6. /\ d \in [on : BOOLEAN, tokens : 0..Capacity, at : Int, expires : Int]
      /\ d.on /\ d.expires = d.at + BucketTtl /\ d.at + setBack = now
      /\ Cost * P + d.tokens + (IF Affords(k) THEN Cost ELSE 0) <= Capacity + Refill * now
  BY DrawnLemma
<1>7. grant \in Nat /\ Cost * grant = IF Affords(k) THEN Cost ELSE 0
  BY ConstantTypes
<1>8. Cardinality(Passed(k))' = Q
  OBVIOUS
<1>9. d.tokens \in Int /\ Refill * now \in Int /\ Capacity \in Int
  BY <1>6, ConstantTypes, TimesAdds DEF RateTypes
<1> HIDE DEF P, Q, grant, d
<1>10. Cost * Q <= Cost * (P + grant)
  BY <1>4, <1>5, <1>7, ConstantTypes, TimesMonotone
<1>11. Cost * (P + grant) = Cost * P + Cost * grant /\ Cost * P \in Int /\ Cost * Q \in Int /\ Cost * grant \in Int
  BY <1>5, <1>7, ConstantTypes, TimesAdds
<1>12. Cost * Q + d.tokens <= Capacity + Refill * now
  BY <1>6, <1>7, <1>9, <1>10, <1>11, ConstantTypes
<1> QED BY <1>6, <1>8, <1>12 DEF BucketOK, BucketTtl, d

LEMMA ChargeBucketKeepsInv ==
  ASSUME RateInv, NEW j \in Requesters, ChargeBucket(j)
  PROVE  RateInv'
<1> USE DEF RateInv
<1> DEFINE r == callers[j]
           k == IF Stage(j) = "user" THEN r.subject ELSE "ip"
<1>1. /\ r \in RequestRecord /\ RequestOK(r) /\ r.subject \in Subjects /\ r.answer = "none"
      /\ "quota" \notin r.passed /\ Stage(j) \in {"user", "ip"} /\ r.day \in -1..now
  BY StageLemma DEF ChargeBucket, Waiting, RequestsOK
<1>2. UNCHANGED <<policy, now, setBack, quotas>> /\ Waiting(j)
  BY DEF ChargeBucket
<1>3. k \in Buckets
  BY <1>1 DEF Buckets
<1>4. Failure(r) \in {"503", "open"} /\ (policy = "ai-planner" => Failure(r) = "503")
  BY DEF Failure, FailClosed
<1>5. PICK decision \in {"allowed", "denied", "503", "open"} :
        /\ Decided(j, r, decision)
        /\ policy = "ai-planner" => decision # "open"
        /\ buckets' = [buckets EXCEPT ![k] = Drawn(k)] \/ (buckets' = buckets /\ decision # "allowed")
        /\ decision = "allowed" => Affords(k)
  BY <1>4 DEF ChargeBucket
<1>6. PICK s \in RequestRecord : RequestOK(s) /\ Charged(j, r, s, decision = "allowed")
  BY <1>1, <1>2, <1>5, DecidedLemma
<1>7. /\ callers' = [callers EXCEPT ![j] = s]
      /\ s.subject = r.subject /\ s.day = r.day /\ s.late = r.late
      /\ s.passed = IF decision = "allowed" THEN r.passed \cup {Stage(j)} ELSE r.passed
  BY <1>6 DEF Charged
<1>8. callers' \in [Requesters -> RequestRecord] /\ RequestsOK'
  BY <1>1, <1>2, <1>6, <1>7, RequestsAfter
<1>9. ASSUME NEW x \in Buckets, x # k \/ decision # "allowed", j \in Passed(x)' PROVE j \in Passed(x)
  <2>1. IF x = "ip" THEN "ip" \in s.passed ELSE "user" \in s.passed /\ s.subject = x
    BY <1>7, <1>9, PassedAfter
  <2>2. IF x = "ip" THEN "ip" \in r.passed ELSE "user" \in r.passed /\ r.subject = x
    BY <1>1, <1>7, <1>9, <2>1
  <2> QED BY <2>2 DEF Passed
<1>10. ASSUME NEW x \in Buckets PROVE BucketOK(x)'
  <2>0. BucketOK(x)
    BY DEF BucketsOK
  <2>1. CASE x = k /\ buckets' = [buckets EXCEPT ![k] = Drawn(k)]
    <3>1. buckets'[x] = Drawn(x)
      BY <1>3, <2>1 DEF RateTypes
    <3>2. ~Affords(x) => (j \in Passed(x)' => j \in Passed(x))
      BY <1>5, <1>9, <2>1
    <3> HIDE DEF k, r
    <3> QED BY <1>2, <1>7, <2>0, <3>1, <3>2, ChargedBucket
  <2>2. CASE x # k \/ (buckets' = buckets /\ decision # "allowed")
    <3>1. buckets'[x] = buckets[x]
      BY <1>5, <2>2 DEF RateTypes
    <3>2. x # k \/ decision # "allowed"
      BY <2>2
    <3> HIDE DEF k, r
    <3> QED BY <1>2, <1>7, <1>9, <2>0, <3>1, <3>2, BucketKept
  <2> QED BY <1>5, <2>1, <2>2
<1>11. ASSUME NEW x \in Subjects, NEW d \in Days PROVE QuotaOK(x, d)'
  <2>1. "quota" \notin s.passed
    BY <1>1, <1>7
  <2>2. j \notin Counting(x, d)'
    BY <1>7, <2>1, CountingAfter
  <2> QED BY <1>2, <1>7, <2>2, QuotaKept DEF QuotasOK
<1>12. buckets' \in [Buckets -> [on : BOOLEAN, tokens : 0..Capacity, at : Int, expires : Int]]
  <2>1. Drawn(k) \in [on : BOOLEAN, tokens : 0..Capacity, at : Int, expires : Int]
    BY <1>3, DrawnLemma DEF BucketsOK
  <2> HIDE DEF k
  <2> QED BY <1>3, <1>5, <2>1 DEF RateTypes
<1>13. RateTypes'
  BY <1>2, <1>8, <1>12 DEF RateTypes
<1> QED BY <1>8, <1>10, <1>11, <1>13 DEF BucketsOK, QuotasOK

\* A counted date, with at most one more request let through, and only in time.
LEMMA CountedQuota ==
  ASSUME RateTypes, NEW u \in Subjects, NEW d \in Days, QuotaOK(u, d), NEW read \in Int, read <= now,
         quotas'[<<u, d>>] = Counted(u, d, Midnight(d) - read), now' = now, setBack' = setBack,
         NEW j \in Requesters, NEW s \in RequestRecord, callers' = [callers EXCEPT ![j] = s],
         j \in Counting(u, d)' => WithinQuota(u, d) /\ now < Midnight(d)
  PROVE  QuotaOK(u, d)'
<1> DEFINE P == Cardinality(Counting(u, d))
           Q == Cardinality(Counting(u, d)')
           q == quotas[<<u, d>>]
<1>1. Counting(u, d) \in SUBSET Requesters
  BY CountingAfter
<1>2. Counting(u, d)' \in SUBSET Requesters
  BY CountingAfter
<1>3. Counting(u, d)' \subseteq Counting(u, d) \cup {j}
  BY CountingAfter
<1>4. P \in Nat /\ Q \in Nat
  BY <1>1, <1>2, RequestersFinite
<1>5. Q <= P + 1
  BY <1>1, <1>2, <1>3, OneMore
<1>6. j \notin Counting(u, d)' => Q <= P
  BY <1>1, <1>3, NoMore
<1>7. q \in [count : Nat, expires : Int] /\ now \in Int /\ setBack \in Int /\ clock \in Int /\ clock + setBack = now
  BY ConstantTypes DEF RateTypes, clock
<1>8. Midnight(d) \in Int /\ Midnight(d)' = Midnight(d) /\ DailyQuota \in Nat
  BY ConstantTypes DEF Midnight, Days
<1>9. /\ quotas'[<<u, d>>].count = q.count + 1
      /\ quotas'[<<u, d>>].expires = IF q.count = 0 THEN clock + (Midnight(d) - read) ELSE q.expires
  BY DEF Counted
<1>10. /\ P <= DailyQuota
       /\ now < Midnight(d) => P <= q.count
       /\ q.count > 0 => q.expires + setBack >= Midnight(d)
  BY DEF QuotaOK
<1>11. WithinQuota(u, d) => q.count + 1 <= DailyQuota
  BY DEF WithinQuota
<1>12. Cardinality(Counting(u, d))' = Q
  OBVIOUS
<1> HIDE DEF P, Q, q
<1>13. Q <= DailyQuota
  <2>1. CASE j \in Counting(u, d)'
    BY <1>4, <1>5, <1>7, <1>8, <1>10, <1>11, <2>1
  <2>2. CASE j \notin Counting(u, d)'
    BY <1>4, <1>6, <1>8, <1>10, <2>2
  <2> QED BY <2>1, <2>2
<1>14. now < Midnight(d) => Q <= q.count + 1
  BY <1>4, <1>5, <1>7, <1>10
<1>15. quotas'[<<u, d>>].expires + setBack >= Midnight(d)
  <2>1. CASE q.count = 0
    BY <1>7, <1>8, <1>9, <2>1
  <2>2. CASE q.count > 0
    BY <1>7, <1>8, <1>9, <1>10, <2>2
  <2> QED BY <1>7, <2>1, <2>2
<1> QED BY <1>8, <1>9, <1>12, <1>13, <1>14, <1>15 DEF QuotaOK

LEMMA ChargeQuotaKeepsInv ==
  ASSUME RateInv, NEW j \in Requesters, ChargeQuota(j)
  PROVE  RateInv'
<1> USE DEF RateInv
<1> DEFINE u == callers[j].subject
           read == callers[j].day
           d == read \div DayLength
           r == [callers[j] EXCEPT !.late = (now >= Midnight(d))]
<1>1. /\ callers[j] \in RequestRecord /\ RequestOK(callers[j]) /\ u \in Subjects /\ callers[j].answer = "none"
      /\ "quota" \notin callers[j].passed /\ Stage(j) = "quota" /\ read \in 0..now
  <2>1. read \in -1..now /\ read # -1 /\ now \in Nat
    BY ConstantTypes DEF RequestsOK, ChargeQuota, RateTypes
  <2> QED BY <2>1, StageLemma DEF ChargeQuota, Waiting, RequestsOK
<1>2. UNCHANGED <<policy, now, setBack, buckets>> /\ Waiting(j)
  BY DEF ChargeQuota
<1>3. d \in Days
  BY <1>1, ConstantTypes, DayOfTick DEF RateTypes
<1>4. r \in RequestRecord
  <2> DEFINE late == (now >= Midnight(d))
  <2>1. late \in BOOLEAN
    OBVIOUS
  <2> HIDE DEF late
  <2>2. [callers[j] EXCEPT !.late = late] \in RequestRecord
    BY <1>1, <2>1 DEF RequestRecord
  <2> QED BY <2>2 DEF late
<1>5. /\ r.subject = u /\ r.day = read /\ r.late = (now >= Midnight(d)) /\ r.step = callers[j].step
      /\ r.passed = callers[j].passed /\ r.answer = "none"
  BY <1>1 DEF RequestRecord
<1>6. Failure(r) \in {"503", "open"} /\ (policy = "ai-planner" => Failure(r) = "503")
  BY DEF Failure, FailClosed
<1>7. PICK decision \in {"allowed", "denied", "503", "open"} :
        /\ Decided(j, r, decision)
        /\ policy = "ai-planner" => decision # "open"
        /\ \/ quotas' = [quotas EXCEPT ![<<u, d>>] = Counted(u, d, Midnight(d) - read)]
           \/ quotas' = quotas /\ decision # "allowed"
        /\ decision = "allowed" => WithinQuota(u, d)
  BY <1>6 DEF ChargeQuota
<1> HIDE DEF r
<1>8. PICK s \in RequestRecord : RequestOK(s) /\ Charged(j, r, s, decision = "allowed")
  BY <1>2, <1>4, <1>5, <1>7, DecidedLemma
<1>9. /\ callers' = [callers EXCEPT ![j] = s]
      /\ s.subject = u /\ s.day = read /\ s.late = (now >= Midnight(d))
      /\ s.passed = IF decision = "allowed" THEN callers[j].passed \cup {"quota"} ELSE callers[j].passed
  BY <1>1, <1>5, <1>8 DEF Charged
<1>10. callers' \in [Requesters -> RequestRecord] /\ RequestsOK'
  <2>1. s.day \in -1..now
    BY <1>1, <1>9, ConstantTypes DEF RateTypes
  <2> QED BY <1>2, <1>8, <1>9, <2>1, RequestsAfter
<1>11. ASSUME NEW x \in Buckets PROVE BucketOK(x)'
  <2>1. ASSUME j \in Passed(x)' PROVE j \in Passed(x)
    <3>1. IF x = "ip" THEN "ip" \in s.passed ELSE "user" \in s.passed /\ s.subject = x
      BY <1>9, <2>1, PassedAfter
    <3>2. IF x = "ip" THEN "ip" \in callers[j].passed ELSE "user" \in callers[j].passed /\ u = x
      BY <1>9, <3>1
    <3> QED BY <3>2 DEF Passed
  <2>2. buckets'[x] = buckets[x] /\ BucketOK(x)
    BY <1>2 DEF BucketsOK
  <2> HIDE DEF u, read, d
  <2> QED BY <1>2, <1>9, <2>1, <2>2, BucketKept
<1>12. ASSUME NEW x \in Subjects, NEW e \in Days PROVE QuotaOK(x, e)'
  <2>0. QuotaOK(x, e)
    BY DEF QuotasOK
  <2>1. j \in Counting(x, e)' => s.subject = x /\ "quota" \in s.passed /\ ~s.late /\ s.day \div DayLength = e
    BY <1>9, CountingAfter
  <2>2. j \in Counting(x, e)' => x = u /\ e = d /\ decision = "allowed" /\ ~(now >= Midnight(d))
    BY <1>1, <1>9, <2>1
  <2>3. Midnight(d) \in Int /\ now \in Int /\ read \in Int /\ read <= now
    BY <1>1, <1>3, ConstantTypes DEF Midnight, Days, RateTypes
  <2> HIDE DEF u, read, d
  <2>4. CASE x = u /\ e = d /\ quotas' = [quotas EXCEPT ![<<u, d>>] = Counted(u, d, Midnight(d) - read)]
    <3>1. quotas'[<<x, e>>] = Counted(x, e, Midnight(e) - read)
      BY <1>1, <1>3, <2>4 DEF RateTypes
    <3>2. j \in Counting(x, e)' => WithinQuota(x, e) /\ now < Midnight(e)
      BY <1>7, <2>2, <2>3, <2>4
    <3> QED BY <1>2, <1>9, <2>0, <2>3, <3>1, <3>2, CountedQuota
  <2>5. CASE <<x, e>> # <<u, d>> \/ (quotas' = quotas /\ decision # "allowed")
    <3>1. quotas'[<<x, e>>] = quotas[<<x, e>>]
      BY <1>1, <1>3, <1>7, <2>5 DEF RateTypes
    <3>2. j \in Counting(x, e)' => j \in Counting(x, e)
      BY <2>2, <2>5
    <3> QED BY <1>2, <1>9, <2>0, <3>1, <3>2, QuotaKept
  <2> QED BY <1>7, <2>4, <2>5
<1>13. quotas' \in [Subjects \X Days -> [count : Nat, expires : Int]]
  <2>1. Counted(u, d, Midnight(d) - read) \in [count : Nat, expires : Int]
    <3>1. quotas[<<u, d>>] \in [count : Nat, expires : Int] /\ clock \in Int /\ read \in Int /\ Midnight(d) \in Int
      BY <1>1, <1>3, ConstantTypes DEF RateTypes, clock, Midnight, Days
    <3> HIDE DEF u, read, d
    <3> QED BY <3>1 DEF Counted
  <2> HIDE DEF u, read, d
  <2> QED BY <1>1, <1>3, <1>7, <2>1 DEF RateTypes
<1>14. RateTypes'
  BY <1>2, <1>10, <1>13 DEF RateTypes
<1> QED BY <1>10, <1>11, <1>12, <1>14 DEF BucketsOK, QuotasOK

-----------------------------------------------------------------------------
(* Time.                                                                   *)

LEMMA TickKeepsInv ==
  ASSUME RateInv, TickPasses
  PROVE  RateInv'
<1> USE DEF RateInv
<1>1. now \in Nat /\ now' = now + 1 /\ now' \in 0..MaxTick /\ setBack \in Nat
  BY ConstantTypes DEF TickPasses, RateTypes
<1>2. UNCHANGED <<policy, setBack, callers>>
  BY DEF TickPasses
<1>3. clock \in Int /\ clock + 1 + setBack = now'
  BY <1>1 DEF clock
<1>4. RequestsOK'
  <2>1. ASSUME NEW i \in Requesters PROVE RequestOK(callers[i])' /\ (callers[i].day \in -1..now)'
    <3>1. RequestOK(callers[i]) /\ callers[i].day \in -1..now
      BY DEF RequestsOK
    <3>2. RequestOK(callers[i])'
      BY <1>2, <3>1 DEF RequestOK, Path
    <3>3. callers[i].day \in -1..now'
      BY <1>1, <3>1
    <3> QED BY <1>2, <3>2, <3>3
  <2> QED BY <2>1 DEF RequestsOK
<1>5. ASSUME NEW k \in Buckets PROVE BucketOK(k)'
  <2> DEFINE b == buckets[k]
             spent == Cost * Cardinality(Passed(k))
  <2>1. BucketOK(k) /\ b \in [on : BOOLEAN, tokens : 0..Capacity, at : Int, expires : Int]
    BY DEF BucketsOK, RateTypes
  <2>2. Passed(k) \in SUBSET Requesters /\ Passed(k)' = Passed(k)
    BY <1>2 DEF Passed
  <2>3. spent \in Int /\ spent' = spent
    <3>1. Cardinality(Passed(k)) \in Nat
      BY <2>2, RequestersFinite
    <3> QED BY <2>2, <3>1, ConstantTypes
  <2>4. buckets'[k] = IF b.on /\ b.expires <= clock + 1 THEN NoKey ELSE b
    BY DEF TickPasses
  <2>5. Refill * now <= Refill * now' /\ Refill * now \in Int /\ Refill * now' \in Int
    BY <1>1, ConstantTypes, TimesMonotone, TimesAdds
  <2>6. CASE b.on /\ b.expires <= clock + 1
    <3>1. ~buckets'[k].on
      BY <2>4, <2>6 DEF NoKey
    <3> DEFINE filled == b.at + setBack
    <3>2. spent + b.tokens <= Capacity + Refill * filled /\ b.expires = b.at + BucketTtl
      BY <2>1, <2>6 DEF BucketOK
    <3>3. BucketTtl \in Nat /\ filled \in Int /\ BucketTtl + filled <= now'
      BY <1>1, <1>3, <2>1, <2>6, <3>2, TtlFills
    <3>4. BucketTtl + filled \in Int /\ now' \in Int
      BY <1>1, <3>3
    <3> HIDE DEF filled, spent, b
    <3>5. Refill * (BucketTtl + filled) <= Refill * now'
      BY <3>3, <3>4, ConstantTypes, TimesMonotone
    <3>6. Refill * (BucketTtl + filled) = Refill * BucketTtl + Refill * filled
          /\ Refill * BucketTtl \in Int /\ Refill * filled \in Int
      BY <3>3, ConstantTypes, TimesAdds
    <3>7. Refill * BucketTtl >= Capacity /\ b.tokens \in Nat
      BY <2>1, ConstantTypes, TtlFills
    <3>8. spent <= Refill * now'
      BY <2>3, <2>5, <3>2, <3>5, <3>6, <3>7, ConstantTypes
    <3> QED BY <2>3, <3>1, <3>8 DEF BucketOK, spent
  <2>7. CASE ~(b.on /\ b.expires <= clock + 1)
    <3>1. buckets'[k] = b
      BY <2>4, <2>7
    <3>2. b.on => spent + b.tokens <= Capacity + Refill * now'
      <4>1. b.tokens \in Int
        BY <2>1
      <4>2. b.on => spent + b.tokens <= Capacity + Refill * now
        BY <2>1 DEF BucketOK
      <4> HIDE DEF b, spent
      <4> QED BY <2>3, <2>5, <4>1, <4>2, ConstantTypes
    <3>3. b.on => spent + b.tokens <= Capacity + Refill * (b.at + setBack) /\ b.expires = b.at + BucketTtl
      BY <2>1 DEF BucketOK
    <3>4. ~b.on => spent <= Refill * now'
      <4>1. ~b.on => spent <= Refill * now
        BY <2>1 DEF BucketOK
      <4> HIDE DEF b, spent
      <4> QED BY <2>3, <2>5, <4>1
    <3>5. Cardinality(Passed(k))' = Cardinality(Passed(k))
      BY <2>2
    <3> QED BY <1>2, <3>1, <3>2, <3>3, <3>4, <3>5 DEF BucketOK, BucketTtl
  <2> QED BY <2>6, <2>7
<1>6. ASSUME NEW u \in Subjects, NEW d \in Days PROVE QuotaOK(u, d)'
  <2> DEFINE q == quotas[<<u, d>>]
             P == Cardinality(Counting(u, d))
  <2>1. QuotaOK(u, d) /\ q \in [count : Nat, expires : Int]
    BY DEF QuotasOK, RateTypes
  <2>2. Counting(u, d) \in SUBSET Requesters /\ Counting(u, d)' = Counting(u, d)
    BY <1>2 DEF Counting
  <2>3. P \in Nat /\ Cardinality(Counting(u, d))' = P
    BY <2>2, RequestersFinite
  <2>4. quotas'[<<u, d>>] = IF q.expires <= clock + 1 THEN NoCount ELSE q
    BY DEF TickPasses
  <2>5. Midnight(d) \in Int /\ Midnight(d)' = Midnight(d)
    BY ConstantTypes DEF Midnight, Days
  <2>6. /\ P <= DailyQuota
        /\ now < Midnight(d) => P <= q.count
        /\ q.count > 0 => q.expires + setBack >= Midnight(d)
    BY <2>1 DEF QuotaOK
  <2> HIDE DEF P, q
  <2>7. CASE q.expires <= clock + 1
    <3>1. quotas'[<<u, d>>].count = 0
      BY <2>4, <2>7 DEF NoCount
    <3>2. now' < Midnight(d) => P <= 0
      <4>1. CASE q.count > 0
        BY <1>1, <1>3, <2>1, <2>5, <2>6, <2>7, <4>1
      <4>2. CASE q.count = 0
        BY <1>1, <2>3, <2>5, <2>6, <4>2
      <4> QED BY <2>1, <4>1, <4>2
    <3> QED BY <2>3, <2>5, <2>6, <3>1, <3>2 DEF QuotaOK, P
  <2>8. CASE ~(q.expires <= clock + 1)
    <3>1. quotas'[<<u, d>>] = q
      BY <2>4, <2>8
    <3>2. now' < Midnight(d) => P <= q.count
      BY <1>1, <2>5, <2>6
    <3> QED BY <1>2, <2>3, <2>5, <2>6, <3>1, <3>2 DEF QuotaOK, P
  <2> QED BY <2>7, <2>8
<1>7. RateTypes'
  <2>1. buckets' \in [Buckets -> [on : BOOLEAN, tokens : 0..Capacity, at : Int, expires : Int]]
    <3>1. NoKey \in [on : BOOLEAN, tokens : 0..Capacity, at : Int, expires : Int]
      BY ConstantTypes DEF NoKey
    <3> QED BY <3>1 DEF TickPasses, RateTypes
  <2>2. quotas' \in [Subjects \X Days -> [count : Nat, expires : Int]]
    <3>1. NoCount \in [count : Nat, expires : Int]
      BY DEF NoCount
    <3> QED BY <3>1 DEF TickPasses, RateTypes
  <2> QED BY <1>1, <1>2, <2>1, <2>2 DEF RateTypes
<1> QED BY <1>4, <1>5, <1>6, <1>7 DEF BucketsOK, QuotasOK

LEMMA SetBackKeepsInv ==
  ASSUME RateInv, ClockIsSetBack
  PROVE  RateInv'
<1> USE DEF RateInv
<1>1. /\ setBack \in Nat /\ now \in Nat /\ setBack' = setBack + 1 /\ setBack' \in 0..MaxSetBack
      /\ UNCHANGED <<policy, now, buckets, quotas, callers>>
  BY ConstantTypes DEF ClockIsSetBack, RateTypes
<1>2. RequestsOK'
  BY <1>1 DEF RequestsOK, RequestOK, Path
<1>3. ASSUME NEW k \in Buckets PROVE BucketOK(k)'
  <2> DEFINE b == buckets[k]
             spent == Cost * Cardinality(Passed(k))
  <2>1. BucketOK(k) /\ b \in [on : BOOLEAN, tokens : 0..Capacity, at : Int, expires : Int]
    BY DEF BucketsOK, RateTypes
  <2>2. Passed(k) \in SUBSET Requesters /\ Cardinality(Passed(k))' = Cardinality(Passed(k))
    BY <1>1 DEF Passed
  <2>3. spent \in Int /\ b.tokens \in Int
    BY <2>1, <2>2, RequestersFinite, ConstantTypes
  <2> DEFINE x == b.at + setBack
             y == b.at + setBack'
  <2>4. x \in Int /\ y \in Int /\ x <= y
    BY <1>1, <2>1
  <2>5. b.on => spent + b.tokens <= Capacity + Refill * x
    BY <2>1 DEF BucketOK
  <2> HIDE DEF x, y, b, spent
  <2>6. Refill * x <= Refill * y /\ Refill * x \in Int /\ Refill * y \in Int
    BY <2>4, ConstantTypes, TimesMonotone, TimesAdds
  <2>7. b.on => spent + b.tokens <= Capacity + Refill * y
    BY <2>3, <2>5, <2>6, ConstantTypes
  <2> QED BY <1>1, <2>1, <2>2, <2>7 DEF BucketOK, BucketTtl, y, b, spent
<1>4. ASSUME NEW u \in Subjects, NEW d \in Days PROVE QuotaOK(u, d)'
  <2>1. QuotaOK(u, d) /\ quotas[<<u, d>>] \in [count : Nat, expires : Int]
    BY DEF QuotasOK, RateTypes
  <2>2. Cardinality(Counting(u, d))' = Cardinality(Counting(u, d)) /\ Midnight(d)' = Midnight(d)
    BY <1>1 DEF Counting, Midnight
  <2>3. Midnight(d) \in Int
    BY ConstantTypes DEF Midnight, Days
  <2>4. quotas[<<u, d>>].count > 0 => quotas[<<u, d>>].expires + setBack' >= Midnight(d)
    BY <1>1, <2>1, <2>3 DEF QuotaOK
  <2> QED BY <1>1, <2>1, <2>2, <2>4 DEF QuotaOK
<1>5. RateTypes'
  BY <1>1 DEF RateTypes
<1> QED BY <1>2, <1>3, <1>4, <1>5 DEF BucketsOK, QuotasOK

LEMMA StepKeepsInv == RateInv /\ [RateNext]_rateVars => RateInv'
<1> SUFFICES ASSUME RateInv, [RateNext]_rateVars PROVE RateInv'
  OBVIOUS
<1>1. ASSUME NEW j \in Requesters, RequestComes(j) PROVE RateInv'
  BY <1>1, ArrivalKeepsInv
<1>2. ASSUME NEW j \in Requesters, ChargeBucket(j) PROVE RateInv'
  BY <1>2, ChargeBucketKeepsInv
<1>3. ASSUME NEW j \in Requesters, ReadDate(j) PROVE RateInv'
  BY <1>3, ReadDateKeepsInv
<1>4. ASSUME NEW j \in Requesters, ChargeQuota(j) PROVE RateInv'
  BY <1>4, ChargeQuotaKeepsInv
<1>5. CASE TickPasses
  BY <1>5, TickKeepsInv
<1>6. CASE ClockIsSetBack
  BY <1>6, SetBackKeepsInv
<1>7. CASE UNCHANGED rateVars
  <2>1. RateTypes'
    BY <1>7 DEF RateInv, RateTypes, rateVars
  <2>2. RequestsOK'
    BY <1>7 DEF RateInv, RequestsOK, RequestOK, Path, rateVars
  <2>3. BucketsOK'
    BY <1>7 DEF RateInv, BucketsOK, BucketOK, BucketTtl, Passed, rateVars
  <2>4. QuotasOK'
    BY <1>7 DEF RateInv, QuotasOK, QuotaOK, Counting, Midnight, rateVars
  <2> QED BY <2>1, <2>2, <2>3, <2>4 DEF RateInv
<1> QED BY <1>1, <1>2, <1>3, <1>4, <1>5, <1>6, <1>7 DEF RateNext

-----------------------------------------------------------------------------
(* Theorems.                                                               *)

\* Waiting as long as the refusal says brings the tokens: Refill * RetryAfter covers the gap.
LEMMA RetryLemma == RateTypes => RetrySuffices
<1> SUFFICES ASSUME RateTypes, NEW k \in Buckets, buckets[k].on, buckets[k].tokens < Cost
             PROVE  Refilled(buckets[k], buckets[k].at + RetryAfter(buckets[k].tokens)) >= Cost
  BY DEF RetrySuffices
<1> DEFINE b == buckets[k]
           wait == RetryAfter(b.tokens)
<1>1. b \in [on : BOOLEAN, tokens : 0..Capacity, at : Int, expires : Int] /\ b.on /\ b.tokens < Cost
  BY DEF RateTypes
<1>2. wait \in Nat /\ Refill * wait >= Cost - b.tokens
  <2>1. Cost - b.tokens \in Nat
    BY <1>1, ConstantTypes
  <2> QED BY <2>1, ConstantTypes, CeilDivCovers DEF RetryAfter
<1> HIDE DEF wait, b
<1>3. Larger(0, (b.at + wait) - b.at) = wait
  BY <1>1, <1>2 DEF Larger
<1>4. Refilled(b, b.at + wait) = Smaller(Capacity, b.tokens + wait * Refill)
  BY <1>1, <1>3 DEF Refilled
<1>5. wait * Refill = Refill * wait /\ Refill * wait \in Nat
  BY <1>2, ConstantTypes
<1>6. Refilled(b, b.at + wait) >= Cost
  BY <1>1, <1>2, <1>4, <1>5, ConstantTypes DEF Smaller
<1> QED BY <1>6 DEF b, wait

LEMMA InvImpliesMeters == RateInv => MetersHold
<1> SUFFICES ASSUME RateInv PROVE MetersHold
  OBVIOUS
<1> USE DEF RateInv
<1>1. RateHolds
  <2> SUFFICES ASSUME NEW k \in Buckets PROVE Cost * Cardinality(Passed(k)) <= Capacity + Refill * now
    BY DEF RateHolds
  <2> DEFINE spent == Cost * Cardinality(Passed(k))
             filled == Refill * now
             tokens == buckets[k].tokens
  <2>1. spent \in Int /\ filled \in Int /\ tokens \in Nat
    <3>1. Cardinality(Passed(k)) \in Nat
      BY RequestersFinite DEF Passed
    <3> QED BY <3>1, ConstantTypes DEF RateTypes
  <2>2. spent + tokens <= Capacity + filled \/ spent <= filled
    BY DEF BucketsOK, BucketOK
  <2> HIDE DEF spent, filled, tokens
  <2>3. spent <= Capacity + filled
    BY <2>1, <2>2, ConstantTypes
  <2> QED BY <2>3 DEF spent, filled
<1>2. QuotaHolds
  BY DEF QuotasOK, QuotaOK, Counting, QuotaHolds
<1>3. PlannerIsMetered
  <2>1. PlannerPassed(4) = {"user", "ip", "quota"}
    BY DEF PlannerPassed
  <2> QED BY <2>1 DEF RequestsOK, RequestOK, PlannerIsMetered
<1>4. RetrySuffices
  BY RetryLemma
<1> QED BY <1>1, <1>2, <1>3, <1>4 DEF MetersHold

\* What passes a bucket never exceeds its capacity and its refill, a date's counter lets no
\* more than the quota pass, no itinerary skips a charge, and a refusal's wait suffices: for
\* all sizes of buckets and quotas, any number of requests, lost answers, expiries and
\* a Redis clock that is set back.
THEOREM MetersAlwaysHold == RateSpec => []MetersHold
<1>1. RateSpec => []RateInv
  BY InitInv, StepKeepsInv, PTL DEF RateSpec
<1> QED BY <1>1, InvImpliesMeters, PTL

\* The buckets, counters and requests keep their types: a bucket never holds more than its
\* capacity nor less than nothing, wherever the clock went.
THEOREM RateTypesAreKept == RateSpec => []RateTypeOK
<1>1. RateInv => RateTypeOK
  BY DEF RateInv, RateTypes, RateTypeOK, RequestRecord
<1> QED BY <1>1, InitInv, StepKeepsInv, PTL DEF RateSpec

-----------------------------------------------------------------------------
(* The five together.                                                      *)

\* A behaviour of the run is one of each module, which share no state; the resolvers share
\* the lock with nobody else (plans.py, featured_courses.py, rate_limit.py, course_images/service.py).
THEOREM ProvidersAreAll == MCSpec => PlanSpec /\ FeaturedSpec /\ RateSpec /\ HeroSpec
<1>1. MCInit => PlanInit /\ FeaturedInit /\ RateInit /\ HeroInit
  BY DEF MCInit
<1>2. [MCNext]_providersVars
        => [PlanNext]_planVars /\ [FeaturedNext]_featuredVars /\ [RateNext]_rateVars
           /\ [HeroNext]_<<heroVars, lockVars>>
  BY DEF MCNext, providersVars
<1> QED BY <1>1, <1>2, PTL DEF MCSpec, PlanSpec, FeaturedSpec, RateSpec, HeroSpec

\* Every variable of the five stays in its type, whichever of them the run is about.
THEOREM ProviderTypesCorrect == MCSpec => []TypesOK
<1>1. HeroInv => HeroTypeOK /\ LockTypeOK
  BY DEF HeroInv, HeroTypes, LockInv
<1>2. PlanTypeOK /\ FeaturedTypeOK /\ RateTypeOK /\ HeroTypeOK /\ LockTypeOK => TypesOK
  BY DEF TypesOK
<1> QED BY <1>1, <1>2, ProvidersAreAll, PlanTypeCorrect, FeaturedTypeCorrect, RateTypesAreKept,
           HeroInvariant, PTL
=============================================================================
