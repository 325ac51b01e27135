------------------------------ MODULE GreenFees ------------------------------
(***************************************************************************)
(* green_fee_suggestions.py: golfers suggest the green fee of a course     *)
(* whose fee is unknown, and suggestions that agree set it.  A submission  *)
(* locks the course, reads, and commits; meanwhile accounts are deleted    *)
(* and the catalogue is imported.                                          *)
(***************************************************************************)
EXTENDS FiniteSets, Integers, Folds

CONSTANTS Suggesters,
          Fees,         \* the fees that are suggested or imported
          Submissions   \* bound: requests of a behaviour

ASSUME FeesAssumption == Fees \subseteq Nat \ {0} /\ Submissions \in Nat

VARIABLES
  fee,        \* Course.green_fee, 0 while it is unknown
  suggested,  \* the row of each user: [fee, status], fee 0 when there is none
  asker,      \* the submissions, in the order they start
  closed,     \* users whose account was deleted
  imported    \* history: the fee of the last import, 0 when there was none

feeVars == <<fee, suggested, asker, closed, imported>>

Unknown == 0
NoSuggestion == [fee |-> Unknown, status |-> "pending"]
Suggestion == [fee : Fees \cup {Unknown}, status : {"pending", "applied"}]
Askers == 1..Submissions
NotAsked == [pc |-> "absent", user |-> {}, fee |-> Unknown, seen |-> {}]
Asked == [NotAsked EXCEPT !.pc = "gone"]
Asking == {j \in Askers : asker[j].pc = "locked"}
InTurn(j) == asker[j] = NotAsked /\ \A i \in 1..(j - 1) : asker[i] # NotAsked
Pending == {u \in Suggesters : suggested[u].fee # Unknown /\ suggested[u].status = "pending"}

FeeInit ==
  /\ fee = Unknown
  /\ suggested = [u \in Suggesters |-> NoSuggestion]
  /\ asker = [j \in Askers |-> NotAsked]
  /\ closed = {} /\ imported = Unknown

-----------------------------------------------------------------------------
\* Deviation: the row of the course is read without FOR UPDATE.
CourseUnlocked == TRUE
CourseIsFree == Asking = {}

\* Up to the reading of the pending rows; the user's own row is part of the request.
\* A first write waits for the user's identity, and a deleted one is refused.
Submit(j, u, f) ==
  /\ InTurn(j) /\ u \notin closed
  /\ \A i \in Asking : asker[i].user # {u}
  /\ CourseIsFree
  /\ asker' = [asker EXCEPT ![j] =
       IF fee # Unknown THEN Asked
       ELSE [pc |-> "locked", user |-> {u}, fee |-> f,
             seen |-> {<<v, suggested[v].fee>> : v \in Pending \ {u}}]]
  /\ UNCHANGED <<fee, suggested, closed, imported>>

\* FEE_AGREEMENT_TOLERANCE: the larger is within a quarter of the smaller.
Agree(a, b) == 4 * a <= 5 * b /\ 4 * b <= 5 * a

\* The rows from the top of a window down to the lowest fee that agrees with it; the first
\* of the largest windows is applied.
Window(rows, top) == {x \in rows : x[2] <= top /\ Agree(x[2], top)}
Tops(rows) == {x[2] : x \in rows}
Largest(rows) ==
  LET size(t) == Cardinality(Window(rows, t))
      best == {t \in Tops(rows) : \A s \in Tops(rows) : size(s) <= size(t)}
  IN  Window(rows, CHOOSE t \in best : \A s \in best : t <= s)
Cluster(rows) == IF Cardinality(Largest(rows)) >= 2 THEN Largest(rows) ELSE {}

RoundedAverage(rows) ==
  LET sum == MapThenFoldSet(+, 0, LAMBDA x : x[2], LAMBDA S : CHOOSE x \in S : TRUE, rows)
      n == Cardinality(rows)
      q == sum \div n   twice == 2 * (sum % n)
  IN  IF twice < n \/ (twice = n /\ q % 2 = 0) THEN q ELSE q + 1

\* A row that is gone by now is not updated; the database may refuse the whole request then.
SubmissionCommits(j) ==
  LET w == asker[j]   rows == w.seen \cup (w.user \X {w.fee})   cluster == Cluster(rows)
      agreed == {x[1] : x \in cluster} IN
  /\ j \in Asking
  /\ asker' = [asker EXCEPT ![j] = Asked]
  /\ UNCHANGED <<closed, imported>>
  /\ \/ /\ suggested' = [v \in Suggesters |->
             LET row == IF v \in w.user THEN [fee |-> w.fee, status |-> "pending"] ELSE suggested[v] IN
             IF v \in agreed /\ row.fee # Unknown THEN [row EXCEPT !.status = "applied"] ELSE row]
        /\ fee' = IF cluster = {} THEN fee ELSE RoundedAverage(cluster)
     \/ (agreed \ w.user) \cap closed # {} /\ UNCHANGED <<fee, suggested>>

-----------------------------------------------------------------------------
\* import_courses: a fee in the catalogue replaces any other, a missing one none.
ImportCourses(f) ==
  /\ CourseIsFree
  /\ fee' = f /\ imported' = f
  /\ UNCHANGED <<suggested, asker, closed>>

\* delete_account waits for the user's own request, and cascades.
AccountCloses(u) ==
  /\ u \notin closed /\ \A j \in Asking : asker[j].user # {u}
  /\ closed' = closed \cup {u}
  /\ suggested' = [suggested EXCEPT ![u] = NoSuggestion]
  /\ UNCHANGED <<fee, asker, imported>>

FeeNext ==
  \/ \E j \in Askers, u \in Suggesters, f \in Fees : Submit(j, u, f)
  \/ \E j \in Askers : SubmissionCommits(j)
  \/ \E f \in Fees : ImportCourses(f)
  \/ \E u \in Suggesters : AccountCloses(u)
FeeSpec == FeeInit /\ [][FeeNext]_feeVars

-----------------------------------------------------------------------------
(* Properties.                                                             *)

\* Every variable stays in its type, and an account that is gone has no row.
FeeTypeOK ==
  /\ fee \in Nat
  /\ suggested \in [Suggesters -> Suggestion]
  /\ asker \in [Askers -> [pc : {"absent", "locked", "gone"}, user : SUBSET Suggesters,
                           fee : Fees \cup {Unknown}, seen : SUBSET (Suggesters \X Fees)]]
  /\ closed \subseteq Suggesters
  /\ imported \in Fees \cup {Unknown}
  /\ \A u \in closed : suggested[u] = NoSuggestion

\* Two golfers who agree have set the fee, however close together they submitted, and
\* whoever corrected or withdrew a suggestion before.
AgreementCounts ==
  fee = Unknown /\ Asking = {} => \A u, v \in Pending : u # v => ~Agree(suggested[u].fee, suggested[v].fee)

\* No agreement overrides a fee of the catalogue, nor one that was agreed on before.
KnownFeeStands ==
  /\ imported # Unknown => fee = imported
  /\ fee = Unknown => \A u \in Suggesters : suggested[u].status = "pending"

\* Suggestions fill the gap of a missing fee, once, and nothing else.
FeesSettle == AgreementCounts /\ KnownFeeStands
=============================================================================
