--------------------------- MODULE BackgroundProofs ---------------------------
(***************************************************************************)
(* Proofs about what goes on behind the golfers' backs: the moderation and *)
(* scoring of photos (PhotoModeration), for every set of photos,           *)
(* administrators and scoring attempts and every limit on the attempts,    *)
(* and the registrations of the device's push token (PushTokens).          *)
(*                                                                         *)
(* The invariant of PhotoModeration is a statement about each row by       *)
(* itself, RowOK, so a step preserves it when the rows that it writes      *)
(* satisfy it: the lemmas below say so of every way in which a handler     *)
(* changes a row.                                                          *)
(***************************************************************************)
EXTENDS MCBackground, MCPhotoModeration, FiniteSetTheorems, TLAPS

\* What HeroIsApproved and StatusIsExplained say about one row.
RowOK(r) ==
    /\ r \in Row
    /\ r.hero => r.status = "approved" /\ r.action \in HumanAction
    /\ r.status = "pending" => r.action \in {"none", "unfeatured"}
    /\ r.status = "rejected" => r.action \in {"rejected", "unfeatured"}
    /\ r.status = "approved" =>
        \/ r.action \in {"approved", "featured", "unfeatured"}
        \/ r.action = "auto_approved" /\ r.scored /\ r.by = NoOne

JobsOK ==
    /\ job \in [Scorer -> Photo \cup {NoOne}]
    /\ edit \in [Admin -> [photo : Photo \cup {NoOne}, tier : SUBSET Photo, featured : BOOLEAN]]
    /\ batch \subseteq Photo

RowsOK == row \in [Photo -> Row] /\ \A p \in Photo : RowOK(row[p])

IInv == RowsOK /\ JobsOK

-----------------------------------------------------------------------------
(***************************************************************************)
(* The ways in which a row changes.                                        *)
(***************************************************************************)

\* Photos that are new or deleted.
LEMMA ConstantRowsOK == RowOK(NewRow) /\ RowOK(PendingRow) /\ RowOK(DeletedRow)
<1>1. 0 \in 0 .. MaxAttempts
  BY ModerationAssumption
<1>2. RowOK(NewRow)
  BY <1>1 DEF RowOK, Row, NewRow, HumanAction
<1>3. RowOK(PendingRow)
  BY <1>1 DEF RowOK, Row, NewRow, PendingRow, HumanAction
<1>4. RowOK(DeletedRow)
  BY <1>1 DEF RowOK, Row, NewRow, DeletedRow, HumanAction
<1>5. QED
  BY <1>2, <1>3, <1>4

\* A claim is taken.
LEMMA ClaimedOK ==
    ASSUME NEW r, RowOK(r), r.attempts < MaxAttempts, NEW s \in Scorer
    PROVE  RowOK([r EXCEPT !.attempts = @ + 1, !.claim = s])
<1>1. r.attempts + 1 \in 0 .. MaxAttempts
  <2>1. r.attempts \in 0 .. MaxAttempts
    BY DEF RowOK, Row
  <2>2. QED
    BY <2>1, ModerationAssumption
<1>2. QED
  BY <1>1 DEF RowOK, Row, HumanAction

\* A claim is given back.
LEMMA ReleasedOK == ASSUME NEW r, RowOK(r) PROVE RowOK(Released(r))
BY DEF RowOK, Row, Released, HumanAction

\* A score is written, and may approve a photo that is pending.
LEMMA ScoreOK ==
    ASSUME NEW r, RowOK(r), r.status = "pending"
    PROVE  /\ RowOK([Released(r) EXCEPT !.scored = TRUE])
           /\ RowOK(AutoApproved([Released(r) EXCEPT !.scored = TRUE]))
BY DEF RowOK, Row, Released, AutoApproved, HumanAction

LEMMA ScoredOK ==
    ASSUME NEW p \in Photo, RowOK(row[p]), NEW s \in Scorer, NEW good \in BOOLEAN
    PROVE  RowOK(Scored(p, s, good))
<1>1. RowOK(Released(row[p]))
  BY ReleasedOK
<1>2. row[p].status = "pending" =>
        /\ RowOK([Released(row[p]) EXCEPT !.scored = TRUE])
        /\ RowOK(AutoApproved([Released(row[p]) EXCEPT !.scored = TRUE]))
  BY ScoreOK
<1> HIDE DEF RowOK, Released, AutoApproved
<1>3. QED
  BY <1>1, <1>2 DEF Scored

\* A rescore sets a photo back.
LEMMA ResetOK ==
    ASSUME NEW r, RowOK(r), r.by = NoOne,
           r.status = "pending" \/ (r.status = "approved" /\ r.action = "auto_approved")
    PROVE  RowOK(Reset(r))
<1>1. 0 \in 0 .. MaxAttempts
  BY ModerationAssumption
<1>2. CASE r.status = "pending"
  BY <1>1, <1>2 DEF RowOK, Row, Reset, HumanAction
<1>3. CASE r.status = "approved"
  BY <1>1, <1>3 DEF RowOK, Row, Reset, HumanAction
<1>4. QED
  BY <1>2, <1>3

\* The decisions of an administrator.
LEMMA ModeratedOK ==
    ASSUME NEW r, RowOK(r), NEW a \in Admin
    PROVE  /\ RowOK([Moderated(r, a, "approved") EXCEPT !.status = "approved"])
           /\ RowOK(Rejected(r, a))
           /\ RowOK(Sibling(r, a))
           /\ RowOK([Moderated(r, a, "featured") EXCEPT !.hero = TRUE, !.status = "approved"])
           /\ RowOK([Moderated(r, a, "unfeatured") EXCEPT !.hero = FALSE])
<1>1. RowOK([Moderated(r, a, "approved") EXCEPT !.status = "approved"])
  BY DEF RowOK, Row, Moderated, HumanAction
<1>2. RowOK(Rejected(r, a))
  BY DEF RowOK, Row, Moderated, Rejected, HumanAction
<1>3. RowOK(Sibling(r, a))
  BY DEF RowOK, Row, Moderated, Sibling, HumanAction
<1>4. RowOK([Moderated(r, a, "featured") EXCEPT !.hero = TRUE, !.status = "approved"])
  BY DEF RowOK, Row, Moderated, HumanAction
<1>5. RowOK([Moderated(r, a, "unfeatured") EXCEPT !.hero = FALSE])
  BY DEF RowOK, Row, Moderated, HumanAction
<1>6. QED
  BY <1>1, <1>2, <1>3, <1>4, <1>5

\* The moderator of a row is forgotten.
LEMMA ForgottenOK == ASSUME NEW r, RowOK(r) PROVE RowOK([r EXCEPT !.by = NoOne])
BY ModerationAssumption DEF RowOK, Row, HumanAction

-----------------------------------------------------------------------------
\* Writing one good row keeps all rows good.
LEMMA OneRow ==
    ASSUME RowsOK, NEW p \in Photo, NEW r, RowOK(r), row' = [row EXCEPT ![p] = r]
    PROVE  RowsOK'
<1>1. r \in Row
  BY DEF RowOK
<1> HIDE DEF RowOK
<1>2. QED
  BY <1>1 DEF RowsOK

\* Writing any number of good rows.
LEMMA AllRows ==
    ASSUME NEW f, row' = [p \in Photo |-> f[p]], \A p \in Photo : RowOK(f[p])
    PROVE  RowsOK'
<1>1. \A p \in Photo : f[p] \in Row
  BY DEF RowOK
<1> HIDE DEF RowOK
<1>2. QED
  BY <1>1 DEF RowsOK
-----------------------------------------------------------------------------
\* Every step keeps every row good.
LEMMA RowsStep == ASSUME IInv, [Next]_vars PROVE RowsOK'
<1> USE DEF IInv
<1>1. \A p \in Photo : RowOK(row[p])
  BY DEF RowsOK
<1>2. ASSUME row' = row PROVE RowsOK'
  BY <1>2 DEF RowsOK
<1>3. ASSUME NEW p \in Photo, AddUserImage(p) PROVE RowsOK'
  BY <1>3, ConstantRowsOK, OneRow DEF AddUserImage
<1>4. ASSUME NEW p \in Photo, ResetForRescore(p) PROVE RowsOK'
  <2>1. Resettable(p) => RowOK(Reset(row[p]))
    BY <1>1, ResetOK DEF Resettable
  <2>2. CASE ~HasFeaturedHero /\ Resettable(p)
    BY <1>4, <2>1, <2>2, OneRow DEF ResetForRescore
  <2>3. CASE ~(~HasFeaturedHero /\ Resettable(p))
    BY <1>2, <1>4, <2>3 DEF ResetForRescore
  <2>4. QED
    BY <2>2, <2>3
<1>5. ASSUME NEW p \in Photo, NEW s \in Scorer, ClaimForScoring(s, p) PROVE RowsOK'
  <2>1. RowOK([row[p] EXCEPT !.attempts = @ + 1, !.claim = s])
    BY <1>1, <1>5, ClaimedOK DEF ClaimForScoring, Claimable
  <2>2. row' = [row EXCEPT ![p] = [row[p] EXCEPT !.attempts = @ + 1, !.claim = s]]
    BY <1>5 DEF ClaimForScoring, RowsOK
  <2>3. QED
    BY <2>1, <2>2, OneRow
<1>6. ASSUME NEW p \in Photo, NEW a \in Admin,
             ApproveCoursePhoto(a, p) \/ RejectCoursePhoto(a, p) \/ DeleteCoursePhoto(a, p)
      PROVE  RowsOK'
  <2>1. CASE ApproveCoursePhoto(a, p)
    BY <1>1, <2>1, ModeratedOK, OneRow DEF ApproveCoursePhoto
  <2>2. CASE RejectCoursePhoto(a, p)
    BY <1>1, <2>2, ModeratedOK, OneRow DEF RejectCoursePhoto
  <2>3. CASE DeleteCoursePhoto(a, p)
    BY <2>3, ConstantRowsOK, OneRow DEF DeleteCoursePhoto
  <2>4. QED
    BY <1>6, <2>1, <2>2, <2>3
<1>7. ASSUME NEW s \in Scorer, NEW good \in BOOLEAN, CompleteScoring(s, good) PROVE RowsOK'
  <2>1. CASE job[s] \in Live
    <3>1. job[s] \in Photo
      BY <2>1 DEF Live
    <3>2. RowOK(Scored(job[s], s, good))
      BY <1>1, <3>1, ScoredOK
    <3>3. QED
      BY <1>7, <2>1, <3>1, <3>2, OneRow DEF CompleteScoring
  <2>2. CASE job[s] \notin Live
    BY <1>2, <1>7, <2>2 DEF CompleteScoring
  <2>3. QED
    BY <2>1, <2>2
<1>8. ASSUME NEW s \in Scorer, ReleaseScoreClaim(s) PROVE RowsOK'
  <2>1. job[s] \in Photo
    BY <1>8 DEF ReleaseScoreClaim, JobsOK
  <2>2. CASE row[job[s]].claim = s
    BY <1>1, <1>8, <2>1, <2>2, ReleasedOK, OneRow DEF ReleaseScoreClaim
  <2>3. CASE row[job[s]].claim # s
    BY <1>2, <1>8, <2>3 DEF ReleaseScoreClaim
  <2>4. QED
    BY <2>2, <2>3
<1>9. ASSUME NEW a \in Admin, FeatureCommits(a) PROVE RowsOK'
  <2> DEFINE e == edit[a]
             tier == e.tier \cap Live
             f == [p \in Photo |->
                    IF p = e.photo
                    THEN [Moderated(row[p], a, "featured") EXCEPT !.hero = TRUE, !.status = "approved"]
                    ELSE IF p \in tier THEN Sibling(row[p], a) ELSE row[p]]
  <2>1. CASE e.photo \notin tier
    BY <1>2, <1>9, <2>1 DEF FeatureCommits
  <2>2. CASE e.photo \in tier /\ e.featured
    <3>1. \A p \in Photo : RowOK(f[p])
      <4>1. \A p \in Photo :
                /\ RowOK(Sibling(row[p], a))
                /\ RowOK([Moderated(row[p], a, "featured") EXCEPT !.hero = TRUE, !.status = "approved"])
        BY <1>1, ModeratedOK
      <4> HIDE DEF RowOK, Sibling, Moderated
      <4>2. QED
        BY <1>1, <4>1
    <3>2. row' = [p \in Photo |-> f[p]]
      BY <1>9, <2>2 DEF FeatureCommits
    <3> HIDE DEF f
    <3>3. QED
      BY <3>1, <3>2, AllRows
  <2>3. CASE e.photo \in tier /\ ~e.featured
    <3>1. e.photo \in Photo
      BY <2>3 DEF Live
    <3>2. RowOK([Moderated(row[e.photo], a, "unfeatured") EXCEPT !.hero = FALSE])
      BY <1>1, <3>1, ModeratedOK
    <3>3. row' = [row EXCEPT ![e.photo] = [Moderated(@, a, "unfeatured") EXCEPT !.hero = FALSE]]
      BY <1>9, <2>3 DEF FeatureCommits
    <3>4. QED
      BY <3>1, <3>2, <3>3, OneRow
  <2>4. QED
    BY <2>1, <2>2, <2>3
<1>10. ASSUME NEW a \in Admin, ModeratorLeaves(a) PROVE RowsOK'
  <2> DEFINE f == [p \in Photo |-> IF row[p].by = a THEN [row[p] EXCEPT !.by = NoOne] ELSE row[p]]
  <2>1. \A p \in Photo : RowOK(f[p])
    BY <1>1, ForgottenOK
  <2>2. row' = [p \in Photo |-> f[p]]
    BY <1>10 DEF ModeratorLeaves
  <2> HIDE DEF f
  <2>3. QED
    BY <2>1, <2>2, AllRows
<1>11. QED
  BY <1>2, <1>3, <1>4, <1>5, <1>6, <1>7, <1>8, <1>9, <1>10
     DEF Next, Moderation, vars, FeatureUserImage, ScorerStops, SelectBatch

\* The requests in flight stay well typed.
LEMMA JobsStep == ASSUME IInv, [Next]_vars PROVE JobsOK'
<1> USE DEF IInv, JobsOK
<1>1. CASE UNCHANGED <<job, edit, batch>>
  BY <1>1
<1>2. ASSUME NEW p \in Photo, ResetForRescore(p) PROVE JobsOK'
  BY <1>2 DEF ResetForRescore
<1>3. ASSUME NEW p \in Photo, NEW s \in Scorer, ClaimForScoring(s, p) PROVE JobsOK'
  BY <1>3 DEF ClaimForScoring
<1>4. ASSUME NEW p \in Photo, NEW a \in Admin, NEW featured \in BOOLEAN,
             FeatureUserImage(a, p, featured)
      PROVE  JobsOK'
  <2>1. Live \in SUBSET Photo
    BY DEF Live
  <2>2. [photo |-> p, tier |-> Live, featured |-> featured]
            \in [photo : Photo \cup {NoOne}, tier : SUBSET Photo, featured : BOOLEAN]
    BY <2>1
  <2>3. QED
    BY <1>4, <2>2 DEF FeatureUserImage
<1>5. ASSUME NEW s \in Scorer, job' = [job EXCEPT ![s] = NoOne], UNCHANGED <<edit, batch>>
      PROVE  JobsOK'
  BY <1>5
<1>6. CASE SelectBatch
  BY <1>6 DEF SelectBatch, PhotosToRescore, Live
<1>7. ASSUME NEW a \in Admin, FeatureCommits(a) PROVE JobsOK'
  <2>1. NoEdit \in [photo : Photo \cup {NoOne}, tier : SUBSET Photo, featured : BOOLEAN]
    BY DEF NoEdit
  <2>2. QED
    BY <1>7, <2>1 DEF FeatureCommits
<1>8. QED
  BY <1>1, <1>2, <1>3, <1>4, <1>5, <1>6, <1>7
     DEF Next, Moderation, vars, AddUserImage, ApproveCoursePhoto, RejectCoursePhoto,
         DeleteCoursePhoto, CompleteScoring, ReleaseScoreClaim, ScorerStops, ModeratorLeaves

\* The invariant holds in every reachable state.
THEOREM Invariant == Spec => []IInv
<1>1. Init => IInv
  <2>1. ASSUME Init PROVE RowsOK
    <3>1. RowOK(NewRow) /\ RowOK(PendingRow) /\ NewRow \in Row /\ PendingRow \in Row
      BY ConstantRowsOK DEF RowOK
    <3> HIDE DEF RowOK, NewRow, PendingRow
    <3>2. QED
      BY <2>1, <3>1 DEF Init, RowsOK
  <2>2. ASSUME Init PROVE JobsOK
    BY <2>2 DEF Init, JobsOK, NoEdit
  <2>3. QED
    BY <2>1, <2>2 DEF IInv
<1>2. IInv /\ [Next]_vars => IInv'
  BY RowsStep, JobsStep DEF IInv
<1>3. QED
  BY <1>1, <1>2, PTL DEF Spec

-----------------------------------------------------------------------------
\* The rows are well typed; no photo costs more attempts than the limit.
THEOREM TypeCorrect == Spec => []TypeOK
<1>1. IInv => TypeOK
  BY DEF IInv, RowsOK, JobsOK, TypeOK
<1>2. QED
  BY <1>1, Invariant, PTL

\* A featured photo is always an approved one that a human featured.
THEOREM HeroesAreApproved == Spec => []HeroIsApproved
<1>1. IInv => HeroIsApproved
  BY DEF IInv, RowsOK, RowOK, HeroIsApproved, Live
<1>2. QED
  BY <1>1, Invariant, PTL

-----------------------------------------------------------------------------
(***************************************************************************)
(* One hero, when photos arrive while no administrator features another.   *)
(***************************************************************************)

\* A change of a row that features nothing and brings nothing back.
Calm(r, n) ==
    /\ n.hero => r.hero
    /\ r.status \in {"new", "deleted"} => n.status \in {"new", "deleted"}

TierSeen == \A a \in Admin : edit[a] # NoEdit => Live \subseteq edit[a].tier
HInv == OneHero /\ TierSeen

LEMMA CalmRows ==
    ASSUME NEW r \in Row, NEW a, NEW s
    PROVE  /\ Calm(r, r)
           /\ Calm(r, DeletedRow)
           /\ Calm(r, [r EXCEPT !.by = NoOne])
           /\ Calm(r, [r EXCEPT !.attempts = @ + 1, !.claim = s])
           /\ Calm(r, Released(r))
           /\ r.status = "pending" => Calm(r, [Released(r) EXCEPT !.scored = TRUE])
           /\ r.status = "pending" => Calm(r, AutoApproved([Released(r) EXCEPT !.scored = TRUE]))
           /\ r.status \notin {"new", "deleted"} => Calm(r, Reset(r))
           /\ r.status \notin {"new", "deleted"} =>
                Calm(r, [Moderated(r, a, "approved") EXCEPT !.status = "approved"])
           /\ r.status \notin {"new", "deleted"} => Calm(r, Rejected(r, a))
           /\ Calm(r, [Moderated(r, a, "unfeatured") EXCEPT !.hero = FALSE])
<1>1. Calm(r, r) /\ Calm(r, DeletedRow)
  BY DEF Calm, DeletedRow, NewRow
<1>2. Calm(r, [r EXCEPT !.by = NoOne])
  BY DEF Calm, Row
<1>3. Calm(r, [r EXCEPT !.attempts = @ + 1, !.claim = s])
  BY DEF Calm, Row
<1>4. Calm(r, Released(r))
  BY DEF Calm, Row, Released
<1>5. r.status = "pending" => Calm(r, [Released(r) EXCEPT !.scored = TRUE])
  BY DEF Calm, Row, Released
<1>6. r.status = "pending" => Calm(r, AutoApproved([Released(r) EXCEPT !.scored = TRUE]))
  BY DEF Calm, Row, Released, AutoApproved
<1>7. r.status \notin {"new", "deleted"} => Calm(r, Reset(r))
  BY DEF Calm, Row, Reset
<1>8. r.status \notin {"new", "deleted"} => Calm(r, [Moderated(r, a, "approved") EXCEPT !.status = "approved"])
  BY DEF Calm, Row, Moderated
<1>9. r.status \notin {"new", "deleted"} => Calm(r, Rejected(r, a))
  BY DEF Calm, Row, Moderated, Rejected
<1>10. Calm(r, [Moderated(r, a, "unfeatured") EXCEPT !.hero = FALSE])
  BY DEF Calm, Row, Moderated
<1>11. QED
  BY <1>1, <1>2, <1>3, <1>4, <1>5, <1>6, <1>7, <1>8, <1>9, <1>10

\* A score features nothing either.
LEMMA CalmScore ==
    ASSUME NEW p \in Photo, row[p] \in Row, NEW s \in Scorer, NEW good \in BOOLEAN
    PROVE  Calm(row[p], Scored(p, s, good))
<1>1. /\ Calm(row[p], row[p])
      /\ Calm(row[p], Released(row[p]))
      /\ row[p].status = "pending" => Calm(row[p], [Released(row[p]) EXCEPT !.scored = TRUE])
      /\ row[p].status = "pending" =>
            Calm(row[p], AutoApproved([Released(row[p]) EXCEPT !.scored = TRUE]))
  BY CalmRows
<1> HIDE DEF Calm, Released, AutoApproved
<1>2. QED
  BY <1>1 DEF Scored

\* Calm steps keep the one hero, the requests in flight and the photos.
LEMMA CalmStep ==
    ASSUME HInv, \A p \in Photo : Calm(row[p], row'[p]),
           \A a \in Admin : edit'[a] # NoEdit => edit'[a] = edit[a] \/ edit'[a].tier = Live
    PROVE  HInv'
<1>1. Live' \subseteq Live
  BY DEF Calm, Live
<1>2. OneHero'
  BY <1>1 DEF HInv, OneHero, Calm, Live
<1>3. TierSeen'
  BY <1>1 DEF HInv, TierSeen
<1>4. QED
  BY <1>2, <1>3 DEF HInv

\* So do the steps of a feature request.
LEMMA FeatureKeepsOneHero ==
    ASSUME IInv, HInv, NEW a \in Admin, FeatureCommits(a)
    PROVE  HInv'
<1> DEFINE e == edit[a]
           tier == e.tier \cap Live
<1>1. \A b \in Admin : edit'[b] # NoEdit => edit'[b] = edit[b]
  BY DEF FeatureCommits, IInv, JobsOK
<1>2. \A p \in Photo : row[p] \in Row
  BY DEF IInv, RowsOK
<1>3. \A p \in Photo : Calm(row[p], row[p])
  BY DEF Calm
<1>4. CASE e.photo \notin tier
  <2>1. row' = row
    BY <1>4 DEF FeatureCommits
  <2>2. QED
    BY <1>1, <1>3, <2>1, CalmStep
<1>5. CASE e.photo \in tier /\ ~e.featured
  <2>1. row' = [row EXCEPT ![e.photo] = [Moderated(@, a, "unfeatured") EXCEPT !.hero = FALSE]]
    BY <1>5 DEF FeatureCommits
  <2>2. e.photo \in Photo
    BY <1>5 DEF Live
  <2>3. Calm(row[e.photo], [Moderated(row[e.photo], a, "unfeatured") EXCEPT !.hero = FALSE])
    BY <1>2, <2>2 DEF Calm, Row, Moderated
  <2> HIDE DEF e, Calm, Moderated
  <2>4. \A p \in Photo : Calm(row[p], row'[p])
    BY <1>2, <1>3, <2>1, <2>3 DEF IInv, RowsOK
  <2>5. QED
    BY <1>1, <2>4, CalmStep
<1>6. CASE e.photo \in tier /\ e.featured
  <2>1. row' = [p \in Photo |->
            IF p = e.photo
            THEN [Moderated(row[p], a, "featured") EXCEPT !.hero = TRUE, !.status = "approved"]
            ELSE IF p \in tier THEN Sibling(row[p], a) ELSE row[p]]
    BY <1>6 DEF FeatureCommits
  <2>2. e # NoEdit
    BY DEF FeatureCommits
  <2>3. tier = Live /\ e.photo \in Live
    BY <1>6, <2>2 DEF HInv, TierSeen
  <2>4. \A p \in Photo : Sibling(row[p], a).hero = FALSE /\ Sibling(row[p], a).status = row[p].status
    <3>1. ASSUME NEW r \in Row PROVE Sibling(r, a).hero = FALSE /\ Sibling(r, a).status = r.status
      BY DEF Sibling, Moderated, Row
    <3>2. QED
      BY <1>2, <3>1
  <2>5. \A p \in Photo :
          [Moderated(row[p], a, "featured") EXCEPT !.hero = TRUE, !.status = "approved"].status = "approved"
    <3>1. ASSUME NEW r \in Row
          PROVE  [Moderated(r, a, "featured") EXCEPT !.hero = TRUE, !.status = "approved"].status = "approved"
      BY DEF Moderated, Row
    <3>2. QED
      BY <1>2, <3>1
  <2> HIDE DEF e, tier, Sibling, Moderated
  <2>6. \A p \in Photo : p # e.photo => row'[p].status = row[p].status
    BY <2>1, <2>4
  <2>7. row'[e.photo].status = "approved"
    BY <2>1, <2>3, <2>5 DEF Live
  <2>8. \A p \in Photo : p # e.photo /\ p \in Live => row'[p].hero = FALSE
    BY <2>1, <2>3, <2>4
  <2>9. Live' = Live
    BY <2>3, <2>6, <2>7 DEF Live
  <2>10. OneHero'
    BY <2>8, <2>9 DEF OneHero, Live
  <2>11. TierSeen'
    BY <1>1, <2>9 DEF HInv, TierSeen
  <2>12. QED
    BY <2>10, <2>11 DEF HInv
<1>7. QED
  BY <1>4, <1>5, <1>6

\* Writing one row calmly.
LEMMA CalmRow ==
    ASSUME IInv, HInv, NEW p \in Photo, NEW r, Calm(row[p], r), row' = [row EXCEPT ![p] = r],
           \A a \in Admin : edit'[a] # NoEdit => edit'[a] = edit[a] \/ edit'[a].tier = Live
    PROVE  HInv'
<1>1. \A q \in Photo : Calm(row[q], row[q])
  BY DEF Calm
<1> HIDE DEF Calm
<1>2. \A q \in Photo : Calm(row[q], row'[q])
  BY <1>1 DEF IInv, RowsOK
<1>3. QED
  BY <1>2, CalmStep

\* So does a photo that arrives while no request is under way: nobody has featured it, and the next
\* request will see it.
LEMMA ArrivalKeepsOneHero ==
    ASSUME IInv, HInv, NEW p \in Photo, ArrivesQuietly(p)
    PROVE  HInv'
<1>1. row[p].status = "new" /\ row' = [row EXCEPT ![p] = PendingRow] /\ edit' = edit
  BY DEF ArrivesQuietly, AddUserImage
<1>2. row'[p] = PendingRow /\ \A q \in Photo \ {p} : row'[q] = row[q]
  BY <1>1 DEF IInv, RowsOK
<1>3. ~row'[p].hero
  BY <1>2 DEF PendingRow, NewRow
<1>4. OneHero'
  BY <1>2, <1>3 DEF HInv, OneHero, Live
<1>5. TierSeen'
  BY <1>1 DEF ArrivesQuietly, TierSeen
<1>6. QED
  BY <1>4, <1>5 DEF HInv

LEMMA OneHeroStep == ASSUME IInv, HInv, [QuietNext]_vars PROVE HInv'
<1>1. \A p \in Photo : row[p] \in Row
  BY DEF IInv, RowsOK
<1>2. \A p \in Live : p \in Photo /\ row[p].status \notin {"new", "deleted"}
  BY DEF Live
<1>3. ASSUME edit' = edit PROVE \A a \in Admin : edit'[a] # NoEdit => edit'[a] = edit[a] \/ edit'[a].tier = Live
  BY <1>3
<1>4. ASSUME row' = row, edit' = edit PROVE HInv'
  BY <1>4 DEF HInv, OneHero, TierSeen, Live
<1>5. ASSUME NEW p \in Photo, ResetForRescore(p) PROVE HInv'
  <2>1. CASE ~HasFeaturedHero /\ Resettable(p)
    <3>1. Calm(row[p], Reset(row[p]))
      BY <1>1, <1>2, <2>1 DEF Calm, Row, Reset, Resettable
    <3>2. QED
      BY <1>3, <1>5, <2>1, <3>1, CalmRow DEF ResetForRescore
  <2>2. CASE ~(~HasFeaturedHero /\ Resettable(p))
    BY <1>4, <1>5, <2>2 DEF ResetForRescore
  <2>3. QED
    BY <2>1, <2>2
<1>6. ASSUME NEW p \in Photo, NEW s \in Scorer, ClaimForScoring(s, p) PROVE HInv'
  <2>1. Calm(row[p], [row[p] EXCEPT !.attempts = @ + 1, !.claim = s])
    BY <1>1 DEF Calm, Row
  <2>2. row' = [row EXCEPT ![p] = [row[p] EXCEPT !.attempts = @ + 1, !.claim = s]]
    BY <1>6 DEF ClaimForScoring, IInv, RowsOK
  <2>3. QED
    BY <1>3, <1>6, <2>1, <2>2, CalmRow DEF ClaimForScoring
<1>7. ASSUME NEW p \in Photo, NEW a \in Admin, ApproveCoursePhoto(a, p) PROVE HInv'
  <2>1. Calm(row[p], [Moderated(row[p], a, "approved") EXCEPT !.status = "approved"])
    BY <1>1, <1>2, <1>7 DEF Calm, Row, Moderated, ApproveCoursePhoto
  <2>2. QED
    BY <1>3, <1>7, <2>1, CalmRow DEF ApproveCoursePhoto
<1>8. ASSUME NEW p \in Photo, NEW a \in Admin, RejectCoursePhoto(a, p) PROVE HInv'
  <2>1. Calm(row[p], Rejected(row[p], a))
    BY <1>1, <1>2, <1>8 DEF Calm, Row, Moderated, Rejected, RejectCoursePhoto
  <2>2. QED
    BY <1>3, <1>8, <2>1, CalmRow DEF RejectCoursePhoto
<1>9. ASSUME NEW p \in Photo, NEW a \in Admin, DeleteCoursePhoto(a, p) PROVE HInv'
  <2>1. Calm(row[p], DeletedRow)
    BY DEF Calm, DeletedRow, NewRow
  <2>2. QED
    BY <1>3, <1>9, <2>1, CalmRow DEF DeleteCoursePhoto
<1>10. ASSUME NEW p \in Photo, NEW a \in Admin, NEW featured \in BOOLEAN,
              FeatureUserImage(a, p, featured)
       PROVE  HInv'
  <2>1. \A q \in Photo : Calm(row[q], row'[q])
    BY <1>10 DEF FeatureUserImage, Calm
  <2>2. \A b \in Admin : edit'[b] # NoEdit => edit'[b] = edit[b] \/ edit'[b].tier = Live
    BY <1>10 DEF FeatureUserImage, IInv, JobsOK
  <2>3. QED
    BY <2>1, <2>2, CalmStep
<1>11. ASSUME NEW s \in Scorer, NEW good \in BOOLEAN, CompleteScoring(s, good) PROVE HInv'
  <2>1. CASE job[s] \in Live
    <3>1. Calm(row[job[s]], Scored(job[s], s, good))
      BY <1>1, <1>2, <2>1, CalmScore
    <3>2. QED
      BY <1>2, <1>3, <1>11, <2>1, <3>1, CalmRow DEF CompleteScoring
  <2>2. CASE job[s] \notin Live
    BY <1>4, <1>11, <2>2 DEF CompleteScoring
  <2>3. QED
    BY <2>1, <2>2
<1>12. ASSUME NEW s \in Scorer, ReleaseScoreClaim(s) PROVE HInv'
  <2>1. job[s] \in Photo
    BY <1>12 DEF ReleaseScoreClaim, IInv, JobsOK
  <2>2. CASE row[job[s]].claim = s
    <3>1. Calm(row[job[s]], Released(row[job[s]]))
      BY <1>1, <2>1 DEF Calm, Row, Released
    <3>2. QED
      BY <1>3, <1>12, <2>1, <2>2, <3>1, CalmRow DEF ReleaseScoreClaim
  <2>3. CASE row[job[s]].claim # s
    BY <1>4, <1>12, <2>3 DEF ReleaseScoreClaim
  <2>4. QED
    BY <2>2, <2>3
<1>13. ASSUME NEW a \in Admin, ModeratorLeaves(a) PROVE HInv'
  <2>1. \A p \in Photo : Calm(row[p], row[p]) /\ Calm(row[p], [row[p] EXCEPT !.by = NoOne])
    BY <1>1 DEF Calm, Row
  <2> HIDE DEF Calm
  <2>2. \A p \in Photo : Calm(row[p], row'[p])
    BY <1>13, <2>1 DEF ModeratorLeaves
  <2>3. QED
    BY <1>3, <1>13, <2>2, CalmStep DEF ModeratorLeaves
<1>14. QED
  BY <1>4, <1>5, <1>5, <1>6, <1>7, <1>8, <1>9, <1>10, <1>11, <1>12, <1>13,
     FeatureKeepsOneHero, ArrivalKeepsOneHero
     DEF QuietNext, Moderation, vars, ScorerStops, SelectBatch

\* A quiet behaviour is one of PhotoModeration.
LEMMA QuietInvariant == QuietSpec => []IInv
<1>1. [QuietNext]_vars => [Next]_vars
  BY DEF QuietNext, ArrivesQuietly, Next
<1>2. QuietSpec => Spec
  BY <1>1, PTL DEF QuietSpec, Spec
<1>3. QED
  BY <1>2, Invariant

\* Where no photo arrives while an administrator features another, at most one photo is featured,
\* however the requests interleave with each other and with the scorer: every request then locks the
\* whole tier, so it sees, and clears, the photo that was featured before it (feature_user_image).
THEOREM OneHeroWhenQuiet == QuietSpec => []OneHero
<1>1. Init => HInv
  BY DEF Init, HInv, OneHero, TierSeen, Live, PendingRow, NewRow
<1>2. IInv /\ HInv /\ [QuietNext]_vars => HInv'
  BY OneHeroStep
<1>3. HInv => OneHero
  BY DEF HInv
<1>4. QED
  BY <1>1, <1>2, <1>3, QuietInvariant, PTL DEF QuietSpec

-----------------------------------------------------------------------------
\* No step of the scorer or of the rescore script changes what a human has
\* decided about a photo.
THEOREM HumanDecisionAlwaysStands == Spec => HumanDecisionStands
<1>1. ASSUME IInv, [Next]_vars, AutomaticStep, NEW p \in Photo,
             row[p].action \in HumanAction, row[p].status # "pending"
      PROVE  Decision(row'[p]) = Decision(row[p])
  <2>1. \A q \in Photo : row[q] \in Row
    BY <1>1 DEF IInv, RowsOK
  <2>2. ASSUME row' = row PROVE Decision(row'[p]) = Decision(row[p])
    BY <2>2
  <2>3. ASSUME NEW q \in Photo, NEW r, row' = [row EXCEPT ![q] = r], Decision(r) = Decision(row[q])
        PROVE  Decision(row'[p]) = Decision(row[p])
    <3>1. CASE q = p
      <4>1. row'[p] = r
        BY <1>1, <2>3, <3>1 DEF IInv, RowsOK
      <4>2. QED
        BY <2>3, <3>1, <4>1
    <3>2. CASE q # p
      <4>1. row'[p] = row[p]
        BY <1>1, <2>3, <3>2 DEF IInv, RowsOK
      <4>2. QED
        BY <4>1
    <3>3. QED
      BY <3>1, <3>2
  <2>4. ASSUME NEW q \in Photo, NEW r, row' = [row EXCEPT ![q] = r], q # p
        PROVE  Decision(row'[p]) = Decision(row[p])
    <3>1. row'[p] = row[p]
      BY <1>1, <2>4 DEF IInv, RowsOK
    <3>2. QED
      BY <3>1
  <2>5. ASSUME NEW q \in Photo, ResetForRescore(q) PROVE Decision(row'[p]) = Decision(row[p])
    <3>1. CASE q = p /\ Resettable(q)
      BY <1>1, <3>1 DEF Resettable, HumanAction
    <3>2. CASE q # p \/ ~Resettable(q)
      BY <2>2, <2>4, <2>5, <3>2 DEF ResetForRescore
    <3>3. QED
      BY <3>1, <3>2
  <2>6. ASSUME NEW q \in Photo, NEW s \in Scorer, ClaimForScoring(s, q)
        PROVE  Decision(row'[p]) = Decision(row[p])
    <3>1. row' = [row EXCEPT ![q] = [row[q] EXCEPT !.attempts = @ + 1, !.claim = s]]
      BY <1>1, <2>6 DEF ClaimForScoring, IInv, RowsOK
    <3>2. Decision([row[q] EXCEPT !.attempts = @ + 1, !.claim = s]) = Decision(row[q])
      BY <2>1 DEF Decision, Row
    <3>3. QED
      BY <2>3, <3>1, <3>2
  <2>7. \A q \in Photo : Decision(Released(row[q])) = Decision(row[q])
    BY <2>1 DEF Decision, Released, Row
  <2>8. ASSUME NEW s \in Scorer, NEW good \in BOOLEAN, CompleteScoring(s, good)
        PROVE  Decision(row'[p]) = Decision(row[p])
    <3>1. CASE job[s] \in Live /\ job[s] # p
      BY <2>4, <2>8, <3>1 DEF CompleteScoring, Live
    <3>2. CASE job[s] \in Live /\ job[s] = p
      <4>1. Scored(p, s, good) \in {row[p], Released(row[p])}
        BY <1>1, <3>2 DEF Scored
      <4>2. Decision(Scored(p, s, good)) = Decision(row[p])
        BY <2>7, <4>1
      <4>3. QED
        BY <2>3, <2>8, <3>2, <4>2 DEF CompleteScoring
    <3>3. CASE job[s] \notin Live
      BY <2>2, <2>8, <3>3 DEF CompleteScoring
    <3>4. QED
      BY <3>1, <3>2, <3>3
  <2>9. ASSUME NEW s \in Scorer, ReleaseScoreClaim(s) PROVE Decision(row'[p]) = Decision(row[p])
    <3>1. job[s] \in Photo
      BY <1>1, <2>9 DEF ReleaseScoreClaim, IInv, JobsOK
    <3>2. CASE row[job[s]].claim = s
      BY <2>3, <2>7, <2>9, <3>1, <3>2 DEF ReleaseScoreClaim
    <3>3. CASE row[job[s]].claim # s
      BY <2>2, <2>9, <3>3 DEF ReleaseScoreClaim
    <3>4. QED
      BY <3>2, <3>3
  <2>10. QED
    BY <1>1, <2>2, <2>5, <2>6, <2>8, <2>9
       DEF Next, Moderation, vars, AutomaticStep, AddUserImage, ApproveCoursePhoto,
           RejectCoursePhoto, DeleteCoursePhoto, FeatureUserImage, FeatureCommits,
           ModeratorLeaves, ScorerStops, SelectBatch
<1>2. IInv /\ [Next]_vars =>
        (AutomaticStep => \A p \in Photo : row[p].action \in HumanAction /\ row[p].status # "pending"
                            => Decision(row'[p]) = Decision(row[p]))
  BY <1>1
<1>3. QED
  BY <1>2, Invariant, PTL DEF Spec, HumanDecisionStands

-----------------------------------------------------------------------------
\* What a row records always explains its status.
THEOREM StatusAlwaysExplained == Spec => []StatusIsExplained
<1>1. IInv => StatusIsExplained
  BY DEF IInv, RowsOK, RowOK, StatusIsExplained, HeroIsApproved, Live
<1>2. QED
  BY <1>1, Invariant, PTL

\* An attempt whose claim was taken over, or given up by a reset and claimed again, ends without
\* a trace (complete_scoring and release_score_claim compare scoring_claimed_at under the row's lock).
THEOREM SupersededAlwaysWritesNothing == Spec => SupersededAttemptWritesNothing
<1>1. ASSUME IInv, [Next]_vars, NEW s \in Scorer,
             job[s] # NoOne, job'[s] = NoOne, row[job[s]].claim # s
      PROVE  row' = row
  <2>1. /\ row \in [Photo -> Row]
        /\ job \in [Scorer -> Photo \cup {NoOne}]
        /\ job[s] \in Photo
    BY <1>1 DEF IInv, RowsOK, JobsOK
  <2>2. ASSUME NEW z \in Scorer, NEW good \in BOOLEAN, CompleteScoring(z, good)
        PROVE  row' = row
    <3>1. z = s
      BY <1>1, <2>1, <2>2 DEF CompleteScoring
    <3>2. Scored(job[s], s, good) = row[job[s]]
      BY <1>1 DEF Scored
    <3>3. QED
      BY <2>1, <2>2, <3>1, <3>2 DEF CompleteScoring
  <2>3. ASSUME NEW z \in Scorer, ReleaseScoreClaim(z) PROVE row' = row
    <3>1. z = s
      BY <1>1, <2>1, <2>3 DEF ReleaseScoreClaim
    <3>2. QED
      BY <1>1, <2>3, <3>1 DEF ReleaseScoreClaim
  <2>4. ASSUME NEW z \in Scorer, ScorerStops(z) PROVE row' = row
    BY <2>4 DEF ScorerStops
  <2>5. ASSUME NEW z \in Scorer, NEW p \in Photo, ClaimForScoring(z, p) PROVE FALSE
    <3>1. job'[s] \in {job[s], p}
      BY <2>1, <2>5 DEF ClaimForScoring
    <3>2. QED
      BY <1>1, <3>1, ModerationAssumption
  <2>6. job' # job
    BY <1>1
  <2>7. QED
    BY <1>1, <2>2, <2>3, <2>4, <2>5, <2>6
       DEF Next, Moderation, vars, AddUserImage, ApproveCoursePhoto, RejectCoursePhoto,
           DeleteCoursePhoto, FeatureUserImage, FeatureCommits, ModeratorLeaves, ResetForRescore,
           SelectBatch
<1>2. IInv /\ [Next]_vars =>
        \A s \in Scorer :
            job[s] # NoOne /\ job'[s] = NoOne /\ row[job[s]].claim # s => row' = row
  BY <1>1
<1>3. QED
  BY <1>2, Invariant, PTL DEF Spec, SupersededAttemptWritesNothing

-----------------------------------------------------------------------------
(* PushTokens: the inductive invariant.                                    *)

\* The sign-out's DELETE that the client waits for.
Leaves == {c \in Slots : call[c].op = "leave" /\ call[c].waits}

OneLeaves ==
  IF leaving = "unregistering" THEN \E c \in Slots : Leaves = {c} ELSE Leaves = {}

PushTyped ==
  /\ account = Nobody => leaving = "no"
  /\ owner \in Accounts \cup {Nobody} /\ account \in Accounts \cup {Nobody}
  /\ consent \subseteq Accounts /\ failed \in {"no", "put", "other"}
  /\ leaving \in {"no", "waiting", "unregistering", "goodbye"}
  /\ call \in [Slots -> CallRecord]

\* Only a registration looks at the row before it writes, and it is an account's.
ServedInv(c) ==
  /\ call[c].waits => call[c].op # "free"
  /\ call[c].at \in {"asked", "absent", "present", "own", "orphan", "conflict"} => call[c].op = "put"
  /\ call[c].op = "put" => call[c].user \in Accounts
  /\ call[c].op = "put" /\ call[c].at = "applied" => call[c].stored \/ call[c].gone
  /\ call[c].op = "put" /\ call[c].at # "asked" /\ call[c].user = owner => call[c].stored
  /\ call[c].at = "own" => call[c].stored
  /\ call[c].at = "conflict" /\ owner = Nobody => call[c].gone

\* As long as nothing was given up: whatever is under way is waited for; registrations are of
\* the account that is signed in, and end before its sign-out takes the token away.
OrderlyInv(c) ==
  /\ call[c].op # "free" => call[c].waits
  /\ call[c].op = "put" => call[c].user = account /\ leaving \in {"no", "waiting"}
  /\ call[c].op = "leave" =>
       /\ leaving = "unregistering" /\ call[c].user = account
       /\ call[c].at = "applied" => owner = Nobody

Orderly ==
  failed = "no" =>
    /\ \A c \in Slots : OrderlyInv(c)
    /\ leaving = "goodbye" => owner = Nobody
    /\ owner \in {account, Nobody}

PushInv == PushTyped /\ OneLeaves /\ (\A c \in Slots : ServedInv(c)) /\ Orderly

LEMMA PushInvGives == PushInv => PushTypeOK /\ NoStrayToken /\ AnsweredMeansStored
<1> SUFFICES ASSUME PushInv PROVE PushTypeOK /\ NoStrayToken /\ AnsweredMeansStored
  OBVIOUS
<1>1. Cardinality(Leaves) = IF leaving = "unregistering" THEN 1 ELSE 0
  BY FS_Singleton, FS_EmptySet DEF PushInv, OneLeaves
<1> QED BY <1>1 DEF PushInv, PushTyped, PushTypeOK, Leaves, ServedInv, Orderly, NoStrayToken, AnsweredMeansStored

LEMMA PushInvInit == PushInit => PushInv
<1> SUFFICES ASSUME PushInit PROVE PushInv
  OBVIOUS
<1>1. Free \in CallRecord /\ Free.op = "free" /\ Free.at = "none" /\ ~Free.waits
  BY DEF Free, CallRecord
<1>2. \A c \in Slots : call[c] = Free
  BY DEF PushInit
<1> QED BY <1>1, <1>2
           DEF PushInit, PushInv, PushTyped, OneLeaves, Leaves, ServedInv, Orderly, OrderlyInv

-----------------------------------------------------------------------------
(* PushTokens: what the operators on calls do.                             *)

Ats == {"none", "asked", "sent", "absent", "present", "own", "orphan", "conflict", "applied", "refused"}

\* A call whose row is deleted.
AtVanished(at) == IF at \in {"present", "own"} THEN "orphan" ELSE at

\* A call that is put in its slot leaves the others alone.
LEMMA SlotSet ==
  ASSUME PushTyped, NEW c \in Slots, NEW r \in CallRecord
  PROVE  LET calls == [call EXCEPT ![c] = r]
         IN  calls \in [Slots -> CallRecord] /\ \A d \in Slots : calls[d] = IF d = c THEN r ELSE call[d]
BY DEF PushTyped

\* A call that goes on is the same call.
LEMMA SlotMoves ==
  ASSUME PushTyped, NEW c \in Slots, NEW at \in Ats
  PROVE  LET calls == [call EXCEPT ![c].at = at]
         IN  /\ calls \in [Slots -> CallRecord]
             /\ \A d \in Slots : /\ calls[d].op = call[d].op /\ calls[d].user = call[d].user
                                 /\ calls[d].waits = call[d].waits /\ calls[d].stored = call[d].stored
                                 /\ calls[d].gone = call[d].gone
                                 /\ calls[d].at = IF d = c THEN at ELSE call[d].at
<1> DEFINE r == [call[c] EXCEPT !.at = at]
<1>1. call[c] \in CallRecord
  BY DEF PushTyped
<1>2. r \in CallRecord /\ r.op = call[c].op /\ r.user = call[c].user /\ r.waits = call[c].waits
      /\ r.stored = call[c].stored /\ r.gone = call[c].gone /\ r.at = at
  BY <1>1 DEF CallRecord, Ats
<1>3. [call EXCEPT ![c].at = at] = [call EXCEPT ![c] = r]
  OBVIOUS
<1> HIDE DEF r
<1> QED BY <1>2, <1>3, SlotSet

LEMMA OwnsOf ==
  ASSUME NEW calls \in [Slots -> CallRecord], NEW u
  PROVE  /\ Owns(u, calls) \in [Slots -> CallRecord]
         /\ \A d \in Slots : /\ Owns(u, calls)[d].op = calls[d].op /\ Owns(u, calls)[d].user = calls[d].user
                             /\ Owns(u, calls)[d].waits = calls[d].waits
                             /\ Owns(u, calls)[d].at = calls[d].at
                             /\ Owns(u, calls)[d].gone = calls[d].gone
                             /\ calls[d].stored => Owns(u, calls)[d].stored
                             /\ calls[d].op = "put" /\ calls[d].at # "asked" /\ calls[d].user = u
                                  => Owns(u, calls)[d].stored
<1>1. ASSUME NEW d \in Slots
      PROVE  LET r == IF calls[d].op = "put" /\ calls[d].at # "asked" /\ calls[d].user = u
                        THEN [calls[d] EXCEPT !.stored = TRUE] ELSE calls[d]
             IN  /\ r \in CallRecord /\ r.op = calls[d].op /\ r.user = calls[d].user /\ r.waits = calls[d].waits
                 /\ r.at = calls[d].at /\ r.gone = calls[d].gone /\ (calls[d].stored => r.stored)
                 /\ (calls[d].op = "put" /\ calls[d].at # "asked" /\ calls[d].user = u => r.stored)
  <2>1. calls[d] \in CallRecord
    OBVIOUS
  <2> QED BY <2>1 DEF CallRecord
<1> QED BY <1>1 DEF Owns

LEMMA VanishesOf ==
  ASSUME NEW calls \in [Slots -> CallRecord]
  PROVE  /\ Vanishes(calls) \in [Slots -> CallRecord]
         /\ \A d \in Slots : /\ Vanishes(calls)[d].op = calls[d].op /\ Vanishes(calls)[d].user = calls[d].user
                             /\ Vanishes(calls)[d].waits = calls[d].waits
                             /\ Vanishes(calls)[d].at = AtVanished(calls[d].at)
                             /\ Vanishes(calls)[d].stored = calls[d].stored
                             /\ calls[d].gone => Vanishes(calls)[d].gone
                             /\ calls[d].at = "conflict" => Vanishes(calls)[d].gone
<1> DEFINE V(r) == CASE r.at \in {"present", "own"} -> [r EXCEPT !.at = "orphan"]
                     [] r.at = "conflict" -> [r EXCEPT !.gone = TRUE]
                     [] OTHER -> r
<1>1. ASSUME NEW q \in CallRecord
      PROVE  /\ V(q) \in CallRecord /\ V(q).op = q.op /\ V(q).user = q.user /\ V(q).waits = q.waits
             /\ V(q).at = AtVanished(q.at) /\ V(q).stored = q.stored /\ (q.gone => V(q).gone)
             /\ (q.at = "conflict" => V(q).gone)
  <2>1. CASE q.at \in {"present", "own"}
    <3>1. V(q) = [q EXCEPT !.at = "orphan"]
      BY <2>1
    <3> QED BY <2>1, <3>1 DEF CallRecord, AtVanished
  <2>2. CASE q.at = "conflict"
    <3>1. V(q) = [q EXCEPT !.gone = TRUE]
      BY <2>2
    <3> QED BY <2>2, <3>1 DEF CallRecord, AtVanished
  <2>3. CASE q.at \notin {"present", "own", "conflict"}
    <3>1. V(q) = q
      BY <2>3
    <3> QED BY <2>3, <3>1 DEF AtVanished
  <2> QED BY <2>1, <2>2, <2>3
<1>2. Vanishes(calls) = [d \in Slots |-> V(calls[d])]
  BY DEF Vanishes
<1> HIDE DEF V
<1> QED BY <1>1, <1>2

\* What a step leaves as it was in every call, but for how far the server is with it.
SameCall(d) ==
  /\ call'[d].op = call[d].op /\ call'[d].user = call[d].user
  /\ call'[d].waits = call[d].waits /\ (call[d].stored => call'[d].stored) /\ (call[d].gone => call'[d].gone)

LEMMA Moves ==
  ASSUME PushInv, NEW c \in Slots, NEW at \in Ats, SaysAt(c, at)
  PROVE  /\ call' \in [Slots -> CallRecord]
         /\ \A d \in Slots : SameCall(d) /\ call'[d].at = IF d = c THEN at ELSE call[d].at
BY SlotMoves DEF PushInv, SaysAt, SameCall

\* A call goes on while the token becomes u's, or is deleted.
OwnsAt(c, at, u) == call' = Owns(u, [call EXCEPT ![c].at = at])
VanishesAt(c, at) == call' = Vanishes([call EXCEPT ![c].at = at])

LEMMA MovesAndOwns ==
  ASSUME PushInv, NEW c \in Slots, NEW at \in Ats, NEW u, OwnsAt(c, at, u)
  PROVE  /\ call' \in [Slots -> CallRecord]
         /\ \A d \in Slots : /\ SameCall(d) /\ call'[d].at = IF d = c THEN at ELSE call[d].at
                             /\ call'[d].op = "put" /\ call'[d].at # "asked" /\ call'[d].user = u => call'[d].stored
<1> DEFINE calls == [call EXCEPT ![c].at = at]
<1>1. /\ calls \in [Slots -> CallRecord]
      /\ \A d \in Slots : /\ calls[d].op = call[d].op /\ calls[d].user = call[d].user
                          /\ calls[d].waits = call[d].waits /\ calls[d].stored = call[d].stored
                                 /\ calls[d].gone = call[d].gone
                          /\ calls[d].at = IF d = c THEN at ELSE call[d].at
  BY SlotMoves DEF PushInv
<1>2. call' = Owns(u, calls)
  BY DEF OwnsAt
<1> HIDE DEF calls
<1>3. /\ Owns(u, calls) \in [Slots -> CallRecord]
      /\ \A d \in Slots : /\ Owns(u, calls)[d].op = calls[d].op /\ Owns(u, calls)[d].user = calls[d].user
                          /\ Owns(u, calls)[d].waits = calls[d].waits
                          /\ Owns(u, calls)[d].at = calls[d].at
                          /\ Owns(u, calls)[d].gone = calls[d].gone
                          /\ calls[d].stored => Owns(u, calls)[d].stored
                          /\ calls[d].op = "put" /\ calls[d].at # "asked" /\ calls[d].user = u
                               => Owns(u, calls)[d].stored
  BY <1>1, OwnsOf
<1>4. ASSUME NEW d \in Slots
      PROVE  /\ SameCall(d) /\ call'[d].at = IF d = c THEN at ELSE call[d].at
             /\ call'[d].op = "put" /\ call'[d].at # "asked" /\ call'[d].user = u => call'[d].stored
  BY <1>1, <1>2, <1>3 DEF SameCall
<1> QED BY <1>2, <1>3, <1>4

LEMMA MovesAndVanishes ==
  ASSUME PushInv, NEW c \in Slots, NEW at \in Ats, VanishesAt(c, at)
  PROVE  /\ call' \in [Slots -> CallRecord]
         /\ \A d \in Slots : /\ SameCall(d) /\ call'[d].stored = call[d].stored
                             /\ call'[d].at = AtVanished(IF d = c THEN at ELSE call[d].at)
                             /\ call'[d].at = "conflict" => call'[d].gone
<1> DEFINE calls == [call EXCEPT ![c].at = at]
<1>1. /\ calls \in [Slots -> CallRecord]
      /\ \A d \in Slots : /\ calls[d].op = call[d].op /\ calls[d].user = call[d].user
                          /\ calls[d].waits = call[d].waits /\ calls[d].stored = call[d].stored
                                 /\ calls[d].gone = call[d].gone
                          /\ calls[d].at = IF d = c THEN at ELSE call[d].at
  BY SlotMoves DEF PushInv
<1>2. call' = Vanishes(calls)
  BY DEF VanishesAt
<1> HIDE DEF calls
<1>3. /\ Vanishes(calls) \in [Slots -> CallRecord]
      /\ \A d \in Slots : /\ Vanishes(calls)[d].op = calls[d].op /\ Vanishes(calls)[d].user = calls[d].user
                          /\ Vanishes(calls)[d].waits = calls[d].waits
                          /\ Vanishes(calls)[d].at = AtVanished(calls[d].at)
                          /\ Vanishes(calls)[d].stored = calls[d].stored
                          /\ calls[d].gone => Vanishes(calls)[d].gone
                          /\ calls[d].at = "conflict" => Vanishes(calls)[d].gone
  BY <1>1, VanishesOf
<1>4. ASSUME NEW d \in Slots
      PROVE  /\ SameCall(d) /\ call'[d].stored = call[d].stored
                             /\ call'[d].at = AtVanished(IF d = c THEN at ELSE call[d].at)
             /\ call'[d].at = "conflict" => call'[d].gone
  BY <1>1, <1>2, <1>3 DEF SameCall, AtVanished
<1> QED BY <1>2, <1>3, <1>4

LEMMA MadeOf ==
  ASSUME NEW op \in {"put", "delete", "leave"}, NEW user \in Accounts \cup {Nobody}, NEW at \in Ats,
         NEW tries \in 0..2
  PROVE  LET r == Made(op, user, at, tries)
         IN  r \in CallRecord /\ r.op = op /\ r.user = user /\ r.at = at /\ r.waits
BY DEF Made, CallRecord, Ats

LEMMA FreeOf == Free \in CallRecord /\ Free.op = "free" /\ Free.at = "none" /\ ~Free.waits
BY DEF Free, CallRecord

\* With the same calls under way, the sign-out has as many as before.
LEMMA SameCalls ==
  ASSUME PushInv, leaving' = leaving, \A d \in Slots : SameCall(d)
  PROVE  OneLeaves'
<1>1. Leaves' = Leaves
  BY DEF Leaves, SameCall
<1> QED BY <1>1 DEF PushInv, OneLeaves

\* While no call becomes or stops being the sign-out's, it still has one.
LEMMA SameLeaves ==
  ASSUME OneLeaves, leaving' = leaving \/ {leaving, leaving'} \subseteq {"no", "waiting", "goodbye"},
         \A c \in Slots : c \in Leaves' <=> c \in Leaves
  PROVE  OneLeaves'
<1>1. Leaves' = Leaves
  BY DEF Leaves
<1> QED BY <1>1 DEF OneLeaves

-----------------------------------------------------------------------------
(* PushTokens: the steps of the app.                                       *)

LEMMA RegistersKeeps == ASSUME PushInv, NEW c \in Slots, Registers(c) PROVE PushInv'
<1>0. /\ account \in Accounts /\ leaving = "no" /\ call[c] = Free
      /\ call' = [call EXCEPT ![c] = Made("put", account, "asked", 1)]
      /\ UNCHANGED <<owner, account, leaving, consent, failed>>
  BY DEF Registers, MayRegister, Unused, PushInv, PushTyped
<1>1. /\ call' \in [Slots -> CallRecord]
      /\ \A d \in Slots : d # c => call'[d] = call[d]
      /\ call'[c].op = "put" /\ call'[c].user = account /\ call'[c].at = "asked" /\ call'[c].waits
  BY <1>0, SlotSet, MadeOf DEF PushInv, Ats
<1>2. OneLeaves'
  BY <1>0, <1>1, FreeOf, SameLeaves DEF PushInv, Leaves
<1> QED BY <1>0, <1>1, <1>2 DEF PushInv, PushTyped, ServedInv, Orderly, OrderlyInv

LEMMA PutsKeeps == ASSUME PushInv, NEW c \in Slots, Puts(c) PROVE PushInv'
<1>0. call[c].at = "asked" /\ UNCHANGED <<owner, account, leaving, consent, failed>>
  BY DEF Puts
<1>1. CASE call' = Owns(owner, [call EXCEPT ![c].at = "sent"])
  <2>1. "sent" \in Ats /\ OwnsAt(c, "sent", owner)
    BY <1>1 DEF Ats, OwnsAt
  <2>2. /\ call' \in [Slots -> CallRecord]
        /\ \A d \in Slots : /\ SameCall(d) /\ call'[d].at = IF d = c THEN "sent" ELSE call[d].at
                            /\ call'[d].op = "put" /\ call'[d].at # "asked" /\ call'[d].user = owner => call'[d].stored
    BY <2>1, MovesAndOwns
  <2> QED BY <1>0, <2>2, SameCalls DEF SameCall, PushInv, PushTyped, ServedInv, Orderly, OrderlyInv
<1>2. CASE call' = [call EXCEPT ![c] = Free]
  <2>1. /\ call' \in [Slots -> CallRecord]
        /\ \A d \in Slots : call'[d] = IF d = c THEN Free ELSE call[d]
    BY <1>2, SlotSet, FreeOf DEF PushInv
  <2>2. OneLeaves'
    BY <1>0, <2>1, SameLeaves, FreeOf DEF PushInv, ServedInv, Leaves
  <2> QED BY <1>0, <2>1, <2>2, FreeOf DEF PushInv, PushTyped, ServedInv, Orderly, OrderlyInv
<1> QED BY <1>1, <1>2 DEF Puts

LEMMA SwitchesOffKeeps == ASSUME PushInv, NEW c \in Slots, SwitchesOff(c) PROVE PushInv'
<1>0. /\ call[c] = Free /\ consent' = consent \ {account}
      /\ call' = [call EXCEPT ![c] = Made("delete", account, "sent", 1)]
      /\ UNCHANGED <<owner, account, leaving, failed>>
  BY DEF SwitchesOff, Unused
<1>1. /\ call' \in [Slots -> CallRecord]
      /\ \A d \in Slots : d # c => call'[d] = call[d]
      /\ call'[c].op = "delete" /\ call'[c].at = "sent" /\ call'[c].waits
  BY <1>0, SlotSet, MadeOf DEF PushInv, PushTyped, Ats
<1>2. OneLeaves'
  BY <1>0, <1>1, FreeOf, SameLeaves DEF PushInv, Leaves
<1> QED BY <1>0, <1>1, <1>2 DEF PushInv, PushTyped, ServedInv, Orderly, OrderlyInv

LEMMA AnsweredKeeps == ASSUME PushInv, NEW c \in Slots, Answered(c) PROVE PushInv'
<1>0. /\ call[c].waits /\ call[c].at \in {"applied", "refused"}
      /\ call' = [call EXCEPT ![c] = Free]
      /\ leaving' = IF call[c].op = "leave" THEN "goodbye" ELSE leaving
      /\ UNCHANGED <<owner, account, consent>>
      /\ failed' \in {failed, "put", "other"} /\ (failed' = "no" => failed = "no" /\ call[c].at = "applied")
  BY DEF Answered, Fails
<1>1. /\ call' \in [Slots -> CallRecord]
      /\ \A d \in Slots : call'[d] = IF d = c THEN Free ELSE call[d]
  BY <1>0, SlotSet, FreeOf DEF PushInv
<1>2. OneLeaves'
  <2>1. CASE call[c].op = "leave"
    <3>1. Leaves = {c}
      BY <1>0, <2>1 DEF PushInv, OneLeaves, Leaves
    <3>2. Leaves' = {}
      BY <1>1, <3>1, FreeOf DEF Leaves
    <3> QED BY <1>0, <2>1, <3>2 DEF OneLeaves
  <2>2. CASE call[c].op # "leave"
    BY <1>0, <1>1, <2>2, FreeOf, SameLeaves DEF PushInv, Leaves
  <2> QED BY <2>1, <2>2
<1>3. PushTyped' /\ \A d \in Slots : ServedInv(d)'
  <2>1. call[c].op = "leave" => leaving = "unregistering"
    BY <1>0 DEF PushInv, OneLeaves, Leaves
  <2> QED BY <1>0, <1>1, <2>1, FreeOf DEF PushInv, PushTyped, ServedInv
<1>4. Orderly'
  <2> SUFFICES ASSUME failed' = "no" PROVE Orderly'
    BY DEF Orderly
  <2>1. Orderly /\ failed = "no" /\ call[c].at = "applied"
    BY <1>0 DEF PushInv
  <2>2. \A d \in Slots : OrderlyInv(d)'
    <3> SUFFICES ASSUME NEW d \in Slots PROVE OrderlyInv(d)'
      OBVIOUS
    <3>1. CASE call[c].op = "leave"
      <4>1. call[d].op = "put" => FALSE
        BY <2>1, <3>1 DEF Orderly, OrderlyInv
      <4>2. d # c => call[d].op # "leave"
        BY <1>0, <2>1, <3>1 DEF PushInv, OneLeaves, Orderly, OrderlyInv, Leaves
      <4> QED BY <1>0, <1>1, <2>1, <3>1, <4>1, <4>2, FreeOf DEF Orderly, OrderlyInv
    <3>2. CASE call[c].op # "leave"
      BY <1>0, <1>1, <2>1, <3>2, FreeOf DEF Orderly, OrderlyInv
    <3> QED BY <3>1, <3>2
  <2> QED BY <1>0, <2>1, <2>2 DEF Orderly, OrderlyInv
<1> QED BY <1>2, <1>3, <1>4 DEF PushInv

\* Once something was given up the orderly part says nothing.
LEMMA FailedRest ==
  ASSUME failed' \in {"put", "other"}
  PROVE  Orderly'
BY DEF Orderly

LEMMA TimesOutKeeps == ASSUME PushInv, NEW c \in Slots, TimesOut(c) PROVE PushInv'
<1>0. /\ call[c].waits /\ call[c].at # "asked" /\ failed' \in {"put", "other"}
      /\ call[c] \in CallRecord
      /\ UNCHANGED <<owner, account, consent>>
  BY DEF TimesOut, Expires, Fails, PushInv, PushTyped
<1> DEFINE r == [call[c] EXCEPT !.waits = FALSE]
<1>r. /\ r \in CallRecord /\ r.op = call[c].op /\ r.user = call[c].user /\ r.at = call[c].at
      /\ r.stored = call[c].stored /\ r.gone = call[c].gone /\ ~r.waits
  BY <1>0 DEF CallRecord
<1>1. CASE /\ call[c].op # "put" /\ call[c].tries < UNREGISTER_ATTEMPTS /\ UNCHANGED leaving
           /\ \E d \in {e \in Slots : e = c \/ Unused(e)} :
                call' = [call EXCEPT ![c].waits = FALSE, ![d] = Made(call[c].op, call[c].user, "sent", call[c].tries + 1)]
  <2>1. PICK d \in Slots :
          /\ d = c \/ call[d] = Free
          /\ call' = [call EXCEPT ![c].waits = FALSE, ![d] = Made(call[c].op, call[c].user, "sent", call[c].tries + 1)]
    BY <1>1 DEF Unused
  <2> DEFINE m == Made(call[c].op, call[c].user, "sent", call[c].tries + 1)
  <2>2. call[c].op \in {"delete", "leave"}
    BY <1>0, <1>1 DEF CallRecord, PushInv, ServedInv
  <2>3. call[c].user \in Accounts \cup {Nobody} /\ call[c].tries + 1 \in 0..2 /\ "sent" \in Ats
    BY <1>0, <1>1 DEF CallRecord, UNREGISTER_ATTEMPTS, Ats
  <2>4. m \in CallRecord /\ m.op = call[c].op /\ m.user = call[c].user /\ m.at = "sent" /\ m.waits
    BY <2>2, <2>3 DEF Made, CallRecord, Ats
  <2>5. call' = [[call EXCEPT ![c] = r] EXCEPT ![d] = m]
    BY <2>1, Zenon
  <2> HIDE DEF m, r
  <2>6. call' \in [Slots -> CallRecord] /\ \A e \in Slots : call'[e] = IF e = d THEN m ELSE IF e = c THEN r ELSE call[e]
    BY <1>r, <2>4, <2>5 DEF PushInv, PushTyped
  <2>7. OneLeaves'
    <3>1. CASE call[c].op = "leave"
      <4>1. leaving = "unregistering" /\ Leaves = {c}
        BY <1>0, <3>1 DEF PushInv, OneLeaves, Leaves
      <4>2. Leaves' = {d}
        BY <1>r, <2>1, <2>4, <2>6, <3>1, <4>1, FreeOf DEF Leaves
      <4> QED BY <1>1, <4>1, <4>2 DEF OneLeaves
    <3>2. CASE call[c].op # "leave"
      BY <1>1, <1>r, <2>1, <2>4, <2>6, <3>2, FreeOf, SameLeaves DEF PushInv, Leaves
    <3> QED BY <3>1, <3>2
  <2>8. PushTyped'
    BY <1>0, <1>1, <2>6 DEF PushInv, PushTyped
  <2>9. ASSUME NEW e \in Slots PROVE ServedInv(e)'
    <3>1. ServedInv(e) /\ ServedInv(c)
      BY DEF PushInv
    <3> QED BY <1>0, <1>r, <2>2, <2>4, <2>6, <3>1 DEF ServedInv
  <2> QED BY <1>0, <2>7, <2>8, <2>9, FailedRest DEF PushInv
<1>2. CASE /\ call' = [call EXCEPT ![c].waits = FALSE]
           /\ leaving' = IF call[c].op = "leave" THEN "goodbye" ELSE leaving
  <2>1. call' = [call EXCEPT ![c] = r]
    BY <1>2
  <2> HIDE DEF r
  <2>2. call' \in [Slots -> CallRecord] /\ \A e \in Slots : call'[e] = IF e = c THEN r ELSE call[e]
    BY <1>r, <2>1 DEF PushInv, PushTyped
  <2>3. OneLeaves'
    <3>1. CASE call[c].op = "leave"
      <4>1. Leaves = {c}
        BY <1>0, <3>1 DEF PushInv, OneLeaves, Leaves
      <4>2. Leaves' = {}
        BY <1>r, <2>2, <4>1 DEF Leaves
      <4> QED BY <1>2, <3>1, <4>2 DEF OneLeaves
    <3>2. CASE call[c].op # "leave"
      BY <1>2, <1>r, <2>2, <3>2, SameLeaves DEF PushInv, Leaves
    <3> QED BY <3>1, <3>2
  <2>4. PushTyped' /\ \A e \in Slots : ServedInv(e)'
    <3>1. call[c].op = "leave" => leaving = "unregistering"
      BY <1>0 DEF PushInv, OneLeaves, Leaves
    <3> QED BY <1>0, <1>2, <1>r, <2>2, <3>1 DEF PushInv, PushTyped, ServedInv
  <2> QED BY <1>0, <2>3, <2>4, FailedRest DEF PushInv
<1> QED BY <1>1, <1>2 DEF TimesOut

LEMMA UnregistersKeeps == ASSUME PushInv, NEW c \in Slots, Unregisters(c) PROVE PushInv'
<1>0. /\ leaving = "waiting" /\ Pending = {}
      /\ UNCHANGED <<owner, account, consent>>
  BY DEF Unregisters, AllSettled
<1>1. CASE /\ call[c] = Free /\ leaving' = "unregistering" /\ UNCHANGED failed
           /\ call' = [call EXCEPT ![c] = Made("leave", account, "sent", 1)]
  <2>1. /\ call' \in [Slots -> CallRecord]
        /\ \A d \in Slots : d # c => call'[d] = call[d]
        /\ call'[c].op = "leave" /\ call'[c].user = account /\ call'[c].at = "sent" /\ call'[c].waits
    BY <1>1, SlotSet, MadeOf DEF PushInv, PushTyped, Ats
  <2>2. Leaves' = {c}
    BY <1>0, <2>1 DEF PushInv, OneLeaves, Leaves
  <2>3. failed = "no" => \A d \in Slots : call[d].op \notin {"put", "leave"}
    BY <1>0 DEF PushInv, Orderly, OrderlyInv, Pending
  <2> QED BY <1>0, <1>1, <2>1, <2>2, <2>3
             DEF PushInv, PushTyped, OneLeaves, ServedInv, Orderly, OrderlyInv
<1>2. CASE leaving' = "goodbye" /\ failed' = "other" /\ UNCHANGED call
  <2>1. OneLeaves'
    BY <1>0, <1>2, SameLeaves DEF PushInv, Leaves
  <2> QED BY <1>0, <1>2, <2>1, FailedRest DEF PushInv, PushTyped, ServedInv
<1> QED BY <1>1, <1>2 DEF Unregisters, Unused

\* The steps that make no call.
LEMMA SessionKeeps ==
  ASSUME PushInv, SwitchesOn \/ StartsLeaving \/ SignedOut \/ \E a \in Accounts : SignsIn(a)
  PROVE  PushInv'
<1>0. UNCHANGED <<owner, call, failed>>
  BY DEF SwitchesOn, StartsLeaving, SignedOut, SignsIn
<1>1. PushTyped'
  BY <1>0 DEF SwitchesOn, StartsLeaving, SignedOut, SignsIn, PushInv, PushTyped
<1>2. OneLeaves'
  <2>1. leaving' = leaving \/ {leaving, leaving'} \subseteq {"no", "waiting", "goodbye"}
    BY DEF SwitchesOn, StartsLeaving, SignedOut, SignsIn
  <2> QED BY <1>0, <2>1, SameLeaves DEF PushInv, Leaves
<1>3. \A c \in Slots : ServedInv(c)'
  BY <1>0 DEF PushInv, ServedInv
<1>4. Orderly'
  <2>1. CASE SwitchesOn
    BY <1>0, <2>1 DEF SwitchesOn, PushInv, Orderly, OrderlyInv
  <2>2. CASE StartsLeaving
    BY <1>0, <2>2 DEF StartsLeaving, PushInv, Orderly, OrderlyInv
  <2>3. CASE SignedOut
    BY <1>0, <2>3 DEF SignedOut, PushInv, Orderly, OrderlyInv
  <2>4. CASE \E a \in Accounts : SignsIn(a)
    <3>1. \A c \in Slots : call[c].op = "put" => call[c].user # account
      BY <2>4, NobodyAssumption DEF SignsIn, PushInv, ServedInv
    <3>2. leaving = "no" /\ leaving' = "no" /\ account = Nobody
      BY <2>4 DEF SignsIn, PushInv, PushTyped
    <3> QED BY <1>0, <2>4, <3>1, <3>2 DEF PushInv, Orderly, OrderlyInv
  <2> QED BY <2>1, <2>2, <2>3, <2>4
<1> QED BY <1>1, <1>2, <1>3, <1>4 DEF PushInv

LEMMA AppDiesKeeps == ASSUME PushInv, AppDies PROVE PushInv'
<1>0. /\ failed' = "other" /\ leaving' = "no"
      /\ call' = [c \in Slots |-> IF call[c].at = "asked" THEN Free ELSE [call[c] EXCEPT !.waits = FALSE]]
      /\ UNCHANGED <<owner, account, consent>>
  BY DEF AppDies
<1>1. ASSUME NEW c \in Slots
      PROVE  /\ call'[c] \in CallRecord /\ ~call'[c].waits
             /\ \/ call'[c] = Free
                \/ /\ call'[c].op = call[c].op /\ call'[c].user = call[c].user
                   /\ call'[c].at = call[c].at /\ call'[c].stored = call[c].stored
                   /\ call'[c].gone = call[c].gone
  <2>1. call[c] \in CallRecord
    BY DEF PushInv, PushTyped
  <2>2. CASE call[c].at = "asked"
    BY <1>0, <2>2, FreeOf
  <2>3. CASE call[c].at # "asked"
    <3>1. call'[c] = [call[c] EXCEPT !.waits = FALSE]
      BY <1>0, <2>3
    <3> QED BY <2>1, <3>1 DEF CallRecord
  <2> QED BY <2>2, <2>3
<1>2. call' \in [Slots -> CallRecord]
  <2> DEFINE r(c) == IF call[c].at = "asked" THEN Free ELSE [call[c] EXCEPT !.waits = FALSE]
  <2>1. \A c \in Slots : r(c) \in CallRecord
    BY <1>0, <1>1
  <2>2. call' = [c \in Slots |-> r(c)]
    BY <1>0
  <2> HIDE DEF r
  <2> QED BY <2>1, <2>2
<1>3. OneLeaves'
  BY <1>0, <1>1 DEF OneLeaves, Leaves
<1> QED BY <1>0, <1>1, <1>2, <1>3, FreeOf, FailedRest DEF PushInv, PushTyped, ServedInv

-----------------------------------------------------------------------------
(* PushTokens: the steps of the server.                                    *)

LEMMA ReadsKeeps == ASSUME PushInv, NEW c \in Slots, Reads(c) PROVE PushInv'
<1>0. /\ call[c].op = "put" /\ call[c].at = "sent"
      /\ UNCHANGED <<owner, account, leaving, consent, failed>>
  BY DEF Reads
<1>1. PICK at \in {"absent", "present", "own"} : SaysAt(c, at) /\ (at = "own" => owner = call[c].user)
  BY DEF Reads, Found
<1>2. /\ call' \in [Slots -> CallRecord]
      /\ \A d \in Slots : SameCall(d) /\ call'[d].at = IF d = c THEN at ELSE call[d].at
  BY <1>1, Moves DEF Ats
<1> QED BY <1>0, <1>1, <1>2, SameCalls DEF SameCall, PushInv, PushTyped, ServedInv, Orderly, OrderlyInv

LEMMA InsertsKeeps == ASSUME PushInv, NEW c \in Slots, Inserts(c) PROVE PushInv'
<1>0. /\ call[c].at = "absent" /\ call[c].op = "put" /\ call[c].user \in Accounts
      /\ UNCHANGED <<account, leaving, consent, failed>>
  BY DEF Inserts, PushInv, ServedInv
<1>1. CASE /\ owner = Nobody /\ owner' = call[c].user
           /\ call' = Owns(owner', [call EXCEPT ![c].at = "applied"])
  <2> DEFINE u == call[c].user
  <2>1. "applied" \in Ats /\ OwnsAt(c, "applied", u)
    BY <1>1 DEF Ats, OwnsAt
  <2> HIDE DEF u
  <2>2. /\ call' \in [Slots -> CallRecord]
        /\ \A d \in Slots : /\ SameCall(d) /\ call'[d].at = IF d = c THEN "applied" ELSE call[d].at
                            /\ call'[d].op = "put" /\ call'[d].at # "asked" /\ call'[d].user = u => call'[d].stored
    BY <2>1, MovesAndOwns
  <2>3. call'[c].stored /\ owner' = u /\ u \in Accounts /\ u # Nobody /\ call[c].user = u
    BY <1>0, <1>1, <2>2, NobodyAssumption DEF u, SameCall
  <2>4. PushTyped'
    BY <1>0, <1>1, <2>2, <2>3 DEF PushInv, PushTyped
  <2>6. ASSUME NEW d \in Slots PROVE ServedInv(d)'
    <3>1. ServedInv(d) /\ SameCall(d)
      BY <2>2 DEF PushInv
    <3>2. CASE d = c
      BY <1>0, <2>2, <2>3, <3>1, <3>2 DEF SameCall, ServedInv
    <3>3. CASE d # c
      BY <2>2, <2>3, <3>1, <3>3 DEF SameCall, ServedInv
    <3> QED BY <3>2, <3>3
  <2>5. Orderly'
    <3> SUFFICES ASSUME failed = "no" PROVE Orderly'
      BY <1>0 DEF Orderly
    <3>1. /\ \A d \in Slots : OrderlyInv(d)
          /\ call[c].user = account /\ leaving \in {"no", "waiting"}
      BY <1>0 DEF PushInv, Orderly, OrderlyInv
    <3>2. ASSUME NEW d \in Slots PROVE OrderlyInv(d)'
      BY <1>0, <2>2, <3>1 DEF SameCall, OrderlyInv
    <3> QED BY <1>0, <1>1, <3>1, <3>2 DEF Orderly
  <2> QED BY <1>0, <2>2, <2>4, <2>5, <2>6, SameCalls DEF PushInv
<1>2. CASE owner # Nobody /\ SaysAt(c, Conflict) /\ UNCHANGED owner
  <2>1. /\ call' \in [Slots -> CallRecord]
        /\ \A d \in Slots : SameCall(d) /\ call'[d].at = IF d = c THEN "conflict" ELSE call[d].at
    BY <1>2, Moves DEF Ats, Conflict
  <2> QED BY <1>0, <1>2, <2>1, SameCalls DEF SameCall, PushInv, PushTyped, ServedInv, Orderly, OrderlyInv
<1> QED BY <1>1, <1>2 DEF Inserts

LEMMA ReassignsKeeps == ASSUME PushInv, NEW c \in Slots, Reassigns(c) PROVE PushInv'
<1>0. /\ call[c].at \in {"present", "own", "orphan"} /\ call[c].op = "put" /\ call[c].user \in Accounts
      /\ UNCHANGED <<account, leaving, consent, failed>>
  BY DEF Reassigns, PushInv, ServedInv
<1>1. CASE /\ owner' = call[c].user
           /\ call' = Owns(owner', [call EXCEPT ![c].at = "applied"])
  <2> DEFINE u == call[c].user
  <2>1. "applied" \in Ats /\ OwnsAt(c, "applied", u)
    BY <1>1 DEF Ats, OwnsAt
  <2> HIDE DEF u
  <2>2. /\ call' \in [Slots -> CallRecord]
        /\ \A d \in Slots : /\ SameCall(d) /\ call'[d].at = IF d = c THEN "applied" ELSE call[d].at
                            /\ call'[d].op = "put" /\ call'[d].at # "asked" /\ call'[d].user = u => call'[d].stored
    BY <2>1, MovesAndOwns
  <2>3. call'[c].stored /\ owner' = u /\ u \in Accounts /\ u # Nobody /\ call[c].user = u
    BY <1>0, <1>1, <2>2, NobodyAssumption DEF u, SameCall
  <2>4. PushTyped'
    BY <1>0, <1>1, <2>2, <2>3 DEF PushInv, PushTyped
  <2>6. ASSUME NEW d \in Slots PROVE ServedInv(d)'
    <3>1. ServedInv(d) /\ SameCall(d)
      BY <2>2 DEF PushInv
    <3>2. CASE d = c
      BY <1>0, <2>2, <2>3, <3>1, <3>2 DEF SameCall, ServedInv
    <3>3. CASE d # c
      BY <2>2, <2>3, <3>1, <3>3 DEF SameCall, ServedInv
    <3> QED BY <3>2, <3>3
  <2>5. Orderly'
    <3> SUFFICES ASSUME failed = "no" PROVE Orderly'
      BY <1>0 DEF Orderly
    <3>1. /\ \A d \in Slots : OrderlyInv(d)
          /\ call[c].user = account /\ leaving \in {"no", "waiting"}
      BY <1>0 DEF PushInv, Orderly, OrderlyInv
    <3>2. ASSUME NEW d \in Slots PROVE OrderlyInv(d)'
      BY <1>0, <2>2, <3>1 DEF SameCall, OrderlyInv
    <3> QED BY <1>0, <1>1, <3>1, <3>2 DEF Orderly
  <2> QED BY <1>0, <2>2, <2>4, <2>5, <2>6, SameCalls DEF PushInv
<1>3. CASE call[c].at = "own" /\ SaysAt(c, "applied") /\ UNCHANGED owner
  <2>1. /\ call' \in [Slots -> CallRecord]
        /\ \A d \in Slots : SameCall(d) /\ call'[d].at = IF d = c THEN "applied" ELSE call[d].at
    BY <1>3, Moves DEF Ats
  <2> QED BY <1>0, <1>3, <2>1, SameCalls DEF SameCall, PushInv, PushTyped, ServedInv, Orderly, OrderlyInv
<1>2. CASE SaysAt(c, "refused") /\ UNCHANGED owner
  <2>1. /\ call' \in [Slots -> CallRecord]
        /\ \A d \in Slots : SameCall(d) /\ call'[d].at = IF d = c THEN "refused" ELSE call[d].at
    BY <1>2, Moves DEF Ats
  <2> QED BY <1>0, <1>2, <2>1, SameCalls DEF SameCall, PushInv, PushTyped, ServedInv, Orderly, OrderlyInv
<1> QED BY <1>1, <1>2, <1>3 DEF Reassigns

LEMMA LooksOnceMoreKeeps == ASSUME PushInv, NEW c \in Slots, LooksOnceMore(c) PROVE PushInv'
<1>0. /\ call[c].at = "conflict" /\ call[c].op = "put"
      /\ UNCHANGED <<owner, account, leaving, consent, failed>>
  BY DEF LooksOnceMore, PushInv, ServedInv
<1>1. PICK at \in {"applied", "present", "own"} :
        SaysAt(c, at) /\ (at = "applied" => owner = Nobody) /\ (at = "own" => owner = call[c].user)
  BY DEF LooksOnceMore, Found
<1>2. /\ call' \in [Slots -> CallRecord]
      /\ \A d \in Slots : SameCall(d) /\ call'[d].at = IF d = c THEN at ELSE call[d].at
  BY <1>1, Moves DEF Ats
<1> QED BY <1>0, <1>1, <1>2, SameCalls DEF SameCall, PushInv, PushTyped, ServedInv, Orderly, OrderlyInv

LEMMA DeletesKeeps == ASSUME PushInv, NEW c \in Slots, Deletes(c) PROVE PushInv'
<1>0. /\ call[c].at = "sent" /\ call[c].op \in {"delete", "leave"}
      /\ UNCHANGED <<account, leaving, consent, failed>>
  BY DEF Deletes
<1>1. CASE /\ owner = call[c].user /\ owner' = Nobody
           /\ call' = Vanishes([call EXCEPT ![c].at = "applied"])
  <2>1. "applied" \in Ats /\ VanishesAt(c, "applied")
    BY <1>1 DEF Ats, VanishesAt
  <2>2. /\ call' \in [Slots -> CallRecord]
        /\ \A d \in Slots : /\ SameCall(d) /\ call'[d].stored = call[d].stored
                            /\ call'[d].at = AtVanished(IF d = c THEN "applied" ELSE call[d].at)
                            /\ call'[d].at = "conflict" => call'[d].gone
    BY <2>1, MovesAndVanishes
  <2>3. PushTyped'
    BY <1>0, <1>1, <2>2 DEF PushInv, PushTyped
  <2>4. ASSUME NEW d \in Slots PROVE ServedInv(d)'
    <3>1. ServedInv(d) /\ SameCall(d)
      BY <2>2 DEF PushInv
    <3>2. CASE d = c
      BY <1>0, <1>1, <2>2, <3>1, <3>2 DEF SameCall, ServedInv, AtVanished
    <3>3. CASE d # c
      BY <1>1, <2>2, <3>1, <3>3, NobodyAssumption DEF SameCall, ServedInv, AtVanished
    <3> QED BY <3>2, <3>3
  <2>5. ASSUME failed = "no", NEW d \in Slots PROVE OrderlyInv(d)'
    <3>1. OrderlyInv(d) /\ OrderlyInv(c) /\ SameCall(d)
      BY <2>2, <2>5 DEF PushInv, Orderly
    <3> QED BY <1>0, <1>1, <2>2, <3>1 DEF SameCall, OrderlyInv
  <2> QED BY <1>0, <1>1, <2>2, <2>3, <2>4, <2>5, SameCalls DEF PushInv, Orderly
<1>2. CASE owner # call[c].user /\ SaysAt(c, "applied") /\ UNCHANGED owner
  <2>1. /\ call' \in [Slots -> CallRecord]
        /\ \A d \in Slots : SameCall(d) /\ call'[d].at = IF d = c THEN "applied" ELSE call[d].at
    BY <1>2, Moves DEF Ats
  <2> QED BY <1>0, <1>2, <2>1, SameCalls DEF SameCall, PushInv, PushTyped, ServedInv, Orderly, OrderlyInv
<1> QED BY <1>1, <1>2 DEF Deletes

LEMMA ForgottenKeeps == ASSUME PushInv, NEW c \in Slots, Forgotten(c) PROVE PushInv'
<1>0. /\ ~call[c].waits /\ call' = [call EXCEPT ![c] = Free]
      /\ UNCHANGED <<owner, account, leaving, consent, failed>>
  BY DEF Forgotten
<1>1. call' \in [Slots -> CallRecord] /\ \A d \in Slots : call'[d] = IF d = c THEN Free ELSE call[d]
  BY <1>0, SlotSet, FreeOf DEF PushInv
<1>2. OneLeaves'
  BY <1>0, <1>1, FreeOf, SameLeaves DEF PushInv, Leaves
<1> QED BY <1>0, <1>1, <1>2, FreeOf DEF PushInv, PushTyped, ServedInv, Orderly, OrderlyInv

LEMMA DeliveryPrunesKeeps == ASSUME PushInv, DeliveryPrunes PROVE PushInv'
<1>0. /\ owner' = Nobody /\ call' = Vanishes(call)
      /\ UNCHANGED <<account, leaving, consent, failed>>
  BY DEF DeliveryPrunes
<1>1. /\ call' \in [Slots -> CallRecord]
      /\ \A d \in Slots : /\ SameCall(d) /\ call'[d].stored = call[d].stored
                          /\ call'[d].at = AtVanished(call[d].at)
                          /\ call[d].at = "conflict" => call'[d].gone
  BY <1>0, VanishesOf DEF PushInv, PushTyped, SameCall
<1>2. \A d \in Slots : ServedInv(d)'
  BY <1>0, <1>1, NobodyAssumption DEF SameCall, PushInv, ServedInv, AtVanished
<1>3. Orderly'
  BY <1>0, <1>1 DEF SameCall, PushInv, Orderly, OrderlyInv, AtVanished
<1> QED BY <1>0, <1>1, <1>2, <1>3, SameCalls DEF PushInv, PushTyped

-----------------------------------------------------------------------------
(* PushTokens: the theorems.                                               *)

\* Every step keeps the invariant.
LEMMA PushInvStep == PushInv /\ [PushNext]_pushVars => PushInv'
<1> SUFFICES ASSUME PushInv, [PushNext]_pushVars PROVE PushInv'
  OBVIOUS
<1>1. ASSUME NEW c \in Slots, Registers(c) \/ SwitchesOff(c) PROVE PushInv'
  BY <1>1, RegistersKeeps, SwitchesOffKeeps
<1>2. ASSUME NEW c \in Slots, ClientStep(c) PROVE PushInv'
  BY <1>2, PutsKeeps, AnsweredKeeps, TimesOutKeeps, UnregistersKeeps DEF ClientStep
<1>3. ASSUME NEW c \in Slots, ServerStep(c) PROVE PushInv'
  BY <1>3, ReadsKeeps, InsertsKeeps, ReassignsKeeps, LooksOnceMoreKeeps, DeletesKeeps, ForgottenKeeps DEF ServerStep
<1>4. CASE SwitchesOn \/ StartsLeaving \/ SignedOut \/ \E a \in Accounts : SignsIn(a)
  BY <1>4, SessionKeeps
<1>5. CASE AppDies
  BY <1>5, AppDiesKeeps
<1>6. CASE DeliveryPrunes
  BY <1>6, DeliveryPrunesKeeps
<1>7. CASE UNCHANGED pushVars
  BY <1>7 DEF pushVars, PushInv, PushTyped, OneLeaves, Leaves, ServedInv, Orderly, OrderlyInv
<1> QED BY <1>1, <1>2, <1>3, <1>4, <1>5, <1>6, <1>7 DEF PushNext

LEMMA PushInvAlways == PushSpec => []PushInv
BY PushInvInit, PushInvStep, PTL DEF PushSpec

\* Every variable of the device's push token stays in its type, and a sign-out has one DELETE
\* under way exactly while it unregisters (pushTokens.ts), however often it is tried again.
THEOREM PushTypeCorrect == PushSpec => []PushTypeOK
BY PushInvAlways, PushInvGives, PTL

\* As long as no call was given up, the device's token is never an account's that has signed
\* out here (signOutWithPushCleanup waits for its registrations before it unregisters).
THEOREM TokenFollowsAccount == PushSpec => []NoStrayToken
BY PushInvAlways, PushInvGives, PTL

\* A registration that is answered with success had the token's row for its account since it
\* was sent, unless it lost its INSERT to a row that was deleted before its second look
\* (register_push_token answers 204 there too).
THEOREM AnswersAreTrue == PushSpec => []AnsweredMeansStored
BY PushInvAlways, PushInvGives, PTL

-----------------------------------------------------------------------------
(* The two together.                                                       *)

\* A behaviour of the run is one of each module: what is proved of them holds in it.  Tokens
\* and photos share no state (pushTokens.ts, course_photo_scoring.py).
THEOREM BackgroundIsBoth == BackgroundSpec => FairSpec /\ PushSpec
<1>1. BackgroundInit => Init /\ PushInit
  BY DEF BackgroundInit
<1>2. [BackgroundNext]_<<vars, pushVars, side>> => [Next]_vars /\ [PushNext]_pushVars
  BY DEF BackgroundNext
<1> QED BY <1>1, <1>2, PTL DEF BackgroundSpec, Spec, FairSpec, PushSpec

\* Every variable of the two stays in its type, whichever of them the run is about.
THEOREM BackgroundTypesCorrect == BackgroundSpec => []TypesOK
<1>1. TypeOK /\ PushTypeOK => TypesOK
  BY DEF TypesOK
<1> QED BY <1>1, BackgroundIsBoth, TypeCorrect, PushTypeCorrect, PTL DEF FairSpec
=============================================================================
