--------------------------- MODULE PhotoModeration ---------------------------
(***************************************************************************)
(* The user-submitted photos of one course: scored by a provider outside   *)
(* any transaction, approved, rejected, featured or deleted by             *)
(* administrators, and rescored by a maintenance script                    *)
(* (app/course_images/repository.py, app/course_photo_scoring_job.py,      *)
(* app/course_photo_moderation.py, scripts/score_pending_course_photos.py).*)
(*                                                                         *)
(* Every write locks the photo's row FOR UPDATE and commits before any     *)
(* outbound call, so each transaction is one action.  What is not atomic   *)
(* is kept apart: a scoring attempt is a claim and, later, its outcome;    *)
(* the rescore script works through a batch that it selected before; and   *)
(* feature_user_image locks the rows that its query saw when it started.   *)
(***************************************************************************)
EXTENDS Integers, FiniteSets

CONSTANTS
    Photo,
    Uploaded,    \* the photos that exist at the start
    Admin,
    Scorer,      \* slots of scoring tasks and of the sweep script
    NoOne,
    MaxAttempts  \* course_photo_scoring_max_attempts

ASSUME ModerationAssumption ==
    /\ Uploaded \subseteq Photo
    /\ NoOne \notin Admin \cup Scorer \cup Photo
    /\ MaxAttempts \in Nat \ {0}

VARIABLES
    row,    \* course_images, source_type USER
    job,    \* the photo each scoring attempt has claimed, while it calls out
    edit,   \* feature requests: what feature_user_image has read
    batch   \* photos the rescore script selected and has not come to yet

vars == <<row, job, edit, batch>>

HumanAction == {"approved", "rejected", "featured", "unfeatured"}

\* claim is the attempt that holds scoring_claimed_at (the timestamp of an
\* attempt is its own).  A claim may be older than the lease as soon as it is
\* made: the model has no clock.
Row == [status : {"new", "pending", "approved", "rejected", "deleted"},
        hero : BOOLEAN, action : HumanAction \cup {"none", "auto_approved"},
        by : Admin \cup {NoOne}, scored : BOOLEAN, attempts : 0 .. MaxAttempts,
        claim : Scorer \cup {NoOne}]

NewRow == [status |-> "new", hero |-> FALSE, action |-> "none", by |-> NoOne,
           scored |-> FALSE, attempts |-> 0, claim |-> NoOne]
PendingRow == [NewRow EXCEPT !.status = "pending"]
DeletedRow == [NewRow EXCEPT !.status = "deleted"]

Live == {p \in Photo : row[p].status \notin {"new", "deleted"}}

\* has_featured_hero, the OFFICIAL tier aside.
HasFeaturedHero == \E p \in Live : row[p].hero

NoEdit == [photo |-> NoOne, tier |-> {}, featured |-> FALSE]

-----------------------------------------------------------------------------
Init ==
    /\ row = [p \in Photo |-> IF p \in Uploaded THEN PendingRow ELSE NewRow]
    /\ job = [s \in Scorer |-> NoOne]
    /\ edit = [a \in Admin |-> NoEdit]
    /\ batch = {}

\* add_user_image: a confirmed upload.
AddUserImage(p) ==
    /\ row[p].status = "new"
    /\ row' = [row EXCEPT ![p] = PendingRow]
    /\ UNCHANGED <<job, edit, batch>>

-----------------------------------------------------------------------------
(***************************************************************************)
(* Scoring.                                                                *)
(***************************************************************************)

\* Deviation: a claim never becomes old.
ClaimableIfFree(p) ==
    /\ row[p].status = "pending" /\ ~row[p].scored /\ row[p].attempts < MaxAttempts
    /\ ~HasFeaturedHero /\ row[p].claim = NoOne

\* What claim_for_scoring checks under the row's lock; a claim that another
\* attempt holds is taken over when its lease of 300 seconds has run out.
Claimable(p) ==
    /\ row[p].status = "pending"
    /\ ~row[p].scored
    /\ row[p].attempts < MaxAttempts
    /\ ~HasFeaturedHero

\* claim_for_scoring, by the task of an upload or by a sweep.
ClaimForScoring(s, p) ==
    /\ job[s] = NoOne
    /\ Claimable(p)
    /\ row' = [row EXCEPT ![p].attempts = @ + 1, ![p].claim = s]
    /\ job' = [job EXCEPT ![s] = p]
    /\ UNCHANGED <<edit, batch>>

Released(r) == [r EXCEPT !.claim = NoOne]
AutoApproved(r) == [r EXCEPT !.status = "approved", !.by = NoOne, !.action = "auto_approved"]

\* Deviation: whether the claim is still this attempt's is not checked.
ScoredByAnyone(p, s, good) ==
    IF row[p].status # "pending" \/ HasFeaturedHero THEN Released(row[p])
    ELSE LET r == [Released(row[p]) EXCEPT !.scored = TRUE]
         IN  IF good THEN AutoApproved(r) ELSE r

\* Deviation: the status and the hero are those the claim saw.
ScoredUnchecked(p, s, good) ==
    IF row[p].claim # s THEN row[p]
    ELSE LET r == [Released(row[p]) EXCEPT !.scored = TRUE]
         IN  IF good THEN AutoApproved(r) ELSE r

\* complete_scoring: the row that a score of photo p by attempt s leaves.
Scored(p, s, good) ==
    IF row[p].claim # s THEN row[p]
    ELSE IF row[p].status # "pending" \/ HasFeaturedHero THEN Released(row[p])
    ELSE LET r == [Released(row[p]) EXCEPT !.scored = TRUE]
         IN  IF good THEN AutoApproved(r) ELSE r

CompleteScoring(s, good) ==
    LET p == job[s]
    IN  /\ p # NoOne
        /\ row' = IF p \in Live THEN [row EXCEPT ![p] = Scored(p, s, good)] ELSE row
        /\ job' = [job EXCEPT ![s] = NoOne]
        /\ UNCHANGED <<edit, batch>>

\* release_score_claim, after a failed fetch or a failed provider call.
ReleaseScoreClaim(s) ==
    LET p == job[s]
    IN  /\ p # NoOne
        /\ row' = IF row[p].claim = s THEN [row EXCEPT ![p] = Released(@)] ELSE row
        /\ job' = [job EXCEPT ![s] = NoOne]
        /\ UNCHANGED <<edit, batch>>

\* The process of an attempt stops: the claim stays in the row.
ScorerStops(s) ==
    /\ job[s] # NoOne
    /\ job' = [job EXCEPT ![s] = NoOne]
    /\ UNCHANGED <<row, edit, batch>>

-----------------------------------------------------------------------------
(***************************************************************************)
(* score_pending_course_photos --rescore.                                  *)
(***************************************************************************)

\* photos_to_score in rescore mode, except that it leaves out the photos with a
\* claim younger than the lease.
PhotosToRescore ==
    {p \in Live :
        /\ \/ row[p].status = "pending"
           \/ /\ row[p].status = "approved"
              /\ row[p].action = "auto_approved"
              /\ row[p].by = NoOne
        /\ ~HasFeaturedHero}

SelectBatch ==
    /\ batch = {}
    /\ \E claimed \in SUBSET {p \in PhotosToRescore : row[p].claim # NoOne} :
            batch' = PhotosToRescore \ claimed
    /\ batch' # {}
    /\ UNCHANGED <<row, job, edit>>

\* What reset_for_rescore checks under the lock.
Resettable(p) ==
    /\ p \in Live
    /\ row[p].by = NoOne
    /\ \/ row[p].status = "pending"
       \/ row[p].status = "approved" /\ row[p].action = "auto_approved"

\* Deviation: a photo that is reset keeps its recorded action.
ResetKeepsAction(r) == [r EXCEPT !.scored = FALSE, !.attempts = 0, !.status = "pending"]

Reset(r) ==
    LET unscored == [r EXCEPT !.scored = FALSE, !.attempts = 0]
    IN  IF r.status = "approved"
        THEN [unscored EXCEPT !.status = "pending", !.action = "none"] ELSE unscored

\* One photo of the batch: skipped while a hero is featured, else reset.  The
\* scoring that follows is a ClaimForScoring.
ResetForRescore(p) ==
    /\ p \in batch
    /\ batch' = batch \ {p}
    /\ row' = IF ~HasFeaturedHero /\ Resettable(p) THEN [row EXCEPT ![p] = Reset(@)] ELSE row
    /\ UNCHANGED <<job, edit>>

-----------------------------------------------------------------------------
(***************************************************************************)
(* Moderation.                                                             *)
(***************************************************************************)
Moderated(r, a, action) == [r EXCEPT !.by = a, !.action = action]

ApproveCoursePhoto(a, p) ==
    /\ edit[a] = NoEdit
    /\ p \in Live
    /\ row' = [row EXCEPT ![p] = [Moderated(@, a, "approved") EXCEPT !.status = "approved"]]
    /\ UNCHANGED <<job, edit, batch>>

\* set_moderation with REJECTED clears is_hero.
Rejected(r, a) == [Moderated(r, a, "rejected") EXCEPT !.status = "rejected", !.hero = FALSE]

RejectCoursePhoto(a, p) ==
    /\ edit[a] = NoEdit
    /\ p \in Live
    /\ row' = [row EXCEPT ![p] = Rejected(@, a)]
    /\ UNCHANGED <<job, edit, batch>>

\* feature_user_image finds its photo and starts the query that locks the
\* tier: the rows it will lock are those that exist now.
FeatureUserImage(a, p, featured) ==
    /\ edit[a] = NoEdit
    /\ p \in Live
    /\ edit' = [edit EXCEPT ![a] = [photo |-> p, tier |-> Live, featured |-> featured]]
    /\ UNCHANGED <<row, job, batch>>

\* Deviation: the sibling that was featured before stays so.
SiblingKept(r, a) == r

Sibling(r, a) == IF r.hero THEN [Moderated(r, a, "unfeatured") EXCEPT !.hero = FALSE] ELSE r

\* The rest of feature_user_image, on the rows as they are once locked.
FeatureCommits(a) ==
    LET e == edit[a]
        tier == e.tier \cap Live
        featured == [p \in Photo |->
            IF p = e.photo
            THEN [Moderated(row[p], a, "featured") EXCEPT !.hero = TRUE, !.status = "approved"]
            ELSE IF p \in tier THEN Sibling(row[p], a) ELSE row[p]]
        unfeatured == [row EXCEPT ![e.photo] = [Moderated(@, a, "unfeatured") EXCEPT !.hero = FALSE]]
    IN  /\ e # NoEdit
        /\ row' = IF e.photo \notin tier THEN row
                  ELSE IF e.featured THEN featured ELSE unfeatured
        /\ edit' = [edit EXCEPT ![a] = NoEdit]
        /\ UNCHANGED <<job, batch>>

\* delete_course_photo; the deletion of its round or of its uploader's account
\* cascades to the same effect.
DeleteCoursePhoto(a, p) ==
    /\ edit[a] = NoEdit
    /\ p \in Live
    /\ row' = [row EXCEPT ![p] = DeletedRow]
    /\ UNCHANGED <<job, edit, batch>>

\* The account of a moderator is deleted: moderated_by_user_id is SET NULL.
ModeratorLeaves(a) ==
    /\ edit[a] = NoEdit
    /\ \E p \in Photo : row[p].by = a
    /\ row' = [p \in Photo |-> IF row[p].by = a THEN [row[p] EXCEPT !.by = NoOne] ELSE row[p]]
    /\ UNCHANGED <<job, edit, batch>>

-----------------------------------------------------------------------------
Moderation ==
    \/ \E p \in Photo :
        \/ ResetForRescore(p)
        \/ \E s \in Scorer : ClaimForScoring(s, p)
        \/ \E a \in Admin :
            \/ ApproveCoursePhoto(a, p)
            \/ RejectCoursePhoto(a, p)
            \/ DeleteCoursePhoto(a, p)
            \/ \E featured \in BOOLEAN : FeatureUserImage(a, p, featured)
    \/ \E s \in Scorer :
        \/ \E good \in BOOLEAN : CompleteScoring(s, good)
        \/ ReleaseScoreClaim(s)
        \/ ScorerStops(s)
    \/ SelectBatch
    \/ \E a \in Admin : FeatureCommits(a) \/ ModeratorLeaves(a)

Next == (\E p \in Photo : AddUserImage(p)) \/ Moderation

Spec == Init /\ [][Next]_vars

\* Sweeps are run again and again and come to every photo they select, leases
\* run out, and an attempt ends: the provider's call has a timeout.
Fairness ==
    /\ \A p \in Photo : SF_vars(\E s \in Scorer : ClaimForScoring(s, p))
    /\ \A s \in Scorer : WF_vars((\E good \in BOOLEAN : CompleteScoring(s, good))
                                    \/ ReleaseScoreClaim(s) \/ ScorerStops(s))

FairSpec == Spec /\ Fairness

-----------------------------------------------------------------------------
(***************************************************************************)
(* Properties.                                                             *)
(***************************************************************************)

\* The rows are well typed; in particular no photo costs more attempts than
\* the limit allows.
TypeOK ==
    /\ row \in [Photo -> Row]
    /\ job \in [Scorer -> Photo \cup {NoOne}]
    /\ edit \in [Admin -> [photo : Photo \cup {NoOne}, tier : SUBSET Photo, featured : BOOLEAN]]
    /\ batch \subseteq Photo

\* However feature requests interleave, one photo of the tier is featured.
OneHero == \A p, q \in Live : row[p].hero /\ row[q].hero => p = q

\* A featured photo is approved, and a human featured it.
HeroIsApproved ==
    \A p \in Live : row[p].hero => row[p].status = "approved" /\ row[p].action \in HumanAction

\* What a row records explains its status: a pending photo was at most
\* unfeatured, an automatic approval has its score and no moderator, and a
\* rejection is a human's; the hero was approved and featured by one.
StatusIsExplained ==
    /\ HeroIsApproved
    /\ \A p \in Live :
        /\ row[p].status = "pending" => row[p].action \in {"none", "unfeatured"}
        /\ row[p].status = "rejected" => row[p].action \in {"rejected", "unfeatured"}
        /\ row[p].status = "approved" =>
            \/ row[p].action \in {"approved", "featured", "unfeatured"}
            \/ row[p].action = "auto_approved" /\ row[p].scored /\ row[p].by = NoOne

\* A step of the scorer or of the rescore script.
AutomaticStep == job' # job \/ batch' # batch

Decision(r) == [status |-> r.status, hero |-> r.hero, action |-> r.action, by |-> r.by]

\* A score that arrives late, a second attempt or a rescore never changes what
\* a human has decided, also after the moderator's account is gone.
HumanDecisionStands ==
    [][AutomaticStep =>
        \A p \in Photo : row[p].action \in HumanAction /\ row[p].status # "pending"
            => Decision(row'[p]) = Decision(row[p])]_vars

\* An attempt whose claim was taken over writes nothing.
SupersededAttemptWritesNothing ==
    [][\A s \in Scorer :
        job[s] # NoOne /\ job'[s] = NoOne /\ row[job[s]].claim # s => row' = row]_vars

\* A photo that a scorer could still score but that no scorer works on.
Stranded(p) ==
    /\ row[p].status = "pending" /\ ~row[p].scored /\ row[p].attempts < MaxAttempts
    /\ ~HasFeaturedHero
    /\ \A s \in Scorer : job[s] # p

\* Claims that died with their process do not strand a photo.
NoPhotoIsStranded == \A p \in Photo : Stranded(p) ~> ~Stranded(p)
=============================================================================
