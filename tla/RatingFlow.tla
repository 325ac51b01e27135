------------------------------ MODULE RatingFlow ------------------------------
(***************************************************************************)
(* The form in which the app rates one course (RatingFlow.tsx, mounted by  *)
(* rate/[id].tsx): its stages, the calls of Continue and of a comparison,  *)
(* and the photos that upload in the background until a saved round can    *)
(* take them (api/coursePhotoUpload.ts).                                   *)
(*                                                                         *)
(* A handler awaits its calls with the values of the render that started   *)
(* it, while the golfer goes on touching, or leaves, the form.  Each call  *)
(* may fail, before or after the server has done what it asked for.        *)
(***************************************************************************)
EXTENDS FiniteSets, Naturals

CONSTANTS Tiers, NoTier,
          Outings,              \* a date with a score
          Details,              \* what PATCH .../details sends
          Offered,              \* the details of a form for a first rating
          Private,              \* the details of a round that the server creates
          Photos,
          MAX_PHOTOS_PER_ROUND

ASSUME FlowAssumption ==
  /\ NoTier \notin Tiers /\ {Offered, Private} \subseteq Details
  /\ MAX_PHOTOS_PER_ROUND \in Nat

VARIABLES
  stage,      \* the stage on the screen, or "closed"
  form,       \* tier, playedOnInput and score, and the details as they stand
  baseline,   \* coreBaseline and detailsBaseline
  detailsSavePending,
  candidate,  \* the tier of the course to compare with
  save,       \* the handler under way; busy unless it is at "rest"
  server,     \* the rating and its round as the server has them
  staged,     \* stagedPhotos: the status of each, or "no"
  sending,    \* uploads under way, whether still staged or not
  removed,    \* removedWhileUploadingRef
  confirm,    \* the confirmation of each photo in finalizePhotos
  discards,   \* calls of discardPhotoUpload under way
  object,     \* the photos in the object store
  edited,     \* history: the form was changed since Continue or a choice was pressed
  unsure,     \* history: what the server may have done although its answer failed
  told,       \* history: photos the golfer removed, or was told of
  slipped     \* history: photos picked during a save, or staged outside of the round stage

core == <<stage, form, baseline, detailsSavePending, candidate, save, server, edited>>
photos == <<staged, sending, removed, confirm, discards, object, told, slipped>>
flowVars == <<core, photos, unsure>>

Forms == [tier : Tiers \cup {NoTier}, outing : Outings, details : Details]
Rest == [at |-> "rest", form |-> [tier |-> NoTier], new |-> FALSE, persists |-> FALSE,
         against |-> NoTier, ready |-> {}, answered |-> {}]

FlowInit ==
  /\ stage = "tier"
  /\ \/ server \in [tier : Tiers, outing : Outings, details : Details] /\ form = server
     \/ /\ server \in [tier : {NoTier}, outing : Outings, details : {Private}]
        /\ form = [server EXCEPT !.details = Offered]
  /\ baseline = form
  /\ detailsSavePending = FALSE /\ candidate = NoTier /\ save = Rest /\ edited = FALSE
  /\ staged = [p \in Photos |-> "no"] /\ confirm = staged
  /\ object = [p \in Photos |-> "none"]
  /\ sending = {} /\ removed = {} /\ discards = {}
  /\ unsure = {} /\ told = {} /\ slipped = {}

\* ratingState has a rating, and with it a round.
Rated == baseline.tier # NoTier

Busy == save.at # "rest"
Listed == {p \in Photos : staged[p] \notin {"no", "picking"}}
Uploading == {p \in Photos : staged[p] = "uploading"}
Existing == {p \in Photos : confirm[p] = "ok"}

\* The picker covers the form.
Shown(s) == stage = s /\ \A p \in Photos : staged[p] # "picking"

-----------------------------------------------------------------------------
(* The form.                                                               *)

SelectTier(t) ==
  /\ Shown("tier") /\ t # form.tier
  /\ form' = [form EXCEPT !.tier = t] /\ candidate' = NoTier /\ edited' = TRUE
  /\ UNCHANGED <<stage, baseline, detailsSavePending, save, server, photos, unsure>>

EditsRound ==
  /\ Shown("round") /\ edited' = TRUE
  /\ form' \in [tier : {form.tier}, outing : Outings, details : Details] \ {form}
  /\ UNCHANGED <<stage, baseline, detailsSavePending, candidate, save, server, photos, unsure>>

\* Continue of the first stage, and goBack of the later ones.
Turns ==
  /\ \/ Shown("tier") /\ form.tier # NoTier /\ stage' = "round"
     \/ Shown("round") /\ stage' = "tier"
     \/ Shown("comparison") /\ stage' = "round"
     \/ Shown("reveal") /\ stage' = "round"
  /\ UNCHANGED <<form, baseline, detailsSavePending, candidate, save, server, edited, photos, unsure>>

\* A handler starts with the values of this render.
Starts(at, persists, against) ==
  save' = [at |-> at, form |-> form, new |-> ~Rated, persists |-> persists,
           against |-> against, ready |-> {p \in Photos : staged[p] = "ready"},
           answered |-> {}]

DetailsChanged == form.details # baseline.details
CoreUnchanged == form.tier = baseline.tier /\ form.outing = baseline.outing

\* continueFromRound
ContinueFromRound ==
  /\ Shown("round") /\ form.tier # NoTier /\ ~Busy /\ Uploading = {}
  /\ edited' = FALSE
  /\ \/ /\ CoreUnchanged /\ Rated
        /\ UNCHANGED candidate
        /\ IF DetailsChanged \/ detailsSavePending
           THEN Starts("details", FALSE, NoTier) /\ UNCHANGED stage
           ELSE IF Listed # {}
                THEN Starts("photos", FALSE, NoTier) /\ UNCHANGED stage
                ELSE stage' = "reveal" /\ UNCHANGED save
     \/ /\ ~(CoreUnchanged /\ Rated) /\ form.tier = baseline.tier
        /\ Starts("rating", TRUE, NoTier)
        /\ UNCHANGED <<stage, candidate>>
     \/ /\ form.tier # baseline.tier
        /\ candidate' = NoTier
        /\ Starts("candidate", TRUE, NoTier)
        /\ UNCHANGED stage
  /\ UNCHANGED <<form, baseline, detailsSavePending, server, photos, unsure>>

\* A choice of the comparison: persistRating.
Chooses ==
  /\ Shown("comparison") /\ candidate # NoTier /\ ~Busy
  /\ Starts("rating", TRUE, candidate)
  /\ edited' = FALSE
  /\ UNCHANGED <<stage, form, baseline, detailsSavePending, candidate, server, photos, unsure>>

\* setStage, which does nothing once the form is gone.
Shows(s) == stage' = IF stage = "closed" THEN "closed" ELSE s

\* getCandidate answers: with a course of the tier it was asked for, without one, or not at all.
CandidateAnswers ==
  /\ save.at = "candidate"
  /\ \/ candidate' = save.form.tier /\ Shows("comparison") /\ save' = Rest
     \/ save' = [save EXCEPT !.at = "rating"] /\ UNCHANGED <<stage, candidate>>
     \/ save' = Rest /\ UNCHANGED <<stage, candidate>>
  /\ UNCHANGED <<form, baseline, detailsSavePending, server, edited, photos, unsure>>

\* put_course_rating: a new round is private, another keeps its details.
Rates == server' = [save.form EXCEPT !.details = server.details]

\* saveRating succeeds.  A course of another tier cannot be compared with.
RatingSaved ==
  /\ save.at = "rating" /\ save.against \in {NoTier, save.form.tier}
  /\ Rates
  /\ baseline' = [save.form EXCEPT !.details = baseline.details]
  /\ unsure' = unsure \ {"rating"}
  /\ save' = [save EXCEPT !.at = IF \/ save.form.details # baseline.details
                                    \/ save.new \/ detailsSavePending
                                 THEN "details" ELSE "photos"]
  /\ UNCHANGED <<stage, form, detailsSavePending, candidate, edited, photos>>

RatingFails ==
  /\ save.at = "rating" /\ save' = Rest
  /\ \/ UNCHANGED <<server, unsure>>
     \/ /\ save.against \in {NoTier, save.form.tier}
        /\ Rates /\ unsure' = unsure \cup {"rating"}
  /\ UNCHANGED <<stage, form, baseline, detailsSavePending, candidate, edited, photos>>

\* saveDetails succeeds.
DetailsSaved ==
  /\ save.at = "details"
  /\ server' = [server EXCEPT !.details = save.form.details]
  /\ baseline' = [baseline EXCEPT !.details = save.form.details]
  /\ detailsSavePending' = FALSE /\ unsure' = unsure \ {"details"}
  /\ save' = [save EXCEPT !.at = "photos"]
  /\ UNCHANGED <<stage, form, candidate, edited, photos>>

\* Deviation: only a failure of changed details is remembered.
RemembersChanges == DetailsChanged
\* persistRating remembers that its details are not saved.
Remembers == TRUE

DetailsFail ==
  /\ save.at = "details" /\ save' = Rest
  /\ IF save.persists
     THEN Shows("round") /\ detailsSavePending' = Remembers
     ELSE UNCHANGED <<stage, detailsSavePending>>
  /\ \/ UNCHANGED <<server, unsure>>
     \/ /\ server' = [server EXCEPT !.details = save.form.details]
        /\ unsure' = IF save.persists \/ detailsSavePending THEN unsure ELSE unsure \cup {"details"}
  /\ UNCHANGED <<form, baseline, candidate, edited, photos>>

-----------------------------------------------------------------------------
(* The photos.                                                             *)

\* The picker opens, at most one upload being under way.
PickAsset(p) ==
  /\ Shown("round") /\ Uploading = {}
  /\ Cardinality(Listed \cup Existing) < MAX_PHOTOS_PER_ROUND
  /\ staged[p] = "no" /\ object[p] = "none" /\ p \notin sending \cup told
  /\ staged' = [staged EXCEPT ![p] = "picking"]
  /\ slipped' = IF Busy THEN slipped \cup {p} ELSE slipped
  /\ UNCHANGED <<core, unsure, sending, removed, confirm, discards, object, told>>

\* It is cancelled, or its photo is staged, if there still is a form, and uploaded in any case.
Picked(p) ==
  /\ staged[p] = "picking"
  /\ \/ staged' = [staged EXCEPT ![p] = "no"] /\ slipped' = slipped \ {p} /\ UNCHANGED sending
     \/ /\ staged' = [staged EXCEPT ![p] = IF stage = "closed" THEN "no" ELSE "uploading"]
        /\ sending' = sending \cup {p}
        /\ slipped' = IF stage = "round" THEN slipped ELSE slipped \cup {p}
  /\ UNCHANGED <<core, unsure, removed, confirm, discards, object, told>>

\* The upload ends: a photo removed meanwhile is discarded, any other still listed is ready.
UploadLands(p) ==
  /\ p \in sending /\ sending' = sending \ {p}
  /\ object' = [object EXCEPT ![p] = "pending"]
  /\ removed' = removed \ {p}
  /\ IF p \in removed
     THEN discards' = discards \cup {p} /\ UNCHANGED staged
     ELSE staged' = [staged EXCEPT ![p] = IF @ = "no" THEN "no" ELSE "ready"] /\ UNCHANGED discards
  /\ UNCHANGED <<core, unsure, confirm, told, slipped>>

UploadFails(p) ==
  /\ p \in sending /\ sending' = sending \ {p}
  /\ \/ UNCHANGED <<object, unsure>>
     \/ object' = [object EXCEPT ![p] = "pending"] /\ unsure' = unsure \cup {"photo"}
  /\ removed' = removed \ {p} /\ told' = told \cup {p}
  /\ staged' = [staged EXCEPT ![p] = IF @ = "no" THEN "no" ELSE "error"]
  /\ UNCHANGED <<core, confirm, discards, slipped>>

\* discardStagedPhotos, of the photos ps: an upload is flagged, a key is discarded.
Discards(ps) ==
  /\ removed' = removed \cup (ps \cap Uploading)
  /\ discards' = discards \cup {p \in ps : staged[p] = "ready"}

\* removeStagedPhoto
RemoveStagedPhoto(p) ==
  /\ Shown("round") /\ ~Busy /\ p \in Listed
  /\ Discards({p})
  /\ staged' = [staged EXCEPT ![p] = "no"] /\ told' = told \cup {p}
  /\ UNCHANGED <<core, unsure, sending, confirm, object, slipped>>

\* handleClose, or a dismissal that only unmounts the form.
Closes ==
  /\ stage # "closed" /\ stage' = "closed"
  /\ Discards(Photos)
  /\ staged' = [p \in Photos |-> IF staged[p] = "picking" THEN "picking" ELSE "no"]
  /\ UNCHANGED <<form, baseline, detailsSavePending, candidate, save, server, edited,
                 unsure, sending, confirm, object, told, slipped>>

\* discard_upload, unless its call fails: a confirmed photo is refused.
Discarded(p) ==
  /\ p \in discards /\ discards' = discards \ {p}
  /\ \/ /\ object' = [object EXCEPT ![p] = IF @ = "pending" THEN "gone" ELSE @]
        /\ UNCHANGED unsure
     \/ unsure' = unsure \cup {"photo"} /\ UNCHANGED object
  /\ UNCHANGED <<core, staged, sending, removed, confirm, told, slipped>>

\* finalizePhotos asks for all ready photos of its render at once.
Asked == IF save.at = "photos" THEN save.ready \ save.answered ELSE {}

Answers(p, answer) ==
  /\ confirm' = [confirm EXCEPT ![p] = answer]
  /\ save' = [save EXCEPT !.answered = @ \cup {p}]

\* confirm_upload of one photo, and how isRetryableConfirmFailure reads its answer.
Confirmed(p) ==
  /\ p \in Asked
  /\ \/ /\ object[p] \in {"pending", "attached"}          \* confirmed, now or before
        /\ object' = [object EXCEPT ![p] = "attached"]
        /\ \E answer \in {"ok", "retry"} : Answers(p, answer)
        /\ UNCHANGED unsure
     \/ /\ object[p] # "attached"                         \* refused, and its object deleted
        /\ object' = [object EXCEPT ![p] = "gone"]
        /\ Answers(p, "rejected")
        /\ UNCHANGED unsure
     \/ /\ Answers(p, "retry") /\ UNCHANGED <<object, unsure>>
     \/ /\ object[p] = "pending" /\ Answers(p, "rejected")  \* refused before it was looked at
        /\ unsure' = unsure \cup {"photo"} /\ UNCHANGED object
  /\ UNCHANGED <<stage, form, baseline, detailsSavePending, candidate, server, edited,
                 staged, sending, removed, discards, told, slipped>>

With(answer) == {p \in save.ready : confirm[p] = answer}

\* The end of the handler: only photos to be retried stay staged.
Reveals ==
  /\ save.at = "photos" /\ Asked = {}
  /\ Shows("reveal") /\ save' = Rest
  /\ staged' = [p \in Photos |-> IF save.ready = {} \/ p \in With("retry") \/ staged[p] = "picking"
                                THEN staged[p] ELSE "no"]
  /\ told' = told \cup With("rejected")
  /\ UNCHANGED <<form, baseline, detailsSavePending, candidate, server, edited,
                 unsure, sending, removed, confirm, discards, object, slipped>>

-----------------------------------------------------------------------------
FlowNext ==
  \/ \E t \in Tiers : SelectTier(t)
  \/ EditsRound \/ Turns \/ ContinueFromRound \/ Chooses \/ Closes
  \/ CandidateAnswers \/ RatingSaved \/ RatingFails \/ DetailsSaved \/ DetailsFail \/ Reveals
  \/ \E p \in Photos :
       \/ PickAsset(p) \/ Picked(p) \/ RemoveStagedPhoto(p)
       \/ UploadLands(p) \/ UploadFails(p) \/ Discarded(p) \/ Confirmed(p)

FlowSpec == FlowInit /\ [][FlowNext]_flowVars

-----------------------------------------------------------------------------
(* Properties.                                                             *)

\* Every variable stays in its type, and a photo that was removed is not listed any more.
FlowTypeOK ==
  /\ stage \in {"tier", "round", "comparison", "reveal", "closed"}
  /\ form \in Forms /\ baseline \in Forms /\ server \in Forms
  /\ detailsSavePending \in BOOLEAN /\ edited \in BOOLEAN
  /\ candidate \in Tiers \cup {NoTier}
  /\ save.at \in {"rest", "candidate", "rating", "details", "photos"}
  /\ save.form \in IF Busy THEN Forms ELSE {Rest.form}
  /\ staged \in [Photos -> {"no", "picking", "uploading", "ready", "error"}]
  /\ confirm \in [Photos -> {"no", "ok", "rejected", "retry"}]
  /\ object \in [Photos -> {"none", "pending", "attached", "gone"}]
  /\ sending \cup removed \cup discards \cup told \cup slipped \subseteq Photos
  /\ unsure \subseteq {"rating", "details", "photo"}
  /\ removed \cap Listed = {}

\* The reveal shows what is saved: unless the form was changed since, or a failed call did
\* what it was asked for and the golfer then took the change back, the server has the tier,
\* the round and the details of the form, whichever saves failed on the way.
RevealedIsSaved ==
  stage = "reveal" /\ ~edited /\ unsure \cap {"rating", "details"} = {} => server = form

\* A photo that was picked in the round stage, with nothing under way, is staged or attached
\* as long as the form is open, unless the golfer removed it or was told that it failed.
NoPhotoVanishes ==
  stage # "closed" =>
    \A p \in Photos \ (told \cup slipped) :
      p \in sending \/ object[p] # "none" => staged[p] # "no" \/ object[p] = "attached"

\* "leaving the flow without finishing doesn't strand permanent R2 objects": once everything
\* has been answered, and the calls for photos were not lost.
LeavingCleansUp ==
  stage = "closed" /\ ~Busy /\ sending \cup discards = {} /\ "photo" \notin unsure =>
    \A p \in Photos \ slipped : object[p] # "pending"

\* What the golfer gave to the form is not lost without a word (RatingFlow.tsx: a failed save
\* keeps "your answers", is retried by Continue, and photos are attached, retried or reported).
NothingIsLostSilently == RevealedIsSaved /\ NoPhotoVanishes /\ LeavingCleansUp
=============================================================================
