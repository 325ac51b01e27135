--------------------------- MODULE RatingFlowProofs ---------------------------
(***************************************************************************)
(* Proofs about RatingFlow, the form that rates a course: for any forms,   *)
(* any photos and whatever fails.                                          *)
(***************************************************************************)
EXTENDS RatingFlow, FiniteSetTheorems, TLAPS

-----------------------------------------------------------------------------
(* RatingFlow: the inductive invariant.                                    *)

SaveRecord ==
  [at : {"rest", "candidate", "rating", "details", "photos"}, form : Forms \cup {Rest.form},
   new : BOOLEAN, persists : BOOLEAN, against : Tiers \cup {NoTier},
   ready : SUBSET Photos, answered : SUBSET Photos]

SameForm(f, g) == f.tier = g.tier /\ f.outing = g.outing

\* What the handler under way may count on.
HandlerInv ==
  /\ save \in SaveRecord
  /\ ~Busy => save = Rest
  /\ Busy \/ candidate # NoTier => form.tier # NoTier
  /\ Busy => stage # "reveal" /\ save.form.tier # NoTier /\ (~edited => save.form = form)
  /\ save.at \in {"candidate", "rating"} => save.persists /\ save.new = ~Rated
  /\ save.at \in {"details", "photos"} => Rated /\ SameForm(save.form, baseline)
  /\ save.at = "photos" => save.form = baseline /\ ~detailsSavePending

\* The baseline is what the server has, except for what is known to be unsaved, or not known.
BaselineInv ==
  /\ "rating" \notin unsure => SameForm(server, baseline)
  /\ "details" \notin unsure /\ Rated /\ ~detailsSavePending
       /\ ~(save.at = "details" /\ save.persists) => server.details = baseline.details

\* Where a photo can be, in the list and in the store.
WhereInv(p) ==
  /\ staged[p] = "picking" => p \notin sending /\ object[p] = "none" /\ p \notin told
  /\ staged[p] = "uploading" => p \in sending
  /\ staged[p] = "ready" \/ p \in save.ready => p \notin sending /\ object[p] # "none"
  /\ staged[p] = "error" => p \in told
  /\ p \in sending => object[p] = "none"
  /\ p \in removed => p \in sending /\ staged[p] = "no" /\ (p \in told \/ stage = "closed")
  /\ stage = "closed" => staged[p] \in {"no", "picking"}

\* A photo that slipped past a save was picked while it was under way, or after it looked.
SlipInv(p) ==
  /\ Busy /\ staged[p] \in {"picking", "uploading", "ready"} /\ p \notin save.ready => p \in slipped
  /\ stage = "comparison" /\ staged[p] \in {"picking", "uploading"} => p \in slipped
  /\ p \in sending \ slipped => staged[p] = "uploading" \/ p \in removed

\* What an answer to a confirmation says of the object.
AnswerInv(p) ==
  /\ p \in save.answered => confirm[p] # "no"
  /\ confirm[p] = "ok" => object[p] = "attached"
  /\ confirm[p] = "rejected" /\ "photo" \notin unsure => object[p] = "gone"

\* An object that may still go away is in the list or is being discarded.
PendingInv(p) ==
  "photo" \notin unsure /\ p \notin slipped /\ object[p] = "pending" =>
    staged[p] = "ready" \/ p \in discards

\* What NoPhotoVanishes says of one photo.
KeptInv(p) ==
  stage # "closed" /\ p \notin told \cup slipped /\ (p \in sending \/ object[p] # "none") =>
    staged[p] # "no" \/ object[p] = "attached"

OfPhoto(p) == WhereInv(p) /\ SlipInv(p) /\ AnswerInv(p) /\ PendingInv(p) /\ KeptInv(p)
PhotoInv == \A p \in Photos : OfPhoto(p)

\* The types of the variables, without what FlowTypeOK says of removed photos.
FlowTyped ==
  /\ stage \in {"tier", "round", "comparison", "reveal", "closed"}
  /\ form \in Forms /\ baseline \in Forms /\ server \in Forms
  /\ detailsSavePending \in BOOLEAN /\ edited \in BOOLEAN
  /\ candidate \in Tiers \cup {NoTier}
  /\ staged \in [Photos -> {"no", "picking", "uploading", "ready", "error"}]
  /\ confirm \in [Photos -> {"no", "ok", "rejected", "retry"}]
  /\ object \in [Photos -> {"none", "pending", "attached", "gone"}]
  /\ sending \cup removed \cup discards \cup told \cup slipped \subseteq Photos
  /\ unsure \subseteq {"rating", "details", "photo"}

FormInv == HandlerInv /\ BaselineInv /\ RevealedIsSaved
FlowInv == FlowTyped /\ FormInv /\ PhotoInv

\* The invariant has the type invariant and all of NothingIsLostSilently.
LEMMA FlowInvGives == FlowInv => FlowTypeOK /\ NothingIsLostSilently
<1> SUFFICES ASSUME FlowInv PROVE FlowTypeOK /\ NothingIsLostSilently
  OBVIOUS
<1>1. FlowTypeOK
  BY DEF FlowInv, FlowTyped, FormInv, HandlerInv, SaveRecord, Busy, Rest, FlowTypeOK, PhotoInv, OfPhoto,
         WhereInv, Listed
<1>2. NoPhotoVanishes
  BY DEF FlowInv, FlowTyped, PhotoInv, OfPhoto, KeptInv, NoPhotoVanishes
<1>3. LeavingCleansUp
  BY DEF FlowInv, PhotoInv, OfPhoto, WhereInv, PendingInv, LeavingCleansUp
<1> QED BY <1>1, <1>2, <1>3 DEF FlowInv, FormInv, NothingIsLostSilently

LEMMA FlowInvInit == FlowInit => FlowInv
<1> SUFFICES ASSUME FlowInit PROVE FlowInv
  OBVIOUS
<1>1. /\ form \in Forms /\ server \in Forms
      /\ SameForm(server, form) /\ (form.tier # NoTier => server.details = form.details)
  BY FlowAssumption DEF FlowInit, Forms, SameForm
<1>2. FlowTyped
  BY <1>1 DEF FlowInit, FlowTyped
<1>3. save = Rest /\ Rest \in SaveRecord
  BY DEF FlowInit, Rest, SaveRecord
<1>4. FormInv
  BY <1>1, <1>3 DEF FlowInit, FormInv, HandlerInv, BaselineInv, RevealedIsSaved, Rated, Busy, Rest
<1>5. PhotoInv
  BY <1>3 DEF FlowInit, Rest, PhotoInv, OfPhoto, WhereInv, SlipInv, AnswerInv, PendingInv, KeptInv, Busy
<1> QED BY <1>2, <1>4, <1>5 DEF FlowInv

\* A step that leaves the photos alone, and no handler starts in it.
LEMMA PhotosRest ==
  ASSUME FlowInv, UNCHANGED photos,
         \/ save' = save
         \/ save' = Rest /\ save.at # "photos"
         \/ save.at # "rest" /\ save'.ready = save.ready /\ save'.answered = save.answered,
         stage = "closed" <=> stage' = "closed",
         stage' = "comparison" => stage = "comparison" \/ save.at # "rest",
         "photo" \in unsure <=> "photo" \in unsure'
  PROVE  PhotoInv'
BY DEF FlowInv, photos, PhotoInv, OfPhoto, WhereInv, SlipInv, AnswerInv, PendingInv, KeptInv, Busy, Rest

\* A step of the photos that leaves the form alone.
LEMMA FormRests ==
  ASSUME FormInv, UNCHANGED core, unsure' \in {unsure, unsure \cup {"photo"}}
  PROVE  FormInv'
BY DEF core, FormInv, HandlerInv, BaselineInv, RevealedIsSaved, Rated, Busy

LEMMA SelectTierKeeps == ASSUME FlowInv, NEW t \in Tiers, SelectTier(t) PROVE FlowInv'
<1>1. FlowTyped'
  BY DEF SelectTier, FlowInv, FlowTyped, Forms, photos
<1>2. FormInv'
  <2>1. form'.tier # NoTier
    BY FlowAssumption DEF SelectTier, FlowInv, FlowTyped, Forms
  <2> QED BY <2>1 DEF SelectTier, Shown, FlowInv, FormInv, HandlerInv, BaselineInv, RevealedIsSaved, Rated, Busy, SameForm
<1>3. PhotoInv'
  BY PhotosRest DEF SelectTier
<1> QED BY <1>1, <1>2, <1>3 DEF FlowInv

LEMMA EditsRoundKeeps == ASSUME FlowInv, EditsRound PROVE FlowInv'
<1>1. FlowTyped'
  BY DEF EditsRound, FlowInv, FlowTyped, Forms, photos
<1>2. FormInv'
  BY DEF EditsRound, Shown, FlowInv, FormInv, HandlerInv, BaselineInv, RevealedIsSaved, Rated, Busy, SameForm
<1>3. PhotoInv'
  BY PhotosRest DEF EditsRound
<1> QED BY <1>1, <1>2, <1>3 DEF FlowInv

LEMMA TurnsKeeps == ASSUME FlowInv, Turns PROVE FlowInv'
<1>0. stage \in {"tier", "round", "comparison", "reveal"} /\ stage' \in {"tier", "round"}
  BY DEF Turns, Shown
<1>1. FlowTyped'
  BY <1>0 DEF Turns, FlowInv, FlowTyped, photos
<1>2. FormInv'
  BY <1>0 DEF Turns, FlowInv, FormInv, HandlerInv, BaselineInv, RevealedIsSaved, Rated, Busy, SameForm
<1>3. PhotoInv'
  BY <1>0, PhotosRest DEF Turns
<1> QED BY <1>1, <1>2, <1>3 DEF FlowInv

\* A handler that starts has all that is staged in its ready photos, or it slipped past.
LEMMA StartedPhotos ==
  ASSUME FlowInv, UNCHANGED photos, UNCHANGED unsure, UNCHANGED stage,
         save'.ready = {p \in Photos : staged[p] = "ready"}, save'.answered = {},
         \A p \in Photos : staged[p] \in {"picking", "uploading"} => p \in slipped
  PROVE  PhotoInv'
BY DEF FlowInv, photos, PhotoInv, OfPhoto, WhereInv, SlipInv, AnswerInv, PendingInv, KeptInv, Busy

LEMMA StartsTyped ==
  ASSUME FlowInv, NEW at \in {"candidate", "rating", "details", "photos"}, NEW persists \in BOOLEAN,
         NEW against \in Tiers \cup {NoTier}, Starts(at, persists, against)
  PROVE  /\ save' \in SaveRecord /\ save'.at = at /\ save'.form = form /\ save'.new = ~Rated
         /\ save'.persists = persists /\ save'.answered = {}
         /\ save'.ready = {p \in Photos : staged[p] = "ready"}
BY DEF Starts, SaveRecord, FlowInv, FlowTyped, Rated

LEMMA ContinueKeeps == ASSUME FlowInv, ContinueFromRound PROVE FlowInv'
<1>0. /\ Shown("round") /\ form.tier # NoTier /\ ~Busy /\ Uploading = {} /\ ~edited'
      /\ UNCHANGED <<form, baseline, detailsSavePending, server, photos, unsure>>
  BY DEF ContinueFromRound, FlowInv, FlowTyped
<1>1. FlowTyped'
  <2>1. candidate' \in Tiers \cup {NoTier} /\ stage' \in {stage, "reveal"} /\ edited' = FALSE
    BY DEF ContinueFromRound, FlowInv, FlowTyped
  <2> QED BY <1>0, <2>1 DEF FlowInv, FlowTyped, photos
<1>2. \A p \in Photos : staged[p] \notin {"picking", "uploading"}
  BY <1>0 DEF Shown, Uploading
<1>3. CASE CoreUnchanged /\ Rated /\ (DetailsChanged \/ detailsSavePending) /\ Starts("details", FALSE, NoTier) /\ UNCHANGED stage
  <2>1. FormInv'
    BY <1>0, <1>3, StartsTyped DEF FlowInv, FormInv, HandlerInv, BaselineInv, RevealedIsSaved, Rated, Busy, Shown,
         CoreUnchanged, SameForm
  <2>2. PhotoInv'
    BY <1>0, <1>2, <1>3, StartsTyped, StartedPhotos
  <2> QED BY <1>1, <2>1, <2>2 DEF FlowInv
<1>4. CASE CoreUnchanged /\ Rated /\ ~DetailsChanged /\ ~detailsSavePending /\ Starts("photos", FALSE, NoTier) /\ UNCHANGED stage
  <2>0. form = baseline
    BY <1>4 DEF CoreUnchanged, DetailsChanged, FlowInv, FlowTyped, Forms
  <2>1. FormInv'
    BY <1>0, <1>4, <2>0, StartsTyped DEF FlowInv, FormInv, HandlerInv, BaselineInv, RevealedIsSaved, Rated, Busy, Shown, SameForm
  <2>2. PhotoInv'
    BY <1>0, <1>2, <1>4, StartsTyped, StartedPhotos
  <2> QED BY <1>1, <2>1, <2>2 DEF FlowInv
<1>5. CASE CoreUnchanged /\ Rated /\ ~DetailsChanged /\ ~detailsSavePending /\ stage' = "reveal" /\ UNCHANGED save
  <2>0. form = baseline
    BY <1>5 DEF CoreUnchanged, DetailsChanged, FlowInv, FlowTyped, Forms
  <2>1. FormInv'
    <3>1. unsure \cap {"rating", "details"} = {} => server = baseline
      BY <1>0, <1>5 DEF FlowInv, FlowTyped, FormInv, BaselineInv, HandlerInv, Busy, Forms, SameForm
    <3> QED BY <1>0, <1>5, <2>0, <3>1 DEF FlowInv, FormInv, HandlerInv, BaselineInv, RevealedIsSaved, Rated, Busy
  <2>2. PhotoInv'
    BY <1>0, <1>5, PhotosRest DEF Shown
  <2> QED BY <1>1, <2>1, <2>2 DEF FlowInv
<1>6. CASE (\/ ~(CoreUnchanged /\ Rated) /\ Starts("rating", TRUE, NoTier)
            \/ form.tier # baseline.tier /\ Starts("candidate", TRUE, NoTier)) /\ UNCHANGED stage
  <2>1. FormInv'
    BY <1>0, <1>6, StartsTyped DEF FlowInv, FormInv, HandlerInv, BaselineInv, RevealedIsSaved, Rated, Busy, Shown, SameForm
  <2>2. PhotoInv'
    BY <1>0, <1>2, <1>6, StartsTyped, StartedPhotos
  <2> QED BY <1>1, <2>1, <2>2 DEF FlowInv
<1> QED BY <1>3, <1>4, <1>5, <1>6 DEF ContinueFromRound

LEMMA ChoosesKeeps == ASSUME FlowInv, Chooses PROVE FlowInv'
<1>0. /\ stage = "comparison" /\ candidate # NoTier /\ ~Busy /\ edited' = FALSE /\ Starts("rating", TRUE, candidate)
      /\ UNCHANGED <<stage, form, baseline, detailsSavePending, candidate, server, photos, unsure>>
  BY DEF Chooses, Shown
<1>1. FlowTyped'
  BY <1>0 DEF FlowInv, FlowTyped, photos
<1>2. /\ save' \in SaveRecord /\ save'.at = "rating" /\ save'.form = form /\ save'.new = ~Rated
      /\ save'.persists /\ save'.answered = {} /\ save'.ready = {p \in Photos : staged[p] = "ready"}
  BY <1>0, StartsTyped DEF FlowInv, FlowTyped
<1>3. FormInv'
  BY <1>0, <1>2 DEF FlowInv, FormInv, HandlerInv, BaselineInv, RevealedIsSaved, Rated, Busy, SameForm
<1>4. PhotoInv'
  BY <1>0, <1>2, StartedPhotos DEF FlowInv, PhotoInv, OfPhoto, SlipInv
<1> QED BY <1>1, <1>3, <1>4 DEF FlowInv

LEMMA CandidateAnswersKeeps == ASSUME FlowInv, CandidateAnswers PROVE FlowInv'
<1>0. /\ save.at = "candidate" /\ save \in SaveRecord /\ save.form \in Forms
      /\ UNCHANGED <<form, baseline, detailsSavePending, server, edited, photos, unsure>>
      /\ save' = Rest \/ save' = [save EXCEPT !.at = "rating"]
      /\ candidate' \in {candidate, save.form.tier}
      /\ stage' \in {stage, IF stage = "closed" THEN "closed" ELSE "comparison"}
  BY DEF CandidateAnswers, Shows, FlowInv, FormInv, HandlerInv, SaveRecord, Busy, Rest
<1>1. FlowTyped'
  BY <1>0 DEF FlowInv, FlowTyped, Forms, photos
<1>2. CASE save' = Rest
  <2>1. Rest \in SaveRecord /\ Rest.at = "rest"
    BY DEF Rest, SaveRecord
  <2>2. FormInv'
    BY <1>0, <1>2, <2>1 DEF FlowInv, FormInv, HandlerInv, BaselineInv, RevealedIsSaved, Rated, Busy
  <2>3. PhotoInv'
    BY <1>0, <1>2, PhotosRest
  <2> QED BY <1>1, <2>2, <2>3 DEF FlowInv
<1>3. CASE save' = [save EXCEPT !.at = "rating"]
  <2>1. /\ save' \in SaveRecord /\ save'.at = "rating" /\ save'.form = save.form
        /\ save'.persists = save.persists /\ save'.new = save.new
        /\ save'.ready = save.ready /\ save'.answered = save.answered
    BY <1>0, <1>3 DEF SaveRecord
  <2>2. FormInv'
    BY <1>0, <2>1 DEF FlowInv, FormInv, HandlerInv, BaselineInv, RevealedIsSaved, Rated, Busy
  <2>3. PhotoInv'
    BY <1>0, <2>1, PhotosRest
  <2> QED BY <1>1, <2>2, <2>3 DEF FlowInv
<1> QED BY <1>0, <1>2, <1>3

LEMMA RatingSavedKeeps == ASSUME FlowInv, RatingSaved PROVE FlowInv'
<1>0. /\ save.at = "rating" /\ save \in SaveRecord /\ save.form \in Forms
      /\ save.persists /\ save.new = ~Rated /\ save.form.tier # NoTier
      /\ server' = [save.form EXCEPT !.details = server.details]
      /\ baseline' = [save.form EXCEPT !.details = baseline.details]
      /\ unsure' = unsure \ {"rating"}
      /\ UNCHANGED <<stage, form, detailsSavePending, candidate, edited, photos>>
  BY DEF RatingSaved, Rates, FlowInv, FormInv, HandlerInv, SaveRecord, Busy, Rest
<1>1. server' \in Forms /\ baseline' \in Forms /\ SameForm(server', baseline') /\ SameForm(save.form, baseline')
      /\ SameForm(save.form, server')
      /\ server'.details = server.details /\ baseline'.details = baseline.details /\ Rated'
  BY <1>0 DEF FlowInv, FlowTyped, Forms, SameForm, Rated
<1>2. FlowTyped'
  BY <1>0, <1>1 DEF FlowInv, FlowTyped, photos
<1>3. CASE /\ save' = [save EXCEPT !.at = "details"]
  <2>1. save' \in SaveRecord /\ save'.at = "details" /\ save'.form = save.form /\ save'.persists
        /\ save'.ready = save.ready /\ save'.answered = save.answered
    BY <1>0, <1>3 DEF SaveRecord
  <2>2. FormInv'
    BY <1>0, <1>1, <2>1 DEF FlowInv, FormInv, HandlerInv, BaselineInv, RevealedIsSaved, Rated, Busy, SameForm
  <2>3. PhotoInv'
    BY <1>0, <2>1, PhotosRest
  <2> QED BY <1>2, <2>2, <2>3 DEF FlowInv
<1>4. CASE /\ save' = [save EXCEPT !.at = "photos"]
           /\ save.form.details = baseline.details /\ ~save.new /\ ~detailsSavePending
  <2>1. save' \in SaveRecord /\ save'.at = "photos" /\ save'.form = save.form
        /\ save'.ready = save.ready /\ save'.answered = save.answered
    BY <1>0, <1>4 DEF SaveRecord
  <2>2. save.form = baseline'
    BY <1>0, <1>1, <1>4 DEF Forms, SameForm
  <2>3. FormInv'
    BY <1>0, <1>1, <1>4, <2>1, <2>2 DEF FlowInv, FormInv, HandlerInv, BaselineInv, RevealedIsSaved, Rated, Busy, SameForm
  <2>4. PhotoInv'
    BY <1>0, <2>1, PhotosRest
  <2> QED BY <1>2, <2>3, <2>4 DEF FlowInv
<1> QED BY <1>3, <1>4 DEF RatingSaved

LEMMA RatingFailsKeeps == ASSUME FlowInv, RatingFails PROVE FlowInv'
<1>0. /\ save.at = "rating" /\ save' = Rest /\ save.form \in Forms
      /\ UNCHANGED <<stage, form, baseline, detailsSavePending, candidate, edited, photos>>
  BY DEF RatingFails, FlowInv, FormInv, HandlerInv, SaveRecord, Busy, Rest
<1>1. /\ server' \in Forms /\ server'.details = server.details
      /\ unsure' \in {unsure, unsure \cup {"rating"}} /\ ("rating" \notin unsure' => server' = server)
  BY <1>0 DEF RatingFails, Rates, FlowInv, FlowTyped, Forms
<1>2. FlowTyped'
  BY <1>0, <1>1 DEF FlowInv, FlowTyped, photos
<1>3. FormInv'
  BY <1>0, <1>1 DEF FlowInv, FormInv, HandlerInv, BaselineInv, RevealedIsSaved, Rated, Busy, Rest, SaveRecord, SameForm
<1>4. PhotoInv'
  BY <1>0, <1>1, PhotosRest
<1> QED BY <1>2, <1>3, <1>4 DEF FlowInv

LEMMA DetailsSavedKeeps == ASSUME FlowInv, DetailsSaved PROVE FlowInv'
<1>0. /\ save.at = "details" /\ save \in SaveRecord /\ save.form \in Forms
      /\ Rated /\ SameForm(save.form, baseline)
      /\ detailsSavePending' = FALSE /\ unsure' = unsure \ {"details"}
      /\ server' = [server EXCEPT !.details = save.form.details]
      /\ baseline' = [baseline EXCEPT !.details = save.form.details]
      /\ UNCHANGED <<stage, form, candidate, edited, photos>>
  BY DEF DetailsSaved, FlowInv, FormInv, HandlerInv, SaveRecord, Busy, Rest
<1>1. /\ server' \in Forms /\ baseline' \in Forms /\ server'.details = baseline'.details
      /\ server'.tier = server.tier /\ server'.outing = server.outing
      /\ baseline'.tier = baseline.tier /\ baseline' = save.form
  BY <1>0 DEF FlowInv, FlowTyped, Forms, SameForm
<1>2. save' \in SaveRecord /\ save'.at = "photos" /\ save'.form = save.form
      /\ save'.ready = save.ready /\ save'.answered = save.answered
  BY <1>0 DEF DetailsSaved, SaveRecord
<1>3. FlowTyped'
  BY <1>0, <1>1 DEF FlowInv, FlowTyped, photos
<1>4. FormInv'
  BY <1>0, <1>1, <1>2 DEF FlowInv, FormInv, HandlerInv, BaselineInv, RevealedIsSaved, Rated, Busy, SameForm
<1>5. PhotoInv'
  BY <1>0, <1>2, PhotosRest
<1> QED BY <1>3, <1>4, <1>5 DEF FlowInv

LEMMA DetailsFailKeeps == ASSUME FlowInv, DetailsFail PROVE FlowInv'
<1>0. /\ save.at = "details" /\ save' = Rest /\ save.form \in Forms /\ save.persists \in BOOLEAN
      /\ UNCHANGED <<form, baseline, candidate, edited, photos>>
  BY DEF DetailsFail, FlowInv, FormInv, HandlerInv, SaveRecord, Busy, Rest
<1>1. /\ stage' \in {stage, IF stage = "closed" THEN "closed" ELSE "round"}
      /\ detailsSavePending' = (detailsSavePending \/ save.persists)
  BY <1>0 DEF DetailsFail, Shows, Remembers, FlowInv, FlowTyped
<1>2. /\ server' \in Forms /\ server'.tier = server.tier /\ server'.outing = server.outing
      /\ unsure' \in {unsure, unsure \cup {"details"}}
      /\ "details" \in unsure' \/ save.persists \/ detailsSavePending \/ server' = server
  BY <1>0 DEF DetailsFail, FlowInv, FlowTyped, Forms
<1>3. FlowTyped'
  BY <1>0, <1>1, <1>2 DEF FlowInv, FlowTyped, photos
<1>4. FormInv'
  BY <1>0, <1>1, <1>2 DEF FlowInv, FormInv, HandlerInv, BaselineInv, RevealedIsSaved, Rated, Busy, Rest, SaveRecord, SameForm
<1>5. PhotoInv'
  BY <1>0, <1>1, <1>2, PhotosRest
<1> QED BY <1>3, <1>4, <1>5 DEF FlowInv

-----------------------------------------------------------------------------
(* RatingFlow: the steps of the photos.                                    *)

LEMMA PickAssetKeeps == ASSUME FlowInv, NEW p \in Photos, PickAsset(p) PROVE FlowInv'
<1>0. /\ stage = "round" /\ staged[p] = "no" /\ object[p] = "none" /\ p \notin sending /\ p \notin told
      /\ staged' = [staged EXCEPT ![p] = "picking"]
      /\ slipped' \subseteq slipped \cup {p} /\ slipped \subseteq slipped'
      /\ save.at # "rest" => p \in slipped'
      /\ UNCHANGED <<core, unsure, sending, removed, confirm, discards, object, told>>
  BY DEF PickAsset, Shown, Busy
<1>1. FlowTyped'
  BY <1>0 DEF FlowInv, FlowTyped, core
<1>2. FormInv'
  BY <1>0, FormRests DEF FlowInv
<1>3. PhotoInv'
  <2> SUFFICES ASSUME NEW q \in Photos PROVE OfPhoto(q)'
    BY DEF PhotoInv
  <2>1. OfPhoto(q)
    BY DEF FlowInv, PhotoInv
  <2>2. staged'[q] = IF q = p THEN "picking" ELSE staged[q]
    BY <1>0 DEF FlowInv, FlowTyped
  <2> QED BY <1>0, <2>1, <2>2 DEF core, OfPhoto, WhereInv, SlipInv, AnswerInv, PendingInv, KeptInv, Busy
<1> QED BY <1>1, <1>2, <1>3 DEF FlowInv

LEMMA PickedKeeps == ASSUME FlowInv, NEW p \in Photos, Picked(p) PROVE FlowInv'
<1>0. /\ staged[p] = "picking"
      /\ UNCHANGED <<core, unsure, removed, confirm, discards, object, told>>
      /\ slipped' \subseteq Photos /\ sending' \subseteq Photos
  BY DEF Picked, FlowInv, FlowTyped
<1>1. FormInv'
  BY <1>0, FormRests DEF FlowInv
<1>2. FlowTyped'
  <2>1. staged' \in [Photos -> {"no", "picking", "uploading", "ready", "error"}]
    BY DEF Picked, FlowInv, FlowTyped
  <2> QED BY <1>0, <2>1 DEF FlowInv, FlowTyped, core
<1>3. PhotoInv'
  <2> SUFFICES ASSUME NEW q \in Photos PROVE OfPhoto(q)'
    BY DEF PhotoInv
  <2>1. OfPhoto(q) /\ OfPhoto(p)
    BY DEF FlowInv, PhotoInv
  <2>2. CASE staged' = [staged EXCEPT ![p] = "no"] /\ slipped' = slipped \ {p} /\ UNCHANGED sending
    <3>1. staged'[q] = IF q = p THEN "no" ELSE staged[q]
      BY <2>2 DEF FlowInv, FlowTyped
    <3> QED BY <1>0, <2>1, <2>2, <3>1 DEF core, OfPhoto, WhereInv, SlipInv, AnswerInv, PendingInv, KeptInv, Busy
  <2>3. CASE /\ staged' = [staged EXCEPT ![p] = IF stage = "closed" THEN "no" ELSE "uploading"]
             /\ sending' = sending \cup {p}
             /\ slipped' = IF stage = "round" THEN slipped ELSE slipped \cup {p}
    <3>1. staged'[q] = IF q # p THEN staged[q] ELSE IF stage = "closed" THEN "no" ELSE "uploading"
      BY <2>3 DEF FlowInv, FlowTyped
    <3> QED BY <1>0, <2>1, <2>3, <3>1 DEF core, OfPhoto, WhereInv, SlipInv, AnswerInv, PendingInv, KeptInv, Busy
  <2> QED BY <2>2, <2>3 DEF Picked
<1> QED BY <1>1, <1>2, <1>3 DEF FlowInv

LEMMA UploadLandsKeeps == ASSUME FlowInv, NEW p \in Photos, UploadLands(p) PROVE FlowInv'
<1>0. /\ p \in sending /\ sending' = sending \ {p} /\ removed' = removed \ {p}
      /\ object' = [object EXCEPT ![p] = "pending"]
      /\ UNCHANGED <<core, unsure, confirm, told, slipped>>
  BY DEF UploadLands
<1>1. FormInv'
  BY <1>0, FormRests DEF FlowInv
<1>2. FlowTyped'
  <2>1. staged' \in [Photos -> {"no", "picking", "uploading", "ready", "error"}] /\ discards' \subseteq Photos
    BY DEF UploadLands, FlowInv, FlowTyped
  <2> QED BY <1>0, <2>1 DEF FlowInv, FlowTyped, core
<1>3. PhotoInv'
  <2> SUFFICES ASSUME NEW q \in Photos PROVE OfPhoto(q)'
    BY DEF PhotoInv
  <2>1. OfPhoto(q) /\ OfPhoto(p)
    BY DEF FlowInv, PhotoInv
  <2>2. object'[q] = IF q = p THEN "pending" ELSE object[q]
    BY <1>0 DEF FlowInv, FlowTyped
  <2>3. CASE p \in removed /\ discards' = discards \cup {p} /\ UNCHANGED staged
    BY <1>0, <2>1, <2>2, <2>3 DEF core, OfPhoto, WhereInv, SlipInv, AnswerInv, PendingInv, KeptInv, Busy
  <2>4. CASE /\ p \notin removed /\ UNCHANGED discards
             /\ staged' = [staged EXCEPT ![p] = IF @ = "no" THEN "no" ELSE "ready"]
    <3>1. staged'[q] = IF q # p THEN staged[q] ELSE IF staged[p] = "no" THEN "no" ELSE "ready"
      BY <2>4 DEF FlowInv, FlowTyped
    <3> QED BY <1>0, <2>1, <2>2, <2>4, <3>1
               DEF core, OfPhoto, WhereInv, SlipInv, AnswerInv, PendingInv, KeptInv, Busy
  <2> QED BY <2>3, <2>4 DEF UploadLands
<1> QED BY <1>1, <1>2, <1>3 DEF FlowInv

LEMMA UploadFailsKeeps == ASSUME FlowInv, NEW p \in Photos, UploadFails(p) PROVE FlowInv'
<1>0. /\ p \in sending /\ sending' = sending \ {p} /\ removed' = removed \ {p} /\ told' = told \cup {p}
      /\ staged' = [staged EXCEPT ![p] = IF @ = "no" THEN "no" ELSE "error"]
      /\ UNCHANGED <<core, confirm, discards, slipped>>
      /\ unsure' \in {unsure, unsure \cup {"photo"}}
      /\ \/ object' = object
         \/ object' = [object EXCEPT ![p] = "pending"] /\ "photo" \in unsure'
  BY DEF UploadFails
<1>1. FormInv'
  BY <1>0, FormRests DEF FlowInv
<1>2. FlowTyped'
  BY <1>0 DEF FlowInv, FlowTyped, core
<1>3. PhotoInv'
  <2> SUFFICES ASSUME NEW q \in Photos PROVE OfPhoto(q)'
    BY DEF PhotoInv
  <2>1. OfPhoto(q) /\ OfPhoto(p)
    BY DEF FlowInv, PhotoInv
  <2>2. /\ staged'[q] = IF q # p THEN staged[q] ELSE IF staged[p] = "no" THEN "no" ELSE "error"
        /\ q # p => object'[q] = object[q]
        /\ \/ object'[p] = object[p]
           \/ object'[p] = "pending" /\ "photo" \in unsure'
    BY <1>0 DEF FlowInv, FlowTyped
  <2> QED BY <1>0, <2>1, <2>2 DEF core, OfPhoto, WhereInv, SlipInv, AnswerInv, PendingInv, KeptInv, Busy
<1> QED BY <1>1, <1>2, <1>3 DEF FlowInv

LEMMA RemoveStagedPhotoKeeps == ASSUME FlowInv, NEW p \in Photos, RemoveStagedPhoto(p) PROVE FlowInv'
<1>0. /\ stage = "round" /\ save.at = "rest" /\ staged[p] \notin {"no", "picking"}
      /\ staged' = [staged EXCEPT ![p] = "no"] /\ told' = told \cup {p}
      /\ removed' = removed \cup ({p} \cap Uploading)
      /\ discards' = discards \cup {r \in {p} : staged[r] = "ready"}
      /\ UNCHANGED <<core, unsure, sending, confirm, object, slipped>>
  BY DEF RemoveStagedPhoto, Discards, Shown, Busy, Listed
<1>1. FormInv'
  BY <1>0, FormRests DEF FlowInv
<1>2. FlowTyped'
  <2>1. removed' \subseteq Photos /\ discards' \subseteq Photos /\ told' \subseteq Photos
    BY <1>0 DEF FlowInv, FlowTyped
  <2> QED BY <1>0, <2>1 DEF FlowInv, FlowTyped, core
<1>3. PhotoInv'
  <2> SUFFICES ASSUME NEW q \in Photos PROVE OfPhoto(q)'
    BY DEF PhotoInv
  <2>1. OfPhoto(q)
    BY DEF FlowInv, PhotoInv
  <2>2. /\ staged'[q] = IF q = p THEN "no" ELSE staged[q]
        /\ q \in removed' <=> q \in removed \/ (q = p /\ staged[p] = "uploading")
        /\ q \in discards' <=> q \in discards \/ (q = p /\ staged[p] = "ready")
    BY <1>0 DEF FlowInv, FlowTyped, Uploading
  <2> QED BY <1>0, <2>1, <2>2 DEF core, OfPhoto, WhereInv, SlipInv, AnswerInv, PendingInv, KeptInv, Busy
<1> QED BY <1>1, <1>2, <1>3 DEF FlowInv

LEMMA ClosesKeeps == ASSUME FlowInv, Closes PROVE FlowInv'
<1>0. /\ stage # "closed" /\ stage' = "closed"
      /\ removed' = removed \cup Uploading /\ discards' = discards \cup {p \in Photos : staged[p] = "ready"}
      /\ staged' = [p \in Photos |-> IF staged[p] = "picking" THEN "picking" ELSE "no"]
      /\ UNCHANGED <<form, baseline, detailsSavePending, candidate, save, server, edited,
                     unsure, sending, confirm, object, told, slipped>>
  BY DEF Closes, Discards, Uploading
<1>1. FormInv'
  BY <1>0 DEF FlowInv, FormInv, HandlerInv, BaselineInv, RevealedIsSaved, Rated, Busy
<1>2. FlowTyped'
  BY <1>0 DEF FlowInv, FlowTyped, Uploading
<1>3. PhotoInv'
  BY <1>0 DEF FlowInv, FlowTyped, Uploading, PhotoInv, OfPhoto, WhereInv, SlipInv, AnswerInv, PendingInv, KeptInv, Busy
<1> QED BY <1>1, <1>2, <1>3 DEF FlowInv

LEMMA DiscardedKeeps == ASSUME FlowInv, NEW p \in Photos, Discarded(p) PROVE FlowInv'
<1>0. /\ discards' = discards \ {p}
      /\ \/ /\ object' = [object EXCEPT ![p] = IF @ = "pending" THEN "gone" ELSE @]
            /\ UNCHANGED unsure
         \/ unsure' = unsure \cup {"photo"} /\ UNCHANGED object
      /\ UNCHANGED <<core, staged, sending, removed, confirm, told, slipped>>
  BY DEF Discarded
<1>1. FormInv'
  BY <1>0, FormRests DEF FlowInv
<1>2. FlowTyped'
  BY <1>0 DEF FlowInv, FlowTyped, core
<1>3. PhotoInv'
  <2> SUFFICES ASSUME NEW q \in Photos PROVE OfPhoto(q)'
    BY DEF PhotoInv
  <2>1. OfPhoto(q) /\ OfPhoto(p)
    BY DEF FlowInv, PhotoInv
  <2>2. /\ q # p => object'[q] = object[q]
        /\ \/ object'[p] = (IF object[p] = "pending" THEN "gone" ELSE object[p]) /\ unsure' = unsure
           \/ object'[p] = object[p] /\ "photo" \in unsure'
    BY <1>0 DEF FlowInv, FlowTyped
  <2>3. "photo" \in unsure => "photo" \in unsure'
    BY <1>0
  <2> QED BY <1>0, <2>1, <2>2, <2>3 DEF core, OfPhoto, WhereInv, SlipInv, AnswerInv, PendingInv, KeptInv, Busy
<1> QED BY <1>1, <1>2, <1>3 DEF FlowInv

LEMMA ConfirmedKeeps == ASSUME FlowInv, NEW p \in Photos, Confirmed(p) PROVE FlowInv'
<1>0. /\ save.at = "photos" /\ p \in save.ready /\ save \in SaveRecord
      /\ UNCHANGED <<stage, form, baseline, detailsSavePending, candidate, server, edited,
                     staged, sending, removed, discards, told, slipped>>
  BY DEF Confirmed, Asked, FlowInv, FormInv, HandlerInv
<1>1. PICK answer \in {"ok", "retry", "rejected"} :
        /\ Answers(p, answer)
        /\ \/ /\ object[p] \in {"pending", "attached"} /\ answer # "rejected"
              /\ object' = [object EXCEPT ![p] = "attached"] /\ UNCHANGED unsure
           \/ /\ object[p] # "attached" /\ answer = "rejected"
              /\ object' = [object EXCEPT ![p] = "gone"] /\ UNCHANGED unsure
           \/ answer = "retry" /\ UNCHANGED <<object, unsure>>
           \/ /\ object[p] = "pending" /\ answer = "rejected"
              /\ unsure' = unsure \cup {"photo"} /\ UNCHANGED object
  BY DEF Confirmed
<1>2. /\ save' \in SaveRecord /\ save'.at = "photos" /\ save'.form = save.form /\ save'.persists = save.persists
      /\ save'.ready = save.ready /\ save'.answered = save.answered \cup {p} /\ save'.new = save.new
  BY <1>0, <1>1 DEF Answers, SaveRecord
<1>3. FormInv'
  BY <1>0, <1>1, <1>2 DEF FlowInv, FormInv, HandlerInv, BaselineInv, RevealedIsSaved, Rated, Busy
<1>4. FlowTyped'
  BY <1>0, <1>1 DEF Answers, FlowInv, FlowTyped
<1>5. PhotoInv'
  <2> SUFFICES ASSUME NEW q \in Photos PROVE OfPhoto(q)'
    BY DEF PhotoInv
  <2>1. OfPhoto(q) /\ OfPhoto(p)
    BY DEF FlowInv, PhotoInv
  <2>2. confirm'[q] = IF q = p THEN answer ELSE confirm[q]
    BY <1>1 DEF Answers, FlowInv, FlowTyped
  <2>3. /\ q # p => object'[q] = object[q]
        /\ "photo" \in unsure => "photo" \in unsure'
        /\ object'[p] \in {object[p], "attached", "gone"} /\ (object[p] = "attached" => object'[p] = "attached")
        /\ object'[p] = "attached" => object[p] = "attached" \/ answer # "rejected"
        /\ answer = "ok" => object'[p] = "attached"
        /\ answer = "rejected" => object'[p] = "gone" \/ "photo" \in unsure'
        /\ object[p] = "gone" => object'[p] = "gone"
    BY <1>1 DEF FlowInv, FlowTyped
  <2>4. confirm[p] = "ok" => object'[p] = "attached"
    BY <2>1, <2>3 DEF OfPhoto, AnswerInv
  <2> QED BY <1>0, <1>2, <2>1, <2>2, <2>3, <2>4
             DEF OfPhoto, WhereInv, SlipInv, AnswerInv, PendingInv, KeptInv, Busy
<1> QED BY <1>3, <1>4, <1>5 DEF FlowInv

LEMMA RevealsKeeps == ASSUME FlowInv, Reveals PROVE FlowInv'
<1>0. /\ save.at = "photos" /\ save \in SaveRecord /\ save.ready \subseteq save.answered
      /\ save' = Rest /\ stage' = IF stage = "closed" THEN "closed" ELSE "reveal"
      /\ staged' = [p \in Photos |-> IF save.ready = {} \/ p \in With("retry") \/ staged[p] = "picking"
                                      THEN staged[p] ELSE "no"]
      /\ told' = told \cup With("rejected")
      /\ UNCHANGED <<form, baseline, detailsSavePending, candidate, server, edited,
                     unsure, sending, removed, confirm, discards, object, slipped>>
  BY DEF Reveals, Shows, Asked, FlowInv, FormInv, HandlerInv
<1>1. FlowTyped'
  BY <1>0 DEF FlowInv, FlowTyped, With, SaveRecord
<1>2. FormInv'
  <2>1. Rated /\ save.form = baseline /\ ~detailsSavePending /\ (~edited => form = baseline)
    BY <1>0 DEF FlowInv, FormInv, HandlerInv, Busy
  <2>2. unsure \cap {"rating", "details"} = {} => server = baseline
    BY <1>0, <2>1 DEF FlowInv, FlowTyped, FormInv, BaselineInv, Forms, SameForm
  <2>3. Rest \in SaveRecord /\ Rest.at = "rest"
    BY DEF Rest, SaveRecord
  <2> QED BY <1>0, <2>1, <2>2, <2>3 DEF FlowInv, FormInv, HandlerInv, BaselineInv, RevealedIsSaved, Rated, Busy
<1>3. PhotoInv'
  <2> SUFFICES ASSUME NEW q \in Photos PROVE OfPhoto(q)'
    BY DEF PhotoInv
  <2>1. OfPhoto(q)
    BY DEF FlowInv, PhotoInv
  <2>2. q \in told' <=> q \in told \/ (q \in save.ready /\ confirm[q] = "rejected")
    BY <1>0 DEF With
  <2>3. staged'[q] = IF \/ save.ready = {}
                        \/ q \in save.ready /\ confirm[q] = "retry"
                        \/ staged[q] = "picking"
                     THEN staged[q] ELSE "no"
    <3>1. staged'[q] = IF save.ready = {} \/ q \in With("retry") \/ staged[q] = "picking"
                       THEN staged[q] ELSE "no"
      BY <1>0, Zenon
    <3>2. q \in With("retry") <=> q \in save.ready /\ confirm[q] = "retry"
      BY DEF With
    <3> QED BY <3>1, <3>2
  <2>4. q \in save.ready => confirm[q] \in {"ok", "rejected", "retry"}
    BY <1>0, <2>1 DEF OfPhoto, AnswerInv, FlowInv, FlowTyped
  <2>5. /\ save'.at = "rest" /\ save'.ready = {} /\ save'.answered = {}
        /\ staged[q] \in {"no", "picking", "uploading", "ready", "error"}
    BY <1>0 DEF Rest, FlowInv, FlowTyped
  <2>6. WhereInv(q)' /\ SlipInv(q)' /\ AnswerInv(q)'
    BY <1>0, <2>1, <2>2, <2>3, <2>5 DEF OfPhoto, WhereInv, SlipInv, AnswerInv, Busy
  <2>7. PendingInv(q)' /\ KeptInv(q)'
    BY <1>0, <2>1, <2>2, <2>3, <2>4, <2>5
       DEF OfPhoto, WhereInv, SlipInv, AnswerInv, PendingInv, KeptInv, Busy
  <2> QED BY <2>6, <2>7 DEF OfPhoto
<1> QED BY <1>1, <1>2, <1>3 DEF FlowInv

-----------------------------------------------------------------------------
(* RatingFlow: the theorems.                                               *)

\* Every step keeps the invariant.
LEMMA FlowInvStep == FlowInv /\ [FlowNext]_flowVars => FlowInv'
<1> SUFFICES ASSUME FlowInv, [FlowNext]_flowVars PROVE FlowInv'
  OBVIOUS
<1>1. ASSUME NEW t \in Tiers, SelectTier(t) PROVE FlowInv'
  BY <1>1, SelectTierKeeps
<1>2. CASE EditsRound
  BY <1>2, EditsRoundKeeps
<1>3. CASE Turns
  BY <1>3, TurnsKeeps
<1>4. CASE ContinueFromRound
  BY <1>4, ContinueKeeps
<1>5. CASE Chooses
  BY <1>5, ChoosesKeeps
<1>6. CASE Closes
  BY <1>6, ClosesKeeps
<1>7. CASE CandidateAnswers
  BY <1>7, CandidateAnswersKeeps
<1>8. CASE RatingSaved
  BY <1>8, RatingSavedKeeps
<1>9. CASE RatingFails
  BY <1>9, RatingFailsKeeps
<1>10. CASE DetailsSaved
  BY <1>10, DetailsSavedKeeps
<1>11. CASE DetailsFail
  BY <1>11, DetailsFailKeeps
<1>12. CASE Reveals
  BY <1>12, RevealsKeeps
<1>13. ASSUME NEW p \in Photos, PickAsset(p) PROVE FlowInv'
  BY <1>13, PickAssetKeeps
<1>14. ASSUME NEW p \in Photos, Picked(p) PROVE FlowInv'
  BY <1>14, PickedKeeps
<1>15. ASSUME NEW p \in Photos, RemoveStagedPhoto(p) PROVE FlowInv'
  BY <1>15, RemoveStagedPhotoKeeps
<1>16. ASSUME NEW p \in Photos, UploadLands(p) PROVE FlowInv'
  BY <1>16, UploadLandsKeeps
<1>17. ASSUME NEW p \in Photos, UploadFails(p) PROVE FlowInv'
  BY <1>17, UploadFailsKeeps
<1>18. ASSUME NEW p \in Photos, Discarded(p) PROVE FlowInv'
  BY <1>18, DiscardedKeeps
<1>19. ASSUME NEW p \in Photos, Confirmed(p) PROVE FlowInv'
  BY <1>19, ConfirmedKeeps
<1>20. CASE UNCHANGED flowVars
  <2>1. FlowTyped'
    BY <1>20 DEF flowVars, core, photos, FlowInv, FlowTyped
  <2>2. FormInv'
    BY <1>20, FormRests DEF flowVars, FlowInv
  <2>3. PhotoInv'
    BY <1>20 DEF flowVars, core, photos, FlowInv, PhotoInv, OfPhoto, WhereInv, SlipInv, AnswerInv, PendingInv,
                 KeptInv, Busy
  <2> QED BY <2>1, <2>2, <2>3 DEF FlowInv
<1> QED BY <1>1, <1>2, <1>3, <1>4, <1>5, <1>6, <1>7, <1>8, <1>9, <1>10, <1>11, <1>12, <1>13, <1>14,
           <1>15, <1>16, <1>17, <1>18, <1>19, <1>20 DEF FlowNext

LEMMA FlowInvAlways == FlowSpec => []FlowInv
BY FlowInvInit, FlowInvStep, PTL DEF FlowSpec

\* Every variable of the form stays in its type (RatingFlow.tsx), and a photo that was
\* removed while it uploads is not listed any more.
THEOREM FlowTypeCorrect == FlowSpec => []FlowTypeOK
BY FlowInvAlways, FlowInvGives, PTL

\* Whatever fails, and whatever the golfer touches meanwhile: what the reveal shows is on the
\* server, no photo vanishes without a word, and a form that is left leaves no object behind.
THEOREM NothingLostSilently == FlowSpec => []NothingIsLostSilently
BY FlowInvAlways, FlowInvGives, PTL
=============================================================================
