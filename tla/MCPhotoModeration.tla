-------------------------- MODULE MCPhotoModeration --------------------------
(***************************************************************************)
(* PhotoModeration on small sets.                                          *)
(***************************************************************************)
EXTENDS PhotoModeration, TLC

\* Photos arrive while no feature request is under way; photo_arrival is about those that
\* arrive during one.
ArrivesQuietly(p) == AddUserImage(p) /\ \A a \in Admin : edit[a] = NoEdit
QuietNext == (\E p \in Photo : ArrivesQuietly(p)) \/ Moderation
QuietSpec == Init /\ [][QuietNext]_vars

\* Administrators, scorers and photos are interchangeable; no run that checks liveness uses
\* this.
Symmetry == Permutations(Admin) \cup Permutations(Scorer) \cup Permutations(Photo)
=============================================================================
