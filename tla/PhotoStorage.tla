---------------------------- MODULE PhotoStorage ----------------------------
(***************************************************************************)
(* The rows of uploaded course photos and the objects that they point at   *)
(* (app/course_photo_uploads.py, app/storage.py, the deletions of rounds   *)
(* and photos, domain.delete_permanent_objects and                         *)
(* scripts/retry_failed_object_deletions.py), for the photos of one course *)
(* and one user.                                                           *)
(*                                                                         *)
(* The database and the object store share no transaction, so a request is *)
(* a sequence of actions: one for each call to the store and one for each  *)
(* piece of a transaction that another request can come before.            *)
(***************************************************************************)
EXTENDS Integers, FiniteSets

CONSTANTS
    Photo,         \* uploads; a photo names its pending and its permanent key
    Round,
    Attached,      \* the round that the client confirms a photo for
    NoRound,
    Request,       \* slots of concurrent requests
    NoRequest,
    MaxPhotos,     \* MAX_PHOTOS_PER_ROUND
    MaxTries,      \* attempts of add_user_image
    MaxConfirms,   \* bound: confirm calls that a client makes for one photo
    Faults         \* what may fail, apart from races

ASSUME StorageAssumption ==
    /\ IsFiniteSet(Photo)
    /\ NoRound \notin Round /\ NoRequest \notin Request
    /\ Attached \in [Photo -> Round \cup {NoRound}]
    /\ MaxPhotos \in Nat \ {0} /\ MaxTries \in Nat \ {0} /\ MaxConfirms \in Nat
    /\ Faults \subseteq {"delete", "copy", "commit", "crash"}

NoRow == -1

VARIABLES
    pending,   \* the objects under course-photos/pending/
    stored,    \* the permanent objects
    row,       \* course_images: the position of the photo's row
    rounds,    \* the kind of each round, or that it is deleted
    lock,      \* who holds the row of a round FOR UPDATE
    owner,     \* who holds the row of the user FOR UPDATE
    job,       \* the requests that are being handled
    failed,    \* failed_object_deletions: records for each key
    swept,     \* records whose object this run of the script has deleted
    confirms,  \* confirm calls made so far
    mishaps    \* photos hit by a failure that the code has no answer to

vars == <<pending, stored, row, rounds, lock, owner, job, failed, swept, confirms, mishaps>>
objects == <<pending, stored>>
database == <<row, rounds, failed>>
history == <<swept, confirms, mishaps>>

Step == {"idle", "head", "lock", "promote", "position", "insert", "cleanup", "broken",
         "waiting", "locked", "objects"}

\* keys and missed belong to deletions: the objects still to delete, and those
\* that the store has refused to delete.
Job == [step : Step, photo : SUBSET Photo, round : Round \cup {NoRound}, position : Nat,
        tries : 0 .. MaxTries, keys : SUBSET Photo, missed : SUBSET Photo]

Idle == [step |-> "idle", photo |-> {}, round |-> NoRound, position |-> 0,
         tries |-> 0, keys |-> {}, missed |-> {}]

Present(p) == row[p] # NoRow
PhotosOf(d) == {p \in Photo : Present(p) /\ Attached[p] = d}

Kept == {d \in Round : rounds[d] # "deleted"}

\* next_position: one past the largest.
NextPosition ==
    IF \A p \in Photo : ~Present(p) THEN 0
    ELSE 1 + (CHOOSE n \in {row[p] : p \in Photo} : \A p \in Photo : row[p] <= n)

Goes(r, step) == job' = [job EXCEPT ![r].step = step]
Ends(r) == job' = [job EXCEPT ![r] = Idle]

\* The end of a transaction.
Unlocked(r) == [d \in Round |-> IF lock[d] = r THEN NoRequest ELSE lock[d]]

\* The foreign key checks of a new row wait for locks FOR UPDATE on the user
\* and on the round.
MayReference(r, d) ==
    /\ owner \in {r, NoRequest}
    /\ d \in Round => lock[d] \in {r, NoRequest}

-----------------------------------------------------------------------------
Init ==
    /\ pending \in [Photo -> {"valid", "invalid"}]
    /\ stored = {}
    /\ row = [p \in Photo |-> NoRow]
    /\ rounds \in [Round -> {"ordinary", "rating"}]
    /\ lock = [d \in Round |-> NoRequest]
    /\ owner = NoRequest
    /\ job = [r \in Request |-> Idle]
    /\ failed = [p \in Photo |-> 0]
    /\ swept = [p \in Photo |-> 0]
    /\ confirms = [p \in Photo |-> 0]
    /\ mishaps = {}

-----------------------------------------------------------------------------
(***************************************************************************)
(* confirm_upload.                                                         *)
(***************************************************************************)

\* The replay of a confirmed photo is answered without a trace; any other
\* request goes on to the store.
ConfirmUpload(r, p) ==
    /\ job[r] = Idle
    /\ confirms[p] < MaxConfirms
    /\ confirms' = [confirms EXCEPT ![p] = @ + 1]
    /\ job' = IF Present(p) THEN job
              ELSE [job EXCEPT ![r] = [Idle EXCEPT !.step = "head", !.photo = {p}]]
    /\ UNCHANGED <<objects, database, lock, owner, swept, mishaps>>

\* head_object and the checks of type and size, then the round as it is read.
HeadObject(r) ==
    /\ job[r].step = "head"
    /\ \E p \in job[r].photo :
        IF pending[p] = "valid" /\ Attached[p] \in Kept \cup {NoRound}
        THEN /\ Goes(r, IF Attached[p] = NoRound THEN "promote" ELSE "lock")
             /\ UNCHANGED pending
        ELSE /\ Ends(r)
             /\ pending' = [pending EXCEPT ![p] = "none"]
    /\ UNCHANGED <<stored, database, lock, owner, history>>

Full(d) == Cardinality(PhotosOf(d)) >= MaxPhotos

\* Deviation: the photos are counted without locking the round.
CountUnlocked(r) ==
    /\ job[r].step = "lock"
    /\ \E p \in job[r].photo :
        IF Full(Attached[p])
        THEN Ends(r) /\ pending' = [pending EXCEPT ![p] = "none"]
        ELSE Goes(r, "promote") /\ UNCHANGED pending
    /\ UNCHANGED <<stored, database, lock, owner, history>>

\* SELECT ... FOR UPDATE on the round, which locks nothing when the round has
\* been deleted meanwhile, and the count of its photos.
LockRound(r) ==
    /\ job[r].step = "lock"
    /\ \E p \in job[r].photo :
        LET d == Attached[p]
        IN  /\ lock[d] = NoRequest
            /\ IF Full(d)
               THEN Ends(r) /\ pending' = [pending EXCEPT ![p] = "none"] /\ UNCHANGED lock
               ELSE /\ Goes(r, "promote")
                    /\ lock' = IF d \in Kept THEN [lock EXCEPT ![d] = r] ELSE lock
                    /\ UNCHANGED pending
    /\ UNCHANGED <<stored, database, owner, history>>

\* Deviation: a copy that fails does not stop the request.
PromoteBestEffort(r) ==
    /\ job[r].step = "promote"
    /\ Goes(r, "position")
    /\ \E p \in job[r].photo :
        stored' = IF pending[p] = "none" THEN stored ELSE stored \cup {p}
    /\ UNCHANGED <<pending, database, lock, owner, history>>

\* promote_object copies the pending object; a failure ends the request.  The
\* answer of a copy that was made may get lost.
PromoteObject(r) ==
    /\ job[r].step = "promote"
    /\ \E p \in job[r].photo :
        \/ /\ pending[p] # "none"
           /\ stored' = stored \cup {p}
           /\ Goes(r, "position")
           /\ UNCHANGED <<lock, mishaps>>
        \/ /\ pending[p] = "none"
           /\ Ends(r)
           /\ lock' = Unlocked(r)
           /\ UNCHANGED <<stored, mishaps>>
        \/ /\ pending[p] # "none" /\ "copy" \in Faults
           /\ stored' = stored \cup {p}
           /\ Ends(r)
           /\ lock' = Unlocked(r)
           /\ mishaps' = mishaps \cup {p}
    /\ UNCHANGED <<pending, database, owner, swept, confirms>>

\* add_user_image: a row that another request has inserted is returned, else
\* the next position of the course is read.
ReadPosition(r) ==
    /\ job[r].step = "position"
    /\ \E p \in job[r].photo :
        IF Present(p)
        THEN Ends(r) /\ lock' = Unlocked(r)
        ELSE /\ job' = [job EXCEPT ![r].step = "insert", ![r].position = NextPosition]
             /\ UNCHANGED lock
    /\ UNCHANGED <<objects, database, owner, history>>

\* The key or the position is taken, or the round is gone.
Conflicts(p, position) ==
    \/ \E q \in Photo : row[q] = position
    \/ Present(p)
    \/ Attached[p] \notin Kept \cup {NoRound}

\* Deviation: the attempts have no end.
TryAgainAlways(r) == job' = [job EXCEPT ![r].step = "position", ![r].tries = @ + 1]

\* An IntegrityError: the last one is raised.
TryAgain(r) ==
    job' = [job EXCEPT ![r].step = IF job[r].tries + 1 = MaxTries THEN "cleanup" ELSE "position",
                       ![r].tries = @ + 1]

\* The commit of the new row.  A rollback also releases the round.
InsertRow(r) ==
    /\ job[r].step = "insert"
    /\ lock' = Unlocked(r)
    /\ \E p \in job[r].photo :
        /\ MayReference(r, Attached[p])
        /\ IF ~Conflicts(p, job[r].position)
           THEN row' = [row EXCEPT ![p] = job[r].position] /\ Ends(r)
           ELSE row' = row /\ IF Present(p) THEN Ends(r) ELSE TryAgain(r)
    /\ UNCHANGED <<objects, rounds, failed, owner, history>>

\* The connection fails during the commit, which may have happened.
InsertFails(r) ==
    /\ "commit" \in Faults
    /\ job[r].step = "insert"
    /\ Goes(r, "broken")
    /\ lock' = Unlocked(r)
    /\ \E p \in job[r].photo :
        \/ UNCHANGED <<row, mishaps>>
        \/ /\ MayReference(r, Attached[p]) /\ ~Conflicts(p, job[r].position)
           /\ row' = [row EXCEPT ![p] = job[r].position]
           /\ mishaps' = mishaps \cup {p}
    /\ UNCHANGED <<objects, rounds, failed, owner, swept, confirms>>

\* delete_permanent_objects after an exception.  When it was not an
\* IntegrityError, the session has not been rolled back and cannot record a
\* deletion that fails.
Cleanup(r) ==
    /\ job[r].step \in {"cleanup", "broken"}
    /\ \E p \in job[r].photo :
        \/ stored' = stored \ {p} /\ UNCHANGED <<failed, mishaps>>
        \/ /\ "delete" \in Faults
           /\ UNCHANGED stored
           /\ IF job[r].step = "cleanup"
              THEN failed' = [failed EXCEPT ![p] = @ + 1] /\ UNCHANGED mishaps
              ELSE mishaps' = mishaps \cup {p} /\ UNCHANGED failed
    /\ Ends(r)
    /\ UNCHANGED <<pending, row, rounds, lock, owner, swept, confirms>>

-----------------------------------------------------------------------------
(***************************************************************************)
(* Deletions.                                                              *)
(***************************************************************************)

\* delete_round finds its round; for a round that owns a rating it locks the
\* user.
DeleteRound(r, d) ==
    /\ job[r] = Idle
    /\ d \in Kept
    /\ IF rounds[d] = "rating" THEN owner = NoRequest /\ owner' = r ELSE UNCHANGED owner
    /\ job' = [job EXCEPT ![r] = [Idle EXCEPT !.step = "waiting", !.round = d]]
    /\ UNCHANGED <<objects, database, lock, history>>

\* The end of a transaction that may hold the user's row.
Released(r) == IF owner = r THEN NoRequest ELSE owner

\* Deviation: the photos are collected without locking the round.
CollectUnlocked(r) ==
    LET d == job[r].round
    IN  /\ job[r].step = "waiting"
        /\ IF d \in Kept
           THEN /\ job' = [job EXCEPT ![r].step = "locked", ![r].keys = PhotosOf(d)]
                /\ UNCHANGED owner
           ELSE Ends(r) /\ owner' = Released(r)
        /\ UNCHANGED <<objects, database, lock, history>>

\* It locks the round and collects the keys of its photos; a round deleted
\* meanwhile has none.
CollectPhotos(r) ==
    LET d == job[r].round
    IN  /\ job[r].step = "waiting"
        /\ lock[d] = NoRequest
        /\ IF d \in Kept
           THEN /\ lock' = [lock EXCEPT ![d] = r]
                /\ job' = [job EXCEPT ![r].step = "locked", ![r].keys = PhotosOf(d)]
                /\ UNCHANGED owner
           ELSE Ends(r) /\ owner' = Released(r) /\ UNCHANGED lock
        /\ UNCHANGED <<objects, database, history>>

\* Its commit; the rows of the photos go with the round.
DeleteRoundCommits(r) ==
    /\ job[r].step = "locked"
    /\ rounds' = [rounds EXCEPT ![job[r].round] = "deleted"]
    /\ row' = [p \in Photo |-> IF Attached[p] = job[r].round THEN NoRow ELSE row[p]]
    /\ lock' = Unlocked(r)
    /\ owner' = Released(r)
    /\ Goes(r, "objects")
    /\ UNCHANGED <<objects, failed, history>>

\* A confirm holds the round and waits for the user, a deletion holds the user
\* and waits for the round.
Deadlocked(confirm, deletion) ==
    /\ job[confirm].step = "insert" /\ job[deletion].step = "waiting"
    /\ lock[job[deletion].round] = confirm
    /\ owner = deletion

\* The database aborts one of them.
BreakDeadlock(confirm, deletion) ==
    /\ Deadlocked(confirm, deletion)
    /\ \/ Goes(confirm, "broken") /\ lock' = Unlocked(confirm) /\ UNCHANGED owner
       \/ Ends(deletion) /\ owner' = Released(deletion) /\ UNCHANGED lock
    /\ UNCHANGED <<objects, database, history>>

\* delete_course_photo commits the deletion of the row first.
DeleteCoursePhoto(r, p) ==
    /\ job[r] = Idle
    /\ Present(p)
    /\ row' = [row EXCEPT ![p] = NoRow]
    /\ job' = [job EXCEPT ![r] = [Idle EXCEPT !.step = "objects", !.keys = {p}]]
    /\ UNCHANGED <<objects, rounds, lock, owner, failed, history>>

\* delete_permanent_objects: one object of a deletion.
DeleteObject(r) ==
    /\ job[r].step = "objects"
    /\ \E p \in job[r].keys :
        \/ stored' = stored \ {p} /\ job' = [job EXCEPT ![r].keys = @ \ {p}]
        \/ /\ "delete" \in Faults
           /\ job' = [job EXCEPT ![r].keys = @ \ {p}, ![r].missed = @ \cup {p}]
           /\ UNCHANGED stored
    /\ UNCHANGED <<pending, database, lock, owner, history>>

\* The deletions that failed are committed for a retry.
RecordMissed(r) ==
    /\ job[r].step = "objects"
    /\ job[r].keys = {}
    /\ failed' = [p \in Photo |-> IF p \in job[r].missed THEN failed[p] + 1 ELSE failed[p]]
    /\ Ends(r)
    /\ UNCHANGED <<objects, row, rounds, lock, owner, history>>

\* retry_rows: an object is deleted, whether a row points at it or not.
RetryDeletion(p) ==
    /\ swept[p] < failed[p]
    /\ stored' = stored \ {p}
    /\ swept' = [swept EXCEPT ![p] = @ + 1]
    /\ UNCHANGED <<pending, database, lock, owner, job, confirms, mishaps>>

\* The records of a run are removed together at its end.
RetryCommits ==
    /\ \E p \in Photo : swept[p] > 0
    /\ failed' = [p \in Photo |-> failed[p] - swept[p]]
    /\ swept' = [p \in Photo |-> 0]
    /\ UNCHANGED <<objects, row, rounds, lock, owner, job, confirms, mishaps>>

\* discard_upload, for a photo that is not confirmed.
DiscardUpload(p) ==
    /\ pending[p] # "none"
    /\ ~Present(p)
    /\ pending' = [pending EXCEPT ![p] = "none"]
    /\ UNCHANGED <<stored, database, lock, owner, job, history>>

\* The lifecycle rule of course-photos/pending/.
PendingExpires(p) ==
    /\ pending[p] # "none"
    /\ pending' = [pending EXCEPT ![p] = "none"]
    /\ UNCHANGED <<stored, database, lock, owner, job, history>>

\* A request that will insert a row for p, or delete its object.
Responsible(r, p) ==
    \/ job[r].step \in {"position", "insert", "cleanup", "broken"} /\ p \in job[r].photo
    \/ job[r].step = "objects" /\ p \in job[r].keys \cup job[r].missed

\* The process dies; the database ends its transaction.
Crash(r) ==
    /\ "crash" \in Faults
    /\ job[r] # Idle
    /\ Ends(r)
    /\ lock' = Unlocked(r)
    /\ owner' = Released(r)
    /\ mishaps' = mishaps \cup {p \in Photo : Responsible(r, p)}
    /\ UNCHANGED <<objects, database, swept, confirms>>

-----------------------------------------------------------------------------
Next ==
    \/ \E r \in Request :
        \/ \E p \in Photo : ConfirmUpload(r, p) \/ DeleteCoursePhoto(r, p)
        \/ \E d \in Round : DeleteRound(r, d)
        \/ \E q \in Request : BreakDeadlock(r, q)
        \/ HeadObject(r) \/ LockRound(r) \/ PromoteObject(r) \/ ReadPosition(r)
        \/ InsertRow(r) \/ InsertFails(r) \/ Cleanup(r)
        \/ CollectPhotos(r) \/ DeleteRoundCommits(r) \/ DeleteObject(r) \/ RecordMissed(r)
        \/ Crash(r)
    \/ \E p \in Photo : RetryDeletion(p) \/ DiscardUpload(p) \/ PendingExpires(p)
    \/ RetryCommits

Spec == Init /\ [][Next]_vars

-----------------------------------------------------------------------------
(***************************************************************************)
(* Properties.                                                             *)
(***************************************************************************)

\* Requests stay in their bounds: add_user_image gives up after MaxTries, and
\* the script never removes more records than there are.
TypeOK ==
    /\ pending \in [Photo -> {"none", "valid", "invalid"}]
    /\ stored \subseteq Photo
    /\ row \in [Photo -> Nat \cup {NoRow}]
    /\ rounds \in [Round -> {"ordinary", "rating", "deleted"}]
    /\ lock \in [Round -> Request \cup {NoRequest}]
    /\ owner \in Request \cup {NoRequest}
    /\ job \in [Request -> Job]
    /\ failed \in [Photo -> Nat]
    /\ swept \in [Photo -> Nat] /\ \A p \in Photo : swept[p] <= failed[p]
    /\ confirms \in [Photo -> 0 .. MaxConfirms]
    /\ mishaps \subseteq Photo

\* The photos of a round never exceed the cap, however its confirms interleave.
RoundCap == \A d \in Round : Cardinality(PhotosOf(d)) <= MaxPhotos

\* A row does not point at a key with nothing there, as long as the client has
\* confirmed its photo with a single call.
RowHasObject ==
    \A p \in Photo \ mishaps : Present(p) /\ confirms[p] = 1 => p \in stored

\* No permanent object is lost: it has a row, a request that answers for it, or
\* a record for the retry script.
NoOrphan ==
    \A p \in stored \ mishaps :
        Present(p) \/ failed[p] > 0 \/ \E r \in Request : Responsible(r, p)
=============================================================================
