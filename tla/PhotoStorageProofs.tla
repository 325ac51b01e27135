------------------------- MODULE PhotoStorageProofs -------------------------
(***************************************************************************)
(* Proofs about PhotoStorage, for every set of photos, rounds and requests *)
(* and every bound.  The invariants:                                       *)
(*   Typed      what the rows and each request may hold;                   *)
(*   LockedOK   a deletion with its keys holds its round;                  *)
(*   CoveredOK  every object is answered for, record by record;            *)
(*   CapOK      who has counted the photos of a round still has room.      *)
(*   OnceOK     a row has its object, if its photo was confirmed once.      *)
(***************************************************************************)
EXTENDS MCPhotoClient, RatingFlowProofs, FiniteOrders

Confirming == {"head", "lock", "promote", "position", "insert", "cleanup", "broken"}
Trying == Confirming \ {"cleanup", "broken"}

\* A confirm is for one photo, a deletion for one round, and only deletions
\* have keys.
JobOK(j) ==
    /\ j \in Job
    /\ j.step \in Confirming => \E p \in Photo : j.photo = {p}
    /\ j.step \notin Confirming => j.photo = {}
    /\ j.step \in Trying => j.tries < MaxTries
    /\ j.step \in {"waiting", "locked"} => j.round \in Round
    /\ j.step \notin {"locked", "objects"} => j.keys = {}
    /\ j.step # "objects" => j.missed = {}

JobsOK == job \in [Request -> Job] /\ \A r \in Request : JobOK(job[r])

RowsOK ==
    /\ pending \in [Photo -> {"none", "valid", "invalid"}]
    /\ stored \subseteq Photo
    /\ row \in [Photo -> Nat \cup {NoRow}]
    /\ rounds \in [Round -> {"ordinary", "rating", "deleted"}]
    /\ lock \in [Round -> Request \cup {NoRequest}]
    /\ owner \in Request \cup {NoRequest}
    /\ failed \in [Photo -> Nat]
    /\ swept \in [Photo -> Nat] /\ \A p \in Photo : swept[p] <= failed[p]
    /\ confirms \in [Photo -> 0 .. MaxConfirms]
    /\ mishaps \subseteq Photo

Typed == RowsOK /\ JobsOK

-----------------------------------------------------------------------------
(***************************************************************************)
(* Types.                                                                  *)
(***************************************************************************)

\* The next position is above every position of the course.
LEMMA NextPositionLemma ==
    ASSUME row \in [Photo -> Nat \cup {NoRow}]
    PROVE  NextPosition \in Nat /\ \A p \in Photo : row[p] < NextPosition
<1>. DEFINE S == {row[p] : p \in Photo}
<1>1. CASE \A p \in Photo : ~Present(p)
    <2>1. NextPosition = 0
        BY <1>1 DEF NextPosition
    <2>. QED  BY <1>1, <2>1 DEF Present, NoRow
<1>2. CASE \E p \in Photo : Present(p)
    <2>1. IsFiniteSet(S)
        <3>. DEFINE f == [p \in Photo |-> row[p]]
        <3>1. f \in Surjection(Photo, S)
            BY DEF Surjection
        <3>. QED  BY <3>1, FS_Surjection, StorageAssumption
    <2>2. S \in SUBSET Int /\ S # {}
        BY <1>2 DEF NoRow
    <2>3. \E n \in S : \A p \in Photo : row[p] <= n
        BY <2>1, <2>2, LargestInteger
    <2>4. PICK n \in S : NextPosition = 1 + n /\ \A p \in Photo : row[p] <= n
        <3>1. NextPosition = 1 + (CHOOSE n \in S : \A p \in Photo : row[p] <= n)
            BY <1>2 DEF NextPosition
        <3>2. (CHOOSE n \in S : \A p \in Photo : row[p] <= n) \in S
              /\ \A p \in Photo : row[p] <= CHOOSE n \in S : \A q \in Photo : row[q] <= n
            BY <2>3
        <3>. QED  BY <3>1, <3>2
    <2>5. PICK p \in Photo : row[p] \in Nat
        BY <1>2 DEF Present
    <2>. QED  BY <2>2, <2>4, <2>5 DEF NoRow
<1>. QED  BY <1>1, <1>2

LEMMA OneJob ==
    ASSUME JobsOK, NEW r \in Request, NEW j, JobOK(j), job' = [job EXCEPT ![r] = j]
    PROVE  JobsOK'
BY DEF JobsOK, JobOK

LEMMA IdleOK ==
    /\ JobOK(Idle)
    /\ Idle.step = "idle" /\ Idle.photo = {} /\ Idle.round = NoRound
    /\ Idle.tries = 0 /\ Idle.keys = {} /\ Idle.missed = {}
BY StorageAssumption DEF JobOK, Idle, Job, Step, Confirming, Trying

\* The jobs that begin a request.
LEMMA BeginOK ==
    /\ \A p \in Photo : JobOK([Idle EXCEPT !.step = "head", !.photo = {p}])
    /\ \A p \in Photo : JobOK([Idle EXCEPT !.step = "objects", !.keys = {p}])
    /\ \A d \in Round : JobOK([Idle EXCEPT !.step = "waiting", !.round = d])
<1>1. Idle \in Job
    BY IdleOK DEF JobOK
<1>2. ASSUME NEW p \in Photo
      PROVE  JobOK([Idle EXCEPT !.step = "head", !.photo = {p}])
    <2>. DEFINE j == [Idle EXCEPT !.step = "head", !.photo = {p}]
    <2>1. j \in Job /\ j.step = "head" /\ j.photo = {p} /\ j.tries = 0 /\ j.keys = {} /\ j.missed = {}
        BY <1>1, IdleOK DEF Job, Step
    <2>. HIDE DEF j
    <2>2. 0 < MaxTries
        BY StorageAssumption
    <2>3. JobOK(j)
        BY <2>1, <2>2 DEF JobOK, Confirming, Trying
    <2>. QED  BY <2>3 DEF j
<1>3. ASSUME NEW p \in Photo
      PROVE  JobOK([Idle EXCEPT !.step = "objects", !.keys = {p}])
    BY <1>1, IdleOK DEF JobOK, Job, Step, Confirming, Trying
<1>4. ASSUME NEW d \in Round
      PROVE  JobOK([Idle EXCEPT !.step = "waiting", !.round = d])
    BY <1>1, IdleOK DEF JobOK, Job, Step, Confirming, Trying
<1>. QED  BY <1>2, <1>3, <1>4

\* A step of a job that changes where it is and nothing else.
LEMMA GoesOK ==
    ASSUME NEW j, JobOK(j), NEW s \in Step,
           \/ j.step \in Confirming /\ s \in Confirming /\ (s \in Trying => j.step \in Trying)
           \/ j.step = "locked" /\ s = "objects"
    PROVE  JobOK([j EXCEPT !.step = s])
BY DEF JobOK, Job, Step, Confirming, Trying

LEMMA JobsStep == ASSUME Typed, [Next]_vars PROVE JobsOK'
<1>. USE DEF Typed
<1>1. ASSUME NEW r \in Request, NEW s \in Step, Goes(r, s),
             \/ job[r].step \in Confirming /\ s \in Confirming /\ (s \in Trying => job[r].step \in Trying)
             \/ job[r].step = "locked" /\ s = "objects"
      PROVE  JobsOK'
    <2>1. JobOK(job[r])
        BY DEF JobsOK
    <2>2. JobOK([job[r] EXCEPT !.step = s])
        BY <1>1, <2>1, GoesOK
    <2>3. job' = [job EXCEPT ![r] = [job[r] EXCEPT !.step = s]]
        BY <1>1 DEF Goes
    <2>. QED  BY <2>2, <2>3, OneJob
<1>2. ASSUME NEW r \in Request, Ends(r) PROVE JobsOK'
    BY <1>2, IdleOK, OneJob DEF Ends
<1>3. ASSUME UNCHANGED job PROVE JobsOK'
    BY <1>3 DEF JobsOK, JobOK
<1>4. ASSUME NEW r \in Request, NEW p \in Photo, ConfirmUpload(r, p) PROVE JobsOK'
    BY <1>3, <1>4, BeginOK, OneJob DEF ConfirmUpload
<1>5. ASSUME NEW r \in Request, NEW p \in Photo, DeleteCoursePhoto(r, p) PROVE JobsOK'
    BY <1>5, BeginOK, OneJob DEF DeleteCoursePhoto
<1>6. ASSUME NEW r \in Request, NEW d \in Round, DeleteRound(r, d) PROVE JobsOK'
    BY <1>6, BeginOK, OneJob DEF DeleteRound
<1>7. ASSUME NEW r \in Request, NEW q \in Request, BreakDeadlock(r, q) PROVE JobsOK'
    BY <1>1, <1>2, <1>7 DEF BreakDeadlock, Deadlocked, Confirming, Trying, Step
<1>8. ASSUME NEW r \in Request, HeadObject(r) PROVE JobsOK'
    BY <1>1, <1>2, <1>8 DEF HeadObject, Confirming, Trying, Step
<1>9. ASSUME NEW r \in Request, LockRound(r) PROVE JobsOK'
    BY <1>1, <1>2, <1>9 DEF LockRound, Confirming, Trying, Step
<1>10. ASSUME NEW r \in Request, PromoteObject(r) PROVE JobsOK'
    BY <1>1, <1>2, <1>10 DEF PromoteObject, Confirming, Trying, Step
<1>11. ASSUME NEW r \in Request, ReadPosition(r) PROVE JobsOK'
    <2>. DEFINE j == [job[r] EXCEPT !.step = "insert", !.position = NextPosition]
    <2>1. JobOK(job[r]) /\ job[r].step = "position"
        BY <1>11 DEF JobsOK, ReadPosition
    <2>2. NextPosition \in Nat
        BY NextPositionLemma DEF RowsOK
    <2>3. JobOK(j)
        BY <2>1, <2>2 DEF JobOK, Job, Step, Confirming, Trying
    <2>4. Ends(r) \/ job' = [job EXCEPT ![r] = j]
        BY <1>11 DEF ReadPosition
    <2>. HIDE DEF j
    <2>. QED  BY <1>2, <2>3, <2>4, OneJob
<1>12. ASSUME NEW r \in Request, InsertRow(r) PROVE JobsOK'
    <2>. DEFINE s == IF job[r].tries + 1 = MaxTries THEN "cleanup" ELSE "position"
                j == [job[r] EXCEPT !.step = s, !.tries = @ + 1]
    <2>1. JobOK(job[r]) /\ job[r].step = "insert"
        BY <1>12 DEF JobsOK, InsertRow
    <2>2. JobOK(j)
        <3>1. job[r].tries \in 0 .. MaxTries - 1 /\ MaxTries \in Nat
            BY <2>1, StorageAssumption DEF JobOK, Job, Trying, Confirming
        <3>2. job[r].tries + 1 \in 0 .. MaxTries /\ (s = "position" => job[r].tries + 1 < MaxTries)
            BY <3>1
        <3>. QED  BY <2>1, <3>2 DEF JobOK, Job, Step, Confirming, Trying
    <2>3. Ends(r) \/ TryAgain(r)
        BY <1>12 DEF InsertRow
    <2>4. TryAgain(r) => job' = [job EXCEPT ![r] = j]
        BY DEF TryAgain
    <2>. HIDE DEF j
    <2>. QED  BY <1>2, <2>2, <2>3, <2>4, OneJob
<1>13. ASSUME NEW r \in Request, InsertFails(r) PROVE JobsOK'
    BY <1>1, <1>13 DEF InsertFails, Confirming, Trying, Step
<1>14. ASSUME NEW r \in Request, Cleanup(r) PROVE JobsOK'
    BY <1>2, <1>14 DEF Cleanup
<1>15. ASSUME NEW r \in Request, CollectPhotos(r) PROVE JobsOK'
    <2>. DEFINE j == [job[r] EXCEPT !.step = "locked", !.keys = PhotosOf(job[r].round)]
    <2>1. JobOK(job[r]) /\ job[r].step = "waiting"
        BY <1>15 DEF JobsOK, CollectPhotos
    <2>2. PhotosOf(job[r].round) \in SUBSET Photo
        BY DEF PhotosOf
    <2>3. JobOK(j)
        BY <2>1, <2>2 DEF JobOK, Job, Step, Confirming, Trying
    <2>4. Ends(r) \/ job' = [job EXCEPT ![r] = j]
        BY <1>15 DEF CollectPhotos
    <2>. HIDE DEF j
    <2>. QED  BY <1>2, <2>3, <2>4, OneJob
<1>16. ASSUME NEW r \in Request, DeleteRoundCommits(r) PROVE JobsOK'
    BY <1>1, <1>16 DEF DeleteRoundCommits, Step
<1>17. ASSUME NEW r \in Request, DeleteObject(r) PROVE JobsOK'
    <2>1. JobOK(job[r]) /\ job[r].step = "objects"
        BY <1>17 DEF JobsOK, DeleteObject
    <2>2. PICK p \in Photo : \/ job' = [job EXCEPT ![r] = [job[r] EXCEPT !.keys = @ \ {p}]]
                             \/ job' = [job EXCEPT ![r] = [job[r] EXCEPT !.keys = @ \ {p}, !.missed = @ \cup {p}]]
        <3>1. job[r].keys \in SUBSET Photo
            BY <2>1 DEF JobOK, Job
        <3>. QED  BY <1>17, <3>1 DEF DeleteObject
    <2>3. /\ JobOK([job[r] EXCEPT !.keys = @ \ {p}])
          /\ JobOK([job[r] EXCEPT !.keys = @ \ {p}, !.missed = @ \cup {p}])
        BY <2>1 DEF JobOK, Job, Step, Confirming, Trying
    <2>. QED  BY <2>2, <2>3, OneJob
<1>18. ASSUME NEW r \in Request, RecordMissed(r) PROVE JobsOK'
    BY <1>2, <1>18 DEF RecordMissed
<1>19. ASSUME NEW r \in Request, Crash(r) PROVE JobsOK'
    BY <1>2, <1>19 DEF Crash
<1>20. ASSUME UNCHANGED vars PROVE JobsOK'
    BY <1>3, <1>20 DEF vars
<1>21. ASSUME NEW p \in Photo, RetryDeletion(p) \/ DiscardUpload(p) \/ PendingExpires(p) PROVE JobsOK'
    BY <1>3, <1>21 DEF RetryDeletion, DiscardUpload, PendingExpires
<1>22. ASSUME RetryCommits PROVE JobsOK'
    BY <1>3, <1>22 DEF RetryCommits
<1>. QED
    BY <1>4, <1>5, <1>6, <1>7, <1>8, <1>9, <1>10, <1>11, <1>12, <1>13, <1>14, <1>15, <1>16, <1>17,
       <1>18, <1>19, <1>20, <1>21, <1>22 DEF Next

LEMMA UnlockedOK ==
    ASSUME lock \in [Round -> Request \cup {NoRequest}], NEW r \in Request
    PROVE  /\ Unlocked(r) \in [Round -> Request \cup {NoRequest}]
           /\ \A d \in Round : Unlocked(r)[d] \in {lock[d], NoRequest} /\ Unlocked(r)[d] # r
BY StorageAssumption DEF Unlocked

LEMMA JobFacts ==
    ASSUME Typed, NEW r \in Request
    PROVE  /\ JobOK(job[r]) /\ job[r] \in Job
           /\ job[r].photo \in SUBSET Photo /\ job[r].keys \in SUBSET Photo
           /\ job[r].missed \in SUBSET Photo /\ job[r].position \in Nat
BY DEF Typed, JobsOK, JobOK, Job

LEMMA RowsStep == ASSUME Typed, [Next]_vars PROVE RowsOK'
<1>1. RowsOK
    BY DEF Typed
<1>2. ASSUME NEW r \in Request, NEW p \in Photo, ConfirmUpload(r, p) PROVE RowsOK'
    BY <1>1, <1>2, StorageAssumption DEF RowsOK, ConfirmUpload, objects, database
<1>3. ASSUME NEW r \in Request, NEW p \in Photo, DeleteCoursePhoto(r, p) PROVE RowsOK'
    BY <1>1, <1>3 DEF RowsOK, DeleteCoursePhoto, objects, history
<1>4. ASSUME NEW r \in Request, NEW d \in Round, DeleteRound(r, d) PROVE RowsOK'
    BY <1>1, <1>4 DEF RowsOK, DeleteRound, objects, database, history
<1>5. ASSUME NEW r \in Request, NEW q \in Request, BreakDeadlock(r, q) PROVE RowsOK'
    BY <1>1, <1>5, UnlockedOK DEF RowsOK, BreakDeadlock, Released, objects, database, history
<1>6. ASSUME NEW r \in Request, HeadObject(r) PROVE RowsOK'
    BY <1>1, <1>6, JobFacts DEF RowsOK, HeadObject, database, history
<1>7. ASSUME NEW r \in Request, LockRound(r) PROVE RowsOK'
    BY <1>1, <1>7, JobFacts DEF RowsOK, LockRound, database, history
<1>8. ASSUME NEW r \in Request, PromoteObject(r) PROVE RowsOK'
    BY <1>1, <1>8, JobFacts, UnlockedOK DEF RowsOK, PromoteObject, database
<1>9. ASSUME NEW r \in Request, ReadPosition(r) PROVE RowsOK'
    BY <1>1, <1>9, UnlockedOK DEF RowsOK, ReadPosition, objects, database, history
<1>10. ASSUME NEW r \in Request, InsertRow(r) PROVE RowsOK'
    BY <1>1, <1>10, JobFacts, UnlockedOK DEF RowsOK, InsertRow, objects, history
<1>11. ASSUME NEW r \in Request, InsertFails(r) PROVE RowsOK'
    BY <1>1, <1>11, JobFacts, UnlockedOK DEF RowsOK, InsertFails, objects
<1>12. ASSUME NEW r \in Request, Cleanup(r) PROVE RowsOK'
    BY <1>1, <1>12, JobFacts DEF RowsOK, Cleanup
<1>13. ASSUME NEW r \in Request, CollectPhotos(r) PROVE RowsOK'
    <2>1. job[r].round \in Round
        BY <1>13, JobFacts DEF JobOK, CollectPhotos
    <2>. QED  BY <1>1, <1>13, <2>1 DEF RowsOK, CollectPhotos, Released, objects, database, history
<1>14. ASSUME NEW r \in Request, DeleteRoundCommits(r) PROVE RowsOK'
    BY <1>1, <1>14, UnlockedOK DEF RowsOK, DeleteRoundCommits, Released, objects, history
<1>15. ASSUME NEW r \in Request, DeleteObject(r) PROVE RowsOK'
    BY <1>1, <1>15, JobFacts DEF RowsOK, DeleteObject, database, history
<1>16. ASSUME NEW r \in Request, RecordMissed(r) PROVE RowsOK'
    <2>1. /\ failed' = [p \in Photo |-> IF p \in job[r].missed THEN failed[p] + 1 ELSE failed[p]]
          /\ UNCHANGED <<pending, stored, row, rounds, lock, owner, swept, confirms, mishaps>>
        BY <1>16 DEF RecordMissed, objects, history
    <2>2. failed' \in [Photo -> Nat] /\ \A p \in Photo : swept[p] <= failed'[p]
        BY <1>1, <2>1 DEF RowsOK
    <2>. QED  BY <1>1, <2>1, <2>2 DEF RowsOK
<1>17. ASSUME NEW r \in Request, Crash(r) PROVE RowsOK'
    BY <1>1, <1>17, UnlockedOK DEF RowsOK, Crash, Released, objects, database
<1>18. ASSUME NEW p \in Photo, RetryDeletion(p) PROVE RowsOK'
    BY <1>1, <1>18 DEF RowsOK, RetryDeletion, database
<1>19. ASSUME NEW p \in Photo, DiscardUpload(p) \/ PendingExpires(p) PROVE RowsOK'
    BY <1>1, <1>19 DEF RowsOK, DiscardUpload, PendingExpires, database, history
<1>20. ASSUME RetryCommits PROVE RowsOK'
    <2>1. /\ failed' = [p \in Photo |-> failed[p] - swept[p]]
          /\ swept' = [p \in Photo |-> 0]
          /\ UNCHANGED <<pending, stored, row, rounds, lock, owner, confirms, mishaps>>
        BY <1>20 DEF RetryCommits, objects
    <2>2. failed' \in [Photo -> Nat] /\ \A p \in Photo : 0 <= failed'[p]
        BY <1>1, <2>1 DEF RowsOK
    <2>. QED  BY <1>1, <2>1, <2>2 DEF RowsOK
<1>21. ASSUME UNCHANGED vars PROVE RowsOK'
    BY <1>1, <1>21 DEF RowsOK, vars
<1>. QED
    BY <1>2, <1>3, <1>4, <1>5, <1>6, <1>7, <1>8, <1>9, <1>10, <1>11, <1>12, <1>13, <1>14, <1>15,
       <1>16, <1>17, <1>18, <1>19, <1>20, <1>21 DEF Next

LEMMA InitTyped == Init => Typed
<1>1. SUFFICES ASSUME Init PROVE RowsOK /\ JobsOK
    BY DEF Typed
<1>2. RowsOK
    BY <1>1, StorageAssumption DEF Init, RowsOK, NoRow
<1>3. JobsOK
    BY <1>1, IdleOK DEF Init, JobsOK, JobOK
<1>. QED  BY <1>2, <1>3

LEMMA AlwaysTyped == Spec => []Typed
<1>1. Typed /\ [Next]_vars => Typed'
    BY RowsStep, JobsStep DEF Typed
<1>. QED  BY <1>1, InitTyped, PTL DEF Spec

\* Requests stay in their bounds: add_user_image gives up after MaxTries, and
\* the script never removes more records than there are.
THEOREM TypeCorrect == Spec => []TypeOK
<1>1. Typed => TypeOK
    BY DEF Typed, RowsOK, JobsOK, TypeOK
<1>. QED  BY <1>1, AlwaysTyped, PTL

-----------------------------------------------------------------------------
(***************************************************************************)
(* No object is lost.                                                      *)
(***************************************************************************)

\* A deletion that has collected its keys holds its round, and has missed no
\* photo of it.
LockedOK ==
    \A r \in Request : job[r].step = "locked" =>
        /\ lock[job[r].round] = r
        /\ \A p \in Photo : row[p] # NoRow /\ Attached[p] = job[r].round => p \in job[r].keys

\* What a step of request r leaves to the other requests.
Frame(r) ==
    /\ \A q \in Request \ {r} : job'[q] = job[q]
    /\ \A d \in Round, q \in Request \ {r} : lock[d] = q => lock'[d] = q

LEMMA LockedFrame ==
    ASSUME Typed, LockedOK, NEW r \in Request, Frame(r), job'[r].step # "locked",
           \A p \in Photo : row'[p] # NoRow => row[p] # NoRow \/ MayReference(r, Attached[p])
    PROVE  LockedOK'
<1>1. SUFFICES ASSUME NEW q \in Request, job'[q].step = "locked"
               PROVE  /\ lock'[job'[q].round] = q
                      /\ \A p \in Photo : row'[p] # NoRow /\ Attached[p] = job'[q].round
                                            => p \in job'[q].keys
    BY DEF LockedOK
<1>2. q # r /\ job'[q] = job[q]
    BY <1>1 DEF Frame
<1>3. /\ job[q].round \in Round /\ lock[job[q].round] = q
      /\ \A p \in Photo : row[p] # NoRow /\ Attached[p] = job[q].round => p \in job[q].keys
    BY <1>1, <1>2, JobFacts DEF LockedOK, JobOK
<1>4. lock'[job[q].round] = q
    BY <1>2, <1>3 DEF Frame
<1>5. ASSUME NEW p \in Photo, row'[p] # NoRow, Attached[p] = job[q].round
      PROVE  p \in job[q].keys
    <2>1. ~MayReference(r, Attached[p])
        BY <1>2, <1>3, <1>5, StorageAssumption DEF MayReference
    <2>. QED  BY <1>3, <1>5, <2>1
<1>. QED  BY <1>2, <1>4, <1>5

\* A request begins, goes on, or ends, and holds locks of its own.
Moves(r) == \/ Ends(r) \/ TryAgain(r) \/ job' = job
            \/ \E s \in Step \ {"locked"} : Goes(r, s)
Locks(r) == \/ lock' = lock \/ lock' = Unlocked(r)
            \/ \E d \in Round : lock[d] = NoRequest /\ lock' = [lock EXCEPT ![d] = r]

LEMMA MovesOthers ==
    ASSUME Typed, NEW r \in Request, Moves(r)
    PROVE  \A q \in Request \ {r} : job'[q] = job[q]
BY DEF Typed, JobsOK, Moves, Ends, TryAgain, Goes

LEMMA LocksOthers ==
    ASSUME Typed, NEW r \in Request, Locks(r)
    PROVE  \A d \in Round, q \in Request \ {r} : lock[d] = q => lock'[d] = q
BY StorageAssumption DEF Typed, RowsOK, Locks, Unlocked

LEMMA MovesNotLocked ==
    ASSUME Typed, NEW r \in Request, Moves(r), job[r].step # "locked"
    PROVE  job'[r].step # "locked"
<1>1. JobOK(job[r]) /\ job[r] \in Job
    BY JobFacts
<1>2. CASE Ends(r)
    BY <1>2, IdleOK DEF Ends, Typed, JobsOK
<1>3. CASE TryAgain(r)
    BY <1>1, <1>3 DEF TryAgain, Typed, JobsOK, Job
<1>4. CASE job' = job
    BY <1>4
<1>5. ASSUME NEW s \in Step \ {"locked"}, Goes(r, s) PROVE job'[r].step # "locked"
    BY <1>1, <1>5 DEF Goes, Typed, JobsOK, Job
<1>. QED  BY <1>2, <1>3, <1>4, <1>5 DEF Moves

LEMMA LockedStep == ASSUME Typed, LockedOK, [Next]_vars PROVE LockedOK'
<1>1. ASSUME UNCHANGED <<row, job, lock>> PROVE LockedOK'
    BY <1>1 DEF LockedOK
<1>2. ASSUME NEW r \in Request, Moves(r), Locks(r), job[r].step # "locked",
             \A p \in Photo : row'[p] # NoRow => row[p] # NoRow \/ MayReference(r, Attached[p])
      PROVE  LockedOK'
    BY <1>2, MovesOthers, LocksOthers, MovesNotLocked, LockedFrame DEF Frame
<1>3. ASSUME NEW r \in Request, NEW j, job' = [job EXCEPT ![r] = j], j.step # "locked",
             Locks(r),
             \A p \in Photo : row'[p] # NoRow => row[p] # NoRow
      PROVE  LockedOK'
    <2>1. job'[r] = j /\ \A q \in Request \ {r} : job'[q] = job[q]
        BY <1>3 DEF Typed, JobsOK
    <2>. QED  BY <1>3, <2>1, LocksOthers, LockedFrame DEF Frame
<1>4. ASSUME NEW r \in Request, NEW p \in Photo, ConfirmUpload(r, p) PROVE LockedOK'
    <2>1. [Idle EXCEPT !.step = "head", !.photo = {p}].step # "locked"
        BY DEF Idle
    <2>. QED  BY <1>1, <1>3, <1>4, <2>1 DEF ConfirmUpload, database, Locks
<1>5. ASSUME NEW r \in Request, NEW p \in Photo, DeleteCoursePhoto(r, p) PROVE LockedOK'
    <2>1. [Idle EXCEPT !.step = "objects", !.keys = {p}].step # "locked"
        BY DEF Idle
    <2>2. \A q \in Photo : row'[q] # NoRow => row[q] # NoRow
        BY <1>5 DEF DeleteCoursePhoto, Typed, RowsOK
    <2>. QED  BY <1>3, <1>5, <2>1, <2>2 DEF DeleteCoursePhoto, Locks
<1>6. ASSUME NEW r \in Request, NEW d \in Round, DeleteRound(r, d) PROVE LockedOK'
    <2>1. [Idle EXCEPT !.step = "waiting", !.round = d].step # "locked"
        BY DEF Idle
    <2>. QED  BY <1>3, <1>6, <2>1 DEF DeleteRound, database, Locks
<1>7. ASSUME NEW r \in Request, NEW q \in Request, BreakDeadlock(r, q) PROVE LockedOK'
    BY <1>2, <1>7 DEF BreakDeadlock, Deadlocked, database, Moves, Locks, Step
<1>8. ASSUME NEW r \in Request, HeadObject(r) PROVE LockedOK'
    BY <1>2, <1>8 DEF HeadObject, database, Moves, Locks, Step
<1>9. ASSUME NEW r \in Request, LockRound(r) PROVE LockedOK'
    <2>1. Moves(r) /\ job[r].step # "locked" /\ row' = row
        BY <1>9 DEF LockRound, database, Moves, Step
    <2>2. Locks(r)
        BY <1>9 DEF LockRound, Locks, Kept
    <2>. QED  BY <1>2, <2>1, <2>2
<1>10. ASSUME NEW r \in Request, PromoteObject(r) PROVE LockedOK'
    BY <1>2, <1>10 DEF PromoteObject, database, Moves, Locks, Step
<1>11. ASSUME NEW r \in Request, ReadPosition(r) PROVE LockedOK'
    <2>. DEFINE j == [job[r] EXCEPT !.step = "insert", !.position = NextPosition]
    <2>1. j.step = "insert"
        BY <1>11, JobFacts DEF Job
    <2>2. CASE Ends(r)
        BY <1>2, <1>11, <2>2 DEF ReadPosition, database, Moves, Locks
    <2>3. CASE ~Ends(r)
        <3>1. job' = [job EXCEPT ![r] = j] /\ lock' = lock /\ row' = row
            BY <1>11, <2>3 DEF ReadPosition, database
        <3>. HIDE DEF j
        <3>. QED  BY <1>3, <2>1, <3>1 DEF Locks
    <2>. QED  BY <2>2, <2>3
<1>12. ASSUME NEW r \in Request, InsertRow(r) PROVE LockedOK'
    <2>1. Moves(r) /\ job[r].step # "locked" /\ Locks(r)
        BY <1>12 DEF InsertRow, Moves, Locks
    <2>2. \A p \in Photo : row'[p] # NoRow => row[p] # NoRow \/ MayReference(r, Attached[p])
        BY <1>12 DEF InsertRow, Typed, RowsOK
    <2>. QED  BY <1>2, <2>1, <2>2
<1>13. ASSUME NEW r \in Request, InsertFails(r) PROVE LockedOK'
    <2>1. Moves(r) /\ job[r].step # "locked" /\ Locks(r)
        BY <1>13 DEF InsertFails, Moves, Locks, Step
    <2>2. \A p \in Photo : row'[p] # NoRow => row[p] # NoRow \/ MayReference(r, Attached[p])
        BY <1>13 DEF InsertFails, Typed, RowsOK
    <2>. QED  BY <1>2, <2>1, <2>2
<1>14. ASSUME NEW r \in Request, Cleanup(r) PROVE LockedOK'
    BY <1>2, <1>14 DEF Cleanup, Moves, Locks
<1>15. ASSUME NEW r \in Request, CollectPhotos(r) PROVE LockedOK'
    <2>. DEFINE d == job[r].round
                j == [job[r] EXCEPT !.step = "locked", !.keys = PhotosOf(d)]
    <2>1. CASE d \notin Kept
        BY <1>2, <1>15, <2>1 DEF CollectPhotos, database, Moves, Locks
    <2>2. CASE d \in Kept
        <3>1. /\ lock[d] = NoRequest /\ lock' = [lock EXCEPT ![d] = r]
              /\ job' = [job EXCEPT ![r] = j] /\ row' = row
            BY <1>15, <2>2 DEF CollectPhotos, database
        <3>2. d \in Round
            BY <1>15, JobFacts DEF CollectPhotos, JobOK
        <3>3. j.round = d /\ j.keys = PhotosOf(d)
            BY JobFacts DEF Job
        <3>4. SUFFICES ASSUME NEW q \in Request, job'[q].step = "locked"
                       PROVE  /\ lock'[job'[q].round] = q
                              /\ \A p \in Photo : row'[p] # NoRow /\ Attached[p] = job'[q].round
                                                    => p \in job'[q].keys
            BY DEF LockedOK
        <3>. HIDE DEF d, j
        <3>5. CASE q = r
            <4>1. job'[q] = j
                BY <3>1, <3>5 DEF Typed, JobsOK
            <4>2. lock'[d] = r
                BY <3>1, <3>2 DEF Typed, RowsOK
            <4>. QED  BY <3>1, <3>3, <3>5, <4>1, <4>2 DEF PhotosOf, Present
        <3>6. CASE q # r
            <4>1. job'[q] = job[q]
                BY <3>1, <3>6 DEF Typed, JobsOK
            <4>2. job[q].round \in Round
                BY <3>4, <4>1, JobFacts DEF JobOK
            <4>3. lock'[job[q].round] = lock[job[q].round]
                BY <3>1, <3>4, <4>1, <4>2, StorageAssumption DEF LockedOK, Typed, RowsOK
            <4>. QED  BY <3>1, <3>4, <4>1, <4>3 DEF LockedOK
        <3>. QED  BY <3>5, <3>6
    <2>. QED  BY <2>1, <2>2
<1>16. ASSUME NEW r \in Request, DeleteRoundCommits(r) PROVE LockedOK'
    <2>. DEFINE j == [job[r] EXCEPT !.step = "objects"]
    <2>1. job' = [job EXCEPT ![r] = j] /\ Locks(r)
        BY <1>16 DEF DeleteRoundCommits, Goes, Locks
    <2>2. j.step # "locked"
        BY JobFacts DEF Job
    <2>3. \A p \in Photo : row'[p] # NoRow => row[p] # NoRow
        BY <1>16 DEF DeleteRoundCommits
    <2>. HIDE DEF j
    <2>. QED  BY <1>3, <2>1, <2>2, <2>3
<1>17. ASSUME NEW r \in Request, DeleteObject(r) PROVE LockedOK'
    <2>1. PICK p \in job[r].keys :
            \/ job' = [job EXCEPT ![r] = [job[r] EXCEPT !.keys = @ \ {p}]]
            \/ job' = [job EXCEPT ![r] = [job[r] EXCEPT !.keys = @ \ {p}, !.missed = @ \cup {p}]]
        BY <1>17 DEF DeleteObject
    <2>2. /\ [job[r] EXCEPT !.keys = @ \ {p}].step # "locked"
          /\ [job[r] EXCEPT !.keys = @ \ {p}, !.missed = @ \cup {p}].step # "locked"
        BY <1>17, JobFacts DEF DeleteObject, Job
    <2>3. Locks(r) /\ row' = row
        BY <1>17 DEF DeleteObject, Locks, database
    <2>. QED  BY <1>3, <2>1, <2>2, <2>3
<1>18. ASSUME NEW r \in Request, RecordMissed(r) PROVE LockedOK'
    BY <1>2, <1>18 DEF RecordMissed, Moves, Locks
<1>19. ASSUME NEW r \in Request, Crash(r) PROVE LockedOK'
    <2>1. Idle.step # "locked"
        BY IdleOK
    <2>. QED  BY <1>3, <1>19, <2>1 DEF Crash, database, Ends, Locks
<1>20. ASSUME NEW p \in Photo, RetryDeletion(p) \/ DiscardUpload(p) \/ PendingExpires(p) PROVE LockedOK'
    BY <1>1, <1>20 DEF RetryDeletion, DiscardUpload, PendingExpires, database
<1>21. ASSUME RetryCommits PROVE LockedOK'
    BY <1>1, <1>21 DEF RetryCommits
<1>22. ASSUME UNCHANGED vars PROVE LockedOK'
    BY <1>1, <1>22 DEF vars
<1>. QED
    BY <1>4, <1>5, <1>6, <1>7, <1>8, <1>9, <1>10, <1>11, <1>12, <1>13, <1>14, <1>15,
       <1>16, <1>17, <1>18, <1>19, <1>20, <1>21, <1>22 DEF Next

\* Responsible, as a statement about a job.
AnswersFor(j, p) ==
    \/ j.step \in {"position", "insert", "cleanup", "broken"} /\ p \in j.photo
    \/ j.step = "objects" /\ p \in j.keys \cup j.missed

\* A record counts until its object has been deleted in a run of the script.
CoveredOK ==
    \A p \in stored \ mishaps :
        row[p] # NoRow \/ swept[p] < failed[p] \/ \E r \in Request : AnswersFor(job[r], p)

\* What covers p before a step of r still does after it.
StillFound(r, p) ==
    /\ row[p] # NoRow => row'[p] # NoRow
    /\ swept[p] < failed[p] => swept'[p] < failed'[p]
    /\ AnswersFor(job[r], p) => AnswersFor(job'[r], p)

Found(r, p) == row'[p] # NoRow \/ swept'[p] < failed'[p] \/ AnswersFor(job'[r], p)

LEMMA CoveredFrame ==
    ASSUME CoveredOK, NEW r \in Request, \A q \in Request \ {r} : job'[q] = job[q],
           \A p \in stored' \ mishaps' :
                Found(r, p) \/ (p \in stored \ mishaps /\ StillFound(r, p))
    PROVE  CoveredOK'
<1>1. SUFFICES ASSUME NEW p \in stored' \ mishaps'
               PROVE  \/ row'[p] # NoRow \/ swept'[p] < failed'[p]
                      \/ \E q \in Request : AnswersFor(job'[q], p)
    BY DEF CoveredOK, AnswersFor
<1>2. CASE Found(r, p)
    BY <1>2 DEF Found
<1>3. CASE p \in stored \ mishaps /\ StillFound(r, p)
    <2>1. row[p] # NoRow \/ swept[p] < failed[p] \/ \E q \in Request : AnswersFor(job[q], p)
        BY <1>3 DEF CoveredOK
    <2>2. ASSUME NEW q \in Request, AnswersFor(job[q], p)
          PROVE  \E o \in Request : AnswersFor(job'[o], p)
        <3>1. CASE q = r
            BY <1>3, <2>2, <3>1 DEF StillFound
        <3>2. CASE q # r
            <4>1. job'[q] = job[q]
                BY <3>2
            <4>. QED  BY <2>2, <4>1
        <3>. QED  BY <3>1, <3>2
    <2>. QED  BY <1>3, <2>1, <2>2 DEF StillFound
<1>. QED  BY <1>2, <1>3

\* How a job that changes its place answers afterwards.
LEMMA MovesAnswers ==
    ASSUME Typed, NEW r \in Request
    PROVE  /\ Ends(r) => job'[r] = Idle
           /\ TryAgain(r) => /\ job'[r].photo = job[r].photo
                             /\ job'[r].step \in {"position", "cleanup"}
           /\ \A s \in Step : Goes(r, s) => /\ job'[r].step = s
                                           /\ job'[r].photo = job[r].photo
                                           /\ job'[r].keys = job[r].keys
                                           /\ job'[r].missed = job[r].missed
<1>1. job[r] \in Job /\ job \in [Request -> Job]
    BY JobFacts DEF Typed, JobsOK
<1>. QED  BY <1>1 DEF Ends, TryAgain, Goes, Job

LEMMA CoveredStep == ASSUME Typed, LockedOK, CoveredOK, [Next]_vars PROVE CoveredOK'
<1>. USE DEF StillFound, Found
<1>1. ASSUME UNCHANGED <<stored, row, failed, swept, job, mishaps>> PROVE CoveredOK'
    BY <1>1 DEF CoveredOK
<1>2. ASSUME NEW r \in Request, Moves(r),
             \A p \in stored' \ mishaps' :
                Found(r, p) \/ (p \in stored \ mishaps /\ StillFound(r, p))
      PROVE  CoveredOK'
    BY <1>2, MovesOthers, CoveredFrame
<1>3. ASSUME NEW r \in Request, NEW j, job' = [job EXCEPT ![r] = j],
             UNCHANGED <<stored, failed, swept, mishaps>>,
             \A p \in Photo : (row[p] # NoRow => row'[p] # NoRow \/ AnswersFor(j, p))
                              /\ (AnswersFor(job[r], p) => AnswersFor(j, p))
      PROVE  CoveredOK'
    <2>1. job'[r] = j /\ \A q \in Request \ {r} : job'[q] = job[q]
        BY <1>3 DEF Typed, JobsOK
    <2>2. stored \in SUBSET Photo
        BY DEF Typed, RowsOK
    <2>. QED  BY <1>3, <2>1, <2>2, CoveredFrame
<1>4. ASSUME NEW r \in Request, NEW p \in Photo, ConfirmUpload(r, p) PROVE CoveredOK'
    <2>. DEFINE j == [Idle EXCEPT !.step = "head", !.photo = {p}]
    <2>1. \A q \in Photo : ~AnswersFor(Idle, q)
        BY IdleOK DEF AnswersFor
    <2>2. UNCHANGED <<stored, row, failed, swept, mishaps>>
          /\ (job' = job \/ (job' = [job EXCEPT ![r] = j] /\ job[r] = Idle))
        BY <1>4 DEF ConfirmUpload, objects, database
    <2>. HIDE DEF j
    <2>. QED  BY <1>1, <1>3, <2>1, <2>2
<1>5. ASSUME NEW r \in Request, NEW p \in Photo, DeleteCoursePhoto(r, p) PROVE CoveredOK'
    <2>. DEFINE j == [Idle EXCEPT !.step = "objects", !.keys = {p}]
    <2>1. \A q \in Photo : ~AnswersFor(Idle, q)
        BY IdleOK DEF AnswersFor
    <2>2. AnswersFor(j, p)
        BY DEF AnswersFor, Idle
    <2>3. /\ UNCHANGED <<stored, failed, swept, mishaps>>
          /\ job' = [job EXCEPT ![r] = j] /\ job[r] = Idle
          /\ row' = [row EXCEPT ![p] = NoRow]
        BY <1>5 DEF DeleteCoursePhoto, objects, history
    <2>4. \A q \in Photo : row[q] # NoRow => row'[q] # NoRow \/ AnswersFor(j, q)
        BY <2>2, <2>3 DEF Typed, RowsOK
    <2>. HIDE DEF j
    <2>. QED  BY <1>3, <2>1, <2>3, <2>4
<1>6. ASSUME NEW r \in Request, NEW d \in Round, DeleteRound(r, d) PROVE CoveredOK'
    <2>. DEFINE j == [Idle EXCEPT !.step = "waiting", !.round = d]
    <2>1. \A q \in Photo : ~AnswersFor(Idle, q)
        BY IdleOK DEF AnswersFor
    <2>2. UNCHANGED <<stored, row, failed, swept, mishaps>>
          /\ job' = [job EXCEPT ![r] = j] /\ job[r] = Idle
        BY <1>6 DEF DeleteRound, objects, database, history
    <2>. HIDE DEF j
    <2>. QED  BY <1>3, <2>1, <2>2
<1>7. ASSUME NEW r \in Request, NEW q \in Request, BreakDeadlock(r, q) PROVE CoveredOK'
    <2>1. UNCHANGED <<stored, row, failed, swept, mishaps>>
        BY <1>7 DEF BreakDeadlock, objects, database, history
    <2>2. CASE Goes(r, "broken")
        BY <1>2, <1>7, <2>1, <2>2, MovesAnswers DEF BreakDeadlock, Deadlocked, AnswersFor, Moves, Step
    <2>3. CASE Ends(q)
        BY <1>2, <1>7, <2>1, <2>3, MovesAnswers DEF BreakDeadlock, Deadlocked, AnswersFor, Moves
    <2>. QED  BY <1>7, <2>2, <2>3 DEF BreakDeadlock
<1>8. ASSUME NEW r \in Request, HeadObject(r) PROVE CoveredOK'
    BY <1>2, <1>8, MovesAnswers DEF HeadObject, AnswersFor, Moves, Step, database, history
<1>9. ASSUME NEW r \in Request, LockRound(r) PROVE CoveredOK'
    BY <1>2, <1>9, MovesAnswers DEF LockRound, AnswersFor, Moves, Step, database, history
<1>10. ASSUME NEW r \in Request, PromoteObject(r) PROVE CoveredOK'
    <2>1. UNCHANGED <<row, failed, swept>> /\ job[r].step = "promote"
        BY <1>10 DEF PromoteObject, database
    <2>2. PICK p \in job[r].photo :
            \/ stored' = stored \cup {p} /\ Goes(r, "position") /\ mishaps' = mishaps
            \/ stored' = stored /\ Ends(r) /\ mishaps' = mishaps
            \/ stored' = stored \cup {p} /\ Ends(r) /\ mishaps' = mishaps \cup {p}
        BY <1>10 DEF PromoteObject
    <2>. QED  BY <1>2, <2>1, <2>2, MovesAnswers DEF AnswersFor, Moves, Step
<1>11. ASSUME NEW r \in Request, ReadPosition(r) PROVE CoveredOK'
    <2>. DEFINE j == [job[r] EXCEPT !.step = "insert", !.position = NextPosition]
    <2>1. UNCHANGED <<stored, row, failed, swept, mishaps>>
        BY <1>11 DEF ReadPosition, objects, database, history
    <2>2. PICK p \in Photo : job[r].photo = {p}
        BY <1>11, JobFacts DEF ReadPosition, JobOK, Confirming
    <2>3. CASE Ends(r) /\ Present(p)
        BY <1>2, <1>11, <2>1, <2>2, <2>3, MovesAnswers DEF ReadPosition, Present, AnswersFor, Moves
    <2>4. CASE job' = [job EXCEPT ![r] = j]
        <3>1. j.step = "insert" /\ j.photo = job[r].photo
            BY <1>11, JobFacts DEF Job
        <3>. HIDE DEF j
        <3>. QED  BY <1>3, <1>11, <2>1, <2>4, <3>1 DEF ReadPosition, AnswersFor
    <2>. QED  BY <1>11, <2>2, <2>3, <2>4 DEF ReadPosition
<1>12. ASSUME NEW r \in Request, InsertRow(r) PROVE CoveredOK'
    <2>1. UNCHANGED <<stored, failed, swept, mishaps>> /\ job[r].step = "insert"
        BY <1>12 DEF InsertRow, objects, history
    <2>2. PICK p \in Photo : job[r].photo = {p}
        BY <1>12, JobFacts DEF InsertRow, JobOK, Confirming
    <2>3. \/ row' = [row EXCEPT ![p] = job[r].position] /\ Ends(r)
          \/ row' = row /\ Present(p) /\ Ends(r)
          \/ row' = row /\ TryAgain(r)
        BY <1>12, <2>2 DEF InsertRow
    <2>4. \A q \in Photo : row[q] # NoRow => row'[q] # NoRow
        BY <2>3, JobFacts DEF Typed, RowsOK, NoRow
    <2>5. stored \in SUBSET Photo /\ Moves(r)
        BY <2>3 DEF Typed, RowsOK, Moves
    <2>6. CASE Ends(r) /\ row'[p] # NoRow
        BY <1>2, <2>1, <2>2, <2>4, <2>5, <2>6, MovesAnswers DEF AnswersFor
    <2>7. CASE TryAgain(r)
        BY <1>2, <2>1, <2>2, <2>4, <2>5, <2>7, MovesAnswers DEF AnswersFor
    <2>8. job[r].position # NoRow
        BY JobFacts DEF NoRow
    <2>. QED  BY <2>3, <2>6, <2>7, <2>8 DEF Typed, RowsOK, Present
<1>13. ASSUME NEW r \in Request, InsertFails(r) PROVE CoveredOK'
    <2>1. UNCHANGED <<stored, failed, swept>> /\ job[r].step = "insert" /\ Goes(r, "broken")
          /\ mishaps \subseteq mishaps'
        BY <1>13 DEF InsertFails, objects
    <2>2. \A q \in Photo : row[q] # NoRow => row'[q] # NoRow
        BY <1>13, JobFacts DEF InsertFails, Typed, RowsOK, NoRow
    <2>3. stored \in SUBSET Photo
        BY DEF Typed, RowsOK
    <2>. QED  BY <1>2, <2>1, <2>2, <2>3, MovesAnswers DEF AnswersFor, Moves, Step
<1>14. ASSUME NEW r \in Request, Cleanup(r) PROVE CoveredOK'
    <2>1. UNCHANGED <<row, swept>> /\ Ends(r) /\ job[r].step \in {"cleanup", "broken"}
        BY <1>14 DEF Cleanup
    <2>2. PICK p \in Photo : job[r].photo = {p}
        BY <2>1, JobFacts DEF JobOK, Confirming
    <2>3. \/ stored' = stored \ {p} /\ failed' = failed /\ mishaps' = mishaps
          \/ stored' = stored /\ failed' = [failed EXCEPT ![p] = @ + 1] /\ mishaps' = mishaps
          \/ stored' = stored /\ failed' = failed /\ mishaps' = mishaps \cup {p}
        BY <1>14, <2>2 DEF Cleanup
    <2>4. swept[p] \in Nat /\ failed[p] \in Nat /\ swept[p] <= failed[p]
          /\ stored \in SUBSET Photo /\ failed \in [Photo -> Nat]
        BY DEF Typed, RowsOK
    <2>5. \A q \in Photo : /\ q # p => failed'[q] = failed[q]
                           /\ failed' # failed => swept[p] < failed'[p]
        BY <2>3, <2>4
    <2>. QED  BY <1>2, <2>1, <2>2, <2>3, <2>4, <2>5, MovesAnswers DEF AnswersFor, Moves
<1>15. ASSUME NEW r \in Request, CollectPhotos(r) PROVE CoveredOK'
    <2>. DEFINE j == [job[r] EXCEPT !.step = "locked", !.keys = PhotosOf(job[r].round)]
    <2>1. UNCHANGED <<stored, row, failed, swept, mishaps>> /\ job[r].step = "waiting"
        BY <1>15 DEF CollectPhotos, objects, database, history
    <2>2. \A p \in Photo : ~AnswersFor(job[r], p)
        BY <2>1 DEF AnswersFor
    <2>3. Ends(r) \/ job' = [job EXCEPT ![r] = j]
        BY <1>15 DEF CollectPhotos
    <2>. HIDE DEF j
    <2>. QED  BY <1>3, <2>1, <2>2, <2>3 DEF Ends
<1>16. ASSUME NEW r \in Request, DeleteRoundCommits(r) PROVE CoveredOK'
    <2>. DEFINE d == job[r].round
                j == [job[r] EXCEPT !.step = "objects"]
    <2>1. /\ UNCHANGED <<stored, failed, swept, mishaps>>
          /\ job[r].step = "locked"
          /\ job' = [job EXCEPT ![r] = j]
          /\ row' = [p \in Photo |-> IF Attached[p] = d THEN NoRow ELSE row[p]]
        BY <1>16 DEF DeleteRoundCommits, objects, history, Goes
    <2>2. j.step = "objects" /\ j.keys = job[r].keys
        BY JobFacts DEF Job
    <2>3. \A p \in Photo : row[p] # NoRow => row'[p] # NoRow \/ p \in job[r].keys
        BY <2>1 DEF LockedOK
    <2>. HIDE DEF d, j
    <2>4. \A p \in Photo : (row[p] # NoRow => row'[p] # NoRow \/ AnswersFor(j, p))
                           /\ (AnswersFor(job[r], p) => AnswersFor(j, p))
        BY <2>1, <2>2, <2>3 DEF AnswersFor
    <2>5. job'[r] = j /\ \A q \in Request \ {r} : job'[q] = job[q]
        BY <2>1 DEF Typed, JobsOK
    <2>. QED  BY <2>1, <2>4, <2>5, CoveredFrame DEF Typed, RowsOK
<1>17. ASSUME NEW r \in Request, DeleteObject(r) PROVE CoveredOK'
    <2>1. UNCHANGED <<row, failed, swept, mishaps>> /\ job[r].step = "objects"
        BY <1>17 DEF DeleteObject, database, history
    <2>2. PICK p \in job[r].keys :
            \/ /\ stored' = stored \ {p}
               /\ job' = [job EXCEPT ![r] = [job[r] EXCEPT !.keys = @ \ {p}]]
            \/ /\ stored' = stored
               /\ job' = [job EXCEPT ![r] = [job[r] EXCEPT !.keys = @ \ {p}, !.missed = @ \cup {p}]]
        BY <1>17 DEF DeleteObject
    <2>3. /\ \A q \in Request \ {r} : job'[q] = job[q]
          /\ job'[r].step = "objects"
          /\ \A q \in Photo \ {p} : q \in job[r].keys \cup job[r].missed
                                    => q \in job'[r].keys \cup job'[r].missed
          /\ stored' # stored \ {p} => p \in job'[r].missed
        <3>1. job \in [Request -> Job] /\ job[r] \in Job
            BY JobFacts DEF Typed, JobsOK
        <3>2. CASE /\ stored' = stored \ {p}
                   /\ job' = [job EXCEPT ![r] = [job[r] EXCEPT !.keys = @ \ {p}]]
            BY <2>1, <3>1, <3>2 DEF Job
        <3>3. CASE job' = [job EXCEPT ![r] = [job[r] EXCEPT !.keys = @ \ {p}, !.missed = @ \cup {p}]]
            BY <2>1, <3>1, <3>3 DEF Job
        <3>. QED  BY <2>2, <3>2, <3>3
    <2>. QED  BY <2>1, <2>2, <2>3, CoveredFrame DEF AnswersFor, Typed, RowsOK
<1>18. ASSUME NEW r \in Request, RecordMissed(r) PROVE CoveredOK'
    <2>1. /\ UNCHANGED <<stored, row, swept, mishaps>> /\ Ends(r)
          /\ job[r].step = "objects" /\ job[r].keys = {}
          /\ failed' = [p \in Photo |-> IF p \in job[r].missed THEN failed[p] + 1 ELSE failed[p]]
        BY <1>18 DEF RecordMissed, objects, history
    <2>2. \A p \in Photo : /\ p \in job[r].missed => swept[p] < failed'[p]
                           /\ swept[p] < failed[p] => swept[p] < failed'[p]
        BY <2>1 DEF Typed, RowsOK
    <2>3. stored \in SUBSET Photo
        BY DEF Typed, RowsOK
    <2>. QED  BY <1>2, <2>1, <2>2, <2>3 DEF AnswersFor, Moves
<1>19. ASSUME NEW r \in Request, Crash(r) PROVE CoveredOK'
    <2>1. /\ UNCHANGED <<stored, row, failed, swept>> /\ Ends(r)
          /\ mishaps' = mishaps \cup {p \in Photo : Responsible(r, p)}
        BY <1>19 DEF Crash, objects, database
    <2>2. \A p \in stored \ mishaps' : ~AnswersFor(job[r], p)
        BY <2>1 DEF Responsible, AnswersFor, Typed, RowsOK
    <2>. QED  BY <1>2, <2>1, <2>2 DEF Moves
<1>20. ASSUME NEW p \in Photo, RetryDeletion(p) PROVE CoveredOK'
    BY <1>20 DEF RetryDeletion, database, CoveredOK, Typed, RowsOK
<1>21. ASSUME NEW p \in Photo, DiscardUpload(p) \/ PendingExpires(p) PROVE CoveredOK'
    BY <1>1, <1>21 DEF DiscardUpload, PendingExpires, database, history
<1>22. ASSUME RetryCommits PROVE CoveredOK'
    <2>1. /\ failed' = [p \in Photo |-> failed[p] - swept[p]]
          /\ swept' = [p \in Photo |-> 0]
          /\ UNCHANGED <<stored, row, job, mishaps>>
        BY <1>22 DEF RetryCommits, objects
    <2>2. \A p \in Photo : swept[p] < failed[p] => swept'[p] < failed'[p]
        BY <2>1 DEF Typed, RowsOK
    <2>. QED  BY <2>1, <2>2 DEF CoveredOK, Typed, RowsOK
<1>23. ASSUME UNCHANGED vars PROVE CoveredOK'
    BY <1>1, <1>23 DEF vars
<1>. QED
    BY <1>4, <1>5, <1>6, <1>7, <1>8, <1>9, <1>10, <1>11, <1>12, <1>13, <1>14, <1>15,
       <1>16, <1>17, <1>18, <1>19, <1>20, <1>21, <1>22, <1>23 DEF Next

\* No permanent object is lost: it has a row, a request that answers for it, or
\* a record for the retry script.
THEOREM NothingIsLost == Spec => []NoOrphan
<1>1. Init => LockedOK /\ CoveredOK
    BY IdleOK DEF Init, LockedOK, CoveredOK
<1>2. Typed /\ Typed' /\ LockedOK /\ CoveredOK /\ [Next]_vars => LockedOK' /\ CoveredOK'
    BY LockedStep, CoveredStep
<1>3. Typed /\ CoveredOK => NoOrphan
    <2>1. SUFFICES ASSUME Typed, CoveredOK, NEW p \in stored \ mishaps
                   PROVE  Present(p) \/ failed[p] > 0 \/ \E r \in Request : Responsible(r, p)
        BY DEF NoOrphan
    <2>2. \A r \in Request : AnswersFor(job[r], p) => Responsible(r, p)
        BY DEF AnswersFor, Responsible
    <2>3. swept[p] \in Nat /\ failed[p] \in Nat
        BY <2>1 DEF Typed, RowsOK
    <2>. QED  BY <2>1, <2>2, <2>3 DEF CoveredOK, Present
<1>. QED  BY <1>1, <1>2, <1>3, AlwaysTyped, PTL DEF Spec

-----------------------------------------------------------------------------
(***************************************************************************)
(* The cap on the photos of a round, when no other photo of the course can *)
(* make a position collide: the lock of the round is then never given up   *)
(* between the count and the insertion.                                    *)
(***************************************************************************)
Used == {p \in Photo : row[p] # NoRow}

\* Past the count of the photos and not yet past the insertion.
Counted(j) == j.step \in {"promote", "position", "insert"}

\* Whoever has counted holds the round, and there is still room for a photo;
\* a position that was read is above all others.
RoomFor(r, d) ==
    rounds[d] # "deleted" =>
        /\ lock[d] = r
        /\ Cardinality(Used) < MaxPhotos
        /\ job[r].step = "insert" =>
            /\ \A q \in Photo : row[q] < job[r].position
            /\ \A p \in job[r].photo : row[p] = NoRow

CapOK(d) ==
    /\ rounds[d] = "deleted" => Used = {}
    /\ Cardinality(Used) <= MaxPhotos
    /\ \A r \in Request : Counted(job[r]) => RoomFor(r, d)

LEMMA UsedFinite ==
    /\ IsFiniteSet(Used) /\ Cardinality(Used) \in Nat
    /\ \A S \in SUBSET Used : IsFiniteSet(S) /\ Cardinality(S) \in Nat
                              /\ Cardinality(S) <= Cardinality(Used)
<1>1. Used \in SUBSET Photo
    BY DEF Used
<1>2. IsFiniteSet(Used)
    BY <1>1, FS_Subset, StorageAssumption
<1>. QED  BY <1>2, FS_Subset, FS_CardinalityType

\* A step of r after which rows are as before or gone.
LEMMA CapFrame ==
    ASSUME Typed, NEW d \in Round, CapOK(d), NEW r \in Request, Frame(r), rounds' = rounds,
           row' \in [Photo -> Nat \cup {NoRow}],
           \A p \in Photo : row'[p] # NoRow => row'[p] = row[p],
           Counted(job'[r]) => RoomFor(r, d)'
    PROVE  CapOK(d)'
<1>1. Used' \in SUBSET Used
    BY DEF Used
<1>2. /\ Cardinality(Used) \in Nat /\ Cardinality(Used') \in Nat
      /\ Cardinality(Used') <= Cardinality(Used)
    BY <1>1, UsedFinite
<1>3. MaxPhotos \in Nat
    BY StorageAssumption
<1>4. rounds'[d] = "deleted" => Used' = {}
    BY <1>1 DEF CapOK
<1>5. Cardinality(Used') <= MaxPhotos
    BY <1>2, <1>3 DEF CapOK
<1>6. ASSUME NEW q \in Request, Counted(job'[q]) PROVE RoomFor(q, d)'
    <2>1. CASE q = r
        BY <1>6, <2>1
    <2>2. CASE q # r
        <3>1. job'[q] = job[q] /\ (lock[d] = q => lock'[d] = q)
            BY <2>2 DEF Frame
        <3>2. RoomFor(q, d)
            BY <1>6, <3>1 DEF CapOK, Counted
        <3>3. SUFFICES ASSUME rounds'[d] # "deleted"
                       PROVE  /\ lock'[d] = q
                              /\ Cardinality(Used') < MaxPhotos
                              /\ job'[q].step = "insert" =>
                                  /\ \A o \in Photo : row'[o] < job'[q].position
                                  /\ \A p \in job'[q].photo : row'[p] = NoRow
            BY DEF RoomFor
        <3>4. lock'[d] = q /\ Cardinality(Used') < MaxPhotos
            BY <1>2, <1>3, <3>1, <3>2, <3>3 DEF RoomFor
        <3>5. job[q].position \in Nat /\ job[q].photo \in SUBSET Photo
            BY JobFacts
        <3>6. ASSUME job'[q].step = "insert", NEW o \in Photo PROVE row'[o] < job'[q].position
            <4>1. row[o] < job[q].position
                BY <3>1, <3>2, <3>3, <3>6 DEF RoomFor
            <4>2. row'[o] = row[o] \/ row'[o] = NoRow
                OBVIOUS
            <4>. QED  BY <3>1, <3>5, <4>1, <4>2 DEF NoRow
        <3>7. ASSUME job'[q].step = "insert", NEW o \in job'[q].photo PROVE row'[o] = NoRow
            BY <3>1, <3>2, <3>3, <3>5, <3>7 DEF RoomFor
        <3>. QED  BY <3>4, <3>6, <3>7
    <2>. QED  BY <2>1, <2>2
<1>. QED  BY <1>4, <1>5, <1>6 DEF CapOK

\* The insertion of a row by a request that has counted.
LEMMA CapInsert ==
    ASSUME Typed, NEW d \in Round, CapOK(d), NEW r \in Request, Frame(r), rounds' = rounds,
           rounds[d] # "deleted", Counted(job[r]), ~Counted(job'[r]),
           NEW p \in Photo, NEW n \in Nat, row' = [row EXCEPT ![p] = n]
    PROVE  CapOK(d)'
<1>1. lock[d] = r /\ Cardinality(Used) < MaxPhotos
    BY DEF CapOK, RoomFor
<1>2. Used' = Used \cup {p}
    BY DEF Used, Typed, RowsOK, NoRow
<1>3. Cardinality(Used') <= MaxPhotos
    <2>1. IsFiniteSet(Used) /\ Cardinality(Used) \in Nat
        BY UsedFinite
    <2>2. Cardinality(Used \cup {p}) <= Cardinality(Used) + 1
        <3>1. \/ Cardinality(Used \cup {p}) = Cardinality(Used)
              \/ Cardinality(Used \cup {p}) = Cardinality(Used) + 1
            BY <2>1, FS_AddElement
        <3>. QED  BY <2>1, <3>1
    <2>3. Cardinality(Used \cup {p}) \in Nat
        BY <2>1, FS_AddElement, FS_CardinalityType
    <2>4. MaxPhotos \in Nat
        BY StorageAssumption
    <2>. QED  BY <1>1, <1>2, <2>1, <2>2, <2>3, <2>4
<1>4. \A q \in Request : ~Counted(job'[q])
    BY <1>1 DEF CapOK, RoomFor, Frame
<1>. QED  BY <1>3, <1>4 DEF CapOK

LEMMA CapStep ==
    ASSUME Typed, Typed', LockedOK, NEW d \in Round, \A p \in Photo : Attached[p] = d,
           CapOK(d), [Next]_vars
    PROVE  CapOK(d)'
<1>. USE DEF Frame
<1>1. ASSUME UNCHANGED <<row, rounds, job, lock>> PROVE CapOK(d)'
    BY <1>1 DEF CapOK, RoomFor, Used, Counted
<1>2. ASSUME NEW r \in Request, Moves(r), Locks(r), rounds' = rounds,
             \A p \in Photo : row'[p] # NoRow => row'[p] = row[p],
             Counted(job'[r]) => RoomFor(r, d)'
      PROVE  CapOK(d)'
    BY <1>2, MovesOthers, LocksOthers, CapFrame DEF Typed, RowsOK
<1>3. ASSUME NEW r \in Request, NEW j, job' = [job EXCEPT ![r] = j], ~Counted(j),
             Locks(r), rounds' = rounds,
             \A p \in Photo : row'[p] # NoRow => row'[p] = row[p]
      PROVE  CapOK(d)'
    <2>1. job'[r] = j /\ \A q \in Request \ {r} : job'[q] = job[q]
        BY <1>3 DEF Typed, JobsOK
    <2>. QED  BY <1>3, <2>1, LocksOthers, CapFrame DEF Typed, RowsOK
<1>4. ~Counted(Idle)
    BY IdleOK DEF Counted
<1>5. ASSUME NEW r \in Request, NEW p \in Photo, ConfirmUpload(r, p) PROVE CapOK(d)'
    <2>. DEFINE j == [Idle EXCEPT !.step = "head", !.photo = {p}]
    <2>1. ~Counted(j)
        BY DEF Counted, Idle
    <2>2. UNCHANGED <<row, rounds, lock>> /\ (job' = job \/ job' = [job EXCEPT ![r] = j])
        BY <1>5 DEF ConfirmUpload, database
    <2>. HIDE DEF j
    <2>. QED  BY <1>1, <1>3, <2>1, <2>2 DEF Locks
<1>6. ASSUME NEW r \in Request, NEW p \in Photo, DeleteCoursePhoto(r, p) PROVE CapOK(d)'
    <2>. DEFINE j == [Idle EXCEPT !.step = "objects", !.keys = {p}]
    <2>1. ~Counted(j)
        BY DEF Counted, Idle
    <2>2. UNCHANGED <<rounds, lock>> /\ job' = [job EXCEPT ![r] = j]
          /\ row' = [row EXCEPT ![p] = NoRow]
        BY <1>6 DEF DeleteCoursePhoto
    <2>3. \A q \in Photo : row'[q] # NoRow => row'[q] = row[q]
        BY <2>2 DEF Typed, RowsOK
    <2>. HIDE DEF j
    <2>. QED  BY <1>3, <2>1, <2>2, <2>3 DEF Locks
<1>7. ASSUME NEW r \in Request, NEW e \in Round, DeleteRound(r, e) PROVE CapOK(d)'
    <2>. DEFINE j == [Idle EXCEPT !.step = "waiting", !.round = e]
    <2>1. ~Counted(j)
        BY DEF Counted, Idle
    <2>2. UNCHANGED <<row, rounds, lock>> /\ job' = [job EXCEPT ![r] = j]
        BY <1>7 DEF DeleteRound, database
    <2>. HIDE DEF j
    <2>. QED  BY <1>3, <2>1, <2>2 DEF Locks
<1>8. ASSUME NEW r \in Request, NEW q \in Request, BreakDeadlock(r, q) PROVE CapOK(d)'
    <2>1. UNCHANGED <<row, rounds>>
        BY <1>8 DEF BreakDeadlock, database
    <2>2. CASE Goes(r, "broken") /\ lock' = Unlocked(r)
        BY <1>2, <2>1, <2>2, MovesAnswers DEF Moves, Locks, Step, Counted
    <2>3. CASE Ends(q) /\ lock' = lock
        BY <1>2, <1>4, <2>1, <2>3, MovesAnswers DEF Moves, Locks
    <2>. QED  BY <1>8, <2>2, <2>3 DEF BreakDeadlock
<1>9. ASSUME NEW r \in Request, HeadObject(r) PROVE CapOK(d)'
    <2>1. UNCHANGED <<row, rounds, lock>>
        BY <1>9 DEF HeadObject, database
    <2>2. Goes(r, "lock") \/ Ends(r)
        BY <1>9, JobFacts, StorageAssumption DEF HeadObject
    <2>. QED  BY <1>2, <1>4, <2>1, <2>2, MovesAnswers DEF Moves, Locks, Step, Counted
<1>10. ASSUME NEW r \in Request, LockRound(r) PROVE CapOK(d)'
    <2>1. UNCHANGED <<row, rounds>> /\ lock[d] = NoRequest
        BY <1>10, JobFacts DEF LockRound, database
    <2>2. \/ Ends(r) /\ lock' = lock
          \/ /\ Goes(r, "promote") /\ ~Full(d)
             /\ lock' = IF d \in Kept THEN [lock EXCEPT ![d] = r] ELSE lock
        BY <1>10, JobFacts DEF LockRound
    <2>3. CASE Ends(r) /\ lock' = lock
        BY <1>2, <1>4, <2>1, <2>3, MovesAnswers DEF Moves, Locks
    <2>4. CASE /\ Goes(r, "promote") /\ ~Full(d)
               /\ lock' = IF d \in Kept THEN [lock EXCEPT ![d] = r] ELSE lock
        <3>1. PhotosOf(d) = Used /\ Used' = Used
            BY <2>1 DEF PhotosOf, Used, Present
        <3>2. Cardinality(Used) < MaxPhotos
            BY <2>4, <3>1, UsedFinite, StorageAssumption DEF Full
        <3>3. rounds[d] # "deleted" => lock'[d] = r
            BY <2>4 DEF Kept, Typed, RowsOK
        <3>4. job'[r].step = "promote"
            BY <2>4, MovesAnswers DEF Step
        <3>5. RoomFor(r, d)'
            BY <2>1, <3>1, <3>2, <3>3, <3>4 DEF RoomFor
        <3>6. Moves(r) /\ Locks(r)
            BY <2>1, <2>4 DEF Moves, Locks, Step
        <3>. QED  BY <1>2, <2>1, <3>5, <3>6
    <2>. QED  BY <2>2, <2>3, <2>4
<1>11. ASSUME NEW r \in Request, PromoteObject(r) PROVE CapOK(d)'
    <2>1. UNCHANGED <<row, rounds>> /\ job[r].step = "promote"
        BY <1>11 DEF PromoteObject, database
    <2>2. (Goes(r, "position") /\ lock' = lock) \/ (Ends(r) /\ lock' = Unlocked(r))
        BY <1>11 DEF PromoteObject
    <2>3. CASE Ends(r) /\ lock' = Unlocked(r)
        BY <1>2, <1>4, <2>1, <2>3, MovesAnswers DEF Moves, Locks
    <2>4. CASE Goes(r, "position") /\ lock' = lock
        <3>1. job'[r].step = "position"
            BY <2>4, MovesAnswers DEF Step
        <3>2. RoomFor(r, d)
            BY <2>1 DEF CapOK, Counted
        <3>3. RoomFor(r, d)'
            BY <2>1, <2>4, <3>1, <3>2 DEF RoomFor, Used
        <3>. QED  BY <1>2, <2>1, <2>4, <3>3 DEF Moves, Locks, Step
    <2>. QED  BY <2>2, <2>3, <2>4
<1>12. ASSUME NEW r \in Request, ReadPosition(r) PROVE CapOK(d)'
    <2>. DEFINE j == [job[r] EXCEPT !.step = "insert", !.position = NextPosition]
    <2>1. UNCHANGED <<row, rounds>> /\ job[r].step = "position"
        BY <1>12 DEF ReadPosition, database
    <2>2. PICK p \in Photo : job[r].photo = {p}
        BY <2>1, JobFacts DEF JobOK, Confirming
    <2>3. \/ Ends(r) /\ lock' = Unlocked(r)
          \/ ~Present(p) /\ job' = [job EXCEPT ![r] = j] /\ lock' = lock
        BY <1>12, <2>2 DEF ReadPosition
    <2>4. CASE Ends(r) /\ lock' = Unlocked(r)
        BY <1>2, <1>4, <2>1, <2>4, MovesAnswers DEF Moves, Locks
    <2>5. CASE ~Present(p) /\ job' = [job EXCEPT ![r] = j] /\ lock' = lock
        <3>1. j.step = "insert" /\ j.position = NextPosition /\ j.photo = {p}
            BY <2>2, JobFacts DEF Job
        <3>. HIDE DEF j
        <3>2. job'[r] = j /\ \A q \in Request \ {r} : job'[q] = job[q]
            BY <2>5 DEF Typed, JobsOK
        <3>3. RoomFor(r, d)
            BY <2>1 DEF CapOK, Counted
        <3>4. \A q \in Photo : row[q] < NextPosition
            BY NextPositionLemma DEF Typed, RowsOK
        <3>5. RoomFor(r, d)'
            BY <2>1, <2>5, <3>1, <3>2, <3>3, <3>4 DEF RoomFor, Used, Present
        <3>. QED  BY <2>1, <2>5, <3>2, <3>5, CapFrame DEF Typed, RowsOK
    <2>. QED  BY <2>3, <2>4, <2>5
<1>13. ASSUME NEW r \in Request, Counted(job[r]), Moves(r), lock' = Unlocked(r), rounds' = rounds,
              NEW p \in Photo, job[r].photo = {p}, ~Conflicts(p, job[r].position),
              row' = [row EXCEPT ![p] = job[r].position], ~Counted(job'[r])
       PROVE  CapOK(d)'
    <2>1. rounds[d] # "deleted"
        BY <1>13, StorageAssumption DEF Conflicts, Kept
    <2>2. job[r].position \in Nat
        BY JobFacts
    <2>3. Frame(r)
        BY <1>13, MovesOthers, LocksOthers DEF Locks
    <2>. HIDE DEF Frame
    <2>. QED  BY <1>13, <2>1, <2>2, <2>3, CapInsert
<1>14. ASSUME NEW r \in Request, InsertRow(r) PROVE CapOK(d)'
    <2>1. rounds' = rounds /\ lock' = Unlocked(r) /\ job[r].step = "insert"
        BY <1>14 DEF InsertRow
    <2>2. PICK p \in Photo : job[r].photo = {p}
        BY <2>1, JobFacts DEF JobOK, Confirming
    <2>3. \/ ~Conflicts(p, job[r].position) /\ row' = [row EXCEPT ![p] = job[r].position] /\ Ends(r)
          \/ Conflicts(p, job[r].position) /\ row' = row /\ (Ends(r) \/ TryAgain(r))
        BY <1>14, <2>2 DEF InsertRow
    <2>4. CASE ~Conflicts(p, job[r].position) /\ row' = [row EXCEPT ![p] = job[r].position] /\ Ends(r)
        BY <1>4, <1>13, <2>1, <2>2, <2>4, MovesAnswers DEF Counted, Moves
    <2>5. CASE row' = row /\ Ends(r)
        BY <1>2, <1>4, <2>1, <2>5, MovesAnswers DEF Moves, Locks
    <2>6. CASE Conflicts(p, job[r].position) /\ row' = row /\ TryAgain(r)
        <3>1. RoomFor(r, d)
            BY <2>1 DEF CapOK, Counted
        <3>2. ASSUME rounds[d] # "deleted" PROVE FALSE
            <4>1. \A q \in Photo : row[q] \in Int /\ row[q] < job[r].position
                BY <2>1, <3>1, <3>2 DEF RoomFor, Typed, RowsOK, NoRow
            <4>2. \A q \in Photo : row[q] # job[r].position
                BY <4>1
            <4>3. row[p] = NoRow
                BY <2>1, <2>2, <3>1, <3>2 DEF RoomFor
            <4>4. d \in Kept
                BY <3>2 DEF Kept
            <4>. QED  BY <2>6, <4>2, <4>3, <4>4 DEF Conflicts, Present
        <3>3. RoomFor(r, d)'
            BY <2>1, <3>2 DEF RoomFor
        <3>. QED  BY <1>2, <2>1, <2>6, <3>3 DEF Moves, Locks
    <2>. QED  BY <2>3, <2>4, <2>5, <2>6
<1>15. ASSUME NEW r \in Request, InsertFails(r) PROVE CapOK(d)'
    <2>1. rounds' = rounds /\ lock' = Unlocked(r) /\ job[r].step = "insert" /\ Goes(r, "broken")
        BY <1>15 DEF InsertFails
    <2>2. PICK p \in Photo : job[r].photo = {p}
        BY <2>1, JobFacts DEF JobOK, Confirming
    <2>3. \/ ~Conflicts(p, job[r].position) /\ row' = [row EXCEPT ![p] = job[r].position]
          \/ row' = row
        BY <1>15, <2>2 DEF InsertFails
    <2>4. ~Counted(job'[r]) /\ Counted(job[r]) /\ Moves(r) /\ Locks(r)
        BY <2>1, MovesAnswers DEF Counted, Step, Moves, Locks
    <2>. QED  BY <1>2, <1>13, <2>1, <2>2, <2>3, <2>4
<1>16. ASSUME NEW r \in Request, Cleanup(r) PROVE CapOK(d)'
    BY <1>2, <1>4, <1>16, MovesAnswers DEF Cleanup, Moves, Locks
<1>17. ASSUME NEW r \in Request, CollectPhotos(r) PROVE CapOK(d)'
    <2>. DEFINE e == job[r].round
                j == [job[r] EXCEPT !.step = "locked", !.keys = PhotosOf(e)]
    <2>1. CASE e \notin Kept
        BY <1>2, <1>4, <1>17, <2>1, MovesAnswers DEF CollectPhotos, database, Moves, Locks
    <2>2. CASE e \in Kept
        <3>1. /\ lock[e] = NoRequest /\ lock' = [lock EXCEPT ![e] = r]
              /\ job' = [job EXCEPT ![r] = j] /\ row' = row /\ rounds' = rounds
            BY <1>17, <2>2 DEF CollectPhotos, database
        <3>2. e \in Round
            BY <2>2 DEF Kept
        <3>3. ~Counted(j)
            BY JobFacts DEF Job, Counted
        <3>. HIDE DEF e, j
        <3>. QED  BY <1>3, <3>1, <3>2, <3>3 DEF Locks
    <2>. QED  BY <2>1, <2>2
<1>18. ASSUME NEW r \in Request, DeleteRoundCommits(r) PROVE CapOK(d)'
    <2>1. /\ rounds' = [rounds EXCEPT ![job[r].round] = "deleted"]
          /\ row' = [p \in Photo |-> IF Attached[p] = job[r].round THEN NoRow ELSE row[p]]
          /\ lock' = Unlocked(r) /\ Goes(r, "objects") /\ job[r].step = "locked"
        BY <1>18 DEF DeleteRoundCommits
    <2>2. \A q \in Request \ {r} : job'[q] = job[q]
        BY <2>1, MovesOthers DEF Moves, Step
    <2>3. ~Counted(job'[r])
        BY <2>1, MovesAnswers DEF Counted, Step
    <2>4. CASE job[r].round = d
        <3>1. rounds'[d] = "deleted" /\ Used' = {}
            BY <2>1, <2>4 DEF Used, Typed, RowsOK
        <3>2. Cardinality(Used') <= MaxPhotos
            BY <3>1, FS_EmptySet, StorageAssumption
        <3>. QED  BY <3>1, <3>2 DEF CapOK, RoomFor
    <2>5. CASE job[r].round # d
        <3>1. rounds'[d] = rounds[d]
            BY <2>1, <2>5 DEF Typed, RowsOK
        <3>2. row' = row
            BY <2>1, <2>5 DEF Typed, RowsOK
        <3>3. Used' = Used
            BY <3>2 DEF Used
        <3>4. \A q \in Request \ {r} : lock[d] = q => lock'[d] = q
            BY <2>1, LocksOthers DEF Locks
        <3>5. ASSUME NEW q \in Request, Counted(job'[q]) PROVE RoomFor(q, d)'
            <4>1. job'[q] = job[q] /\ q # r
                BY <2>2, <2>3, <3>5
            <4>2. RoomFor(q, d)
                BY <3>5, <4>1 DEF CapOK, Counted
            <4>. QED  BY <3>1, <3>2, <3>3, <3>4, <4>1, <4>2 DEF RoomFor
        <3>. QED  BY <3>1, <3>3, <3>5 DEF CapOK
    <2>. QED  BY <2>4, <2>5
<1>19. ASSUME NEW r \in Request, DeleteObject(r) PROVE CapOK(d)'
    <2>1. PICK p \in job[r].keys :
            \/ job' = [job EXCEPT ![r] = [job[r] EXCEPT !.keys = @ \ {p}]]
            \/ job' = [job EXCEPT ![r] = [job[r] EXCEPT !.keys = @ \ {p}, !.missed = @ \cup {p}]]
        BY <1>19 DEF DeleteObject
    <2>2. /\ ~Counted([job[r] EXCEPT !.keys = @ \ {p}])
          /\ ~Counted([job[r] EXCEPT !.keys = @ \ {p}, !.missed = @ \cup {p}])
        BY <1>19, JobFacts DEF DeleteObject, Job, Counted
    <2>3. Locks(r) /\ row' = row /\ rounds' = rounds
        BY <1>19 DEF DeleteObject, Locks, database
    <2>. QED  BY <1>3, <2>1, <2>2, <2>3
<1>20. ASSUME NEW r \in Request, RecordMissed(r) PROVE CapOK(d)'
    BY <1>2, <1>4, <1>20, MovesAnswers DEF RecordMissed, Moves, Locks
<1>21. ASSUME NEW r \in Request, Crash(r) PROVE CapOK(d)'
    BY <1>2, <1>4, <1>21, MovesAnswers DEF Crash, database, Moves, Locks
<1>22. ASSUME NEW p \in Photo, RetryDeletion(p) \/ DiscardUpload(p) \/ PendingExpires(p) PROVE CapOK(d)'
    BY <1>1, <1>22 DEF RetryDeletion, DiscardUpload, PendingExpires, database
<1>23. ASSUME RetryCommits PROVE CapOK(d)'
    BY <1>1, <1>23 DEF RetryCommits
<1>24. ASSUME UNCHANGED vars PROVE CapOK(d)'
    BY <1>1, <1>24 DEF vars
<1>. HIDE DEF Frame
<1>. QED
    BY <1>5, <1>6, <1>7, <1>8, <1>9, <1>10, <1>11, <1>12, <1>14, <1>15,
       <1>16, <1>17, <1>18, <1>19, <1>20, <1>21, <1>22, <1>23, <1>24 DEF Next

\* The photos of a round never exceed the cap, however confirms, deletions and
\* failures interleave, as long as all the photos of the course are for it.
THEOREM RoundCapInOneRound ==
    ASSUME NEW d \in Round, \A p \in Photo : Attached[p] = d
    PROVE  Spec => []RoundCap
<1>1. Init => LockedOK /\ CapOK(d)
    <2>1. SUFFICES ASSUME Init PROVE LockedOK /\ CapOK(d)
        OBVIOUS
    <2>2. Used = {} /\ \A r \in Request : ~Counted(job[r])
        BY <2>1, IdleOK DEF Init, Used, Counted
    <2>. QED  BY <2>1, <2>2, IdleOK, FS_EmptySet, StorageAssumption DEF Init, LockedOK, CapOK
<1>2. Typed /\ Typed' /\ LockedOK /\ CapOK(d) /\ [Next]_vars => LockedOK' /\ CapOK(d)'
    BY LockedStep, CapStep
<1>3. Typed /\ CapOK(d) => RoundCap
    <2>1. SUFFICES ASSUME Typed, CapOK(d), NEW e \in Round
                   PROVE  Cardinality(PhotosOf(e)) <= MaxPhotos
        BY DEF RoundCap
    <2>2. CASE e = d
        <3>1. PhotosOf(e) = Used
            BY <2>2 DEF PhotosOf, Used, Present
        <3>. QED  BY <2>1, <3>1 DEF CapOK
    <2>3. CASE e # d
        <3>1. PhotosOf(e) = {}
            BY <2>3 DEF PhotosOf
        <3>. QED  BY <3>1, FS_EmptySet, StorageAssumption
    <2>. QED  BY <2>2, <2>3
<1>. QED  BY <1>1, <1>2, <1>3, AlwaysTyped, PTL DEF Spec

-----------------------------------------------------------------------------
(***************************************************************************)
(* A row has its object.                                                   *)
(***************************************************************************)

\* A photo that nothing unanswered has hit, and that the client has confirmed once at most.
Once(p) == p \notin mishaps /\ confirms[p] <= 1
Confirms(r, p) == p \in job[r].photo
Deletes(r, p) == p \in job[r].keys \cup job[r].missed

\* One request at most handles its confirm, and until it is over no deletion knows the photo.
Sole(p) ==
    /\ \A q, r \in Request : Confirms(q, p) /\ Confirms(r, p) => q = r
    /\ confirms[p] = 0 => \A r \in Request : ~Confirms(r, p)
Waits(p) == confirms[p] = 0 \/ \E r \in Request : Confirms(r, p)
Untouched(p) == ~Present(p) /\ failed[p] = 0 /\ \A r \in Request : ~Deletes(r, p)

\* The object is there from the copy to the row, and as long as there is the row: whoever
\* deletes it has deleted the row first.
Backed(p) ==
    /\ p \in stored /\ failed[p] = 0
    /\ \A r \in Request : job[r].step = "objects" => ~Deletes(r, p)
Copied(p) == \A r \in Request : Confirms(r, p) /\ job[r].step \in {"position", "insert"} => p \in stored

OnceInv(p) == Sole(p) /\ (Waits(p) => Untouched(p)) /\ Copied(p) /\ (Present(p) => Backed(p))
OnceOK == \A p \in Photo : Once(p) => OnceInv(p)

\* A deletion of a round has the keys of its photos.
OwnKeys == \A r \in Request : job[r].step = "locked" => \A p \in job[r].keys : Attached[p] = job[r].round

LEMMA OwnKeysStep == ASSUME Typed, OwnKeys, [Next]_vars PROVE OwnKeys'
<1>1. ASSUME NEW r \in Request, Moves(r), job[r].step # "locked" PROVE OwnKeys'
    BY <1>1, MovesOthers, MovesNotLocked DEF OwnKeys
<1>2. ASSUME NEW r \in Request, NEW j, job' = [job EXCEPT ![r] = j],
             j.step = "locked" => \A p \in j.keys : Attached[p] = j.round
      PROVE  OwnKeys'
    <2>1. job'[r] = j /\ \A q \in Request \ {r} : job'[q] = job[q]
        BY <1>2 DEF Typed, JobsOK
    <2>. QED  BY <1>2, <2>1 DEF OwnKeys
<1>3. ASSUME UNCHANGED job PROVE OwnKeys'
    BY <1>3 DEF OwnKeys
<1>4. ASSUME NEW r \in Request, Ends(r) PROVE OwnKeys'
    BY <1>2, <1>4, IdleOK DEF Ends
<1>5. ASSUME NEW r \in Request, NEW p \in Photo, ConfirmUpload(r, p) PROVE OwnKeys'
    <2>1. [Idle EXCEPT !.step = "head", !.photo = {p}].step # "locked"
        BY DEF Idle
    <2>. QED  BY <1>2, <1>3, <1>5, <2>1 DEF ConfirmUpload
<1>6. ASSUME NEW r \in Request, NEW p \in Photo, DeleteCoursePhoto(r, p) PROVE OwnKeys'
    <2>1. [Idle EXCEPT !.step = "objects", !.keys = {p}].step # "locked"
        BY DEF Idle
    <2>. QED  BY <1>2, <1>6, <2>1 DEF DeleteCoursePhoto
<1>7. ASSUME NEW r \in Request, NEW d \in Round, DeleteRound(r, d) PROVE OwnKeys'
    <2>1. [Idle EXCEPT !.step = "waiting", !.round = d].step # "locked"
        BY DEF Idle
    <2>. QED  BY <1>2, <1>7, <2>1 DEF DeleteRound
<1>8. ASSUME NEW r \in Request, NEW q \in Request, BreakDeadlock(r, q) PROVE OwnKeys'
    BY <1>1, <1>8 DEF BreakDeadlock, Deadlocked, Moves, Step
<1>9. ASSUME NEW r \in Request,
             HeadObject(r) \/ LockRound(r) \/ PromoteObject(r) \/ InsertRow(r) \/ InsertFails(r) \/ Cleanup(r)
             \/ RecordMissed(r) \/ Crash(r)
      PROVE  OwnKeys'
    <2>1. CASE HeadObject(r)
        BY <1>1, <2>1 DEF HeadObject, Moves, Step
    <2>2. CASE LockRound(r)
        BY <1>1, <2>2 DEF LockRound, Moves, Step
    <2>3. CASE PromoteObject(r)
        BY <1>1, <2>3 DEF PromoteObject, Moves, Step
    <2>4. CASE InsertRow(r)
        BY <1>1, <2>4 DEF InsertRow, Moves
    <2>5. CASE InsertFails(r)
        BY <1>1, <2>5 DEF InsertFails, Moves, Step
    <2>6. CASE Cleanup(r) \/ RecordMissed(r) \/ Crash(r)
        BY <1>4, <2>6 DEF Cleanup, RecordMissed, Crash
    <2>. QED  BY <1>9, <2>1, <2>2, <2>3, <2>4, <2>5, <2>6
<1>10. ASSUME NEW r \in Request, ReadPosition(r) PROVE OwnKeys'
    <2>. DEFINE j == [job[r] EXCEPT !.step = "insert", !.position = NextPosition]
    <2>1. j.step = "insert"
        BY JobFacts DEF Job
    <2>2. Ends(r) \/ job' = [job EXCEPT ![r] = j]
        BY <1>10 DEF ReadPosition
    <2>. HIDE DEF j
    <2>. QED  BY <1>2, <1>4, <2>1, <2>2
<1>11. ASSUME NEW r \in Request, CollectPhotos(r) PROVE OwnKeys'
    <2>. DEFINE j == [job[r] EXCEPT !.step = "locked", !.keys = PhotosOf(job[r].round)]
    <2>1. j.round = job[r].round /\ j.keys = PhotosOf(job[r].round)
        BY JobFacts DEF Job
    <2>2. \A p \in j.keys : Attached[p] = j.round
        BY <2>1 DEF PhotosOf
    <2>3. Ends(r) \/ job' = [job EXCEPT ![r] = j]
        BY <1>11 DEF CollectPhotos
    <2>. HIDE DEF j
    <2>. QED  BY <1>2, <1>4, <2>2, <2>3
<1>12. ASSUME NEW r \in Request, DeleteRoundCommits(r) PROVE OwnKeys'
    <2>. DEFINE j == [job[r] EXCEPT !.step = "objects"]
    <2>1. j.step = "objects"
        BY JobFacts DEF Job
    <2>2. job' = [job EXCEPT ![r] = j]
        BY <1>12 DEF DeleteRoundCommits, Goes
    <2>. HIDE DEF j
    <2>. QED  BY <1>2, <2>1, <2>2
<1>13. ASSUME NEW r \in Request, DeleteObject(r) PROVE OwnKeys'
    <2>1. PICK p \in job[r].keys :
            \/ job' = [job EXCEPT ![r] = [job[r] EXCEPT !.keys = @ \ {p}]]
            \/ job' = [job EXCEPT ![r] = [job[r] EXCEPT !.keys = @ \ {p}, !.missed = @ \cup {p}]]
        BY <1>13 DEF DeleteObject
    <2>2. /\ [job[r] EXCEPT !.keys = @ \ {p}].step = "objects"
          /\ [job[r] EXCEPT !.keys = @ \ {p}, !.missed = @ \cup {p}].step = "objects"
        BY <1>13, JobFacts DEF DeleteObject, Job
    <2>. QED  BY <1>2, <2>1, <2>2
<1>14. ASSUME NEW p \in Photo, RetryDeletion(p) \/ DiscardUpload(p) \/ PendingExpires(p) PROVE OwnKeys'
    BY <1>3, <1>14 DEF RetryDeletion, DiscardUpload, PendingExpires
<1>15. ASSUME RetryCommits PROVE OwnKeys'
    BY <1>3, <1>15 DEF RetryCommits
<1>16. ASSUME UNCHANGED vars PROVE OwnKeys'
    BY <1>3, <1>16 DEF vars
<1>. QED
    BY <1>5, <1>6, <1>7, <1>8, <1>9, <1>10, <1>11, <1>12, <1>13, <1>14, <1>15, <1>16 DEF Next

LEMMA OnceBefore ==
    ASSUME Typed, [Next]_vars, NEW p \in Photo, Once(p)'
    PROVE  Once(p)
<1>1. confirms[p] \in Nat /\ confirms'[p] \in {confirms[p], confirms[p] + 1} /\ mishaps \subseteq mishaps'
    <2>1. confirms[p] \in Nat
        BY StorageAssumption DEF Typed, RowsOK
    <2>2. CASE UNCHANGED history
        BY <2>1, <2>2 DEF history
    <2>3. ASSUME NEW r \in Request, NEW q \in Photo, ConfirmUpload(r, q)
          PROVE  confirms'[p] \in {confirms[p], confirms[p] + 1} /\ mishaps' = mishaps
        BY <2>1, <2>3 DEF ConfirmUpload, Typed, RowsOK
    <2>4. ASSUME NEW r \in Request, PromoteObject(r) \/ InsertFails(r) \/ Cleanup(r) \/ Crash(r)
          PROVE  confirms' = confirms /\ mishaps \subseteq mishaps'
        BY <2>4 DEF PromoteObject, InsertFails, Cleanup, Crash
    <2>5. ASSUME NEW q \in Photo, RetryDeletion(q) PROVE UNCHANGED <<confirms, mishaps>>
        BY <2>5 DEF RetryDeletion
    <2>6. ASSUME RetryCommits PROVE UNCHANGED <<confirms, mishaps>>
        BY <2>6 DEF RetryCommits
    <2>7. CASE UNCHANGED vars
        BY <2>2, <2>7 DEF vars, history
    <2>8. ASSUME NEW r \in Request, NEW q \in Photo, DeleteCoursePhoto(r, q) PROVE UNCHANGED history
        BY <2>8 DEF DeleteCoursePhoto
    <2>9. ASSUME NEW r \in Request, NEW d \in Round, DeleteRound(r, d) PROVE UNCHANGED history
        BY <2>9 DEF DeleteRound
    <2>10. ASSUME NEW r \in Request, NEW q \in Request, BreakDeadlock(r, q) PROVE UNCHANGED history
        BY <2>10 DEF BreakDeadlock
    <2>11. ASSUME NEW r \in Request,
                  HeadObject(r) \/ LockRound(r) \/ ReadPosition(r) \/ InsertRow(r) \/ CollectPhotos(r)
                  \/ DeleteRoundCommits(r) \/ DeleteObject(r) \/ RecordMissed(r)
           PROVE  UNCHANGED history
        BY <2>11 DEF HeadObject, LockRound, ReadPosition, InsertRow, CollectPhotos, DeleteRoundCommits,
                     DeleteObject, RecordMissed
    <2>12. ASSUME NEW q \in Photo, DiscardUpload(q) \/ PendingExpires(q) PROVE UNCHANGED history
        BY <2>12 DEF DiscardUpload, PendingExpires
    <2>. QED
        BY <2>1, <2>2, <2>3, <2>4, <2>5, <2>6, <2>7, <2>8, <2>9, <2>10, <2>11, <2>12 DEF Next
<1>. QED  BY <1>1 DEF Once

\* A step of request r that takes nothing from the photo but perhaps its row.
LEMMA OnceKept ==
    ASSUME Typed, NEW p \in Photo, OnceInv(p), NEW r \in Request, NEW w,
           job' = [job EXCEPT ![r] = w], confirms'[p] = confirms[p], failed'[p] = failed[p],
           p \in stored => p \in stored',
           p \in w.photo => Confirms(r, p),
           p \in w.photo /\ w.step \in {"position", "insert"} => p \in stored',
           p \in w.keys \cup w.missed => Deletes(r, p) \/ Present(p),
           p \in w.keys \cup w.missed /\ w.step = "objects" => ~Present(p)',
           Present(p)' => Present(p) \/ (Confirms(r, p) /\ p \in stored' /\ p \notin w.photo)
    PROVE  OnceInv(p)'
<1>1. job'[r] = w /\ \A q \in Request \ {r} : job'[q] = job[q]
    BY DEF Typed, JobsOK
<1>2. \A q \in Request : Confirms(q, p)' => Confirms(q, p)
    BY <1>1 DEF Confirms
<1>3. Sole(p)'
    BY <1>2 DEF OnceInv, Sole
<1>4. Copied(p)'
    BY <1>1, <1>2 DEF OnceInv, Copied, Confirms
<1>5. ASSUME Waits(p)' PROVE Untouched(p)'
    <2>1. Waits(p)
        BY <1>2, <1>5 DEF Waits
    <2>2. Untouched(p)
        BY <2>1 DEF OnceInv
    <2>3. ~Present(p)'
        <3>1. CASE confirms[p] = 0
            BY <2>2, <3>1 DEF OnceInv, Sole, Untouched
        <3>2. ASSUME NEW q \in Request, Confirms(q, p)' PROVE ~Present(p)'
            BY <1>1, <1>2, <2>2, <3>2 DEF OnceInv, Sole, Untouched, Confirms
        <3>. QED  BY <1>5, <3>1, <3>2 DEF Waits
    <2>4. \A q \in Request : ~Deletes(q, p)'
        BY <1>1, <2>2 DEF Untouched, Deletes
    <2>. QED  BY <2>2, <2>3, <2>4 DEF Untouched
<1>6. ASSUME Present(p)' PROVE Backed(p)'
    <2>1. p \in stored' /\ failed'[p] = 0 /\ \A q \in Request : job[q].step = "objects" => ~Deletes(q, p)
        <3>1. CASE Present(p)
            BY <3>1 DEF OnceInv, Backed
        <3>2. CASE Confirms(r, p) /\ p \in stored'
            BY <3>2 DEF OnceInv, Waits, Untouched
        <3>. QED  BY <1>6, <3>1, <3>2
    <2>2. \A q \in Request : job'[q].step = "objects" => ~Deletes(q, p)'
        BY <1>1, <1>6, <2>1 DEF Deletes
    <2>. QED  BY <2>1, <2>2 DEF Backed
<1>. QED  BY <1>3, <1>4, <1>5, <1>6 DEF OnceInv

\* A photo that nobody will ever insert a row for.
LEMMA OnceOver ==
    ASSUME NEW p \in Photo, confirms[p] = 1, ~Present(p), \A r \in Request : ~Confirms(r, p)
    PROVE  OnceInv(p)
BY DEF OnceInv, Sole, Waits, Copied

\* The object and the records of a photo are taken up by nobody else.
LEMMA OnceDeleted ==
    ASSUME NEW p \in Photo, Typed, Once(p), OnceInv(p),
           failed[p] > 0 \/ \E r \in Request : job[r].step = "objects" /\ Deletes(r, p)
    PROVE  confirms[p] = 1 /\ ~Present(p) /\ \A r \in Request : ~Confirms(r, p)
<1>1. confirms[p] \in Nat
    BY StorageAssumption DEF Typed, RowsOK
<1>2. ~Waits(p) /\ ~Present(p)
    BY DEF OnceInv, Untouched, Backed
<1>. QED  BY <1>1, <1>2 DEF Once, Waits

\* The jobs that a step may leave for request r, as the photo sees them.
LEMMA OnceEnds ==
    ASSUME Typed, NEW p \in Photo, OnceInv(p), NEW r \in Request, Ends(r),
           UNCHANGED <<stored, row, failed, confirms>>
    PROVE  OnceInv(p)'
BY IdleOK, OnceKept DEF Ends, Present

LEMMA OnceGoes ==
    ASSUME Typed, NEW p \in Photo, OnceInv(p), NEW r \in Request, NEW s \in Step, Goes(r, s),
           UNCHANGED <<row, failed, confirms>>, p \in stored => p \in stored',
           p \in job[r].photo /\ s \in {"position", "insert"} => p \in stored', s # "objects"
    PROVE  OnceInv(p)'
<1>. DEFINE w == [job[r] EXCEPT !.step = s]
<1>1. w.step = s /\ w.photo = job[r].photo /\ w.keys = job[r].keys /\ w.missed = job[r].missed
    BY JobFacts DEF Job
<1>2. job' = [job EXCEPT ![r] = w]
    BY DEF Goes
<1>. HIDE DEF w
<1>. QED  BY <1>1, <1>2, OnceKept DEF Present, Confirms, Deletes

LEMMA OnceStep == ASSUME Typed, Typed', OwnKeys, OnceOK, [Next]_vars PROVE OnceOK'
<1>. SUFFICES ASSUME NEW p \in Photo, Once(p)' PROVE OnceInv(p)'
    BY DEF OnceOK
<1>1. Once(p) /\ OnceInv(p)
    BY OnceBefore DEF OnceOK
<1>2. ASSUME UNCHANGED <<stored, row, failed, confirms, job>> PROVE OnceInv(p)'
    BY <1>1, <1>2 DEF OnceInv, Sole, Waits, Untouched, Copied, Backed, Present, Confirms, Deletes
<1>3. ASSUME UNCHANGED <<row, confirms>>,
             failed[p] > 0 \/ (\E r \in Request : job[r].step = "objects" /\ Deletes(r, p)),
             \A r \in Request : Confirms(r, p)' => Confirms(r, p)
      PROVE  OnceInv(p)'
    <2>1. confirms[p] = 1 /\ ~Present(p) /\ \A r \in Request : ~Confirms(r, p)
        BY <1>1, <1>3, OnceDeleted
    <2>2. confirms'[p] = 1 /\ ~Present(p)' /\ \A r \in Request : ~Confirms(r, p)'
        BY <1>3, <2>1 DEF Present
    <2>. QED  BY <2>2 DEF OnceInv, Sole, Waits, Copied
<1>4. ASSUME NEW r \in Request, NEW q \in Photo, ConfirmUpload(r, q) PROVE OnceInv(p)'
    <2>. DEFINE w == [Idle EXCEPT !.step = "head", !.photo = {q}]
    <2>1. w.step = "head" /\ w.photo = {q} /\ w.keys = {} /\ w.missed = {}
        BY IdleOK DEF Idle
    <2>2. /\ UNCHANGED <<stored, row, failed>>
          /\ confirms' = [confirms EXCEPT ![q] = @ + 1]
          /\ job' = IF Present(q) THEN job ELSE [job EXCEPT ![r] = w]
        BY <1>4 DEF ConfirmUpload, objects, database
    <2>3. job[r] = Idle
        BY <1>4 DEF ConfirmUpload
    <2>. HIDE DEF w
    <2>4. CASE q # p
        <3>1. confirms'[p] = confirms[p]
            BY <2>2, <2>4 DEF Typed, RowsOK
        <3>2. CASE Present(q)
            BY <1>1, <2>2, <3>1, <3>2
               DEF OnceInv, Sole, Waits, Untouched, Copied, Backed, Present, Confirms, Deletes
        <3>3. CASE ~Present(q)
            BY <1>1, <2>1, <2>2, <2>4, <3>1, <3>3, OnceKept DEF Present
        <3>. QED  BY <3>2, <3>3
    <2>5. CASE q = p
        <3>1. confirms[p] = 0 /\ confirms'[p] = 1
            <4>1. confirms[p] \in Nat /\ confirms'[p] = confirms[p] + 1
                BY <2>2, <2>5, StorageAssumption DEF Typed, RowsOK
            <4>. QED  BY <4>1 DEF Once
        <3>2. Untouched(p) /\ \A i \in Request : ~Confirms(i, p)
            BY <1>1, <3>1 DEF OnceInv, Sole, Waits
        <3>3. job' = [job EXCEPT ![r] = w]
            BY <2>2, <2>5, <3>2 DEF Untouched
        <3>4. job'[r] = w /\ \A i \in Request \ {r} : job'[i] = job[i]
            BY <3>3 DEF Typed, JobsOK
        <3>5. \A i \in Request : Confirms(i, p)' => i = r
            BY <3>2, <3>4 DEF Confirms
        <3>6. Sole(p)' /\ Copied(p)'
            BY <2>1, <3>1, <3>4, <3>5 DEF Sole, Copied
        <3>7. Untouched(p)'
            BY <2>1, <2>2, <3>2, <3>4 DEF Untouched, Present, Deletes
        <3>. QED  BY <3>6, <3>7 DEF OnceInv, Untouched
    <2>. QED  BY <2>4, <2>5
<1>5. ASSUME NEW r \in Request, NEW q \in Photo, DeleteCoursePhoto(r, q) PROVE OnceInv(p)'
    <2>. DEFINE w == [Idle EXCEPT !.step = "objects", !.keys = {q}]
    <2>1. w.step = "objects" /\ w.photo = {} /\ w.keys = {q} /\ w.missed = {}
        BY IdleOK DEF Idle
    <2>2. /\ UNCHANGED <<stored, failed, confirms>> /\ Present(q)
          /\ row' = [row EXCEPT ![q] = NoRow] /\ job' = [job EXCEPT ![r] = w]
        BY <1>5 DEF DeleteCoursePhoto, objects, history
    <2>3. (p = q => ~Present(p)') /\ (Present(p)' => Present(p))
        BY <2>2 DEF Present, Typed, RowsOK
    <2>. HIDE DEF w
    <2>. QED  BY <1>1, <2>1, <2>2, <2>3, OnceKept
<1>6. ASSUME NEW r \in Request, NEW d \in Round, DeleteRound(r, d) PROVE OnceInv(p)'
    <2>. DEFINE w == [Idle EXCEPT !.step = "waiting", !.round = d]
    <2>1. w.step = "waiting" /\ w.photo = {} /\ w.keys = {} /\ w.missed = {}
        BY IdleOK DEF Idle
    <2>2. UNCHANGED <<stored, row, failed, confirms>> /\ job' = [job EXCEPT ![r] = w]
        BY <1>6 DEF DeleteRound, objects, database, history
    <2>. HIDE DEF w
    <2>. QED  BY <1>1, <2>1, <2>2, OnceKept DEF Present
<1>7. ASSUME NEW r \in Request, NEW q \in Request, BreakDeadlock(r, q) PROVE OnceInv(p)'
    <2>1. UNCHANGED <<stored, row, failed, confirms>> /\ (Goes(r, "broken") \/ Ends(q))
        BY <1>7 DEF BreakDeadlock, objects, database, history
    <2>. QED  BY <1>1, <2>1, OnceEnds, OnceGoes DEF Step
<1>8. ASSUME NEW r \in Request, HeadObject(r) PROVE OnceInv(p)'
    <2>1. UNCHANGED <<stored, row, failed, confirms>> /\ (Goes(r, "promote") \/ Goes(r, "lock") \/ Ends(r))
        BY <1>8 DEF HeadObject, database, history
    <2>. QED  BY <1>1, <2>1, OnceEnds, OnceGoes DEF Step
<1>9. ASSUME NEW r \in Request, LockRound(r) PROVE OnceInv(p)'
    <2>1. UNCHANGED <<stored, row, failed, confirms>> /\ (Goes(r, "promote") \/ Ends(r))
        BY <1>9 DEF LockRound, database, history
    <2>. QED  BY <1>1, <2>1, OnceEnds, OnceGoes DEF Step
<1>10. ASSUME NEW r \in Request, PromoteObject(r) PROVE OnceInv(p)'
    <2>1. UNCHANGED <<row, failed, confirms>> /\ job[r].step = "promote"
        BY <1>10 DEF PromoteObject, database
    <2>2. PICK q \in Photo : job[r].photo = {q}
        BY <2>1, JobFacts DEF JobOK, Confirming
    <2>3. \/ stored' = stored \cup {q} /\ Goes(r, "position")
          \/ stored' = stored /\ Ends(r)
          \/ stored' = stored \cup {q} /\ Ends(r) /\ mishaps' = mishaps \cup {q}
        BY <1>10, <2>2 DEF PromoteObject
    <2>4. CASE stored' = stored \cup {q} /\ Goes(r, "position")
        BY <1>1, <2>1, <2>2, <2>4, OnceGoes DEF Step
    <2>5. CASE stored' = stored /\ Ends(r)
        BY <1>1, <2>1, <2>5, OnceEnds
    <2>6. CASE stored' = stored \cup {q} /\ Ends(r) /\ mishaps' = mishaps \cup {q}
        BY <1>1, <2>1, <2>6, IdleOK, OnceKept DEF Ends, Present
    <2>. QED  BY <2>3, <2>4, <2>5, <2>6
<1>11. ASSUME NEW r \in Request, ReadPosition(r) PROVE OnceInv(p)'
    <2>. DEFINE w == [job[r] EXCEPT !.step = "insert", !.position = NextPosition]
    <2>1. /\ w.step = "insert" /\ w.photo = job[r].photo /\ w.keys = job[r].keys /\ w.missed = job[r].missed
        BY JobFacts DEF Job
    <2>2. /\ UNCHANGED <<stored, row, failed, confirms>> /\ job[r].step = "position"
          /\ Ends(r) \/ job' = [job EXCEPT ![r] = w]
        BY <1>11 DEF ReadPosition, objects, database, history
    <2>3. p \in job[r].photo => p \in stored
        BY <1>1, <2>2 DEF OnceInv, Copied, Confirms
    <2>. HIDE DEF w
    <2>4. CASE Ends(r)
        BY <1>1, <2>2, <2>4, OnceEnds
    <2>5. CASE job' = [job EXCEPT ![r] = w]
        BY <1>1, <2>1, <2>2, <2>3, <2>5, OnceKept DEF Present, Confirms, Deletes
    <2>. QED  BY <2>2, <2>4, <2>5
<1>12. ASSUME NEW r \in Request, job[r].step = "insert", UNCHANGED <<stored, failed, confirms>>,
              NEW q \in Photo, job[r].photo = {q}, row' = [row EXCEPT ![q] = job[r].position], Ends(r)
       PROVE  OnceInv(p)'
    <2>1. p = q => Confirms(r, p) /\ p \in stored
        BY <1>1, <1>12 DEF OnceInv, Copied, Confirms
    <2>2. p # q => (Present(p)' => Present(p))
        BY <1>12 DEF Present, Typed, RowsOK
    <2>. QED  BY <1>1, <1>12, <2>1, <2>2, IdleOK, OnceKept DEF Ends
<1>13. ASSUME NEW r \in Request, InsertRow(r) PROVE OnceInv(p)'
    <2>1. UNCHANGED <<stored, failed, confirms>> /\ job[r].step = "insert"
        BY <1>13 DEF InsertRow, objects, history
    <2>2. PICK q \in Photo : job[r].photo = {q}
        BY <2>1, JobFacts DEF JobOK, Confirming
    <2>3. \/ row' = [row EXCEPT ![q] = job[r].position] /\ Ends(r)
          \/ row' = row /\ (Ends(r) \/ TryAgain(r))
        BY <1>13, <2>2 DEF InsertRow
    <2>4. CASE row' = row /\ TryAgain(r)
        <3>. DEFINE w == [job[r] EXCEPT !.step = IF job[r].tries + 1 = MaxTries THEN "cleanup" ELSE "position",
                                        !.tries = @ + 1]
        <3>1. /\ w.step \in {"cleanup", "position"} /\ w.photo = job[r].photo
              /\ w.keys = job[r].keys /\ w.missed = job[r].missed
            BY JobFacts DEF Job
        <3>2. job' = [job EXCEPT ![r] = w]
            BY <2>4 DEF TryAgain
        <3>3. p \in job[r].photo => p \in stored
            BY <1>1, <2>1 DEF OnceInv, Copied, Confirms
        <3>. HIDE DEF w
        <3>. QED  BY <1>1, <2>1, <2>4, <3>1, <3>2, <3>3, OnceKept DEF Present, Confirms, Deletes
    <2>. QED  BY <1>1, <1>12, <2>1, <2>2, <2>3, <2>4, OnceEnds
<1>14. ASSUME NEW r \in Request, InsertFails(r) PROVE OnceInv(p)'
    <2>1. UNCHANGED <<stored, failed, confirms>> /\ job[r].step = "insert" /\ Goes(r, "broken")
        BY <1>14 DEF InsertFails, objects
    <2>2. PICK q \in Photo : job[r].photo = {q}
        BY <2>1, JobFacts DEF JobOK, Confirming
    <2>3. row' = row \/ (row' = [row EXCEPT ![q] = job[r].position] /\ mishaps' = mishaps \cup {q})
        BY <1>14, <2>2 DEF InsertFails
    <2>4. row'[p] = row[p]
        BY <2>3 DEF Once, Typed, RowsOK
    <2>. DEFINE w == [job[r] EXCEPT !.step = "broken"]
    <2>5. w.step = "broken" /\ w.photo = job[r].photo /\ w.keys = job[r].keys /\ w.missed = job[r].missed
        BY JobFacts DEF Job
    <2>6. job' = [job EXCEPT ![r] = w]
        BY <2>1 DEF Goes
    <2>. HIDE DEF w
    <2>. QED  BY <1>1, <2>1, <2>4, <2>5, <2>6, OnceKept DEF Present, Confirms, Deletes
<1>15. ASSUME NEW r \in Request, Cleanup(r) PROVE OnceInv(p)'
    <2>1. UNCHANGED <<row, confirms>> /\ Ends(r) /\ job[r].step \in {"cleanup", "broken"}
        BY <1>15 DEF Cleanup
    <2>2. PICK q \in Photo : job[r].photo = {q}
        BY <2>1, JobFacts DEF JobOK, Confirming
    <2>3. \/ stored' = stored \ {q} /\ failed' = failed
          \/ stored' = stored /\ failed' \in {failed, [failed EXCEPT ![q] = @ + 1]}
        BY <1>15, <2>2 DEF Cleanup
    <2>4. CASE q # p
        <3>1. failed'[p] = failed[p] /\ (p \in stored => p \in stored')
            BY <2>3, <2>4 DEF Typed, RowsOK
        <3>. QED  BY <1>1, <2>1, <3>1, IdleOK, OnceKept DEF Ends, Present
    <2>5. CASE q = p
        <3>1. Confirms(r, p)
            BY <2>2, <2>5 DEF Confirms
        <3>2. ~Present(p) /\ confirms[p] # 0 /\ \A i \in Request \ {r} : ~Confirms(i, p)
            BY <1>1, <3>1 DEF OnceInv, Sole, Waits, Untouched
        <3>3. confirms[p] = 1
            BY <1>1, <3>2, StorageAssumption DEF Once, Typed, RowsOK
        <3>4. job'[r] = Idle /\ \A i \in Request \ {r} : job'[i] = job[i]
            BY <2>1 DEF Ends, Typed, JobsOK
        <3>5. confirms'[p] = 1 /\ ~Present(p)' /\ \A i \in Request : ~Confirms(i, p)'
            BY <2>1, <3>2, <3>3, <3>4, IdleOK DEF Present, Confirms
        <3>. QED  BY <3>5 DEF OnceInv, Sole, Waits, Copied
    <2>. QED  BY <2>4, <2>5
<1>16. ASSUME NEW r \in Request, CollectPhotos(r) PROVE OnceInv(p)'
    <2>. DEFINE w == [job[r] EXCEPT !.step = "locked", !.keys = PhotosOf(job[r].round)]
    <2>1. /\ w.step = "locked" /\ w.photo = job[r].photo /\ w.keys = PhotosOf(job[r].round)
          /\ w.missed = job[r].missed
        BY JobFacts DEF Job
    <2>2. UNCHANGED <<stored, row, failed, confirms>> /\ (Ends(r) \/ job' = [job EXCEPT ![r] = w])
        BY <1>16 DEF CollectPhotos, objects, database, history
    <2>. HIDE DEF w
    <2>3. CASE Ends(r)
        BY <1>1, <2>2, <2>3, OnceEnds
    <2>4. CASE job' = [job EXCEPT ![r] = w]
        BY <1>1, <2>1, <2>2, <2>4, OnceKept DEF Present, PhotosOf, Confirms, Deletes
    <2>. QED  BY <2>2, <2>3, <2>4
<1>17. ASSUME NEW r \in Request, DeleteRoundCommits(r) PROVE OnceInv(p)'
    <2>. DEFINE w == [job[r] EXCEPT !.step = "objects"]
    <2>1. w.step = "objects" /\ w.photo = job[r].photo /\ w.keys = job[r].keys /\ w.missed = job[r].missed
        BY JobFacts DEF Job
    <2>2. /\ UNCHANGED <<stored, failed, confirms>> /\ job' = [job EXCEPT ![r] = w] /\ job[r].step = "locked"
          /\ row' = [i \in Photo |-> IF Attached[i] = job[r].round THEN NoRow ELSE row[i]]
        BY <1>17 DEF DeleteRoundCommits, Goes, objects, history
    <2>3. job[r].photo = {} /\ job[r].missed = {}
        BY <2>2, JobFacts DEF JobOK, Confirming
    <2>4. /\ p \in job[r].keys => ~Present(p)'
          /\ Present(p)' => Present(p)
        BY <2>2 DEF OwnKeys, Present
    <2>. HIDE DEF w
    <2>. QED  BY <1>1, <2>1, <2>2, <2>3, <2>4, OnceKept DEF Deletes
<1>18. ASSUME NEW r \in Request, DeleteObject(r) PROVE OnceInv(p)'
    <2>1. UNCHANGED <<row, failed, confirms>> /\ job[r].step = "objects"
        BY <1>18 DEF DeleteObject, database, history
    <2>2. PICK q \in job[r].keys :
            \E w \in {[job[r] EXCEPT !.keys = @ \ {q}],
                      [job[r] EXCEPT !.keys = @ \ {q}, !.missed = @ \cup {q}]} :
                job' = [job EXCEPT ![r] = w] /\ stored' \in {stored, stored \ {q}}
        BY <1>18 DEF DeleteObject
    <2>3. PICK w \in {[job[r] EXCEPT !.keys = @ \ {q}], [job[r] EXCEPT !.keys = @ \ {q}, !.missed = @ \cup {q}]} :
            job' = [job EXCEPT ![r] = w] /\ stored' \in {stored, stored \ {q}}
        BY <2>2
    <2>4. /\ w.step = "objects" /\ w.photo = job[r].photo /\ w.keys = job[r].keys \ {q}
          /\ w.missed \subseteq job[r].missed \cup {q}
        BY <2>1, JobFacts DEF Job
    <2>5. job'[r] = w /\ \A i \in Request \ {r} : job'[i] = job[i]
        BY <2>3 DEF Typed, JobsOK
    <2>6. CASE Deletes(r, p)
        BY <1>3, <2>1, <2>4, <2>5, <2>6 DEF Confirms
    <2>7. CASE ~Deletes(r, p)
        <3>1. p # q
            BY <2>7 DEF Deletes
        <3>2. p \notin w.keys \cup w.missed /\ (p \in stored => p \in stored')
            BY <2>4, <2>7, <2>3, <3>1 DEF Deletes
        <3>3. job[r].photo = {}
            BY <2>1, JobFacts DEF JobOK, Confirming
        <3>. QED  BY <1>1, <2>1, <2>4, <2>3, <3>2, <3>3, OnceKept DEF Present
    <2>. QED  BY <2>6, <2>7
<1>19. ASSUME NEW r \in Request, RecordMissed(r) PROVE OnceInv(p)'
    <2>1. /\ UNCHANGED <<stored, row, confirms>> /\ Ends(r) /\ job[r].step = "objects"
          /\ failed' = [i \in Photo |-> IF i \in job[r].missed THEN failed[i] + 1 ELSE failed[i]]
        BY <1>19 DEF RecordMissed, objects, history
    <2>2. job'[r] = Idle /\ \A i \in Request \ {r} : job'[i] = job[i]
        BY <2>1 DEF Ends, Typed, JobsOK
    <2>3. CASE p \in job[r].missed
        BY <1>3, <2>1, <2>2, <2>3, IdleOK DEF Confirms, Deletes
    <2>4. CASE p \notin job[r].missed
        <3>1. failed'[p] = failed[p]
            BY <2>1, <2>4
        <3>. QED  BY <1>1, <2>1, <3>1, IdleOK, OnceKept DEF Ends, Present
    <2>. QED  BY <2>3, <2>4
<1>20. ASSUME NEW r \in Request, Crash(r) PROVE OnceInv(p)'
    BY <1>1, <1>20, OnceEnds DEF Crash, objects, database
<1>21. ASSUME NEW q \in Photo, RetryDeletion(q) PROVE OnceInv(p)'
    <2>1. UNCHANGED <<row, failed, job, confirms>> /\ stored' = stored \ {q} /\ swept[q] < failed[q]
        BY <1>21 DEF RetryDeletion, database
    <2>2. CASE q = p
        <3>1. failed[p] > 0
            BY <2>1, <2>2 DEF Typed, RowsOK
        <3>. QED  BY <1>3, <2>1, <3>1 DEF Confirms
    <2>3. CASE q # p
        <3>1. p \in stored <=> p \in stored'
            BY <2>1, <2>3
        <3>. QED  BY <1>1, <2>1, <3>1 DEF OnceInv, Sole, Waits, Untouched, Copied, Backed, Present, Confirms, Deletes
    <2>. QED  BY <2>2, <2>3
<1>22. ASSUME RetryCommits PROVE OnceInv(p)'
    <2>1. UNCHANGED <<stored, row, job, confirms>> /\ failed' = [i \in Photo |-> failed[i] - swept[i]]
        BY <1>22 DEF RetryCommits, objects
    <2>2. CASE failed[p] = 0
        <3>1. failed'[p] = failed[p]
            BY <2>1, <2>2 DEF Typed, RowsOK
        <3>. QED  BY <1>1, <2>1, <3>1 DEF OnceInv, Sole, Waits, Untouched, Copied, Backed, Present, Confirms, Deletes
    <2>3. CASE failed[p] # 0
        <3>1. failed[p] > 0
            BY <2>3 DEF Typed, RowsOK
        <3>. QED  BY <1>3, <2>1, <3>1 DEF Confirms
    <2>. QED  BY <2>2, <2>3
<1>23. ASSUME NEW q \in Photo, DiscardUpload(q) \/ PendingExpires(q) PROVE OnceInv(p)'
    BY <1>2, <1>23 DEF DiscardUpload, PendingExpires, database, history
<1>24. ASSUME UNCHANGED vars PROVE OnceInv(p)'
    BY <1>2, <1>24 DEF vars
<1>. QED
    BY <1>4, <1>5, <1>6, <1>7, <1>8, <1>9, <1>10, <1>11, <1>13, <1>14, <1>15, <1>16, <1>17, <1>18, <1>19,
       <1>20, <1>21, <1>22, <1>23, <1>24 DEF Next

\* The object of a confirmed photo is there (confirm_upload copies it before add_user_image
\* inserts the row, delete_round and delete_course_photo delete it after the row), however
\* confirms, deletions, failures and the retry script interleave, as long as the client has
\* confirmed the photo with a single call.
THEOREM RowAlwaysHasObject == Spec => []RowHasObject
<1>1. Init => OwnKeys /\ OnceOK
    <2>. SUFFICES ASSUME Init PROVE OwnKeys /\ OnceOK
        OBVIOUS
    <2>1. OwnKeys
        BY IdleOK DEF Init, OwnKeys
    <2>2. ASSUME NEW p \in Photo PROVE OnceInv(p)
        BY <2>2, IdleOK DEF Init, OnceInv, Sole, Waits, Untouched, Copied, Present, Confirms, Deletes
    <2>. QED  BY <2>1, <2>2 DEF OnceOK
<1>2. Typed /\ Typed' /\ OwnKeys /\ OnceOK /\ [Next]_vars => OwnKeys' /\ OnceOK'
    BY OwnKeysStep, OnceStep
<1>3. OnceOK => RowHasObject
    BY DEF OnceOK, OnceInv, Once, Backed, RowHasObject
<1>. QED  BY <1>1, <1>2, <1>3, AlwaysTyped, PTL DEF Spec
-----------------------------------------------------------------------------
(* The requests and the form together.                                     *)

\* A behaviour of the run is one of the requests on the server (confirm_round_photo and its
\* neighbours) and one of the form in the app (RatingFlow.tsx): what is proved of either holds.
THEOREM PhotosAreBoth == ClientSpec => Spec /\ FlowSpec
<1>1. ClientInit => Init /\ FlowInit
  BY DEF ClientInit, Idly
<1>2. [ClientNext]_<<vars, flowVars, about>> => [Next]_vars /\ [FlowNext]_flowVars
  BY DEF ClientNext
<1> QED BY <1>1, <1>2, PTL DEF ClientSpec, Spec, FlowSpec

\* Every variable of the requests and of the form stays in its type, whichever of them the
\* run is about.
THEOREM PhotoTypesCorrect == ClientSpec => []TypesOK
<1>1. TypeOK /\ FlowTypeOK => TypesOK
  BY DEF TypesOK
<1> QED BY <1>1, PhotosAreBoth, TypeCorrect, FlowTypeCorrect, PTL
=============================================================================
