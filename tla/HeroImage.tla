------------------------------- MODULE HeroImage -------------------------------
(***************************************************************************)
(* The Wikimedia hero of one course: CourseImageService._resolve_wikimedia *)
(* with the rows of course_images and the negative cache.                  *)
(*                                                                         *)
(* A resolver looks at what is stored, takes the lock of its process and   *)
(* the one in Redis, looks again, asks the provider without a transaction  *)
(* and stores the answer.  Operator scripts and the catalogue import write *)
(* the same rows and take no lock.                                         *)
(***************************************************************************)
EXTENDS RedisLock, FiniteSets

CONSTANTS HeroWrites,  \* bound: rows written and rewritten
          Moves        \* bound: relocations of the course

ASSUME HeroAssumption == HeroWrites \in Nat /\ Moves \in Nat

VARIABLES
  photos,    \* the course's approved Wikimedia rows; "at" stands for created_at
  negative,  \* an active row of course_image_negative_cache
  place,     \* the course's coordinates, by how often they were corrected
  writes,    \* the writes so far
  view,      \* the resolvers: what they have seen
  overtaken  \* history: a script wrote while a resolver was between its look and its write, or over
             \* what a resolver had answered after the script's own look

heroVars == <<photos, negative, place, writes, view, overtaken>>

Elsewhere == [pc |-> "none", cached |-> 0, place |-> 0]
Visitors == [pc : {"none", "cold", "inside", "looking", "evicting", "done"},
             cached : 0..HeroWrites, place : 0..Moves]
Row(id, hero, at, where) == [id |-> id, hero |-> hero, fresh |-> TRUE, at |-> at, place |-> where]

HeroInit ==
  /\ LockInit
  /\ photos = {} /\ negative = FALSE /\ place = 0 /\ writes = 0 /\ overtaken = FALSE
  /\ view = [c \in Callers |-> Elsewhere]

\* best_wikimedia_image: the hero first, then the oldest.
Better(r, q) == (r.hero /\ ~q.hero) \/ (r.hero = q.hero /\ r.at <= q.at)
Best == CHOOSE r \in photos : \A q \in photos : Better(r, q)
BestId == IF photos = {} THEN 0 ELSE Best.id

\* _wikimedia_cache_snapshot: the answer is known without a lookup.
Known == negative \/ (photos # {} /\ Best.fresh)

GoesOn(c, pc) == view' = [view EXCEPT ![c].pc = pc]
InProcess(c) == {d \in Callers \ {c} : ProcessOf[d] = ProcessOf[c] /\
                                       view[d].pc \in {"inside", "looking", "evicting", "done"}}

-----------------------------------------------------------------------------
(* A resolver.                                                             *)

Opens(c) ==
  /\ view[c].pc = "none" /\ ~Known
  /\ view' = [view EXCEPT ![c] = [pc |-> "cold", cached |-> BestId, place |-> place]]
  /\ UNCHANGED <<photos, negative, place, writes, overtaken, lockVars>>

\* The stripe is never waited for; a course of the same stripe may hold it as well.
StripeIsTaken(c) ==
  /\ view[c].pc = "cold"
  /\ view' = [view EXCEPT ![c] = Elsewhere]
  /\ UNCHANGED <<photos, negative, place, writes, overtaken, lockVars>>

TriesLock(c) ==
  /\ view[c].pc = "cold" /\ InProcess(c) = {}
  /\ TryLock(c)
  /\ GoesOn(c, IF stand'[c] = "refused" THEN "done" ELSE "inside")
  /\ UNCHANGED <<photos, negative, place, writes, overtaken>>

\* Deviation: what the first look has seen is good enough.
FirstLook(c) == GoesOn(c, "looking")
SecondLook(c) == ~Known /\ view' = [view EXCEPT ![c].pc = "looking", ![c].cached = BestId]

\* _resolve_wikimedia_locked; with every slot taken (_wikimedia_concurrency) there is no lookup
\* either.
LooksAgain(c) ==
  /\ view[c].pc = "inside"
  /\ SecondLook(c) \/ GoesOn(c, "done")
  /\ UNCHANGED <<photos, negative, place, writes, overtaken, lockVars>>

Ends(c) == GoesOn(c, "done")

ProviderIsDown(c) ==
  /\ view[c].pc = "looking"
  /\ Ends(c)
  /\ UNCHANGED <<photos, negative, place, writes, overtaken, lockVars>>

\* set_negative_cache, and then delete_image in a transaction of its own.
NothingFound(c) ==
  /\ view[c].pc = "looking"
  /\ negative' = TRUE
  /\ GoesOn(c, IF view[c].cached = 0 THEN "done" ELSE "evicting")
  /\ UNCHANGED <<photos, place, writes, overtaken, lockVars>>

\* A row that somebody else has deleted meanwhile makes the delete fail, which is ignored.
Evicted(c) == {r \in photos : r.id # view[c].cached}

EvictsHero(c) ==
  /\ view[c].pc = "evicting"
  /\ photos' = Evicted(c)
  /\ GoesOn(c, "done")
  /\ UNCHANGED <<negative, place, writes, overtaken, lockVars>>

\* The match is stored as a new row or into the cached one; a row that is gone, or a position
\* that another upload has taken, makes the write fail, which is ignored.
PhotoFound(c) ==
  /\ view[c].pc = "looking" /\ writes < HeroWrites
  /\ writes' = writes + 1
  /\ \/ /\ view[c].cached = 0
        /\ photos' = photos \cup {Row(writes', TRUE, writes', view[c].place)}
     \/ /\ view[c].cached # 0
        /\ photos' = {IF r.id = view[c].cached
                      THEN [r EXCEPT !.fresh = TRUE, !.at = writes', !.place = view[c].place]
                      ELSE r : r \in photos}
     \/ UNCHANGED photos
  /\ GoesOn(c, "done")
  /\ UNCHANGED <<negative, place, overtaken, lockVars>>

LeavesLock(c) ==
  /\ view[c].pc = "done"
  /\ LeaveLock(c)
  /\ view' = [view EXCEPT ![c] = Elsewhere]
  /\ UNCHANGED <<photos, negative, place, writes, overtaken>>

-----------------------------------------------------------------------------
(* Time, the scripts and the import.                                       *)

PhotoGoesStale ==
  /\ \E r \in photos : r.fresh /\ photos' = (photos \ {r}) \cup {[r EXCEPT !.fresh = FALSE]}
  /\ UNCHANGED <<negative, place, writes, view, overtaken, lockVars>>

NegativeExpires ==
  /\ negative /\ negative' = FALSE
  /\ UNCHANGED <<photos, place, writes, view, overtaken, lockVars>>

OvertakesOr(late) ==
  overtaken' = (overtaken \/ late \/ \E c \in Callers : view[c].pc \in {"looking", "evicting"})
Overtakes == OvertakesOr(FALSE)

\* refresh_course_photos: a new gallery whose first photo is the hero.
GalleryIsRefreshed ==
  /\ writes + 2 <= HeroWrites /\ writes' = writes + 2
  /\ photos' = {Row(writes + 1, TRUE, writes', place), Row(writes + 2, FALSE, writes', place)}
  /\ negative' = FALSE
  /\ Overtakes
  /\ UNCHANGED <<place, view, lockVars>>

\* score_course_photos below its quality floor.
GalleryIsRemoved ==
  /\ photos # {} /\ photos' = {} /\ negative' = TRUE
  /\ Overtakes
  /\ UNCHANGED <<place, writes, view, lockVars>>

\* score_course_photos at or above it: of the rows it had read before they were scored one becomes
\* the hero.  (A row that has gone since makes the update fail.)
HeroIsPicked ==
  /\ \E seen \in SUBSET photos : \E best \in seen :
       /\ photos' = (photos \ seen) \cup {[r EXCEPT !.hero = (r = best)] : r \in seen}
       /\ OvertakesOr(negative \/ seen # photos)
  /\ UNCHANGED <<negative, place, writes, view, lockVars>>

\* backfill_course_photos: a hero for a course that had no photo when the script began.
PhotoIsBackfilled ==
  /\ writes < HeroWrites /\ writes' = writes + 1
  /\ \E known \in 0..place : photos' = photos \cup {Row(writes', TRUE, writes', known)}
  /\ negative' = FALSE
  /\ OvertakesOr(photos # {})
  /\ UNCHANGED <<place, view, lockVars>>

\* catalog_import with new coordinates.
CourseMoves ==
  /\ place < Moves /\ place' = place + 1
  /\ photos' = {} /\ negative' = FALSE
  /\ Overtakes
  /\ UNCHANGED <<writes, view, lockVars>>

HeroNext ==
  \/ \E c \in Callers : \/ Opens(c) \/ StripeIsTaken(c) \/ TriesLock(c) \/ LooksAgain(c)
                        \/ ProviderIsDown(c) \/ NothingFound(c) \/ EvictsHero(c) \/ PhotoFound(c)
                        \/ LeavesLock(c)
  \/ PhotoGoesStale \/ NegativeExpires
  \/ GalleryIsRefreshed \/ GalleryIsRemoved \/ HeroIsPicked \/ PhotoIsBackfilled \/ CourseMoves
  \/ LockEnvironment /\ UNCHANGED heroVars
HeroSpec == HeroInit /\ [][HeroNext]_<<heroVars, lockVars>>

-----------------------------------------------------------------------------
(* Properties.                                                             *)

\* Every variable stays in its type, and a resolver leaves the lock however its lookup ends.
HeroTypeOK ==
  /\ view \in [Callers -> Visitors]
  /\ \A r \in photos : r.id \in 1..HeroWrites /\ r.place \in 0..Moves
  /\ \A c \in Callers : stand[c] # "out" <=> view[c].pc \in {"inside", "looking", "evicting", "done"}

\* As long as the lock can be relied on and no script wrote in between, all the resolvers of
\* all processes together store one hero, not one each.
OneStoredHero == trusted /\ ~overtaken => Cardinality({r \in photos : r.hero}) <= 1

\* A remembered miss leaves no hero behind that it refuted and that would come back when the
\* memory of it expires.
MissIsComplete ==
  trusted /\ ~overtaken /\ negative /\ (\A c \in Callers : view[c].pc # "evicting") =>
    \A r \in photos : ~r.hero

\* What the resolvers of all processes leave behind is one hero, or none after a miss.
HeroesSettle == OneStoredHero /\ MissIsComplete

\* "callers must stay correct when two processes hold it simultaneously"
\* (core/distributed_lock.py): also then there is one hero.
OneHeroAnyway == ~overtaken => Cardinality({r \in photos : r.hero}) <= 1

\* "corrected coordinates deserve a fresh search rather than continuing to show a possibly
\* wrong photo" (catalog_import.py): no photo of the old place is there as a fresh one.
PhotosAreOfThePlace == \A r \in photos : r.fresh => r.place = place
=============================================================================
