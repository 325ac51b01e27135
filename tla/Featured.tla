------------------------------- MODULE Featured -------------------------------
(***************************************************************************)
(* The featured course of the week: featured_courses.py.                   *)
(*                                                                         *)
(* The handlers are coroutines over a blocking database driver: a worker   *)
(* runs one of them at a time, lets go of it only at an await, and stops   *)
(* altogether while one of them waits for a lock of the database.  The     *)
(* first pick of a week is generated under a lock of the worker, the next  *)
(* ones under the row lock of the pick they replace.  A call of the        *)
(* provider costs one unit, which is what is reserved for it.              *)
(***************************************************************************)
EXTENDS FiniteSets, Naturals

CONSTANTS FeaturedUsers, Workers,
          Deployments,       \* the sets of workers considered
          Catalogue,         \* courses that meet access and budget preferences
          Local, InState,    \* those within the radius, those in the home state
          LastSequence,      \* MAX_DISMISSALS_PER_DAY + 1
          SpendLimit,        \* ai_featured_course_monthly_cost_limit_cents, in calls
          FeaturedRequests, MaxClears \* bounds

ASSUME FeaturedAssumption ==
  /\ Local \subseteq InState /\ InState \subseteq Catalogue /\ Catalogue # {}
  /\ IsFiniteSet(Workers) /\ Deployments \subseteq SUBSET Workers
  /\ LastSequence \in Nat \ {0} /\ {SpendLimit, FeaturedRequests, MaxClears} \subseteq Nat

VARIABLES
  deployed, budgetIn, \* the workers; where reservations are counted: "redis" or "process"
  members,   \* the users whose accounts have not been deleted
  picks,     \* rows of daily_featured_courses of this week
  playedBy,  \* the courses a user has played
  inflight,  \* the counters of reservations
  epoch,     \* how often a worker has cleared its dictionary of locks
  asks,      \* the requests
  paidFor,   \* history: the calls that were billed, as far as the code has learned of it
  erased     \* history: what of their cost went with the accounts it was recorded for

featuredVars == <<deployed, budgetIn, members, erased, picks, playedBy, inflight, epoch, asks, paidFor>>

Asks == 1..FeaturedRequests
Idle == [kind |-> "none", user |-> "none", worker |-> "none", pc |-> "away", epoch |-> 0,
         course |-> "none", seen |-> 0, seq |-> 0, reserved |-> FALSE]
\* From one await to the next a worker belongs to one request.
Synchronous == {"locking", "reserving", "inserting", "folding", "waiting"}
Runs(j) == \A i \in Asks \ {j} : asks[i].pc \in Synchronous => asks[i].worker # asks[j].worker
Free(w) == \A i \in Asks : asks[i].pc \in Synchronous => asks[i].worker # w

Active(u) == {p \in picks : p.user = u /\ ~p.dismissed}
CostOf(P) == Cardinality({x \in P \X Asks : x[2] <= x[1].cost})
Recorded == CostOf(picks)
CostPaid(j) == IF j \in paidFor THEN 1 ELSE 0
\* A dismissal holds the row lock of the active pick from its FOR UPDATE to its commit.
Dismissing(u) == {i \in Asks : /\ asks[i].kind = "dismiss" /\ asks[i].user = u
                               /\ asks[i].pc \in {"reserving", "calling", "inserting"}}

FeaturedInit ==
  /\ deployed \in Deployments /\ budgetIn \in {"redis", "process"}
  /\ members = FeaturedUsers /\ picks = {} /\ paidFor = {} /\ erased = 0
  /\ playedBy = [u \in FeaturedUsers |-> {}]
  /\ inflight = [c \in Workers \cup {"redis"} |-> 0]
  /\ epoch = [w \in Workers |-> 0]
  /\ asks = [j \in Asks |-> Idle]

-----------------------------------------------------------------------------
(* The choice of a course.                                                 *)

\* _get_user_exclusions; the earlier weeks of its 60 days are left out.
FeaturedThisWeek(u) == {p.course : p \in {q \in picks : q.user = u}}

\* The candidates of the first attempt that finds any; which of them is the best is left open.
Candidates(u) ==
  LET local == Local \ (playedBy[u] \cup FeaturedThisWeek(u))
      state == InState \ (playedBy[u] \cup FeaturedThisWeek(u))
      any == Catalogue \ FeaturedThisWeek(u) IN
  IF local # {} THEN local ELSE IF state # {} THEN state ELSE IF any # {} THEN any ELSE Catalogue

-----------------------------------------------------------------------------
(* Reservations.                                                           *)

Counter(w) == IF budgetIn = "redis" THEN "redis" ELSE w

\* Deviation: the calls under way are not counted.
FitsRecorded(j) == asks[j].seen + 1 <= SpendLimit
\* _BUDGET_RESERVE_LUA and its in-process twin; the recorded cost was read before.
Fits(j) == asks[j].seen + inflight[Counter(asks[j].worker)] + 1 <= SpendLimit

\* The finally of reserve; Redis may be out of reach, its key then lives until it expires.
Release(j) ==
  \/ inflight' = IF asks[j].reserved
                 THEN [inflight EXCEPT ![Counter(asks[j].worker)] = IF @ <= 1 THEN 0 ELSE @ - 1] ELSE inflight
  \/ asks[j].reserved /\ budgetIn = "redis" /\ UNCHANGED inflight

Leave(j) == asks' = [asks EXCEPT ![j] = [Idle EXCEPT !.pc = "left"]]
Continue(j, pc) == asks' = [asks EXCEPT ![j].pc = pc]

Reserve(j) ==
  /\ asks[j].pc = "reserving"
  /\ \/ /\ Fits(j)
        /\ inflight' = [inflight EXCEPT ![Counter(asks[j].worker)] = @ + 1]
        /\ \/ asks' = [asks EXCEPT ![j].pc = "calling", ![j].reserved = TRUE]
           \/ budgetIn = "redis" /\ Continue(j, "inserting")  \* the reply was lost
     \/ /\ ~Fits(j) \/ budgetIn = "redis"                     \* or Redis is out of reach
        /\ Continue(j, "inserting")
        /\ UNCHANGED inflight
  /\ UNCHANGED <<deployed, budgetIn, members, erased, picks, playedBy, epoch, paidFor>>

\* The key expires two minutes after the last reservation, ten times the timeout of a call.
ReservationsExpire ==
  /\ inflight["redis"] > 0 /\ \A j \in Asks : ~asks[j].reserved
  /\ inflight' = [inflight EXCEPT !["redis"] = 0]
  /\ UNCHANGED <<deployed, budgetIn, members, erased, picks, playedBy, epoch, asks, paidFor>>

\* generate_featured_narrative: the cost of an answer is known whether or not its text can be
\* parsed.  One that comes after the timeout or is not JSON may be billed too, at a cost the code
\* never learns: it is no call of paidFor.
ProviderReplies(j) ==
  /\ asks[j].pc = "calling" /\ Runs(j)
  /\ Continue(j, "inserting")
  /\ paidFor' \in {paidFor, paidFor \cup {j}}
  /\ UNCHANGED <<deployed, budgetIn, members, erased, picks, playedBy, inflight, epoch>>

-----------------------------------------------------------------------------
(* Requests.                                                               *)

Arrives(j, w) == /\ asks[j] = Idle /\ \A i \in 1..(j - 1) : asks[i] # Idle
                 /\ w \in deployed /\ Free(w)

\* get_featured_course: the pick on show, or the lock of the user and week.
GetArrives(j) ==
  /\ \E w \in Workers, u \in members :
       /\ Arrives(j, w)
       /\ IF Active(u) # {} THEN Leave(j)
          ELSE asks' = [asks EXCEPT ![j] = [Idle EXCEPT !.kind = "get", !.user = u, !.worker = w,
                                            !.pc = "queued", !.epoch = epoch[w]]]
  /\ UNCHANGED <<deployed, budgetIn, members, erased, picks, playedBy, inflight, epoch, paidFor>>

HoldsLockOf(i, j) ==
  /\ asks[i].kind = "get" /\ asks[i].pc \notin {"queued"}
  /\ asks[i].user = asks[j].user /\ asks[i].worker = asks[j].worker /\ asks[i].epoch = asks[j].epoch

\* A course is chosen and the month's cost read.
Chooses(j, u, seq) ==
  \E c \in Candidates(u) :
    asks' = [asks EXCEPT ![j].pc = "reserving", ![j].course = c, ![j].seq = seq, ![j].seen = Recorded]

GetIsLocked(j) ==
  LET u == asks[j].user IN
  /\ asks[j].pc = "queued" /\ Runs(j)
  /\ \A i \in Asks : ~HoldsLockOf(i, j)
  /\ IF Active(u) # {} THEN Leave(j) ELSE Chooses(j, u, 1)
  /\ UNCHANGED <<deployed, budgetIn, members, erased, picks, playedBy, inflight, epoch, paidFor>>

Pick(j) == [user |-> asks[j].user, seq |-> asks[j].seq, course |-> asks[j].course,
            dismissed |-> FALSE, cost |-> CostPaid(j)]

\* The insert waits for a dismissal that is changing the first pick.  Without its user the
\* row is refused, and its cost is recorded nowhere.
GetInserts(j) ==
  LET u == asks[j].user IN
  /\ asks[j].pc = "inserting" /\ asks[j].kind = "get"
  /\ ~(Dismissing(u) # {} /\ \E p \in Active(u) : p.seq = 1)
  /\ \/ /\ u \notin members
        /\ erased' = erased + CostPaid(j)
        /\ UNCHANGED picks /\ Leave(j) /\ Release(j)
     \/ /\ u \in members /\ \E p \in picks : p.user = u /\ p.seq = 1
        /\ UNCHANGED <<picks, erased>>
        /\ IF j \in paidFor THEN Continue(j, "folding") /\ UNCHANGED inflight
                            ELSE Leave(j) /\ Release(j)
     \/ /\ u \in members /\ ~\E p \in picks : p.user = u /\ p.seq = 1
        /\ picks' = picks \cup {Pick(j)} /\ UNCHANGED erased /\ Leave(j) /\ Release(j)
  /\ UNCHANGED <<deployed, budgetIn, members, playedBy, epoch, paidFor>>

CostAdded(p) == {[p EXCEPT !.cost = @ + 1]}
CostIsErased(u) == erased' = IF Active(u) = {} THEN erased + 1 ELSE erased

\* The cost of a lost race goes to the active pick; the update waits for a dismissal of it
\* and then finds it dismissed, and the next pick is not in its snapshot.  Once the account is
\* deleted it finds no row.
CostIsFolded(j) ==
  LET u == asks[j].user IN
  /\ asks[j].pc = "folding"
  /\ IF Dismissing(u) # {}
     THEN \E p \in Active(u) : /\ asks' = [asks EXCEPT ![j].pc = "waiting", ![j].seq = p.seq]
                               /\ UNCHANGED <<picks, inflight, erased>>
     ELSE /\ picks' = (picks \ Active(u)) \cup UNION {CostAdded(p) : p \in Active(u)}
          /\ CostIsErased(u) /\ Leave(j) /\ Release(j)
  /\ UNCHANGED <<deployed, budgetIn, members, playedBy, epoch, paidFor>>

FoldingResumes(j) ==
  LET u == asks[j].user   same == {p \in Active(u) : p.seq = asks[j].seq} IN
  /\ asks[j].pc = "waiting" /\ Dismissing(u) = {}
  /\ picks' = (picks \ same) \cup UNION {CostAdded(p) : p \in same}
  /\ CostIsErased(u) /\ Leave(j) /\ Release(j)
  /\ UNCHANGED <<deployed, budgetIn, members, playedBy, epoch, paidFor>>

\* Deviation: one more refresh than the week allows.
Exhausted1(p) == p.seq > LastSequence
Exhausted(p) == p.seq >= LastSequence

\* dismiss_featured_course up to its flush: the row is locked, marked and its successor chosen.
Succeeds(j, ask, p) ==
  IF Exhausted(p) THEN Leave(j)                                 \* 400
  ELSE \E c \in Candidates(p.user) :
         asks' = [asks EXCEPT ![j] = [ask EXCEPT !.pc = "reserving", !.course = c,
                                                 !.seq = p.seq + 1, !.seen = Recorded]]

DismissArrives(j) ==
  /\ \E w \in Workers, u \in members :
       /\ Arrives(j, w)
       /\ \/ Active(u) = {} /\ Leave(j)                         \* 404
          \/ \E p \in Active(u) :
               LET ask == [Idle EXCEPT !.kind = "dismiss", !.user = u, !.worker = w, !.seq = p.seq] IN
               IF Dismissing(u) # {} THEN asks' = [asks EXCEPT ![j] = [ask EXCEPT !.pc = "locking"]]
               ELSE Succeeds(j, ask, p)
  /\ UNCHANGED <<deployed, budgetIn, members, erased, picks, playedBy, inflight, epoch, paidFor>>

\* The lock is there.  If the row it waited for is active no more, its successor is not in the
\* snapshot; it is still active if the dismissal that held it was rolled back.
DismissIsLocked(j) ==
  LET u == asks[j].user IN
  /\ asks[j].pc = "locking" /\ Dismissing(u) = {}
  /\ \/ (\A p \in Active(u) : p.seq # asks[j].seq) /\ Leave(j)   \* 404
     \/ \E p \in Active(u) : p.seq = asks[j].seq /\ Succeeds(j, asks[j], p)
  /\ UNCHANGED <<deployed, budgetIn, members, erased, picks, playedBy, inflight, epoch, paidFor>>

\* The row lock rules out a conflict here: the 409 of the code is never given.
DismissCommits(j) ==
  LET u == asks[j].user IN
  /\ asks[j].pc = "inserting" /\ asks[j].kind = "dismiss"
  /\ picks' = (picks \ Active(u)) \cup {[p EXCEPT !.dismissed = TRUE] : p \in Active(u)} \cup {Pick(j)}
  /\ Leave(j) /\ Release(j)
  /\ UNCHANGED <<deployed, budgetIn, members, erased, playedBy, epoch, paidFor>>

\* delete_account holds the user's row and waits for the pick's, a dismissal the other way round;
\* the database ends one of the two, here the dismissal.  A cost it paid is not recorded.
DismissIsAborted(j) ==
  /\ asks[j].pc = "inserting" /\ asks[j].kind = "dismiss"
  /\ erased' = erased + CostPaid(j)
  /\ Leave(j) /\ Release(j)
  /\ UNCHANGED <<deployed, budgetIn, members, picks, playedBy, epoch, paidFor>>

\* delete_account: the rows of daily_featured_courses go with their user, costs and all.
AccountIsDeleted(u) ==
  LET mine == {p \in picks : p.user = u} IN
  /\ u \in members /\ Dismissing(u) = {}
  /\ members' = members \ {u}
  /\ picks' = picks \ mine /\ erased' = erased + CostOf(mine)
  /\ playedBy' = [playedBy EXCEPT ![u] = {}]
  /\ UNCHANGED <<deployed, budgetIn, inflight, epoch, asks, paidFor>>

-----------------------------------------------------------------------------
\* _get_user_week_lock: over 10,000 entries the dictionary is emptied, held locks and all.
LocksAreCleared(w) ==
  /\ w \in deployed /\ Free(w) /\ epoch[w] < MaxClears
  /\ epoch' = [epoch EXCEPT ![w] = @ + 1]
  /\ UNCHANGED <<deployed, budgetIn, members, erased, picks, playedBy, inflight, asks, paidFor>>

RoundIsPlayed(u, c) ==
  /\ u \in members /\ playedBy[u] = {}
  /\ playedBy' = [playedBy EXCEPT ![u] = {c}]
  /\ UNCHANGED <<deployed, budgetIn, members, erased, picks, inflight, epoch, asks, paidFor>>

AskStep(j) ==
  \/ GetArrives(j) \/ GetIsLocked(j) \/ GetInserts(j) \/ CostIsFolded(j) \/ FoldingResumes(j)
  \/ DismissArrives(j) \/ DismissIsLocked(j) \/ DismissCommits(j) \/ DismissIsAborted(j)
  \/ Reserve(j) \/ ProviderReplies(j)

FeaturedNext ==
  \/ \E j \in Asks : AskStep(j)
  \/ ReservationsExpire
  \/ \E u \in FeaturedUsers : AccountIsDeleted(u)
  \/ \E w \in Workers : LocksAreCleared(w)
  \/ \E u \in FeaturedUsers, c \in Catalogue : RoundIsPlayed(u, c)
FeaturedSpec == FeaturedInit /\ [][FeaturedNext]_featuredVars

-----------------------------------------------------------------------------
(* Properties.                                                             *)

OneWorker == Cardinality(deployed) = 1

\* Every variable stays in its type; a process counts exactly the calls it has under way.
FeaturedTypeOK ==
  /\ \A j \in Asks : asks[j].pc \in Synchronous \cup {"away", "queued", "calling", "left"}
  /\ \A p \in picks : p.course \in Catalogue /\ p.cost \in Nat
  /\ budgetIn = "process" =>
       \A w \in Workers : inflight[w] = Cardinality({j \in Asks : asks[j].reserved /\ asks[j].worker = w})

\* The picks of a user's week are numbered without a gap, no further than it may be refreshed,
\* and the last of them alone is on show, whatever requests ran at once on however many workers.
WeekInOrder ==
  \A u \in FeaturedUsers :
    LET mine == {p \in picks : p.user = u} IN
    /\ {p.seq : p \in mine} = 1..Cardinality(mine)
    /\ Cardinality(mine) <= LastSequence
    /\ \A p \in mine : p.dismissed <=> p.seq < Cardinality(mine)

\* A course comes back in the same week only when every other one has been shown.
NoRepeatInWeek ==
  \A p, q \in picks :
    p.user = q.user /\ p.course = q.course /\ p.seq < q.seq =>
      {r.course : r \in {s \in picks : s.user = p.user /\ s.seq < q.seq}} = Catalogue

\* The week of a user is in order and as varied as the catalogue (resolve_featured_candidate).
FeaturedWeekHolds == WeekInOrder /\ NoRepeatInWeek

\* One worker pays for no more than the month allows and, beyond it, what deleted accounts took
\* along of the costs on record, even if Redis fails or the locks are cleared; with several
\* workers see CommittedSpendBounded.
SpendHolds == OneWorker => Cardinality(paidFor) <= SpendLimit + erased

\* One worker records the cost of every billed call whose request has ended, also of the one
\* that lost the race for the first pick; only the deletion of its account takes a cost away.
CostsKept == OneWorker => Recorded + erased = Cardinality({j \in paidFor : asks[j].pc = "left"})

\* What one worker pays the provider stays within the month's limit, and is recorded, but for
\* what the deletion of an account takes along.
FeaturedSpendHolds == SpendHolds /\ CostsKept

\* "total committed spend NEVER exceeds" the limit (tests/test_featured_courses.py).
CommittedSpendBounded == budgetIn = "redis" => Recorded <= SpendLimit

\* A worker never waits for a row lock that one of its own suspended requests holds.
NeverWaitsForItself ==
  \A i, j \in Asks :
    /\ asks[i].kind = "dismiss" /\ asks[i].pc = "calling"
    /\ asks[j].pc \in {"locking", "waiting"} \/ (asks[j].pc = "inserting" /\ asks[j].kind = "get")
    /\ asks[i].user = asks[j].user
    => asks[i].worker # asks[j].worker
=============================================================================
