------------------------------ MODULE RoundLog ------------------------------
(***************************************************************************)
(* One golfer's rounds of one course, the activity events that tell others *)
(* about them, the rating and the played-course state that go with them:   *)
(* rounds.py, the event handling of course_ratings.py, and what social.py  *)
(* lets other golfers read of all this.                                    *)
(*                                                                         *)
(* A writing request reads the round, then waits for the locks it needs    *)
(* and counts, then commits.  Creating and rating hold the golfer's        *)
(* identity lock; rating and deleting a rating's round hold the user row;  *)
(* an edit holds the round only if it changes a column of it.              *)
(***************************************************************************)
EXTENDS FiniteSets, Naturals

CONSTANTS LogRequests,     \* bound: requests of a behaviour
          Onboarded        \* the course is among the played_course_ids of onboarding

ASSUME RoundLogAssumption == LogRequests \in Nat /\ Onboarded \in BOOLEAN

VARIABLES
  rounds,     \* rows of rounds by id
  events,     \* rows of activity_events by id
  rating,     \* round of the user_course_ratings row, or 0
  state,      \* user_course_states row: round_count and has_played, if there is one
  writer,     \* the requests, in the order they start
  counted,    \* history: the last commit was by a request that ran alone and counted
  told,       \* history: the rounds whose last commit was by a request that ran alone
  late        \* history: the events inserted because an edit of the details found none

logVars == <<rounds, events, rating, state, writer, counted, told, late>>
history == <<counted, told, late>>

Writers == 1..LogRequests
Visibilities == {"private", "friends", "public"}
Shared == {"friends", "public"}
NoRow == [exists |-> FALSE, vis |-> "private", rated |-> FALSE]
RoundRow == [exists : BOOLEAN, vis : Visibilities, rated : BOOLEAN]
NoEvent == [round |-> 0, vis |-> "private", rated |-> FALSE]
Ids == 0..LogRequests
EventRow == [round : Ids, vis : Visibilities, rated : BOOLEAN]

Existing == {r \in Writers : rounds[r].exists}
EventsOf(r) == {e \in Writers : events[e].round = r /\ r # 0}
Newest(S) == CHOOSE e \in S : \A f \in S : f <= e

\* A request: what it does, to which round, whether it changes a column of the round, and what
\* it has read so far.
Out == [op |-> "out", pc |-> "begun", r |-> 0, vis |-> "private", was |-> "private",
        touches |-> TRUE, event |-> 0, eventWas |-> "private", n |-> 0, loaded |-> 0, alone |-> TRUE]
Ended == [Out EXCEPT !.op = "ended"]
WriterOps == {"create", "rate", "update", "details", "delete"}
Request == [op : WriterOps \cup {"out", "ended"}, pc : {"begun", "held"}, r : Ids,
            vis : Visibilities, was : Visibilities, touches : BOOLEAN, event : Ids,
            eventWas : Visibilities, n : Ids, loaded : Ids \cup {LogRequests + 1}, alone : BOOLEAN]
Busy(j) == writer[j].op \in WriterOps
Missing == LogRequests + 1   \* stands for a state row that does not exist yet

LogInit ==
  /\ rounds = [r \in Writers |-> NoRow]
  /\ events = [e \in Writers |-> NoEvent]
  /\ rating = 0
  /\ state = [count |-> IF Onboarded THEN 0 ELSE Missing, played |-> Onboarded]
  /\ writer = [j \in Writers |-> Out]
  /\ counted = TRUE /\ told = {} /\ late = {}

-----------------------------------------------------------------------------
(* Beginning: who the request is for and which round it is about.          *)

Enter(j, op, r, vis, was, touches) ==
  /\ writer[j] = Out /\ \A i \in 1..(j - 1) : writer[i] # Out
  /\ LET others == {i \in Writers : Busy(i)} IN
     writer' = [i \in Writers |->
       IF i = j THEN [Out EXCEPT !.op = op, !.r = r, !.vis = vis, !.was = was, !.touches = touches,
                              !.alone = others = {}]
       ELSE IF i \in others THEN [writer[i] EXCEPT !.alone = FALSE] ELSE writer[i]]
  /\ UNCHANGED <<rounds, events, rating, state, history>>

\* Identity lock of creating and rating; the user row lock of rating, and of deleting the
\* round of a rating, excludes them too (an insert references the user row).
UserBusy(j) ==
  \E i \in Writers \ {j} :
    \/ writer[i].op \in {"create", "rate"}
    \/ writer[i].op = "delete" /\ writer[i].pc = "held" /\ rounds[writer[i].r].rated
RowHeld(j, r) ==
  \E i \in Writers \ {j} :
    Busy(i) /\ writer[i].pc = "held" /\ writer[i].touches /\ writer[i].r = r

\* create_round: ids come from a sequence, so a request uses its own number.
CreateRound(j) == \E vis \in Visibilities : ~UserBusy(j) /\ Enter(j, "create", j, vis, vis, TRUE)
\* put_course_rating keeps the round of an existing rating, which it may leave as it is, else
\* it starts a private one.
RateCourse(j) ==
  /\ ~UserBusy(j)
  /\ LET r == IF rating # 0 THEN rating ELSE j
         vis == IF rating # 0 THEN rounds[rating].vis ELSE "private"
     IN \E touches \in {rating = 0, TRUE} : Enter(j, "rate", r, vis, vis, touches)
\* update_round and patch_rating_details, with the visibility and other columns of the round
\* among the fields or not: without a change there is no UPDATE, hence no lock on the row.
Edit(j, op, r) ==
  \E vis \in Visibilities : \E touches \in {vis # rounds[r].vis, TRUE} :
    Enter(j, op, r, vis, rounds[r].vis, touches)
UpdateRound(j) == \E r \in Existing : Edit(j, "update", r)
PatchDetails(j) == rating # 0 /\ Edit(j, "details", rating)
DeleteRound(j) == \E r \in Existing : Enter(j, "delete", r, rounds[r].vis, rounds[r].vis, TRUE)

-----------------------------------------------------------------------------
(* Flushing: the row locks, the event to refresh, the count and the state. *)

\* The event a change of the round refreshes: update_round takes any one of the round's,
\* patch_rating_details the newest; the other handlers refresh none.
Refreshed(op, r) ==
  CASE op = "update" /\ EventsOf(r) # {} -> EventsOf(r)
    [] op = "details" /\ EventsOf(r) # {} -> {Newest(EventsOf(r))}
    [] OTHER -> {0}

\* Deviation: the round that is being deleted is still counted.
CountBefore(op, r) == Cardinality(Existing \cup {r})

\* _refresh_course_state counts the rounds, the request's own change included.
CountAfter(op, r) ==
  Cardinality(CASE op = "delete" -> Existing \ {r}
                [] op \in {"create", "rate"} -> Existing \cup {r}
                [] OTHER -> Existing)

\* The UPDATE of a round that has gone fails; its DELETE only warns.
Hold(j) ==
  LET w == writer[j] IN
  /\ w.op \in WriterOps /\ w.pc = "begun"
  /\ w.touches => ~RowHeld(j, w.r)
  /\ w.op = "delete" /\ rounds[w.r].rated => ~UserBusy(j)
  /\ IF w.op \in {"update", "details"} /\ w.touches /\ ~rounds[w.r].exists
     THEN writer' = [writer EXCEPT ![j] = Ended]
     ELSE \E e \in Refreshed(w.op, w.r) :
            writer' = [writer EXCEPT ![j] =
              [w EXCEPT !.pc = "held", !.event = e,
                        !.eventWas = IF e = 0 THEN "private" ELSE events[e].vis,
                        !.n = CountAfter(w.op, w.r), !.loaded = state.count]]
  /\ UNCHANGED <<rounds, events, rating, state, history>>

-----------------------------------------------------------------------------
(* Committing: only what differs from what was read is written.            *)

Refreshes(w) == w.op # "details"
StateAfter(w) ==
  IF ~Refreshes(w) \/ w.n = w.loaded THEN state
  ELSE [count |-> w.n, played |-> w.n > 0 \/ Onboarded]
CollidesState(w) == Refreshes(w) /\ w.loaded = Missing /\ state.count # Missing

RoundAfter(w) ==
  CASE w.op = "create" -> [exists |-> TRUE, vis |-> w.vis, rated |-> FALSE]
    [] w.op = "rate" ->
         [exists |-> TRUE, rated |-> TRUE, vis |-> IF rounds[w.r].exists THEN rounds[w.r].vis ELSE w.vis]
    [] w.op = "delete" -> [NoRow EXCEPT !.rated = rounds[w.r].rated]
    [] OTHER -> [rounds[w.r] EXCEPT !.vis = IF w.vis # w.was THEN w.vis ELSE @]

\* Deviation: of a deleted round's events only those of its ratings go.
RatingsGo(r) == {e \in EventsOf(r) : events[e].rated}
\* The events that a deleted round takes along.
GoWith(r) == EventsOf(r)

\* Creating and rating add an event of their own, and so does an edit of the details that found
\* none, with the visibility the round was read with; a refreshed event follows the round.
IsLate(w) == w.op = "details" /\ w.event = 0
Adds(w) == w.op \in {"create", "rate"} \/ IsLate(w)
EventsAfter(j, w) ==
  CASE Adds(w) -> [events EXCEPT ![j] = [round |-> w.r, vis |-> w.vis, rated |-> w.op # "create"]]
    [] w.op = "delete" -> [e \in Writers |-> IF e \in GoWith(w.r) THEN NoEvent ELSE events[e]]
    [] w.event # 0 /\ w.eventWas # w.vis -> [events EXCEPT ![w.event].vis = w.vis]
    [] OTHER -> events

\* _delete_rating_ranking_evidence takes the rating of a deleted round.
RatingAfter(w) ==
  CASE w.op = "rate" -> w.r
    [] w.op = "delete" /\ rating = w.r -> 0
    [] OTHER -> rating

\* The event to refresh went with its round after it was read.
EventLost(w) == w.event # 0 /\ events[w.event].round = 0

CommitRound(j) ==
  LET w == writer[j] IN
  /\ Busy(j) /\ w.pc = "held"
  /\ ~(EventLost(w) /\ w.eventWas # w.vis)
  /\ writer' = [writer EXCEPT ![j] = Ended]
  /\ rounds' = [rounds EXCEPT ![w.r] = RoundAfter(w)]
  /\ events' = EventsAfter(j, w)
  /\ rating' = RatingAfter(w)
  /\ state' = StateAfter(w)
  /\ counted' = IF Refreshes(w) THEN w.alone ELSE counted
  /\ told' = IF w.alone THEN told \cup {w.r} ELSE told \ {w.r}
  /\ late' = IF IsLate(w) THEN late \cup {j} ELSE late

\* A refreshed event whose visibility or data differ is updated, and that fails if it has gone.
LosesEvent(j) ==
  /\ Busy(j) /\ writer[j].pc = "held" /\ EventLost(writer[j])
  /\ writer' = [writer EXCEPT ![j] = Ended]
  /\ UNCHANGED <<rounds, events, rating, state, history>>

-----------------------------------------------------------------------------
(* What other golfers may read.  A viewer is told apart by the relation to *)
(* the owner; "hidden" is one that is blocked or muted, either way round.  *)

Viewers == {"owner", "mutual", "follower", "stranger", "hidden"}

\* _event_visible, after the feed and _require_visible_event took out the hidden ones.
Audience(v) == CASE v = "owner" -> Visibilities
                 [] v = "mutual" -> Shared
                 [] v = "follower" -> {"public"}
                 [] OTHER -> {}
\* _event_matches_current_round_visibility.
MatchesRound(e) == rounds[events[e].round].exists /\ rounds[events[e].round].vis = events[e].vis
\* The feed of v, and the events v may open or react to.
Activity(v) == {e \in Writers : events[e].round # 0 /\ events[e].vis \in Audience(v) /\ MatchesRound(e)}

\* course_friend_thoughts: the memory and the link to the newest shared rating event.
RoundShared == rating # 0 /\ rounds[rating].exists /\ rounds[rating].vis \in Shared
ThoughtEvents == {e \in EventsOf(rating) : events[e].rated /\ events[e].vis \in Shared}
ThoughtLink == IF RoundShared /\ ThoughtEvents # {} THEN {Newest(ThoughtEvents)} ELSE {}

-----------------------------------------------------------------------------
LogStart(j) == CreateRound(j) \/ RateCourse(j) \/ UpdateRound(j) \/ PatchDetails(j) \/ DeleteRound(j)
LogNext == \E j \in Writers : LogStart(j) \/ Hold(j) \/ CommitRound(j) \/ LosesEvent(j)
LogSpec == LogInit /\ [][LogNext]_logVars

-----------------------------------------------------------------------------
(* Properties.                                                             *)

\* Every variable stays in its type, and the rating's round is a rating round.
LogTypeOK ==
  /\ rounds \in [Writers -> RoundRow]
  /\ events \in [Writers -> EventRow]
  /\ rating \in Ids
  /\ state \in [count : Ids \cup {Missing}, played : BOOLEAN]
  /\ writer \in [Writers -> Request]
  /\ counted \in BOOLEAN /\ told \subseteq Writers /\ late \subseteq Writers
  /\ rating # 0 => rounds[rating].exists /\ rounds[rating].rated

\* No event is left for a round that is gone (activity_events has no foreign key to rounds),
\* though ratings, edits and deletions of one round overlap: but for one that an edit of the
\* details inserted after the deletion, and that one no round will ever own.
EventsHaveRounds ==
  \A e \in Writers : events[e].round # 0 => (rounds[events[e].round].exists <=> e \notin late)

\* However many events a round has collected, and whichever of them were refreshed: after a
\* request that ran alone, whoever may see the round now finds an activity that tells of it.
RoundsAreTold ==
  \A r \in told \cap Existing, v \in Viewers :
    rounds[r].vis \in Audience(v) => \E e \in EventsOf(r) : e \in Activity(v)

\* The feed tells of rounds that exist, and of each to whom it is shown now.
ActivityFollowsRounds == EventsHaveRounds /\ RoundsAreTold

\* The played-course row is right again after any counting request that ran alone,
\* whatever overlapping ones left behind.
CountHeals ==
  counted /\ (\A j \in Writers : ~Busy(j)) /\ (Existing # {} \/ state.count # Missing) =>
    /\ state.count = Cardinality(Existing)
    /\ state.played = (Existing # {} \/ Onboarded)

\* A friend's thought on a course page links to an activity the friend may open.
ThoughtLinkOpens == ThoughtLink \subseteq Activity("mutual")

\* The played-course row has the number of rounds whenever nothing is under way.
CountIsRight ==
  (\A j \in Writers : ~Busy(j)) /\ Existing # {} => state.count = Cardinality(Existing)
=============================================================================
