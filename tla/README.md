# golf_rank: a TLA+ development

golf_rank is a FastAPI service (`src/services/api/app`) over PostgreSQL with an
Expo client (`src/apps/frontend`).  Users rank the golf courses they played,
log rounds, upload photos, follow friends, save lists and plan trips.  This
directory models its state machines, checks them with TLC on small instances
and proves the main results with TLAPS.

Contents: 1 inventory of the system, 2 the modules, 3 how each module
corresponds to the code, 4 runs, 5 bounds, 6 fairness and deadlock, 7 proofs,
8 what disagrees with the code's own words, 9 what is not modelled, 10 what comes next.

## 1. Inventory

Requests run concurrently, in several processes; their shared state is the
database at READ COMMITTED, so what orders two requests is a row lock
(`FOR UPDATE`), an advisory lock, or a unique constraint.  Three other stores
have no transaction in common with it: the object store, Redis, and the
identity provider.

| component | modelled in | state | operations | what is hard | what makes it correct |
|---|---|---|---|---|---|
| Rankings (`ranking.py`, `course_ratings.py`) | `Ranking`, `TierTable` | tier_assignments, comparisons, ranking_snapshots, user_course_ratings | place in tiers, compare, rate, seed from onboarding, read | a GET that writes; merged identities; a long mixture of moves | dense positions, current snapshot and ratings, preferred above other |
| Rounds (`rounds.py`) | `RoundLog`, `Ranking`, `PhotoStorage` | rounds, round_notes, companions, user_course_states, activity_events | create, patch, delete, list | reads before locks; counts without locks | counts and events agree with the rounds |
| Saved lists (`saves.py`) | `SavedLists` | saved_lists, saved_courses | create, rename, make default, delete, save a course | check-then-insert of the default | one default list |
| Social (`social.py`) | `Social`, `RoundLog` | follows, blocks, mutes, reactions, notifications, linked contacts | follow, unfollow, block, mute, react, link | a block against a concurrent follow | no follow across a block, one notification per event |
| Push (`push_notifications.py`, client `pushTokens.ts`, `AuthProvider.tsx`) | `PushTokens`, `Social` | push_tokens; the client's pending registrations | register, unregister, deliver, sign out | late requests, tokens that change hands | a device receives only its account's notifications |
| Plans (`plans.py`) | `Plans` | plans, candidates, itinerary, generations | create, update, save, AI itinerary | an await between a check and its use | cost ceiling, itinerary of the current plan |
| Featured course (`featured_courses.py`) | `Featured` | daily_featured_courses, reservations in Redis | get, dismiss, save | reservations that expire, one active row | budget, at most one active row and three dismissals |
| Course images and the distributed lock (`course_images/`, `core/distributed_lock.py`) | `HeroImage`, `RedisLock` | course_images, negative cache | resolve hero, store Wikimedia image | a lock that fails open | one hero per course |
| Photo uploads (`course_photo_uploads.py`, `storage.py`) | `PhotoStorage` | course_images, stored objects, failed_object_deletions | presign, confirm, discard, delete, retry | two stores, no common transaction | no row without an object, no object without an owner |
| Photo scoring and moderation (`course_photo_scoring_job.py`, `course_photo_moderation.py`) | `PhotoModeration` | status, score, claim of each photo | claim, score, approve, reject, feature | leases, answers after a decision | a human decision stands |
| Accounts (`main.py`, `domain.py`) | `Social`, `Ranking` | users, deleted_identities, the identity provider's account, preferences | first write, save preferences, delete | creation against deletion, partial failure | a deleted identity does not come back |
| Rate limits (`core/rate_limit.py`) | `RateLimit` | buckets and quotas in Redis | charge | integer time, several buckets | no more than the capacity per window |
| Green fees (`green_fee_suggestions.py`) | `GreenFees` | suggestions, course fee | suggest | concurrent agreement | the fee is set once, by agreement |
| Reconciliation and import (`course_reconciliation.py`, `catalog_import.py`) | `Ranking` (environment) | course_reconciliations, courses | confirm a mapping, import | identities that merge under rated courses | rankings stay on canonical courses |
| Client rating flow (`RatingFlow.tsx`, `coursePhotoUpload.ts`) | `RatingFlow` | the form and its baselines, the save under way, staged photos | edit, continue, compare, stage, remove, close | handlers that go on with old values; answers that get lost; uploads that finish late | what is revealed is saved; every photo is attached, kept, discarded or reported |

How they interact: a rating creates a round and an activity event; deleting
that round deletes the rating's evidence and stages a new snapshot; saving the
onboarding answers, and reading the ranking, seed it; a confirmed mapping moves
the identity of a course under all of them; photos hang on rounds and go with
them, and with the account; social requests read rounds and events through the
visibility they carry and hand notifications to the push task.

`PROJECT.json` lists every component with its status, also those that are not
modelled, and every hazard with its line and the properties that would catch it.

## 2. Modules

| module | models | extends |
|---|---|---|
| `TierTable` | the placement rows of one user and the pure functions that reorder and rate them | |
| `Ranking` | every request on rankings, ratings and rating-owned rounds of one user | `TierTable` |
| `RankedLists` | *abstract*: what each request does to the lists a user sees; `Ranking` implements it | |
| `RatingScale` | the rating scale for up to `MaxCount` finished courses | `TierTable` |
| `MCRanking`, `MCRankingStories` | instances of `Ranking`; the stories the runs `rating` and `seeding` tell | `Ranking`, `RatingScale` |
| `PhotoModeration`, `MCPhotoModeration` | status, score, claims and heroes of a course's photos | |
| `PhotoStorage`, `MCPhotoStorage` | the rows and the stored objects of uploaded photos | |
| `RatingFlow` | the form in which the app rates a course, its saves and its staged photos | |
| `MCPhotoClient` | instances of the last two | `MCPhotoStorage`, `RatingFlow` |
| `Social` | follows, blocks, mutes, contacts, likes, notifications, their delivery, accounts | |
| `RoundLog` | one golfer's rounds of a course, their activity events, the counts, and who may read them | |
| `SavedLists` | one golfer's saved lists, saved courses and their activity | |
| `GreenFees` | the suggestions that set the green fee of a course | |
| `MCGolfers` | instances of the last four | `Social`, `RoundLog`, `SavedLists`, `GreenFees` |
| `Plans` | plans and the AI itinerary, with its limit and its provider call | |
| `Featured` | the featured course of the week, its locks and its budget, on several workers | |
| `RateLimit` | token buckets, quotas, and the requests that go through them | |
| `Coalescing` | *abstract*: what the distributed lock promises | |
| `RedisLock` | the lock of `core/distributed_lock.py` with its circuit breaker; implements `Coalescing` | |
| `HeroImage` | the resolvers of a course's Wikimedia photo under that lock | `RedisLock` |
| `MCProviders` | instances of the modules that call a provider, and of `RateLimit` | `Plans`, `Featured`, `RateLimit`, `HeroImage` |
| `PushTokens` | one device's push token: the app, its sign-out, and the server | |
| `MCBackground` | instances, with fairness, of what must come to an end | `PhotoModeration`, `PushTokens` |
| `FiniteOrders` | ranks and extreme elements of finite sets, for the proofs | |
| `RankingProofs` | lemmas and theorems on rankings and the rating scale | `Ranking`, `RatingScale`, `FiniteOrders` |
| `RatingFlowProofs` | lemmas and theorems on the form | `RatingFlow` |
| `PhotoStorageProofs` | lemmas and theorems on uploads, and on uploads and form together | `MCPhotoClient`, `RatingFlowProofs`, `FiniteOrders` |
| `BackgroundProofs` | lemmas and theorems on moderation, on the push token, and on both together | `MCBackground` |
| `HeroImageProofs` | lemmas and theorems on the lock and the hero under it | `HeroImage`, `Coalescing` |
| `ProviderProofs` | lemmas and theorems on what is paid and metered | `MCProviders`, `HeroImageProofs`, `FiniteOrders` |
| `GolferProofs` | lemmas and theorems on golfers and their records | `MCGolfers`, `FiniteOrders` |

`HeroImage` composes with `RedisLock`: a resolver goes through `TryLock` and
`LeaveLock` and nothing else touches the key.  The other modules put together
in an MC module share no state: a behaviour is of one of them (`about`,
`side`, `story`), so that several questions are asked in one run.

An operator whose comment begins with *Deviation* is a plausible bug: a variant
of a definition that the specification does not use.  Each property is paired
with one deviation that it refutes (`"mutants"` in `PROJECT.json`), which shows
that the property says something about the code.  A property that bundles
several named parts is paired with a deviation that breaks one of the parts.

## 3. Correspondence with the code

`PROJECT.json` (`"map"`) gives the lines of every definition.  This section says
what was kept and what was abstracted.

### TierTable and Ranking

One user: every handler writes only the rows of its own user.  One that changes
placements, comparisons or ratings takes `SELECT ... FOR UPDATE` on the user's
row (`_lock_user_for_ranking_update`) and holds it until the commit, so what it
does from the lock on is one action.  What a handler has read *before* the lock
may be stale by then, and is an action of its own:

- `delete_round` has read the round, its course and whether it is a rating round
  (`DeleteRoundBegin`);
- `get_ranking` has read the onboarding answers, looked whether they are settled,
  and resolved their pairs to canonical courses (`GetRankingBegin`); so has
  `save_preferences`, for the answers that it saves (`SaveBegin`).

Each such request has a slot, and every other request may run in between.  A
save takes the advisory lock of the identity first, which placing and rating
need too (`stored_user` with `create`): they wait for it (`~saving.busy`), while
comparisons, reads, deletions and edits do not.  A `PATCH` of a rating-owned
round takes no lock of the user at all (`PatchRatingRound`).

| variable | code |
|---|---|
| `table` | `tier_assignments` |
| `comparisons` | `comparisons`, as a set of numbered copies |
| `rounds` | the `rounds` rows with `is_rating_round` |
| `proj` | `user_course_ratings`, the current rating of each course |
| `snap` | the latest `ranking_snapshots` row |
| `canon` | confirmed `course_reconciliations` |
| `onb` | the questions and favourites in `onboarding_data` |
| `deleting` | what each running `delete_round` has read |
| `reading`, `saving` | the pairs that running requests have resolved, and the answers of the save |

| action | code |
|---|---|
| `PlaceInTiers`, `PlaceTwoInTiers` | `place_in_tiers` (`PUT /rankings/tiers`) |
| `CompareCourses` | `compare_courses` (`POST /rankings/comparisons`) |
| `CreateRating`, `ReviseRating` | `put_course_rating`, without and with a current rating |
| `PatchRatingRound` | `update_round`, `patch_rating_details` |
| `DeleteRoundBegin`, `Commit`, `Abort` | `delete_round` |
| `GetRankingBegin`, `Commit`; `SaveBegin`, `Commit` | `get_ranking` and `save_preferences`, the callers of `seed_onboarding_rankings`, up to the user's lock and from it on |
| `ConfirmMapping` | `confirm_mapping`, the environment |

`StageAndCommit` is `_stage_snapshot` with the commit that follows: it
renumbers the tiers, derives the entries and updates, deletes or creates the
current ratings.  Every ranking request ends in it.

`RankedLists` is what a user may expect of those actions.  There every tier is
a list: which course is in it, and which one is above which (`above`, a set of
pairs).  A request names courses, tiers and places, never a position or a row:

| of `RankedLists` | of `Ranking` | promise |
|---|---|---|
| `Place` | `PlaceInTiers`, `PlaceTwoInTiers` | the course is the n-th of its list, or the last; nobody else moves |
| `Compare` | `CompareCourses` | the preferred course goes right above the other, unless it is above it already, and the new comparison records that pair and that preference |
| `Rate` | `CreateRating`, `ReviseRating` | of the courses of one identity one is kept, in its place or at the end of another list, and the comparison of the request is made there |
| `Remove` | `DeleteRoundCommit` | one course and the comparisons that name it are gone |
| `Seed` | `GetRankingCommit`, `SaveCommit` | courses that nobody has finished become placeholders; only comparisons among them are added |
| `Map` | `ConfirmMapping` | no list changes |

`ListsKeepPromise` says that `Ranking` implements it: `ListsOf` maps rows to
lists by the order of `ORDER BY ordinal_position, id` and forgets the positions,
so that the renumbering of `StageAndCommit`, gaps, ties and the order of keys
must not show.  One promise is weaker than one would wish: where several courses
of one identity were ranked (`several`), the place at which a rating enters a
list is open and its comparison may do nothing.  That is the tie of section 8.

Abstractions.

- Primary keys only break ties, so a row carries an *age*, the rank of its key,
  and a round its place in the order of `updated_at` (and `id`, which breaks
  ties).  The column gets `now()`, which is when the transaction *began*: before
  it waited for the user's lock, or without any lock in a `PATCH`.  The order of
  `updated_at` is therefore not the order of commits, and `Touched` gives a
  written round any place among the others.
- Ratings are computed exactly, in tenths, half to even.  The code rounds a
  binary floating-point number (`ranking.py:164`), which at some ties gives the
  other neighbour: with five courses in the fairway index 1 is 8.1 in the code
  and 8.0 here.  No property depends on it: the bands, the order and the
  distances are those of either neighbour.  Confidence is the pair of counts that
  it is a function of.
- Snapshot versions are left out; `snap` is the latest one.
- A revision of a rating may or may not touch its round (whether a detail
  changed is a choice); its own place is one of the places in the order.
- The answers, the settled courses and the pairs of a seeding are taken as read at
  one moment.  A read or a save that is given up before its commit leaves no more
  than one that never came.
- A key of a round is reused only when no request in flight still names it.
- A mapping is confirmed between two steps, never inside one.  Placing, comparing
  and rating resolve the courses they name before they wait for the user's lock,
  and read identities again under it; a mapping that commits between those reads
  is not modelled.  The run `seeding` has no mappings (`Mappable` is empty);
  the theorems have.

What the model shows about behaviour that is odd but contradicts nothing the
repository says: a course rated, moved to *not sure* and rated again has two
rating-owned rounds, and deleting the older one takes the newer rating's
placement and comparisons with it (`rounds.py:631`, deletion by course).
`ProjectionsFollowSnapshot` and `RatedCoursesAreProjected` hold there too: the
course is unranked then and its remaining round owns nothing.

### PhotoModeration

The photos of one course.  Each write locks the photo's row and commits before
any call outside, so a transaction is one action, and what spans several is
split: an attempt to score is `ClaimForScoring` and one of `CompleteScoring`,
`ReleaseScoreClaim` and `ScorerStops`; the rescore script selects a batch
(`SelectBatch`) and resets its photos one by one (`ResetForRescore`);
`feature_user_image` fixes the rows it will lock (`FeatureUserImage`) before it
has them all (`FeatureCommits`).  That last split is what READ COMMITTED does:
a query that waits for row locks returns the rows that existed when it started.

`row[p].claim` names the attempt whose `scoring_claimed_at` the row holds.
There is no clock: a claim may be old enough to be taken over at any time,
which includes every choice of the lease and of the duration of a call.

### PhotoStorage

The uploads of one user for one course.  A confirm (`confirm_upload` with
`add_user_image`) is a sequence of steps, one for each call to the store and
for each piece of its transaction that another request can come before; the
row locks of the round and of the user are variables, and a foreign key check
waits for them as PostgreSQL's does.  `delete_round` is `DeleteRound`,
`CollectPhotos`, `DeleteRoundCommits`, and the deletions of objects that follow
the commit; the retry script is `RetryDeletion` and `RetryCommits`.

Failures are chosen by `Faults`: a deletion or a copy that fails or whose
answer is lost, a connection that breaks during a commit (which may have
happened), a process that dies.  Some of them leave an object that nothing in
the code will ever find; the photos they hit are in `mishaps`, and the
properties say that nothing *else* is lost.  The mishaps are exactly: a crash of
the request that answers for the object, a lost answer to a copy or to a commit
that did happen, and a failed deletion in a session that cannot be written any
more.  The kind of a round (ordinary or rating-owned) is chosen at the start: it
only decides whether `delete_round` locks the user.

Two observations, consistent with the code's comments: the retry script deletes
the object of a recorded key without looking for a row, so a photo confirmed
again after a failed attempt can lose its object (`RowHasObject` speaks of
photos confirmed with one call); and `delete_round` of a rating round (user,
then round) can deadlock with a confirm (round, then user), which the database
resolves by aborting one of them (`BreakDeadlock`).

### RatingFlow

The component's `useState` and `useRef` cells are the variables (`form` is what
the fields hold, `baseline` is `coreBaseline` with `detailsBaseline`), and a
handler that awaits is `save`: the step it has come to and the values of the
render that started it.  `continueFromRound` and `persistRating` are
`ContinueFromRound` or `Chooses`, then `CandidateAnswers`, `RatingSaved` or
`RatingFails`, `DetailsSaved` or `DetailsFail`, and `Reveals`, the end of
`finalizePhotos`, whose confirmations are answered one by one (`Confirmed`).
Meanwhile the golfer may do what the screen allows while it is busy: edit, turn
back, pick a photo, leave.  At most one handler runs, because Continue and the
choices are disabled while the form is busy; the `savingRef` behind them is not a
variable of its own.  The date, the score and the fields of the details are one
value each, always valid; `existingPhotos` begins empty.

Each call may fail before the server has done anything, or after (`unsure`).
A confirmation that is refused has deleted its object, except when the refusal
came before the handler looked at it (an expired session), which counts as a
mishap too.  What a call does on the server is one step here; `PhotoStorage` and
`Ranking` take it apart.  After `Closes` the remaining handlers and uploads go
on, and what they set has no effect any more.

### Social

Two golfers or more; requests are numbered in the order they start, and a
behaviour has `Requests` of them.  `db` is the committed tables, `job` what each
running request has read, `push` the background deliveries.  A handler whose
outcome depends on what it read before another request's commit is split at
that point; the others are one action (`Write`).

| action | code |
|---|---|
| `FollowCheck`, `FollowLock`, `FollowCommit` | `follow_user`: blocks and target, the pair lock and the follow rows, the inserts |
| `LikeCheck`, `LikeCommit`; `RemoveLike` | `add_reaction` with `_notify_reaction`; `remove_reaction` |
| `MatchContacts`, `MatchCommit`; `UnlinkContacts` | `link_contacts` and `save_preferences` with `notify_linked_contacts`; `unlink_contacts` |
| `Unfollow`, `Block`, `Unblock`, `Mute`, `Unmute`, `ChangeRound` | the handlers of these names; `update_round`'s visibility |
| `RegisterToken`, `UnregisterToken` | the two `/me/push-tokens` handlers, here in one step |
| `DeleteAccount` | `delete_account`: identity lock, tombstone, cascade |
| `Acquire`, `Prepare`, `Send` | `run_push_delivery_task` and `send_push_notifications`: the slot, the re-check of preferences, blocks and mutes, the batches |

`require_user(create=True)` takes an advisory lock on the identity and holds it
to the end: `IdentityLocked` is derived from the running requests of `Creating`.
`Commit` is what the tables do: a foreign key to a deleted user ends the
request, a second row of a unique key is a collision.  The identifiers of
contacts are pairs (owner, golfer); when the identity provider cannot be asked
for the verified addresses, `MatchContacts` tells nobody and its request writes
the rest.  `delete_account` commits the tombstone and the cascade first and asks
the identity provider to delete its account afterwards.  That call changes no
row: if it fails the answer is 202 `deletion_pending`, and the tombstone keeps
the identity out meanwhile, which is what `DeletedLeavesNothing` is about.

### RoundLog and SavedLists

One golfer.  A request of `RoundLog` reads (`CreateRound`, `RateCourse`,
`UpdateRound`, `PatchDetails`, `DeleteRound`), takes its row locks and counts
(`Hold`) and commits (`CommitRound`); only columns that differ from what was
read are written, as the ORM does, so a request that read an old visibility may
leave a newer one alone, and an edit that changes no column of the round
(`touches` is false) takes no lock on it and can commit although the round has
gone.  An edit of the details refreshes the newest event of the round, or inserts
one when it finds none (`_record_rating_event` with `create=False`).  One that
read before a deletion committed thereby inserts an event *late*, of a round that
is gone: `late` marks it.  Nobody is shown such an event and no round will own it,
but the row stays.  Notes and companions refer to the round by foreign key, which
locks its row or fails like a change of a column; they are not told apart from one.
What social.py shows is the operators `Activity` and `ThoughtLink`, for five
kinds of viewer; that a shown event has the visibility of its round
(`MatchesRound`) is the code's own filter and no result.  `counted` says that the
last commit counted and ran alone, `told` for which rounds the last commit did.

An edit of a list (`UpdateSavedList`, `UpdateCommits`) may rename it, change its
visibility and make it the default; a name that another list has by then is
refused, by the 409 or, when a later statement of the request flushes it, by an
error of its own, and nothing is written either way.
A request of `SavedLists` reads, then writes and commits in one step, but
`delete_saved_list` clears the activity before it locks the list
(`ClearActivity`, `DeleteCommits`).  Nothing locks a list between the read and
the write, so the one-default rule holds only for requests one after the other;
`overlapped` tells these behaviours apart and `chosen` those in which a choice
of a default has repaired what overlapping ones left.

### GreenFees

`submit_green_fee_suggestion` locks the course row (`FOR UPDATE`), so it is two
actions, `Submit` (lock, upsert, read of the pending rows) and
`SubmissionCommits`; an import waits for that lock (`CourseIsFree`) while the
deletion of another golfer's account does not, and may take a row away that the
submission is about to mark as applied.  `Cluster` is `_largest_agreeing_cluster`
and `RoundedAverage` Python's `round`.

### Plans

`update_plan` deletes the rows its statements see and inserts at the commit
(`UpdatePlan`, `UpdateCommits`).  A generation is `BeginGeneration` (the
candidates, the month's cost), then the provider without a transaction, then
`GenerationCommits`.  The provider is not reached or refuses (`ProviderFails`, not
billed); answers with success but blocked, cut off, without usage figures or not
to be parsed, or too late (`AnswerIsUnreadable`: billed, and the cost is dropped,
`planner_narrative.py:166-186` and `plans.py:837-843`); or gives an answer that
can be read (`ProviderAnswers`: the plan is read again and must still ask for the
same; the items may still be refused, and then the cost is recorded).  A payload
stands for its set of candidates; a call costs one unit.  `crossed` marks plans
written while another request was between its reading and its commit, `voided`
billed calls that leave no cost: the answer was unreadable, the plan had changed,
or the plan is gone and its generations with it.  The deletion of an account is
`DeletePlan` of each of its plans.

### Featured

The handlers are coroutines that use a blocking driver, so a worker runs one at
a time and lets go only at an await: `Runs` and `Synchronous` say so, and a
request that waits for a row lock keeps its worker.  `GetArrives`,
`GetIsLocked`, `Reserve`, `ProviderReplies`, `GetInserts`, `CostIsFolded`,
`FoldingResumes` are `get_featured_course`; `DismissArrives`,
`DismissIsLocked`, `DismissCommits` are `dismiss_featured_course`.  The
dictionary of locks that is emptied when it is full is `LocksAreCleared`; a
lock of an older `epoch` excludes nobody.  `AccountIsDeleted` is `delete_account`:
the picks go with their user and so do the costs recorded on them (`erased`
counts them).  A GET that was at the provider meanwhile has its insert refused, a
folding cost finds no row; a dismissal holds the pick's row and the deletion
waits for it, and when the dismissal's insert then waits for the user's row the
database ends one of the two (`DismissIsAborted`).  An answer that comes after the
timeout, or is not JSON, may be billed at a cost the code never learns:
`paidFor` does not count it.  A process that dies and a database that fails
during a request are left out.  Which candidate scores best is left open; the
radius, state and catalogue attempts of `resolve_featured_candidate` are the
sets `Local`, `InState`, `Catalogue`.

### RateLimit

A request is charged in the buckets and quotas of its policy one after the
other; each Redis script is one action (`ChargeBucket`, `ChargeQuota`), and may
fail before or after it has run.  Time is in whole ticks.  The API's clock
chooses the date of a quota (`ReadDate`); Redis's clock may be set back
(`ClockIsSetBack`), which the scripts meet with `max(0, ...)`.

### RedisLock, Coalescing and HeroImage

`try_lock` is `TryLock` (the SET NX, or an open breaker, or a failure whose
command may have run) and `LeaveLock` (compare and delete, or a failure).  The
key may vanish at any moment (`KeyVanishes`): it expires, is evicted, or is
lost.  `trusted` says that no call has failed and no key has vanished in use;
`Coalescing` speaks of that time, because the code promises no more.
`LockKeepsPromise` is the refinement, with *inside* those who hold the lock or
were let in without it.

A resolver (`_resolve_wikimedia`) opens with a cache snapshot, takes a stripe
of its process without waiting and the Redis lock, looks again, asks Wikimedia
and stores the result in a transaction of its own.  The scripts and the import
that write the same rows take no lock: a refreshed or a removed gallery
(`GalleryIsRefreshed`, `GalleryIsRemoved`), another hero among the photos that
`score_course_photos` had read before it scored them (`HeroIsPicked`), a hero
for a course that had none when `backfill_course_photos` began
(`PhotoIsBackfilled`), and new coordinates (`CourseMoves`).  `overtaken` marks
behaviours in which one of them wrote between a resolver's look and its write,
or itself wrote on what it had read before somebody else did.

### PushTokens

One device.  A call has a client side, which waits and gives up, and a server
side, which goes on regardless: `waits` and `at`.  Server steps are the
statements of `register_push_token` and `unregister_push_token` between which
another request can commit (`Reads`, `Inserts`, `Reassigns`, `LooksOnceMore`,
`Deletes`).  The UPDATE of a row leaves the account out when the row that was read
had it already (`own`); a row that was deleted and inserted again since is
another row, and the UPDATE fails (`orphan`, a `StaleDataError`).  `stored` says
that the token was the account's at some time since the call was sent.  A
registration whose INSERT lost the race, and which finds the winner's row deleted
at its second look, commits nothing and is answered 204 all the same
(`push_notifications.py:100-109`): `gone` marks it.  `SwitchesOff` runs at any
time, as `unregisterCurrentPushToken` has no guard.  `signOutWithPushCleanup` is
`StartsLeaving`, `Unregisters`, `Answered` or `TimesOut`, `SignedOut`.  `failed`
tells the behaviours in which a call was given up or the app was killed.

## 4. Runs

| run | question | distinct states |
|---|---|---|
| `rating` | do placements, comparisons, ratings and deletions in flight keep rows, rounds, ratings and snapshot consistent, also when courses become one? | 47,935 |
| `seeding` | does a favourite that is saved, seeded, corrected and seeded again leave alone what the user has finished, and is the rating scale sound? | 134,032 |
| `read_order` (violation) | does reading a ranking keep the order the user gave? | |
| `merged_tie` (violation) | does a comparison in a rating that merges rows put the preferred course above? | |
| `photo_moderating` | do two administrators, a scoring attempt and the rescore script leave one hero, and human decisions standing? | 732,175 |
| `photo_arrival` (violation) | is there one hero also when a photo arrives during a feature request? | |
| `photo_round` | do the cap, the rows and the objects hold under races and failures, and does the form that rates a round lose nothing silently? | 1,176,762 |
| `photo_cap` (violation) | does the cap hold when a confirm collides with an upload for the same course? | |
| `golfers` | what do overlapping requests of golfers leave of relationships, rounds, lists and fees? | 896,276 |
| `providers` | do spending limits, meters, the itinerary, the featured week and the hero survive slow and failing providers and deleted accounts? | 2,499,720 |
| `self_wait` (violation) | does a worker never wait for a row lock that one of its own suspended requests holds? | |
| `background` | does a sign-out always end and a claim that died get picked up again? | 292,937 |

Which properties a run checks is in its `.cfg`; the comment above each property
says what it means.  What they show, property by property:

- *Ranking.*  `DerivedRowsAgree` (`DensePositions`, `SnapshotCurrent`,
  `ProjectionsFollowSnapshot`, `OneRatingPerRound`, `RatedCoursesAreProjected`):
  however requests and halves of deletions interleave, the five tables agree.
  `ListsKeepPromise`: the refinement of `RankedLists`.
  `RatedRoundOwnsRating`: when a rating creates a round or moves one to the
  canonical course, the course is rated there and nothing of its identity is left
  elsewhere; the rating is owned by that round, or by another kept round of the
  course that says it was written later.  `ComparisonsObeyed`
  (`PreferredEndsAboveUnlessDoubled`, `ComparisonMovesOnlyPreferred`): a comparison
  that the user makes does what was asked, unless one of the two was ranked under
  several courses before (`merged_tie` shows why), and nothing else; the
  favourites of the onboarding, which are recorded as comparisons too, go by
  their wins instead and are left to `SeedingSettles`.  `RatingsAreEarned`
  (`RatingsFollowRank`, `PlaceholdersDoNotShift`): the ten-point ratings follow
  the list, and the two scales in one tier do not disturb each other.
  `SeedingIsHarmless` (`SeedingKeepsFinished`, `SeedingSettles`): a seed touches
  only placeholders, whatever was committed since its answers were read, and
  whoever has read the same pairs finds nothing to seed after it.  `ScaleHolds`
  (`RatingsInBand`, `RatingsSeparateCourses`): the scale of a tier for up to 60
  courses.
- *PhotoModeration.*  `OneHero`; `StatusIsExplained`, with it that a hero is
  approved; `HumanDecisionStands`; `SupersededAttemptWritesNothing`;
  `NoPhotoIsStranded`.
- *PhotoStorage.*  `RoundCap`, `RowHasObject`, `NoOrphan`.
- *RatingFlow.*  `NothingIsLostSilently` (`RevealedIsSaved`, `NoPhotoVanishes`,
  `LeavingCleansUp`): whichever calls fail, the reveal comes only when the server
  has the form, and a photo is staged, attached, reported or discarded.
- *Social.*  `MutualIsAnnounced`: two follows at the same moment still announce
  the mutual one, because of the pair lock.  `RequestsGetThrough`: no work is
  lost to another request's row, and nobody waits in a circle.  `OnePush`: a
  notification reaches a device once.  `DeletedLeavesNothing`: a deleted
  identity leaves no row and never comes back.
- *RoundLog.*  `ActivityFollowsRounds`: no event outlives its round, except one
  that an edit of the details inserted after the deletion; and after a request
  that ran alone, whoever may see the round finds an activity that tells of it,
  whichever of its events were refreshed.  `CountHeals`: the count,
  which overlapping requests can get wrong, is right after any that ran alone.
- *SavedLists.*  `DefaultIsKept`, `ActivityFollowsLists`.
- *GreenFees.*  `FeesSettle`: golfers who agree set the fee, once, and never
  over one from the catalogue.
- *Plans.*  `ItineraryFitsPlan`: the candidates and the itinerary are those of the
  plan as it is, whole, unless two commits crossed.  `PlanSpendHolds`: a billed
  call whose answer can be read counts, also when its items are refused, unless
  its plan changed or is gone; and what is *recorded* of the month exceeds the
  limit by no more than the calls under way together.  What is really spent is not
  bounded (section 8).
- *Featured.*  `FeaturedWeekHolds`: numbered without gaps, one on show, no
  repeat before the catalogue is exhausted.  `FeaturedSpendHolds`: one worker
  pays for no more calls than the limit and those whose recorded cost went with a
  deleted account, and records what it pays, but for these.
- *RateLimit.*  `MetersHold`: what passes a bucket or a quota is bounded over any
  time, also when Redis's clock is set back, no itinerary goes unmetered, and a
  refusal's waiting time suffices.
- *HeroImage, RedisLock.*  `HeroesSettle`: one hero, and none that a remembered
  miss has refuted.  `LockKeepsPromise`: the refinement.
- *PushTokens.*  `NoStrayToken`; `AnsweredMeansStored`: an answered registration
  has made the token its account's, but for the lost race named in section 8;
  `SignOutEnds`.

`CountHeals`, the second half of `ActivityFollowsRounds`, `DefaultIsKept` and
`ActivityFollowsLists` are conditional on purpose: the code takes no lock there,
and section 8 says what is lost.

## 5. Bounds

- *Ranking.*  Three courses: a comparison involves two, and the third is the
  bystander whose place must not change, the peer after a gap, or the course
  that two questions share.  Two rating rounds: enough for two rounds of one
  course and for rounds of two courses that become one.  Two deletions in
  flight in the story `merges`, one elsewhere.  In `seeds` only reads and saves
  come during a deletion, two requests are between what they have read and their
  commit at most (a read and a save, a save and a deletion), and only the two
  courses that the favourite is about are compared; in `batches` one is under
  way.  `MaxComparisons` (at most 2) bounds the comparisons a user records; a
  comparison only matters by its pair and its favourite, and by the counts
  behind the confidence.  `MaxBatch` is 2 in the story `batches`: placements in
  a batch are applied one after the other, so longer batches are repetitions.
  Each story takes the tiers its question needs: `rates` places at the front, in
  the second place or without a position (among the not sure, which are no list,
  without one), and `merges` in front or without one.  `Answers` are two
  versions of the onboarding answers, so that a favourite is corrected.
  `MaxCount` is 60: the widest band has 40 tenths, so the counts at which
  ratings must begin to repeat are inside the bound.
- *PhotoModeration.*  `photo_moderating` has two photos (one hero and another),
  two administrators and one scorer; photos arrive while no feature request is
  under way (`QuietSpec`), because `photo_arrival` shows what happens otherwise.
  What a superseded attempt may do concerns its photo alone, so `background` has
  two scorers, two attempts and an administrator for one photo.
- *PhotoStorage.*  `MaxPhotos` 1 stands for the code's 5: what matters is one
  confirm more than fits.  `MaxTries` is the code's 3.  `MaxConfirms` bounds
  how often a client repeats a confirm; 2 is a lost answer with a retry, or two
  overlapping calls.  Two requests at a time in `photo_round`, three in
  `photo_cap`, which needs the confirm that collides, the upload it collides
  with and the confirm that takes the place.
- *RatingFlow.*  Two tiers, two rounds (a date with a score) and two details are
  what the branches of Continue tell apart; two photos, so that one is ready
  when the other is picked.  `MCPhotoClient` takes the form once with all edits
  and no photos, and once with photos while the tier alone is changed: photos and
  fields meet only in whether Continue has anything to do.  Nothing bounds the
  length of a behaviour.
- *Social.*  Two golfers, one round, one device and `Requests` 3 on top of any
  earlier follows and contacts: two requests race and the third meets what they
  left.  `Slots` is 1, so that a delivery finds none.
- *RoundLog, SavedLists, GreenFees.*  `LogRequests` 4: a round is created, rated
  and then changed by two overlapping requests.  `OldLists` 2 and `Saving` 3: a
  default, another list (both public and the first with every course, if there
  are two to begin with), and a request after two that overlapped.
  `Submissions` 4 of three golfers with the fees 40, 50, 60: agreement is
  between neighbours but not between the extremes, and a fourth submission
  corrects one.
- *Plans, Featured.*  `PlanRequests` 4 (a plan, two generations or a change
  during one); `CostLimit` and `SpendLimit` 1 call, exceeded by the second.
  `FeaturedRequests` 4 on one or two workers, `LastSequence` 3 for the code's 4,
  two courses so that the catalogue is exhausted; `MaxClears` 1.
- *RateLimit.*  `Capacity` 3, `Refill` 2, `Cost` 3: the tokens after a charge do
  not divide evenly.  `MaxTick` 3 with days of 2 ticks passes one midnight;
  `MaxSetBack` 1.
- *RedisLock, HeroImage.*  Two callers in two processes, `Threshold` 1, two
  writes, one relocation.  A behaviour of this run ends when a script has
  overtaken a resolver, because `HeroesSettle` says nothing any more; the
  theorems of section 7 have no such bound.
- *PushTokens.*  Two accounts, two calls at a time (`Calls`): a registration
  that was given up and the call that follows it.  `UNREGISTER_ATTEMPTS` is the
  code's 2.  Nothing bounds the length of a behaviour.

Symmetry sets contain round keys, request slots, staged photos, and courses that no constant
names; the run that checks liveness uses none.

## 6. Fairness and deadlock

Only `background` checks liveness.

- *PhotoModeration* (`Fairness`).  Strong fairness of claims says that the
  sweep script is run again and again and comes to every photo it selects while
  leases run out; weak fairness of the end of an attempt says that the call to
  the provider has a timeout and that a process that stops does stop.  Nothing
  is assumed of the administrator: a photo that is decided, or suppressed by a
  hero, is not stranded at that moment.
- *PushTokens* (`ClientFairness`).  Timers fire and promises continue on the
  client (`withTimeout`, `withAbortTimeout`), and Clerk's sign-out answers or
  fails.  Nothing is assumed of the server or of the network: `SignOutEnds`
  holds although no call is ever answered.

The other modules state safety only: the code promises nothing about when a
client calls, or that a provider answers.

Deadlock is checked in `rating`.  It is off elsewhere because the model really
stops there: the requests of a behaviour are bounded (`golfers`, `providers`,
`self_wait`, `photo_round`, `photo_cap`), all photos may be decided or deleted
(`photo_*`), or the count of the scale ends (`seeding`).  That requests do not
block each other for ever is then a property: `RequestsGetThrough`,
`NeverWaitsForItself`.

## 7. Proofs

The theorems hold for every set of users, devices, courses, rounds, photos,
requests, answers, workers and attempts, and for every bound, from the
assumptions on the constants that each module names where it declares them
(`CourseFinite`, `RankingAssumption`, `OwnerAssumption`, ...).  They say that
the bounds are numbers, that values with a meaning of their own (`None`,
`NoTier`, `Nobody`) are no users, tiers or accounts, and what the schema or the
configuration fixes: a round has one owner, an alias leads to a course that is
its own canonical one, a request costs no more than a full bucket holds, the
key of an address is none of a user's, and the workers are finitely many.

*RankingProofs: the table.*  A place in a strict order is a rank: `RankLemma` of
`FiniteOrders` says that
`Slot` numbers the rows of a finite set 1, 2, ... without ties, from which
`NormalizedDense` follows.  Each function that moves rows keeps a table well
formed (`InsertInTierLemma`, `PreferWellFormed`, `PlaceAtWellFormed`,
`AppendToWellFormed`, `MergeIdentityLemma`, `DropRowsLemma`, `SeedRowsLemma`),
in particular the keys that break ties stay distinct, and a rating is a number
whatever the count (`PersonalRatingType`).

*RankingProofs: the requests.*  None of the properties is inductive.  `ProjectionsFollowSnapshot`
after a step needs that a current rating equals what the projection loops make
of its entry and its *own* round, that a round is named by projections of its
own course only, and that the snapshot was current before.  So

    IInv == RowsOK /\ RatingsOK /\ RequestsOK

where `RowsOK` has the types, dense tiers and finitely many comparisons,
`RatingsOK` says `snap` is current, `proj[c] = ProjectionOf(entry of c, its
round)`, that round is for `c`, and every ranked course with a rating round is
projected; and `RequestsOK` types what the requests in flight remember.  What a
deletion in flight has read need not be true any more, and nothing in `IInv`
says that it is: the proof of `DeleteRoundCommit` (`DeleteStep`) goes through
with any course and any round, which is the reason why the stale read is
harmless.  The same holds of the pairs that a seeding has read: `PairsOK` says
that they are finitely many and of different courses, never that they are the
answers of now.  `StageLemma` proves once that `StageAndCommit` re-establishes
`RowsOK` and `RatingsOK` from any well-formed rows, if every projection handed
to it names a round of its own course; each action then only shows that what it
hands over is such.  From `IInv` follow `TypeCorrect`, `DenseAlways`,
`SnapshotAlwaysCurrent`, `ProjectionsAlwaysFollow`, `OneRatingAlways` and
`RatedAlwaysProjected`.

*RankingProofs: the newest round.*  A missing rating is created again from the
newest rating-owned round of its course.  Ages say in which order the rounds
claim to have been written, and `AgesApart` is the invariant they need: no two
kept rounds share one, wherever a write puts its round (`TouchedAges`,
`NextAges`).  The newest round of a course is then the one a rating has just
touched, or one that claims a later time (`NewestOrLater`), and with what the
request leaves in its tables (`RatedRowOfCourse`) that is
`RatedRoundAlwaysOwnsRating`.  That it is always the touched one cannot be
proved: the code does not keep it (section 8).

*RankingProofs: the ratings.*  The lemmas on `Rating` are the only ones that
multiply.  Rounding half to even errs by a half at most, not at all where the
quotient is whole, and keeps the order (`RoundHalfEvenNear`,
`RoundHalfEvenExact`, `RoundHalfEvenMonotone`); so the scale reaches the ends
of its band, lies between them (`RatingEnds`, `RatingInBand`), never rises
(`RatingFalls`), and falls by a tenth at least from one course to the next
while the band has one for each (`RatingSeparates`).  That is
`ScaleAlwaysHolds`, for any number of courses.  A rank goes through the tiers
and then through the rows of one (`OverallRankLemma`), and the bands of the
tiers are apart, whence `RatingsAlwaysEarned`.

*RankingProofs: seeding.*  Seeds are appended below the rows they find, in the
order of their place, and renumbering keeps the order of what was there
(`SeedRowsOrder`, `NormalizedOrder`), so that finished courses keep their scale.
That whoever has read the same pairs has nothing to seed needs that what a seeding
looks at, its wanted courses and their places, is not changed by it
(`SeedTermsKept`).  The commits of a read and of a save are the only steps that
end a seeding (`SeedsOnly`), and from the lock on both do the same with the pairs
they carry, so that nothing depends on when those were read.

*RankingProofs: comparisons.*  In a tier without ties the winner is put right
above the loser and nobody else changes order (`PreferOrder`), and a course that
enters a dense tier makes no tie (`AppendToNoTies`).  A rating also merges the
rows of its identity.  If one course of it was ranked at most, its row is taken
over as it is and the tier stays without ties (`MergedNoTies`, `PlacedNoTies`);
if several were (`Doubled`), the merge leaves a gap, and the run `merged_tie`
shows the tie which then keeps the comparison from being obeyed.  So
`ComparisonsAlwaysObeyed` holds for every set of mapped courses, with that one
exception in its first part.  The second part has none: a rating that changes no
tier has merged nothing (`RatedWithoutMoving`).

*RankingProofs: the lists.*  `ListsAlwaysKeepPromise` says the same of every request, not
only of comparisons.  For each function on tables a lemma says what it does to the lists
(`InsertLists`, `PlaceAtLists`, `PreferLists`, `AppendToLists`, `DropRowsLists`,
`MergeIdentityLists`, `SeedLists`); renumbering does nothing to them
(`NormalizedLists`), whence `StagedLists`: a commit shows exactly what the
handler has left.  Two facts carry the rest.  A course that is appended with the
number of its peers plus one comes last only if no peer has a greater number
(`Counted`), and a comparison moves the winner only if the two do not share a
number (`NoTies`).  Dense tiers have both (`DenseTier`), and a merge keeps both
when at most one course of the identity was ranked (`MergedNoTies`); when there
were several it need not, and `Rate` promises less.  And each comparison that a
request records is a new row: of equal ones the numbers go up to how many there
are (`Numbered`, kept by every step: `NextNumbered`).  `NextLists` then goes
through the requests, one lemma each.

*BackgroundProofs: moderation.*  The invariant is a statement about each row by itself
(`RowOK`), and a lemma for every way in which a handler changes a row says that
it is kept.  From it: `TypeCorrect`, `HeroesAreApproved`,
`StatusAlwaysExplained`, and the action properties `HumanDecisionAlwaysStands`
and `SupersededAlwaysWritesNothing`, which rests on the claim being compared
under the row's lock.
`OneHeroWhenQuiet` needs more: a feature request must have seen all the photos
(`TierSeen`).  A step that features nothing and brings no photo (`Calm`) keeps
that, a request that commits clears all it has seen, and a photo may arrive while
no request is under way (`ArrivalKeepsOneHero`), which is what `QuietSpec` of the
run `photo_moderating` allows; the run `photo_arrival` shows that arrivals
during a request cannot be allowed.

*PhotoStorageProofs.*  `NoOrphan` is not inductive for two reasons.  A record of
a failed deletion answers for an object only until the script has tried it, so
`CoveredOK` asks for `swept[p] < failed[p]` where `NoOrphan` says
`failed[p] > 0`.  And a cascade takes rows away: the deletion that commits must
have collected every photo of its round, which `LockedOK` says, and which holds
because the round stays locked from the collection to the commit and a row
for it cannot be inserted meanwhile.  With the types of each request (`Typed`,
which ties the attempts to the step) they give `TypeCorrect` and
`NothingIsLost`.  `RoundCapInOneRound` proves `RoundCap` when all photos are for
one round: `CapOK` says that a confirm which has counted holds the lock, that
there is room for its photo, and that the position it has read is above every
other, so that its insert cannot collide and the lock is not given up early.
The run `photo_cap` violates `RoundCap` exactly where that assumption fails:
a photo for another round takes the position.  `RowAlwaysHasObject` follows a
photo through its life (`OnceInv`): until its only confirm is over no deletion
and no record of one knows it (`Untouched`); between the copy and the row the
object is there (`Copied`); and whoever deletes the object has deleted the row
before (`Backed`, with `OwnKeys`: a deletion of a round has the keys of its own
photos).  A second confirm for the same photo breaks it, which is the reason
for the property's condition.

*HeroImageProofs: the lock.*  `LockInv` adds to the types that a holder's key is there
unless it vanished (`KeyStaysWithHolder`), and what is true while the store can
be relied on: nobody was let in without the key, no breaker is open, no key was
lost and no orphan holds it (`TrustedIsTidy`).  `KeyAlwaysStays` is the reason
for the compare-and-delete: without it a caller whose key has expired would
delete that of the next one.  `LockAlwaysKeepsPromise` is the refinement of
`Coalescing`: each step of the lock is a `LetIn`, `TurnAway`, `GoAway` or
`Fails` or leaves the abstract variables alone.

*HeroImageProofs: the hero.*  `HeroLockKeepsPromise` follows because a step of `HeroImage`
is a step of the lock or leaves it alone (`HeroUsesLock`).  `HeroesAlwaysSettle`
needs more than the lock: after `LetIn` a resolver is alone (`Alone`), but what
it writes depends on what it saw, so `HeroInv` says that while nobody
interferes, the row that a resolver carries is the best row still (`Settled`).
That a best row exists is a fact about finite sets ordered by `Better`
(`BestIsThere`).

*ProviderProofs: the meters.*  What has passed a bucket is bounded only together with what
the bucket still holds, and by two clocks.  `BucketOK` says so for a bucket that
is there: what was let through and the tokens left are within the capacity and
the refill up to now, and also within the refill up to the time of the last
charge as Redis's clock now counts it.  The first carries the bound when the
clock was set back below the last charge, the second when a refill is counted
from it.  A bucket that has expired had no request for its whole life, twice the
time it needs to fill (`TtlFills`), so that starting full again gives nothing
away (`TickKeepsInv`).  `QuotaOK` says that until its midnight a counter counts
whoever passed it, because its life was taken from the same clock as its date
and Redis's clock only lags.  `RequestOK` ties what an itinerary's request has
passed to its next charge; a failure answers 503 there and skips nothing.  From
these `MetersAlwaysHold`; only the arithmetic `TimesAdds`, `TimesMonotone` and
`CeilDivCovers` is about multiplication.

*ProviderProofs: the itinerary.*  What a generation writes fits its plan
because of what it read after the provider's answer, and nothing holds the plan
between that read and the commit.  `PlanInv` therefore follows the history
`crossed`: a request that has checked the payload has the payload of the plan
unless a commit crossed with it (`RequestRight`), and the rows of a plan that
nothing crossed with are those of its payload (`PlanRight`).  The recorded cost
of the month is bounded by counting what is under way as spent (`SpendRight`): the cost and
the calls under way are together below the limit plus `peak`, the most calls
that were ever under way at once.  Each step moves a call from one term to the
other or passes the check.

*ProviderProofs: the featured week.*  `FeaturedInv` numbers the picks of each
user (`WeekUpTo`: all numbers up to some n are taken once, and only the n-th is
on show) and says that one dismissal per user is at work (`OneDismisses`: it
holds the row on show until it commits), so that the course it has chosen stays
new and its number stays free (`Follows`).  The budget is safe for one worker
because a reservation is counted where others look (`CountersRight`), and a
worker runs one request between two awaits (`OneRuns`): what it has read of the
month is what is recorded, so recorded, reserved and erased costs account
together for every call that was paid (`CostsRight`), and only the erased ones are
not counted against the limit any more.  A cost that has to wait for a dismissal's row lock is
never recorded by a single worker, because that dismissal cannot go on either;
the run `featured_self_wait` shows the wait.

*RatingFlowProofs.*  `FlowInv` says what a save may rely on across its
awaits: what it looked at is what is on the form as long as nobody edited it,
the baseline is what the server has, except for what the app knows to be
unsaved or, after an answer that got lost, cannot know (`BaselineInv`).  For
each photo by itself: where it can be (`WhereInv`), when it may have slipped
past a save (`SlipInv`), what an answer says of its object (`AnswerInv`), and
that an object which may still go away is listed or being discarded
(`PendingInv`).  Photos do not interact, so a handler that touches one keeps
the rest by one lemma.  Together they give `NothingLostSilently`.

*BackgroundProofs: the token.*  As long as no call was given up, every call under
way is waited for, registrations are those of who is signed in, and they are
over before the sign-out deletes the token (`Orderly`); that is what
`TokenFollowsAccount` rests on.  `AnswersAreTrue` holds without it: `ServedInv`
says at each statement of a registration what must have been stored since it was
sent.  A row that was read as the account's own was stored (`own`); a lost race
either finds a row and reassigns it, or finds none, which needs that somebody
deleted the winner's row after the conflict (`gone`).

*GolferProofs: relationships.*  The commits of `Social` write what a request
read earlier, so `SocialInv` says of each request that what it has read under
its locks still holds (`JobRight`): its account is not deleted, the follow and
the notifications that it makes are not in their tables, and both golfers have
been told if the other follow is there.  That stays so because one request at
a time has an identity's lock (`IdentityAlone`) or a pair's (`PairAlone`), and
because every other handler only takes away what the invariant allows.  From
`JobRight` follow `MutualAlwaysAnnounced` and the part of
`RequestsAlwaysGetThrough` about the unique keys.  That requests never all wait
follows because a follow which waits for a pair waits for one that does not
wait.  `PushedOnce` needs that what was ever handed to a delivery stays in its
table or is of a deleted account (`HandedStay`), so that no later request can
make it again, and that no two deliveries share one (`HandedApart`); a push that
was dropped at the full queue is no exception.  `DeletionIsComplete` has both
halves, the invariant and the action property that a deleted account stays so.

*GolferProofs: the records.*  In `RoundLog`, requests that overlap may leave a
wrong count and no invariant says otherwise; `AloneCounts` says that one which
is alone has counted what there will be, from which `PlayedCountHeals`, and
`OwnRounds` says that a round is of a request that is over, so that no request
under way can bring a deleted one back.  For `ActivityIsOfRounds`, a deletion takes
all events of its round while it holds the round's row, and the only request that
writes an event without the row is an edit which found none (`late`); and
`EventMatches` follows for each round the event that a request which runs alone
refreshes or adds, so that the last one to do so leaves an event that tells of the
round as it is.  In `SavedLists` the same is said of
what a request read: it is current while the request is the only one
(`SoleReads`), and as long as none overlapped the default list is one
(`KeepsOne`), which a choice of a default restores.  In `GreenFees` the lock of
the course makes a submission the only one (`OneAsks`), and it has seen every
pending fee; while the fee is unknown no two pending ones agree (`NoneAgree`).
The average is a fold over a set, for which `AdditionExists` and `SumOfFees`
show that there is a value and that it is a number.

*Compositions.*  Where a run takes several modules together, a theorem says that
its specification is theirs side by side (`PhotosAreBoth`, `GolfersAreAll`,
`ProvidersAreAll`, `BackgroundIsBoth`): a step of one leaves the variables of the
others alone.  So whatever is proved of a module holds in the run that checks it
with others, and the run's `TypesOK`, the conjunction of their type invariants,
follows (`PhotoTypesCorrect`, `GolferTypesCorrect`, `ProviderTypesCorrect`,
`BackgroundTypesCorrect`).

*What is only model-checked.*  The two liveness properties,
`NoPhotoIsStranded` and `SignOutEnds`: the prover used (TLAPS 1.4.5 with Z3,
Zenon and LS4) has neither liveness under fairness nor ENABLED.  Every invariant
and every action property of a run that passes, and both refinements, are
theorems, of the specification which the run checks; `RoundCapInOneRound` alone
has an assumption on the constants, that the photos are of one round, as in the
run.

## 8. Where the code disagrees with its own words

Five runs expect a violation; `PROJECT.json` ("findings") quotes the lines.

- `read_order`: a user seeded from onboarding prefers the other course in a
  comparison, and the next `GET` seeds again and undoes it.  Placeholders stay
  placeholders after a comparison, and seeding compares their order with that
  of the saved favourites.
- `merged_tie`: rating the canonical course of two ranked courses deletes a
  row and leaves a gap; the course that then enters a tier is numbered by the
  count of its peers and can tie with one of them, and the comparison of the
  same request does not move a winner that is tied.
- `photo_arrival`: a photo uploaded and featured while another feature request
  waits for the tier's row locks is not among the rows that the request clears.
- `photo_cap`: a collision on the position rolls back, which gives up the lock
  under which the photos of the round were counted.
- `self_wait`: a dismissal awaits the provider with the golfer's row locked; a
  second one on the same worker blocks the event loop in its own `FOR UPDATE`,
  and the first one can never go on.

More disagreements were met while modelling.  Where a name is given, the
statement is in the module, next to the weaker property that does hold, and TLC
refutes it within 13 steps when it is added to the configuration of the
module's run:

- `Ranking!RatedRoundOwnsRating` has an exception that the code leaves open.  The
  statement without it, `[][\A r \in RoundId : LET c == rounds'[r].course IN
  c \notin {NoCourse, rounds[r].course} => proj'[c].round = r]_vars`, is refuted:
  a rating-owned round is kept when its course is placed under *not sure*; a
  `PATCH` of it, or a rating of the same course, that began later and committed
  first has the later `updated_at`, and the rating that is created again goes to
  that round.
- A `GET` undoes a correction.  `[][SeedingStep => ~SeedNeeded(PairsToSeed(onb))']_vars`
  is refuted: `get_ranking` reads the answers (`ranking.py:547`), a save with
  corrected answers seeds and commits, and the `GET` then seeds the old ones over
  it.  The next `GET` seeds the corrected ones again.
- `Plans`: a 2xx answer of the provider that is blocked, cut off, without usage
  figures or not to be parsed raises a `NarrativeError` whose cost nobody records
  (`planner_narrative.py:166-186`, `plans.py:837-843`), and an answer after the
  timeout is billed as well: what is spent in a month is not bounded by its limit,
  only what is recorded.  The generations of a plan, with their costs, go with the plan.
- `Featured`: the recorded costs of a golfer go with the account (`models.py:741`,
  `main.py:478`), so the month's limit can be spent again; and a deletion during
  the provider call leaves no row to record its cost in.
- `PushTokens`: `register_push_token` answers 204 without having stored anything
  when its INSERT lost the race and the winner's row is deleted before the second
  look (`push_notifications.py:100-109`).
- `RoundLog`: an edit of the details inserts an activity event of a round that
  was deleted since it was read (`course_ratings.py:250-272`, `531`); it is never shown and
  never goes away.
- `Featured!CommittedSpendBounded`: with several workers the recorded cost of a
  month is read before the reservation, so a call that was recorded and
  released in between is counted by neither; the month can exceed its limit.
- `RoundLog!ThoughtLinkOpens`: the link of a friend's thought goes to the newest
  shared rating event, which an edit of the round may have left at another
  visibility, and then cannot be opened.  `RoundLog!CountIsRight`: two
  overlapping requests leave a wrong count until the next one.
- `SavedLists!DefaultKept`, `SavedLists!ActivityNeverLeaks`: with overlapping
  requests a golfer has two default lists or none, and an event can outlive its
  saved course or be more visible than its list.
- `RateLimit!UploadsMetered`: uploads fail open when Redis does, while
  `docs/product/next-features-handoff.md` says that no upload goes unmetered.
- `HeroImage!OneHeroAnyway`, `HeroImage!PhotosAreOfThePlace`: two processes that
  both hold the lock can store two heroes; a resolver under way during a
  relocation stores a photo of the old place as a fresh one.
- `PushTokens!AbortedCallsAreDead`: a registration that was aborted can still
  arrive at the server after the sign-out.  And `requestAndRegisterPushToken`
  returns true when there was no token to register (`pushTokens.ts:121-125`
  promise whether it "was actually registered").
- `RatingFlow`, outside of the conditions of its properties: a photo picked while
  a save is under way is dropped without a word by the end of that save, and its
  object stays behind, as does the object of a photo whose picker outlives the
  form ("leaving the flow without finishing doesn't strand permanent R2 objects",
  `RatingFlow.tsx:219`); both wait for the lifecycle rule.  A save that was done
  but whose answer was lost is taken for undone: when the golfer then takes the
  change back, Continue finds nothing to save and reveals what the server does
  not have.  And a candidate that arrives after another tier was taken is shown
  for that tier (`RatingFlow.tsx:312`).
- A follow whose check came before a block is inserted after it
  (`social.py:829`).

## 9. What is not modelled

Within the modelled parts: the version numbers of snapshots, the aggregates
over several users (`_aggregate`), read-only handlers (`comparison_candidate`,
friends' rankings, search, suggestions, cursors), the serving and signing of
photo URLs, the OFFICIAL source tier, the scores themselves, the prompts and
the parsing of provider answers, the composition of a plan's deterministic
itinerary, permission prompts, and the texts of notifications.

Whole components: authentication, configuration and HTTP security (no state
between requests), course reports (one statement per handler), catalogue
import and maintenance scripts (single processes over files; where one writes
rows that requests write too, it is an action of that module), the database
session, the client's other forms, static pages.

## 10. What comes next

1. Account creation with its username, and the object keys that
   `delete_account` collects, composed with `PhotoStorage`.
2. Mappings confirmed by both of their writers, the reconciliation script and
   the administrator's endpoint, between the reads of one request and between
   the steps of a seeding.
3. Snapshot versions, with the lock and the read as separate steps.
