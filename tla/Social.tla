------------------------------- MODULE Social -------------------------------
(***************************************************************************)
(* The social graph of services/api/app/social.py and what hangs on it:    *)
(* follows, blocks, mutes, contacts, likes, the notifications these write, *)
(* their delivery as pushes, and the deletion of accounts.                 *)
(*                                                                         *)
(* Requests run at READ COMMITTED.  One whose outcome depends on what it   *)
(* read is split where another one's commit can come in between; every     *)
(* other handler is one action.  A request on behalf of a user that may    *)
(* have to be created holds the advisory lock of the identity until it     *)
(* ends; follow_user also takes the lock of the pair.                      *)
(***************************************************************************)
EXTENDS FiniteSets, Naturals

CONSTANTS Users, Rounds, Devices,
          Requests,   \* how many requests a behaviour has
          Owner,      \* the golfer of each round
          Slots,      \* push_delivery_max_concurrent
          None

ASSUME OwnerAssumption == Owner \in [Rounds -> Users]
ASSUME BoundAssumption == Requests \in Nat /\ Slots \in Nat \ {0}
ASSUME NoneAssumption  == None \notin Users \cup Rounds

VARIABLES
  db,        \* the committed tables
  job,       \* the requests, in the order they start
  push,      \* the background delivery each request has scheduled
  sent,      \* history: <<notification, device>> of every push sent
  quieted    \* history: users who ever had notifications disabled

vars == <<db, job, push, sent, quieted>>

Jobs  == 1..Requests
Pairs == Users \X Users
Kinds == {"followed_you", "mutual_follow", "reacted_to_round", "contact_joined"}
Notes == [to : Users, from : Users, kind : Kinds, about : Rounds \cup {None}]
Note(to, from, kind, about) == [to |-> to, from |-> from, kind |-> kind, about |-> about]
Mails == Notes \X Devices

\* An event carries the visibility its round had when it was written.
EventVisibility == "friends"
Tables ==
  [account  : [Users -> {"none", "live", "deleted"}],
   follows  : SUBSET Pairs,
   blocks   : SUBSET Pairs,
   mutes    : SUBSET Pairs,
   contacts : SUBSET Pairs,      \* <<owner, golfer whose identifier the owner linked>>
   enabled  : [Users -> BOOLEAN],
   shown    : [Rounds -> {"private", EventVisibility}],
   likes    : SUBSET (Users \X Rounds),
   notes    : SUBSET Notes,
   device   : [Devices -> Users \cup {None}]]

Live(u)       == db.account[u] = "live"
Follows(u, v) == <<u, v>> \in db.follows
Mutual(u, v)  == Follows(u, v) /\ Follows(v, u)
Blocked(u, v) == <<u, v>> \in db.blocks \/ <<v, u>> \in db.blocks
Muted(u, v)   == <<u, v>> \in db.mutes  \/ <<v, u>> \in db.mutes
Fresh(notes)  == {n \in notes : db.enabled[n.to] /\ n \notin db.notes}

Idle == [op |-> "idle", user |-> None, with |-> None, locked |-> FALSE, made |-> {}, set |-> {}]
Done == [Idle EXCEPT !.op = "done"]
Creating == {"follow", "link_contacts", "save_preferences"}
Ops == Creating \cup {"like", "idle", "done", "collided"}
JobType == [op : Ops, user : Users \cup {None}, with : Users \cup Rounds \cup {None},
            locked : BOOLEAN, made : SUBSET Notes, set : SUBSET Users]
PushType == [pc : {"none", "queued", "started", "sending", "finished", "dropped"},
             for : SUBSET Notes, mail : SUBSET Mails]

IdentityLocked(u) == \E j \in Jobs : job[j].op \in Creating /\ job[j].user = u
PairLocked(u, v)  == \E j \in Jobs : job[j].locked /\ {job[j].user, job[j].with} = {u, v}

\* The tables as follows made earlier, with everyone's notifications on, left them.
Announced(follows) ==
  {Note(p[2], p[1], "followed_you", None) : p \in follows}
    \cup {Note(p[1], p[2], "mutual_follow", None) : p \in {q \in follows : <<q[2], q[1]>> \in follows}}
Init ==
  /\ \E account \in [Users -> {"none", "live"}], follows \in SUBSET Pairs, linked \in SUBSET Pairs,
        device \in [Devices -> Users \cup {None}] :
       /\ \A p \in follows : p[1] # p[2] /\ account[p[1]] = "live" /\ account[p[2]] = "live"
       /\ \A p \in linked : p[1] # p[2] /\ account[p[1]] = "live"
       /\ \A d \in Devices : device[d] # None => account[device[d]] = "live"
       /\ db = [account |-> account, follows |-> follows, blocks |-> {}, mutes |-> {},
                contacts |-> linked, enabled |-> [u \in Users |-> TRUE],
                shown |-> [r \in Rounds |-> EventVisibility], likes |-> {},
                notes |-> Announced(follows), device |-> device]
  /\ job = [j \in Jobs |-> Idle]
  /\ push = [j \in Jobs |-> [pc |-> "none", for |-> {}, mail |-> {}]]
  /\ sent = {} /\ quieted = {}

-----------------------------------------------------------------------------
(* Requests that read, decide and commit.                                  *)

\* Requests are numbered in the order they start.
InOrder(j) == job[j] = Idle /\ \A i \in 1..(j - 1) : job[i] # Idle
Begin(j, op, u, w, made, set) ==
  /\ InOrder(j)
  /\ job' = [job EXCEPT ![j] = [op |-> op, user |-> u, with |-> w, locked |-> FALSE,
                                made |-> made, set |-> set]]
  /\ UNCHANGED <<db, push, sent, quieted>>

\* Deviation: the tombstone of a deleted identity is not looked for.
StoredUserForgets(u) == ~IdentityLocked(u)
\* Deviation: the lock of the identity is not waited for.
StoredUserUnlocked(u) == db.account[u] # "deleted"

\* require_user(create=True): a deleted identity is refused, its lock is waited for.
StoredUser(u) == db.account[u] # "deleted" /\ ~IdentityLocked(u)

\* Deviation: following oneself is not refused.
FollowCheckSelf(j, u, v) ==
  /\ StoredUser(u)
  /\ Live(v) /\ ~Blocked(u, v)
  /\ Begin(j, "follow", u, v, {}, {})

\* follow_user up to the pair lock: target and blocks are looked at here.
FollowCheck(j, u, v) ==
  /\ StoredUser(u)
  /\ u # v /\ Live(v) /\ ~Blocked(u, v)
  /\ Begin(j, "follow", u, v, {}, {})

FollowNotes(u, v) ==
  Fresh({Note(v, u, "followed_you", None)})
    \cup (IF Follows(v, u)
          THEN Fresh({Note(u, v, "mutual_follow", None), Note(v, u, "mutual_follow", None)})
          ELSE {})

\* Deviation: the lock of the pair does not exclude anyone.
PairNotLocked(u, v) == TRUE

\* Under the pair lock: an existing follow ends the request; else what to announce.
MayLockPair(u, v) == ~PairLocked(u, v)
FollowLock(j) ==
  LET u == job[j].user   v == job[j].with IN
  /\ job[j].op = "follow" /\ ~job[j].locked
  /\ MayLockPair(u, v)
  /\ job' = [job EXCEPT ![j] = IF Follows(u, v) THEN Done
                               ELSE [@ EXCEPT !.locked = TRUE, !.made = FollowNotes(u, v)]]
  /\ UNCHANGED <<db, push, sent, quieted>>

\* The tables refuse rows of users that are gone, and a second row of the same key;
\* a commit that wrote notifications schedules their delivery.
Commit(j, refers, collides, d, made) ==
  IF \E u \in refers : ~Live(u)
  THEN job' = [job EXCEPT ![j] = Done] /\ UNCHANGED <<db, push, sent, quieted>>
  ELSE IF collides \/ made \cap db.notes # {}
  THEN /\ job' = [job EXCEPT ![j] = IF job[j].op = "like" THEN Done ELSE [Idle EXCEPT !.op = "collided"]]
       /\ UNCHANGED <<db, push, sent, quieted>>
  ELSE /\ db' = [d EXCEPT !.notes = @ \cup made]
       /\ quieted' = quieted \cup {u \in Users : ~d.enabled[u]}
       /\ job' = [job EXCEPT ![j] = Done]
       /\ push' = IF made = {} THEN push ELSE [push EXCEPT ![j] = [@ EXCEPT !.pc = "queued", !.for = made]]
       /\ UNCHANGED sent

FollowCommit(j) ==
  LET u == job[j].user   v == job[j].with IN
  /\ job[j].op = "follow" /\ job[j].locked
  /\ Commit(j, {v}, Follows(u, v),
            [db EXCEPT !.account[u] = "live", !.follows = @ \cup {<<u, v>>}], job[j].made)

\* _require_visible_event: the actor's event, as the viewer may see it now.
Visible(u, r) ==
  LET o == Owner[r] IN
  /\ Live(o) /\ ~Blocked(u, o) /\ ~Muted(u, o)
  /\ u = o \/ Mutual(u, o)
  /\ db.shown[r] = EventVisibility

\* add_reaction: the event is visible and not liked yet; then the like is written.
LikeCheck(j, u, r) ==
  /\ Live(u) /\ Visible(u, r) /\ <<u, r>> \notin db.likes
  /\ Begin(j, "like", u, r, {}, {})

\* _notify_reaction: not for one's own round, a blocked actor or a silent owner.
ReactionNotes(u, o, r) ==
  IF u = o \/ Blocked(u, o) THEN {} ELSE Fresh({Note(o, u, "reacted_to_round", r)})

LikeCommit(j) ==
  LET u == job[j].user   r == job[j].with IN
  /\ job[j].op = "like"
  /\ Commit(j, {u, Owner[r]}, <<u, r>> \in db.likes,
            [db EXCEPT !.likes = @ \cup {<<u, r>>}], ReactionNotes(u, Owner[r], r))

\* notify_linked_contacts: everyone who linked u and has not been told yet.
ContactNotes(u) ==
  Fresh({Note(o, u, "contact_joined", None) :
           o \in {o \in Users : <<o, u>> \in db.contacts /\ o # u /\ ~Blocked(u, o)}})

\* link_contacts and save_preferences match the contacts and write their own rows.  When the identity
\* provider cannot be asked for the verified addresses, nobody is told and the rest is written.
MatchContacts(j, op, u, set) ==
  /\ StoredUser(u)
  /\ \E made \in {ContactNotes(u), {}} : Begin(j, op, u, None, made, set)

MatchCommit(j) ==
  LET u == job[j].user
      live == [db EXCEPT !.account[u] = "live"] IN
  /\ \/ /\ job[j].op = "link_contacts"
        /\ Commit(j, {n.to : n \in job[j].made}, FALSE,
                  [live EXCEPT !.contacts = {p \in @ : p[1] # u} \cup ({u} \X job[j].set)], job[j].made)
     \/ /\ job[j].op = "save_preferences"
        /\ Commit(j, {n.to : n \in job[j].made}, FALSE,
                  [live EXCEPT !.enabled[u] = job[j].set # {}], job[j].made)

-----------------------------------------------------------------------------
(* Handlers whose reads decide nothing that another commit could change.   *)

Write(j, u, d) ==
  /\ InOrder(j) /\ Live(u)
  /\ db' = d
  /\ job' = [job EXCEPT ![j] = Done]
  /\ UNCHANGED <<push, sent, quieted>>

Unfollow(j, u, v) == Write(j, u, [db EXCEPT !.follows = @ \ {<<u, v>>}])
\* block_user inserts the block and deletes the follows of both directions.
Block(j, u, v) ==
  u # v /\ Live(v) /\ Write(j, u, [db EXCEPT !.blocks = @ \cup {<<u, v>>},
                                             !.follows = @ \ {<<u, v>>, <<v, u>>}])
Unblock(j, u, v) == Write(j, u, [db EXCEPT !.blocks = @ \ {<<u, v>>}])
Mute(j, u, v)    == u # v /\ Live(v) /\ Write(j, u, [db EXCEPT !.mutes = @ \cup {<<u, v>>}])
Unmute(j, u, v)  == Write(j, u, [db EXCEPT !.mutes = @ \ {<<u, v>>}])
UnlinkContacts(j, u) == Write(j, u, [db EXCEPT !.contacts = {p \in @ : p[1] # u}])
RemoveLike(j, u, r)  == Visible(u, r) /\ Write(j, u, [db EXCEPT !.likes = @ \ {<<u, r>>}])
\* update_round: the owner hides the round, or shows it again.
ChangeRound(j, r) ==
  \E v \in {"private", EventVisibility} : Write(j, Owner[r], [db EXCEPT !.shown[r] = v])
\* PUT and DELETE /me/push-tokens.
RegisterToken(j, u, d)   == Write(j, u, [db EXCEPT !.device[d] = u])
UnregisterToken(j, u, d) == db.device[d] = u /\ Write(j, u, [db EXCEPT !.device[d] = None])

\* delete_account waits for the identity lock, leaves a tombstone, and the user's
\* rows cascade.
WithoutUser(u) ==
  LET Others(pairs) == {p \in pairs : u \notin {p[1], p[2]}} IN
  [db EXCEPT !.account[u] = "deleted",
     !.follows = Others(@), !.blocks = Others(@), !.mutes = Others(@),
     !.contacts = {p \in @ : p[1] # u},
     !.likes = {p \in @ : p[1] # u /\ Owner[p[2]] # u},
     !.notes = {n \in @ : u \notin {n.to, n.from} /\ (n.about # None => Owner[n.about] # u)},
     !.device = [d \in Devices |-> IF @[d] = u THEN None ELSE @[d]]]
DeleteAccount(j, u) ==
  /\ InOrder(j) /\ ~IdentityLocked(u)
  /\ db' = WithoutUser(u)
  /\ job' = [job EXCEPT ![j] = Done]
  /\ UNCHANGED <<push, sent, quieted>>

-----------------------------------------------------------------------------
(* Delivery: run_push_delivery_task and send_push_notifications.           *)

Delivering == {j \in Jobs : push[j].pc \in {"started", "sending"}}
Deliver(j, pc, for, mail) ==
  push' = [push EXCEPT ![j] = [pc |-> pc, for |-> for, mail |-> mail]]

\* A slot, or nothing: there is no queue.  The rows are fetched again.
Acquire(j) ==
  /\ push[j].pc = "queued"
  /\ IF Cardinality(Delivering) < Slots
     THEN Deliver(j, "started", push[j].for \cap db.notes, {})
     ELSE Deliver(j, "dropped", {}, {})
  /\ UNCHANGED <<db, job, sent, quieted>>

Deliverable(n) == db.enabled[n.to] /\ ~Muted(n.to, n.from) /\ ~Blocked(n.to, n.from)

\* What may be sent, and to which devices; the transaction ends before the call.
Prepare(j) ==
  /\ push[j].pc = "started"
  /\ Deliver(j, "sending", {},
       {m \in {n \in push[j].for : Deliverable(n)} \X Devices : db.device[m[2]] = m[1].to})
  /\ UNCHANGED <<db, job, sent, quieted>>

\* Deviation: a lost batch is tried again, with all its messages.
SendRetries(j) ==
  /\ push[j].pc = "sending"
  /\ \E refused \in SUBSET {m[2] : m \in push[j].mail}, lost \in SUBSET push[j].mail :
       /\ IF lost = {} THEN Deliver(j, "finished", {}, {}) ELSE UNCHANGED push
       /\ sent' = sent \cup {m \in push[j].mail \ lost : m[2] \notin refused}
       /\ db' = [db EXCEPT !.device = [d \in Devices |-> IF d \in refused THEN None ELSE @[d]]]
  /\ UNCHANGED <<job, quieted>>

\* Each message is accepted, lost with its batch, or refused because Expo no longer
\* knows the device; tokens of those devices are then deleted by value.
Send(j) ==
  /\ push[j].pc = "sending"
  /\ Deliver(j, "finished", {}, {})
  /\ \E refused \in SUBSET {m[2] : m \in push[j].mail}, lost \in SUBSET push[j].mail :
       /\ sent' = sent \cup {m \in push[j].mail \ lost : m[2] \notin refused}
       /\ db' = [db EXCEPT !.device = [d \in Devices |-> IF d \in refused THEN None ELSE @[d]]]
  /\ UNCHANGED <<job, quieted>>

-----------------------------------------------------------------------------
Start(j) ==
  \/ \E u, v \in Users :
       \/ FollowCheck(j, u, v) \/ Unfollow(j, u, v)
       \/ Block(j, u, v) \/ Unblock(j, u, v) \/ Mute(j, u, v) \/ Unmute(j, u, v)
  \/ \E u \in Users, r \in Rounds : LikeCheck(j, u, r) \/ RemoveLike(j, u, r)
  \/ \E u \in Users :
       \/ \E set \in SUBSET (Users \ {u}) : MatchContacts(j, "link_contacts", u, set)
       \/ \E set \in {{}, {u}} : MatchContacts(j, "save_preferences", u, set)
       \/ UnlinkContacts(j, u) \/ DeleteAccount(j, u)
       \/ \E d \in Devices : RegisterToken(j, u, d) \/ UnregisterToken(j, u, d)
  \/ \E r \in Rounds : ChangeRound(j, r)
Resume(j)  == FollowLock(j) \/ FollowCommit(j) \/ LikeCommit(j) \/ MatchCommit(j)
Delivery(j) == Acquire(j) \/ Prepare(j) \/ Send(j)

Next == \E j \in Jobs : Start(j) \/ Resume(j) \/ Delivery(j)
Spec == Init /\ [][Next]_vars

-----------------------------------------------------------------------------
(* Properties.                                                             *)

\* Every variable stays in its type, nobody is related to themself, and no more deliveries
\* run at a time than there are slots.
TypeOK ==
  /\ db \in Tables
  /\ \A p \in db.follows \cup db.blocks \cup db.mutes : p[1] # p[2]
  /\ Cardinality(Delivering) <= Slots
  /\ job \in [Jobs -> JobType]
  /\ push \in [Jobs -> PushType]
  /\ sent \subseteq Mails
  /\ quieted \subseteq Users

\* Two golfers who follow each other have both been told so, in whatever order and
\* however close together the two follows were made (follow_user's pair lock), unless
\* one of them has had notifications off.
MutualIsAnnounced ==
  \A p \in db.follows :
    LET u == p[1]   v == p[2] IN
    Follows(v, u) /\ {u, v} \cap quieted = {} => Note(u, v, "mutual_follow", None) \in db.notes

\* A follow, a contact sync or a preferences save never loses its work to another request's
\* row: what it read under its locks still holds when it commits.  Only a like sent twice
\* at the same time may fail on the unique key.
CommitsDoNotCollide == \A j \in Jobs : job[j].op # "collided"

\* No table refers to a deleted account, whatever its requests, and those about it, were
\* doing when delete_account's cascade ran.
NothingOfTheDeleted ==
  \A u \in Users : db.account[u] = "deleted" =>
    /\ \A p \in db.follows \cup db.blocks \cup db.mutes : u \notin {p[1], p[2]}
    /\ \A n \in db.notes : u \notin {n.to, n.from}
    /\ \A p \in db.likes : u # p[1]

\* A deleted identity never comes back, not even through a first write that was under way.
DeletedStaysDeleted ==
  [][\A u \in Users : db.account[u] = "deleted" => db'.account[u] = "deleted"]_vars

\* A notification is pushed to a device at most once: the request that inserted the row is
\* the only one to schedule it, through likes taken back and follows renewed.
OnePush ==
  \A j \in Jobs :
    /\ push[j].mail \cap sent = {}
    /\ \A k \in Jobs \ {j} : push[j].mail \cap push[k].mail = {}

\* Requests never all wait for each other, though a follow takes the lock of its
\* identity and then the lock of the pair: one of those under way can always go on.
SomeoneCanGoOn ==
  LET waiting == {j \in Jobs : job[j].op \in Creating \cup {"like"}} IN
  waiting # {} => \E j \in waiting :
    job[j].op = "follow" /\ ~job[j].locked => MayLockPair(job[j].user, job[j].with)

\* Overlapping requests get through: none loses its work, and they never all wait.
RequestsGetThrough == CommitsDoNotCollide /\ SomeoneCanGoOn

\* A deletion of an account is complete and for good (delete_account, lock_identity_transaction).
DeletedLeavesNothing == []NothingOfTheDeleted /\ DeletedStaysDeleted
=============================================================================
