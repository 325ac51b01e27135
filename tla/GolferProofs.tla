----------------------------- MODULE GolferProofs -----------------------------
(***************************************************************************)
(* Proofs about golfers: their relationships and what these announce       *)
(* (Social), rounds and the activity they give rise to (RoundLog), saved   *)
(* lists (SavedLists) and the green fees they suggest (GreenFees).         *)
(***************************************************************************)
EXTENDS MCGolfers, FiniteOrders

-----------------------------------------------------------------------------
(* Social: the inductive invariant.                                        *)

Told(u, v) == Note(u, v, "mutual_follow", None)

\* What a request under way will write: a follow tells the other golfer, and both if it is
\* mutual; contacts are told who joined.
FollowMakes(u, v) == {Note(v, u, "followed_you", None), Told(u, v), Told(v, u)}
MayMake(w) ==
  IF w.op = "follow" /\ w.locked THEN FollowMakes(w.user, w.with)
  ELSE IF w.op \in Creating \ {"follow"}
       THEN {Note(o, w.user, "contact_joined", None) : o \in Users}
       ELSE {}

\* A request by itself.  What it has read under its locks still holds: the account is not
\* deleted, the follow is not there, and none of its notifications is.
JobRight(w) ==
  /\ w.op # "collided"
  /\ w.op \in Creating => w.user \in Users /\ db.account[w.user] # "deleted"
  /\ w.op = "follow" => w.with \in Users /\ w.user # w.with
  /\ w.op = "like" => w.user \in Users /\ w.with \in Rounds
  /\ w.made \subseteq MayMake(w) /\ w.made \cap db.notes = {}
  /\ w.locked => w.op = "follow" /\ ~Follows(w.user, w.with)
  /\ w.locked /\ Follows(w.with, w.user) =>
       \A n \in {Told(w.user, w.with), Told(w.with, w.user)} : n \in db.notes \cup w.made \/ n.to \in quieted

IdentityAlone ==
  \A i, j \in Jobs : job[i].op \in Creating /\ job[j].op \in Creating /\ job[i].user = job[j].user => i = j
PairAlone ==
  \A i, j \in Jobs :
    job[i].locked /\ job[j].locked /\ {job[i].user, job[i].with} = {job[j].user, job[j].with} => i = j

SilentAreQuieted == \A u \in Users : ~db.enabled[u] => u \in quieted
OwnersAreTold == \A n \in db.notes : n.about # None => n.to = Owner[n.about]

\* A notification that was handed to a delivery is in its table, or of an account that is gone,
\* so that it cannot be made again; and no two deliveries have it.
Handed(j) == push[j].for \cup {m[1] : m \in push[j].mail}
SentNotes == {m[1] : m \in sent}
Gone(n) == db.account[n.to] = "deleted" \/ db.account[n.from] = "deleted"
HandedStay ==
  /\ \A j \in Jobs : \A n \in Handed(j) : n \in db.notes \/ Gone(n)
  /\ \A n \in SentNotes : n \in db.notes \/ Gone(n)
HandedApart ==
  \A j \in Jobs : /\ Handed(j) \cap SentNotes = {}
                  /\ \A k \in Jobs \ {j} : Handed(j) \cap Handed(k) = {}

SocialInv ==
  /\ TypeOK
  /\ (\A j \in Jobs : JobRight(job[j])) /\ IdentityAlone /\ PairAlone
  /\ MutualIsAnnounced /\ NothingOfTheDeleted /\ SilentAreQuieted /\ OwnersAreTold
  /\ HandedStay /\ HandedApart

LEMMA NoneApart == None \notin Users /\ None \notin Rounds
BY NoneAssumption

LEMMA IdleRight == /\ Idle \in JobType /\ Idle.made = {} /\ ~Idle.locked /\ Idle.op = "idle"
                   /\ Done \in JobType /\ Done.made = {} /\ ~Done.locked /\ Done.op = "done"
BY DEF Idle, Done, JobType, Ops, Creating

\* A request that is not under way asks for nothing.
LEMMA RestsRight ==
  ASSUME NEW w, w.made = {}, ~w.locked, w.op \in {"idle", "done"}
  PROVE  JobRight(w)
BY DEF JobRight, Creating

\* No two requests make the same notification.
LEMMA MadeApart ==
  ASSUME \A i \in Jobs : JobRight(job[i]), IdentityAlone, PairAlone,
         NEW i \in Jobs, NEW k \in Jobs, i # k
  PROVE  job[i].made \cap job[k].made = {}
<1> SUFFICES ASSUME NEW n, n \in job[i].made, n \in job[k].made PROVE FALSE
  OBVIOUS
<1> DEFINE v == job[i]
           w == job[k]
<1>1. n \in MayMake(v) /\ n \in MayMake(w)
  BY DEF JobRight
<1> HIDE DEF v, w
<1>2. v.op \in Creating /\ w.op \in Creating
  BY <1>1 DEF MayMake, Creating
<1>3. v.user # w.user
  BY <1>2 DEF v, w, IdentityAlone
<1>4. ASSUME NEW x, n \in MayMake(x)
      PROVE  \/ x.op = "follow" /\ x.locked /\ n \in FollowMakes(x.user, x.with)
             \/ x.op \in Creating \ {"follow"} /\ n.from = x.user /\ n.kind = "contact_joined"
  BY <1>4 DEF MayMake, Note
<1>5. n.kind = "contact_joined" => n.from = v.user /\ n.from = w.user
  BY <1>1, <1>4 DEF FollowMakes, Note, Told
<1>6. n.kind # "contact_joined" =>
        /\ v.locked /\ n \in FollowMakes(v.user, v.with)
        /\ w.locked /\ n \in FollowMakes(w.user, w.with)
  BY <1>1, <1>4
<1>7. n.kind # "contact_joined" /\ n.kind # "followed_you" =>
        {v.user, v.with} = {w.user, w.with}
  BY <1>6 DEF FollowMakes, Note, Told
<1>8. n.kind = "followed_you" => n.from = v.user /\ n.from = w.user
  BY <1>6 DEF FollowMakes, Note, Told
<1>9. n.kind # "contact_joined" /\ n.kind # "followed_you" => FALSE
  BY <1>6, <1>7 DEF v, w, PairAlone
<1> QED
  BY <1>3, <1>5, <1>8, <1>9

\* A step of one request that only reads.
LEMMA JobStepKeepsInv ==
  ASSUME SocialInv, NEW j \in Jobs, NEW w \in JobType, JobRight(w),
         job' = [job EXCEPT ![j] = w], UNCHANGED <<db, push, sent, quieted>>,
         w.op \in Creating =>
           \A i \in Jobs \ {j} : job[i].op \in Creating => job[i].user # w.user,
         w.locked =>
           \A i \in Jobs \ {j} : job[i].locked => {job[i].user, job[i].with} # {w.user, w.with}
  PROVE  SocialInv'
<1>1. job \in [Jobs -> JobType]
  BY DEF SocialInv, TypeOK
<1>2. job'[j] = w /\ \A i \in Jobs \ {j} : job'[i] = job[i]
  BY <1>1
<1>3. TypeOK'
  BY <1>1 DEF SocialInv, TypeOK, Delivering
<1>4. \A i \in Jobs : JobRight(job[i])'
  <2>1. \A x : JobRight(x) => JobRight(x)'
    BY DEF JobRight, Follows
  <2>2. \A i \in Jobs : JobRight(job'[i])
    BY <1>2 DEF SocialInv
  <2> QED
    BY <2>2 DEF JobRight, Follows
<1>5. IdentityAlone'
  BY <1>2 DEF SocialInv, IdentityAlone
<1>6. PairAlone'
  <2> SUFFICES ASSUME NEW i \in Jobs, NEW k \in Jobs, job'[i].locked, job'[k].locked,
                      {job'[i].user, job'[i].with} = {job'[k].user, job'[k].with}
               PROVE  i = k
    BY DEF PairAlone
  <2>1. CASE i # j /\ k # j
    BY <1>2, <2>1 DEF SocialInv, PairAlone
  <2>2. CASE i = j
    BY <1>2, <2>2
  <2>3. CASE k = j
    BY <1>2, <2>3
  <2> QED
    BY <2>1, <2>2, <2>3
<1>7. MutualIsAnnounced' /\ NothingOfTheDeleted' /\ SilentAreQuieted' /\ OwnersAreTold'
  BY DEF SocialInv, MutualIsAnnounced, NothingOfTheDeleted, SilentAreQuieted, OwnersAreTold, Follows
<1>8. HandedStay' /\ HandedApart'
  BY DEF SocialInv, HandedStay, HandedApart, Handed, SentNotes, Gone
<1> QED
  BY <1>3, <1>4, <1>5, <1>6, <1>7, <1>8 DEF SocialInv

-----------------------------------------------------------------------------
(* Social: requests that read.                                             *)

\* The lock of an identity is held by nobody else.
LEMMA FollowCheckKeepsInv ==
  ASSUME SocialInv, NEW j \in Jobs, NEW u \in Users, NEW v \in Users, FollowCheck(j, u, v)
  PROVE  SocialInv'
<1> DEFINE w == [op |-> "follow", user |-> u, with |-> v, locked |-> FALSE, made |-> {}, set |-> {}]
<1>1. w \in JobType
  BY DEF JobType, Ops, Creating
<1>2. JobRight(w)
  BY DEF FollowCheck, StoredUser, JobRight, MayMake, Creating
<1>3. \A i \in Jobs : job[i].op \in Creating => job[i].user # u
  BY DEF FollowCheck, StoredUser, IdentityLocked
<1>4. w.user = u /\ ~w.locked
  OBVIOUS
<1>5. job' = [job EXCEPT ![j] = w] /\ UNCHANGED <<db, push, sent, quieted>>
  BY DEF FollowCheck, Begin
<1> HIDE DEF w
<1> QED
  BY <1>1, <1>2, <1>3, <1>4, <1>5, JobStepKeepsInv

LEMMA LikeCheckKeepsInv ==
  ASSUME SocialInv, NEW j \in Jobs, NEW u \in Users, NEW r \in Rounds, LikeCheck(j, u, r)
  PROVE  SocialInv'
<1> DEFINE w == [op |-> "like", user |-> u, with |-> r, locked |-> FALSE, made |-> {}, set |-> {}]
<1>1. w \in JobType /\ ~w.locked /\ w.op = "like" /\ w.op \notin Creating
  BY DEF JobType, Ops, Creating
<1>2. JobRight(w)
  BY DEF JobRight, MayMake, Creating
<1>3. job' = [job EXCEPT ![j] = w] /\ UNCHANGED <<db, push, sent, quieted>>
  BY DEF LikeCheck, Begin
<1> HIDE DEF w
<1> QED
  BY <1>1, <1>2, <1>3, JobStepKeepsInv

\* The contacts who are told have not been told yet.
LEMMA ContactNotesRight ==
  ASSUME TypeOK, NEW u \in Users
  PROVE  /\ ContactNotes(u) \subseteq {Note(o, u, "contact_joined", None) : o \in Users}
         /\ ContactNotes(u) \subseteq Notes /\ ContactNotes(u) \cap db.notes = {}
<1>1. \A o \in Users : Note(o, u, "contact_joined", None) \in Notes
  BY DEF Note, Notes, Kinds
<1>2. ContactNotes(u) \subseteq {Note(o, u, "contact_joined", None) : o \in Users}
  BY DEF ContactNotes, Fresh
<1>3. ContactNotes(u) \cap db.notes = {}
  BY DEF ContactNotes, Fresh
<1> QED
  BY <1>1, <1>2, <1>3

LEMMA MatchContactsKeepsInv ==
  ASSUME SocialInv, NEW j \in Jobs, NEW op \in {"link_contacts", "save_preferences"}, NEW u \in Users,
         NEW set \in SUBSET Users, MatchContacts(j, op, u, set)
  PROVE  SocialInv'
<1>0. PICK made \in {ContactNotes(u), {}} : Begin(j, op, u, None, made, set)
  BY DEF MatchContacts
<1> DEFINE w == [op |-> op, user |-> u, with |-> None, locked |-> FALSE, made |-> made, set |-> set]
<1>1. /\ made \subseteq {Note(o, u, "contact_joined", None) : o \in Users}
      /\ made \subseteq Notes /\ made \cap db.notes = {}
  BY <1>0, ContactNotesRight DEF SocialInv
<1>2. w \in JobType
  BY <1>1 DEF JobType, Ops, Creating
<1>3. JobRight(w)
  BY <1>1 DEF MatchContacts, StoredUser, JobRight, MayMake, Creating
<1>4. \A i \in Jobs : job[i].op \in Creating => job[i].user # u
  BY DEF MatchContacts, StoredUser, IdentityLocked
<1>5. w.user = u /\ ~w.locked
  OBVIOUS
<1>6. job' = [job EXCEPT ![j] = w] /\ UNCHANGED <<db, push, sent, quieted>>
  BY <1>0 DEF Begin
<1> HIDE DEF w
<1> QED
  BY <1>2, <1>3, <1>4, <1>5, <1>6, JobStepKeepsInv

LEMMA FollowNotesRight ==
  ASSUME SocialInv, NEW u \in Users, NEW v \in Users
  PROVE  /\ FollowNotes(u, v) \subseteq FollowMakes(u, v)
         /\ FollowNotes(u, v) \subseteq Notes /\ FollowNotes(u, v) \cap db.notes = {}
         /\ Follows(v, u) => \A n \in {Told(u, v), Told(v, u)} :
                               n \in db.notes \cup FollowNotes(u, v) \/ n.to \in quieted
<1>1. Told(u, v).to = u /\ Told(v, u).to = v
  BY DEF Told, Note
<1>2. FollowMakes(u, v) \subseteq Notes
  BY DEF FollowMakes, Told, Note, Notes, Kinds
<1>3. FollowNotes(u, v) \subseteq FollowMakes(u, v) /\ FollowNotes(u, v) \cap db.notes = {}
  BY DEF FollowNotes, FollowMakes, Fresh, Told
<1>4. ASSUME Follows(v, u), NEW n \in {Told(u, v), Told(v, u)}
      PROVE  n \in db.notes \cup FollowNotes(u, v) \/ n.to \in quieted
  <2>1. n \in db.notes \/ ~db.enabled[n.to] \/ n \in FollowNotes(u, v)
    BY <1>4 DEF FollowNotes, Fresh, Told
  <2>2. ~db.enabled[n.to] => n.to \in quieted
    BY <1>1, <1>4 DEF SocialInv, SilentAreQuieted
  <2> QED
    BY <2>1, <2>2
<1> QED
  BY <1>2, <1>3, <1>4

LEMMA FollowLockKeepsInv ==
  ASSUME SocialInv, NEW j \in Jobs, FollowLock(j)
  PROVE  SocialInv'
<1>1. PICK u, v, a : u = job[j].user /\ v = job[j].with /\ a = job[j]
  OBVIOUS
<1>2. a.op = "follow" /\ ~a.locked /\ a \in JobType /\ JobRight(a)
  BY <1>1 DEF FollowLock, SocialInv, TypeOK
<1>3. u \in Users /\ v \in Users /\ u # v /\ db.account[u] # "deleted"
  BY <1>1, <1>2 DEF JobRight, Creating
<1>4. ~PairLocked(u, v) /\ UNCHANGED <<db, push, sent, quieted>>
  BY <1>1 DEF FollowLock, MayLockPair
<1>5. CASE Follows(u, v)
  <2>1. job' = [job EXCEPT ![j] = Done]
    BY <1>1, <1>5 DEF FollowLock
  <2>2. JobRight(Done) /\ Done.op \notin Creating
    BY IdleRight, RestsRight DEF Creating
  <2> QED
    BY <1>4, <2>1, <2>2, IdleRight, JobStepKeepsInv
<1>6. CASE ~Follows(u, v)
  <2>1. PICK made : made = FollowNotes(u, v)
    OBVIOUS
  <2>2. PICK w : w = [a EXCEPT !.locked = TRUE, !.made = made]
    OBVIOUS
  <2>3. job' = [job EXCEPT ![j] = w]
    BY <1>1, <1>6, <2>1, <2>2 DEF FollowLock
  <2>4. /\ made \subseteq FollowMakes(u, v) /\ made \subseteq Notes /\ made \cap db.notes = {}
        /\ Follows(v, u) => \A n \in {Told(u, v), Told(v, u)} : n \in db.notes \cup made \/ n.to \in quieted
    BY <1>3, <2>1, FollowNotesRight
  <2>5. w \in JobType /\ w.op = "follow" /\ w.user = u /\ w.with = v /\ w.locked /\ w.made = made
    BY <1>1, <1>2, <2>2, <2>4 DEF JobType
  <2>6. JobRight(w)
    BY <1>3, <1>6, <2>4, <2>5 DEF JobRight, MayMake, Creating
  <2>7. \A i \in Jobs \ {j} : job[i].op \in Creating => job[i].user # u
    BY <1>1, <1>2 DEF SocialInv, IdentityAlone, Creating
  <2>8. \A i \in Jobs : job[i].locked => {job[i].user, job[i].with} # {u, v}
    BY <1>4 DEF PairLocked
  <2> QED
    BY <1>4, <2>3, <2>5, <2>6, <2>7, <2>8, JobStepKeepsInv
<1> QED
  BY <1>5, <1>6

-----------------------------------------------------------------------------
(* Social: requests that write in one step, and the deletion of accounts.  *)

\* Nothing that any request has read can be made untrue by such a write.
LEMMA WriteKeepsInv ==
  ASSUME SocialInv, NEW j \in Jobs, NEW u, NEW d, Write(j, u, d), d \in Tables,
         d.account = db.account, d.enabled = db.enabled, d.notes = db.notes,
         d.follows \subseteq db.follows,
         \A p \in d.blocks \cup d.mutes : p[1] # p[2],
         \A x \in Users : d.account[x] = "deleted" =>
           /\ \A p \in d.blocks \cup d.mutes : x \notin {p[1], p[2]}
           /\ \A p \in d.likes : x # p[1]
  PROVE  SocialInv'
<1>1. /\ db' = d /\ job' = [job EXCEPT ![j] = Done] /\ UNCHANGED <<push, sent, quieted>>
      /\ job \in [Jobs -> JobType]
  BY DEF Write, SocialInv, TypeOK
<1>2. job'[j] = Done /\ \A i \in Jobs \ {j} : job'[i] = job[i]
  BY <1>1
<1>3. TypeOK'
  BY <1>1, IdleRight DEF SocialInv, TypeOK, Delivering
<1>4. \A i \in Jobs : JobRight(job[i])'
  <2>1. ASSUME NEW w, JobRight(w) PROVE JobRight(w)'
    BY <1>1, <2>1 DEF JobRight, Follows
  <2>2. JobRight(Done)'
    BY IdleRight, RestsRight, <2>1
  <2>3. ASSUME NEW i \in Jobs PROVE JobRight(job[i])'
    <3>1. PICK w : w = job'[i]
      OBVIOUS
    <3>2. JobRight(w)'
      <4>1. CASE i = j
        <5>1. JobRight(w)
          BY <1>2, <3>1, <4>1, IdleRight, RestsRight
        <5> QED
          BY <2>1, <5>1
      <4>2. CASE i # j
        <5>1. JobRight(w)
          BY <1>2, <3>1, <4>2 DEF SocialInv
        <5> QED
          BY <2>1, <5>1
      <4> QED
        BY <4>1, <4>2
    <3> QED
      BY <3>1, <3>2 DEF JobRight
  <2> QED
    BY <2>3
<1>5. IdentityAlone'
  BY <1>2, IdleRight DEF SocialInv, IdentityAlone, Creating
<1>6. PairAlone'
  BY <1>2, IdleRight DEF SocialInv, PairAlone
<1>7. MutualIsAnnounced'
  BY <1>1 DEF SocialInv, MutualIsAnnounced, Follows
<1>8. NothingOfTheDeleted'
  BY <1>1 DEF SocialInv, NothingOfTheDeleted
<1>9. SilentAreQuieted' /\ OwnersAreTold'
  BY <1>1 DEF SocialInv, SilentAreQuieted, OwnersAreTold
<1>10. HandedStay' /\ HandedApart'
  BY <1>1 DEF SocialInv, HandedStay, HandedApart, Handed, SentNotes, Gone
<1> QED
  BY <1>3, <1>4, <1>5, <1>6, <1>7, <1>8, <1>9, <1>10 DEF SocialInv

\* The simple handlers, one after the other.
LEMMA RelationsKeepInv ==
  ASSUME SocialInv, NEW j \in Jobs, NEW u \in Users, NEW v \in Users,
         Unfollow(j, u, v) \/ Block(j, u, v) \/ Unblock(j, u, v) \/ Mute(j, u, v) \/ Unmute(j, u, v)
  PROVE  SocialInv'
<1>1. /\ db \in Tables /\ \A p \in db.follows \cup db.blocks \cup db.mutes : p[1] # p[2]
      /\ NothingOfTheDeleted /\ <<u, v>> \in Pairs /\ <<v, u>> \in Pairs
  BY DEF SocialInv, TypeOK, Pairs
<1>2. CASE Unfollow(j, u, v)
  <2>1. PICK d : d = [db EXCEPT !.follows = @ \ {<<u, v>>}]
    OBVIOUS
  <2>2. Write(j, u, d)
    BY <1>2, <2>1 DEF Unfollow
  <2>3. /\ d \in Tables /\ d.account = db.account /\ d.enabled = db.enabled /\ d.notes = db.notes
        /\ d.follows \subseteq db.follows /\ d.blocks = db.blocks /\ d.mutes = db.mutes /\ d.likes = db.likes
    BY <1>1, <2>1 DEF Tables
  <2> QED
    BY <1>1, <2>2, <2>3, WriteKeepsInv DEF NothingOfTheDeleted
<1>3. CASE Block(j, u, v)
  <2>1. PICK d : d = [db EXCEPT !.blocks = @ \cup {<<u, v>>}, !.follows = @ \ {<<u, v>>, <<v, u>>}]
    OBVIOUS
  <2>2. Write(j, u, d) /\ Live(u) /\ Live(v) /\ u # v
    BY <1>3, <2>1 DEF Block, Write
  <2>3. /\ d \in Tables /\ d.account = db.account /\ d.enabled = db.enabled /\ d.notes = db.notes
        /\ d.follows \subseteq db.follows /\ d.blocks = db.blocks \cup {<<u, v>>}
        /\ d.mutes = db.mutes /\ d.likes = db.likes
    BY <1>1, <2>1 DEF Tables
  <2> QED
    BY <1>1, <2>2, <2>3, WriteKeepsInv DEF NothingOfTheDeleted, Live
<1>4. CASE Unblock(j, u, v)
  <2>1. PICK d : d = [db EXCEPT !.blocks = @ \ {<<u, v>>}]
    OBVIOUS
  <2>2. Write(j, u, d)
    BY <1>4, <2>1 DEF Unblock
  <2>3. /\ d \in Tables /\ d.account = db.account /\ d.enabled = db.enabled /\ d.notes = db.notes
        /\ d.follows = db.follows /\ d.blocks \subseteq db.blocks /\ d.mutes = db.mutes /\ d.likes = db.likes
    BY <1>1, <2>1 DEF Tables
  <2> QED
    BY <1>1, <2>2, <2>3, WriteKeepsInv DEF NothingOfTheDeleted
<1>5. CASE Mute(j, u, v)
  <2>1. PICK d : d = [db EXCEPT !.mutes = @ \cup {<<u, v>>}]
    OBVIOUS
  <2>2. Write(j, u, d) /\ Live(u) /\ Live(v) /\ u # v
    BY <1>5, <2>1 DEF Mute, Write
  <2>3. /\ d \in Tables /\ d.account = db.account /\ d.enabled = db.enabled /\ d.notes = db.notes
        /\ d.follows = db.follows /\ d.blocks = db.blocks
        /\ d.mutes = db.mutes \cup {<<u, v>>} /\ d.likes = db.likes
    BY <1>1, <2>1 DEF Tables
  <2> QED
    BY <1>1, <2>2, <2>3, WriteKeepsInv DEF NothingOfTheDeleted, Live
<1>6. CASE Unmute(j, u, v)
  <2>1. PICK d : d = [db EXCEPT !.mutes = @ \ {<<u, v>>}]
    OBVIOUS
  <2>2. Write(j, u, d)
    BY <1>6, <2>1 DEF Unmute
  <2>3. /\ d \in Tables /\ d.account = db.account /\ d.enabled = db.enabled /\ d.notes = db.notes
        /\ d.follows = db.follows /\ d.blocks = db.blocks /\ d.mutes \subseteq db.mutes /\ d.likes = db.likes
    BY <1>1, <2>1 DEF Tables
  <2> QED
    BY <1>1, <2>2, <2>3, WriteKeepsInv DEF NothingOfTheDeleted
<1> QED
  BY <1>2, <1>3, <1>4, <1>5, <1>6

LEMMA OwnRowsKeepInv ==
  ASSUME SocialInv, NEW j \in Jobs, NEW u \in Users,
         \/ \E r \in Rounds : RemoveLike(j, u, r)
         \/ UnlinkContacts(j, u)
         \/ \E dev \in Devices : RegisterToken(j, u, dev) \/ UnregisterToken(j, u, dev)
         \/ \E r \in Rounds : ChangeRound(j, r)
  PROVE  SocialInv'
<1>1. /\ db \in Tables /\ \A p \in db.follows \cup db.blocks \cup db.mutes : p[1] # p[2]
      /\ NothingOfTheDeleted
  BY DEF SocialInv, TypeOK
<1>2. ASSUME NEW r \in Rounds, RemoveLike(j, u, r)
      PROVE  SocialInv'
  <2>1. PICK d : d = [db EXCEPT !.likes = @ \ {<<u, r>>}]
    OBVIOUS
  <2>2. Write(j, u, d)
    BY <1>2, <2>1 DEF RemoveLike
  <2>3. /\ d \in Tables /\ d.account = db.account /\ d.enabled = db.enabled /\ d.notes = db.notes
        /\ d.follows = db.follows /\ d.blocks = db.blocks /\ d.mutes = db.mutes /\ d.likes \subseteq db.likes
    BY <1>1, <2>1 DEF Tables
  <2> QED
    BY <1>1, <2>2, <2>3, WriteKeepsInv DEF NothingOfTheDeleted
<1>3. CASE UnlinkContacts(j, u)
  <2>1. PICK d : d = [db EXCEPT !.contacts = {p \in @ : p[1] # u}]
    OBVIOUS
  <2>2. Write(j, u, d)
    BY <1>3, <2>1 DEF UnlinkContacts
  <2>3. /\ d \in Tables /\ d.account = db.account /\ d.enabled = db.enabled /\ d.notes = db.notes
        /\ d.follows = db.follows /\ d.blocks = db.blocks /\ d.mutes = db.mutes /\ d.likes = db.likes
    BY <1>1, <2>1 DEF Tables
  <2> QED
    BY <1>1, <2>2, <2>3, WriteKeepsInv DEF NothingOfTheDeleted
<1>4. ASSUME NEW dev \in Devices, NEW x \in Users \cup {None}, Write(j, u, [db EXCEPT !.device[dev] = x])
      PROVE  SocialInv'
  <2>1. PICK d : d = [db EXCEPT !.device[dev] = x]
    OBVIOUS
  <2>2. Write(j, u, d)
    BY <1>4, <2>1
  <2>3. /\ d \in Tables /\ d.account = db.account /\ d.enabled = db.enabled /\ d.notes = db.notes
        /\ d.follows = db.follows /\ d.blocks = db.blocks /\ d.mutes = db.mutes /\ d.likes = db.likes
    BY <1>1, <2>1 DEF Tables
  <2> QED
    BY <1>1, <2>2, <2>3, WriteKeepsInv DEF NothingOfTheDeleted
<1>5. ASSUME NEW r \in Rounds, ChangeRound(j, r)
      PROVE  SocialInv'
  <2>1. PICK v \in {"private", EventVisibility} : Write(j, Owner[r], [db EXCEPT !.shown[r] = v])
    BY <1>5 DEF ChangeRound
  <2>2. PICK d : d = [db EXCEPT !.shown[r] = v]
    OBVIOUS
  <2>3. Write(j, Owner[r], d)
    BY <2>1, <2>2
  <2>4. /\ d \in Tables /\ d.account = db.account /\ d.enabled = db.enabled /\ d.notes = db.notes
        /\ d.follows = db.follows /\ d.blocks = db.blocks /\ d.mutes = db.mutes /\ d.likes = db.likes
    BY <1>1, <2>1, <2>2 DEF Tables
  <2> QED
    BY <1>1, <2>3, <2>4, WriteKeepsInv DEF NothingOfTheDeleted
<1>6. ASSUME NEW dev \in Devices, RegisterToken(j, u, dev) \/ UnregisterToken(j, u, dev)
      PROVE  SocialInv'
  BY <1>4, <1>6 DEF RegisterToken, UnregisterToken
<1> QED
  BY <1>2, <1>3, <1>5, <1>6

\* The lock of the identity keeps the account that a request needs, and the cascade takes
\* with it whatever the others have read about it.
LEMMA DeleteAccountKeepsInv ==
  ASSUME SocialInv, NEW j \in Jobs, NEW u \in Users, DeleteAccount(j, u)
  PROVE  SocialInv'
<1>1. PICK d : d = WithoutUser(u)
  OBVIOUS
<1>2. /\ db' = d /\ job' = [job EXCEPT ![j] = Done] /\ UNCHANGED <<push, sent, quieted>>
      /\ \A i \in Jobs : job[i].op \in Creating => job[i].user # u
  BY <1>1 DEF DeleteAccount, IdentityLocked
<1>3. db \in Tables /\ job \in [Jobs -> JobType]
  BY DEF SocialInv, TypeOK
<1>4. /\ d.account = [db.account EXCEPT ![u] = "deleted"]
      /\ d.follows = {p \in db.follows : u \notin {p[1], p[2]}}
      /\ d.blocks = {p \in db.blocks : u \notin {p[1], p[2]}}
      /\ d.mutes = {p \in db.mutes : u \notin {p[1], p[2]}}
      /\ d.contacts = {p \in db.contacts : p[1] # u}
      /\ d.enabled = db.enabled /\ d.shown = db.shown
      /\ d.likes = {p \in db.likes : p[1] # u /\ Owner[p[2]] # u}
      /\ d.notes = {n \in db.notes : u \notin {n.to, n.from} /\ (n.about # None => Owner[n.about] # u)}
      /\ d.device = [x \in Devices |-> IF db.device[x] = u THEN None ELSE db.device[x]]
  BY <1>1, <1>3 DEF WithoutUser, Tables
<1>5. d \in Tables
  BY <1>1, <1>3, <1>4 DEF WithoutUser, Tables
<1>6. job'[j] = Done /\ \A i \in Jobs \ {j} : job'[i] = job[i]
  BY <1>2, <1>3
<1>7. TypeOK'
  BY <1>2, <1>3, <1>4, <1>5, IdleRight DEF SocialInv, TypeOK, Delivering
<1>8. ASSUME NEW i \in Jobs PROVE JobRight(job[i])'
  <2>1. PICK w : w = job'[i]
    OBVIOUS
  <2>2. CASE i = j
    BY <1>6, <2>2, IdleRight DEF JobRight, Creating
  <2>3. CASE i # j
    <3>1. JobRight(w) /\ w = job[i]
      BY <1>6, <2>1, <2>3 DEF SocialInv
    <3>2. w.op \in Creating => w.user # u /\ w.user \in Users
      BY <1>2, <3>1 DEF JobRight
    <3>3. w.op \in Creating => d.account[w.user] # "deleted"
      BY <1>3, <1>4, <3>1, <3>2 DEF JobRight, Tables
    <3>4. w.made \cap d.notes = {} /\ (w.locked => <<w.user, w.with>> \notin d.follows)
      BY <1>4, <3>1 DEF JobRight, Follows
    <3>5. ASSUME w.locked, <<w.with, w.user>> \in d.follows, NEW n \in {Told(w.user, w.with), Told(w.with, w.user)}
          PROVE  n \in d.notes \cup w.made \/ n.to \in quieted
      <4>1. <<w.with, w.user>> \in db.follows /\ u # w.with /\ u # w.user
        BY <1>4, <3>5
      <4>2. n \in db.notes \cup w.made \/ n.to \in quieted
        BY <3>1, <3>5, <4>1 DEF JobRight, Follows
      <4>3. {n.to, n.from} = {w.user, w.with} /\ n.about = None
        BY <3>5 DEF Told, Note
      <4>4. n \in db.notes => n \in d.notes
        BY <1>4, <4>1, <4>3
      <4> QED
        BY <4>2, <4>4
    <3>6. JobRight(w)'
      <4>1. (db.account)' = d.account /\ (db.notes)' = d.notes /\ (db.follows)' = d.follows
        BY <1>2
      <4>2. w.op \in Creating => w.user \in Users /\ (db.account[w.user])' # "deleted"
        BY <3>2, <3>3, <4>1
      <4>3. w.made \cap (db.notes)' = {}
        BY <3>4, <4>1
      <4>4. w.locked => ~Follows(w.user, w.with)'
        BY <3>4, <4>1 DEF Follows
      <4>5. w.locked /\ Follows(w.with, w.user)' =>
              \A n \in {Told(w.user, w.with), Told(w.with, w.user)} : n \in (db.notes)' \cup w.made \/ n.to \in quieted'
        BY <1>2, <3>5, <4>1 DEF Follows
      <4> QED
        BY <3>1, <4>2, <4>3, <4>4, <4>5 DEF JobRight
    <3> QED
      BY <2>1, <3>6 DEF JobRight
  <2> QED
    BY <2>2, <2>3
<1>9. IdentityAlone' /\ PairAlone'
  BY <1>6, IdleRight DEF SocialInv, IdentityAlone, PairAlone, Creating
<1>10. MutualIsAnnounced'
  <2> SUFFICES ASSUME NEW x, NEW y, <<x, y>> \in d.follows, <<y, x>> \in d.follows, {x, y} \cap quieted = {}
               PROVE  Note(x, y, "mutual_follow", None) \in d.notes
    <3>1. d.follows \subseteq Users \X Users
      BY <1>5 DEF Tables, Pairs
    <3> QED
      BY <1>2, <3>1 DEF MutualIsAnnounced, Follows
  <2>1. <<x, y>> \in db.follows /\ <<y, x>> \in db.follows /\ u # x /\ u # y
    BY <1>4
  <2>2. Note(x, y, "mutual_follow", None) \in db.notes
    BY <2>1 DEF SocialInv, MutualIsAnnounced, Follows
  <2> QED
    BY <1>4, <2>1, <2>2 DEF Note
<1>11. NothingOfTheDeleted'
  <2> SUFFICES ASSUME NEW x \in Users, d.account[x] = "deleted"
               PROVE  /\ \A p \in d.follows \cup d.blocks \cup d.mutes : x \notin {p[1], p[2]}
                      /\ \A n \in d.notes : x \notin {n.to, n.from}
                      /\ \A p \in d.likes : x # p[1]
    BY <1>2 DEF NothingOfTheDeleted
  <2>1. CASE x = u
    BY <1>4, <2>1
  <2>2. CASE x # u
    <3>1. db.account[x] = "deleted"
      BY <1>3, <1>4, <2>2 DEF Tables
    <3> QED
      BY <1>4, <3>1 DEF SocialInv, NothingOfTheDeleted
  <2> QED
    BY <2>1, <2>2
<1>12. SilentAreQuieted' /\ OwnersAreTold'
  BY <1>2, <1>4 DEF SocialInv, SilentAreQuieted, OwnersAreTold
<1>13. \A n \in Notes : n \in db.notes \/ Gone(n) => n \in d.notes \/ Gone(n)'
  <2> SUFFICES ASSUME NEW n \in Notes, n \in db.notes \/ Gone(n), n \notin d.notes
               PROVE  Gone(n)'
    OBVIOUS
  <2>1. n.to \in Users /\ n.from \in Users
    BY DEF Notes
  <2>2. CASE n \in db.notes
    <3>1. n.to = u \/ n.from = u
      BY <1>4, <2>2 DEF SocialInv, OwnersAreTold
    <3> QED
      BY <1>2, <1>3, <1>4, <3>1 DEF Gone, Tables
  <2>3. CASE Gone(n)
    BY <1>2, <1>3, <1>4, <2>1, <2>3 DEF Gone, Tables
  <2> QED
    BY <2>2, <2>3
<1>14. \A i \in Jobs : Handed(i) \subseteq Notes /\ Handed(i)' = Handed(i)
  BY <1>2 DEF SocialInv, TypeOK, PushType, Mails, Handed
<1>15. SentNotes \subseteq Notes /\ SentNotes' = SentNotes
  BY <1>2 DEF SocialInv, TypeOK, Mails, SentNotes
<1>16. HandedStay'
  <2>1. HandedStay
    BY DEF SocialInv
  <2> QED
    BY <1>2, <1>13, <1>14, <1>15, <2>1 DEF HandedStay
<1>17. HandedApart'
  BY <1>14, <1>15 DEF SocialInv, HandedApart
<1> QED
  BY <1>7, <1>8, <1>9, <1>10, <1>11, <1>12, <1>16, <1>17 DEF SocialInv

-----------------------------------------------------------------------------
(* Social: commits.                                                        *)

\* What a successful commit leaves: its notifications are in the table, and handed on once.
LEMMA CommitKeepsInv ==
  ASSUME SocialInv, NEW j \in Jobs, NEW made \in SUBSET Notes,
         db' \in Tables, job' = [job EXCEPT ![j] = Done], sent' = sent,
         \A x \in Users : db'.account[x] = "deleted" <=> db.account[x] = "deleted",
         db'.notes = db.notes \cup made, made \cap db.notes = {},
         db'.blocks = db.blocks, db'.mutes = db.mutes,
         \A n \in made : ~Gone(n) /\ (n.about # None => n.to = Owner[n.about]),
         \A i \in Jobs \ {j} : job[i].made \cap made = {},
         \A i \in Jobs \ {j} : job[i].locked =>
           /\ Follows(job[i].user, job[i].with)' <=> Follows(job[i].user, job[i].with)
           /\ Follows(job[i].with, job[i].user)' <=> Follows(job[i].with, job[i].user),
         \A p \in db'.follows : p[1] # p[2] /\ db.account[p[1]] # "deleted" /\ db.account[p[2]] # "deleted",
         \A p \in db'.likes : db.account[p[1]] # "deleted",
         MutualIsAnnounced',
         quieted' = quieted \cup {x \in Users : ~db'.enabled[x]},
         push' = IF made = {} THEN push ELSE [push EXCEPT ![j] = [@ EXCEPT !.pc = "queued", !.for = made]]
  PROVE  SocialInv'
<1>1. /\ db \in Tables /\ job \in [Jobs -> JobType] /\ push \in [Jobs -> PushType]
      /\ sent \subseteq Mails /\ quieted \subseteq Users
  BY DEF SocialInv, TypeOK
<1>2. job'[j] = Done /\ \A i \in Jobs \ {j} : job'[i] = job[i]
  BY <1>1
<1>3. /\ push' \in [Jobs -> PushType] /\ \A i \in Jobs \ {j} : push'[i] = push[i]
      /\ push'[j].mail = push[j].mail
      /\ push'[j].for = IF made = {} THEN push[j].for ELSE made
      /\ push'[j].pc \in {push[j].pc, "queued"}
  <2>1. CASE made = {}
    BY <1>1, <2>1
  <2>2. CASE made # {}
    <3>1. PICK r : r = [push[j] EXCEPT !.pc = "queued", !.for = made]
      OBVIOUS
    <3>2. push[j] \in PushType
      BY <1>1
    <3>3. r \in PushType /\ r.pc = "queued" /\ r.for = made /\ r.mail = push[j].mail
      BY <3>1, <3>2 DEF PushType
    <3>4. push' = [push EXCEPT ![j] = r]
      BY <2>2, <3>1
    <3> QED
      BY <1>1, <2>2, <3>3, <3>4
  <2> QED
    BY <2>1, <2>2
<1>4. Cardinality(Delivering') <= Slots
  <2>1. Delivering' \subseteq Delivering /\ Delivering \subseteq Jobs
    BY <1>3 DEF Delivering
  <2>2. IsFiniteSet(Jobs)
    BY BoundAssumption, FS_Interval DEF Jobs
  <2>3. /\ IsFiniteSet(Delivering) /\ Cardinality(Delivering) \in Nat
        /\ IsFiniteSet(Delivering') /\ Cardinality(Delivering') \in Nat
    BY <2>1, <2>2, FS_Subset, FS_CardinalityType
  <2>4. Cardinality(Delivering') <= Cardinality(Delivering) /\ Cardinality(Delivering) <= Slots
    BY <2>1, <2>3, FS_Subset DEF SocialInv, TypeOK
  <2> QED
    BY <2>3, <2>4, BoundAssumption
<1>5. TypeOK'
  <2>1. job' \in [Jobs -> JobType] /\ quieted' \subseteq Users /\ sent' \subseteq Mails
    BY <1>1, IdleRight
  <2>2. \A p \in db'.follows \cup db'.blocks \cup db'.mutes : p[1] # p[2]
    BY DEF SocialInv, TypeOK
  <2> QED
    BY <1>3, <1>4, <2>1, <2>2 DEF TypeOK
<1>6. ASSUME NEW i \in Jobs PROVE JobRight(job[i])'
  <2>1. PICK w : w = job'[i]
    OBVIOUS
  <2>2. CASE i = j
    BY <1>2, <2>2, IdleRight DEF JobRight, Creating
  <2>3. CASE i # j
    <3>1. JobRight(w) /\ w = job[i]
      BY <1>2, <2>1, <2>3 DEF SocialInv
    <3>2. w.op \in Creating => w.user \in Users /\ db'.account[w.user] # "deleted"
      BY <3>1 DEF JobRight
    <3>3. w.made \cap db'.notes = {}
      BY <2>3, <3>1 DEF JobRight
    <3>4. /\ w.locked => ~Follows(w.user, w.with)'
          /\ w.locked /\ Follows(w.with, w.user)' => Follows(w.with, w.user)
      BY <2>3, <3>1 DEF JobRight, Follows
    <3>5. w.locked /\ Follows(w.with, w.user)' =>
            \A n \in {Told(w.user, w.with), Told(w.with, w.user)} : n \in db'.notes \cup w.made \/ n.to \in quieted'
      BY <3>1, <3>4 DEF JobRight
    <3>6. JobRight(w)'
      BY <3>1, <3>2, <3>3, <3>4, <3>5 DEF JobRight
    <3> QED
      BY <2>1, <3>6 DEF JobRight
  <2> QED
    BY <2>2, <2>3
<1>7. IdentityAlone' /\ PairAlone'
  <2>1. IdentityAlone /\ PairAlone /\ job'[j].op = "done" /\ ~job'[j].locked
    BY <1>2, IdleRight DEF SocialInv
  <2>2. IdentityAlone'
    BY <1>2, <2>1 DEF IdentityAlone, Creating
  <2>3. PairAlone'
    BY <1>2, <2>1 DEF PairAlone
  <2> QED
    BY <2>2, <2>3
<1>8. NothingOfTheDeleted'
  <2> SUFFICES ASSUME NEW x \in Users, db'.account[x] = "deleted"
               PROVE  /\ \A p \in db'.follows \cup db'.blocks \cup db'.mutes : x \notin {p[1], p[2]}
                      /\ \A n \in db'.notes : x \notin {n.to, n.from}
                      /\ \A p \in db'.likes : x # p[1]
    BY DEF NothingOfTheDeleted
  <2>1. db.account[x] = "deleted"
    OBVIOUS
  <2> QED
    BY <2>1 DEF SocialInv, NothingOfTheDeleted, Gone
<1>9. SilentAreQuieted' /\ OwnersAreTold'
  BY DEF SocialInv, SilentAreQuieted, OwnersAreTold
<1>10. \A n \in Notes : Gone(n)' <=> Gone(n)
  BY DEF Gone, Notes
<1>11. /\ \A i \in Jobs \ {j} : Handed(i)' = Handed(i)
       /\ \A n \in Handed(j)' : n \in made \/ n \in Handed(j)
       /\ SentNotes' = SentNotes
  BY <1>3 DEF Handed, SentNotes
<1>12. SentNotes \subseteq Notes /\ \A i \in Jobs : Handed(i) \subseteq Notes
  BY <1>1 DEF SentNotes, Handed, Mails, PushType
<1>13. HandedStay'
  <2>1. HandedStay
    BY DEF SocialInv
  <2> QED
    BY <1>10, <1>11, <1>12, <2>1 DEF HandedStay
<1>14. \A n \in made : n \notin SentNotes /\ \A i \in Jobs : n \notin Handed(i)
  BY DEF SocialInv, HandedStay
<1>15. HandedApart'
  <2>1. HandedApart
    BY DEF SocialInv
  <2>2. ASSUME NEW i \in Jobs PROVE Handed(i)' \cap SentNotes' = {}
    BY <1>11, <1>14, <2>1 DEF HandedApart
  <2>3. ASSUME NEW i \in Jobs, NEW k \in Jobs \ {i} PROVE Handed(i)' \cap Handed(k)' = {}
    <3>1. CASE i # j /\ k # j
      BY <1>11, <2>1, <3>1 DEF HandedApart
    <3>2. CASE i = j
      BY <1>11, <1>14, <2>1, <3>2 DEF HandedApart
    <3>3. CASE k = j
      BY <1>11, <1>14, <2>1, <3>3 DEF HandedApart
    <3> QED
      BY <3>1, <3>2, <3>3
  <2> QED
    BY <2>2, <2>3 DEF HandedApart
<1> QED
  BY <1>5, <1>6, <1>7, <1>8, <1>9, <1>13, <1>15 DEF SocialInv

\* A request that gives up, or is too late, has written nothing.
LEMMA EndKeepsInv ==
  ASSUME SocialInv, NEW j \in Jobs, job' = [job EXCEPT ![j] = Done], UNCHANGED <<db, push, sent, quieted>>
  PROVE  SocialInv'
<1>1. JobRight(Done) /\ Done.op \notin Creating
  BY IdleRight, RestsRight DEF Creating
<1> QED
  BY <1>1, IdleRight, JobStepKeepsInv

LEMMA FollowCommitKeepsInv ==
  ASSUME SocialInv, NEW j \in Jobs, FollowCommit(j)
  PROVE  SocialInv'
<1>1. PICK u, v, made, w : u = job[j].user /\ v = job[j].with /\ made = job[j].made /\ w = job[j]
  OBVIOUS
<1>2. w.op = "follow" /\ w.locked /\ JobRight(w) /\ w \in JobType
  BY <1>1 DEF FollowCommit, SocialInv, TypeOK
<1>3. /\ u \in Users /\ v \in Users /\ u # v /\ db.account[u] # "deleted" /\ ~Follows(u, v)
      /\ made \subseteq FollowMakes(u, v) /\ made \cap db.notes = {} /\ made \in SUBSET Notes
      /\ Follows(v, u) => \A n \in {Told(u, v), Told(v, u)} : n \in db.notes \cup made \/ n.to \in quieted
  BY <1>1, <1>2 DEF JobRight, MayMake, Creating, JobType
<1>4. PICK d : d = [db EXCEPT !.account[u] = "live", !.follows = @ \cup {<<u, v>>}]
  OBVIOUS
<1>5. Commit(j, {v}, FALSE, d, made)
  BY <1>1, <1>3, <1>4 DEF FollowCommit, Commit
<1>6. CASE ~Live(v)
  <2>1. job' = [job EXCEPT ![j] = Done] /\ UNCHANGED <<db, push, sent, quieted>>
    BY <1>5, <1>6 DEF Commit
  <2> QED
    BY <2>1, EndKeepsInv
<1>7. CASE Live(v)
  <2>1. /\ db' = [d EXCEPT !.notes = @ \cup made]
        /\ quieted' = quieted \cup {x \in Users : ~d.enabled[x]}
        /\ job' = [job EXCEPT ![j] = Done] /\ sent' = sent
        /\ push' = IF made = {} THEN push ELSE [push EXCEPT ![j] = [@ EXCEPT !.pc = "queued", !.for = made]]
    BY <1>3, <1>5, <1>7 DEF Commit
  <2>2. db \in Tables /\ <<u, v>> \in Pairs
    BY <1>3 DEF SocialInv, TypeOK, Pairs
  <2>3. /\ d \in Tables /\ d.account = [db.account EXCEPT ![u] = "live"] /\ d.notes = db.notes
        /\ d.follows = db.follows \cup {<<u, v>>}
        /\ d.blocks = db.blocks /\ d.mutes = db.mutes /\ d.likes = db.likes /\ d.enabled = db.enabled
    BY <1>4, <2>2 DEF Tables
  <2>4. /\ db' \in Tables /\ (db')["account"] = d.account /\ (db')["notes"] = db.notes \cup made
        /\ (db')["follows"] = d.follows /\ (db')["blocks"] = db.blocks /\ (db')["mutes"] = db.mutes
        /\ (db')["likes"] = db.likes /\ (db')["enabled"] = db.enabled
    BY <1>3, <2>1, <2>3 DEF Tables
  <2>5. \A x \in Users : db'.account[x] = "deleted" <=> db.account[x] = "deleted"
    BY <1>3, <2>2, <2>3, <2>4 DEF Tables
  <2>6. \A n \in made : n.about = None /\ n.to \in {u, v} /\ n.from \in {u, v}
    BY <1>3 DEF FollowMakes, Told, Note
  <2>7. \A n \in made : ~Gone(n) /\ (n.about # None => n.to = Owner[n.about])
    BY <1>3, <1>7, <2>6 DEF Gone, Live
  <2>8. \A i \in Jobs \ {j} : job[i].made \cap made = {}
    BY <1>1, MadeApart DEF SocialInv
  <2>9. ASSUME NEW i \in Jobs \ {j}, job[i].locked
        PROVE  /\ Follows(job[i].user, job[i].with)' <=> Follows(job[i].user, job[i].with)
               /\ Follows(job[i].with, job[i].user)' <=> Follows(job[i].with, job[i].user)
    <3>1. {job[i].user, job[i].with} # {u, v}
      BY <1>1, <1>2, <2>9 DEF SocialInv, PairAlone
    <3>2. PICK x, y : x = job[i].user /\ y = job[i].with
      OBVIOUS
    <3>3. <<x, y>> # <<u, v>> /\ <<y, x>> # <<u, v>>
      BY <3>1, <3>2
    <3>4. job'[i] = job[i]
      BY <2>1 DEF SocialInv, TypeOK
    <3>5. /\ <<x, y>> \in d.follows <=> <<x, y>> \in db.follows
          /\ <<y, x>> \in d.follows <=> <<y, x>> \in db.follows
      BY <2>3, <3>3
    <3> QED
      BY <2>4, <3>2, <3>4, <3>5 DEF Follows
  <2>10. \A p \in db'.follows : p[1] # p[2] /\ db.account[p[1]] # "deleted" /\ db.account[p[2]] # "deleted"
    <3> SUFFICES ASSUME NEW p \in d.follows
                 PROVE  p[1] # p[2] /\ db.account[p[1]] # "deleted" /\ db.account[p[2]] # "deleted"
      BY <2>4
    <3>1. CASE p \in db.follows
      <4>1. p[1] \in Users /\ p[2] \in Users
        BY <2>2, <3>1 DEF Tables, Pairs
      <4> QED
        BY <3>1, <4>1 DEF SocialInv, TypeOK, NothingOfTheDeleted
    <3>2. CASE p = <<u, v>>
      BY <1>3, <1>7, <3>2 DEF Live
    <3> QED
      BY <2>3, <3>1, <3>2
  <2>11. \A p \in db'.likes : db.account[p[1]] # "deleted"
    <3>1. \A p \in db.likes : p[1] \in Users
      BY <2>2 DEF Tables
    <3> QED
      BY <2>4, <3>1 DEF SocialInv, NothingOfTheDeleted
  <2>12. MutualIsAnnounced'
    <3> SUFFICES ASSUME NEW x, NEW y, <<x, y>> \in d.follows, <<y, x>> \in d.follows, {x, y} \cap quieted' = {}
                 PROVE  Told(x, y) \in db.notes \cup made
      <4>1. d.follows \subseteq Users \X Users
        BY <2>3 DEF Tables, Pairs
      <4> QED
        BY <2>4, <4>1 DEF MutualIsAnnounced, Follows, Told
    <3>1. {x, y} \cap quieted = {}
      BY <2>1
    <3>2. CASE <<x, y>> \in db.follows /\ <<y, x>> \in db.follows
      BY <3>1, <3>2 DEF SocialInv, MutualIsAnnounced, Follows, Told
    <3>3. CASE <<x, y>> = <<u, v>> \/ <<y, x>> = <<u, v>>
      <4>1. <<v, u>> \in db.follows /\ ((x = u /\ y = v) \/ (x = v /\ y = u))
        BY <1>3, <2>3, <3>3
      <4>2. Told(u, v).to = u /\ Told(v, u).to = v
        BY DEF Told, Note
      <4> QED
        BY <1>3, <3>1, <4>1, <4>2 DEF Follows
    <3> QED
      BY <2>3, <3>2, <3>3
  <2>13. quieted' = quieted \cup {x \in Users : ~db'.enabled[x]}
    BY <2>1, <2>3, <2>4
  <2> QED
    BY <1>3, <2>1, <2>4, <2>5, <2>7, <2>8, <2>9, <2>10, <2>11, <2>12, <2>13, CommitKeepsInv
<1> QED
  BY <1>6, <1>7

LEMMA LikeCommitKeepsInv ==
  ASSUME SocialInv, NEW j \in Jobs, LikeCommit(j)
  PROVE  SocialInv'
<1>1. PICK u, r, o, made : u = job[j].user /\ r = job[j].with /\ o = Owner[r] /\ made = ReactionNotes(u, o, r)
  OBVIOUS
<1>2. job[j].op = "like" /\ u \in Users /\ r \in Rounds /\ o \in Users
  BY <1>1, OwnerAssumption DEF LikeCommit, SocialInv, JobRight
<1>3. /\ made \subseteq {Note(o, u, "reacted_to_round", r)} /\ made \cap db.notes = {}
  BY <1>1 DEF ReactionNotes, Fresh
<1>4. made \in SUBSET Notes
  BY <1>2, <1>3 DEF Note, Notes, Kinds
<1>5. PICK d : d = [db EXCEPT !.likes = @ \cup {<<u, r>>}]
  OBVIOUS
<1>6. Commit(j, {u, o}, <<u, r>> \in db.likes, d, made)
  BY <1>1, <1>5 DEF LikeCommit
<1>7. CASE ~Live(u) \/ ~Live(o) \/ <<u, r>> \in db.likes
  <2>1. job' = [job EXCEPT ![j] = Done] /\ UNCHANGED <<db, push, sent, quieted>>
    BY <1>2, <1>6, <1>7 DEF Commit
  <2> QED
    BY <2>1, EndKeepsInv
<1>8. CASE Live(u) /\ Live(o) /\ <<u, r>> \notin db.likes
  <2>1. /\ db' = [d EXCEPT !.notes = @ \cup made]
        /\ quieted' = quieted \cup {x \in Users : ~d.enabled[x]}
        /\ job' = [job EXCEPT ![j] = Done] /\ sent' = sent
        /\ push' = IF made = {} THEN push ELSE [push EXCEPT ![j] = [@ EXCEPT !.pc = "queued", !.for = made]]
    BY <1>3, <1>6, <1>8 DEF Commit
  <2>2. db \in Tables
    BY DEF SocialInv, TypeOK
  <2>3. /\ d \in Tables /\ d.account = db.account /\ d.notes = db.notes /\ d.follows = db.follows
        /\ d.blocks = db.blocks /\ d.mutes = db.mutes /\ d.likes = db.likes \cup {<<u, r>>}
        /\ d.enabled = db.enabled
    BY <1>2, <1>5, <2>2 DEF Tables
  <2>4. /\ db' \in Tables /\ (db')["account"] = db.account /\ (db')["notes"] = db.notes \cup made
        /\ (db')["follows"] = db.follows /\ (db')["blocks"] = db.blocks /\ (db')["mutes"] = db.mutes
        /\ (db')["likes"] = d.likes /\ (db')["enabled"] = db.enabled
    BY <1>4, <2>1, <2>3 DEF Tables
  <2>5. \A n \in made : n.about = r /\ n.to = o /\ n.from = u /\ n.kind = "reacted_to_round"
    BY <1>3 DEF Note
  <2>6. \A n \in made : ~Gone(n) /\ (n.about # None => n.to = Owner[n.about])
    BY <1>1, <1>8, <2>5 DEF Gone, Live
  <2>7. ASSUME NEW i \in Jobs \ {j} PROVE job[i].made \cap made = {}
    <3>1. PICK w : w = job[i]
      OBVIOUS
    <3>2. w.made \subseteq MayMake(w)
      BY <3>1 DEF SocialInv, JobRight
    <3>3. \A n \in MayMake(w) : n.kind # "reacted_to_round"
      BY DEF MayMake, FollowMakes, Told, Note
    <3> QED
      BY <2>5, <3>1, <3>2, <3>3
  <2>8. \A i \in Jobs \ {j} : job'[i] = job[i]
    BY <2>1 DEF SocialInv, TypeOK
  <2>9. \A i \in Jobs \ {j} : job[i].locked =>
          /\ Follows(job[i].user, job[i].with)' <=> Follows(job[i].user, job[i].with)
          /\ Follows(job[i].with, job[i].user)' <=> Follows(job[i].with, job[i].user)
    BY <2>4, <2>8 DEF Follows
  <2>10. \A p \in db'.follows : p[1] # p[2] /\ db.account[p[1]] # "deleted" /\ db.account[p[2]] # "deleted"
    <3>1. \A p \in db.follows : p[1] \in Users /\ p[2] \in Users
      BY <2>2 DEF Tables, Pairs
    <3> QED
      BY <2>4, <3>1 DEF SocialInv, TypeOK, NothingOfTheDeleted
  <2>11. \A p \in db'.likes : db.account[p[1]] # "deleted"
    <3>1. \A p \in db.likes : p[1] \in Users
      BY <2>2 DEF Tables
    <3>2. \A p \in db.likes : db.account[p[1]] # "deleted"
      BY <3>1 DEF SocialInv, NothingOfTheDeleted
    <3> QED
      BY <1>8, <2>3, <2>4, <3>2 DEF Live
  <2>12. MutualIsAnnounced'
    BY <2>1, <2>4 DEF SocialInv, MutualIsAnnounced, Follows
  <2>13. quieted' = quieted \cup {x \in Users : ~db'.enabled[x]}
    BY <2>1, <2>3, <2>4
  <2> QED
    BY <1>3, <1>4, <2>1, <2>4, <2>6, <2>7, <2>9, <2>10, <2>11, <2>12, <2>13, CommitKeepsInv
<1> QED
  BY <1>7, <1>8

LEMMA MatchCommitKeepsInv ==
  ASSUME SocialInv, NEW j \in Jobs, MatchCommit(j)
  PROVE  SocialInv'
<1>1. PICK u, made, w : u = job[j].user /\ made = job[j].made /\ w = job[j]
  OBVIOUS
<1>2. w.op \in {"link_contacts", "save_preferences"} /\ JobRight(w) /\ w \in JobType
  BY <1>1 DEF MatchCommit, SocialInv, TypeOK
<1>3. /\ u \in Users /\ db.account[u] # "deleted" /\ made \cap db.notes = {} /\ made \in SUBSET Notes
      /\ made \subseteq {Note(o, u, "contact_joined", None) : o \in Users} /\ w.set \in SUBSET Users
  BY <1>1, <1>2 DEF JobRight, MayMake, Creating, JobType
<1>4. db \in Tables
  BY DEF SocialInv, TypeOK
<1>5. PICK d : /\ Commit(j, {n.to : n \in made}, FALSE, d, made)
               /\ \/ d = [[db EXCEPT !.account[u] = "live"]
                            EXCEPT !.contacts = {p \in @ : p[1] # u} \cup ({u} \X w.set)]
                  \/ d = [[db EXCEPT !.account[u] = "live"] EXCEPT !.enabled[u] = w.set # {}]
  BY <1>1 DEF MatchCommit
<1>6. /\ d \in Tables /\ d.account = [db.account EXCEPT ![u] = "live"] /\ d.notes = db.notes
      /\ d.follows = db.follows /\ d.blocks = db.blocks /\ d.mutes = db.mutes /\ d.likes = db.likes
  <2>1. PICK e : e = [db EXCEPT !.account[u] = "live"]
    OBVIOUS
  <2>2. /\ e \in Tables /\ e.account = [db.account EXCEPT ![u] = "live"] /\ e.notes = db.notes
        /\ e.follows = db.follows /\ e.blocks = db.blocks /\ e.mutes = db.mutes /\ e.likes = db.likes
    BY <1>3, <1>4, <2>1 DEF Tables
  <2>3. CASE d = [e EXCEPT !.contacts = {p \in @ : p[1] # u} \cup ({u} \X w.set)]
    <3>1. {u} \X w.set \subseteq Pairs
      BY <1>3 DEF Pairs
    <3> QED
      BY <2>2, <2>3, <3>1 DEF Tables
  <2>4. CASE d = [e EXCEPT !.enabled[u] = w.set # {}]
    BY <2>2, <2>4 DEF Tables
  <2> QED
    BY <1>5, <2>1, <2>3, <2>4
<1>7. CASE \E n \in made : ~Live(n.to)
  <2>1. job' = [job EXCEPT ![j] = Done] /\ UNCHANGED <<db, push, sent, quieted>>
    BY <1>5, <1>7 DEF Commit
  <2> QED
    BY <2>1, EndKeepsInv
<1>8. CASE \A n \in made : Live(n.to)
  <2>1. /\ db' = [d EXCEPT !.notes = @ \cup made]
        /\ quieted' = quieted \cup {x \in Users : ~d.enabled[x]}
        /\ job' = [job EXCEPT ![j] = Done] /\ sent' = sent
        /\ push' = IF made = {} THEN push ELSE [push EXCEPT ![j] = [@ EXCEPT !.pc = "queued", !.for = made]]
    BY <1>3, <1>5, <1>8 DEF Commit
  <2>2. /\ db' \in Tables /\ (db')["account"] = d.account /\ (db')["notes"] = db.notes \cup made
        /\ (db')["follows"] = db.follows /\ (db')["blocks"] = db.blocks /\ (db')["mutes"] = db.mutes
        /\ (db')["likes"] = db.likes /\ (db')["enabled"] = d.enabled
    BY <1>3, <1>6, <2>1 DEF Tables
  <2>3. \A x \in Users : db'.account[x] = "deleted" <=> db.account[x] = "deleted"
    BY <1>3, <1>4, <1>6, <2>2 DEF Tables
  <2>4. \A n \in made : n.about = None /\ n.from = u
    BY <1>3 DEF Note
  <2>5. \A n \in made : ~Gone(n) /\ (n.about # None => n.to = Owner[n.about])
    BY <1>3, <1>8, <2>4 DEF Gone, Live
  <2>6. \A i \in Jobs \ {j} : job[i].made \cap made = {}
    BY <1>1, MadeApart DEF SocialInv
  <2>7. \A i \in Jobs \ {j} : job'[i] = job[i]
    BY <2>1 DEF SocialInv, TypeOK
  <2>8. \A i \in Jobs \ {j} : job[i].locked =>
          /\ Follows(job[i].user, job[i].with)' <=> Follows(job[i].user, job[i].with)
          /\ Follows(job[i].with, job[i].user)' <=> Follows(job[i].with, job[i].user)
    BY <2>2, <2>7 DEF Follows
  <2>9. \A p \in db'.follows : p[1] # p[2] /\ db.account[p[1]] # "deleted" /\ db.account[p[2]] # "deleted"
    <3>1. \A p \in db.follows : p[1] \in Users /\ p[2] \in Users
      BY <1>4 DEF Tables, Pairs
    <3> QED
      BY <2>2, <3>1 DEF SocialInv, TypeOK, NothingOfTheDeleted
  <2>10. \A p \in db'.likes : db.account[p[1]] # "deleted"
    <3>1. \A p \in db.likes : p[1] \in Users
      BY <1>4 DEF Tables
    <3> QED
      BY <2>2, <3>1 DEF SocialInv, NothingOfTheDeleted
  <2>11. MutualIsAnnounced'
    BY <2>1, <2>2 DEF SocialInv, MutualIsAnnounced, Follows
  <2>12. quieted' = quieted \cup {x \in Users : ~db'.enabled[x]}
    BY <2>1, <2>2
  <2> QED
    BY <1>3, <2>1, <2>2, <2>3, <2>5, <2>6, <2>8, <2>9, <2>10, <2>11, <2>12, CommitKeepsInv
<1> QED
  BY <1>7, <1>8

-----------------------------------------------------------------------------
(* Social: delivery, and the theorems.                                     *)

\* A delivery goes on with what it has been handed, and only devices change.
LEMMA DeliveryKeepsInv ==
  ASSUME SocialInv, NEW j \in Jobs, NEW d \in PushType,
         push' = [push EXCEPT ![j] = d], db' \in Tables, UNCHANGED <<job, quieted>>,
         db'.account = db.account, db'.follows = db.follows, db'.blocks = db.blocks,
         db'.mutes = db.mutes, db'.enabled = db.enabled, db'.likes = db.likes, db'.notes = db.notes,
         Cardinality(Delivering') <= Slots, sent' \subseteq Mails,
         Handed(j)' \subseteq Handed(j), SentNotes' \subseteq SentNotes \cup Handed(j),
         Handed(j)' \cap SentNotes' = {}
  PROVE  SocialInv'
<1>1. push \in [Jobs -> PushType]
  BY DEF SocialInv, TypeOK
<1>2. push' \in [Jobs -> PushType] /\ \A i \in Jobs \ {j} : push'[i] = push[i]
  BY <1>1
<1>3. TypeOK'
  BY <1>2 DEF SocialInv, TypeOK
<1>4. \A i \in Jobs : JobRight(job[i])'
  <2>1. ASSUME NEW w, JobRight(w) PROVE JobRight(w)'
    BY <2>1 DEF JobRight, Follows
  <2>2. \A i \in Jobs : JobRight(job'[i])
    BY DEF SocialInv
  <2> QED
    BY <2>1, <2>2 DEF JobRight, Follows
<1>5. IdentityAlone' /\ PairAlone'
  BY DEF SocialInv, IdentityAlone, PairAlone
<1>6. MutualIsAnnounced' /\ NothingOfTheDeleted'
  BY DEF SocialInv, MutualIsAnnounced, NothingOfTheDeleted, Follows
<1>7. SilentAreQuieted' /\ OwnersAreTold'
  BY DEF SocialInv, SilentAreQuieted, OwnersAreTold
<1>8. \A i \in Jobs \ {j} : Handed(i)' = Handed(i)
  BY <1>2 DEF Handed
<1>9. HandedStay /\ HandedApart
  BY DEF SocialInv
<1>10. HandedStay'
  BY <1>8, <1>9 DEF HandedStay, Gone
<1>11. HandedApart'
  <2>1. ASSUME NEW i \in Jobs PROVE Handed(i)' \cap SentNotes' = {}
    BY <1>8, <1>9 DEF HandedApart
  <2>2. ASSUME NEW i \in Jobs, NEW k \in Jobs \ {i} PROVE Handed(i)' \cap Handed(k)' = {}
    <3>1. CASE i # j /\ k # j
      BY <1>8, <1>9, <3>1 DEF HandedApart
    <3>2. CASE i = j
      BY <1>8, <1>9, <3>2 DEF HandedApart
    <3>3. CASE k = j
      BY <1>8, <1>9, <3>3 DEF HandedApart
    <3> QED
      BY <3>1, <3>2, <3>3
  <2> QED
    BY <2>1, <2>2 DEF HandedApart
<1> QED
  BY <1>3, <1>4, <1>5, <1>6, <1>7, <1>10, <1>11 DEF SocialInv

LEMMA FinitelyDelivering ==
  ASSUME NEW S \in SUBSET Jobs, NEW j \in Jobs
  PROVE  /\ IsFiniteSet(S) /\ Cardinality(S) \in Nat
         /\ Cardinality(S \cup {j}) <= Cardinality(S) + 1
         /\ \A T \in SUBSET S : Cardinality(T) <= Cardinality(S)
<1>1. IsFiniteSet(Jobs)
  BY BoundAssumption, FS_Interval DEF Jobs
<1>2. IsFiniteSet(S) /\ Cardinality(S) \in Nat
  BY <1>1, FS_Subset, FS_CardinalityType
<1>3. Cardinality(S \cup {j}) = IF j \in S THEN Cardinality(S) ELSE Cardinality(S) + 1
  BY <1>2, FS_AddElement
<1>4. \A T \in SUBSET S : Cardinality(T) <= Cardinality(S)
  BY <1>2, FS_Subset
<1> QED
  BY <1>2, <1>3, <1>4

LEMMA StepsOfDelivery ==
  ASSUME SocialInv, NEW j \in Jobs, Delivery(j)
  PROVE  SocialInv'
<1>1. /\ db \in Tables /\ push \in [Jobs -> PushType] /\ push[j] \in PushType /\ sent \subseteq Mails
      /\ Cardinality(Delivering) <= Slots /\ Delivering \in SUBSET Jobs
  BY DEF SocialInv, TypeOK, Delivering
<1>2. Handed(j) \cap SentNotes = {}
  BY DEF SocialInv, HandedApart
<1>3. CASE Acquire(j)
  <2>1. PICK d : /\ push' = [push EXCEPT ![j] = d]
                 /\ \/ /\ Cardinality(Delivering) < Slots
                       /\ d = [pc |-> "started", for |-> push[j].for \cap db.notes, mail |-> {}]
                    \/ d = [pc |-> "dropped", for |-> {}, mail |-> {}]
    BY <1>3 DEF Acquire, Deliver
  <2>2. UNCHANGED <<db, job, sent, quieted>>
    BY <1>3 DEF Acquire
  <2>3. d \in PushType /\ d.mail = {} /\ d.for \subseteq push[j].for
    BY <1>1, <2>1 DEF PushType
  <2>4. push'[j] = d /\ \A i \in Jobs \ {j} : push'[i] = push[i]
    BY <1>1, <2>1
  <2>5. Cardinality(Delivering') <= Slots
    <3>1. CASE Cardinality(Delivering) < Slots
      <4>1. Delivering' \subseteq Delivering \cup {j}
        BY <2>4 DEF Delivering
      <4>2. Cardinality(Delivering') <= Cardinality(Delivering \cup {j})
        BY <1>1, <4>1, FinitelyDelivering
      <4>3. /\ Cardinality(Delivering) \in Nat /\ Cardinality(Delivering \cup {j}) \in Nat
            /\ Cardinality(Delivering') \in Nat
            /\ Cardinality(Delivering \cup {j}) <= Cardinality(Delivering) + 1
        BY <1>1, <4>1, FinitelyDelivering
      <4> QED
        BY <3>1, <4>2, <4>3, BoundAssumption
    <3>2. CASE d.pc = "dropped"
      <4>1. Delivering' \subseteq Delivering
        BY <2>4, <3>2 DEF Delivering
      <4>2. /\ Cardinality(Delivering') <= Cardinality(Delivering)
            /\ Cardinality(Delivering') \in Nat /\ Cardinality(Delivering) \in Nat
        BY <1>1, <4>1, FinitelyDelivering
      <4> QED
        BY <1>1, <4>2, BoundAssumption
    <3> QED
      BY <2>1, <3>1, <3>2
  <2>6. Handed(j)' \subseteq Handed(j) /\ SentNotes' = SentNotes
    BY <2>2, <2>3, <2>4 DEF Handed, SentNotes
  <2>7. Handed(j)' \cap SentNotes' = {}
    BY <1>2, <2>6
  <2> QED
    BY <1>1, <2>1, <2>2, <2>3, <2>5, <2>6, <2>7, DeliveryKeepsInv
<1>4. CASE Prepare(j)
  <2>1. PICK mail : /\ mail = {m \in {n \in push[j].for : Deliverable(n)} \X Devices : db.device[m[2]] = m[1].to}
                    /\ push' = [push EXCEPT ![j] = [pc |-> "sending", for |-> {}, mail |-> mail]]
    BY <1>4 DEF Prepare, Deliver
  <2>2. UNCHANGED <<db, job, sent, quieted>> /\ push[j].pc = "started"
    BY <1>4 DEF Prepare
  <2>3. PICK d : d = [pc |-> "sending", for |-> {}, mail |-> mail]
    OBVIOUS
  <2>4. mail \subseteq Mails /\ \A m \in mail : m[1] \in push[j].for
    BY <1>1, <2>1 DEF Mails, PushType
  <2>5. d \in PushType /\ d.mail = mail /\ d.for = {} /\ d.pc = "sending"
    BY <2>3, <2>4 DEF PushType
  <2>6. push' = [push EXCEPT ![j] = d] /\ push'[j] = d /\ \A i \in Jobs \ {j} : push'[i] = push[i]
    BY <1>1, <2>1, <2>3
  <2>7. Delivering' = Delivering
    BY <2>2, <2>5, <2>6 DEF Delivering
  <2>8. Handed(j)' \subseteq Handed(j) /\ SentNotes' = SentNotes
    BY <2>2, <2>4, <2>5, <2>6 DEF Handed, SentNotes
  <2>9. Handed(j)' \cap SentNotes' = {}
    BY <1>2, <2>8
  <2> QED
    BY <1>1, <2>2, <2>5, <2>6, <2>7, <2>8, <2>9, DeliveryKeepsInv
<1>5. CASE Send(j)
  <2>1. PICK d : d = [pc |-> "finished", for |-> {}, mail |-> {}]
    OBVIOUS
  <2>2. push' = [push EXCEPT ![j] = d] /\ UNCHANGED <<job, quieted>>
    BY <1>5, <2>1 DEF Send, Deliver
  <2>3. PICK refused, lost :
          /\ sent' = sent \cup {m \in push[j].mail \ lost : m[2] \notin refused}
          /\ db' = [db EXCEPT !.device = [x \in Devices |-> IF x \in refused THEN None ELSE @[x]]]
    BY <1>5 DEF Send
  <2>4. d \in PushType /\ d.mail = {} /\ d.for = {} /\ d.pc = "finished"
    BY <2>1 DEF PushType
  <2>5. push'[j] = d /\ \A i \in Jobs \ {j} : push'[i] = push[i]
    BY <1>1, <2>2
  <2>6. /\ db' \in Tables /\ (db')["account"] = db.account /\ (db')["follows"] = db.follows
        /\ (db')["blocks"] = db.blocks /\ (db')["mutes"] = db.mutes /\ (db')["enabled"] = db.enabled
        /\ (db')["likes"] = db.likes /\ (db')["notes"] = db.notes
    <3>1. PICK dev : dev = [x \in Devices |-> IF x \in refused THEN None ELSE db.device[x]]
      OBVIOUS
    <3>2. dev \in [Devices -> Users \cup {None}] /\ db' = [db EXCEPT !.device = dev]
      BY <1>1, <2>3, <3>1 DEF Tables
    <3> QED
      BY <1>1, <3>2 DEF Tables
  <2>7. Cardinality(Delivering') <= Slots
    <3>1. Delivering' \subseteq Delivering
      BY <2>4, <2>5 DEF Delivering
    <3>2. /\ Cardinality(Delivering') <= Cardinality(Delivering)
          /\ Cardinality(Delivering') \in Nat /\ Cardinality(Delivering) \in Nat
      BY <1>1, <3>1, FinitelyDelivering
    <3> QED
      BY <1>1, <3>2, BoundAssumption
  <2>8. sent' \subseteq Mails
    BY <1>1, <2>3 DEF PushType
  <2>9. Handed(j)' = {} /\ SentNotes' \subseteq SentNotes \cup Handed(j)
    BY <2>3, <2>4, <2>5 DEF Handed, SentNotes
  <2> QED
    BY <2>2, <2>4, <2>6, <2>7, <2>8, <2>9, DeliveryKeepsInv
<1> QED
  BY <1>3, <1>4, <1>5 DEF Delivery

LEMMA SocialInitInv == Init => SocialInv
<1> SUFFICES ASSUME Init PROVE SocialInv
  OBVIOUS
<1>1. PICK account \in [Users -> {"none", "live"}], follows \in SUBSET Pairs, linked \in SUBSET Pairs,
           device \in [Devices -> Users \cup {None}] :
        /\ \A p \in follows : p[1] # p[2] /\ account[p[1]] = "live" /\ account[p[2]] = "live"
        /\ db = [account |-> account, follows |-> follows, blocks |-> {}, mutes |-> {},
                 contacts |-> linked, enabled |-> [u \in Users |-> TRUE],
                 shown |-> [r \in Rounds |-> EventVisibility], likes |-> {},
                 notes |-> Announced(follows), device |-> device]
  BY DEF Init
<1>2. /\ job = [j \in Jobs |-> Idle] /\ sent = {} /\ quieted = {}
      /\ push = [j \in Jobs |-> [pc |-> "none", for |-> {}, mail |-> {}]]
  BY DEF Init
<1>3. Announced(follows) \subseteq Notes
  <2>1. \A p \in Pairs : /\ Note(p[2], p[1], "followed_you", None) \in Notes
                         /\ Note(p[1], p[2], "mutual_follow", None) \in Notes
    BY DEF Pairs, Note, Notes, Kinds
  <2> QED
    BY <2>1 DEF Announced
<1>4. /\ db \in Tables /\ db.account = account /\ db.follows = follows /\ db.blocks = {} /\ db.mutes = {}
      /\ db.likes = {} /\ db.notes = Announced(follows) /\ db.enabled = [u \in Users |-> TRUE]
  BY <1>1, <1>3 DEF Tables
<1>5. TypeOK
  <2>1. \A j \in Jobs : push[j].pc = "none"
    BY <1>2
  <2>2. Delivering = {}
    BY <2>1 DEF Delivering
  <2>3. Cardinality(Delivering) <= Slots
    BY <2>2, FS_EmptySet, BoundAssumption
  <2>4. push \in [Jobs -> PushType] /\ job \in [Jobs -> JobType]
    BY <1>2, IdleRight DEF PushType
  <2> QED
    BY <1>1, <1>2, <1>4, <2>3, <2>4 DEF TypeOK
<1>6. \A j \in Jobs : job[j] = Idle
  BY <1>2
<1>7. \A j \in Jobs : JobRight(job[j])
  BY <1>6, IdleRight, RestsRight
<1>8. IdentityAlone /\ PairAlone
  BY <1>6, IdleRight DEF IdentityAlone, PairAlone, Creating
<1>9. MutualIsAnnounced
  <2> SUFFICES ASSUME NEW p \in follows, <<p[2], p[1]>> \in follows
               PROVE  Note(p[1], p[2], "mutual_follow", None) \in Announced(follows)
    BY <1>4 DEF MutualIsAnnounced, Follows
  <2> QED
    BY DEF Announced
<1>10. NothingOfTheDeleted
  BY <1>1, <1>4 DEF NothingOfTheDeleted
<1>11. SilentAreQuieted
  BY <1>4 DEF SilentAreQuieted
<1>12. OwnersAreTold
  <2>1. \A x, y, kind : Note(x, y, kind, None).about = None
    BY DEF Note
  <2>2. \A n \in Announced(follows) : n.about = None
    BY <2>1 DEF Announced
  <2> QED
    BY <1>4, <2>2 DEF OwnersAreTold
<1>13. HandedStay /\ HandedApart
  <2>1. SentNotes = {} /\ \A j \in Jobs : Handed(j) = {}
    BY <1>2 DEF SentNotes, Handed
  <2> QED
    BY <2>1 DEF HandedStay, HandedApart
<1> QED
  BY <1>5, <1>7, <1>8, <1>9, <1>10, <1>11, <1>12, <1>13 DEF SocialInv

LEMMA SocialStepInv == SocialInv /\ [Next]_vars => SocialInv'
<1> SUFFICES ASSUME SocialInv, [Next]_vars PROVE SocialInv'
  OBVIOUS
<1>1. ASSUME NEW j \in Jobs, Start(j)
      PROVE  SocialInv'
  <2>1. CASE \E u, v \in Users :
               \/ FollowCheck(j, u, v) \/ Unfollow(j, u, v)
               \/ Block(j, u, v) \/ Unblock(j, u, v) \/ Mute(j, u, v) \/ Unmute(j, u, v)
    BY <2>1, FollowCheckKeepsInv, RelationsKeepInv
  <2>2. CASE \E u \in Users, r \in Rounds : LikeCheck(j, u, r) \/ RemoveLike(j, u, r)
    BY <2>2, LikeCheckKeepsInv, OwnRowsKeepInv
  <2>3. CASE \E u \in Users :
               \/ \E set \in SUBSET (Users \ {u}) : MatchContacts(j, "link_contacts", u, set)
               \/ \E set \in {{}, {u}} : MatchContacts(j, "save_preferences", u, set)
    BY <2>3, MatchContactsKeepsInv
  <2>4. CASE \E u \in Users : \/ UnlinkContacts(j, u)
                              \/ \E d \in Devices : RegisterToken(j, u, d) \/ UnregisterToken(j, u, d)
    BY <2>4, OwnRowsKeepInv
  <2>5. CASE \E u \in Users : DeleteAccount(j, u)
    BY <2>5, DeleteAccountKeepsInv
  <2>6. CASE \E r \in Rounds : ChangeRound(j, r)
    BY <2>6, OwnerAssumption, OwnRowsKeepInv
  <2> QED
    BY <1>1, <2>1, <2>2, <2>3, <2>4, <2>5, <2>6 DEF Start
<1>2. ASSUME NEW j \in Jobs, Resume(j)
      PROVE  SocialInv'
  BY <1>2, FollowLockKeepsInv, FollowCommitKeepsInv, LikeCommitKeepsInv, MatchCommitKeepsInv DEF Resume
<1>3. CASE UNCHANGED vars
  <2>1. UNCHANGED <<db, job, push, sent, quieted>>
    BY <1>3 DEF vars
  <2>2. TypeOK'
    BY <2>1 DEF SocialInv, TypeOK, Delivering
  <2>3. (\A j \in Jobs : JobRight(job[j])')
    BY <2>1 DEF SocialInv, JobRight, Follows
  <2>4. IdentityAlone' /\ PairAlone'
    BY <2>1 DEF SocialInv, IdentityAlone, PairAlone
  <2>5. MutualIsAnnounced' /\ NothingOfTheDeleted' /\ SilentAreQuieted' /\ OwnersAreTold'
    BY <2>1 DEF SocialInv, MutualIsAnnounced, NothingOfTheDeleted, SilentAreQuieted, OwnersAreTold, Follows
  <2>6. HandedStay' /\ HandedApart'
    BY <2>1 DEF SocialInv, HandedStay, HandedApart, Handed, SentNotes, Gone
  <2> QED
    BY <2>2, <2>3, <2>4, <2>5, <2>6 DEF SocialInv
<1> QED
  BY <1>1, <1>2, <1>3, StepsOfDelivery DEF Next

LEMMA SocialInvAlways == Spec => []SocialInv
<1> QED
  BY SocialInitInv, SocialStepInv, PTL DEF Spec

LEMMA SocialInvGives ==
  SocialInv => TypeOK /\ MutualIsAnnounced /\ RequestsGetThrough /\ OnePush /\ NothingOfTheDeleted
<1> SUFFICES ASSUME SocialInv PROVE RequestsGetThrough /\ OnePush
  BY DEF SocialInv
<1>1. CommitsDoNotCollide
  BY DEF SocialInv, JobRight, CommitsDoNotCollide
<1>2. SomeoneCanGoOn
  <2> DEFINE waiting == {j \in Jobs : job[j].op \in Creating \cup {"like"}}
  <2> SUFFICES ASSUME waiting # {}
               PROVE  \E j \in waiting :
                        job[j].op = "follow" /\ ~job[j].locked => MayLockPair(job[j].user, job[j].with)
    BY DEF SomeoneCanGoOn
  <2>1. CASE \E j \in waiting : ~(job[j].op = "follow" /\ ~job[j].locked)
    BY <2>1
  <2>2. CASE \A j \in waiting : job[j].op = "follow" /\ ~job[j].locked
    <3>1. \A j \in Jobs : ~job[j].locked
      BY <2>2 DEF SocialInv, JobRight, Creating
    <3> QED
      BY <3>1 DEF MayLockPair, PairLocked
  <2> QED
    BY <2>1, <2>2
<1>3. OnePush
  <2>1. ASSUME NEW j \in Jobs, NEW m \in push[j].mail PROVE m[1] \in Handed(j)
    BY DEF Handed
  <2>2. \A m \in sent : m[1] \in SentNotes
    BY DEF SentNotes
  <2>3. HandedApart
    BY DEF SocialInv
  <2> QED
    BY <2>1, <2>2, <2>3 DEF OnePush, HandedApart
<1> QED
  BY <1>1, <1>2, <1>3 DEF RequestsGetThrough

\* No step brings a deleted account back: a request that would create it has its lock.
LEMMA DeletedStep ==
  SocialInv /\ [Next]_vars =>
    [\A u \in Users : db.account[u] = "deleted" => db'.account[u] = "deleted"]_vars
<1> SUFFICES ASSUME SocialInv, Next, NEW u \in Users, db.account[u] = "deleted"
             PROVE  db'.account[u] = "deleted"
  OBVIOUS
<1>1. db \in Tables
  BY DEF SocialInv, TypeOK
<1>2. PICK j \in Jobs : Start(j) \/ Resume(j) \/ Delivery(j)
  BY DEF Next
<1>3. CASE Start(j)
  <2>1. ASSUME NEW x \in Users, NEW y \in Users,
               \/ FollowCheck(j, x, y) \/ Unfollow(j, x, y)
               \/ Block(j, x, y) \/ Unblock(j, x, y) \/ Mute(j, x, y) \/ Unmute(j, x, y)
        PROVE  db'.account[u] = "deleted"
    BY <1>1, <2>1 DEF FollowCheck, Begin, Unfollow, Block, Unblock, Mute, Unmute, Write, Tables
  <2>2. ASSUME NEW x \in Users, NEW r \in Rounds, LikeCheck(j, x, r) \/ RemoveLike(j, x, r)
        PROVE  db'.account[u] = "deleted"
    BY <1>1, <2>2 DEF LikeCheck, Begin, RemoveLike, Write, Tables
  <2>3. ASSUME NEW x \in Users, NEW op, NEW set, MatchContacts(j, op, x, set)
        PROVE  db'.account[u] = "deleted"
    BY <2>3 DEF MatchContacts, Begin
  <2>4. ASSUME NEW x \in Users,
               UnlinkContacts(j, x) \/ \E d \in Devices : RegisterToken(j, x, d) \/ UnregisterToken(j, x, d)
        PROVE  db'.account[u] = "deleted"
    BY <1>1, <2>4 DEF UnlinkContacts, RegisterToken, UnregisterToken, Write, Tables
  <2>5. ASSUME NEW x \in Users, DeleteAccount(j, x)
        PROVE  db'.account[u] = "deleted"
    <3>1. db' = WithoutUser(x)
      BY <2>5 DEF DeleteAccount
    <3>2. (db')["account"] = [db.account EXCEPT ![x] = "deleted"]
      BY <1>1, <3>1 DEF WithoutUser, Tables
    <3> QED
      BY <1>1, <3>2 DEF Tables
  <2>6. ASSUME NEW r \in Rounds, ChangeRound(j, r)
        PROVE  db'.account[u] = "deleted"
    BY <1>1, <2>6 DEF ChangeRound, Write, Tables
  <2> QED
    BY <1>3, <2>1, <2>2, <2>3, <2>4, <2>5, <2>6 DEF Start
<1>4. CASE Resume(j)
  \* A commit makes at most the account of the request live, which is not the deleted one.
  <2>1. ASSUME NEW x, x # u, NEW d, DOMAIN d = DOMAIN db,
               d.account = db.account \/ d.account = [db.account EXCEPT ![x] = "live"],
               NEW notes, db' = [d EXCEPT !.notes = notes]
        PROVE  db'.account[u] = "deleted"
    <3>1. "account" \in DOMAIN d
      BY <1>1, <2>1 DEF Tables
    <3>2. (db')["account"] = d.account
      BY <2>1, <3>1
    <3> QED
      BY <1>1, <2>1, <3>2 DEF Tables
  <2>2. CASE FollowLock(j)
    BY <2>2 DEF FollowLock
  <2>3. PICK y, v, made : y = job[j].user /\ v = job[j].with /\ made = job[j].made
    OBVIOUS
  <2>4. CASE FollowCommit(j)
    <3>1. y # u
      BY <2>3, <2>4 DEF FollowCommit, SocialInv, JobRight, Creating
    <3>2. PICK d : d = [db EXCEPT !.account[y] = "live", !.follows = @ \cup {<<y, v>>}]
      OBVIOUS
    <3>3. UNCHANGED db \/ db' = [d EXCEPT !.notes = @ \cup made]
      BY <2>3, <2>4, <3>2 DEF FollowCommit, Commit
    <3>4. d.account = [db.account EXCEPT ![y] = "live"] /\ DOMAIN d = DOMAIN db
      BY <1>1, <3>2 DEF Tables
    <3> QED
      BY <2>1, <3>1, <3>3, <3>4
  <2>5. CASE LikeCommit(j)
    <3>1. PICK d : d = [db EXCEPT !.likes = @ \cup {<<y, v>>}]
      OBVIOUS
    <3>2. UNCHANGED db \/ db' = [d EXCEPT !.notes = @ \cup ReactionNotes(y, Owner[v], v)]
      BY <2>3, <2>5, <3>1 DEF LikeCommit, Commit
    <3>3. d.account = db.account /\ DOMAIN d = DOMAIN db
      BY <1>1, <3>1 DEF Tables
    <3>4. PICK x : x # u
      BY "live" # "deleted"
    <3> QED
      BY <2>1, <3>2, <3>3, <3>4
  <2>6. CASE MatchCommit(j)
    <3>1. y # u
      BY <2>3, <2>6 DEF MatchCommit, SocialInv, JobRight, Creating
    <3>2. PICK d : /\ Commit(j, {n.to : n \in made}, FALSE, d, made)
                   /\ \/ d = [[db EXCEPT !.account[y] = "live"]
                                EXCEPT !.contacts = {p \in @ : p[1] # y} \cup ({y} \X job[j].set)]
                      \/ d = [[db EXCEPT !.account[y] = "live"] EXCEPT !.enabled[y] = job[j].set # {}]
      BY <2>3, <2>6 DEF MatchCommit
    <3>3. UNCHANGED db \/ db' = [d EXCEPT !.notes = @ \cup made]
      BY <3>2 DEF Commit
    <3>4. d.account = [db.account EXCEPT ![y] = "live"] /\ DOMAIN d = DOMAIN db
      BY <1>1, <3>2 DEF Tables
    <3> QED
      BY <2>1, <3>1, <3>3, <3>4
  <2> QED
    BY <1>4, <2>2, <2>4, <2>5, <2>6 DEF Resume
<1>5. CASE Delivery(j)
  BY <1>1, <1>5 DEF Delivery, Acquire, Prepare, Send, Tables
<1> QED
  BY <1>2, <1>3, <1>4, <1>5

\* The tables, the requests and the deliveries stay in their types, nobody follows, blocks or
\* mutes themself, and no more deliveries run than there are slots (push_notifications.py).
THEOREM SocialTypeCorrect == Spec => []TypeOK
<1> QED
  BY SocialInvAlways, SocialInvGives, PTL

\* However many golfers follow each other at once: two who do have both been told, unless one of
\* them turned notifications off (social.py: follow_user under the lock of the pair).
THEOREM MutualAlwaysAnnounced == Spec => []MutualIsAnnounced
<1> QED
  BY SocialInvAlways, SocialInvGives, PTL

\* No follow, contact sync or preferences save loses its work to the row of another request, and
\* the requests never all wait (domain.py: the advisory locks of identities and pairs).
THEOREM RequestsAlwaysGetThrough == Spec => []RequestsGetThrough
<1> QED
  BY SocialInvAlways, SocialInvGives, PTL

\* A notification is handed to one delivery only and pushed to a device at most once, whatever
\* is undone and done again (push_notifications.py: run_push_delivery_task).
THEOREM PushedOnce == Spec => []OnePush
<1> QED
  BY SocialInvAlways, SocialInvGives, PTL

\* The deletion of an account is complete and for good, whatever requests of the user, or about
\* them, were under way (main.py: delete_account; domain.py: require_user's tombstone).
THEOREM DeletionIsComplete == Spec => DeletedLeavesNothing
<1>1. Spec => []NothingOfTheDeleted
  BY SocialInvAlways, SocialInvGives, PTL
<1>2. Spec => DeletedStaysDeleted
  BY SocialInvAlways, DeletedStep, PTL DEF Spec, DeletedStaysDeleted
<1> QED
  BY <1>1, <1>2, PTL DEF DeletedLeavesNothing

-----------------------------------------------------------------------------
(* RoundLog: the inductive invariant.                                      *)

LogTyped ==
  /\ rounds \in [Writers -> RoundRow]
  /\ events \in [Writers -> EventRow]
  /\ rating \in Ids
  /\ state \in [count : Ids \cup {Missing}, played : BOOLEAN]
  /\ writer \in [Writers -> Request]
  /\ counted \in BOOLEAN /\ told \subseteq Writers /\ late \subseteq Writers

\* A round is its creator's number, which is done once there is a round; every other request
\* is about such a round.  Only an edit has an event to refresh.
OwnRounds ==
  /\ rating # 0 => rounds[rating].exists /\ rounds[rating].rated
  /\ \A r \in Writers : rounds[r].exists => writer[r].op = "ended"
  /\ \A j \in Writers : Busy(j) =>
       /\ writer[j].r \in Writers
       /\ writer[j].op = "create" => writer[j].r = j
       /\ writer[j].op = "rate" /\ writer[j].r # j => writer[writer[j].r].op = "ended"
       /\ writer[j].op \in {"update", "details", "delete"} => writer[writer[j].r].op = "ended"
       /\ writer[j].op \in {"create", "rate", "delete"} => writer[j].event = 0

\* The locks of the golfer: one request at a time creates, rates or deletes a rating's round.
HoldsUser(i) ==
  \/ writer[i].op \in {"create", "rate"}
  \/ writer[i].op = "delete" /\ writer[i].pc = "held" /\ rounds[writer[i].r].rated
OneUser == \A i, j \in Writers : HoldsUser(i) /\ HoldsUser(j) => i = j

\* An event is the number of the request that inserted it, which is done, and is about a round
\* whose creator is done.  A round there is has an event; so an edit finds none only after the
\* round has gone, and a rating that is under way keeps its round from going.
OwnEvents ==
  /\ \A e \in Writers : events[e].round # 0 =>
       /\ writer[e].op = "ended"
       /\ events[e].round \in Writers /\ writer[events[e].round].op = "ended"
  /\ \A e \in late : writer[e].op = "ended"
  /\ \A r \in Existing : EventsOf(r) # {}
  /\ \A j \in Writers : Busy(j) =>
       /\ writer[j].op = "rate" /\ writer[j].r # j =>
            rounds[writer[j].r].exists /\ rounds[writer[j].r].rated
       /\ writer[j].event # 0 =>
            /\ writer[j].event \in Writers /\ writer[writer[j].event].op = "ended"
            /\ events[writer[j].event].round \in {0, writer[j].r}
       /\ writer[j].op = "details" /\ writer[j].pc = "held" /\ writer[j].event = 0 =>
            ~rounds[writer[j].r].exists

\* The rounds there are after the change of a request.
AfterChange(S, op, r) ==
  CASE op = "delete" -> S \ {r} [] op \in {"create", "rate"} -> S \cup {r} [] OTHER -> S

\* A request that is alone has counted what will be there once it commits.
AloneCounts ==
  \A j \in Writers : Busy(j) /\ writer[j].alone =>
    /\ \A i \in Writers \ {j} : ~Busy(i)
    /\ writer[j].pc = "held" =>
         /\ writer[j].n = Cardinality(AfterChange(Existing, writer[j].op, writer[j].r))
         /\ writer[j].loaded = state.count

\* What a request that is alone has read of the round and of its event is what is there.
AloneReads ==
  \A j \in Writers : Busy(j) /\ writer[j].alone =>
    LET w == writer[j] IN
    /\ w.op \in {"create", "rate"} => w.vis = w.was
    /\ w.op \in {"rate", "update", "details"} /\ rounds[w.r].exists => w.was = rounds[w.r].vis
    /\ w.op \in {"update", "details"} =>
         /\ rounds[w.r].exists
         /\ w.pc = "held" => w.event \in EventsOf(w.r) /\ w.eventWas = events[w.event].vis

\* After a request that was alone, one event of the round is as visible as the round.
EventMatches ==
  \A r \in told : rounds[r].exists => \E e \in EventsOf(r) : events[e].vis = rounds[r].vis

\* The two columns of the played-course row agree, and after a request that was alone they
\* agree with the rounds.
StateRight ==
  /\ state.count # Missing => state.played = (state.count > 0 \/ Onboarded)
  /\ counted /\ (Existing # {} \/ state.count # Missing) =>
       state.count = Cardinality(Existing)

LogInv ==
  /\ LogTyped /\ OwnRounds /\ OneUser /\ AloneCounts /\ StateRight
  /\ OwnEvents /\ EventsHaveRounds /\ AloneReads /\ EventMatches

\* Sets of rounds are finite, and none has more rounds than there are requests.
LEMMA RoundsFinite ==
  ASSUME NEW S \in SUBSET Writers
  PROVE  IsFiniteSet(S) /\ Cardinality(S) \in Ids /\ (Cardinality(S) > 0 <=> S # {})
<1>1. IsFiniteSet(Writers) /\ Cardinality(Writers) = LogRequests
  BY FS_Interval, RoundLogAssumption DEF Writers
<1>2. IsFiniteSet(S) /\ Cardinality(S) <= LogRequests /\ Cardinality(S) \in Nat
  BY <1>1, FS_Subset, FS_CardinalityType
<1>3. Cardinality(S) = 0 <=> S = {}
  BY <1>2, FS_EmptySet
<1> QED BY <1>2, <1>3, RoundLogAssumption DEF Ids

LEMMA NewestIn ==
  ASSUME NEW S \in SUBSET Writers, S # {}
  PROVE  Newest(S) \in S
<1>1. IsFiniteSet(S) /\ S \in SUBSET Int
  BY RoundsFinite, RoundLogAssumption DEF Writers
<1>2. \E x \in S : \A y \in S : y <= x
  BY <1>1, LargestInteger
<1> QED BY <1>2 DEF Newest

LEMMA LogInvGives == LogInv => LogTypeOK /\ ActivityFollowsRounds /\ CountHeals
<1> SUFFICES ASSUME LogInv PROVE LogTypeOK /\ ActivityFollowsRounds /\ CountHeals
  OBVIOUS
<1>1. LogTypeOK
  BY DEF LogInv, LogTyped, OwnRounds, LogTypeOK
<1>2. RoundsAreTold
  <2> SUFFICES ASSUME NEW r \in told \cap Existing, NEW v \in Viewers, rounds[r].vis \in Audience(v)
               PROVE  \E e \in EventsOf(r) : e \in Activity(v)
    BY DEF RoundsAreTold
  <2>1. PICK e \in EventsOf(r) : events[e].vis = rounds[r].vis
    BY DEF LogInv, EventMatches, Existing
  <2>2. e \in Writers /\ events[e].round = r /\ r # 0 /\ rounds[r].exists
    BY DEF EventsOf, Existing
  <2>3. MatchesRound(e)
    BY <2>1, <2>2 DEF MatchesRound
  <2> QED BY <2>1, <2>2, <2>3 DEF Activity
<1>3. CountHeals
  <2>1. Existing \in SUBSET Writers
    BY DEF Existing
  <2>2. Cardinality(Existing) > 0 <=> Existing # {}
    BY <2>1, RoundsFinite
  <2>3. Cardinality(Existing) # Missing
    BY <2>1, RoundsFinite, RoundLogAssumption DEF Ids, Missing
  <2> QED BY <2>2, <2>3, RoundLogAssumption DEF LogInv, StateRight, CountHeals
<1> QED BY <1>1, <1>2, <1>3 DEF LogInv, ActivityFollowsRounds

LEMMA LogInvInit == LogInit => LogInv
<1> SUFFICES ASSUME LogInit PROVE LogInv
  OBVIOUS
<1>1. /\ NoRow \in RoundRow /\ ~NoRow.exists /\ NoEvent \in EventRow /\ NoEvent.round = 0
      /\ Out \in Request /\ Out.op = "out"
  BY RoundLogAssumption DEF NoRow, RoundRow, NoEvent, EventRow, Out, Request, WriterOps, Visibilities, Ids
<1>2. LogTyped
  BY <1>1, RoundLogAssumption DEF LogInit, LogTyped, Ids, Missing
<1>3. Existing = {} /\ \A j \in Writers : ~Busy(j) /\ ~HoldsUser(j)
  BY <1>1 DEF LogInit, Existing, Busy, HoldsUser, WriterOps
<1>4. StateRight
  BY <1>3, FS_EmptySet, RoundLogAssumption DEF LogInit, StateRight, Missing
<1>5. OneUser /\ AloneCounts /\ AloneReads /\ OwnRounds
  BY <1>1, <1>3 DEF LogInit, OneUser, AloneCounts, AloneReads, OwnRounds
<1>6. OwnEvents /\ EventsHaveRounds /\ EventMatches
  BY <1>1, <1>3 DEF LogInit, OwnEvents, EventsHaveRounds, EventMatches
<1> QED BY <1>2, <1>4, <1>5, <1>6 DEF LogInv

LEMMA EnterKeeps ==
  ASSUME LogInv, NEW j \in Writers, NEW op \in WriterOps, NEW r \in Writers,
         NEW vis \in Visibilities, NEW was \in Visibilities, NEW touches \in BOOLEAN,
         Enter(j, op, r, vis, was, touches),
         op = "create" => r = j,
         op = "rate" /\ r # j => rounds[r].exists /\ rounds[r].rated,
         op \in {"update", "details", "delete"} => rounds[r].exists,
         op \in {"create", "rate"} => ~UserBusy(j) /\ vis = was,
         op # "create" /\ rounds[r].exists => was = rounds[r].vis
  PROVE  LogInv'
<1> DEFINE others == {i \in Writers : Busy(i)}
           first == others = {}
           w == [Out EXCEPT !.op = op, !.r = r, !.vis = vis, !.was = was, !.touches = touches, !.alone = first]
<1>0. /\ writer[j] = Out /\ UNCHANGED <<rounds, events, rating, state, counted, told, late>>
      /\ \A q \in Writers : rounds[q].exists => writer[q].op = "ended"
  BY DEF Enter, history, LogInv, OwnRounds
<1>1. /\ w \in Request /\ w.op = op /\ w.r = r /\ w.pc = "begun" /\ w.alone = first /\ w.event = 0
      /\ w.vis = vis /\ w.was = was
  <2>1. first \in BOOLEAN /\ r \in Ids /\ 0 \in Ids
    BY RoundLogAssumption DEF Writers, Ids
  <2> HIDE DEF first
  <2>2. Out \in Request /\ Out.pc = "begun" /\ Out.event = 0
    BY <2>1, RoundLogAssumption DEF Out, Request, Visibilities
  <2> QED BY <2>1, <2>2 DEF Request, WriterOps
<1>2. ASSUME NEW i \in Writers
      PROVE  writer'[i] = IF i = j THEN w ELSE IF i \in others THEN [writer[i] EXCEPT !.alone = FALSE] ELSE writer[i]
  BY DEF Enter
<1> HIDE DEF w
<1>3. ASSUME NEW i \in Writers, i # j
      PROVE  /\ writer'[i] \in Request /\ writer'[i].op = writer[i].op /\ writer'[i].r = writer[i].r
             /\ writer'[i].event = writer[i].event /\ writer'[i].pc = writer[i].pc
             /\ i \in others => ~writer'[i].alone
  <2>1. writer[i] \in Request
    BY DEF LogInv, LogTyped
  <2>2. [writer[i] EXCEPT !.alone = FALSE] \in Request
    BY <2>1 DEF Request
  <2> QED BY <1>2, <1>3, <2>1, <2>2 DEF Request
<1>4. LogTyped'
  <2>1. writer' \in [Writers -> Request]
    <3>1. writer' = [i \in Writers |-> writer'[i]]
      BY DEF Enter
    <3> QED BY <1>1, <1>2, <1>3, <3>1
  <2> QED BY <1>0, <2>1 DEF LogInv, LogTyped
<1>5. Out.op = "out" /\ writer[j].op = "out"
  BY <1>0 DEF Out
<1>6. OwnRounds'
  <2>1. ASSUME NEW i \in Writers, writer[i].op = "ended" PROVE writer'[i].op = "ended"
    BY <1>3, <1>5, <2>1
  <2>2. ASSUME NEW i \in Writers, Busy(i)'
        PROVE  /\ writer'[i].r \in Writers
               /\ writer'[i].op = "create" => writer'[i].r = i
               /\ writer'[i].op = "rate" /\ writer'[i].r # i => writer'[writer'[i].r].op = "ended"
               /\ writer'[i].op \in {"update", "details", "delete"} => writer'[writer'[i].r].op = "ended"
               /\ writer'[i].op \in {"create", "rate", "delete"} => writer'[i].event = 0
    <3>1. CASE i = j
      BY <1>0, <1>1, <1>2, <2>1, <3>1
    <3>2. CASE i # j
      BY <1>3, <2>1, <2>2, <3>2 DEF LogInv, OwnRounds, Busy
    <3> QED BY <3>1, <3>2
  <2>3. \A i \in Writers : rounds[i].exists => writer'[i].op = "ended"
    BY <2>1 DEF LogInv, OwnRounds
  <2> QED BY <1>0, <2>2, <2>3 DEF LogInv, OwnRounds
<1>7. ASSUME NEW i \in Writers, Busy(i)', writer'[i].alone
      PROVE  i = j /\ writer'[i] = w /\ \A k \in Writers \ {i} : ~Busy(k)'
  <2>1. i = j
    BY <1>3, <1>7 DEF Busy
  <2>2. w.alone /\ writer'[j] = w
    BY <1>2, <1>7, <2>1
  <2>3. \A k \in Writers \ {i} : ~Busy(k)'
    BY <1>1, <1>3, <2>1, <2>2 DEF Busy
  <2> QED BY <2>1, <2>2, <2>3
<1>8. AloneCounts'
  BY <1>1, <1>7 DEF AloneCounts
<1>9. AloneReads'
  <2> SUFFICES ASSUME NEW i \in Writers, Busy(i)', writer'[i].alone
               PROVE  /\ writer'[i].op \in {"create", "rate"} => writer'[i].vis = writer'[i].was
                      /\ writer'[i].op \in {"rate", "update", "details"} /\ rounds'[writer'[i].r].exists
                            => writer'[i].was = rounds'[writer'[i].r].vis
                      /\ writer'[i].op \in {"update", "details"} => rounds'[writer'[i].r].exists
                      /\ writer'[i].pc # "held"
    BY DEF AloneReads
  <2>1. writer'[i] = w
    BY <1>7
  <2> QED BY <1>0, <1>1, <2>1
<1>10. OneUser'
  <2>1. ASSUME NEW i \in Writers, i # j PROVE HoldsUser(i)' <=> HoldsUser(i)
    BY <1>0, <1>3, <2>1 DEF HoldsUser
  <2>2. HoldsUser(j)' => op \in {"create", "rate"}
    BY <1>0, <1>1, <1>2 DEF HoldsUser
  <2>3. op \in {"create", "rate"} => \A i \in Writers \ {j} : ~HoldsUser(i)
    BY DEF UserBusy, HoldsUser
  <2> QED BY <2>1, <2>2, <2>3 DEF LogInv, OneUser
<1>11. OwnEvents'
  <2>1. ASSUME NEW i \in Writers, writer[i].op = "ended" PROVE writer'[i].op = "ended"
    BY <1>3, <1>5, <2>1
  <2>2. ASSUME NEW i \in Writers, Busy(i)'
        PROVE  /\ writer'[i].op = "rate" /\ writer'[i].r # i =>
                    rounds'[writer'[i].r].exists /\ rounds'[writer'[i].r].rated
               /\ writer'[i].event # 0 =>
                    /\ writer'[i].event \in Writers /\ writer'[writer'[i].event].op = "ended"
                    /\ events'[writer'[i].event].round \in {0, writer'[i].r}
               /\ writer'[i].op = "details" /\ writer'[i].pc = "held" /\ writer'[i].event = 0 =>
                    ~rounds'[writer'[i].r].exists
    <3>1. CASE i = j
      BY <1>0, <1>1, <1>2, <3>1
    <3>2. CASE i # j
      BY <1>0, <1>3, <2>1, <2>2, <3>2 DEF LogInv, OwnEvents, Busy
    <3> QED BY <3>1, <3>2
  <2>3. \A e \in Writers : events[e].round # 0 =>
          /\ writer'[e].op = "ended"
          /\ events[e].round \in Writers /\ writer'[events[e].round].op = "ended"
    BY <2>1 DEF LogInv, OwnEvents
  <2>4. \A e \in late : writer'[e].op = "ended"
    BY <2>1 DEF LogInv, OwnEvents, LogTyped
  <2>5. \A q \in Existing : EventsOf(q) # {}
    BY DEF LogInv, OwnEvents
  <2>6. Existing' = Existing /\ \A q \in Existing : EventsOf(q)' = EventsOf(q)
    BY <1>0 DEF Existing, EventsOf
  <2> QED BY <1>0, <2>2, <2>3, <2>4, <2>5, <2>6 DEF OwnEvents
<1>12. StateRight' /\ EventsHaveRounds' /\ EventMatches'
  BY <1>0 DEF LogInv, StateRight, Existing, EventsHaveRounds, EventMatches, EventsOf
<1> QED BY <1>4, <1>6, <1>8, <1>9, <1>10, <1>11, <1>12 DEF LogInv

LEMMA EditKeeps ==
  ASSUME LogInv, NEW j \in Writers, NEW op \in {"update", "details"}, NEW r \in Existing, Edit(j, op, r)
  PROVE  LogInv'
<1> DEFINE was == rounds[r].vis
<1>1. r \in Writers /\ rounds[r].exists /\ was \in Visibilities
  BY DEF Existing, LogInv, LogTyped, RoundRow
<1>2. PICK vis \in Visibilities : \E touches \in {vis # was, TRUE} : Enter(j, op, r, vis, was, touches)
  BY DEF Edit
<1>6. PICK touches \in {vis # was, TRUE} : Enter(j, op, r, vis, was, touches)
  BY <1>2
<1>3. touches \in BOOLEAN
  OBVIOUS
<1>4. op \in WriterOps
  BY DEF WriterOps
<1>5. was = rounds[r].vis
  OBVIOUS
<1> HIDE DEF was
<1> QED BY <1>1, <1>3, <1>4, <1>5, <1>6, EnterKeeps

LEMMA StartKeeps == ASSUME LogInv, NEW j \in Writers, LogStart(j) PROVE LogInv'
<1>0. \A r \in Writers : rounds[r] \in RoundRow
  BY DEF LogInv, LogTyped
<1>r. rating # 0 => rating \in Existing /\ rounds[rating].rated
  BY RoundLogAssumption DEF LogInv, LogTyped, OwnRounds, Ids, Writers, Existing
<1>1. ASSUME CreateRound(j) PROVE LogInv'
  BY <1>1, EnterKeeps DEF CreateRound, WriterOps
<1>2. ASSUME RateCourse(j) PROVE LogInv'
  <2> DEFINE r == IF rating # 0 THEN rating ELSE j
             vis == IF rating # 0 THEN rounds[rating].vis ELSE "private"
  <2>1. /\ r \in Writers /\ vis \in Visibilities
        /\ r # j => rounds[r].exists /\ rounds[r].rated
    BY <1>0, <1>r DEF RoundRow, Visibilities, Existing
  <2>2. PICK touches \in {rating = 0, TRUE} : ~UserBusy(j) /\ Enter(j, "rate", r, vis, vis, touches)
    BY <1>2 DEF RateCourse
  <2>3. touches \in BOOLEAN
    OBVIOUS
  <2> HIDE DEF r, vis
  <2>4. writer[j] = Out /\ Out.op = "out"
    <3>1. writer[j] = Out
      BY <2>2 DEF Enter
    <3> QED BY <3>1 DEF Out
  <2>5. rounds[r].exists => vis = rounds[r].vis
    BY <2>4 DEF LogInv, OwnRounds, r, vis
  <2> QED BY <2>1, <2>2, <2>3, <2>5, EnterKeeps DEF WriterOps
<1>3. ASSUME UpdateRound(j) PROVE LogInv'
  BY <1>3, EditKeeps DEF UpdateRound
<1>4. ASSUME PatchDetails(j) PROVE LogInv'
  BY <1>4, <1>r, EditKeeps DEF PatchDetails
<1>5. ASSUME DeleteRound(j) PROVE LogInv'
  <2>1. PICK r \in Existing : Enter(j, "delete", r, rounds[r].vis, rounds[r].vis, TRUE)
    BY <1>5 DEF DeleteRound
  <2> DEFINE was == rounds[r].vis
  <2>2. r \in Writers /\ was \in Visibilities /\ rounds[r].exists /\ was = rounds[r].vis
    BY <1>0 DEF Existing, RoundRow
  <2>3. Enter(j, "delete", r, was, was, TRUE)
    BY <2>1
  <2> HIDE DEF was
  <2> QED BY <2>2, <2>3, EnterKeeps DEF WriterOps
<1> QED BY <1>1, <1>2, <1>3, <1>4, <1>5 DEF LogStart

\* A request that ends, and what a request has done that is not under way, matters to no part.
LEMMA EndedFacts == Ended \in Request /\ Ended.op = "ended"
<1>1. Out \in Request
  BY RoundLogAssumption DEF Out, Request, WriterOps, Visibilities, Ids
<1> HIDE DEF Out
<1> QED BY <1>1 DEF Ended, Request

\* A request that ends without having changed a round keeps the invariant.
LEMMA EndKeeps ==
  ASSUME LogInv, NEW j \in Writers, Busy(j), writer' = [writer EXCEPT ![j] = Ended],
         UNCHANGED <<rounds, events, rating, state, history>>
  PROVE  LogInv'
<1>0. UNCHANGED <<rounds, events, rating, state, counted, told, late>>
  BY DEF history
<1>1. \A i \in Writers : writer'[i] = IF i = j THEN Ended ELSE writer[i]
  BY DEF LogInv, LogTyped
<1>2. LogTyped'
  BY <1>0, EndedFacts DEF LogInv, LogTyped
<1>3. \A i \in Writers : writer[i].op = "ended" => writer'[i].op = "ended"
  BY <1>1, EndedFacts
<1>4. \A i \in Writers : Busy(i)' => Busy(i) /\ i # j /\ writer'[i] = writer[i]
  BY <1>1, EndedFacts DEF Busy, WriterOps
<1>5. OwnRounds'
  BY <1>0, <1>3, <1>4 DEF LogInv, OwnRounds
<1>6. Existing' = Existing /\ \A r \in Writers : EventsOf(r)' = EventsOf(r)
  BY <1>0 DEF Existing, EventsOf
<1>7. ASSUME NEW i \in Writers, Busy(i)', writer'[i].alone PROVE FALSE
  BY <1>4, <1>7 DEF LogInv, AloneCounts
<1>8. AloneCounts' /\ AloneReads'
  BY <1>7 DEF AloneCounts, AloneReads
<1>9. OneUser'
  <2>1. \A i \in Writers : HoldsUser(i)' => HoldsUser(i)
    BY <1>0, <1>1, EndedFacts DEF HoldsUser
  <2> QED BY <2>1 DEF LogInv, OneUser
<1>10. OwnEvents'
  <2>1. \A e \in Writers : events[e].round # 0 =>
          /\ writer'[e].op = "ended"
          /\ events[e].round \in Writers /\ writer'[events[e].round].op = "ended"
    BY <1>3 DEF LogInv, OwnEvents
  <2>2. \A e \in late : writer'[e].op = "ended"
    BY <1>3 DEF LogInv, OwnEvents, LogTyped
  <2>3. \A r \in Existing : EventsOf(r) # {} /\ r \in Writers
    BY DEF LogInv, OwnEvents, Existing
  <2>4. ASSUME NEW i \in Writers, Busy(i)'
        PROVE  /\ writer'[i].op = "rate" /\ writer'[i].r # i =>
                    rounds'[writer'[i].r].exists /\ rounds'[writer'[i].r].rated
               /\ writer'[i].event # 0 =>
                    /\ writer'[i].event \in Writers /\ writer'[writer'[i].event].op = "ended"
                    /\ events'[writer'[i].event].round \in {0, writer'[i].r}
               /\ writer'[i].op = "details" /\ writer'[i].pc = "held" /\ writer'[i].event = 0 =>
                    ~rounds'[writer'[i].r].exists
    <3>1. Busy(i) /\ writer'[i] = writer[i]
      BY <1>4, <2>4
    <3>2. writer[i].event # 0 =>
            writer[i].event \in Writers /\ writer'[writer[i].event].op = "ended"
      BY <1>3, <3>1 DEF LogInv, OwnEvents
    <3> QED BY <1>0, <3>1, <3>2 DEF LogInv, OwnEvents
  <2> QED BY <1>0, <1>6, <2>1, <2>2, <2>3, <2>4 DEF OwnEvents
<1>11. StateRight' /\ EventsHaveRounds' /\ EventMatches'
  BY <1>0, <1>6 DEF LogInv, StateRight, EventsHaveRounds, EventMatches, LogTyped
<1> QED BY <1>2, <1>5, <1>8, <1>9, <1>10, <1>11 DEF LogInv

LEMMA HoldKeeps == ASSUME LogInv, NEW j \in Writers, Hold(j) PROVE LogInv'
<1> DEFINE w == writer[j]
<1>0. /\ w \in Request /\ Busy(j) /\ w.r \in Writers /\ w.pc = "begun"
      /\ UNCHANGED <<rounds, events, rating, state, history>>
      /\ UNCHANGED <<rounds, events, rating, state, counted, told, late>>
  BY DEF Hold, LogInv, LogTyped, OwnRounds, Busy, history
<1>1. CASE writer' = [writer EXCEPT ![j] = Ended]
  BY <1>0, <1>1, EndKeeps
<1>2. CASE /\ w.op = "delete" /\ rounds[w.r].rated => ~UserBusy(j)
           /\ \E e \in Refreshed(w.op, w.r) :
                writer' = [writer EXCEPT ![j] =
                  [w EXCEPT !.pc = "held", !.event = e,
                            !.eventWas = IF e = 0 THEN "private" ELSE events[e].vis,
                            !.n = CountAfter(w.op, w.r), !.loaded = state.count]]
  <2>1. PICK e \in Refreshed(w.op, w.r) :
          writer' = [writer EXCEPT ![j] =
            [w EXCEPT !.pc = "held", !.event = e,
                      !.eventWas = IF e = 0 THEN "private" ELSE events[e].vis,
                      !.n = CountAfter(w.op, w.r), !.loaded = state.count]]
    BY <1>2
  <2> DEFINE v == IF e = 0 THEN "private" ELSE events[e].vis
             n == CountAfter(w.op, w.r)
             h == [w EXCEPT !.pc = "held", !.event = e, !.eventWas = v, !.n = n, !.loaded = state.count]
  <2>e. /\ e \in EventsOf(w.r) \cup {0}
        /\ w.op \in {"update", "details"} /\ EventsOf(w.r) # {} => e \in EventsOf(w.r)
    <3>1. EventsOf(w.r) \in SUBSET Writers
      BY DEF EventsOf
    <3>2. EventsOf(w.r) # {} => Newest(EventsOf(w.r)) \in EventsOf(w.r)
      BY <3>1, NewestIn
    <3> QED BY <3>2 DEF Refreshed
  <2>2. e \in Ids
    <3>1. EventsOf(w.r) \in SUBSET Writers
      BY DEF EventsOf
    <3> QED BY <2>e, <3>1, RoundLogAssumption DEF Writers, Ids
  <2>3. v \in Visibilities
    BY <2>2, RoundLogAssumption DEF LogInv, LogTyped, EventRow, Ids, Writers, Visibilities
  <2>4. n \in Ids /\ n = Cardinality(AfterChange(Existing, w.op, w.r))
    <3>1. AfterChange(Existing, w.op, w.r) \in SUBSET Writers
      BY <1>0 DEF AfterChange, Existing
    <3> QED BY <3>1, RoundsFinite DEF CountAfter, AfterChange
  <2>5. state.count \in Ids \cup {Missing}
    BY DEF LogInv, LogTyped
  <2> HIDE DEF v, n
  <2>6. /\ h \in Request /\ h.op = w.op /\ h.r = w.r /\ h.alone = w.alone /\ h.event = e
        /\ h.pc = "held" /\ h.n = n /\ h.loaded = state.count
        /\ h.vis = w.vis /\ h.was = w.was /\ h.eventWas = v
    BY <1>0, <2>2, <2>3, <2>4, <2>5 DEF Request, Missing
  <2>7. writer' = [writer EXCEPT ![j] = h]
    BY <2>1 DEF v, n
  <2> HIDE DEF h
  <2>8. \A i \in Writers : writer'[i] = IF i = j THEN h ELSE writer[i]
    BY <2>7 DEF LogInv, LogTyped
  <2>9. LogTyped'
    BY <1>0, <2>6, <2>7 DEF LogInv, LogTyped
  <2>10. OwnRounds'
    <3>1. w.op \in {"create", "rate", "delete"} => e = 0
      BY DEF Refreshed
    <3> QED BY <1>0, <2>6, <2>8, <3>1 DEF LogInv, OwnRounds, Busy
  <2>11. AloneCounts'
    <3>1. \A i \in Writers : Busy(i)' <=> Busy(i)
      BY <2>6, <2>8 DEF Busy
    <3>2. Existing' = Existing
      BY <1>0 DEF Existing
    <3> SUFFICES ASSUME NEW i \in Writers, Busy(i)', writer'[i].alone
                 PROVE  /\ \A k \in Writers \ {i} : ~Busy(k)'
                        /\ writer'[i].pc = "held" =>
                             /\ writer'[i].n = Cardinality(AfterChange(Existing', writer'[i].op, writer'[i].r))
                             /\ writer'[i].loaded = state'.count
      BY DEF AloneCounts
    <3>3. CASE i = j
      <4>1. /\ writer'[i].n = n /\ writer'[i].op = w.op /\ writer'[i].r = w.r
            /\ writer'[i].alone = w.alone /\ writer'[i].loaded = state.count
        BY <2>6, <2>8, <3>3
      <4>2. \A k \in Writers \ {j} : ~Busy(k)
        BY <1>0, <4>1 DEF LogInv, AloneCounts
      <4>3. writer'[i].n = Cardinality(AfterChange(Existing', writer'[i].op, writer'[i].r))
        BY <2>4, <3>2, <4>1
      <4> QED BY <1>0, <3>1, <3>3, <4>1, <4>2, <4>3
    <3>4. CASE i # j
      BY <1>0, <2>8, <3>1, <3>2, <3>4 DEF LogInv, AloneCounts
    <3> QED BY <3>3, <3>4
  <2>12. /\ Existing' = Existing
         /\ \A r \in Writers : EventsOf(r)' = EventsOf(r)
         /\ \A i \in Writers : Busy(i)' <=> Busy(i)
         /\ \A i \in Writers : writer[i].op = "ended" => writer'[i].op = "ended"
    BY <1>0, <2>6, <2>8 DEF Existing, EventsOf, Busy
  <2>13. \A i \in Writers \ {j} : writer'[i] = writer[i]
    BY <2>8
  <2>14. writer'[j] = h
    BY <2>8
  <2>15. OneUser'
    <3>1. \A i \in Writers \ {j} : HoldsUser(i)' <=> HoldsUser(i)
      BY <1>0, <2>13 DEF HoldsUser
    <3>2. HoldsUser(j)' => HoldsUser(j) \/ (w.op = "delete" /\ rounds[w.r].rated)
      BY <1>0, <2>6, <2>14 DEF HoldsUser
    <3>3. w.op = "delete" /\ rounds[w.r].rated => \A i \in Writers \ {j} : ~HoldsUser(i)
      BY <1>2 DEF UserBusy, HoldsUser
    <3> QED BY <3>1, <3>2, <3>3 DEF LogInv, OneUser
  <2>16. OwnEvents'
    <3>1. ASSUME NEW i \in Writers, Busy(i)'
          PROVE  /\ writer'[i].op = "rate" /\ writer'[i].r # i =>
                      rounds'[writer'[i].r].exists /\ rounds'[writer'[i].r].rated
                 /\ writer'[i].event # 0 =>
                      /\ writer'[i].event \in Writers /\ writer'[writer'[i].event].op = "ended"
                      /\ events'[writer'[i].event].round \in {0, writer'[i].r}
                 /\ writer'[i].op = "details" /\ writer'[i].pc = "held" /\ writer'[i].event = 0 =>
                      ~rounds'[writer'[i].r].exists
      <4>1. CASE i # j
        BY <1>0, <2>12, <2>13, <3>1, <4>1 DEF LogInv, OwnEvents
      <4>2. CASE i = j
        <5>1. w.op = "rate" /\ w.r # j => rounds[w.r].exists /\ rounds[w.r].rated
          BY <1>0 DEF LogInv, OwnEvents
        <5>2. e # 0 => e \in Writers /\ events[e].round = w.r /\ w.r # 0
          BY <2>e DEF EventsOf
        <5>5. e # 0 => writer[e].op = "ended"
          BY <5>2 DEF LogInv, OwnEvents
        <5>3. w.op = "details" /\ e = 0 => EventsOf(w.r) = {}
          BY <2>e, RoundLogAssumption DEF EventsOf, Writers
        <5>4. EventsOf(w.r) = {} => ~rounds[w.r].exists
          BY <1>0 DEF LogInv, OwnEvents, Existing
        <5> QED BY <1>0, <2>6, <2>14, <2>12, <4>2, <5>1, <5>2, <5>3, <5>4, <5>5
      <4> QED BY <4>1, <4>2
    <3>2. \A x \in Writers : events[x].round # 0 =>
            /\ writer'[x].op = "ended"
            /\ events[x].round \in Writers /\ writer'[events[x].round].op = "ended"
      BY <2>12 DEF LogInv, OwnEvents
    <3>3. \A x \in late : writer'[x].op = "ended"
      BY <2>12 DEF LogInv, OwnEvents, LogTyped
    <3>4. \A r \in Existing : EventsOf(r) # {} /\ r \in Writers
      BY DEF LogInv, OwnEvents, Existing
    <3> QED BY <1>0, <2>12, <3>1, <3>2, <3>3, <3>4 DEF OwnEvents
  <2>17. AloneReads'
    <3> SUFFICES ASSUME NEW i \in Writers, Busy(i)', writer'[i].alone
                 PROVE  /\ writer'[i].op \in {"create", "rate"} => writer'[i].vis = writer'[i].was
                        /\ writer'[i].op \in {"rate", "update", "details"} /\ rounds'[writer'[i].r].exists
                              => writer'[i].was = rounds'[writer'[i].r].vis
                        /\ writer'[i].op \in {"update", "details"} =>
                             /\ rounds'[writer'[i].r].exists
                             /\ writer'[i].pc = "held" =>
                                  /\ writer'[i].event \in Writers /\ writer'[i].r # 0
                                  /\ events'[writer'[i].event].round = writer'[i].r
                                  /\ writer'[i].eventWas = events'[writer'[i].event].vis
      BY DEF AloneReads, EventsOf
    <3>1. CASE i # j
      <4>1. writer'[i] = writer[i] /\ Busy(i) /\ writer[i].alone /\ writer[i].r \in Writers
        BY <2>12, <2>13, <3>1 DEF LogInv, OwnRounds
      <4>2. writer[i].op \in {"update", "details"} /\ writer[i].pc = "held" =>
              writer[i].event \in EventsOf(writer[i].r)
        BY <4>1 DEF LogInv, AloneReads
      <4> QED BY <1>0, <4>1, <4>2 DEF LogInv, AloneReads, EventsOf
    <3>2. CASE i = j
      <4>1. w.alone
        BY <2>6, <2>14, <3>2
      <4>2. /\ w.op \in {"create", "rate"} => w.vis = w.was
            /\ w.op \in {"rate", "update", "details"} /\ rounds[w.r].exists => w.was = rounds[w.r].vis
            /\ w.op \in {"update", "details"} => rounds[w.r].exists
        BY <1>0, <4>1 DEF LogInv, AloneReads
      <4>3. w.op \in {"update", "details"} => EventsOf(w.r) # {}
        BY <1>0, <4>2 DEF LogInv, OwnEvents, Existing
      <4>4. w.op \in {"update", "details"} =>
              e \in Writers /\ events[e].round = w.r /\ w.r # 0 /\ e # 0
        BY <2>e, <4>3, RoundLogAssumption DEF EventsOf, Writers
      <4>5. e # 0 => v = events[e].vis
        BY DEF v
      <4> QED BY <1>0, <2>6, <2>14, <3>2, <4>2, <4>4, <4>5
    <3> QED BY <3>1, <3>2
  <2>18. StateRight' /\ EventsHaveRounds' /\ EventMatches'
    BY <1>0, <2>12 DEF LogInv, StateRight, EventsHaveRounds, EventMatches, LogTyped
  <2> QED BY <2>9, <2>10, <2>11, <2>15, <2>16, <2>17, <2>18 DEF LogInv
<1> QED BY <1>1, <1>2 DEF Hold


\* What a commit does to the rounds that exist.
LEMMA RoundsAfter ==
  ASSUME LogInv, NEW j \in Writers, CommitRound(j)
  PROVE  /\ rounds' \in [Writers -> RoundRow]
         /\ Existing' = IF writer[j].op \in {"create", "rate"} THEN Existing \cup {writer[j].r}
                        ELSE IF writer[j].op = "delete" THEN Existing \ {writer[j].r} ELSE Existing
         /\ \A r \in Writers : r # writer[j].r => rounds'[r] = rounds[r]
         /\ writer[j].op = "rate" => rounds'[writer[j].r].rated
         /\ writer[j].op \in {"update", "details", "delete"} =>
              rounds'[writer[j].r].rated = rounds[writer[j].r].rated
         /\ writer[j].op \in {"update", "details"} =>
              /\ rounds'[writer[j].r].exists = rounds[writer[j].r].exists
              /\ rounds'[writer[j].r].vis = IF writer[j].vis # writer[j].was THEN writer[j].vis
                                            ELSE rounds[writer[j].r].vis
         /\ writer[j].op \in {"create", "rate"} =>
              rounds'[writer[j].r].vis = IF writer[j].op = "rate" /\ rounds[writer[j].r].exists
                                         THEN rounds[writer[j].r].vis ELSE writer[j].vis
<1> DEFINE w == writer[j]
           a == RoundAfter(w)
<1>1. w \in Request /\ w.op \in WriterOps /\ w.r \in Writers /\ w.vis \in Visibilities
  BY DEF CommitRound, LogInv, LogTyped, OwnRounds, Busy, Request
<1>2. rounds[w.r] \in RoundRow
  BY <1>1 DEF LogInv, LogTyped
<1>3. rounds' = [rounds EXCEPT ![w.r] = a]
  BY DEF CommitRound
<1>4. CASE w.op = "create"
  <2>1. a = [exists |-> TRUE, vis |-> w.vis, rated |-> FALSE]
    BY <1>4 DEF RoundAfter
  <2>2. a \in RoundRow /\ a.exists /\ a.vis = w.vis
    BY <1>1, <2>1 DEF RoundRow
  <2> HIDE DEF a
  <2> QED BY <1>1, <1>3, <1>4, <2>2 DEF LogInv, LogTyped, Existing
<1>5. CASE w.op = "rate"
  <2> DEFINE v == IF rounds[w.r].exists THEN rounds[w.r].vis ELSE w.vis
  <2>1. a = [exists |-> TRUE, rated |-> TRUE, vis |-> v]
    BY <1>5 DEF RoundAfter
  <2>2. v \in Visibilities
    BY <1>1, <1>2 DEF RoundRow
  <2> HIDE DEF v
  <2>3. a \in RoundRow /\ a.exists /\ a.rated /\ a.vis = v
    BY <2>1, <2>2 DEF RoundRow
  <2>4. v = IF rounds[w.r].exists THEN rounds[w.r].vis ELSE w.vis
    BY DEF v
  <2> HIDE DEF a
  <2> QED BY <1>1, <1>3, <1>5, <2>3, <2>4 DEF LogInv, LogTyped, Existing
<1>6. CASE w.op = "delete"
  <2>1. a = [NoRow EXCEPT !.rated = rounds[w.r].rated]
    BY <1>6 DEF RoundAfter
  <2>2. a \in RoundRow /\ ~a.exists /\ a.rated = rounds[w.r].rated
    BY <1>2, <2>1 DEF NoRow, RoundRow, Visibilities
  <2> HIDE DEF a
  <2> QED BY <1>1, <1>3, <1>6, <2>2 DEF LogInv, LogTyped, Existing
<1>7. CASE w.op \in {"update", "details"}
  <2> DEFINE v == IF w.vis # w.was THEN w.vis ELSE rounds[w.r].vis
  <2>1. a = [rounds[w.r] EXCEPT !.vis = v]
    BY <1>7 DEF RoundAfter
  <2>2. v \in Visibilities
    BY <1>1, <1>2 DEF RoundRow
  <2> HIDE DEF v
  <2>3. a \in RoundRow /\ a.exists = rounds[w.r].exists /\ a.rated = rounds[w.r].rated /\ a.vis = v
    BY <1>2, <2>1, <2>2 DEF RoundRow
  <2>7. v = IF w.vis # w.was THEN w.vis ELSE rounds[w.r].vis
    BY DEF v
  <2> HIDE DEF a
  <2>4. \A r \in Writers : rounds'[r] = IF r = w.r THEN a ELSE rounds[r]
    BY <1>1, <1>3 DEF LogInv, LogTyped
  <2>5. Existing' = Existing
    BY <2>3, <2>4 DEF Existing
  <2>6. rounds' \in [Writers -> RoundRow]
    BY <1>3, <2>3 DEF LogInv, LogTyped
  <2> QED BY <1>1, <1>7, <2>3, <2>4, <2>5, <2>6, <2>7
<1> QED BY <1>1, <1>4, <1>5, <1>6, <1>7 DEF WriterOps

\* The cases of EventsAfter, one by one.
LEMMA EventsWritten ==
  ASSUME NEW j, NEW w, w.op \in {"create", "rate", "delete"} => w.event = 0
  PROVE  /\ Adds(w) => EventsAfter(j, w) =
              [events EXCEPT ![j] = [round |-> w.r, vis |-> w.vis, rated |-> w.op # "create"]]
         /\ ~Adds(w) /\ w.op = "delete" =>
              EventsAfter(j, w) = [e \in Writers |-> IF e \in GoWith(w.r) THEN NoEvent ELSE events[e]]
         /\ ~Adds(w) /\ w.op # "delete" /\ w.event # 0 /\ w.eventWas # w.vis =>
              EventsAfter(j, w) = [events EXCEPT ![w.event].vis = w.vis]
         /\ ~Adds(w) /\ w.op # "delete" /\ ~(w.event # 0 /\ w.eventWas # w.vis) =>
              EventsAfter(j, w) = events
<1> DEFINE adds == [events EXCEPT ![j] = [round |-> w.r, vis |-> w.vis, rated |-> w.op # "create"]]
           takes == [e \in Writers |-> IF e \in GoWith(w.r) THEN NoEvent ELSE events[e]]
           shows == [events EXCEPT ![w.event].vis = w.vis]
           a == Adds(w)
           d == w.op = "delete"
           f == w.event # 0 /\ w.eventWas # w.vis
<1>1. EventsAfter(j, w) = CASE a -> adds [] d -> takes [] f -> shows [] OTHER -> events
  BY Zenon DEF EventsAfter
<1>5. a \in BOOLEAN /\ d \in BOOLEAN /\ f \in BOOLEAN
  BY DEF Adds, IsLate
<1>6. ~(a /\ d) /\ ~(a /\ f) /\ ~(d /\ f)
  BY DEF Adds, IsLate
<1> HIDE DEF adds, takes, shows, a, d, f
<1>2. a => EventsAfter(j, w) = adds
  BY <1>1, <1>6
<1>3. ~a /\ d => EventsAfter(j, w) = takes
  BY <1>1, <1>6
<1>4. ~a /\ ~d /\ f => EventsAfter(j, w) = shows
  BY <1>1, <1>6
<1>8. ~a /\ ~d /\ ~f => EventsAfter(j, w) = events
  BY <1>1, <1>6
<1> QED BY <1>2, <1>3, <1>4, <1>8, Zenon DEF adds, takes, shows, a, d, f

\* What a commit does to the events: it adds its own, takes those of a deleted round, or lets
\* the one it has read follow the round.
LEMMA EventsAfterCommit ==
  ASSUME LogInv, NEW j \in Writers, CommitRound(j)
  PROVE  /\ events' \in [Writers -> EventRow]
         /\ \A e \in Writers :
              events'[e].round = IF e = j /\ Adds(writer[j]) THEN writer[j].r
                                 ELSE IF writer[j].op = "delete" /\ e \in EventsOf(writer[j].r) THEN 0
                                 ELSE events[e].round
         /\ \A e \in Writers : events'[e].round # 0 =>
              events'[e].vis = IF e = j /\ Adds(writer[j]) THEN writer[j].vis
                               ELSE IF /\ writer[j].op \in {"update", "details"} /\ e = writer[j].event
                                       /\ writer[j].eventWas # writer[j].vis
                                    THEN writer[j].vis ELSE events[e].vis
<1> DEFINE w == writer[j]
<1>1. /\ w \in Request /\ w.op \in WriterOps /\ w.r \in Writers /\ w.vis \in Visibilities
      /\ w.event \in Ids
  BY DEF CommitRound, LogInv, LogTyped, OwnRounds, Busy, Request
<1>2. events' = EventsAfter(j, w) /\ events \in [Writers -> EventRow]
  BY DEF CommitRound, LogInv, LogTyped
<1>3. w.r \in Ids /\ 0 \in Ids /\ 0 \notin Writers /\ Ids \ {0} = Writers
  BY <1>1, RoundLogAssumption DEF Writers, Ids
<1>4. w.op \in {"create", "rate", "delete"} => w.event = 0
  BY DEF CommitRound, LogInv, OwnRounds
<1>5. Adds(w) => w.op \in {"create", "rate", "details"} /\ w.event = 0
  BY <1>4 DEF Adds, IsLate
<1>6. CASE Adds(w)
  <2> DEFINE b == w.op # "create"
             x == [round |-> w.r, vis |-> w.vis, rated |-> b]
  <2>1. b \in BOOLEAN /\ events' = [events EXCEPT ![j] = x]
    BY <1>2, <1>4, <1>6, EventsWritten
  <2> HIDE DEF b
  <2>2. x \in EventRow /\ x.round = w.r /\ x.vis = w.vis
    BY <1>1, <1>3, <2>1 DEF EventRow
  <2> HIDE DEF x
  <2> QED BY <1>2, <1>3, <1>5, <1>6, <2>1, <2>2
<1>7. CASE ~Adds(w) /\ w.op = "delete"
  <2>1. events' = [e \in Writers |-> IF e \in EventsOf(w.r) THEN NoEvent ELSE events[e]]
    BY <1>2, <1>4, <1>7, EventsWritten DEF GoWith
  <2>2. NoEvent \in EventRow /\ NoEvent.round = 0
    BY <1>3 DEF NoEvent, EventRow, Visibilities
  <2> QED BY <1>2, <1>7, <2>1, <2>2
<1>8. CASE ~Adds(w) /\ w.op # "delete" /\ w.event # 0 /\ w.eventWas # w.vis
  <2> DEFINE x == [events[w.event] EXCEPT !.vis = w.vis]
  <2>1. w.event \in Writers /\ events' = [events EXCEPT ![w.event] = x]
    BY <1>1, <1>2, <1>3, <1>4, <1>8, EventsWritten
  <2>2. x \in EventRow /\ x.round = events[w.event].round /\ x.vis = w.vis
    BY <1>1, <1>2, <2>1 DEF EventRow
  <2> HIDE DEF x
  <2>3. w.op \in {"update", "details"}
    BY <1>1, <1>8 DEF WriterOps, Adds
  <2> QED BY <1>2, <1>8, <2>1, <2>2, <2>3
<1>9. CASE ~Adds(w) /\ w.op # "delete" /\ ~(w.event # 0 /\ w.eventWas # w.vis)
  <2>1. events' = events
    BY <1>2, <1>4, <1>9, EventsWritten
  <2> QED BY <1>2, <1>3, <1>9, <2>1
<1> QED BY <1>6, <1>7, <1>8, <1>9

\* Of the rounds a commit is not about nothing changes; of its own, what the operation says.
LEMMA CommitGives ==
  ASSUME LogInv, NEW j \in Writers, CommitRound(j)
  PROVE  /\ writer[j] \in Request /\ writer[j].op \in WriterOps /\ writer[j].r \in Writers
         /\ writer[j].pc = "held" /\ Busy(j) /\ writer[j].op # "ended"
         /\ writer[j].op = "rate" /\ writer[j].r # j =>
              rounds[writer[j].r].exists /\ rounds[writer[j].r].rated
         /\ writer[j].op = "create" => writer[j].r = j
         /\ writer'[j].op = "ended" /\ writer' \in [Writers -> Request]
         /\ \A i \in Writers \ {j} : writer'[i] = writer[i]
         /\ \A r \in Writers : rounds'[r].exists <=>
              IF r = writer[j].r /\ writer[j].op \in {"create", "rate"} THEN TRUE
              ELSE IF r = writer[j].r /\ writer[j].op = "delete" THEN FALSE ELSE rounds[r].exists
<1> DEFINE w == writer[j]
<1>1. /\ w \in Request /\ w.op \in WriterOps /\ w.r \in Writers /\ w.pc = "held" /\ Busy(j)
      /\ w.op = "create" => w.r = j
  BY DEF CommitRound, LogInv, LogTyped, OwnRounds, Busy, Request
<1>2. writer' = [writer EXCEPT ![j] = Ended] /\ writer \in [Writers -> Request]
  BY DEF CommitRound, LogInv, LogTyped
<1>3. writer'[j].op = "ended" /\ writer' \in [Writers -> Request] /\ \A i \in Writers \ {j} : writer'[i] = writer[i]
  BY <1>2, EndedFacts
<1>4. w.op = "rate" /\ w.r # j => rounds[w.r].exists /\ rounds[w.r].rated
  BY <1>1 DEF LogInv, OwnEvents
<1>5. /\ \A r \in Writers : r \in Existing <=> rounds[r].exists
      /\ \A r \in Writers : r \in Existing' <=> rounds'[r].exists
  BY DEF Existing
<1>6. w.op # "ended"
  BY <1>1 DEF WriterOps
<1> QED BY <1>1, <1>3, <1>4, <1>5, <1>6, RoundsAfter

\* A commit leaves no other event for a round that is gone.
LEMMA CommitKeepsEventsHaveRounds ==
  ASSUME LogInv, NEW j \in Writers, CommitRound(j) PROVE EventsHaveRounds'
<1> DEFINE w == writer[j]
<1>1. \A x \in late : writer[x].op = "ended"
  BY DEF LogInv, OwnEvents
<1>2. late' = IF IsLate(w) THEN late \cup {j} ELSE late
  BY DEF CommitRound
<1> SUFFICES ASSUME NEW e \in Writers, events'[e].round # 0
             PROVE  rounds'[events'[e].round].exists <=> e \notin late'
  BY DEF EventsHaveRounds
<1>3. CASE e = j /\ Adds(w)
  <2>1. events'[e].round = w.r /\ j \notin late
    BY <1>1, <1>3, CommitGives, EventsAfterCommit
  <2>2. CASE w.op \in {"create", "rate"}
    <3>1. ~IsLate(w)
      BY <2>2 DEF IsLate
    <3> QED BY <1>2, <1>3, <2>1, <2>2, <3>1, CommitGives
  <2>3. CASE IsLate(w)
    <3>1. ~rounds[w.r].exists
      BY <2>3, CommitGives DEF IsLate, LogInv, OwnEvents
    <3>2. w.op = "details"
      BY <2>3 DEF IsLate
    <3> QED BY <1>2, <1>3, <2>1, <2>3, <3>1, <3>2, CommitGives
  <2> QED BY <1>3, <2>2, <2>3 DEF Adds
<1>4. CASE ~(e = j /\ Adds(w))
  <2> DEFINE q == events[e].round
  <2>1. events'[e].round = q /\ q # 0 /\ ~(w.op = "delete" /\ e \in EventsOf(w.r))
    BY <1>4, EventsAfterCommit
  <2>2. writer[e].op = "ended" /\ q \in Writers /\ writer[q].op = "ended"
    BY <2>1 DEF LogInv, OwnEvents
  <2>3. e # j /\ q # j
    BY <2>2, CommitGives
  <2>4. rounds[q].exists <=> e \notin late
    BY <2>1 DEF LogInv, EventsHaveRounds
  <2>5. q = w.r => w.op # "delete"
    BY <2>1 DEF EventsOf
  <2>6. rounds'[q].exists <=> rounds[q].exists
    BY <2>2, <2>3, <2>5, CommitGives
  <2> QED BY <1>2, <2>1, <2>3, <2>4, <2>6
<1> QED BY <1>3, <1>4

\* A commit releases the golfer, and makes no other round a rating's.
LEMMA CommitKeepsOneUser ==
  ASSUME LogInv, NEW j \in Writers, CommitRound(j) PROVE OneUser'
<1> DEFINE w == writer[j]
<1>1. ASSUME NEW i \in Writers, HoldsUser(i)' PROVE HoldsUser(i)
  <2>1. i # j /\ writer'[i] = writer[i]
    BY <1>1, CommitGives DEF HoldsUser
  <2>2. CASE writer[i].op \in {"create", "rate"}
    BY <2>2 DEF HoldsUser
  <2>3. CASE writer[i].op = "delete" /\ writer[i].pc = "held" /\ rounds'[writer[i].r].rated
    <3> DEFINE q == writer[i].r
    <3>1. q \in Writers /\ writer[q].op = "ended"
      BY <2>3 DEF LogInv, OwnRounds, Busy, WriterOps
    <3>2. q # j
      BY <3>1, CommitGives
    <3>3. rounds[q].rated
      BY <2>3, <3>1, <3>2, CommitGives, RoundsAfter DEF WriterOps
    <3> QED BY <2>3, <3>3 DEF HoldsUser
  <2> QED BY <1>1, <2>1, <2>2, <2>3 DEF HoldsUser
<1> QED BY <1>1 DEF LogInv, OneUser

LEMMA CommitKeepsOwnEvents ==
  ASSUME LogInv, NEW j \in Writers, CommitRound(j) PROVE OwnEvents'
<1> DEFINE w == writer[j]
<1>1. ASSUME NEW i \in Writers, writer[i].op = "ended" PROVE writer'[i].op = "ended" /\ i # j
  BY <1>1, CommitGives
<1>2. ASSUME NEW e \in Writers, events'[e].round # 0
      PROVE  /\ writer'[e].op = "ended"
             /\ events'[e].round \in Writers /\ writer'[events'[e].round].op = "ended"
  <2>1. CASE e = j /\ Adds(w)
    <3>1. events'[e].round = w.r
      BY <2>1, EventsAfterCommit
    <3>2. w.r = j \/ writer[w.r].op = "ended"
      BY <2>1, CommitGives DEF Adds, IsLate, LogInv, OwnRounds
    <3> QED BY <1>1, <2>1, <3>1, <3>2, CommitGives
  <2>2. CASE ~(e = j /\ Adds(w))
    <3>1. events'[e].round = events[e].round
      BY <1>2, <2>2, EventsAfterCommit
    <3> QED BY <1>1, <1>2, <3>1 DEF LogInv, OwnEvents
  <2> QED BY <2>1, <2>2
<1>3. ASSUME NEW e \in late' PROVE writer'[e].op = "ended"
  <2>1. e = j \/ e \in late
    BY <1>3 DEF CommitRound
  <2> QED BY <1>1, <2>1, CommitGives DEF LogInv, OwnEvents, LogTyped
<1>4. ASSUME NEW r \in Existing' PROVE EventsOf(r)' # {}
  <2>0. r \in Writers /\ r # 0 /\ rounds'[r].exists
    BY <1>4, RoundLogAssumption DEF Existing, Writers
  <2>1. CASE r = w.r /\ w.op \in {"create", "rate"}
    <3>1. Adds(w)
      BY <2>1 DEF Adds
    <3>2. events'[j].round = r
      BY <2>1, <3>1, EventsAfterCommit
    <3> QED BY <2>0, <3>2 DEF EventsOf
  <2>2. CASE ~(r = w.r /\ w.op \in {"create", "rate"})
    <3>1. rounds[r].exists /\ ~(r = w.r /\ w.op = "delete")
      BY <2>0, <2>2, CommitGives
    <3>2. PICK e \in EventsOf(r) : TRUE
      BY <2>0, <3>1 DEF LogInv, OwnEvents, Existing
    <3>3. e \in Writers /\ events[e].round = r
      BY <3>2 DEF EventsOf
    <3>4. e # j
      BY <1>1, <2>0, <3>3 DEF LogInv, OwnEvents
    <3>5. ~(w.op = "delete" /\ e \in EventsOf(w.r))
      BY <3>1, <3>3 DEF EventsOf
    <3>6. events'[e].round = r
      BY <3>3, <3>4, <3>5, EventsAfterCommit
    <3> QED BY <2>0, <3>3, <3>6 DEF EventsOf
  <2> QED BY <2>1, <2>2
<1>5. ASSUME NEW i \in Writers, Busy(i)'
      PROVE  /\ writer'[i].op = "rate" /\ writer'[i].r # i =>
                  rounds'[writer'[i].r].exists /\ rounds'[writer'[i].r].rated
             /\ writer'[i].event # 0 =>
                  /\ writer'[i].event \in Writers /\ writer'[writer'[i].event].op = "ended"
                  /\ events'[writer'[i].event].round \in {0, writer'[i].r}
             /\ writer'[i].op = "details" /\ writer'[i].pc = "held" /\ writer'[i].event = 0 =>
                  ~rounds'[writer'[i].r].exists
  <2> DEFINE v == writer[i]
  <2>1. i # j /\ writer'[i] = v /\ Busy(i) /\ v.r \in Writers
    <3>1. i # j
      BY <1>5, CommitGives DEF Busy, WriterOps
    <3>2. writer'[i] = v
      BY <3>1, CommitGives
    <3> QED BY <1>5, <3>1, <3>2 DEF Busy, LogInv, OwnRounds
  <2>2. ASSUME v.op = "rate", v.r # i PROVE rounds'[v.r].exists /\ rounds'[v.r].rated
    <3>1. rounds[v.r].exists /\ rounds[v.r].rated
      BY <2>1, <2>2 DEF LogInv, OwnEvents
    <3>2. HoldsUser(i) /\ ~HoldsUser(j)
      BY <2>1, <2>2 DEF HoldsUser, LogInv, OneUser
    <3>3. w.op \notin {"create", "rate"} /\ ~(w.op = "delete" /\ rounds[w.r].rated)
      BY <3>2, CommitGives DEF HoldsUser
    <3> QED BY <2>1, <3>1, <3>3, CommitGives, RoundsAfter DEF WriterOps
  <2>3. ASSUME v.event # 0
        PROVE  /\ v.event \in Writers /\ writer'[v.event].op = "ended"
               /\ events'[v.event].round \in {0, v.r}
    <3>1. /\ v.event \in Writers /\ writer[v.event].op = "ended"
          /\ events[v.event].round \in {0, v.r}
      BY <2>1, <2>3 DEF LogInv, OwnEvents
    <3> QED BY <1>1, <3>1, EventsAfterCommit
  <2>4. ASSUME v.op = "details", v.pc = "held", v.event = 0 PROVE ~rounds'[v.r].exists
    <3>1. ~rounds[v.r].exists
      BY <2>1, <2>4 DEF LogInv, OwnEvents
    <3>2. writer[v.r].op = "ended"
      BY <2>1, <2>4 DEF LogInv, OwnRounds
    <3>3. v.r # j
      BY <1>1, <2>1, <3>2
    <3> QED BY <2>1, <3>1, <3>3, CommitGives
  <2> QED BY <2>1, <2>2, <2>3, <2>4
<1> QED BY <1>2, <1>3, <1>4, <1>5 DEF OwnEvents

\* After a commit that was alone an event is as visible as its round; another one does not
\* change what was so of another round.
LEMMA CommitKeepsEventMatches ==
  ASSUME LogInv, NEW j \in Writers, CommitRound(j) PROVE EventMatches'
<1> DEFINE w == writer[j]
<1> SUFFICES ASSUME NEW r \in told', rounds'[r].exists
             PROVE  \E e \in EventsOf(r)' : events'[e].vis = rounds'[r].vis
  BY DEF EventMatches
<1>0. told' = IF w.alone THEN told \cup {w.r} ELSE told \ {w.r}
  BY DEF CommitRound
<1>1. r \in Writers /\ r # 0
  BY <1>0, CommitGives, RoundLogAssumption DEF LogInv, LogTyped, Writers
<1>2. CASE r # w.r
  <2>1. r \in told /\ rounds'[r] = rounds[r]
    BY <1>0, <1>1, <1>2, RoundsAfter
  <2>2. PICK e \in EventsOf(r) : events[e].vis = rounds[r].vis
    BY <2>1 DEF LogInv, EventMatches
  <2>3. e \in Writers /\ events[e].round = r
    BY <2>2 DEF EventsOf
  <2>4. e # j
    BY <1>1, <2>3, CommitGives DEF LogInv, OwnEvents
  <2>5. e \notin EventsOf(w.r)
    BY <1>2, <2>3 DEF EventsOf
  <2>6. e # w.event
    BY <1>1, <1>2, <2>3, CommitGives, RoundLogAssumption DEF LogInv, OwnEvents, Writers
  <2>7. events'[e].round = r
    BY <2>3, <2>4, <2>5, EventsAfterCommit
  <2>8. events'[e].vis = events[e].vis
    BY <1>1, <2>3, <2>4, <2>6, <2>7, EventsAfterCommit
  <2> QED BY <1>1, <2>1, <2>2, <2>3, <2>7, <2>8 DEF EventsOf
<1>3. CASE r = w.r
  <2>1. w.alone /\ w.op # "delete"
    BY <1>0, <1>1, <1>3, CommitGives
  <2>2. /\ w.op \in {"create", "rate"} => w.vis = w.was
        /\ w.op \in {"rate", "update", "details"} /\ rounds[w.r].exists => w.was = rounds[w.r].vis
        /\ w.op \in {"update", "details"} => w.event \in EventsOf(w.r) /\ w.eventWas = events[w.event].vis
        /\ w.op \in {"update", "details"} => rounds[w.r].exists
    BY <2>1, CommitGives DEF LogInv, AloneReads
  <2>3. CASE w.op \in {"create", "rate"}
    <3>1. Adds(w)
      BY <2>3 DEF Adds
    <3>2. events'[j].round = r
      BY <1>3, <3>1, EventsAfterCommit
    <3>3. events'[j].vis = w.vis
      BY <1>1, <3>1, <3>2, EventsAfterCommit
    <3>4. rounds'[r].vis = w.vis
      BY <1>3, <2>2, <2>3, RoundsAfter
    <3> QED BY <1>1, <3>2, <3>3, <3>4 DEF EventsOf
  <2>4. CASE w.op \in {"update", "details"}
    <3> DEFINE e == w.event
    <3>1. e \in Writers /\ events[e].round = w.r /\ e # 0
      BY <2>2, <2>4, RoundLogAssumption DEF EventsOf, Writers
    <3>2. ~Adds(w)
      BY <2>4, <3>1 DEF Adds, IsLate
    <3>3. events'[e].round = r
      BY <1>3, <2>1, <3>1, <3>2, EventsAfterCommit
    <3>4. events'[e].vis = IF w.eventWas # w.vis THEN w.vis ELSE events[e].vis
      BY <1>1, <2>4, <3>1, <3>2, <3>3, EventsAfterCommit
    <3>5. events'[e].vis = w.vis
      BY <2>2, <2>4, <3>4
    <3>6. rounds'[r].vis = w.vis
      BY <1>3, <2>2, <2>4, RoundsAfter
    <3> QED BY <1>1, <3>1, <3>3, <3>5, <3>6 DEF EventsOf
  <2> QED BY <2>1, <2>3, <2>4, CommitGives DEF WriterOps
<1> QED BY <1>2, <1>3

LEMMA CommitKeeps == ASSUME LogInv, NEW j \in Writers, CommitRound(j) PROVE LogInv'
<1> DEFINE w == writer[j]
<1>1. /\ w \in Request /\ w.op \in WriterOps /\ w.r \in Writers /\ w.n \in Ids /\ w.pc = "held"
      /\ w.alone \in BOOLEAN /\ Busy(j)
  BY DEF CommitRound, LogInv, LogTyped, OwnRounds, Busy, Request
<1>2. writer' = [writer EXCEPT ![j] = Ended] /\ writer \in [Writers -> Request]
  BY DEF CommitRound, LogInv, LogTyped
<1>3. \A i \in Writers : writer[i].op = "ended" => writer'[i].op = "ended"
  BY <1>2, EndedFacts
<1>4. \A i \in Writers : Busy(i)' => Busy(i) /\ i # j /\ writer'[i] = writer[i]
  BY <1>2, EndedFacts DEF Busy, WriterOps
<1>5. writer'[j].op = "ended"
  BY <1>2, EndedFacts
<1>6. rating' = RatingAfter(w) /\ state' = StateAfter(w) /\ counted' = (IF Refreshes(w) THEN w.alone ELSE counted)
  BY DEF CommitRound
<1>7. \A r \in Writers : r \in Existing <=> rounds[r].exists
  BY DEF Existing
<1>8. \A r \in Writers : r \in Existing' <=> rounds'[r].exists
  BY DEF Existing
<1>9. LogTyped'
  <2>1. rating' \in Ids
    BY <1>1, <1>6, RoundLogAssumption DEF RatingAfter, LogInv, LogTyped, Ids, Writers
  <2>2. state' \in [count : Ids \cup {Missing}, played : BOOLEAN]
    <3> DEFINE p == w.n > 0 \/ Onboarded
    <3>1. state' = state \/ state' = [count |-> w.n, played |-> p]
      BY <1>6 DEF StateAfter
    <3>2. p \in BOOLEAN
      BY RoundLogAssumption
    <3>3. state \in [count : Ids \cup {Missing}, played : BOOLEAN]
      BY DEF LogInv, LogTyped
    <3> HIDE DEF p
    <3> QED BY <1>1, <3>1, <3>2, <3>3
  <2>3. counted' \in BOOLEAN
    BY <1>1, <1>6 DEF LogInv, LogTyped
  <2>4. told' \subseteq Writers /\ late' \subseteq Writers
    BY <1>1 DEF CommitRound, LogInv, LogTyped
  <2> QED BY <1>2, <2>1, <2>2, <2>3, <2>4, EndedFacts, RoundsAfter, EventsAfterCommit DEF LogTyped
<1>10. OwnRounds'
  <2>1. \A r \in Writers : rounds'[r].exists => writer'[r].op = "ended"
    <3> SUFFICES ASSUME NEW r \in Writers, rounds'[r].exists PROVE writer'[r].op = "ended"
      OBVIOUS
    <3>1. CASE rounds[r].exists
      BY <1>3, <3>1 DEF LogInv, OwnRounds
    <3>2. CASE ~rounds[r].exists
      <4>1. w.op \in {"create", "rate"} /\ r = w.r
        BY <1>7, <1>8, <3>2, RoundsAfter
      <4> QED BY <1>1, <1>3, <1>5, <4>1 DEF LogInv, OwnRounds
    <3> QED BY <3>1, <3>2
  <2>2. rating' # 0 => rounds'[rating'].exists /\ rounds'[rating'].rated
    <3> SUFFICES ASSUME rating' # 0 PROVE rating' \in Existing' /\ rounds'[rating'].rated
      BY DEF Existing
    <3>1. CASE w.op = "rate"
      BY <1>1, <1>6, <3>1, RoundsAfter DEF RatingAfter
    <3>2. CASE w.op # "rate"
      <4>1. rating' = rating /\ (w.op = "delete" => rating # w.r)
        BY <1>6, <3>2 DEF RatingAfter
      <4>2. rating \in Existing /\ rounds[rating].rated /\ rating \in Writers
        BY <1>7, <4>1, RoundLogAssumption DEF LogInv, LogTyped, OwnRounds, Ids, Writers
      <4>3. w.op = "create" => rating # w.r
        BY <1>1, <4>2 DEF LogInv, OwnRounds, Existing, WriterOps
      <4>4. rating \in Existing'
        BY <4>1, <4>2, RoundsAfter
      <4>5. rounds'[rating].rated
        BY <1>1, <3>2, <4>1, <4>2, <4>3, RoundsAfter DEF WriterOps
      <4> QED BY <4>1, <4>4, <4>5
    <3> QED BY <3>1, <3>2
  <2> QED BY <1>3, <1>4, <2>1, <2>2 DEF LogInv, OwnRounds
<1>11. AloneCounts' /\ AloneReads'
  <2>1. ASSUME NEW i \in Writers, Busy(i)', writer'[i].alone PROVE FALSE
    BY <1>1, <1>4, <2>1 DEF LogInv, AloneCounts
  <2> QED BY <2>1 DEF AloneCounts, AloneReads
<1>12. StateRight'
  <2>1. state' = state \/ state' = [count |-> w.n, played |-> w.n > 0 \/ Onboarded]
    BY <1>6 DEF StateAfter
  <2>2. state'.count # Missing => state'.played = (state'.count > 0 \/ Onboarded)
    BY <2>1 DEF LogInv, StateRight
  <2>3. ASSUME counted', Existing' # {} \/ state'.count # Missing
        PROVE  state'.count = Cardinality(Existing')
    <3>1. CASE w.op = "details"
      BY <1>6, <2>3, <3>1, RoundsAfter DEF StateAfter, Refreshes, LogInv, StateRight
    <3>2. CASE w.op # "details"
      <4>1. w.alone /\ Refreshes(w)
        BY <1>6, <2>3, <3>2 DEF Refreshes
      <4>2. /\ w.n = Cardinality(AfterChange(Existing, w.op, w.r)) /\ w.loaded = state.count
        BY <1>1, <4>1 DEF LogInv, AloneCounts
      <4>3. Existing' = AfterChange(Existing, w.op, w.r)
        BY <1>1, <1>7, <3>2, <4>2, RoundsAfter DEF AfterChange, WriterOps
      <4>4. state'.count = w.n
        BY <1>6, <4>1, <4>2 DEF StateAfter
      <4> QED BY <4>2, <4>3, <4>4
    <3> QED BY <3>1, <3>2
  <2> QED BY <2>2, <2>3 DEF StateRight
<1> QED BY <1>9, <1>10, <1>11, <1>12, CommitKeepsOneUser, CommitKeepsOwnEvents,
           CommitKeepsEventsHaveRounds, CommitKeepsEventMatches DEF LogInv

LEMMA LogInvStep == LogInv /\ [LogNext]_logVars => LogInv'
<1> SUFFICES ASSUME LogInv, [LogNext]_logVars PROVE LogInv'
  OBVIOUS
<1>1. ASSUME NEW j \in Writers, LogStart(j) PROVE LogInv'
  BY <1>1, StartKeeps
<1>2. ASSUME NEW j \in Writers, Hold(j) PROVE LogInv'
  BY <1>2, HoldKeeps
<1>3. ASSUME NEW j \in Writers, CommitRound(j) PROVE LogInv'
  BY <1>3, CommitKeeps
<1>5. ASSUME NEW j \in Writers, LosesEvent(j) PROVE LogInv'
  BY <1>5, EndKeeps DEF LosesEvent
<1>4. CASE UNCHANGED logVars
  <2>1. LogTyped' /\ OwnRounds' /\ OneUser' /\ AloneCounts' /\ StateRight'
    BY <1>4 DEF logVars, LogInv, LogTyped, OwnRounds, OneUser, HoldsUser, AloneCounts, StateRight, Existing, Busy
  <2>2. OwnEvents' /\ EventsHaveRounds' /\ AloneReads' /\ EventMatches'
    BY <1>4 DEF logVars, LogInv, OwnEvents, EventsHaveRounds, AloneReads, EventMatches, Existing, EventsOf, Busy
  <2> QED BY <2>1, <2>2 DEF LogInv
<1> QED BY <1>1, <1>2, <1>3, <1>4, <1>5 DEF LogNext

LEMMA LogInvAlways == LogSpec => []LogInv
BY LogInvInit, LogInvStep, PTL DEF LogSpec

\* Types of the rounds, the events, the rating and the played-course row of rounds.py and
\* course_ratings.py, however many requests overlap; and a rating always has its rating round.
THEOREM LogTypeCorrect == LogSpec => []LogTypeOK
<1>1. LogInv => LogTypeOK
  BY LogInvGives
<1> QED BY <1>1, LogInvAlways, PTL

\* activity_events has no foreign key to rounds, and edits, ratings and deletions of a round
\* overlap: still every event has its round, but for one that an edit of the details inserted
\* after the deletion, and that no later round owns; and after a request that ran alone whoever
\* may see the round finds an activity that tells of it.
THEOREM ActivityIsOfRounds == LogSpec => []ActivityFollowsRounds
<1>1. LogInv => ActivityFollowsRounds
  BY LogInvGives
<1> QED BY <1>1, LogInvAlways, PTL

\* _refresh_course_state counts from what it reads: whatever overlapping requests left in the
\* played-course row, one that runs alone puts it right.
THEOREM PlayedCountHeals == LogSpec => []CountHeals
<1>1. LogInv => CountHeals
  BY LogInvGives
<1> QED BY <1>1, LogInvAlways, PTL

-----------------------------------------------------------------------------
(* SavedLists: the inductive invariant.                                    *)

\* What a request carries: the list and the course it is about.
AskRight(w) ==
  /\ w.op \in {"update", "delete", "save", "remove", "dream", "featured"} => w.list \in ListIds
  /\ w.op \in {"save", "remove", "dream", "featured"} => w.course \in Courses
  /\ w.op \in {"create", "update"} => w.name \in ListNames
AsksRight == \A j \in UnderWay : AskRight(saver[j])

\* A list has the number of the request that creates it, which is over by then.
FreshIds == \A j \in Savers : IsList(OldLists + j) => saver[j].op = "gone"

\* What a request has read is what is there.
Current(j, w) ==
  /\ w.op \in {"update", "delete"} => IsList(w.list) /\ w.was = lists[w.list]
  /\ w.pc = "cleared" => w.cleared = EventsAbout(SavedIn(w.list))
  /\ w.op = "create" /\ AllLists = {} => w.flag
  /\ w.op \in {"save", "remove", "dream", "featured"} => w.seen = Matching(w.list, w.course)
  /\ w.op = "save" => IsList(w.list) /\ w.vis = lists[w.list].vis
  /\ w.op \in {"dream", "featured"} =>
       /\ w.list = DreamList(j) /\ w.flag = FirstList
       /\ w.vis = IF IsList(w.list) THEN lists[w.list].vis ELSE "private"

\* It stays so while the request is the only one.
SoleReads == \A j \in UnderWay : saver[j].sole => UnderWay = {j} /\ Current(j, saver[j])
NoneOverlap == ~overlapped => \A j \in UnderWay : saver[j].sole

OneIsDefault == \E l \in ListIds : Defaults = {l}
KeepsOne == (~overlapped /\ AllLists # {}) \/ chosen => OneIsDefault

ListsInv ==
  /\ SavedTypeOK /\ AsksRight /\ FreshIds /\ SoleReads /\ NoneOverlap /\ KeepsOne
  /\ ActivityFollowsLists


LEMMA ListIdsNat == ListIds \in SUBSET Nat /\ \A j \in Savers : OldLists + j \in ListIds
BY SavedListsAssumption DEF ListIds, Savers

LEMMA OldestIn ==
  ASSUME NEW S \in SUBSET ListIds, S # {}
  PROVE  Oldest(S) \in S
<1>1. S \in SUBSET Nat
  BY ListIdsNat
<1>2. \E l \in S : \A k \in S : l <= k
  BY <1>1, LeastNatural
<1> QED BY <1>2 DEF Oldest

\* Where a dream course goes: a list that is there, or a new one with the request's number.
LEMMA DreamListIn ==
  ASSUME NEW j \in Savers
  PROVE  /\ DreamList(j) \in ListIds
         /\ DreamList(j) \in AllLists \/ DreamList(j) = OldLists + j
         /\ DreamList(j) = OldLists + j =>
              OldLists + j \in AllLists \/ ~\E l \in AllLists : lists[l].name = "Want to play"
<1>1. Defaults \in SUBSET ListIds /\ AllLists \in SUBSET ListIds /\ Defaults \in SUBSET AllLists
  BY DEF Defaults, AllLists
<1>2. CASE Defaults # {}
  BY <1>1, <1>2, OldestIn DEF DreamList
<1>3. CASE Defaults = {} /\ \E l \in AllLists : lists[l].name = "Want to play"
  BY <1>1, <1>3, OldestIn DEF DreamList
<1>4. CASE Defaults = {} /\ ~\E l \in AllLists : lists[l].name = "Want to play"
  BY <1>4, ListIdsNat DEF DreamList
<1> QED BY <1>2, <1>3, <1>4

LEMMA ListsGives == ListsInv => SavedTypeOK /\ DefaultIsKept /\ ActivityFollowsLists
<1> SUFFICES ASSUME ListsInv PROVE DefaultIsKept
  BY DEF ListsInv
<1>1. OneIsDefault => Cardinality(Defaults) = 1
  BY FS_Singleton DEF OneIsDefault
<1> QED BY <1>1 DEF ListsInv, KeepsOne, DefaultIsKept, OneDefault, ChoosingRepairs

LEMMA AbsentTyped == Absent \in Saver /\ Absent.op = "absent" /\ Absent.pc = "read"
<1>1. NoList \in ListRow
  BY DEF NoList, ListRow, ListVisibilities
<1> QED BY <1>1 DEF Absent, Saver, ListVisibilities

LEMMA GoneTyped == [Absent EXCEPT !.op = "gone"] \in Saver /\ [Absent EXCEPT !.op = "gone"].op = "gone"
<1> HIDE DEF Absent
<1> QED BY AbsentTyped DEF Saver

LEMMA ListsInvInit == SavedInit => ListsInv
<1> SUFFICES ASSUME SavedInit PROVE ListsInv
  OBVIOUS
<1>1. UnderWay = {}
  BY AbsentTyped DEF SavedInit, UnderWay
<1>2. PICK n \in 0..OldLists, vis \in ListVisibilities, d \in 1..OldLists, S \in SUBSET Courses :
        /\ n > 0 => d <= n
        /\ lists = [l \in ListIds |->
                      IF l > n THEN NoList
                      ELSE [name |-> IF l = 1 THEN "other" ELSE "Want to play", vis |-> vis, default |-> l = d]]
        /\ saves = IF n = 0 THEN {} ELSE {1} \X S
        /\ activity = {[save |-> s, vis |-> vis] : s \in IF n = 0 THEN {} ELSE {1} \X S}
  BY DEF SavedInit
<1>d. n > 0 => d <= n
  BY <1>2
<1>3. /\ n \in Nat /\ d \in Nat /\ 1 <= d /\ n <= OldLists /\ d <= OldLists /\ ListIds \in SUBSET Nat
      /\ d \in ListIds /\ 1 \in ListIds /\ NoList \in ListRow /\ NoList.name = "none"
  BY SavedListsAssumption DEF ListIds, NoList, ListRow, ListVisibilities
<1>4. ASSUME NEW l \in ListIds
      PROVE  /\ lists[l] \in ListRow
             /\ IsList(l) <=> l <= n
             /\ l <= n => lists[l].default = (l = d) /\ lists[l].vis = vis
  <2> DEFINE name == IF l = 1 THEN "other" ELSE "Want to play"
             is == l = d
  <2>1. lists[l] = IF l > n THEN NoList ELSE [name |-> name, vis |-> vis, default |-> is]
    BY <1>2
  <2>2. name \in ListNames /\ name # "none" /\ is \in BOOLEAN
    BY DEF ListNames
  <2> HIDE DEF name
  <2>3. l <= n <=> ~(l > n)
    BY <1>3
  <2> QED BY <1>3, <2>1, <2>2, <2>3 DEF ListRow, IsList
<1>5. lists \in [ListIds -> ListRow]
  <2>1. lists = [l \in ListIds |-> lists[l]]
    BY <1>2
  <2> QED BY <1>4, <2>1
<1>6. AllLists = {l \in ListIds : l <= n} /\ Defaults = {l \in ListIds : l <= n /\ l = d}
  BY <1>4 DEF AllLists, Defaults
<1>7. n # 0 => 1 \in AllLists /\ lists[1].vis = vis /\ Defaults = {d}
  <2> SUFFICES ASSUME n # 0 PROVE 1 \in AllLists /\ lists[1].vis = vis /\ Defaults = {d}
    OBVIOUS
  <2>1. 1 <= n /\ d <= n
    BY <1>d, <1>3
  <2>2. 1 \in AllLists /\ lists[1].vis = vis
    BY <1>3, <1>4, <1>6, <2>1
  <2> QED BY <1>3, <1>6, <2>1, <2>2
<1>8. saves \subseteq AllLists \X Courses
  BY <1>2, <1>7
<1>9. \A e \in activity : /\ e \in [save : ListIds \X Courses, vis : ListVisibilities]
                          /\ e.save \in saves /\ e.vis = lists[e.save[1]].vis
  <2> SUFFICES ASSUME NEW e \in activity
               PROVE  /\ e \in [save : ListIds \X Courses, vis : ListVisibilities]
                      /\ e.save \in saves /\ e.vis = lists[e.save[1]].vis
    OBVIOUS
  <2>1. PICK s \in saves : e = [save |-> s, vis |-> vis]
    BY <1>2
  <2>2. n # 0 /\ s \in {1} \X S
    BY <1>2
  <2>3. s \in ListIds \X Courses /\ s[1] = 1
    BY <1>3, <2>2
  <2> QED BY <1>7, <2>1, <2>2, <2>3
<1>10. SavedTypeOK
  BY <1>5, <1>8, <1>9, AbsentTyped DEF SavedInit, SavedTypeOK
<1>11. FreshIds
  <2> SUFFICES ASSUME NEW j \in Savers PROVE ~IsList(OldLists + j)
    BY DEF FreshIds
  <2>1. OldLists + j \in ListIds /\ ~(OldLists + j <= n)
    BY <1>3, ListIdsNat, SavedListsAssumption DEF Savers
  <2> QED BY <1>4, <2>1
<1>12. KeepsOne
  <2>1. AllLists # {} => n # 0
    BY <1>3, <1>6, ListIdsNat DEF ListIds
  <2> QED BY <1>3, <1>7, <2>1 DEF SavedInit, KeepsOne, OneIsDefault
<1> QED BY <1>1, <1>9, <1>10, <1>11, <1>12 DEF ListsInv, AsksRight, SoleReads, NoneOverlap, ActivityFollowsLists

\* A request that begins has read what is there.
LEMMA Arriving ==
  ASSUME ListsInv, NEW j \in Savers, NEW w \in Saver, w.op \notin {"absent", "gone"},
         w.pc = "read", AskRight(w), Current(j, w), Arrives(j, w)
  PROVE  ListsInv'
<1> DEFINE first == UnderWay = {}
           x == [w EXCEPT !.sole = first]
<1>1. /\ x \in Saver /\ x.op = w.op /\ x.pc = w.pc /\ x.list = w.list /\ x.course = w.course /\ x.name = w.name
      /\ x.vis = w.vis /\ x.was = w.was /\ x.flag = w.flag /\ x.seen = w.seen /\ x.cleared = w.cleared
      /\ x.sole = first
  <2>1. first \in BOOLEAN
    OBVIOUS
  <2> HIDE DEF first
  <2> QED BY <2>1 DEF Saver
<1>2. /\ saver[j] = Absent /\ UNCHANGED <<lists, saves, activity, chosen>>
      /\ overlapped' = (overlapped \/ UnderWay # {})
  BY DEF Arrives
<1>3. /\ saver' = [i \in Savers |-> IF i = j THEN x
                                    ELSE IF i \in UnderWay THEN [saver[i] EXCEPT !.sole = FALSE] ELSE saver[i]]
      /\ saver \in [Savers -> Saver]
  BY DEF Arrives, ListsInv, SavedTypeOK
<1> HIDE DEF x
<1>4. ASSUME NEW i \in Savers, i # j
      PROVE  /\ saver'[i] \in Saver /\ saver'[i].op = saver[i].op /\ saver'[i].list = saver[i].list
             /\ saver'[i].course = saver[i].course /\ saver'[i].name = saver[i].name
             /\ i \in UnderWay => ~saver'[i].sole
  <2>1. saver'[i] = IF i \in UnderWay THEN [saver[i] EXCEPT !.sole = FALSE] ELSE saver[i]
    BY <1>3, <1>4
  <2>2. saver[i] \in Saver
    BY <1>3
  <2>3. CASE i \in UnderWay
    <3> DEFINE y == [saver[i] EXCEPT !.sole = FALSE]
    <3>1. y \in Saver /\ y.op = saver[i].op /\ y.list = saver[i].list /\ y.course = saver[i].course
          /\ y.name = saver[i].name /\ ~y.sole
      BY <2>2 DEF Saver
    <3>2. saver'[i] = y
      BY <2>1, <2>3
    <3> HIDE DEF y
    <3> QED BY <3>1, <3>2
  <2>4. CASE i \notin UnderWay
    BY <2>1, <2>2, <2>4
  <2> QED BY <2>3, <2>4
<1>5. saver'[j] = x
  BY <1>3
<1>6. saver' \in [Savers -> Saver]
  <2>1. \A i \in Savers : saver'[i] \in Saver
    BY <1>1, <1>4, <1>5
  <2> QED BY <1>3, <2>1
<1>7. j \notin UnderWay /\ UnderWay' = UnderWay \cup {j}
  <2>1. j \notin UnderWay
    BY <1>2, AbsentTyped DEF UnderWay
  <2>2. \A i \in Savers : i \in UnderWay' <=> i \in UnderWay \/ i = j
    BY <1>1, <1>4, <1>5, <2>1 DEF UnderWay
  <2> QED BY <2>1, <2>2 DEF UnderWay
<1>8. SavedTypeOK'
  <2>1. AllLists' = AllLists
    BY <1>2 DEF AllLists, IsList
  <2> QED BY <1>2, <1>6, <2>1 DEF ListsInv, SavedTypeOK
<1>9. AsksRight'
  <2>1. UnderWay \in SUBSET Savers
    BY DEF UnderWay
  <2> QED BY <1>1, <1>4, <1>5, <1>7, <2>1 DEF ListsInv, AsksRight, AskRight
<1>10. FreshIds'
  BY <1>2, <1>4, AbsentTyped DEF ListsInv, FreshIds, IsList
<1>11. SoleReads'
  <2> SUFFICES ASSUME NEW i \in UnderWay', saver'[i].sole
               PROVE  UnderWay' = {i} /\ Current(i, saver[i])'
    BY DEF SoleReads
  <2>1. i \in Savers /\ i = j
    BY <1>4, <1>7 DEF UnderWay
  <2>2. UnderWay' = {j}
    BY <1>1, <1>5, <1>7, <2>1
  <2>3. Current(j, x)
    BY <1>1 DEF Current
  <2>4. Current(j, saver[j])'
    BY <1>2, <1>5, <2>3 DEF Current, IsList, EventsAbout, SavedIn, AllLists, Matching, DreamList, Defaults, FirstList
  <2> QED BY <2>1, <2>2, <2>4
<1>12. NoneOverlap'
  BY <1>1, <1>2, <1>5, <1>7 DEF NoneOverlap
<1>13. KeepsOne' /\ ActivityFollowsLists'
  BY <1>2 DEF ListsInv, KeepsOne, ActivityFollowsLists, OneIsDefault, AllLists, Defaults, IsList
<1> QED BY <1>8, <1>9, <1>10, <1>11, <1>12, <1>13 DEF ListsInv


\* Every way to begin reads what is there.
LEMMA ReadKeeps == ASSUME ListsInv, NEW j \in Savers, SavedReads(j) PROVE ListsInv'
<1>0. /\ Absent.op = "absent" /\ Absent.pc = "read" /\ Absent \in Saver
      /\ \A l \in ListIds : lists[l] \in ListRow /\ lists[l].vis \in ListVisibilities
      /\ AllLists \in SUBSET ListIds /\ \A l \in AllLists : IsList(l)
      /\ \A l, c : Matching(l, c) \in SUBSET (ListIds \X Courses)
  BY AbsentTyped DEF ListsInv, SavedTypeOK, ListRow, AllLists, Matching
<1>m. ASSUME NEW c \in Courses PROVE Canonical[c] \in Courses /\ \A l : Matching(l, Canonical[c]) = Matching(l, c)
  BY SavedListsAssumption DEF Matching, Twins
<1>1. ASSUME CreateSavedList(j) PROVE ListsInv'
  <2>1. PICK name \in ListNames, vis \in ListVisibilities, flag \in BOOLEAN :
          Arrives(j, [Absent EXCEPT !.op = "create", !.name = name, !.vis = vis, !.flag = flag \/ FirstList])
    BY <1>1 DEF CreateSavedList
  <2> DEFINE f == flag \/ FirstList
             w == [Absent EXCEPT !.op = "create", !.name = name, !.vis = vis, !.flag = f]
  <2>2. f \in BOOLEAN /\ (AllLists = {} => f)
    BY DEF FirstList
  <2> HIDE DEF f, Absent
  <2>3. w \in Saver /\ w.op = "create" /\ w.pc = "read" /\ w.name = name /\ w.flag = f
    BY <1>0, <2>2 DEF Saver
  <2>4. Arrives(j, w)
    BY <2>1 DEF f
  <2> HIDE DEF w
  <2>5. AskRight(w) /\ Current(j, w)
    BY <2>2, <2>3 DEF AskRight, Current
  <2> QED BY <2>3, <2>4, <2>5, Arriving
<1>2. ASSUME UpdateSavedList(j) PROVE ListsInv'
  <2>1. PICK l \in AllLists, name \in ListNames, vis \in ListVisibilities, flag \in BOOLEAN :
          Arrives(j, [Absent EXCEPT !.op = "update", !.list = l, !.was = lists[l], !.name = name,
                                    !.vis = vis, !.flag = flag])
    BY <1>2 DEF UpdateSavedList
  <2> DEFINE w == [Absent EXCEPT !.op = "update", !.list = l, !.was = lists[l], !.name = name,
                                 !.vis = vis, !.flag = flag]
  <2> HIDE DEF Absent
  <2>2. w \in Saver /\ w.op = "update" /\ w.pc = "read" /\ w.list = l /\ w.was = lists[l] /\ w.name = name
    BY <1>0 DEF Saver
  <2>3. Arrives(j, w)
    BY <2>1
  <2> HIDE DEF w
  <2>4. AskRight(w) /\ Current(j, w)
    BY <1>0, <2>2 DEF AskRight, Current
  <2> QED BY <2>2, <2>3, <2>4, Arriving
<1>3. ASSUME DeleteSavedList(j) PROVE ListsInv'
  <2>1. PICK l \in AllLists : Arrives(j, [Absent EXCEPT !.op = "delete", !.list = l, !.was = lists[l]])
    BY <1>3 DEF DeleteSavedList
  <2> DEFINE w == [Absent EXCEPT !.op = "delete", !.list = l, !.was = lists[l]]
  <2> HIDE DEF Absent
  <2>2. w \in Saver /\ w.op = "delete" /\ w.pc = "read" /\ w.list = l /\ w.was = lists[l]
    BY <1>0 DEF Saver
  <2>3. Arrives(j, w)
    BY <2>1
  <2> HIDE DEF w
  <2>4. AskRight(w) /\ Current(j, w)
    BY <1>0, <2>2 DEF AskRight, Current
  <2> QED BY <2>2, <2>3, <2>4, Arriving
<1>4. ASSUME SaveCourse(j) PROVE ListsInv'
  <2>1. PICK l \in AllLists, c \in Courses :
          Arrives(j, [Absent EXCEPT !.op = "save", !.list = l, !.course = Canonical[c], !.vis = lists[l].vis,
                                    !.seen = Matching(l, c)])
    BY <1>4 DEF SaveCourse
  <2> DEFINE k == Canonical[c]
             S == Matching(l, c)
             w == [Absent EXCEPT !.op = "save", !.list = l, !.course = k, !.vis = lists[l].vis, !.seen = S]
  <2>2. k \in Courses /\ S \in SUBSET (ListIds \X Courses) /\ S = Matching(l, k)
    BY <1>0, <1>m
  <2>3. Arrives(j, w)
    BY <2>1
  <2> HIDE DEF Absent, k, S
  <2>4. /\ w \in Saver /\ w.op = "save" /\ w.pc = "read" /\ w.list = l /\ w.course = k
        /\ w.vis = lists[l].vis /\ w.seen = S
    BY <1>0, <2>2 DEF Saver
  <2> HIDE DEF w
  <2>5. AskRight(w) /\ Current(j, w)
    BY <1>0, <2>2, <2>4 DEF AskRight, Current
  <2> QED BY <2>3, <2>4, <2>5, Arriving
<1>5. ASSUME RemoveSavedCourse(j) PROVE ListsInv'
  <2>1. PICK l \in AllLists, c \in Courses :
          Arrives(j, [Absent EXCEPT !.op = "remove", !.list = l, !.course = Canonical[c], !.seen = Matching(l, c)])
    BY <1>5 DEF RemoveSavedCourse
  <2> DEFINE k == Canonical[c]
             S == Matching(l, c)
             w == [Absent EXCEPT !.op = "remove", !.list = l, !.course = k, !.seen = S]
  <2>2. k \in Courses /\ S \in SUBSET (ListIds \X Courses) /\ S = Matching(l, k)
    BY <1>0, <1>m
  <2>3. Arrives(j, w)
    BY <2>1
  <2> HIDE DEF Absent, k, S
  <2>4. w \in Saver /\ w.op = "remove" /\ w.pc = "read" /\ w.list = l /\ w.course = k /\ w.seen = S
    BY <1>0, <2>2 DEF Saver
  <2> HIDE DEF w
  <2>5. AskRight(w) /\ Current(j, w)
    BY <1>0, <2>2, <2>4 DEF AskRight, Current
  <2> QED BY <2>3, <2>4, <2>5, Arriving
<1>6. ASSUME Dream(j) PROVE ListsInv'
  <2> DEFINE l == DreamList(j)
             v == IF IsList(l) THEN lists[l].vis ELSE "private"
             f == FirstList
  <2>1. PICK op \in {"dream", "featured"}, c \in Courses :
          Arrives(j, [Absent EXCEPT !.op = op, !.list = l, !.course = Canonical[c], !.seen = Matching(l, c),
                                    !.vis = v, !.flag = f])
    BY <1>6 DEF Dream
  <2> DEFINE k == Canonical[c]
             S == Matching(l, c)
             w == [Absent EXCEPT !.op = op, !.list = l, !.course = k, !.seen = S, !.vis = v, !.flag = f]
  <2>2. /\ k \in Courses /\ S \in SUBSET (ListIds \X Courses) /\ S = Matching(l, k)
        /\ l \in ListIds /\ v \in ListVisibilities /\ f \in BOOLEAN
    BY <1>0, <1>m, DreamListIn DEF ListVisibilities, FirstList
  <2>3. Arrives(j, w)
    BY <2>1
  <2>4. v = IF IsList(l) THEN lists[l].vis ELSE "private"
    OBVIOUS
  <2>5. l = DreamList(j) /\ f = FirstList
    OBVIOUS
  <2> HIDE DEF Absent, k, S, v, l, f
  <2>6. /\ w \in Saver /\ w.op = op /\ w.pc = "read" /\ w.list = l /\ w.course = k
        /\ w.vis = v /\ w.seen = S /\ w.flag = f
    BY <1>0, <2>2 DEF Saver
  <2> HIDE DEF w
  <2>7. AskRight(w) /\ Current(j, w)
    BY <2>2, <2>4, <2>5, <2>6 DEF AskRight, Current
  <2> QED BY <2>3, <2>6, <2>7, Arriving
<1> QED BY <1>1, <1>2, <1>3, <1>4, <1>5, <1>6 DEF SavedReads

\* The request that ends says nothing more about the others.
LEMMA Ending ==
  ASSUME ListsInv, NEW j \in Savers, j \in UnderWay, Ends(j), UNCHANGED overlapped
  PROVE  /\ saver' \in [Savers -> Saver] /\ AsksRight' /\ SoleReads' /\ NoneOverlap'
         /\ saver'[j].op = "gone" /\ \A i \in Savers \ {j} : saver'[i] = saver[i]
<1>1. saver' = [saver EXCEPT ![j] = [Absent EXCEPT !.op = "gone"]] /\ saver \in [Savers -> Saver]
  BY DEF Ends, ListsInv, SavedTypeOK
<1>2. saver' \in [Savers -> Saver] /\ saver'[j].op = "gone" /\ \A i \in Savers \ {j} : saver'[i] = saver[i]
  BY <1>1, GoneTyped
<1>3. \A i \in UnderWay' : i \in Savers /\ i # j /\ i \in UnderWay /\ saver'[i] = saver[i]
  BY <1>2 DEF UnderWay
<1>4. AsksRight'
  BY <1>3 DEF ListsInv, AsksRight, AskRight
<1>5. SoleReads'
  <2> SUFFICES ASSUME NEW i \in UnderWay', saver'[i].sole PROVE FALSE
    BY DEF SoleReads
  <2> QED BY <1>3 DEF ListsInv, SoleReads
<1>6. NoneOverlap'
  BY <1>3 DEF ListsInv, NoneOverlap
<1> QED BY <1>2, <1>4, <1>5, <1>6

LEMMA Failing == ASSUME ListsInv, NEW j \in Savers, j \in UnderWay, Fails(j) PROVE ListsInv'
<1>1. Ends(j) /\ UNCHANGED <<lists, saves, activity, overlapped, chosen>>
  BY DEF Fails
<1>2. AllLists' = AllLists /\ Defaults' = Defaults
  BY <1>1 DEF AllLists, Defaults, IsList
<1>3. FreshIds'
  BY <1>1, Ending DEF ListsInv, FreshIds, IsList
<1> QED BY <1>1, <1>2, <1>3, Ending DEF ListsInv, SavedTypeOK, KeepsOne, OneIsDefault, ActivityFollowsLists

\* What a commit has to keep, when the request was alone and when it was not.
LEMMA Committing ==
  ASSUME ListsInv, NEW j \in Savers, j \in UnderWay, NEW b \in BOOLEAN, Commits(j, b),
         lists' \in [ListIds -> ListRow], saves' \subseteq AllLists' \X Courses,
         activity' \subseteq [save : ListIds \X Courses, vis : ListVisibilities],
         \A l \in ListIds : IsList(l)' => IsList(l) \/ l = OldLists + j,
         saver[j].sole /\ b => OneIsDefault',
         saver[j].sole /\ ~overlapped /\ AllLists' # {} => OneIsDefault',
         saver[j].sole /\ ~overlapped => ActivityFollowsLists'
  PROVE  ListsInv'
<1>1. Ends(j) /\ chosen' = (b /\ saver[j].sole) /\ UNCHANGED overlapped
  BY DEF Commits
<1>2. saver[j].sole \in BOOLEAN
  BY DEF ListsInv, SavedTypeOK, Saver
<1>3. SavedTypeOK'
  BY <1>1, <1>2, Ending DEF ListsInv, SavedTypeOK
<1>4. FreshIds'
  <2> SUFFICES ASSUME NEW i \in Savers, IsList(OldLists + i)' PROVE saver'[i].op = "gone"
    BY DEF FreshIds, IsList
  <2>1. CASE IsList(OldLists + i)
    BY <1>1, <2>1, Ending DEF ListsInv, FreshIds, UnderWay
  <2>2. CASE OldLists + i = OldLists + j
    BY <1>1, <2>2, Ending, SavedListsAssumption DEF Savers
  <2> QED BY <2>1, <2>2, ListIdsNat
<1>5. ~overlapped => saver[j].sole
  BY DEF ListsInv, NoneOverlap
<1>6. KeepsOne' /\ ActivityFollowsLists'
  <2>1. KeepsOne'
    BY <1>1, <1>5 DEF KeepsOne
  <2>2. ActivityFollowsLists'
    BY <1>1, <1>5 DEF ActivityFollowsLists
  <2> QED BY <2>1, <2>2
<1> QED BY <1>1, <1>3, <1>4, <1>6, Ending DEF ListsInv


LEMMA MakesDefault ==
  ASSUME NEW table \in [ListIds -> ListRow], NEW l \in ListIds
  PROVE  /\ MakeDefault(table, l) \in [ListIds -> ListRow]
         /\ \A k \in ListIds :
              /\ MakeDefault(table, l)[k].name = table[k].name /\ MakeDefault(table, l)[k].vis = table[k].vis
              /\ (MakeDefault(table, l)[k].default <=> (k = l /\ table[k].default))
<1>1. ASSUME NEW k \in ListIds
      PROVE  /\ MakeDefault(table, l)[k] \in ListRow
             /\ MakeDefault(table, l)[k].name = table[k].name /\ MakeDefault(table, l)[k].vis = table[k].vis
             /\ (MakeDefault(table, l)[k].default <=> (k = l /\ table[k].default))
  <2>1. table[k] \in ListRow
    OBVIOUS
  <2>2. MakeDefault(table, l)[k] = IF k = l THEN table[k] ELSE [table[k] EXCEPT !.default = FALSE]
    BY DEF MakeDefault
  <2>3. CASE k = l
    BY <2>1, <2>2, <2>3 DEF ListRow
  <2>4. CASE k # l
    <3> DEFINE row == [table[k] EXCEPT !.default = FALSE]
    <3>1. /\ row \in ListRow /\ row.name = table[k].name /\ row.vis = table[k].vis /\ ~row.default
      BY <2>1 DEF ListRow
    <3> HIDE DEF row
    <3>2. MakeDefault(table, l)[k] = row
      BY <2>2, <2>4 DEF row
    <3> QED BY <2>4, <3>1, <3>2
  <2> QED BY <2>3, <2>4
<1>2. MakeDefault(table, l) \in [ListIds -> ListRow]
  <2>1. MakeDefault(table, l) = [k \in ListIds |-> MakeDefault(table, l)[k]]
    BY DEF MakeDefault
  <2> QED BY <1>1, <2>1
<1> QED BY <1>1, <1>2

\* Facts about a request under way that every commit uses.
LEMMA Committer ==
  ASSUME ListsInv, NEW j \in Savers, saver[j].op \notin {"absent", "gone"}
  PROVE  /\ j \in UnderWay /\ AskRight(saver[j]) /\ saver[j] \in Saver /\ lists \in [ListIds -> ListRow]
         /\ OldLists + j \in ListIds /\ ~IsList(OldLists + j)
         /\ saver[j].sole => Current(j, saver[j])
         /\ ~overlapped /\ AllLists # {} => OneIsDefault
         /\ \A l \in ListIds : l \in AllLists <=> IsList(l)
         /\ \A l \in ListIds : l \in Defaults <=> IsList(l) /\ lists[l].default
<1>1. j \in UnderWay
  BY DEF UnderWay
<1> QED BY <1>1, ListIdsNat DEF ListsInv, SavedTypeOK, AsksRight, FreshIds, SoleReads, KeepsOne, AllLists, Defaults

\* Which lists there are, and which is the default, after a commit.
LEMMA ListsAfter ==
  /\ \A l \in ListIds : l \in AllLists <=> lists[l].name # "none"
  /\ \A l \in ListIds : l \in Defaults <=> lists[l].name # "none" /\ lists[l].default
  /\ \A l \in ListIds : l \in AllLists' <=> lists'[l].name # "none"
  /\ \A l \in ListIds : l \in Defaults' <=> lists'[l].name # "none" /\ lists'[l].default
  /\ \A l \in ListIds : IsList(l)' <=> lists'[l].name # "none"
  /\ \A l : IsList(l) <=> lists[l].name # "none"
  /\ AllLists \in SUBSET ListIds /\ AllLists' \in SUBSET ListIds
  /\ Defaults \in SUBSET ListIds /\ Defaults' \in SUBSET ListIds
BY DEF AllLists, Defaults, IsList

LEMMA CreateKeeps == ASSUME ListsInv, NEW j \in Savers, CreateCommits(j) PROVE ListsInv'
<1> DEFINE w == saver[j]
           l == OldLists + j
           row == [name |-> w.name, vis |-> w.vis, default |-> w.flag]
           table == [lists EXCEPT ![l] = row]
<1>1. CASE Fails(j)
  BY <1>1, Failing, Committer DEF CreateCommits
<1>2. CASE ~Fails(j)
  <2>1. /\ lists' = (IF w.flag THEN MakeDefault(table, l) ELSE table)
        /\ Commits(j, w.flag) /\ UNCHANGED <<saves, activity>> /\ w.op = "create"
    BY <1>2 DEF CreateCommits
  <2>2. /\ w.name \in ListNames /\ w.name # "none" /\ w.vis \in ListVisibilities /\ w.flag \in BOOLEAN
        /\ l \in ListIds /\ ~IsList(l) /\ lists \in [ListIds -> ListRow]
    BY <2>1, Committer DEF AskRight, Saver, ListNames
  <2>3. row \in ListRow /\ row.name = w.name /\ row.vis = w.vis /\ row.default = w.flag
    BY <2>2 DEF ListRow
  <2> HIDE DEF row
  <2>4. table \in [ListIds -> ListRow] /\ \A k \in ListIds : table[k] = IF k = l THEN row ELSE lists[k]
    BY <2>2, <2>3
  <2> HIDE DEF table
  <2>5. /\ lists' \in [ListIds -> ListRow]
        /\ \A k \in ListIds : lists'[k].name = table[k].name /\ lists'[k].vis = table[k].vis
        /\ \A k \in ListIds : w.flag => (lists'[k].default <=> (k = l /\ table[k].default))
        /\ \A k \in ListIds : ~w.flag => lists'[k].default = table[k].default
    BY <2>1, <2>2, <2>4, MakesDefault
  <2>6. /\ lists'[l].name # "none" /\ (w.flag => lists'[l].default) /\ (~w.flag => ~lists'[l].default)
        /\ \A k \in ListIds : k # l => lists'[k].name = lists[k].name /\ lists'[k].vis = lists[k].vis
        /\ \A k \in ListIds : k # l => (lists'[k].default <=> (~w.flag /\ lists[k].default))
    BY <2>2, <2>3, <2>4, <2>5 DEF ListRow
  <2>7. AllLists \in SUBSET AllLists' /\ l \notin AllLists /\ \A k \in AllLists : k # l
    BY <2>2, <2>6, ListsAfter
  <2>8. saves' \subseteq AllLists' \X Courses
    BY <2>1, <2>7 DEF ListsInv, SavedTypeOK
  <2>9. w.flag => OneIsDefault'
    <3> SUFFICES ASSUME w.flag PROVE Defaults' = {l}
      BY <2>2 DEF OneIsDefault
    <3> QED BY <2>2, <2>6, ListsAfter
  <2>10. ASSUME w.sole, ~overlapped, ~w.flag PROVE OneIsDefault'
    <3>1. AllLists # {}
      BY <2>1, <2>10, Committer DEF Current
    <3>2. PICK d \in ListIds : Defaults = {d}
      BY <2>1, <2>10, <3>1, Committer DEF OneIsDefault
    <3>3. \A k \in ListIds : k \in Defaults' <=> k \in Defaults
      BY <2>1, <2>2, <2>6, <2>10, ListsAfter
    <3>4. Defaults' = {d}
      BY <3>2, <3>3, ListsAfter
    <3> QED BY <3>4 DEF OneIsDefault
  <2>11. ~overlapped => ActivityFollowsLists'
    <3>1. ASSUME ~overlapped, NEW e \in activity PROVE e.save \in saves /\ e.vis = lists'[e.save[1]].vis
      <4>1. e.save \in saves /\ e.vis = lists[e.save[1]].vis
        BY <3>1 DEF ListsInv, ActivityFollowsLists
      <4>2. e.save[1] \in AllLists
        BY <4>1 DEF ListsInv, SavedTypeOK
      <4> QED BY <2>6, <2>7, <4>1, <4>2, ListsAfter
    <3> QED BY <2>1, <3>1 DEF ActivityFollowsLists
  <2> QED
    <3>1. activity' \subseteq [save : ListIds \X Courses, vis : ListVisibilities]
      BY <2>1 DEF ListsInv, SavedTypeOK
    <3>2. \A k \in ListIds : IsList(k)' => IsList(k) \/ k = OldLists + j
      BY <2>6, ListsAfter
    <3>3. j \in UnderWay
      BY <2>1, Committer
    <3> QED BY <2>1, <2>2, <2>5, <2>8, <2>9, <2>10, <2>11, <3>1, <3>2, <3>3, Committing
<1> QED BY <1>1, <1>2


LEMMA UpdateKeeps == ASSUME ListsInv, NEW j \in Savers, UpdateCommits(j) PROVE ListsInv'
<1> DEFINE w == saver[j]
           l == w.list
           renames == w.name # w.was.name
           taken == renames /\ \E k \in AllLists \ {l} : lists[k].name = w.name
           n == IF renames THEN w.name ELSE lists[l].name
           v == IF w.vis # w.was.vis THEN w.vis ELSE lists[l].vis
           d == lists[l].default \/ (w.flag /\ ~w.was.default)
           written == [lists EXCEPT ![l].name = IF renames THEN w.name ELSE @,
                                    ![l].vis = IF w.vis # w.was.vis THEN w.vis ELSE @,
                                    ![l].default = @ \/ (w.flag /\ ~w.was.default)]
<1>1. CASE ~IsList(l) \/ taken
  BY <1>1, Failing, Committer DEF UpdateCommits
<1>2. CASE IsList(l) /\ ~taken
  <2>1. /\ lists' = (IF w.flag THEN MakeDefault(written, l) ELSE written)
        /\ activity' = {IF e.save[1] = l THEN [e EXCEPT !.vis = w.vis] ELSE e : e \in activity}
        /\ Commits(j, w.flag) /\ UNCHANGED saves /\ w.op = "update"
    BY <1>2 DEF UpdateCommits
  <2>2. /\ w.name \in ListNames /\ w.vis \in ListVisibilities /\ w.flag \in BOOLEAN /\ l \in ListIds /\ w.was \in ListRow
        /\ lists \in [ListIds -> ListRow] /\ lists[l] \in ListRow
    BY <2>1, Committer DEF AskRight, Saver
  <2>3. n \in ListNames \cup {"none"} /\ v \in ListVisibilities /\ d \in BOOLEAN
    BY <2>2 DEF ListRow
  <2>4. written = [lists EXCEPT ![l] = [name |-> n, vis |-> v, default |-> d]]
    <3> DEFINE a == [lists EXCEPT ![l].name = n]
               b == [a EXCEPT ![l].vis = v]
               ra == [name |-> n, vis |-> lists[l].vis, default |-> lists[l].default]
               rb == [name |-> n, vis |-> v, default |-> lists[l].default]
    <3>0. [lists[l] EXCEPT !.name = n] = ra
      <4> HIDE DEF n
      <4> QED BY <2>2 DEF ListRow
    <3>1. a = [lists EXCEPT ![l] = ra]
      <4> HIDE DEF n
      <4> QED BY <2>2, <3>0
    <3>2. a \in [ListIds -> [name : {n}, vis : ListVisibilities, default : BOOLEAN] \cup ListRow] /\ a[l] = ra
      <4>1. ra \in [name : {n}, vis : ListVisibilities, default : BOOLEAN]
        BY <2>2 DEF ListRow
      <4> HIDE DEF a, ra
      <4> QED BY <2>2, <3>1, <4>1
    <3>3. b = [a EXCEPT ![l] = rb]
      <4>1. [ra EXCEPT !.vis = v] = rb
        OBVIOUS
      <4>2. b = [a EXCEPT ![l] = [a[l] EXCEPT !.vis = v]]
        OBVIOUS
      <4> HIDE DEF a, b, ra, rb
      <4> QED BY <3>2, <4>1, <4>2
    <3>4. b = [lists EXCEPT ![l] = rb] /\ b[l] = rb
      <4> HIDE DEF a, b, ra, rb
      <4> QED BY <2>2, <3>1, <3>3
    <3>5. written = [b EXCEPT ![l].default = @ \/ (w.flag /\ ~w.was.default)]
      OBVIOUS
    <3>6. rb.default = lists[l].default
      OBVIOUS
    <3>7. [rb EXCEPT !.default = d] = [name |-> n, vis |-> v, default |-> d]
      OBVIOUS
    <3> HIDE DEF a, b, rb
    <3>8. written = [b EXCEPT ![l] = [b[l] EXCEPT !.default = d]]
      BY <3>4, <3>5, <3>6
    <3> HIDE DEF written, n, v, d
    <3> QED BY <2>2, <3>4, <3>7, <3>8
  <2> DEFINE row == [name |-> n, vis |-> v, default |-> d]
  <2>5. row \in ListRow /\ row.name = n /\ row.vis = v /\ row.default = d
    BY <2>2, <2>3 DEF ListRow
  <2>6. d = (lists[l].default \/ (w.flag /\ ~w.was.default)) /\ v = (IF w.vis # w.was.vis THEN w.vis ELSE lists[l].vis)
        /\ n = (IF renames THEN w.name ELSE lists[l].name)
    OBVIOUS
  <2> HIDE DEF row, written, renames, taken, n, v, d
  <2>7. written \in [ListIds -> ListRow] /\ \A k \in ListIds : written[k] = IF k = l THEN row ELSE lists[k]
    BY <2>2, <2>4, <2>5 DEF row
  <2>8. /\ lists' \in [ListIds -> ListRow]
        /\ \A k \in ListIds : lists'[k].name = written[k].name /\ lists'[k].vis = written[k].vis
        /\ \A k \in ListIds : w.flag => (lists'[k].default <=> (k = l /\ written[k].default))
        /\ \A k \in ListIds : ~w.flag => lists'[k].default = written[k].default
    BY <2>1, <2>2, <2>7, MakesDefault
  <2>a. n # "none"
    BY <1>2, <2>2, <2>6, ListsAfter DEF ListNames
  <2>9. /\ \A k \in ListIds : lists'[k].name # "none" <=> lists[k].name # "none"
        /\ \A k \in ListIds : k # l => lists'[k].vis = lists[k].vis /\ (lists'[k].default <=> (~w.flag /\ lists[k].default))
        /\ lists'[l].vis = v /\ lists'[l].default = d
    <3>1. lists[l].name # "none"
      BY <1>2, ListsAfter
    <3> QED BY <2>2, <2>5, <2>7, <2>8, <2>a, <3>1 DEF ListRow
  <2>10. AllLists' = AllLists /\ l \in AllLists
    <3>1. \A k \in ListIds : k \in AllLists' <=> k \in AllLists
      BY <2>9, ListsAfter
    <3> QED BY <1>2, <2>2, <3>1, ListsAfter
  <2>11. saves' \subseteq AllLists' \X Courses
    BY <2>1, <2>10 DEF ListsInv, SavedTypeOK
  <2>12. ASSUME NEW e \in activity, e.save[1] = l
         PROVE  /\ [e EXCEPT !.vis = w.vis] \in [save : ListIds \X Courses, vis : ListVisibilities]
                /\ [e EXCEPT !.vis = w.vis].save = e.save /\ [e EXCEPT !.vis = w.vis].vis = w.vis
    <3>1. e \in [save : ListIds \X Courses, vis : ListVisibilities]
      BY DEF ListsInv, SavedTypeOK
    <3> QED BY <2>2, <3>1
  <2>13. activity' \subseteq [save : ListIds \X Courses, vis : ListVisibilities]
    BY <2>1, <2>12 DEF ListsInv, SavedTypeOK
  <2>14. w.sole => w.was = lists[l]
    BY <2>1, Committer DEF Current
  <2>15. ASSUME w.sole, w.flag PROVE OneIsDefault'
    <3>1. d
      BY <2>2, <2>6, <2>14, <2>15 DEF ListRow
    <3>2. \A k \in ListIds : k \in Defaults' <=> k = l
      BY <1>2, <2>2, <2>9, <2>15, <3>1, ListsAfter
    <3>3. Defaults' = {l}
      BY <2>2, <3>2, ListsAfter
    <3> QED BY <2>2, <3>3 DEF OneIsDefault
  <2>16. ASSUME w.sole, ~overlapped, ~w.flag PROVE OneIsDefault'
    <3>1. d <=> lists[l].default
      BY <2>2, <2>6, <2>16 DEF ListRow
    <3>2. \A k \in ListIds : k \in Defaults' <=> k \in Defaults
      BY <2>2, <2>9, <2>16, <3>1, ListsAfter
    <3>3. Defaults' = Defaults
      BY <3>2, ListsAfter
    <3> QED BY <2>1, <2>10, <2>16, <3>3, Committer DEF OneIsDefault
  <2>17. ASSUME w.sole, ~overlapped PROVE ActivityFollowsLists'
    <3>1. lists'[l].vis = w.vis
      BY <2>6, <2>9, <2>14, <2>17
    <3>2. ASSUME NEW e \in activity
          PROVE  e.save \in saves /\ e.save[1] \in ListIds /\ e.vis = lists[e.save[1]].vis
      BY <2>17 DEF ListsInv, ActivityFollowsLists, SavedTypeOK
    <3>3. ASSUME NEW f \in activity' PROVE f.save \in saves /\ f.vis = lists'[f.save[1]].vis
      <4>1. PICK e \in activity : f = IF e.save[1] = l THEN [e EXCEPT !.vis = w.vis] ELSE e
        BY <2>1
      <4>2. CASE e.save[1] = l
        BY <2>12, <3>1, <3>2, <4>1, <4>2
      <4>3. CASE e.save[1] # l
        BY <2>9, <3>2, <4>1, <4>3
      <4> QED BY <4>2, <4>3
    <3> QED BY <2>1, <3>3 DEF ActivityFollowsLists
  <2> QED
    <3>1. \A k \in ListIds : IsList(k)' => IsList(k) \/ k = OldLists + j
      BY <2>9, ListsAfter
    <3>2. j \in UnderWay
      BY <2>1, Committer
    <3> QED BY <2>1, <2>2, <2>8, <2>11, <2>13, <2>15, <2>16, <2>17, <3>1, <3>2, Committing
<1> QED BY <1>1, <1>2

\* Clearing the activity of a list is not a commit: the request only remembers what it clears.
LEMMA ClearKeeps == ASSUME ListsInv, NEW j \in Savers, ClearActivity(j) PROVE ListsInv'
<1> DEFINE w == saver[j]
           S == EventsAbout(SavedIn(w.list))
           x == [w EXCEPT !.pc = "cleared", !.cleared = S]
<1>1. /\ w.op = "delete" /\ saver' = [saver EXCEPT ![j].pc = "cleared", ![j].cleared = S]
      /\ UNCHANGED <<lists, saves, activity, overlapped, chosen>>
  BY DEF ClearActivity
<1>2. w \in Saver /\ saver \in [Savers -> Saver]
  BY DEF ListsInv, SavedTypeOK
<1>3. saver' = [saver EXCEPT ![j] = x]
  BY <1>1, <1>2
<1>4. S \in SUBSET [save : ListIds \X Courses, vis : ListVisibilities] /\ S = EventsAbout(SavedIn(w.list))
  BY DEF ListsInv, SavedTypeOK, EventsAbout
<1> HIDE DEF S
<1>5. /\ x \in Saver /\ x.op = w.op /\ x.list = w.list /\ x.was = w.was /\ x.sole = w.sole
      /\ x.cleared = S /\ x.pc = "cleared"
  BY <1>2, <1>4 DEF Saver
<1> HIDE DEF x
<1>6. saver' \in [Savers -> Saver] /\ \A i \in Savers : saver'[i] = IF i = j THEN x ELSE saver[i]
  BY <1>2, <1>3, <1>5
<1>7. UnderWay' = UnderWay
  BY <1>5, <1>6 DEF UnderWay
<1>8. AllLists' = AllLists /\ Defaults' = Defaults
  BY <1>1 DEF AllLists, Defaults, IsList
<1>9. AsksRight'
  BY <1>1, <1>5, <1>6, <1>7 DEF ListsInv, AsksRight, AskRight, UnderWay
<1>10. FreshIds'
  BY <1>1, <1>5, <1>6 DEF ListsInv, FreshIds, IsList
<1>11. SoleReads'
  <2> SUFFICES ASSUME NEW i \in UnderWay', saver'[i].sole
               PROVE  UnderWay' = {i} /\ Current(i, saver[i])'
    BY DEF SoleReads
  <2>1. i \in Savers /\ saver[i].sole /\ i \in UnderWay
    BY <1>5, <1>6, <1>7 DEF UnderWay
  <2>2. UnderWay = {i} /\ Current(i, saver[i])
    BY <2>1 DEF ListsInv, SoleReads
  <2>3. i = j
    BY <1>1, <2>2 DEF UnderWay
  <2>4. saver'[i] = x /\ x.op = "delete" /\ IsList(x.list) /\ x.was = lists[x.list]
    BY <1>1, <1>5, <1>6, <2>2, <2>3 DEF Current
  <2>5. Current(i, saver[i])'
    BY <1>1, <1>4, <1>5, <2>4 DEF Current, IsList, EventsAbout, SavedIn
  <2> QED BY <1>7, <2>2, <2>5
<1>12. NoneOverlap'
  BY <1>1, <1>5, <1>6, <1>7 DEF ListsInv, NoneOverlap, UnderWay
<1> QED BY <1>1, <1>6, <1>8, <1>9, <1>10, <1>11, <1>12
      DEF ListsInv, SavedTypeOK, KeepsOne, OneIsDefault, ActivityFollowsLists

\* A list goes with its rows and its activity, whatever becomes of the default.
LEMMA Deleting ==
  ASSUME ListsInv, NEW j \in Savers, saver[j].op = "delete", saver[j].pc = "cleared",
         lists' \in [ListIds -> ListRow], AllLists' = AllLists \ {saver[j].list},
         saves' = saves \ SavedIn(saver[j].list), activity' = activity \ saver[j].cleared, Commits(j, FALSE),
         \A k \in ListIds : k # saver[j].list => lists'[k].vis = lists[k].vis,
         saver[j].sole /\ ~overlapped /\ AllLists' # {} => OneIsDefault'
  PROVE  ListsInv'
<1> DEFINE l == saver[j].list
<1>1. saves' \subseteq AllLists' \X Courses
  BY DEF ListsInv, SavedTypeOK, SavedIn
<1>2. activity' \subseteq [save : ListIds \X Courses, vis : ListVisibilities]
  BY DEF ListsInv, SavedTypeOK
<1>3. ASSUME saver[j].sole, ~overlapped PROVE ActivityFollowsLists'
  <2>1. saver[j].cleared = EventsAbout(SavedIn(l))
    BY <1>3, Committer DEF Current
  <2>2. ASSUME NEW e \in activity' PROVE e.save \in saves' /\ e.vis = lists'[e.save[1]].vis
    <3>1. e \in activity /\ e.save \in saves /\ e.vis = lists[e.save[1]].vis /\ e.save[1] \in ListIds
      BY <1>3 DEF ListsInv, ActivityFollowsLists, SavedTypeOK
    <3>2. e.save \notin SavedIn(l)
      BY <2>1, <3>1 DEF EventsAbout
    <3>3. e.save[1] # l
      BY <3>1, <3>2 DEF SavedIn
    <3> QED BY <3>1, <3>2, <3>3
  <2> QED BY <2>2 DEF ActivityFollowsLists
<1>4. \A k \in ListIds : IsList(k)' => IsList(k) \/ k = OldLists + j
  BY ListsAfter
<1> QED BY <1>1, <1>2, <1>3, <1>4, Committing, Committer

LEMMA DeleteKeeps == ASSUME ListsInv, NEW j \in Savers, DeleteCommits(j) PROVE ListsInv'
<1> DEFINE w == saver[j]
           l == w.list
           table == [lists EXCEPT ![l] = NoList]
           rest == {k \in ListIds : table[k].name # "none"}
<1>1. /\ w.op = "delete" /\ w.pc = "cleared" /\ lists' = (IF w.was.default THEN Heir(table) ELSE table)
      /\ saves' = saves \ SavedIn(l) /\ activity' = activity \ w.cleared /\ Commits(j, FALSE)
  BY DEF DeleteCommits
<1>2. l \in ListIds /\ lists \in [ListIds -> ListRow] /\ w.was \in ListRow
  BY <1>1, Committer DEF AskRight, Saver
<1>3. NoList \in ListRow /\ NoList.name = "none"
  BY DEF NoList, ListRow, ListVisibilities
<1>4. table \in [ListIds -> ListRow] /\ \A k \in ListIds : table[k] = IF k = l THEN NoList ELSE lists[k]
  BY <1>2, <1>3
<1>5. Heir(table) = IF rest = {} THEN table ELSE [table EXCEPT ![Oldest(rest)].default = TRUE]
  BY DEF Heir
<1> HIDE DEF table
<1>6. rest = AllLists \ {l}
  BY <1>3, <1>4, ListsAfter
<1>7. rest # {} => Oldest(rest) \in rest /\ Oldest(rest) \in ListIds /\ Oldest(rest) # l
  BY <1>6, OldestIn
<1> DEFINE heir == Oldest(rest)
<1>8. CASE ~w.was.default \/ rest = {}
  <2>1. lists' = table
    BY <1>1, <1>5, <1>8
  <2>2. AllLists' = AllLists \ {l} /\ Defaults' = Defaults \ {l}
    BY <1>3, <1>4, <2>1, ListsAfter
  <2>3. \A k \in ListIds : k # l => lists'[k].vis = lists[k].vis
    BY <1>4, <2>1
  <2>4. ASSUME w.sole, ~overlapped, AllLists' # {} PROVE OneIsDefault'
    <3>1. ~lists[l].default
      BY <1>1, <1>6, <1>8, <2>2, <2>4, Committer DEF Current
    <3>2. Defaults' = Defaults /\ AllLists # {}
      BY <1>2, <2>2, <2>4, <3>1, ListsAfter
    <3> QED BY <1>1, <2>4, <3>2, Committer DEF OneIsDefault
  <2> HIDE DEF rest
  <2>5. lists' \in [ListIds -> ListRow]
    BY <1>4, <2>1
  <2> QED BY <1>1, <2>2, <2>3, <2>4, <2>5, Deleting
<1>9. CASE w.was.default /\ rest # {}
  <2>1. lists' = [table EXCEPT ![heir].default = TRUE] /\ heir \in ListIds /\ heir # l /\ heir \in AllLists
    BY <1>1, <1>5, <1>6, <1>7, <1>9
  <2> HIDE DEF heir, rest
  <2>2. table[heir] \in ListRow /\ table[heir] = lists[heir]
    BY <1>4, <2>1
  <2> DEFINE row == [lists[heir] EXCEPT !.default = TRUE]
  <2>3. row \in ListRow /\ row.name = lists[heir].name /\ row.vis = lists[heir].vis /\ row.default
    BY <2>2 DEF ListRow
  <2>4. lists' = [table EXCEPT ![heir] = row]
    BY <1>4, <2>1, <2>2
  <2> HIDE DEF row
  <2>5. lists' \in [ListIds -> ListRow]
    BY <1>4, <2>3, <2>4
  <2>6. \A k \in ListIds : lists'[k] = IF k = heir THEN row ELSE IF k = l THEN NoList ELSE lists[k]
    BY <1>4, <2>1, <2>4
  <2>t. /\ lists'[heir].name # "none" /\ lists'[heir].default /\ lists'[l].name = "none"
        /\ \A k \in ListIds : k # heir /\ k # l => lists'[k] = lists[k]
    <3>1. lists[heir].name # "none"
      BY <2>1, ListsAfter
    <3> QED BY <1>2, <1>3, <2>1, <2>3, <2>6, <3>1
  <2>7. AllLists' = AllLists \ {l}
    <3>1. \A k \in ListIds : k \in AllLists' <=> k \in AllLists /\ k # l
      BY <2>1, <2>t, ListsAfter
    <3> QED BY <3>1, ListsAfter
  <2>8. Defaults' = (Defaults \ {l}) \cup {heir}
    <3>1. \A k \in ListIds : k \in Defaults' <=> (k \in Defaults /\ k # l) \/ k = heir
      BY <2>1, <2>t, ListsAfter
    <3> QED BY <2>1, <3>1, ListsAfter
  <2>9. \A k \in ListIds : k # l => lists'[k].vis = lists[k].vis
    BY <2>3, <2>6
  <2>10. ASSUME w.sole, ~overlapped PROVE OneIsDefault'
    <3>1. lists[l].default /\ IsList(l)
      BY <1>1, <1>9, <2>10, Committer DEF Current
    <3>2. PICK d \in ListIds : Defaults = {d}
      BY <1>1, <1>2, <2>10, <3>1, Committer DEF OneIsDefault
    <3>3. d = l
      BY <1>2, <3>1, <3>2, ListsAfter
    <3>4. Defaults' = {heir}
      BY <2>8, <3>2, <3>3
    <3> QED BY <2>1, <3>4 DEF OneIsDefault
  <2> QED BY <1>1, <2>5, <2>7, <2>9, <2>10, Deleting
<1> QED BY <1>8, <1>9


\* Commits that leave the lists as they are.
LEMMA SameLists ==
  ASSUME ListsInv, NEW j \in Savers, j \in UnderWay, Commits(j, FALSE), UNCHANGED lists,
         saves' \subseteq AllLists \X Courses,
         activity' \subseteq [save : ListIds \X Courses, vis : ListVisibilities],
         saver[j].sole /\ ~overlapped => ActivityFollowsLists'
  PROVE  ListsInv'
<1>1. AllLists' = AllLists /\ Defaults' = Defaults /\ \A l : IsList(l)' <=> IsList(l)
  BY DEF AllLists, Defaults, IsList
<1>2. ~overlapped /\ AllLists # {} => OneIsDefault'
  BY <1>1 DEF ListsInv, KeepsOne, OneIsDefault
<1>3. lists' \in [ListIds -> ListRow]
  BY DEF ListsInv, SavedTypeOK
<1> QED BY <1>1, <1>2, <1>3, Committing

LEMMA SaveKeeps == ASSUME ListsInv, NEW j \in Savers, SaveCommits(j) PROVE ListsInv'
<1> DEFINE w == saver[j]
           row == SavedAs(w)
           stays == Stays(w)
<1>0. w.op = "save"
  BY DEF SaveCommits
<1>1. /\ w \in Saver /\ w.list \in ListIds /\ w.course \in Courses /\ w.vis \in ListVisibilities
      /\ row = <<w.list, w.course>> /\ row \in ListIds \X Courses
  BY <1>0, Committer DEF AskRight, Saver, SavedAs
<1>2. CASE RefusedSave(w)
  BY <1>0, <1>2, Failing, Committer DEF SaveCommits
<1>3. CASE ~RefusedSave(w)
  <2>1. /\ saves' = (saves \ w.seen) \cup {row}
        /\ activity' = (IF w.seen = {} THEN activity \cup {[save |-> row, vis |-> w.vis]}
                        ELSE (activity \ EventsAbout(w.seen))
                               \cup {[e EXCEPT !.save = row] : e \in EventsAbout({stays})})
        /\ Commits(j, FALSE) /\ UNCHANGED lists
    BY <1>3 DEF SaveCommits
  <2>2. IsList(w.list) /\ w.seen \subseteq saves /\ row \notin saves \ w.seen
    BY <1>3 DEF RefusedSave
  <2>3. saves' \subseteq AllLists \X Courses
    BY <1>1, <2>1, <2>2 DEF ListsInv, SavedTypeOK, AllLists
  <2>4. w.seen # {} => stays \in w.seen
    BY <1>1 DEF Stays
  <2>5. ASSUME NEW e \in activity
        PROVE  /\ e \in [save : ListIds \X Courses, vis : ListVisibilities]
               /\ [e EXCEPT !.save = row] \in [save : ListIds \X Courses, vis : ListVisibilities]
               /\ [e EXCEPT !.save = row].save = row /\ [e EXCEPT !.save = row].vis = e.vis
    <3>1. e \in [save : ListIds \X Courses, vis : ListVisibilities]
      BY DEF ListsInv, SavedTypeOK
    <3> HIDE DEF row
    <3> QED BY <1>1, <3>1
  <2> DEFINE new == [save |-> row, vis |-> w.vis]
  <2>6. new \in [save : ListIds \X Courses, vis : ListVisibilities] /\ new.save = row /\ new.vis = w.vis
    BY <1>1
  <2> HIDE DEF row, stays, new
  <2>7. ASSUME NEW f \in activity'
        PROVE  \/ f \in activity /\ (w.seen # {} => f \notin EventsAbout(w.seen))
               \/ w.seen = {} /\ f = new
               \/ w.seen # {} /\ \E e \in EventsAbout({stays}) : f = [e EXCEPT !.save = row]
    BY <2>1 DEF new
  <2>8. \A S : EventsAbout(S) \in SUBSET activity /\ \A e \in activity : e \in EventsAbout(S) <=> e.save \in S
    BY DEF EventsAbout
  <2>9. activity' \subseteq [save : ListIds \X Courses, vis : ListVisibilities]
    <3> SUFFICES ASSUME NEW f \in activity' PROVE f \in [save : ListIds \X Courses, vis : ListVisibilities]
      OBVIOUS
    <3>1. ASSUME NEW e \in EventsAbout({stays}), f = [e EXCEPT !.save = row]
          PROVE  f \in [save : ListIds \X Courses, vis : ListVisibilities]
      BY <2>5, <2>8, <3>1
    <3> QED BY <2>5, <2>6, <2>7, <3>1
  <2>10. ASSUME w.sole, ~overlapped PROVE ActivityFollowsLists'
    <3>1. w.seen = Matching(w.list, w.course) /\ w.vis = lists[w.list].vis
      BY <1>0, <2>10, Committer DEF Current
    <3>2. \A e \in activity : e.save \in saves /\ e.vis = lists[e.save[1]].vis
      BY <2>10 DEF ListsInv, ActivityFollowsLists
    <3>3. row[1] = w.list /\ row \in saves'
      BY <1>1, <2>1 DEF row
    <3>4. w.seen # {} => stays[1] = w.list
      BY <2>4, <3>1 DEF Matching
    <3>5. ASSUME NEW f \in activity' PROVE f.save \in saves' /\ f.vis = lists[f.save[1]].vis
      <4>1. CASE f \in activity /\ (w.seen # {} => f \notin EventsAbout(w.seen))
        BY <2>1, <2>8, <3>2, <4>1
      <4>2. CASE w.seen = {} /\ f = new
        BY <2>6, <3>1, <3>3, <4>2
      <4>3. CASE w.seen # {} /\ \E e \in EventsAbout({stays}) : f = [e EXCEPT !.save = row]
        <5>1. PICK e \in activity : e.save = stays /\ f = [e EXCEPT !.save = row]
          BY <2>8, <4>3
        <5>2. f.save = row /\ f.vis = e.vis /\ e.vis = lists[w.list].vis
          BY <2>5, <3>2, <3>4, <4>3, <5>1
        <5> QED BY <3>3, <5>2
      <4> QED BY <2>7, <4>1, <4>2, <4>3
    <3> QED BY <2>1, <3>5 DEF ActivityFollowsLists
  <2>11. j \in UnderWay
    BY <1>0, Committer
  <2> QED BY <2>1, <2>3, <2>9, <2>10, <2>11, SameLists
<1> QED BY <1>2, <1>3

LEMMA RemoveKeeps == ASSUME ListsInv, NEW j \in Savers, RemoveCommits(j) PROVE ListsInv'
<1> DEFINE w == saver[j]
<1>1. /\ w.op = "remove" /\ saves' = saves \ w.seen /\ activity' = activity \ EventsAbout(w.seen)
      /\ Commits(j, FALSE) /\ UNCHANGED lists
  BY DEF RemoveCommits
<1>2. saves' \subseteq AllLists \X Courses
  BY <1>1 DEF ListsInv, SavedTypeOK
<1>3. activity' \subseteq [save : ListIds \X Courses, vis : ListVisibilities]
  BY <1>1 DEF ListsInv, SavedTypeOK
<1>4. ~overlapped => ActivityFollowsLists'
  BY <1>1 DEF ListsInv, ActivityFollowsLists, EventsAbout
<1>5. j \in UnderWay
  BY <1>1, Committer
<1> QED BY <1>1, <1>2, <1>3, <1>4, <1>5, SameLists

\* A course put into a list that is there or that the request makes.
LEMMA PutKeeps ==
  ASSUME ListsInv, NEW j \in Savers, saver[j].op \in {"dream", "featured"}, NEW l \in ListIds,
         IsList(l) \/ l = OldLists + j, NEW seen, NEW vis \in ListVisibilities, NEW first \in BOOLEAN,
         PutDream(j, l, seen, vis, first),
         saver[j].sole => vis = (IF IsList(l) THEN lists[l].vis ELSE "private") /\ first = FirstList
  PROVE  ListsInv'
<1> DEFINE w == saver[j]
           row == <<l, w.course>>
           new == [name |-> "Want to play", vis |-> "private", default |-> first]
           event == [save |-> row, vis |-> vis]
<1>1. /\ w.course \in Courses /\ row \in ListIds \X Courses /\ row[1] = l /\ j \in UnderWay
      /\ lists \in [ListIds -> ListRow]
  BY Committer DEF AskRight
<1>2. new \in ListRow /\ new.name # "none" /\ new.vis = "private" /\ new.default = first
  BY DEF ListRow, ListNames, ListVisibilities
<1>3. event \in [save : ListIds \X Courses, vis : ListVisibilities] /\ event.save = row /\ event.vis = vis
  BY <1>1
<1>4. /\ lists' = (IF IsList(l) THEN lists ELSE [lists EXCEPT ![l] = new])
      /\ Commits(j, FALSE)
      /\ \/ UNCHANGED <<saves, activity>>
         \/ saves' = saves \cup {row} /\ activity' = activity \cup {event}
  BY DEF PutDream
<1> HIDE DEF row, new, event
<1>5. /\ lists' \in [ListIds -> ListRow]
      /\ \A k \in ListIds : k # l \/ IsList(l) => lists'[k] = lists[k]
      /\ ~IsList(l) => lists'[l] = new
  BY <1>1, <1>2, <1>4
<1>6. IsList(l)' /\ \A k \in ListIds : k # l => (IsList(k)' <=> IsList(k))
  BY <1>2, <1>5 DEF IsList
<1>7. AllLists' = AllLists \cup {l}
  BY <1>6 DEF AllLists
<1>8. saves' \subseteq AllLists' \X Courses
  BY <1>1, <1>4, <1>7 DEF row, ListsInv, SavedTypeOK
<1>9. activity' \subseteq [save : ListIds \X Courses, vis : ListVisibilities]
  BY <1>3, <1>4 DEF ListsInv, SavedTypeOK
<1>10. ASSUME w.sole, ~overlapped PROVE OneIsDefault'
  <2>1. CASE AllLists = {}
    <3>1. ~IsList(l) /\ first /\ Defaults = {}
      BY <1>10, <2>1, ListsAfter DEF FirstList
    <3>2. \A k \in ListIds : k \in Defaults' <=> k = l
      BY <1>2, <1>5, <2>1, <3>1, ListsAfter
    <3>3. Defaults' = {l}
      BY <3>2, ListsAfter
    <3> QED BY <3>3 DEF OneIsDefault
  <2>2. CASE AllLists # {}
    <3>1. ~first
      BY <1>10, <2>2 DEF FirstList
    <3>2. \A k \in ListIds : k \in Defaults' <=> k \in Defaults
      BY <1>2, <1>5, <3>1, ListsAfter
    <3>3. Defaults' = Defaults
      BY <3>2, ListsAfter
    <3> QED BY <1>10, <2>2, <3>3, Committer DEF OneIsDefault
  <2> QED BY <2>1, <2>2
<1>11. ASSUME w.sole, ~overlapped PROVE ActivityFollowsLists'
  <2>1. ASSUME NEW e \in activity PROVE e.save \in saves' /\ e.vis = lists'[e.save[1]].vis
    <3>1. e.save \in saves /\ e.vis = lists[e.save[1]].vis
      BY <1>11 DEF ListsInv, ActivityFollowsLists
    <3>2. e.save[1] \in AllLists
      BY <3>1 DEF ListsInv, SavedTypeOK
    <3>3. e.save[1] # l \/ IsList(l)
      BY <3>2 DEF AllLists
    <3> QED BY <1>4, <1>5, <3>1, <3>2, <3>3, ListsAfter
  <2>2. vis = lists'[l].vis
    BY <1>2, <1>5, <1>11
  <2>3. ASSUME activity' = activity \cup {event}, saves' = saves \cup {row}
        PROVE  event.save \in saves' /\ event.vis = lists'[event.save[1]].vis
    BY <1>1, <1>3, <2>2, <2>3 DEF row
  <2> QED BY <1>4, <2>1, <2>3 DEF ActivityFollowsLists
<1>12. \A k \in ListIds : IsList(k)' => IsList(k) \/ k = OldLists + j
  BY <1>6
<1> QED BY <1>1, <1>4, <1>5, <1>8, <1>9, <1>10, <1>11, <1>12, Committing

LEMMA DreamKeeps == ASSUME ListsInv, NEW j \in Savers, DreamCommits(j) PROVE ListsInv'
<1> DEFINE w == saver[j]
           l == DreamList(j)
           v == IF IsList(l) THEN lists[l].vis ELSE "private"
           first == FirstList
           new == w.list = OldLists + j
           taken == \E k \in AllLists : lists[k].name = "Want to play"
<1>0. w.op \in {"dream", "featured"}
  BY DEF DreamCommits
<1>1. /\ w \in Saver /\ w.list \in ListIds /\ w.vis \in ListVisibilities /\ w.flag \in BOOLEAN /\ j \in UnderWay
      /\ lists \in [ListIds -> ListRow]
  BY <1>0, Committer DEF AskRight, Saver
<1>2. CASE (new /\ ~taken) \/ (~new /\ IsList(w.list))
  <2>1. PutDream(j, w.list, w.seen, w.vis, w.flag)
    BY <1>2 DEF DreamCommits
  <2>2. w.sole => w.vis = (IF IsList(w.list) THEN lists[w.list].vis ELSE "private") /\ w.flag = FirstList
    BY <1>0, Committer DEF Current
  <2> QED BY <1>0, <1>1, <1>2, <2>1, <2>2, PutKeeps
<1>3. CASE PutDream(j, l, Matching(l, w.course), v, first)
  <2>1. l \in ListIds /\ (IsList(l) \/ l = OldLists + j)
    BY DreamListIn DEF AllLists
  <2>2. v \in ListVisibilities /\ first \in BOOLEAN
    BY <1>1, <2>1 DEF ListRow, ListVisibilities, FirstList
  <2> DEFINE seen == Matching(l, w.course)
  <2>3. v = (IF IsList(l) THEN lists[l].vis ELSE "private") /\ first = FirstList
    OBVIOUS
  <2>4. PutDream(j, l, seen, v, first)
    BY <1>3
  <2> HIDE DEF l, v, first, seen
  <2> QED BY <1>0, <2>1, <2>2, <2>3, <2>4, PutKeeps
<1>4. CASE Fails(j)
  BY <1>1, <1>4, Failing
<1> QED BY <1>2, <1>3, <1>4 DEF DreamCommits

LEMMA ListsInvStep == ListsInv /\ [SavedNext]_savedVars => ListsInv'
<1> SUFFICES ASSUME ListsInv, [SavedNext]_savedVars PROVE ListsInv'
  OBVIOUS
<1>1. ASSUME NEW j \in Savers, SavedReads(j) PROVE ListsInv'
  BY <1>1, ReadKeeps
<1>2. ASSUME NEW j \in Savers, SavedWrites(j) PROVE ListsInv'
  BY <1>2, CreateKeeps, UpdateKeeps, ClearKeeps, DeleteKeeps, SaveKeeps, RemoveKeeps, DreamKeeps DEF SavedWrites
<1>3. CASE UNCHANGED savedVars
  <2>1. UNCHANGED <<lists, saves, activity, saver, overlapped, chosen>>
    BY <1>3 DEF savedVars
  <2>2. AllLists' = AllLists /\ Defaults' = Defaults /\ UnderWay' = UnderWay
    BY <2>1 DEF AllLists, Defaults, UnderWay, IsList
  <2>3. SoleReads'
    <3> SUFFICES ASSUME NEW j \in UnderWay, saver[j].sole PROVE Current(j, saver[j])'
      BY <2>1, <2>2 DEF ListsInv, SoleReads
    <3>1. Current(j, saver[j])
      BY DEF ListsInv, SoleReads
    <3> QED BY <2>1, <2>2, <3>1
            DEF Current, IsList, EventsAbout, SavedIn, Matching, DreamList, FirstList
  <2> QED BY <2>1, <2>2, <2>3
          DEF ListsInv, SavedTypeOK, AsksRight, AskRight, FreshIds, NoneOverlap, KeepsOne, OneIsDefault,
              ActivityFollowsLists, IsList
<1> QED BY <1>1, <1>2, <1>3 DEF SavedNext

LEMMA ListsInvAlways == SavedSpec => []ListsInv
BY ListsInvInit, ListsInvStep, PTL DEF SavedSpec

\* Types of saves.py's tables, however its requests overlap: no saved course is left without
\* its list.
THEOREM SavedTypeCorrect == SavedSpec => []SavedTypeOK
<1>1. ListsInv => SavedTypeOK
  BY ListsGives
<1> QED BY <1>1, ListsInvAlways, PTL

\* Creating, choosing, seeding and deleting lists one after the other leaves exactly one
\* default, and choosing one restores it after requests that overlapped.
THEOREM DefaultListKept == SavedSpec => []DefaultIsKept
<1>1. ListsInv => DefaultIsKept
  BY ListsGives
<1> QED BY <1>1, ListsInvAlways, PTL

\* What the feed tells about saved courses follows the rows and the visibility of their list.
THEOREM SavedActivityFollows == SavedSpec => []ActivityFollowsLists
<1>1. ListsInv => ActivityFollowsLists
  BY ListsGives
<1> QED BY <1>1, ListsInvAlways, PTL

-----------------------------------------------------------------------------
(* GreenFees: the average and the largest cluster of a set of rows.        *)

\* First: the row the fold takes of a set.  AddsUp: f is right about the rows s.
First(S) == CHOOSE x \in S : TRUE
AddsUp(f, s) == f[s] = IF s = {} THEN 0 ELSE First(s)[2] + f[s \ {First(s)}]

LEMMA Without ==
  ASSUME NEW s, IsFiniteSet(s), s # {}
  PROVE  /\ First(s) \in s /\ IsFiniteSet(s \ {First(s)})
         /\ Cardinality(s) \in Nat \ {0} /\ Cardinality(s \ {First(s)}) = Cardinality(s) - 1
<1>1. First(s) \in s
  BY DEF First
<1> QED BY <1>1, FS_RemoveElement, FS_CardinalityType, FS_EmptySet

\* The fold over a finite set is what its recursion says: an addition over sets of up to k rows
\* extends to sets of one row more.
LEMMA AdditionExists ==
  ASSUME NEW S, IsFiniteSet(S)
  PROVE  \E f : f = [s \in SUBSET S |-> IF s = {} THEN 0 ELSE First(s)[2] + f[s \ {First(s)}]]
<1> DEFINE Add(k) == \E f : \A s \in SUBSET S : Cardinality(s) <= k => AddsUp(f, s)
           Bad == {k \in Nat : ~Add(k)}
<1>1. \A s \in SUBSET S : IsFiniteSet(s) /\ Cardinality(s) \in Nat /\ Cardinality(s) <= Cardinality(S)
  BY FS_Subset, FS_CardinalityType
<1>2. Add(0)
  <2> DEFINE f == [s \in SUBSET S |-> 0]
  <2>1. ASSUME NEW s \in SUBSET S, Cardinality(s) <= 0 PROVE AddsUp(f, s)
    BY <1>1, <2>1, FS_EmptySet DEF AddsUp
  <2> QED BY <2>1
<1>3. ASSUME NEW k \in Nat, Add(k) PROVE Add(k + 1)
  <2>1. PICK f : \A s \in SUBSET S : Cardinality(s) <= k => AddsUp(f, s)
    BY <1>3
  <2> DEFINE g == [s \in SUBSET S |-> IF s = {} THEN 0 ELSE First(s)[2] + f[s \ {First(s)}]]
  <2>2. ASSUME NEW s \in SUBSET S, Cardinality(s) <= k PROVE g[s] = f[s]
    BY <2>1, <2>2 DEF AddsUp
  <2>3. ASSUME NEW s \in SUBSET S, Cardinality(s) <= k + 1 PROVE AddsUp(g, s)
    <3>1. CASE s = {}
      BY <3>1 DEF AddsUp
    <3>2. CASE s # {}
      <4>1. s \ {First(s)} \in SUBSET S /\ Cardinality(s \ {First(s)}) <= k
        BY <1>1, <2>3, <3>2, Without
      <4>2. g[s \ {First(s)}] = f[s \ {First(s)}]
        BY <2>2, <4>1
      <4>3. g[s] = First(s)[2] + f[s \ {First(s)}]
        BY <3>2
      <4> QED BY <3>2, <4>2, <4>3 DEF AddsUp
    <3> QED BY <3>1, <3>2
  <2> QED BY <2>3
<1> HIDE DEF Add
<1>4. Bad = {}
  <2> SUFFICES ASSUME Bad # {} PROVE FALSE
    OBVIOUS
  <2>1. PICK k \in Bad : \A m \in Bad : k <= m
    BY LeastNatural
  <2>2. k # 0 /\ k \in Nat
    BY <1>2, <2>1
  <2>3. k - 1 \in Nat /\ k - 1 \notin Bad
    BY <2>1, <2>2
  <2>4. Add((k - 1) + 1)
    BY <1>3, <2>3
  <2> QED BY <2>1, <2>2, <2>4
<1>5. Add(Cardinality(S))
  BY <1>4, FS_CardinalityType
<1>6. PICK f : \A s \in SUBSET S : Cardinality(s) <= Cardinality(S) => AddsUp(f, s)
  BY <1>5 DEF Add
<1> DEFINE g == [s \in SUBSET S |-> IF s = {} THEN 0 ELSE First(s)[2] + f[s \ {First(s)}]]
<1>7. \A s \in SUBSET S : g[s] = f[s]
  BY <1>1, <1>6 DEF AddsUp
<1>8. \A s \in SUBSET S : s # {} => s \ {First(s)} \in SUBSET S
  OBVIOUS
<1>9. g = [s \in SUBSET S |-> IF s = {} THEN 0 ELSE First(s)[2] + g[s \ {First(s)}]]
  BY <1>7, <1>8
<1> QED BY <1>9

\* What the fold of the fees of some rows is: at least one for every row.
LEMMA SumOfFees ==
  ASSUME NEW S \in SUBSET (Suggesters \X Fees), IsFiniteSet(S)
  PROVE  LET sum == MapThenFoldSet(+, 0, LAMBDA x : x[2], LAMBDA T : CHOOSE x \in T : TRUE, S)
         IN  sum \in Nat /\ sum >= Cardinality(S)
<1> DEFINE It(f) == f = [s \in SUBSET S |-> IF s = {} THEN 0 ELSE First(s)[2] + f[s \ {First(s)}]]
           iter == CHOOSE f : It(f)
<1>1. MapThenFoldSet(+, 0, LAMBDA x : x[2], LAMBDA T : CHOOSE x \in T : TRUE, S) = iter[S]
  BY DEF MapThenFoldSet, First
<1>2. It(iter)
  <2>1. \E f : It(f)
    BY AdditionExists
  <2> HIDE DEF It
  <2> QED BY <2>1
<1>3. \A s \in SUBSET S : iter[s] = IF s = {} THEN 0 ELSE First(s)[2] + iter[s \ {First(s)}]
  <2> HIDE DEF iter
  <2> QED BY <1>2
<1> HIDE DEF iter
<1>4. ASSUME NEW x \in S PROVE x[2] \in Nat /\ x[2] >= 1
  <2>1. x[2] \in Fees
    OBVIOUS
  <2>2. x[2] \in Nat \ {0}
    BY <2>1, FeesAssumption
  <2> QED BY <2>2
<1>5. \A s \in SUBSET S : IsFiniteSet(s) /\ Cardinality(s) \in Nat
  BY FS_Subset, FS_CardinalityType
<1> DEFINE Good(s) == iter[s] \in Nat /\ iter[s] >= Cardinality(s)
           Sizes == {Cardinality(s) : s \in {t \in SUBSET S : ~Good(t)}}
<1>6. \A s \in SUBSET S : Good(s)
  <2> SUFFICES ASSUME NEW t \in SUBSET S, ~Good(t) PROVE FALSE
    OBVIOUS
  <2>1. Sizes \in SUBSET Nat /\ Sizes # {}
    BY <1>5
  <2>2. PICK n \in Sizes : \A m \in Sizes : n <= m
    BY <2>1, LeastNatural
  <2>3. PICK s \in SUBSET S : ~Good(s) /\ n = Cardinality(s)
    BY <2>2
  <2>4. s # {}
    <3>1. iter[{}] = 0 /\ Cardinality({}) = 0
      BY <1>3, FS_EmptySet
    <3> QED BY <2>3, <3>1
  <2> DEFINE r == s \ {First(s)}
  <2>5. /\ First(s) \in S /\ r \in SUBSET S /\ Cardinality(s) \in Nat \ {0}
        /\ Cardinality(r) = Cardinality(s) - 1 /\ Cardinality(r) \in Nat
    BY <1>5, <2>4, Without
  <2>6. iter[s] = First(s)[2] + iter[r]
    BY <1>3, <2>4
  <2>7. Good(r)
    <3> HIDE DEF Good, r
    <3> SUFFICES ASSUME ~Good(r) PROVE FALSE
      OBVIOUS
    <3>1. Cardinality(r) \in Sizes
      BY <2>5
    <3> QED BY <2>2, <2>3, <2>5, <3>1
  <2> HIDE DEF r
  <2> QED BY <1>4, <2>3, <2>5, <2>6, <2>7
<1> HIDE DEF Good
<1>7. Good(S)
  BY <1>6
<1> QED BY <1>1, <1>7 DEF Good

\* The average of the rows of a cluster is a fee that is known.
LEMMA AverageIsKnown ==
  ASSUME NEW S \in SUBSET (Suggesters \X Fees), IsFiniteSet(S), S # {}
  PROVE  RoundedAverage(S) \in Nat /\ RoundedAverage(S) # Unknown
<1> DEFINE sum == MapThenFoldSet(+, 0, LAMBDA x : x[2], LAMBDA T : CHOOSE x \in T : TRUE, S)
           n == Cardinality(S)
           q == sum \div n
           twice == 2 * (sum % n)
<1>1. sum \in Nat /\ sum >= n
  BY SumOfFees
<1>2. n \in Nat \ {0}
  BY FS_CardinalityType, FS_EmptySet
<1>3. RoundedAverage(S) = IF twice < n \/ (twice = n /\ q % 2 = 0) THEN q ELSE q + 1
  BY Zenon DEF RoundedAverage
<1> HIDE DEF sum, n
<1>4. q >= 1 /\ q \in Nat
  BY <1>1, <1>2
<1>5. RoundedAverage(S) = q \/ RoundedAverage(S) = q + 1
  BY <1>3
<1> HIDE DEF q
<1> QED BY <1>4, <1>5 DEF Unknown

\* Rows that agree are in one window, so the largest window has two rows or more.
LEMMA ClusterFound ==
  ASSUME NEW S \in SUBSET (Suggesters \X Fees), IsFiniteSet(S), NEW x \in S, NEW y \in S, x # y,
         Agree(x[2], y[2])
  PROVE  Cluster(S) # {}
<1>1. \A z \in S : z[2] \in Nat
  BY FeesAssumption
<1> DEFINE Size(t) == Cardinality(Window(S, t))
           best == {t \in Tops(S) : \A s \in Tops(S) : Size(s) <= Size(t)}
<1>2. \A t : Window(S, t) \in SUBSET S /\ IsFiniteSet(Window(S, t)) /\ Size(t) \in Nat /\ Size(t) <= Cardinality(S)
  <2>1. \A t : Window(S, t) \in SUBSET S
    BY DEF Window
  <2> QED BY <2>1, FS_Subset, FS_CardinalityType
<1>3. Tops(S) \in SUBSET Nat /\ x[2] \in Tops(S) /\ y[2] \in Tops(S)
  BY <1>1 DEF Tops
<1>4. \E t \in Tops(S) : Size(t) >= 2
  <2> DEFINE top == IF x[2] <= y[2] THEN y[2] ELSE x[2]
  <2>1. top \in Tops(S) /\ x[2] <= top /\ y[2] <= top /\ top \in Nat
    BY <1>1, <1>3
  <2>2. Agree(x[2], top) /\ Agree(y[2], top)
    BY <1>1 DEF Agree
  <2>3. x \in Window(S, top) /\ y \in Window(S, top)
    BY <2>1, <2>2 DEF Window
  <2> HIDE DEF top
  <2>4. {x} \in SUBSET Window(S, top) /\ y \notin {x} /\ Cardinality({x}) = 1
    BY <2>3, FS_Singleton
  <2>5. 1 < Size(top)
    BY <1>2, <2>3, <2>4, FewerElements
  <2> QED BY <1>2, <2>1, <2>5
<1>5. best # {}
  <2> DEFINE sizes == {Size(t) : t \in Tops(S)}
  <2>1. sizes \in SUBSET (0..Cardinality(S)) /\ sizes # {} /\ Cardinality(S) \in Nat
    BY <1>2, <1>3, FS_CardinalityType
  <2>2. IsFiniteSet(sizes)
    <3>1. IsFiniteSet(0..Cardinality(S))
      BY <2>1, FS_Interval
    <3> HIDE DEF sizes
    <3> QED BY <2>1, <3>1, FS_Subset
  <2>3. \E m \in sizes : \A k \in sizes : k <= m
    BY <2>1, <2>2, LargestInteger
  <2> QED BY <2>3
<1>6. best \in SUBSET Nat
  BY <1>3
<1> DEFINE t0 == CHOOSE t \in best : \A s \in best : t <= s
<1>7. t0 \in best
  <2>1. \E t \in best : \A s \in best : t <= s
    BY <1>5, <1>6, LeastNatural
  <2> HIDE DEF best
  <2> QED BY <2>1
<1>8. Largest(S) = Window(S, t0)
  BY Zenon DEF Largest
<1> HIDE DEF t0
<1>9. Size(t0) >= 2
  BY <1>2, <1>4, <1>7
<1>10. Cardinality(Largest(S)) >= 2 /\ Largest(S) # {}
  BY <1>8, <1>9, FS_EmptySet
<1> QED BY <1>10 DEF Cluster


-----------------------------------------------------------------------------
(* GreenFees: the inductive invariant.                                     *)

FeeTyped ==
  /\ fee \in Nat
  /\ suggested \in [Suggesters -> Suggestion]
  /\ asker \in [Askers -> [pc : {"absent", "locked", "gone"}, user : SUBSET Suggesters,
                           fee : Fees \cup {Unknown}, seen : SUBSET (Suggesters \X Fees)]]
  /\ closed \subseteq Suggesters
  /\ imported \in Fees \cup {Unknown}
  /\ \A u \in closed : suggested[u] = NoSuggestion
  /\ IsFiniteSet(Pending)

\* A submission is the only one, the fee is unknown while it is under way, and it has seen
\* every pending row of the others; what it has seen is still there but for closed accounts.
OneAsks ==
  \A j \in Asking :
    /\ \A i \in Asking : i = j
    /\ fee = Unknown
    /\ asker[j].fee \in Fees
    /\ \E u \in Suggesters \ closed :
         /\ asker[j].user = {u}
         /\ IsFiniteSet(asker[j].seen)
         /\ \A v \in Pending \ {u} : <<v, suggested[v].fee>> \in asker[j].seen
         /\ \A x \in asker[j].seen : x[1] # u

NoneAgree ==
  fee = Unknown => \A u, v \in Pending : u # v => ~Agree(suggested[u].fee, suggested[v].fee)

FeeInv == FeeTyped /\ OneAsks /\ NoneAgree /\ KnownFeeStands

LEMMA FeeInvGives == FeeInv => FeeTypeOK /\ FeesSettle
BY DEF FeeInv, FeeTyped, NoneAgree, FeeTypeOK, FeesSettle, AgreementCounts

LEMMA FeeRows ==
  /\ Unknown \notin Fees /\ Fees \subseteq Nat
  /\ NoSuggestion \in Suggestion /\ NoSuggestion.fee = Unknown /\ NoSuggestion.status = "pending"
  /\ NotAsked.pc = "absent" /\ Asked.pc = "gone"
  /\ \A r \in {NotAsked, Asked} :
       r \in [pc : {"absent", "locked", "gone"}, user : SUBSET Suggesters,
              fee : Fees \cup {Unknown}, seen : SUBSET (Suggesters \X Fees)]
BY FeesAssumption DEF Unknown, NoSuggestion, Suggestion, NotAsked, Asked

LEMMA FeeInvInit == FeeInit => FeeInv
<1> SUFFICES ASSUME FeeInit PROVE FeeInv
  OBVIOUS
<1>1. Pending = {} /\ Asking = {}
  BY FeeRows DEF FeeInit, Pending, Asking
<1>2. FeeTyped
  BY <1>1, FeeRows, FS_EmptySet DEF FeeInit, FeeTyped, Unknown
<1> QED BY <1>1, <1>2, FeeRows DEF FeeInit, FeeInv, OneAsks, NoneAgree, KnownFeeStands

LEMMA SubmitKeeps ==
  ASSUME FeeInv, NEW j \in Askers, NEW u \in Suggesters, NEW f \in Fees, Submit(j, u, f)
  PROVE  FeeInv'
<1> DEFINE seen == {<<v, suggested[v].fee>> : v \in Pending \ {u}}
           row == [pc |-> "locked", user |-> {u}, fee |-> f, seen |-> seen]
<1>1. /\ Asking = {} /\ u \notin closed /\ UNCHANGED <<fee, suggested, closed, imported>>
      /\ asker' = [asker EXCEPT ![j] = IF fee # Unknown THEN Asked ELSE row]
  BY DEF Submit, CourseIsFree
<1>2. Pending' = Pending /\ Pending \in SUBSET Suggesters /\ IsFiniteSet(Pending)
  BY <1>1 DEF Pending, FeeInv, FeeTyped
<1>3. \A v \in Pending : suggested[v].fee \in Fees
  BY DEF FeeInv, FeeTyped, Suggestion, Pending
<1>4. seen \in SUBSET (Suggesters \X Fees) /\ IsFiniteSet(seen)
  <2>1. IsFiniteSet(Pending \ {u})
    BY <1>2, FS_Subset
  <2> DEFINE g == [v \in Pending \ {u} |-> <<v, suggested[v].fee>>]
  <2>2. g \in Surjection(Pending \ {u}, seen)
    BY DEF Surjection
  <2>3. IsFiniteSet(seen)
    <3> HIDE DEF g, seen
    <3> QED BY <2>1, <2>2, FS_Surjection
  <2> QED BY <1>2, <1>3, <2>3
<1>5. \A v \in Pending \ {u} : <<v, suggested[v].fee>> \in seen
  OBVIOUS
<1>6. \A x \in seen : x[1] # u
  OBVIOUS
<1> HIDE DEF seen
<1>7. /\ row \in [pc : {"absent", "locked", "gone"}, user : SUBSET Suggesters,
                  fee : Fees \cup {Unknown}, seen : SUBSET (Suggesters \X Fees)]
      /\ row.pc = "locked" /\ row.user = {u} /\ row.fee = f /\ row.seen = seen
  BY <1>4
<1> HIDE DEF row
<1>8. FeeTyped'
  BY <1>1, <1>2, <1>7, FeeRows DEF FeeInv, FeeTyped
<1>9. \A i \in Askers : i # j => asker'[i] = asker[i]
  BY <1>1 DEF FeeInv, FeeTyped
<1>10. \A i \in Asking' : i = j /\ fee = Unknown /\ asker'[i] = row
  <2> SUFFICES ASSUME NEW i \in Asking' PROVE i = j /\ fee = Unknown /\ asker'[i] = row
    OBVIOUS
  <2>1. i = j
    BY <1>1, <1>9 DEF Asking
  <2> QED BY <1>1, <2>1, FeeRows DEF Asking, FeeInv, FeeTyped
<1>11. OneAsks'
  BY <1>1, <1>2, <1>4, <1>5, <1>6, <1>7, <1>10 DEF OneAsks
<1> QED BY <1>1, <1>2, <1>8, <1>11 DEF FeeInv, NoneAgree, KnownFeeStands

\* A submission that ends: the rows it has seen and its own either hold no two that agree, or
\* their largest cluster sets the fee.
LEMMA SubmissionKeeps == ASSUME FeeInv, NEW j \in Askers, SubmissionCommits(j) PROVE FeeInv'
<1> DEFINE w == asker[j]
           rows == w.seen \cup (w.user \X {w.fee})
           cluster == Cluster(rows)
           agreed == {x[1] : x \in cluster}
<1>1. /\ j \in Asking /\ asker' = [asker EXCEPT ![j] = Asked] /\ UNCHANGED <<closed, imported>>
      /\ \/ /\ suggested' = [v \in Suggesters |->
                 LET row == IF v \in w.user THEN [fee |-> w.fee, status |-> "pending"] ELSE suggested[v] IN
                 IF v \in agreed /\ row.fee # Unknown THEN [row EXCEPT !.status = "applied"] ELSE row]
            /\ fee' = IF cluster = {} THEN fee ELSE RoundedAverage(cluster)
         \/ UNCHANGED <<fee, suggested>>
  BY DEF SubmissionCommits
<1>2. PICK u \in Suggesters \ closed :
        /\ w.user = {u} /\ IsFiniteSet(w.seen)
        /\ \A v \in Pending \ {u} : <<v, suggested[v].fee>> \in w.seen
        /\ \A x \in w.seen : x[1] # u
  BY <1>1 DEF FeeInv, OneAsks
<1>3. fee = Unknown /\ imported = Unknown /\ w.fee \in Fees /\ \A i \in Asking : i = j
  BY <1>1, FeeRows DEF FeeInv, FeeTyped, OneAsks, KnownFeeStands
<1>4. Asking' = {}
  BY <1>1, <1>3, FeeRows DEF Asking, FeeInv, FeeTyped
<1>5. /\ fee \in Nat /\ suggested \in [Suggesters -> Suggestion] /\ closed \subseteq Suggesters
      /\ \A v \in closed : suggested[v] = NoSuggestion
      /\ w.seen \in SUBSET (Suggesters \X Fees) /\ IsFiniteSet(Pending) /\ Pending \in SUBSET Suggesters
  BY DEF FeeInv, FeeTyped, Pending
<1>6. asker' \in [Askers -> [pc : {"absent", "locked", "gone"}, user : SUBSET Suggesters,
                             fee : Fees \cup {Unknown}, seen : SUBSET (Suggesters \X Fees)]]
  BY <1>1, FeeRows DEF FeeInv, FeeTyped
<1>7. CASE UNCHANGED <<fee, suggested>>
  <2>1. Pending' = Pending
    BY <1>7 DEF Pending
  <2> QED BY <1>1, <1>4, <1>6, <1>7, <2>1
          DEF FeeInv, FeeTyped, OneAsks, NoneAgree, KnownFeeStands
<1>8. CASE /\ suggested' = [v \in Suggesters |->
                 LET row == IF v \in w.user THEN [fee |-> w.fee, status |-> "pending"] ELSE suggested[v] IN
                 IF v \in agreed /\ row.fee # Unknown THEN [row EXCEPT !.status = "applied"] ELSE row]
           /\ fee' = IF cluster = {} THEN fee ELSE RoundedAverage(cluster)
  <2> DEFINE own == [fee |-> w.fee, status |-> "pending"]
             Kept(v) == IF v = u THEN own ELSE suggested[v]
  <2>1. /\ rows \in SUBSET (Suggesters \X Fees) /\ IsFiniteSet(rows)
        /\ <<u, w.fee>> \in rows /\ \A v \in Pending \ {u} : <<v, suggested[v].fee>> \in rows
    <3>1. rows = w.seen \cup {<<u, w.fee>>}
      BY <1>2
    <3>2. IsFiniteSet({<<u, w.fee>>})
      BY FS_Singleton
    <3>3. IsFiniteSet(rows)
      BY <1>2, <3>1, <3>2, FS_Union
    <3> QED BY <1>2, <1>3, <1>5, <3>1, <3>3
  <2>2. cluster \in SUBSET rows
    BY DEF Cluster, Largest, Window
  <2> HIDE DEF rows
  <2>3. ASSUME NEW v \in Suggesters
        PROVE  suggested'[v] = IF v \in agreed /\ Kept(v).fee # Unknown THEN [Kept(v) EXCEPT !.status = "applied"]
                               ELSE Kept(v)
    <3>1. v \in w.user <=> v = u
      BY <1>2
    <3> HIDE DEF agreed
    <3> QED BY <1>8, <3>1
  <2>4. own \in Suggestion /\ own.fee = w.fee /\ own.status = "pending"
    BY <1>3 DEF Suggestion
  <2> HIDE DEF own, cluster
  <2>5. ASSUME NEW v \in Suggesters
        PROVE  suggested'[v] \in Suggestion /\ suggested'[v].fee = Kept(v).fee
    <3>1. Kept(v) \in Suggestion
      BY <1>5, <2>4
    <3> DEFINE k == Kept(v)
    <3> HIDE DEF Kept
    <3>2. [k EXCEPT !.status = "applied"] \in Suggestion /\ [k EXCEPT !.status = "applied"].fee = k.fee
      BY <3>1 DEF Suggestion
    <3> QED BY <2>3, <3>1, <3>2
  <2>6. suggested' \in [Suggesters -> Suggestion]
    <3>1. suggested' = [v \in Suggesters |-> suggested'[v]]
      BY <1>8
    <3> QED BY <2>5, <3>1
  <2>7. Pending' \in SUBSET (Pending \cup {u})
    <3> SUFFICES ASSUME NEW v \in Pending', v # u PROVE v \in Pending
      OBVIOUS
    <3>1. v \in Suggesters /\ Kept(v) = suggested[v] /\ suggested'[v].fee # Unknown /\ suggested'[v].status = "pending"
      BY DEF Pending
    <3>2. suggested[v].fee # Unknown
      BY <2>5, <3>1
    <3>3. suggested'[v] = suggested[v]
      <4> DEFINE k == suggested[v]
      <4>1. k \in Suggestion
        BY <1>5, <3>1
      <4> HIDE DEF k
      <4>2. [k EXCEPT !.status = "applied"].status = "applied"
        BY <4>1 DEF Suggestion
      <4> QED BY <2>3, <3>1, <4>2 DEF k
    <3> QED BY <3>1, <3>3 DEF Pending
  <2>8. IsFiniteSet(Pending')
    <3>1. IsFiniteSet(Pending \cup {u})
      BY <1>5, FS_AddElement
    <3> QED BY <2>7, <3>1, FS_Subset
  <2>9. \A v \in closed : suggested'[v] = NoSuggestion
    <3> SUFFICES ASSUME NEW v \in closed PROVE suggested'[v] = NoSuggestion
      OBVIOUS
    <3>1. v \in Suggesters /\ v # u /\ suggested[v] = NoSuggestion
      BY <1>2, <1>5
    <3> QED BY <2>3, <3>1, FeeRows
  <2>10. CASE cluster = {}
    <3>1. fee' = fee /\ agreed = {}
      BY <1>8, <2>10
    <3>2. \A v \in Suggesters : suggested'[v] = Kept(v)
      <4> HIDE DEF agreed
      <4> QED BY <2>3, <3>1
    <3>3. \A v \in Suggesters : suggested'[v].status = "pending"
      BY <1>3, <2>4, <3>2 DEF FeeInv, KnownFeeStands
    <3>4. ASSUME NEW v \in Pending' PROVE <<v, suggested'[v].fee>> \in rows
      <4>1. v \in Suggesters /\ v \in Pending \cup {u}
        BY <2>7 DEF Pending
      <4>2. CASE v = u
        BY <2>1, <2>4, <3>2, <4>2
      <4>3. CASE v # u
        BY <2>1, <3>2, <4>1, <4>3
      <4> QED BY <4>2, <4>3
    <3>5. NoneAgree'
      <4> SUFFICES ASSUME NEW a \in Pending', NEW b \in Pending', a # b,
                          Agree(suggested'[a].fee, suggested'[b].fee)
                   PROVE  FALSE
        BY DEF NoneAgree, Agree
      <4> DEFINE x == <<a, suggested'[a].fee>>
                 y == <<b, suggested'[b].fee>>
      <4>1. x \in rows /\ y \in rows /\ x # y /\ x[2] = suggested'[a].fee /\ y[2] = suggested'[b].fee
        BY <3>4
      <4> HIDE DEF x, y
      <4> QED BY <2>1, <2>10, <4>1, ClusterFound DEF cluster
    <3>6. FeeTyped'
      BY <1>1, <1>5, <1>6, <2>6, <2>8, <2>9, <3>1 DEF FeeInv, FeeTyped
    <3> QED BY <1>1, <1>3, <1>4, <3>1, <3>3, <3>5, <3>6, FeeRows DEF FeeInv, OneAsks, KnownFeeStands
  <2>11. CASE cluster # {}
    <3>1. cluster \in SUBSET (Suggesters \X Fees) /\ IsFiniteSet(cluster)
      BY <2>1, <2>2, FS_Subset
    <3>2. fee' \in Nat /\ fee' # Unknown
      BY <1>8, <2>11, <3>1, AverageIsKnown
    <3>3. FeeTyped'
      BY <1>1, <1>5, <1>6, <2>6, <2>8, <2>9, <3>2 DEF FeeInv, FeeTyped
    <3> QED BY <1>1, <1>3, <1>4, <3>2, <3>3, FeeRows DEF FeeInv, OneAsks, NoneAgree, KnownFeeStands
  <2> QED BY <2>10, <2>11
<1> QED BY <1>1, <1>7, <1>8

LEMMA ImportKeeps == ASSUME FeeInv, NEW f \in Fees, ImportCourses(f) PROVE FeeInv'
<1>1. /\ fee' = f /\ imported' = f /\ UNCHANGED <<suggested, asker, closed>> /\ Asking = {}
  BY DEF ImportCourses, CourseIsFree
<1>2. Asking' = {} /\ Pending' = Pending
  BY <1>1 DEF Asking, Pending
<1>3. f \in Nat /\ f # Unknown
  BY FeeRows
<1> QED BY <1>1, <1>2, <1>3, FeeRows DEF FeeInv, FeeTyped, OneAsks, NoneAgree, KnownFeeStands

LEMMA CloseKeeps == ASSUME FeeInv, NEW u \in Suggesters, AccountCloses(u) PROVE FeeInv'
<1>1. /\ \A j \in Asking : asker[j].user # {u}
      /\ closed' = closed \cup {u} /\ suggested' = [suggested EXCEPT ![u] = NoSuggestion]
      /\ UNCHANGED <<fee, asker, imported>>
  BY DEF AccountCloses
<1>2. suggested' \in [Suggesters -> Suggestion] /\ \A v \in Suggesters : suggested'[v] = IF v = u THEN NoSuggestion ELSE suggested[v]
  BY <1>1, FeeRows DEF FeeInv, FeeTyped
<1>3. Pending' = Pending \ {u} /\ Asking' = Asking
  BY <1>1, <1>2, FeeRows DEF Pending, Asking
<1>4. IsFiniteSet(Pending')
  BY <1>3, FS_Subset DEF FeeInv, FeeTyped
<1>5. FeeTyped'
  BY <1>1, <1>2, <1>4 DEF FeeInv, FeeTyped
<1>6. OneAsks'
  <2> SUFFICES ASSUME NEW j \in Asking
               PROVE  /\ \A i \in Asking : i = j
                      /\ fee = Unknown
                      /\ asker[j].fee \in Fees
                      /\ \E v \in Suggesters \ closed' :
                           /\ asker[j].user = {v}
                           /\ IsFiniteSet(asker[j].seen)
                           /\ \A x \in Pending' \ {v} : <<x, suggested'[x].fee>> \in asker[j].seen
                           /\ \A x \in asker[j].seen : x[1] # v
    BY <1>1, <1>3 DEF OneAsks
  <2>1. PICK v \in Suggesters \ closed :
          /\ asker[j].user = {v}
          /\ IsFiniteSet(asker[j].seen)
          /\ \A x \in Pending \ {v} : <<x, suggested[x].fee>> \in asker[j].seen
          /\ \A x \in asker[j].seen : x[1] # v
    BY DEF FeeInv, OneAsks
  <2>2. v # u
    BY <1>1, <2>1
  <2>3. \A x \in Pending' \ {v} : <<x, suggested'[x].fee>> \in asker[j].seen
    BY <1>2, <1>3, <2>1 DEF Pending
  <2> QED BY <1>1, <2>1, <2>2, <2>3 DEF FeeInv, OneAsks
<1>7. NoneAgree'
  <2>1. \A x \in Pending' : x \in Pending /\ suggested'[x] = suggested[x]
    BY <1>2, <1>3 DEF Pending
  <2> QED BY <1>1, <2>1 DEF FeeInv, NoneAgree, Agree
<1>8. KnownFeeStands'
  BY <1>1, <1>2, FeeRows DEF FeeInv, KnownFeeStands
<1> QED BY <1>5, <1>6, <1>7, <1>8 DEF FeeInv

LEMMA FeeInvStep == FeeInv /\ [FeeNext]_feeVars => FeeInv'
<1> SUFFICES ASSUME FeeInv, [FeeNext]_feeVars PROVE FeeInv'
  OBVIOUS
<1>1. ASSUME NEW j \in Askers, NEW u \in Suggesters, NEW f \in Fees, Submit(j, u, f) PROVE FeeInv'
  BY <1>1, SubmitKeeps
<1>2. ASSUME NEW j \in Askers, SubmissionCommits(j) PROVE FeeInv'
  BY <1>2, SubmissionKeeps
<1>3. ASSUME NEW f \in Fees, ImportCourses(f) PROVE FeeInv'
  BY <1>3, ImportKeeps
<1>4. ASSUME NEW u \in Suggesters, AccountCloses(u) PROVE FeeInv'
  BY <1>4, CloseKeeps
<1>5. CASE UNCHANGED feeVars
  BY <1>5 DEF feeVars, FeeInv, FeeTyped, OneAsks, NoneAgree, KnownFeeStands, Pending, Asking, Agree
<1> QED BY <1>1, <1>2, <1>3, <1>4, <1>5 DEF FeeNext

LEMMA FeeInvAlways == FeeSpec => []FeeInv
BY FeeInvInit, FeeInvStep, PTL DEF FeeSpec

\* Types of green_fee_suggestions.py's rows: an account that is gone has no suggestion left.
THEOREM FeeTypeCorrect == FeeSpec => []FeeTypeOK
<1>1. FeeInv => FeeTypeOK
  BY FeeInvGives
<1> QED BY <1>1, FeeInvAlways, PTL

\* However many golfers submit, correct or withdraw a fee, and whatever the catalogue brings:
\* two suggestions that agree have set the fee, and nothing overrides one that is known.
THEOREM FeesAlwaysSettle == FeeSpec => []FeesSettle
<1>1. FeeInv => FeesSettle
  BY FeeInvGives
<1> QED BY <1>1, FeeInvAlways, PTL
-----------------------------------------------------------------------------
(* The four together.                                                      *)

\* A behaviour of the run is one of each module, which share no state (social.py, rounds.py,
\* saves.py, green_fee_suggestions.py): what is proved of a module holds in it.
THEOREM GolfersAreAll == MCSpec => Spec /\ LogSpec /\ SavedSpec /\ FeeSpec
<1>1. MCInit => Init /\ LogInit /\ SavedInit /\ FeeInit
  BY DEF MCInit
<1>2. [MCNext]_golfersVars => [Next]_vars /\ [LogNext]_logVars /\ [SavedNext]_savedVars /\ [FeeNext]_feeVars
  BY DEF MCNext, golfersVars
<1> QED BY <1>1, <1>2, PTL DEF MCSpec, Spec, LogSpec, SavedSpec, FeeSpec

\* Every variable of the four stays in its type, whichever of them the run is about.
THEOREM GolferTypesCorrect == MCSpec => []TypesOK
<1>1. TypeOK /\ LogTypeOK /\ SavedTypeOK /\ FeeTypeOK => TypesOK
  BY DEF TypesOK
<1> QED BY <1>1, GolfersAreAll, SocialTypeCorrect, LogTypeCorrect, SavedTypeCorrect, FeeTypeCorrect, PTL
=============================================================================
