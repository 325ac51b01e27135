---------------------------- MODULE HeroImageProofs ----------------------------
(***************************************************************************)
(* Proofs about RedisLock, for any callers, processes and threshold: the   *)
(* type invariant, that a key stays with its holder, and that the lock     *)
(* implements Coalescing; and about HeroImage, for any resolvers and       *)
(* bounds: it uses the lock as RedisLock says, so the lock's promise       *)
(* holds, and under that promise the resolvers leave one hero.             *)
(***************************************************************************)
EXTENDS HeroImage, FiniteOrders, TLAPS

-----------------------------------------------------------------------------
(* RedisLock: the inductive invariant.                                     *)

\* As long as the store has kept its word nobody was let in without the key, and no key is
\* left by a caller that is gone.
TrustedIsTidy ==
  trusted => /\ robbed = {}
             /\ key # "orphan"
             /\ \A c \in Callers : stand[c] # "without"

\* The inductive invariant: KeyStaysWithHolder makes the holder unique while its key is
\* there, and TrustedIsTidy says that it is there.
LockInv == LockTypeOK /\ KeyStaysWithHolder /\ TrustedIsTidy

LEMMA InvInit == LockInit => LockInv
  BY LockAssumption DEF LockInit, LockInv, LockTypeOK, KeyStaysWithHolder, TrustedIsTidy, Stands

\* A process that counts one more failure stays below its threshold.
LEMMA FailedTyped ==
  ASSUME LockTypeOK, NEW p \in Processes, Failed(p)
  PROVE  /\ failures' \in [Processes -> 0..Threshold]
         /\ open' \subseteq Processes
         /\ trusted' = FALSE
  BY LockAssumption DEF LockTypeOK, Failed

LEMMA TryLockKeeps ==
  ASSUME LockInv, NEW c \in Callers, TryLock(c)
  PROVE  LockInv'
<1> DEFINE p == ProcessOf[c]
<1>0. p \in Processes /\ stand[c] = "out" /\ robbed' = robbed
  BY LockAssumption DEF TryLock
<1>1. CASE p \in open /\ stand' = [stand EXCEPT ![c] = "without"] /\ trusted' = FALSE
            /\ UNCHANGED <<key, failures, open>>
  BY <1>0, <1>1 DEF LockInv, LockTypeOK, KeyStaysWithHolder, TrustedIsTidy, Stands
<1>2. CASE p \notin open /\ SetIfAbsent(c) /\ failures' = [failures EXCEPT ![p] = 0]
            /\ UNCHANGED <<open, trusted>>
  <2>1. failures' \in [Processes -> 0..Threshold]
    BY <1>0, <1>2, LockAssumption DEF LockInv, LockTypeOK
  <2>2. CASE key = "none" /\ stand' = [stand EXCEPT ![c] = "holds"] /\ key' = c
    BY <1>0, <1>2, <2>1, <2>2, LockAssumption
       DEF LockInv, LockTypeOK, KeyStaysWithHolder, TrustedIsTidy, Stands
  <2>3. CASE key # "none" /\ stand' = [stand EXCEPT ![c] = "refused"] /\ UNCHANGED key
    BY <1>0, <1>2, <2>1, <2>3, LockAssumption
       DEF LockInv, LockTypeOK, KeyStaysWithHolder, TrustedIsTidy, Stands
  <2> QED BY <1>2, <2>2, <2>3 DEF SetIfAbsent
<1>3. CASE p \notin open /\ stand' = [stand EXCEPT ![c] = "without"]
            /\ key' \in {key, IF key = "none" THEN "orphan" ELSE key} /\ Failed(p)
  <2>1. failures' \in [Processes -> 0..Threshold] /\ open' \subseteq Processes /\ trusted' = FALSE
    BY <1>0, <1>3, FailedTyped DEF LockInv
  <2>2. key' \in {key, "orphan"} /\ (key \in Callers => key' = key)
    BY <1>3, LockAssumption
  <2> QED BY <1>0, <1>3, <2>1, <2>2, LockAssumption
             DEF LockInv, LockTypeOK, KeyStaysWithHolder, TrustedIsTidy, Stands
<1> QED BY <1>1, <1>2, <1>3 DEF TryLock

LEMMA LeaveLockKeeps ==
  ASSUME LockInv, NEW c \in Callers, LeaveLock(c)
  PROVE  LockInv'
<1> DEFINE p == ProcessOf[c]
<1>0. p \in Processes /\ stand[c] # "out" /\ stand' = [stand EXCEPT ![c] = "out"] /\ robbed' = robbed \ {c}
  BY LockAssumption DEF LeaveLock
<1>1. CASE stand[c] # "holds" /\ UNCHANGED <<key, failures, open, trusted>>
  BY <1>0, <1>1 DEF LockInv, LockTypeOK, KeyStaysWithHolder, TrustedIsTidy, Stands
<1>2. CASE stand[c] = "holds" /\ key' = Deleted(c) /\ UNCHANGED <<failures, open, trusted>>
  BY <1>0, <1>2, LockAssumption
     DEF LockInv, LockTypeOK, KeyStaysWithHolder, TrustedIsTidy, Stands, Deleted
<1>3. CASE stand[c] = "holds" /\ key' \in {Deleted(c), Abandoned(c)} /\ Failed(p)
  <2>1. failures' \in [Processes -> 0..Threshold] /\ open' \subseteq Processes /\ trusted' = FALSE
    BY <1>0, <1>3, FailedTyped DEF LockInv
  <2>2. IF key = c THEN key' \in {"none", "orphan"} ELSE key' = key
    BY <1>3 DEF Deleted, Abandoned
  <2> QED BY <1>0, <1>3, <2>1, <2>2, LockAssumption
             DEF LockInv, LockTypeOK, KeyStaysWithHolder, TrustedIsTidy, Stands
<1> QED BY <1>0, <1>1, <1>2, <1>3 DEF LeaveLock

LEMMA KeyVanishesKeeps == ASSUME LockInv, KeyVanishes PROVE LockInv'
  BY LockAssumption DEF LockInv, LockTypeOK, KeyStaysWithHolder, TrustedIsTidy, Stands, KeyVanishes

LEMMA CooldownKeeps == ASSUME LockInv, NEW p \in Processes, CooldownEnds(p) PROVE LockInv'
  BY DEF LockInv, LockTypeOK, KeyStaysWithHolder, TrustedIsTidy, CooldownEnds

LEMMA InvNext == LockInv /\ [LockNext]_lockVars => LockInv'
<1> SUFFICES ASSUME LockInv, [LockNext]_lockVars PROVE LockInv'
  OBVIOUS
<1>1. CASE UNCHANGED lockVars
  BY <1>1 DEF lockVars, LockInv, LockTypeOK, KeyStaysWithHolder, TrustedIsTidy
<1>2. ASSUME NEW c \in Callers, TryLock(c) \/ LeaveLock(c) PROVE LockInv'
  BY <1>2, TryLockKeeps, LeaveLockKeeps
<1>3. CASE LockEnvironment
  BY <1>3, KeyVanishesKeeps, CooldownKeeps DEF LockEnvironment
<1> QED BY <1>1, <1>2, <1>3 DEF LockNext

LEMMA Invariant == LockSpec => []LockInv
  BY InvInit, InvNext, PTL DEF LockSpec

\* Keys, callers and breakers of distributed_lock.py stay in their types.
THEOREM LockTypeCorrect == LockSpec => []LockTypeOK
<1>1. LockInv => LockTypeOK
  BY DEF LockInv
<1> QED BY <1>1, Invariant, PTL

\* A release never deletes the key of another caller: _RELEASE_LUA compares before it deletes.
THEOREM KeyAlwaysStays == LockSpec => []KeyStaysWithHolder
<1>1. LockInv => KeyStaysWithHolder
  BY DEF LockInv
<1> QED BY <1>1, Invariant, PTL

-----------------------------------------------------------------------------
(* The refinement.                                                         *)

Inside == {c \in Callers : stand[c] \in {"holds", "without"}}

\* While the store is trusted, a caller inside has the key, and a key is somebody's inside.
LEMMA InsideHasKey ==
  ASSUME LockInv, trusted
  PROVE  /\ key = "none" => Inside = {}
         /\ key # "none" => Inside # {}
  BY LockAssumption DEF LockInv, LockTypeOK, KeyStaysWithHolder, TrustedIsTidy, Inside

LEMMA PromisedInit == LockInit => Promise!CoalescingInit
  BY DEF LockInit, Promise!CoalescingInit

LEMMA PromisedTryLock ==
  ASSUME LockInv, NEW c \in Callers, TryLock(c)
  PROVE  Promise!LetIn(c) \/ Promise!TurnAway(c)
<1>0. stand[c] = "out" /\ stand \in [Callers -> Stands] /\ trusted \in BOOLEAN
  BY DEF TryLock, LockInv, LockTypeOK
<1>1. Promise!Outside(c)
  BY <1>0 DEF Promise!Outside
<1>2. CASE stand' = [stand EXCEPT ![c] = "without"] /\ trusted' = FALSE
  BY <1>0, <1>1, <1>2 DEF Promise!LetIn, Promise!MayFail
<1>3. CASE SetIfAbsent(c) /\ UNCHANGED trusted
  <2>1. CASE key = "none" /\ stand' = [stand EXCEPT ![c] = "holds"]
    <3>1. trusted => Inside = {}
      BY <2>1, InsideHasKey
    <3> QED BY <1>0, <1>1, <1>3, <2>1, <3>1 DEF Promise!LetIn, Promise!MayFail, Inside
  <2>2. CASE key # "none" /\ stand' = [stand EXCEPT ![c] = "refused"]
    <3>1. trusted => Inside # {}
      BY <2>2, InsideHasKey
    <3> QED BY <1>0, <1>1, <1>3, <2>2, <3>1 DEF Promise!TurnAway, Inside
  <2> QED BY <1>3, <2>1, <2>2 DEF SetIfAbsent
<1> QED BY <1>2, <1>3 DEF TryLock, Failed

LEMMA PromisedLeaveLock ==
  ASSUME LockInv, NEW c \in Callers, LeaveLock(c)
  PROVE  Promise!GoAway(c)
<1>1. /\ stand[c] # "out" /\ stand \in [Callers -> Stands]
      /\ stand' = [stand EXCEPT ![c] = "out"]
      /\ trusted' = trusted \/ trusted' = FALSE
  BY DEF LeaveLock, Failed, LockInv, LockTypeOK
<1> QED BY <1>1 DEF Promise!GoAway, Promise!Outside, Promise!MayFail, Stands

LEMMA PromisedNext == LockInv /\ [LockNext]_lockVars => [Promise!CoalescingNext]_(Promise!coalescingVars)
<1> SUFFICES ASSUME LockInv, [LockNext]_lockVars
             PROVE  [Promise!CoalescingNext]_(Promise!coalescingVars)
  OBVIOUS
<1>1. CASE UNCHANGED lockVars
  BY <1>1 DEF lockVars, Promise!coalescingVars
<1>2. ASSUME NEW c \in Callers, TryLock(c) \/ LeaveLock(c) PROVE Promise!CoalescingNext
  BY <1>2, PromisedTryLock, PromisedLeaveLock DEF Promise!CoalescingNext
<1>3. CASE KeyVanishes
  BY <1>3 DEF KeyVanishes, LockInv, LockTypeOK, Promise!CoalescingNext, Promise!Fails, Promise!coalescingVars
<1>4. ASSUME NEW p \in Processes, CooldownEnds(p) PROVE UNCHANGED (Promise!coalescingVars)
  BY <1>4 DEF CooldownEnds, Promise!coalescingVars
<1> QED BY <1>1, <1>2, <1>3, <1>4 DEF LockNext, LockEnvironment

\* The lock of distributed_lock.py implements Coalescing, whatever expires, fails or is lost.
THEOREM LockAlwaysKeepsPromise == LockSpec => LockKeepsPromise
<1>1. LockSpec => []LockInv
  BY Invariant
<1> QED BY <1>1, PromisedInit, PromisedNext, PTL DEF LockSpec, LockKeepsPromise, Promise!CoalescingSpec

-----------------------------------------------------------------------------
(* HeroImage: the inductive invariant.                                     *)

allVars == <<heroVars, lockVars>>

Photo == [id : 1..HeroWrites, hero : BOOLEAN, fresh : BOOLEAN, at : Nat, place : 0..Moves]
AtWork == {"inside", "looking", "evicting"}

HeroTypes ==
  /\ HeroTypeOK
  /\ photos \subseteq Photo
  /\ negative \in BOOLEAN /\ overtaken \in BOOLEAN
  /\ place \in 0..Moves /\ writes \in 0..HeroWrites
  /\ \A c \in Callers : view[c].pc \in AtWork => stand[c] \in {"holds", "without"}

\* While the lock can be relied on and no script interferes: what a resolver saw under the lock
\* still holds, so it adds a hero only where there is none, and evicts the one there is.
Settled ==
  trusted /\ ~overtaken =>
    /\ \A r, q \in photos : r.hero /\ q.hero => r = q
    /\ \A c \in Callers : view[c].pc = "looking" => ~negative /\ (view[c].cached = 0 => photos = {})
    /\ \A c \in Callers : view[c].pc \in {"looking", "evicting"} =>
         \A r \in photos : r.hero => r.id = view[c].cached
    /\ negative /\ (\A c \in Callers : view[c].pc # "evicting") => \A r \in photos : ~r.hero

HeroInv == LockInv /\ HeroTypes /\ Settled

-----------------------------------------------------------------------------
(* The lock in its use.                                                    *)

\* Every step of a resolver or a script is a step of the lock or leaves it alone.
LEMMA StepsOfLock == [HeroNext]_allVars => [LockNext]_lockVars
<1> SUFFICES ASSUME [HeroNext]_allVars PROVE [LockNext]_lockVars
  OBVIOUS
<1>1. ASSUME NEW c \in Callers, TriesLock(c) \/ LeavesLock(c) PROVE LockNext
  BY <1>1 DEF TriesLock, LeavesLock, LockNext
<1>2. ASSUME NEW c \in Callers,
             \/ Opens(c) \/ StripeIsTaken(c) \/ LooksAgain(c) \/ ProviderIsDown(c)
             \/ NothingFound(c) \/ EvictsHero(c) \/ PhotoFound(c)
      PROVE  UNCHANGED lockVars
  BY <1>2 DEF Opens, StripeIsTaken, LooksAgain, ProviderIsDown, NothingFound, EvictsHero, PhotoFound
<1>3. CASE \/ PhotoGoesStale \/ NegativeExpires \/ GalleryIsRefreshed \/ GalleryIsRemoved
           \/ HeroIsPicked \/ PhotoIsBackfilled \/ CourseMoves
  BY <1>3 DEF PhotoGoesStale, NegativeExpires, GalleryIsRefreshed, GalleryIsRemoved, HeroIsPicked,
              PhotoIsBackfilled, CourseMoves
<1>4. CASE LockEnvironment
  BY <1>4 DEF LockNext
<1>5. CASE UNCHANGED allVars
  BY <1>5 DEF allVars
<1> QED BY <1>1, <1>2, <1>3, <1>4, <1>5 DEF HeroNext

\* The resolvers of service.py use the lock of distributed_lock.py, and nothing but its
\* operations touches it.
THEOREM HeroUsesLock == HeroSpec => LockSpec
<1>1. HeroInit => LockInit
  BY DEF HeroInit
<1> QED BY <1>1, StepsOfLock, PTL DEF HeroSpec, LockSpec, allVars

\* So for the resolvers, too, the lock does what Coalescing promises.
THEOREM HeroLockKeepsPromise == HeroSpec => LockKeepsPromise
  BY HeroUsesLock, LockAlwaysKeepsPromise, PTL

\* Under a lock that can be relied on one caller is at work.
LEMMA Alone ==
  ASSUME LockInv, HeroTypes, trusted, NEW c \in Callers, NEW d \in Callers,
         view[c].pc \in AtWork, view[d].pc \in AtWork
  PROVE  c = d
<1>1. stand[c] = "holds" /\ stand[d] = "holds"
  BY DEF LockInv, TrustedIsTidy, HeroTypes
<1> QED BY <1>1 DEF LockInv, TrustedIsTidy, KeyStaysWithHolder

\* Neither the store's reliability nor the absence of interference ever comes back.
LEMMA TrustOnlyFalls == ASSUME [LockNext]_lockVars, trusted' PROVE trusted
  BY DEF LockNext, LockEnvironment, TryLock, LeaveLock, KeyVanishes, CooldownEnds, Failed, lockVars

\* best_wikimedia_image finds a row when there is one, and a hero when there is one.
LEMMA BestIsThere ==
  ASSUME HeroTypes, photos # {}
  PROVE  /\ Best \in photos /\ BestId \in 1..HeroWrites /\ BestId # 0
         /\ \A r \in photos : r.hero => Best.hero
<1>1. \A r \in photos : r.at \in Nat /\ r.hero \in BOOLEAN /\ r.id \in 1..HeroWrites
  BY DEF HeroTypes, Photo
<1>2. PICK T \in SUBSET photos : T # {} /\ (\A r, q \in T : r.hero = q.hero) /\
                                (\A r \in T, q \in photos \ T : r.hero /\ ~q.hero)
  <2>1. CASE \E r \in photos : r.hero
    <3> DEFINE T == {r \in photos : r.hero}
    <3>1. T \in SUBSET photos /\ T # {} /\ (\A r, q \in T : r.hero = q.hero) /\
          (\A r \in T, q \in photos \ T : r.hero /\ ~q.hero)
      BY <2>1, <1>1
    <3> QED BY <3>1
  <2>2. CASE ~\E r \in photos : r.hero
    <3>1. \A r, q \in photos : r.hero = q.hero
      BY <2>2, <1>1
    <3> QED BY <3>1
  <2> QED BY <2>1, <2>2
<1>3. PICK r \in T : \A q \in T : r.at <= q.at
  <2>1. {q.at : q \in T} \in SUBSET Nat /\ {q.at : q \in T} # {}
    BY <1>1, <1>2
  <2>2. PICK m \in {q.at : q \in T} : \A n \in {q.at : q \in T} : m <= n
    BY <2>1, LeastNatural
  <2> QED BY <2>2
<1>4. \A q \in photos : Better(r, q)
  BY <1>1, <1>2, <1>3 DEF Better
<1>5. Best \in photos /\ \A q \in photos : Better(Best, q)
  BY <1>2, <1>3, <1>4 DEF Best
<1>6. \A q \in photos : q.hero => Best.hero
  BY <1>5, <1>1 DEF Better
<1>7. BestId = Best.id
  BY DEF BestId
<1> QED BY <1>1, <1>5, <1>6, <1>7, HeroAssumption

LEMMA HeroInitial == HeroInit => HeroInv
<1> SUFFICES ASSUME HeroInit PROVE HeroInv
  OBVIOUS
<1>1. LockInv
  BY InvInit DEF HeroInit
<1>2. HeroTypes
  <2>1. 0 \in 0..HeroWrites /\ 0 \in 0..Moves
    BY HeroAssumption
  <2>2. view \in [Callers -> Visitors]
    BY <2>1 DEF HeroInit, Elsewhere, Visitors
  <2>3. \A c \in Callers : stand[c] = "out" /\ view[c].pc = "none"
    BY DEF HeroInit, LockInit, Elsewhere
  <2> QED BY <2>1, <2>2, <2>3 DEF HeroInit, HeroTypes, HeroTypeOK, AtWork
<1>3. Settled
  BY DEF HeroInit, Settled, Elsewhere
<1> QED BY <1>1, <1>2, <1>3 DEF HeroInv

-----------------------------------------------------------------------------
(* Types.                                                                  *)

\* What a step writes into view[c] keeps the resolvers typed.
LEMMA GoesOnTyped ==
  ASSUME HeroTypes, NEW c \in Callers, NEW pc \in {"cold", "inside", "looking", "evicting", "done"},
         view' = [view EXCEPT ![c].pc = pc]
  PROVE  /\ view' \in [Callers -> Visitors]
         /\ view'[c].pc = pc /\ view'[c].cached = view[c].cached /\ view'[c].place = view[c].place
         /\ \A d \in Callers \ {c} : view'[d] = view[d]
  BY DEF HeroTypes, HeroTypeOK, Visitors

\* A step of a resolver at work that leaves the lock alone.
LEMMA AtWorkTyped ==
  ASSUME HeroTypes, NEW c \in Callers, NEW pc \in {"looking", "evicting", "done"},
         view[c].pc \in AtWork, view' \in [Callers -> Visitors], view'[c].pc = pc,
         \A d \in Callers \ {c} : view'[d] = view[d], UNCHANGED lockVars
  PROVE  /\ \A d \in Callers : stand'[d] # "out" <=> view'[d].pc \in {"inside", "looking", "evicting", "done"}
         /\ \A d \in Callers : view'[d].pc \in AtWork => stand'[d] \in {"holds", "without"}
  BY DEF HeroTypes, HeroTypeOK, lockVars, AtWork

LEMMA OpensTyped ==
  ASSUME HeroTypes, NEW c \in Callers, Opens(c) \/ StripeIsTaken(c)
  PROVE  HeroTypes'
<1>1. BestId \in 0..HeroWrites
  BY BestIsThere, HeroAssumption DEF BestId
<1>2. PICK v \in Visitors : view' = [view EXCEPT ![c] = v] /\ v.pc \in {"none", "cold"}
  <2>1. [pc |-> "cold", cached |-> BestId, place |-> place] \in Visitors /\ Elsewhere \in Visitors
    BY <1>1, HeroAssumption DEF Visitors, Elsewhere, HeroTypes
  <2>2. CASE Opens(c)
    BY <2>1, <2>2 DEF Opens
  <2>3. CASE StripeIsTaken(c)
    BY <2>1, <2>3 DEF StripeIsTaken, Elsewhere
  <2> QED BY <2>2, <2>3
<1>3. view[c].pc \in {"none", "cold"} /\ UNCHANGED <<photos, negative, place, writes, overtaken, lockVars>>
  BY DEF Opens, StripeIsTaken
<1> QED BY <1>2, <1>3 DEF HeroTypes, HeroTypeOK, lockVars, AtWork

LEMMA TriesTyped ==
  ASSUME LockInv, LockInv', HeroTypes, NEW c \in Callers, TriesLock(c)
  PROVE  HeroTypes'
<1>1. /\ view[c].pc = "cold" /\ stand[c] = "out"
      /\ UNCHANGED <<photos, negative, place, writes, overtaken>>
      /\ \A d \in Callers \ {c} : stand'[d] = stand[d]
      /\ stand'[c] \in {"holds", "without", "refused"}
  BY DEF TriesLock, TryLock, SetIfAbsent, LockInv, LockTypeOK
<1>2. CASE stand'[c] = "refused" /\ GoesOn(c, "done")
  <2>1. view' \in [Callers -> Visitors] /\ view'[c].pc = "done" /\ \A d \in Callers \ {c} : view'[d] = view[d]
    BY <1>2, GoesOnTyped DEF GoesOn
  <2> QED BY <1>1, <1>2, <2>1 DEF HeroTypes, HeroTypeOK, AtWork
<1>3. CASE stand'[c] # "refused" /\ GoesOn(c, "inside")
  <2>1. view' \in [Callers -> Visitors] /\ view'[c].pc = "inside" /\ \A d \in Callers \ {c} : view'[d] = view[d]
    BY <1>3, GoesOnTyped DEF GoesOn
  <2> QED BY <1>1, <1>3, <2>1 DEF HeroTypes, HeroTypeOK, AtWork
<1> QED BY <1>2, <1>3 DEF TriesLock

LEMMA LooksTyped ==
  ASSUME HeroTypes, NEW c \in Callers, LooksAgain(c) \/ ProviderIsDown(c)
  PROVE  HeroTypes'
<1>1. view[c].pc \in AtWork /\ UNCHANGED <<photos, negative, place, writes, overtaken, lockVars>>
  BY DEF LooksAgain, ProviderIsDown, AtWork
<1>2. CASE GoesOn(c, "done")
  <2>1. view' \in [Callers -> Visitors] /\ view'[c].pc = "done" /\ \A d \in Callers \ {c} : view'[d] = view[d]
    BY <1>2, GoesOnTyped DEF GoesOn
  <2> QED BY <1>1, <2>1, AtWorkTyped DEF HeroTypes, HeroTypeOK
<1>3. CASE SecondLook(c)
  <2>1. BestId \in 0..HeroWrites
    BY BestIsThere, HeroAssumption DEF BestId
  <2>2. view' \in [Callers -> Visitors] /\ view'[c].pc = "looking" /\ \A d \in Callers \ {c} : view'[d] = view[d]
    BY <1>3, <2>1 DEF SecondLook, HeroTypes, HeroTypeOK, Visitors
  <2> QED BY <1>1, <2>2, AtWorkTyped DEF HeroTypes, HeroTypeOK
<1> QED BY <1>2, <1>3 DEF LooksAgain, ProviderIsDown, Ends

LEMMA NothingFoundTyped == ASSUME HeroTypes, NEW c \in Callers, NothingFound(c) PROVE HeroTypes'
<1>1. PICK pc \in {"done", "evicting"} : GoesOn(c, pc)
  BY DEF NothingFound
<1>2. view' \in [Callers -> Visitors] /\ view'[c].pc = pc /\ \A d \in Callers \ {c} : view'[d] = view[d]
  BY <1>1, GoesOnTyped DEF GoesOn
<1>3. view[c].pc \in AtWork /\ negative' = TRUE /\ UNCHANGED <<photos, place, writes, overtaken, lockVars>>
  BY DEF NothingFound, AtWork
<1> QED BY <1>2, <1>3, AtWorkTyped DEF HeroTypes, HeroTypeOK

LEMMA WritesTyped ==
  ASSUME HeroTypes, NEW c \in Callers, EvictsHero(c) \/ PhotoFound(c)
  PROVE  HeroTypes'
<1>1. view[c].pc \in AtWork /\ GoesOn(c, "done") /\ UNCHANGED <<negative, place, overtaken, lockVars>>
  BY DEF EvictsHero, PhotoFound, AtWork
<1>2. view' \in [Callers -> Visitors] /\ view'[c].pc = "done" /\ \A d \in Callers \ {c} : view'[d] = view[d]
  BY <1>1, GoesOnTyped DEF GoesOn
<1>3. photos' \subseteq Photo /\ writes' \in 0..HeroWrites
  <2>1. CASE EvictsHero(c)
    BY <2>1 DEF EvictsHero, Evicted, HeroTypes
  <2>2. CASE PhotoFound(c)
    <3>1. writes' \in 1..HeroWrites /\ writes' \in 0..HeroWrites /\ writes' \in Nat /\ view[c].place \in 0..Moves
      <4>1. writes' = writes + 1 /\ writes < HeroWrites /\ writes \in 0..HeroWrites /\ view[c] \in Visitors
        BY <2>2 DEF PhotoFound, HeroTypes, HeroTypeOK
      <4> QED BY <4>1, HeroAssumption DEF Visitors
    <3>2. Row(writes', TRUE, writes', view[c].place) \in Photo
      BY <3>1 DEF Row, Photo
    <3>3. \A r \in Photo : [r EXCEPT !.fresh = TRUE, !.at = writes', !.place = view[c].place] \in Photo
      BY <3>1 DEF Photo
    <3>4. photos \subseteq Photo
      BY DEF HeroTypes
    <3>5. CASE photos' = photos \cup {Row(writes', TRUE, writes', view[c].place)}
      BY <3>1, <3>2, <3>4, <3>5
    <3>6. CASE photos' = {IF r.id = view[c].cached
                          THEN [r EXCEPT !.fresh = TRUE, !.at = writes', !.place = view[c].place]
                          ELSE r : r \in photos}
      BY <3>1, <3>3, <3>4, <3>6
    <3>7. photos' \subseteq Photo
      BY <2>2, <3>4, <3>5, <3>6 DEF PhotoFound
    <3> QED BY <3>1, <3>7
  <2> QED BY <2>1, <2>2
<1>4. \A r \in photos' : r.id \in 1..HeroWrites /\ r.place \in 0..Moves
  BY <1>3 DEF Photo
<1> QED BY <1>1, <1>2, <1>3, <1>4, AtWorkTyped DEF HeroTypes, HeroTypeOK

LEMMA LeavesTyped == ASSUME LockInv, HeroTypes, NEW c \in Callers, LeavesLock(c) PROVE HeroTypes'
<1>1. view[c].pc = "done" /\ stand[c] # "out" /\ stand' = [stand EXCEPT ![c] = "out"]
      /\ UNCHANGED <<photos, negative, place, writes, overtaken>>
  BY DEF LeavesLock, LeaveLock
<1>2. Elsewhere \in Visitors /\ Elsewhere.pc = "none"
  BY HeroAssumption DEF Elsewhere, Visitors
<1>3. view' = [view EXCEPT ![c] = Elsewhere]
  BY DEF LeavesLock
<1> QED BY <1>1, <1>2, <1>3 DEF HeroTypes, HeroTypeOK, LockInv, LockTypeOK, AtWork

LEMMA ScriptsTyped ==
  ASSUME HeroTypes,
         \/ PhotoGoesStale \/ NegativeExpires \/ GalleryIsRefreshed \/ GalleryIsRemoved
         \/ HeroIsPicked \/ PhotoIsBackfilled \/ CourseMoves
  PROVE  HeroTypes'
<1>0. UNCHANGED <<view, lockVars>>
  BY DEF PhotoGoesStale, NegativeExpires, GalleryIsRefreshed, GalleryIsRemoved, HeroIsPicked,
         PhotoIsBackfilled, CourseMoves
<1>1. overtaken' \in BOOLEAN /\ negative' \in BOOLEAN /\ place' \in 0..Moves /\ writes' \in 0..HeroWrites
  <2>1. overtaken' \in BOOLEAN /\ negative' \in BOOLEAN
    BY DEF PhotoGoesStale, NegativeExpires, GalleryIsRefreshed, GalleryIsRemoved, HeroIsPicked,
       PhotoIsBackfilled, CourseMoves, OvertakesOr, Overtakes, HeroTypes
  <2>2. place' = place \/ (place < Moves /\ place' = place + 1)
    BY DEF PhotoGoesStale, NegativeExpires, GalleryIsRefreshed, GalleryIsRemoved, HeroIsPicked,
       PhotoIsBackfilled, CourseMoves
  <2>3. \/ writes' = writes \/ (writes < HeroWrites /\ writes' = writes + 1)
        \/ writes + 2 <= HeroWrites /\ writes' = writes + 2
    BY DEF PhotoGoesStale, NegativeExpires, GalleryIsRefreshed, GalleryIsRemoved, HeroIsPicked,
       PhotoIsBackfilled, CourseMoves
  <2>4. place \in 0..Moves /\ writes \in 0..HeroWrites
    BY DEF HeroTypes
  <2> QED BY <2>1, <2>2, <2>3, <2>4, HeroAssumption
<1>2. photos' \subseteq Photo
  <2>1. CASE PhotoGoesStale
    <3>1. \A r \in Photo : [r EXCEPT !.fresh = FALSE] \in Photo
      BY DEF Photo
    <3> QED BY <2>1, <3>1 DEF PhotoGoesStale, HeroTypes
  <2>2. CASE GalleryIsRefreshed
    <3>1. /\ writes + 1 \in 1..HeroWrites /\ writes + 2 \in 1..HeroWrites /\ writes' = writes + 2
          /\ writes' \in Nat /\ place \in 0..Moves
      BY <2>2, HeroAssumption DEF GalleryIsRefreshed, HeroTypes
    <3>2. Row(writes + 1, TRUE, writes', place) \in Photo /\ Row(writes + 2, FALSE, writes', place) \in Photo
      BY <3>1 DEF Row, Photo
    <3> QED BY <2>2, <3>2 DEF GalleryIsRefreshed
  <2>3. CASE HeroIsPicked
    <3>1. PICK seen \in SUBSET photos, best \in Photo :
            photos' = (photos \ seen) \cup {[r EXCEPT !.hero = (r = best)] : r \in seen}
      BY <2>3 DEF HeroIsPicked, HeroTypes
    <3>2. \A r \in Photo : [r EXCEPT !.hero = (r = best)] \in Photo
      BY DEF Photo
    <3> QED BY <3>1, <3>2 DEF HeroTypes
  <2>4. CASE PhotoIsBackfilled
    <3>1. PICK known \in 0..place : photos' = photos \cup {Row(writes', TRUE, writes', known)}
      BY <2>4 DEF PhotoIsBackfilled
    <3>2. writes' \in 1..HeroWrites /\ writes' \in Nat /\ known \in 0..Moves
      BY <2>4, HeroAssumption DEF PhotoIsBackfilled, HeroTypes
    <3>3. Row(writes', TRUE, writes', known) \in Photo
      BY <3>2 DEF Row, Photo
    <3> QED BY <3>1, <3>3 DEF HeroTypes
  <2> QED BY <2>1, <2>2, <2>3, <2>4 DEF NegativeExpires, GalleryIsRemoved, CourseMoves, HeroTypes
<1>3. \A r \in photos' : r.id \in 1..HeroWrites /\ r.place \in 0..Moves
  BY <1>2 DEF Photo
<1> QED BY <1>0, <1>1, <1>2, <1>3 DEF HeroTypes, HeroTypeOK, lockVars, AtWork

LEMMA TypesNext ==
  ASSUME LockInv, LockInv', HeroTypes, [HeroNext]_allVars
  PROVE  HeroTypes'
<1>1. CASE UNCHANGED allVars
  BY <1>1 DEF allVars, heroVars, lockVars, HeroTypes, HeroTypeOK, AtWork
<1>2. CASE LockEnvironment /\ UNCHANGED heroVars
  <2>1. UNCHANGED stand
    BY <1>2 DEF LockEnvironment, KeyVanishes, CooldownEnds
  <2> QED BY <1>2, <2>1 DEF heroVars, HeroTypes, HeroTypeOK, AtWork
<1> QED BY <1>1, <1>2, OpensTyped, TriesTyped, LooksTyped, NothingFoundTyped, WritesTyped, LeavesTyped,
           ScriptsTyped DEF HeroNext

-----------------------------------------------------------------------------
(* One hero.                                                               *)

\* Without writes to the rows and to what was found out, there is only the lookups to look at.
LEMMA QuietSettled ==
  ASSUME Settled, trusted' => trusted, UNCHANGED <<photos, negative, overtaken>>,
         \A c \in Callers : view'[c].pc \in {"looking", "evicting"} =>
           view'[c].pc = view[c].pc /\ view'[c].cached = view[c].cached,
         \A c \in Callers : view[c].pc = "evicting" => view'[c].pc = "evicting"
  PROVE  Settled'
  BY DEF Settled

LEMMA LooksSettled ==
  ASSUME LockInv, HeroTypes, Settled, NEW c \in Callers, LooksAgain(c)
  PROVE  Settled'
<1>1. view[c].pc = "inside" /\ UNCHANGED <<photos, negative, overtaken>> /\ trusted' = trusted
  BY DEF LooksAgain, lockVars
<1>2. CASE GoesOn(c, "done")
  BY <1>1, <1>2, GoesOnTyped, QuietSettled DEF GoesOn
<1>3. CASE SecondLook(c)
  <2>1. /\ ~Known /\ view'[c].pc = "looking" /\ view'[c].cached = BestId
        /\ \A d \in Callers \ {c} : view'[d] = view[d]
    BY <1>3 DEF SecondLook, HeroTypes, HeroTypeOK, Visitors
  <2>2. SUFFICES ASSUME trusted, ~overtaken
                 PROVE  Settled'
    BY <1>1 DEF Settled
  <2>3. \A d \in Callers \ {c} : view[d].pc \notin {"looking", "evicting"}
    BY <1>1, <2>2, Alone DEF AtWork
  <2>4. ~negative
    BY <2>1, <1>1 DEF Known, HeroTypes
  <2>5. BestId = 0 => photos = {}
    BY BestIsThere
  <2>6. \A r \in photos : r.hero => r.id = BestId
    <3> SUFFICES ASSUME NEW r \in photos, r.hero PROVE r.id = BestId
      OBVIOUS
    <3>1. Best \in photos /\ Best.hero
      BY BestIsThere
    <3>2. Best = r
      BY <3>1, <2>2 DEF Settled
    <3> QED BY <3>2 DEF BestId
  <2> QED BY <1>1, <2>1, <2>2, <2>3, <2>4, <2>5, <2>6 DEF Settled
<1> QED BY <1>2, <1>3 DEF LooksAgain

LEMMA NothingFoundSettled ==
  ASSUME LockInv, HeroTypes, Settled, NEW c \in Callers, NothingFound(c)
  PROVE  Settled'
<1>1. /\ view[c].pc = "looking" /\ negative' = TRUE /\ trusted' = trusted
      /\ UNCHANGED <<photos, overtaken>>
  BY DEF NothingFound, lockVars
<1>2. PICK pc \in {"done", "evicting"} : GoesOn(c, pc) /\ (pc = "done" => view[c].cached = 0)
  BY DEF NothingFound
<1>3. /\ view'[c].pc = pc /\ view'[c].cached = view[c].cached
      /\ \A d \in Callers \ {c} : view'[d] = view[d]
  BY <1>2, GoesOnTyped DEF GoesOn
<1>4. SUFFICES ASSUME trusted, ~overtaken PROVE Settled'
  BY <1>1 DEF Settled
<1>5. \A d \in Callers \ {c} : view[d].pc \notin {"looking", "evicting"}
  BY <1>1, <1>4, Alone DEF AtWork
<1>6. pc = "done" => photos = {}
  BY <1>1, <1>2, <1>4 DEF Settled
<1> QED BY <1>1, <1>2, <1>3, <1>4, <1>5, <1>6 DEF Settled

LEMMA EvictsSettled ==
  ASSUME LockInv, HeroTypes, Settled, NEW c \in Callers, EvictsHero(c)
  PROVE  Settled'
<1>1. /\ view[c].pc = "evicting" /\ trusted' = trusted /\ UNCHANGED <<negative, overtaken>>
      /\ photos' = {r \in photos : r.id # view[c].cached} /\ GoesOn(c, "done")
  BY DEF EvictsHero, Evicted, lockVars
<1>2. view'[c].pc = "done" /\ \A d \in Callers \ {c} : view'[d] = view[d]
  BY <1>1, GoesOnTyped DEF GoesOn
<1>3. SUFFICES ASSUME trusted, ~overtaken PROVE Settled'
  BY <1>1 DEF Settled
<1>4. \A d \in Callers \ {c} : view[d].pc \notin {"looking", "evicting"}
  BY <1>1, <1>3, Alone DEF AtWork
<1>5. \A r \in photos' : ~r.hero
  BY <1>1, <1>3 DEF Settled
<1> QED BY <1>1, <1>2, <1>4, <1>5 DEF Settled

LEMMA FoundSettled ==
  ASSUME LockInv, HeroTypes, Settled, NEW c \in Callers, PhotoFound(c)
  PROVE  Settled'
<1>1. /\ view[c].pc = "looking" /\ trusted' = trusted /\ UNCHANGED <<negative, overtaken>>
      /\ GoesOn(c, "done")
  BY DEF PhotoFound, lockVars
<1>2. view'[c].pc = "done" /\ \A d \in Callers \ {c} : view'[d] = view[d]
  BY <1>1, GoesOnTyped DEF GoesOn
<1>3. SUFFICES ASSUME trusted, ~overtaken PROVE Settled'
  BY <1>1 DEF Settled
<1>4. \A d \in Callers \ {c} : view[d].pc \notin {"looking", "evicting"}
  BY <1>1, <1>3, Alone DEF AtWork
<1>5. ~negative /\ (view[c].cached = 0 => photos = {})
  BY <1>1, <1>3 DEF Settled
<1>6. \A r, q \in photos' : r.hero /\ q.hero => r = q
  <2>1. CASE view[c].cached = 0 /\ photos' = photos \cup {Row(writes', TRUE, writes', view[c].place)}
    BY <2>1, <1>5
  <2>2. CASE photos' = {IF r.id = view[c].cached
                        THEN [r EXCEPT !.fresh = TRUE, !.at = writes', !.place = view[c].place]
                        ELSE r : r \in photos}
    <3> DEFINE Moved(r) == IF r.id = view[c].cached
                           THEN [r EXCEPT !.fresh = TRUE, !.at = writes', !.place = view[c].place]
                           ELSE r
    <3>1. \A r \in photos : Moved(r).hero = r.hero
      BY DEF HeroTypes, Photo
    <3>2. \A r, q \in photos : r.hero /\ q.hero => r = q
      BY <1>3 DEF Settled
    <3>3. photos' = {Moved(r) : r \in photos}
      BY <2>2
    <3> HIDE DEF Moved
    <3> QED BY <3>1, <3>2, <3>3
  <2>3. CASE UNCHANGED photos
    BY <2>3, <1>3 DEF Settled
  <2> QED BY <2>1, <2>2, <2>3 DEF PhotoFound
<1> QED BY <1>1, <1>2, <1>4, <1>5, <1>6 DEF Settled

LEMMA ScriptsSettled ==
  ASSUME HeroTypes, Settled,
         \/ PhotoGoesStale \/ NegativeExpires \/ GalleryIsRefreshed \/ GalleryIsRemoved
         \/ HeroIsPicked \/ PhotoIsBackfilled \/ CourseMoves
  PROVE  Settled'
<1>0. UNCHANGED view /\ trusted' = trusted
  BY DEF PhotoGoesStale, NegativeExpires, GalleryIsRefreshed, GalleryIsRemoved, HeroIsPicked,
         PhotoIsBackfilled, CourseMoves, lockVars
<1>1. CASE PhotoGoesStale
  <2>1. PICK r \in photos : photos' = (photos \ {r}) \cup {[r EXCEPT !.fresh = FALSE]}
    BY <1>1 DEF PhotoGoesStale
  <2>2. UNCHANGED <<negative, overtaken>>
    BY <1>1 DEF PhotoGoesStale
  <2>3. [r EXCEPT !.fresh = FALSE].hero = r.hero /\ [r EXCEPT !.fresh = FALSE].id = r.id
    BY DEF HeroTypes, Photo
  <2>4. photos = {} => photos' = {}
    BY <2>1
  <2>5. SUFFICES ASSUME trusted, ~overtaken PROVE Settled'
    BY <1>0, <2>2 DEF Settled
  <2> DEFINE old == [r EXCEPT !.fresh = FALSE]
  <2> HIDE DEF old
  <2>6. photos' = (photos \ {r}) \cup {old} /\ old.hero = r.hero /\ old.id = r.id
    BY <2>1, <2>3 DEF old
  <2>7. \A x, y \in photos' : x.hero /\ y.hero => x = y
    BY <2>5, <2>6 DEF Settled
  <2>8. \A c \in Callers : view[c].pc \in {"looking", "evicting"} =>
          \A x \in photos' : x.hero => x.id = view[c].cached
    BY <2>5, <2>6 DEF Settled
  <2>9. negative /\ (\A c \in Callers : view[c].pc # "evicting") => \A x \in photos' : ~x.hero
    BY <2>5, <2>6 DEF Settled
  <2> QED BY <1>0, <2>2, <2>4, <2>5, <2>7, <2>8, <2>9 DEF Settled
<1>2. CASE NegativeExpires
  BY <1>0, <1>2 DEF NegativeExpires, Settled
<1>3. CASE GalleryIsRefreshed
  <2>1. /\ \A r, q \in photos' : r.hero /\ q.hero => r = q
        /\ negative' = FALSE /\ Overtakes
    BY <1>3 DEF GalleryIsRefreshed, Row
  <2> QED BY <1>0, <2>1 DEF Settled, Overtakes, OvertakesOr, HeroTypes
<1>4. CASE GalleryIsRemoved \/ CourseMoves
  BY <1>0, <1>4 DEF GalleryIsRemoved, CourseMoves, Settled, Overtakes, OvertakesOr, HeroTypes
<1>5. CASE HeroIsPicked
  <2>1. PICK seen \in SUBSET photos, best \in photos :
          /\ photos' = (photos \ seen) \cup {[r EXCEPT !.hero = (r = best)] : r \in seen}
          /\ OvertakesOr(negative \/ seen # photos) /\ UNCHANGED negative
    BY <1>5 DEF HeroIsPicked
  <2>2. SUFFICES ASSUME trusted, ~overtaken' PROVE Settled'
    BY <1>0 DEF Settled
  <2>3. /\ ~negative' /\ seen = photos
        /\ \A c \in Callers : view[c].pc \notin {"looking", "evicting"}
    BY <2>1, <2>2 DEF OvertakesOr, HeroTypes
  <2>4. \A r \in photos : [r EXCEPT !.hero = (r = best)].hero <=> r = best
    BY DEF HeroTypes, Photo
  <2> DEFINE Picked(r) == [r EXCEPT !.hero = (r = best)]
  <2>5. \A r, q \in photos' : r.hero /\ q.hero => r = q
    <3>1. photos' = {Picked(r) : r \in photos}
      BY <2>1, <2>3
    <3>2. \A r \in photos : Picked(r).hero <=> r = best
      BY <2>4
    <3> HIDE DEF Picked
    <3> QED BY <3>1, <3>2
  <2> QED BY <1>0, <2>2, <2>3, <2>5 DEF Settled
<1>6. CASE PhotoIsBackfilled
  <2>1. /\ negative' = FALSE /\ OvertakesOr(photos # {})
        /\ \E new : photos' = photos \cup {new}
    BY <1>6 DEF PhotoIsBackfilled
  <2>2. SUFFICES ASSUME trusted, ~overtaken' PROVE Settled'
    BY <1>0 DEF Settled
  <2>3. photos = {} /\ \A c \in Callers : view[c].pc \notin {"looking", "evicting"}
    BY <2>1, <2>2 DEF OvertakesOr, HeroTypes
  <2> QED BY <1>0, <2>1, <2>2, <2>3 DEF Settled
<1> QED BY <1>1, <1>2, <1>3, <1>4, <1>5, <1>6

LEMMA SettledNext ==
  ASSUME LockInv, HeroTypes, Settled, [HeroNext]_allVars
  PROVE  Settled'
<1>0. trusted' => trusted
  BY StepsOfLock, TrustOnlyFalls
<1>1. ASSUME NEW c \in Callers,
             Opens(c) \/ StripeIsTaken(c) \/ TriesLock(c) \/ ProviderIsDown(c) \/ LeavesLock(c)
      PROVE  Settled'
  <2>1. PICK v : view' = [view EXCEPT ![c] = v] /\ v.pc \notin {"looking", "evicting"}
    BY <1>1 DEF Opens, StripeIsTaken, TriesLock, ProviderIsDown, LeavesLock, GoesOn, Ends, Elsewhere,
       HeroTypes, HeroTypeOK, Visitors
  <2>2. view[c].pc # "evicting" /\ UNCHANGED <<photos, negative, overtaken>>
    BY <1>1 DEF Opens, StripeIsTaken, TriesLock, ProviderIsDown, LeavesLock
  <2>3. view'[c] = v /\ \A d \in Callers \ {c} : view'[d] = view[d]
    BY <2>1 DEF HeroTypes, HeroTypeOK
  <2> QED BY <1>0, <2>1, <2>2, <2>3, QuietSettled
<1>2. CASE UNCHANGED allVars
  BY <1>2 DEF allVars, heroVars, lockVars, Settled
<1>3. CASE LockEnvironment /\ UNCHANGED heroVars
  BY <1>0, <1>3 DEF heroVars, Settled
<1> QED BY <1>1, <1>2, <1>3, LooksSettled, NothingFoundSettled, EvictsSettled, FoundSettled,
           ScriptsSettled DEF HeroNext

LEMMA HeroInvariant == HeroSpec => []HeroInv
<1>1. HeroInv /\ [HeroNext]_allVars => HeroInv'
  <2>1. ASSUME HeroInv, [HeroNext]_allVars PROVE LockInv'
    BY <2>1, StepsOfLock, InvNext DEF HeroInv
  <2> QED BY <2>1, TypesNext, SettledNext DEF HeroInv
<1> QED BY <1>1, HeroInitial, PTL DEF HeroSpec, allVars

\* As long as the lock can be relied on and no script interferes, the resolvers of any number
\* of processes leave one hero, and none that a remembered miss has refuted.
THEOREM HeroesAlwaysSettle == HeroSpec => []HeroesSettle
<1>1. HeroInv => HeroesSettle
  <2> SUFFICES ASSUME HeroInv PROVE HeroesSettle
    OBVIOUS
  <2>1. OneStoredHero
    <3> DEFINE H == {r \in photos : r.hero}
    <3> SUFFICES ASSUME trusted, ~overtaken PROVE Cardinality(H) <= 1
      BY DEF OneStoredHero
    <3>1. CASE H = {}
      BY <3>1, FS_EmptySet
    <3>2. CASE H # {}
      <4>1. PICK r \in H : H = {r}
        BY <3>2 DEF HeroInv, Settled
      <4>2. Cardinality(H) = 1
        BY <4>1, FS_Singleton
      <4> QED BY <4>2
    <3> QED BY <3>1, <3>2
  <2>2. MissIsComplete
    BY DEF HeroInv, Settled, MissIsComplete
  <2> QED BY <2>1, <2>2 DEF HeroesSettle
<1> QED BY <1>1, HeroInvariant, PTL
=============================================================================
