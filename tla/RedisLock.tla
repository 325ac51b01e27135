------------------------------- MODULE RedisLock -------------------------------
(***************************************************************************)
(* The best-effort lock of core/distributed_lock.py for one name.  A       *)
(* caller is a thread of a process; each process has a circuit breaker.    *)
(* The key in Redis may vanish at any moment: it expires, is evicted or is *)
(* lost with a restart.                                                    *)
(***************************************************************************)
EXTENDS Naturals

CONSTANTS Callers, Processes, ProcessOf, \* threads and the process of each
          Threshold                      \* failure_threshold

ASSUME LockAssumption == /\ ProcessOf \in [Callers -> Processes]
                         /\ Threshold \in Nat \ {0}
                         /\ {"none", "orphan"} \cap Callers = {}

VARIABLES
  key,      \* whose token the key holds: a caller's, an orphan's (its caller is gone), none's
  stand,    \* where a caller is: out, holding the key, let in without it, refused
  failures, \* _consecutive_failures, up to the threshold
  open,     \* the processes whose breaker is open
  robbed,   \* history: callers whose key vanished while they held it
  trusted   \* history: the store has answered every call and kept every key in use

lockVars == <<key, stand, failures, open, robbed, trusted>>

Stands == {"out", "holds", "without", "refused"}

LockInit ==
  /\ key = "none"
  /\ stand = [c \in Callers |-> "out"]
  /\ failures = [p \in Processes |-> 0]
  /\ open = {} /\ robbed = {} /\ trusted = TRUE

\* _record_failure: at the threshold the breaker opens.
Failed(p) ==
  /\ failures' = [failures EXCEPT ![p] = IF @ < Threshold THEN @ + 1 ELSE @]
  /\ open' = IF failures[p] + 1 >= Threshold THEN open \cup {p} ELSE open
  /\ trusted' = FALSE

\* Deviation: the key is set whether or not it is there.
SetAlways(c) == stand' = [stand EXCEPT ![c] = "holds"] /\ key' = c
\* SET NX
SetIfAbsent(c) ==
  \/ key = "none" /\ stand' = [stand EXCEPT ![c] = "holds"] /\ key' = c
  \/ key # "none" /\ stand' = [stand EXCEPT ![c] = "refused"] /\ UNCHANGED key

\* try_lock up to its yield.
TryLock(c) ==
  LET p == ProcessOf[c] IN
  /\ stand[c] = "out"
  /\ \/ /\ p \in open                       \* no call is made
        /\ stand' = [stand EXCEPT ![c] = "without"]
        /\ trusted' = FALSE
        /\ UNCHANGED <<key, failures, open>>
     \/ /\ p \notin open
        /\ SetIfAbsent(c)
        /\ failures' = [failures EXCEPT ![p] = 0]
        /\ UNCHANGED <<open, trusted>>
     \/ /\ p \notin open                    \* the call fails, or only its reply is lost
        /\ stand' = [stand EXCEPT ![c] = "without"]
        /\ key' \in {key, IF key = "none" THEN "orphan" ELSE key}
        /\ Failed(p)
  /\ UNCHANGED robbed

\* _RELEASE_LUA: compare and delete.
Deleted(c) == IF key = c THEN "none" ELSE key
Abandoned(c) == IF key = c THEN "orphan" ELSE key

\* try_lock after its yield.
LeaveLock(c) ==
  /\ stand[c] # "out"
  /\ stand' = [stand EXCEPT ![c] = "out"]
  /\ robbed' = robbed \ {c}
  /\ \/ /\ stand[c] # "holds"
        /\ UNCHANGED <<key, failures, open, trusted>>
     \/ /\ stand[c] = "holds"
        /\ key' = Deleted(c)
        /\ UNCHANGED <<failures, open, trusted>>
     \/ /\ stand[c] = "holds"
        /\ key' \in {Deleted(c), Abandoned(c)}
        /\ Failed(ProcessOf[c])

\* The time to live is over, or the store drops the key.
KeyVanishes ==
  /\ key # "none" /\ key' = "none"
  /\ robbed' = robbed \cup ({key} \cap Callers)
  /\ trusted' = (trusted /\ key \notin Callers)
  /\ UNCHANGED <<stand, failures, open>>

CooldownEnds(p) ==
  /\ p \in open /\ open' = open \ {p}
  /\ UNCHANGED <<key, stand, failures, robbed, trusted>>

LockEnvironment == KeyVanishes \/ \E p \in Processes : CooldownEnds(p)
LockNext == (\E c \in Callers : TryLock(c) \/ LeaveLock(c)) \/ LockEnvironment
LockSpec == LockInit /\ [][LockNext]_lockVars

-----------------------------------------------------------------------------
(* Properties.                                                             *)

\* Every variable stays in its type, and the key carries a caller's token only while that
\* caller is inside: a release gives the key back or leaves it to expire as an orphan.
LockTypeOK ==
  /\ key \in Callers \cup {"none", "orphan"}
  /\ stand \in [Callers -> Stands]
  /\ failures \in [Processes -> 0..Threshold]
  /\ key \in Callers => stand[key] = "holds"
  /\ open \subseteq Processes /\ robbed \subseteq Callers /\ trusted \in BOOLEAN

\* A release never takes the key of another caller, not even when its own has expired: as long
\* as a holder's key has not vanished by itself, it is there.
KeyStaysWithHolder == \A c \in Callers : stand[c] = "holds" /\ c \notin robbed => key = c

Promise == INSTANCE Coalescing WITH
  inside <- {c \in Callers : stand[c] \in {"holds", "without"}},
  turnedAway <- {c \in Callers : stand[c] = "refused"},
  reliable <- trusted
\* The lock does what it promises: one caller at a time, and none refused for nothing, until
\* the store fails it.
LockKeepsPromise == Promise!CoalescingSpec
=============================================================================
