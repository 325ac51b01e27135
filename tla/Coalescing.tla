------------------------------ MODULE Coalescing ------------------------------
(***************************************************************************)
(* What core/distributed_lock.py promises: callers who want to do the same *)
(* work are let in one at a time, and turned away only when another one is *)
(* at it, for as long as the store behind the lock can be relied on.  Once *)
(* it cannot, anyone may be let in and anyone turned away.                 *)
(***************************************************************************)
CONSTANT Callers
VARIABLES inside, turnedAway, reliable

coalescingVars == <<inside, turnedAway, reliable>>

CoalescingInit == inside = {} /\ turnedAway = {} /\ reliable = TRUE

Outside(c) == c \notin inside \cup turnedAway

\* Whether the store can still be relied on after this step.
MayFail == reliable' = reliable \/ reliable' = FALSE

LetIn(c) ==
  /\ Outside(c) /\ MayFail
  /\ reliable' => inside = {}
  /\ inside' = inside \cup {c}
  /\ UNCHANGED turnedAway

TurnAway(c) ==
  /\ Outside(c)
  /\ reliable => inside # {}
  /\ turnedAway' = turnedAway \cup {c}
  /\ UNCHANGED <<inside, reliable>>

GoAway(c) ==
  /\ ~Outside(c) /\ MayFail
  /\ inside' = inside \ {c} /\ turnedAway' = turnedAway \ {c}

Fails == reliable' = FALSE /\ UNCHANGED <<inside, turnedAway>>

CoalescingNext == (\E c \in Callers : LetIn(c) \/ TurnAway(c) \/ GoAway(c)) \/ Fails
CoalescingSpec == CoalescingInit /\ [][CoalescingNext]_coalescingVars
=============================================================================
