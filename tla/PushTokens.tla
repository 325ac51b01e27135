------------------------------ MODULE PushTokens ------------------------------
(***************************************************************************)
(* One device and its push token: the app's registrations and its sign-out *)
(* (AuthProvider.tsx, pushTokens.ts, notification-settings.tsx) against    *)
(* the token's row on the server (push_notifications.py).                  *)
(*                                                                         *)
(* A call lives on two sides.  The client waits for it and gives up after  *)
(* five seconds; the server works on it at READ COMMITTED whether or not   *)
(* the client still waits, or never sees it.                               *)
(***************************************************************************)
EXTENDS FiniteSets, Naturals

CONSTANTS Accounts, Nobody,
          Calls         \* bound: calls under way at once

ASSUME NobodyAssumption == Nobody \notin Accounts

VARIABLES
  owner,     \* push_tokens: whose the device's token is
  account,   \* who is signed in
  leaving,   \* signOutWithPushCleanup; anything but "no" is isSigningOut
  call,      \* the calls under way
  consent,   \* the accounts whose saved preference is notifications: true
  failed     \* history: "put" once a registration was given up, "other" once anything else
             \* failed: an unregistration, or the app was killed

pushVars == <<owner, account, leaving, call, consent, failed>>

Slots == 1..Calls
Free == [op |-> "free", user |-> Nobody, waits |-> FALSE, at |-> "none",
         stored |-> FALSE, gone |-> FALSE, tries |-> 0]
CallRecord ==
  [op : {"free", "put", "delete", "leave"},  \* "leave": the DELETE of a sign-out
   user : Accounts \cup {Nobody},
   waits : BOOLEAN,                   \* the client still waits
   at : {"none", "asked", "sent",
         "absent", "present", "own",  \* the row it read: none, another account's, its account's
         "orphan",                    \* the row it read is deleted
         "conflict", "applied", "refused"},
   stored : BOOLEAN,                  \* history: the token was its account's since it was sent
   gone : BOOLEAN,                    \* history: the token was deleted before its second look
   tries : 0..2]
Made(op, user, at, tries) ==
  [op |-> op, user |-> user, waits |-> TRUE, at |-> at,
   stored |-> FALSE, gone |-> FALSE, tries |-> tries]

PushInit ==
  /\ owner \in Accounts \cup {Nobody} /\ account = owner
  /\ consent \in SUBSET Accounts
  /\ leaving = "no" /\ failed = "no"
  /\ call = [c \in Slots |-> Free]

Unused(c) == call[c] = Free /\ \A d \in 1..c - 1 : call[d] # Free
Pending == {c \in Slots : call[c].op = "put" /\ call[c].waits}
SaysAt(c, at) == call' = [call EXCEPT ![c].at = at]

Fails(c) == failed' = IF call[c].op = "put" /\ failed # "other" THEN "put" ELSE "other"

\* The token's row is u's now; every PUT of u under way has been served by it.
Owns(u, calls) ==
  [d \in Slots |-> IF calls[d].op = "put" /\ calls[d].at # "asked" /\ calls[d].user = u
                    THEN [calls[d] EXCEPT !.stored = TRUE] ELSE calls[d]]

\* The token's row is deleted: a PUT that read it writes to no row, also when there is another
\* one by then; a PUT that lost its INSERT to it may find nothing.
Vanishes(calls) ==
  [d \in Slots |-> CASE calls[d].at \in {"present", "own"} -> [calls[d] EXCEPT !.at = "orphan"]
                      [] calls[d].at = "conflict" -> [calls[d] EXCEPT !.gone = TRUE]
                      [] OTHER -> calls[d]]

-----------------------------------------------------------------------------
(* The app.                                                                *)

MayRegister == account # Nobody /\ leaving = "no"

\* registerPushToken, by the startup check, the onboarding or the settings.
Registers(c) ==
  /\ MayRegister /\ account \in consent /\ Unused(c)
  /\ call' = [call EXCEPT ![c] = Made("put", account, "asked", 1)]
  /\ UNCHANGED <<owner, account, leaving, consent, failed>>

\* Permission, token and headers are there; or one of them is not.
Puts(c) ==
  /\ call[c].at = "asked"
  /\ \/ call' = Owns(owner, [call EXCEPT ![c].at = "sent"])
     \/ call' = [call EXCEPT ![c] = Free]
  /\ UNCHANGED <<owner, account, leaving, consent, failed>>

\* The settings save a preference; switched off, the token is unregistered, whether or not a
\* sign-out has begun.
SwitchesOff(c) ==
  /\ account # Nobody /\ Unused(c)
  /\ consent' = consent \ {account}
  /\ call' = [call EXCEPT ![c] = Made("delete", account, "sent", 1)]
  /\ UNCHANGED <<owner, account, leaving, failed>>

SwitchesOn ==
  /\ account # Nobody /\ consent' = consent \cup {account}
  /\ UNCHANGED <<owner, account, leaving, call, failed>>

\* Any answer, also an error to a registration, ends the wait.
Answered(c) ==
  /\ call[c].waits /\ call[c].at \in {"applied", "refused"}
  /\ IF call[c].at = "refused" THEN Fails(c) ELSE UNCHANGED failed
  /\ call' = [call EXCEPT ![c] = Free]
  /\ leaving' = IF call[c].op = "leave" THEN "goodbye" ELSE leaving
  /\ UNCHANGED <<owner, account, consent>>

\* Deviation: the attempts are counted from zero.
OnceTooOften == 3
UNREGISTER_ATTEMPTS == 2

\* Deviation: only a registration is given up.
PutsExpire(c) == call[c].waits /\ call[c].op = "put"
Expires(c) == call[c].waits

\* withAbortTimeout: a DELETE is tried once more; the one given up may still arrive, or not.
TimesOut(c) ==
  /\ Expires(c) /\ call[c].at # "asked" /\ Fails(c)
  /\ \/ /\ call[c].op # "put" /\ call[c].tries < UNREGISTER_ATTEMPTS
        /\ \E d \in {e \in Slots : e = c \/ Unused(e)} :
             call' = [call EXCEPT ![c].waits = FALSE, ![d] = Made(call[c].op, call[c].user, "sent", call[c].tries + 1)]
        /\ UNCHANGED leaving
     \/ /\ call[c].op = "put" \/ call[c].tries = UNREGISTER_ATTEMPTS
        /\ call' = [call EXCEPT ![c].waits = FALSE]
        /\ leaving' = IF call[c].op = "leave" THEN "goodbye" ELSE leaving
  /\ UNCHANGED <<owner, account, consent>>

\* signOutWithPushCleanup
StartsLeaving ==
  /\ account # Nobody /\ leaving = "no" /\ leaving' = "waiting"
  /\ UNCHANGED <<owner, account, call, consent, failed>>

\* Deviation: the registrations under way are not waited for.
NotAwaited == TRUE
AllSettled == Pending = {}

Unregisters(c) ==
  /\ leaving = "waiting" /\ AllSettled
  /\ \/ /\ Unused(c)
        /\ leaving' = "unregistering"
        /\ call' = [call EXCEPT ![c] = Made("leave", account, "sent", 1)]
        /\ UNCHANGED failed
     \/ leaving' = "goodbye" /\ failed' = "other" /\ UNCHANGED call    \* no token or headers
  /\ UNCHANGED <<owner, account, consent>>

\* Clerk's signOut; it may fail, and then a consenting account may register again.
SignedOut ==
  /\ leaving = "goodbye" /\ leaving' = "no"
  /\ account' \in {Nobody, account}
  /\ UNCHANGED <<owner, call, consent, failed>>

SignsIn(a) ==
  /\ account = Nobody /\ account' = a
  /\ UNCHANGED <<owner, leaving, call, consent, failed>>

\* The app is killed: nobody waits any more, the session is kept.
AppDies ==
  /\ failed' = "other" /\ leaving' = "no"
  /\ call' = [c \in Slots |-> IF call[c].at = "asked" THEN Free ELSE [call[c] EXCEPT !.waits = FALSE]]
  /\ UNCHANGED <<owner, account, consent>>

-----------------------------------------------------------------------------
(* The server.                                                             *)

Found(c) == IF owner = call[c].user THEN "own" ELSE "present"

Reads(c) ==
  /\ call[c].op = "put" /\ call[c].at = "sent"
  /\ SaysAt(c, IF owner = Nobody THEN "absent" ELSE Found(c))
  /\ UNCHANGED <<owner, account, leaving, consent, failed>>

\* Deviation: a lost race is answered as a success.
ConflictIsFine == "applied"
Conflict == "conflict"

\* The INSERT, or, when another request's row is there by now, its IntegrityError.
Inserts(c) ==
  /\ call[c].at = "absent"
  /\ \/ /\ owner = Nobody /\ owner' = call[c].user
        /\ call' = Owns(owner', [call EXCEPT ![c].at = "applied"])
     \/ owner # Nobody /\ SaysAt(c, Conflict) /\ UNCHANGED owner
  /\ UNCHANGED <<account, leaving, consent, failed>>

\* The UPDATE, which leaves the account out when the row it read was its own already; a row
\* that was deleted meanwhile is a StaleDataError.
Reassigns(c) ==
  /\ \/ /\ call[c].at = "present" /\ owner' = call[c].user
        /\ call' = Owns(owner', [call EXCEPT ![c].at = "applied"])
     \/ call[c].at = "own" /\ SaysAt(c, "applied") /\ UNCHANGED owner
     \/ call[c].at = "orphan" /\ SaysAt(c, "refused") /\ UNCHANGED owner
  /\ UNCHANGED <<account, leaving, consent, failed>>

\* The second look after the rollback: a token that is gone again is not inserted, and the
\* answer is a success all the same.
LooksOnceMore(c) ==
  /\ call[c].at = "conflict"
  /\ SaysAt(c, IF owner = Nobody THEN "applied" ELSE Found(c))
  /\ UNCHANGED <<owner, account, leaving, consent, failed>>

Deletes(c) ==
  /\ call[c].op \in {"delete", "leave"} /\ call[c].at = "sent"
  /\ \/ /\ owner = call[c].user /\ owner' = Nobody
        /\ call' = Vanishes([call EXCEPT ![c].at = "applied"])
     \/ owner # call[c].user /\ SaysAt(c, "applied") /\ UNCHANGED owner
  /\ UNCHANGED <<account, leaving, consent, failed>>

\* A call nobody waits for is over, was rolled back, or never arrives: its slot is free.
Forgotten(c) ==
  /\ call[c].op # "free" /\ ~call[c].waits
  /\ call' = [call EXCEPT ![c] = Free]
  /\ UNCHANGED <<owner, account, leaving, consent, failed>>

\* A delivery that read the token a while ago deletes it by its value, whoever has it by now,
\* because Expo says DeviceNotRegistered.
DeliveryPrunes ==
  /\ owner # Nobody /\ owner' = Nobody
  /\ call' = Vanishes(call)
  /\ UNCHANGED <<account, leaving, consent, failed>>

ClientStep(c) == Puts(c) \/ Answered(c) \/ TimesOut(c) \/ Unregisters(c)
ServerStep(c) == Reads(c) \/ Inserts(c) \/ Reassigns(c) \/ LooksOnceMore(c) \/ Deletes(c) \/ Forgotten(c)
PushNext ==
  \/ \E c \in Slots : Registers(c) \/ SwitchesOff(c) \/ ClientStep(c) \/ ServerStep(c)
  \/ SwitchesOn \/ StartsLeaving \/ SignedOut \/ AppDies
  \/ \E a \in Accounts : SignsIn(a)
  \/ DeliveryPrunes

\* The client's timers and the continuations of its promises run; the server owes nothing.
ClientFairness ==
  /\ \A c \in Slots : /\ WF_pushVars(Puts(c)) /\ WF_pushVars(Answered(c) \/ TimesOut(c))
                      /\ WF_pushVars(Forgotten(c))
  /\ WF_pushVars(\E c \in Slots : Unregisters(c)) /\ WF_pushVars(SignedOut)
PushSpec == PushInit /\ [][PushNext]_pushVars /\ ClientFairness

-----------------------------------------------------------------------------
(* Properties.                                                             *)

\* Every variable stays in its type, and a sign-out has one DELETE under way exactly while it
\* unregisters.
PushTypeOK ==
  /\ owner \in Accounts \cup {Nobody} /\ account \in Accounts \cup {Nobody}
  /\ consent \subseteq Accounts /\ failed \in {"no", "put", "other"}
  /\ call \in [Slots -> CallRecord]
  /\ Cardinality({c \in Slots : call[c].op = "leave" /\ call[c].waits})
       = IF leaving = "unregistering" THEN 1 ELSE 0

\* Unless a call was given up, the token never belongs to an account that has signed out here:
\* nobody gets the pushes of whoever used the device before.
NoStrayToken == failed = "no" => owner \in {account, Nobody}

\* A registration that is answered with success has made the token the account's at some point
\* since it was sent, whatever row it read and whoever overtook it (register_push_token); only
\* one that lost its INSERT, and whose winner's row was deleted before its second look, is
\* answered with success and may have stored nothing.
AnsweredMeansStored ==
  \A c \in Slots : call[c].op = "put" /\ call[c].at = "applied" => call[c].stored \/ call[c].gone

\* A sign-out never hangs on the server (pushTokens.ts: it "must not hang or fail").
SignOutEnds == leaving # "no" ~> leaving = "no"

\* "a caller that gave up waiting doesn't leave that request running to complete later and
\* silently undo whatever the caller did next" (pushTokens.ts): given up registrations alone
\* never bring the token of a signed-out account back.
AbortedCallsAreDead == failed # "other" => owner \in {account, Nobody}
=============================================================================
