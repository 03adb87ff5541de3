------------------------------ MODULE OpalUnlock ------------------------------
(***************************************************************************)
(* What OpalDrive::unlock promises, without sessions, packets or retries.  *)
(*                                                                         *)
(* A call presents its key to the drive at most once.  Only a key the      *)
(* drive accepted opens the range, the shadow MBR is hidden only on an     *)
(* open range, and a call that returns Ok has done both.  Whatever the     *)
(* call set going may still take effect after it returned an error.        *)
(***************************************************************************)
EXTENDS Naturals

CONSTANTS TryLimit, Errors, MaxAttempts

VARIABLES calling,    \* a call is running
          result,     \* what the last one returned
          attempts,   \* keys handed over and not yet tried by the drive
          trusted,    \* the drive accepted a key and has not ended that session
          locked, mbrDone, tries

vars == <<calling, result, attempts, trusted, locked, mbrDone, tries>>

Init ==
    /\ calling = FALSE /\ result = "None" /\ attempts = 0 /\ trusted = FALSE
    /\ locked = TRUE /\ mbrDone = FALSE /\ tries = 0

\* A call starts, with one attempt in hand.
Call ==
    /\ ~calling /\ attempts < MaxAttempts
    /\ calling' = TRUE /\ result' = "None"
    /\ attempts' = attempts + 1
    /\ UNCHANGED <<trusted, locked, mbrDone, tries>>

\* A key that cannot be one is refused at once.
Refuse ==
    /\ ~calling
    /\ result' = "RawKeyInvalidLength"
    /\ UNCHANGED <<calling, attempts, trusted, locked, mbrDone, tries>>

\* The drive tries a key: it is wrong, it is right, or it is not looked at.
Reject ==
    /\ attempts > 0 /\ ~trusted /\ tries < TryLimit
    /\ attempts' = attempts - 1 /\ tries' = tries + 1
    /\ UNCHANGED <<calling, result, trusted, locked, mbrDone>>

Accept ==
    /\ attempts > 0 /\ ~trusted /\ tries < TryLimit
    /\ attempts' = attempts - 1 /\ trusted' = TRUE /\ tries' = 0
    /\ UNCHANGED <<calling, result, locked, mbrDone>>

Forget ==
    /\ attempts > 0
    /\ attempts' = attempts - 1
    /\ UNCHANGED <<calling, result, trusted, locked, mbrDone, tries>>

OpenRange ==
    /\ trusted
    /\ locked' = FALSE
    /\ UNCHANGED <<calling, result, attempts, trusted, mbrDone, tries>>

HideMbr ==
    /\ trusted /\ ~locked
    /\ mbrDone' = TRUE
    /\ UNCHANGED <<calling, result, attempts, trusted, locked, tries>>

Distrust ==
    /\ trusted' = FALSE
    /\ UNCHANGED <<calling, result, attempts, locked, mbrDone, tries>>

\* Return: Ok only for an open drive, LockedOut only for a drive out of tries.
Return ==
    /\ calling /\ calling' = FALSE
    /\ result' \in {"Ok"} \cup Errors
    /\ result' = "Ok" => ~locked /\ mbrDone
    /\ result' = "LockedOut" => tries = TryLimit
    /\ UNCHANGED <<attempts, trusted, locked, mbrDone, tries>>

PowerCycle ==
    /\ calling' = FALSE /\ result' = "None" /\ attempts' = 0 /\ trusted' = FALSE
    /\ locked' = TRUE /\ mbrDone' = FALSE /\ tries' \in {0, tries}

Next == Call \/ Refuse \/ Reject \/ Accept \/ Forget \/ OpenRange \/ HideMbr
            \/ Distrust \/ Return \/ PowerCycle

Spec == Init /\ [][Next]_vars
===============================================================================
