------------------------------ MODULE UnlockOpal ------------------------------
(***************************************************************************)
(* unlock_opal of src/main.rs around the protocol of OpalSession: probe    *)
(* the drive, get the password of its keyslot (from the buffer, the user   *)
(* or a key file), try it, and judge the answer: done, ask again, locked   *)
(* out, or give up.                                                        *)
(***************************************************************************)
EXTENDS OpalSession

ASSUME KeyAssumption == None # "malformed"

Passwords == Keys \cup {"malformed"}  \* a raw key may have the wrong length

VARIABLES
    source,     \* keyslot.source: "Stdin" or "File"
    content,    \* what the key file holds
    at,         \* where unlock_opal stands; "menu" is outside of it
    cached,     \* the variable of that name: Cache::Cached or Cache::Discard
    password,   \* the password about to be tried
    buffer,     \* config.keyslot_buffer[keyslot.name]
    ret,        \* what the last unlock_opal returned
    credit      \* history: passwords got hold of and not yet tried by the drive

loopVars == <<source, content, at, cached, password, buffer, ret, credit>>
allVars  == <<vars, loopVars>>

CreditBound == 2    \* one key waiting in the drive, one in the host's hand
Earned == IF credit < CreditBound THEN credit + 1 ELSE credit

-------------------------------------------------------------------------------

\* OpalDrive::new and the start of unlock_opal: was_locked is the answer of
\* this one discovery.  A password that is in the buffer now pays for one try.
Probe ==
    /\ at = "menu" /\ pc = "idle"
    /\ cached' = "Cached"
    /\ IF locked THEN at' = "password" /\ ret' = "None"
                 ELSE at' = "menu" /\ ret' = "Ok"
    /\ credit' = IF locked /\ buffer # None THEN Earned ELSE credit
    /\ UNCHANGED <<vars, source, content, password, buffer>>

\* The discovery fails: an Err, or the unwrap of find_read_file.
ProbeFails ==
    /\ at = "menu" /\ pc = "idle"
    /\ fault' = TRUE
    /\ \/ ret' = "Err" /\ UNCHANGED pc
       \/ ret' = "None" /\ pc' = "panic"
    /\ UNCHANGED <<eprise, cmd, sess, key, outcome, result, connected, driveVars>>
    /\ UNCHANGED <<denied, source, content, at, cached, password, buffer, credit>>

\* Mutant: the buffer is used whatever cached says.
BufferHitAlways == buffer # None

\* get_password_of_keyslot, from the buffer.
BufferHit == cached = "Cached" /\ buffer # None

UseBuffered ==
    /\ at = "password" /\ BufferHit
    /\ password' = buffer
    /\ at' = "unlock"
    /\ UNCHANGED <<vars, source, content, cached, buffer, ret, credit>>

\* A new password goes into the buffer before anybody knows whether it works.
Obtain(p) ==
    /\ at = "password" /\ ~BufferHit
    /\ password' = p
    /\ buffer' = p
    /\ at' = "unlock"
    /\ credit' = Earned
    /\ UNCHANGED <<vars, source, content, cached, ret>>

AskUser  == source = "Stdin" /\ \E p \in Keys : Obtain(p)
ReadFile == source = "File" /\ Obtain(content)

\* The key file is not found or cannot be read: `?`.
ReadFileFails ==
    /\ at = "password" /\ ~BufferHit /\ source = "File"
    /\ at' = "menu" /\ ret' = "Err"
    /\ UNCHANGED <<vars, source, content, cached, password, buffer, credit>>

TryUnlock ==
    /\ at = "unlock"
    /\ Unlock(password)
    /\ at' = "judge"
    /\ UNCHANGED <<source, content, cached, password, buffer, ret, credit>>

\* Mutants: every other error counts as done, or asks for another password, or a
\* lock-out does.
VerdictLenient == CASE result = "NotAuthorized" -> "again"
                    [] result = "LockedOut" -> "lockedOut"
                    [] OTHER -> "done"
VerdictStubborn == CASE result = "Ok" -> "done"
                     [] result = "LockedOut" -> "lockedOut"
                     [] OTHER -> "again"
VerdictUndeterred == CASE result = "Ok" -> "done"
                       [] result \in {"NotAuthorized", "LockedOut"} -> "again"
                       [] OTHER -> "giveUp"

\* The match on the result of unlock().
Verdict == CASE result = "Ok" -> "done"
             [] result = "NotAuthorized" -> "again"
             [] result = "LockedOut" -> "lockedOut"
             [] OTHER -> "giveUp"

Judge ==
    /\ at = "judge" /\ pc = "idle"
    /\ CASE Verdict = "done" -> at' = "menu" /\ ret' = "Ok" /\ UNCHANGED cached
         [] Verdict = "again" -> at' = "password" /\ cached' = "Discard" /\ UNCHANGED ret
         [] Verdict = "lockedOut" -> at' = "lockedOut" /\ UNCHANGED <<ret, cached>>
         [] Verdict = "giveUp" -> at' = "menu" /\ ret' = "Err" /\ UNCHANGED cached
    /\ UNCHANGED <<vars, source, content, password, buffer, credit>>

-------------------------------------------------------------------------------
(* The environment. *)

\* Another drive or a LUKS partition with the same keyslot asks for a password
\* first; right there need not be right here.
UsedElsewhere ==
    /\ at = "menu" /\ pc = "idle"
    /\ buffer' \in IF source = "Stdin" THEN Keys ELSE {content}
    /\ UNCHANGED <<vars, source, content, at, cached, password, ret, credit>>

\* Beside the steps of the protocol the loop waits.  A try of a key uses up a
\* password.
Waits ==
    /\ credit' = IF tries' > tries \/ (open = None /\ open' # None)
                 THEN (IF credit > 0 THEN credit - 1 ELSE 0) ELSE credit
    /\ UNCHANGED <<source, content, at, cached, password, buffer, ret>>

Protocol == (HostStep \/ FaultStep \/ TPerStep \/ TPerAbort) /\ Waits

\* A reset, at the end of the lock-out's ten seconds, after an error that
\* reached main, by Escape at a prompt, or by the power button.
Reset ==
    /\ PowerCycle
    /\ at' = "menu" /\ cached' = "Cached" /\ password' = "wrong"
    /\ buffer' = None /\ ret' = "None" /\ credit' = 0
    /\ UNCHANGED <<source, content>>

ColdReset == at = "lockedOut" /\ Reset

-------------------------------------------------------------------------------

LoopInit ==
    /\ Init
    /\ source \in {"Stdin", "File"} /\ content \in Passwords
    /\ at = "menu" /\ cached = "Cached" /\ password = "wrong"
    /\ buffer = None /\ ret = "None" /\ credit = 0

LoopStep == UseBuffered \/ AskUser \/ ReadFile \/ TryUnlock \/ Judge \/ ColdReset

LoopNext == Probe \/ ProbeFails \/ LoopStep \/ ReadFileFails
                \/ UsedElsewhere \/ Protocol \/ Reset

LoopSpec == LoopInit /\ [][LoopNext]_allVars

\* The program runs on, the drive answers, the user types a password when asked
\* (right or wrong), the firmware carries out a reset.
LoopFairness ==
    /\ WF_allVars(LoopStep)
    /\ WF_allVars(HostStep /\ Waits)
    /\ WF_allVars(TPerStep /\ Waits)

FairLoopSpec == LoopSpec /\ LoopFairness

-------------------------------------------------------------------------------
(* Correctness. *)

LoopTypeOK ==
    /\ TypeOK
    /\ source \in {"Stdin", "File"} /\ content \in Passwords
    /\ at \in {"menu", "password", "unlock", "judge", "lockedOut"}
    /\ cached \in {"Cached", "Discard"}
    /\ password \in Passwords /\ buffer \in Passwords \cup {None}
    /\ ret \in {"None", "Ok", "Err"}
    /\ credit \in 0..CreditBound

\* unlock_opal returns Ok only for a drive that can be read: through its own
\* unlock(), or because discovery found it open already.
OkMeansUnlocked == ret = "Ok" => ~locked

\* If moreover no firmware call failed and the drive refused nothing, the MBR
\* is hidden, the controller connected and no session left open.
OkMeansComplete ==
    ret = "Ok" /\ ~fault /\ ~denied => mbrDone /\ connected /\ open = None

\* The drive never counts a try that the user or the key file did not pay for
\* with a password of its own, or the buffer with the one it held when
\* unlock_opal began: a rejected password is not presented again by the retry
\* loop (Cache::Discard), and no StartSession is repeated.
EveryTryIsPaid == [][tries' > tries => credit > 0]_allVars

\* After a lock-out the drive is left alone until the machine was reset.
LockoutIsFinal ==
    [][result = "LockedOut" /\ result' # "LockedOut" => Reset]_allVars

\* unlock_opal ends, also with a user or a key file that is always wrong: the
\* retry loop has no bound but the drive's own.
UnlockOpalEnds == at = "password" ~> at = "menu" \/ pc = "panic"
===============================================================================
