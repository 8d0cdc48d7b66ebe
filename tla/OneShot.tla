------------------------------ MODULE OneShot ------------------------------
(***************************************************************************)
(* What the modifiers of a Tpm2 object promise (comments of Tpm2.cs): each *)
(* one applies to the next command of the application, to all of it, and   *)
(* to no other command.  The commands that the library issues on its own   *)
(* in between are not to be seen at all: a call starts, the command goes   *)
(* to the TPM with the sessions that were asked for, and the call returns  *)
(* what the modifiers allow, leaving none of them behind.                  *)
(*                                                                         *)
(* Where the code breaks this, the exception is an action of its own:      *)
(* GivenUp and SkipHalf, in which _GetCpHash and _DoNotDispatchCommand     *)
(* outlive the command they were called for.                               *)
(***************************************************************************)
EXTENDS Integers, Sequences

VARIABLES
  pending,    (* the modifiers in force, and the last response code        *)
  running,    (* whether a command is being executed                       *)
  said, sent, (* what the TPM said of it, the sessions it was sent with    *)
  reply       (* what the call gave back                                   *)

vars == <<pending, running, said, sent, reply>>

Raises(r) == r \notin {"none", "true", "false"}

Init ==
  /\ ~running /\ said = "unsent" /\ sent = <<>> /\ reply = "none"
  /\ pending.sessions = <<>> /\ pending.expected = {} /\ ~pending.tolerate

Ask ==
  /\ ~running /\ ~running'
  /\ pending'.code = pending.code
  /\ said' = "unsent" /\ sent' = <<>> /\ reply' = "none"

Start ==
  /\ ~running /\ running'
  /\ said' = "unsent" /\ sent' = <<>> /\ reply' = "none"
  /\ UNCHANGED pending

(* Open slots may be filled, and slots be added, but no session that the   *)
(* application gave is left out or moved.                                  *)
Completes(asked, given) ==
  /\ Len(given) >= Len(asked)
  /\ \A i \in 1..Len(asked) : asked[i] # "Default" => given[i] = asked[i]

(* Only NV_RATE makes the library send a command again.                    *)
Send ==
  /\ running /\ running' /\ said \in {"unsent", "NvRate"}
  /\ ~pending.cpHash /\ ~pending.record
  /\ Completes(pending.sessions, sent') /\ (said = "NvRate" => sent' = sent)
  /\ said' # "unsent"
  /\ UNCHANGED <<pending, reply>>

ErrorsExpected == pending.expected \notin {{}, {"Success"}}
SuccessFits    == pending.expected = {} \/ "Success" \in pending.expected
ErrorFits      == pending.tolerate \/ said \in pending.expected \/ (ErrorsExpected /\ pending.onWarning)

(* What the call gives back, and the response code the application reads.  *)
Fits(r, code) ==
  CASE said = "lost"     -> Raises(r)
    [] said = "Success"  -> /\ code = "Success"
                            /\ r = IF SuccessFits THEN "true"
                                   ELSE IF pending.tolerate \/ pending.onError THEN "false"
                                   ELSE "Exception"
    [] said = "Garbled"  -> Raises(r) \/ (~SuccessFits /\ r = "false")
    [] OTHER             -> code = said /\ r = IF ErrorFits THEN "false" ELSE said

(* No modifier is left.                                                    *)
Fresh(code) ==
  [pending EXCEPT !.sessions = <<>>, !.expected = {}, !.presence = FALSE, !.cpHash = FALSE,
                  !.record = FALSE, !.tolerate = pending.permanent > 0, !.code = code]

Finish ==
  /\ running /\ ~running' /\ said # "unsent"
  /\ Fits(reply', pending'.code) /\ pending' = Fresh(pending'.code)
  /\ UNCHANGED <<said, sent>>

(* The application asked for the cpHash or for the bytes of the command    *)
(* instead of its execution.                                               *)
Skip ==
  /\ running /\ ~running' /\ said = "unsent"
  /\ pending.cpHash # pending.record
  /\ reply' = "true" /\ pending' = Fresh(pending'.code)
  /\ UNCHANGED <<said, sent>>

(* It asked for both: it gets the cpHash, and the bytes are those of the   *)
(* next command.                                                           *)
SkipHalf ==
  /\ running /\ ~running' /\ said = "unsent"
  /\ pending.cpHash /\ pending.record
  /\ reply' = "true" /\ pending' = [Fresh(pending'.code) EXCEPT !.record = TRUE]
  /\ UNCHANGED <<said, sent>>

(* The command could not be prepared, and the call says so: it raises an   *)
(* exception, or it returns FALSE and the response code is an error.       *)
(* Neither of the two requests is withdrawn.                               *)
GivenUp ==
  /\ running /\ ~running' /\ said = "unsent"
  /\ Raises(reply') \/ (reply' = "false" /\ pending'.code # "Success")
  /\ pending' = [Fresh(pending'.code) EXCEPT !.cpHash = pending.cpHash,
                                            !.record = pending.record]
  /\ UNCHANGED <<said, sent>>

Next == Ask \/ Start \/ Send \/ Finish \/ Skip \/ SkipHalf \/ GivenUp

Spec == Init /\ [][Next]_vars
=============================================================================
