---------------------------- MODULE CppInvocation ----------------------------
(***************************************************************************)
(* What Tpm2.h of TSS.C++ promises the caller of a command: the modifiers  *)
(* called on the Tpm2 object (_Sessions, _AllowErrors, _ExpectError,       *)
(* _DemandError, _GetCpHash, _Audit) belong to the next command, stay      *)
(* unchanged while it runs, however often it is sent, decide how it ends,  *)
(* and are gone when the TPM's answer has been judged.  CppDispatch        *)
(* implements this specification.                                          *)
(***************************************************************************)
CONSTANTS Errors,    \* the TPM's error codes, a refused authorization included
          NoError    \* TPM_RC::SUCCESS

VARIABLES armed,     \* the modifiers in force; the HMAC sessions, as a set
          phase,     \* "idle" or "running"
          result     \* how the last command ended

vars == <<armed, phase, result>>

Only(sessions) ==
  [AllowErrors |-> FALSE, DemandError |-> FALSE, ExpectedError |-> NoError,
   CpHash |-> FALSE, AuditCommand |-> FALSE, Sessions |-> sessions]
Disarmed == Only({})

Init == armed = Disarmed /\ phase = "idle" /\ result = "none"

Arm == /\ phase = "idle"
       /\ armed' # armed
       /\ UNCHANGED <<phase, result>>

Issue == /\ phase = "idle"
         /\ phase' = "running"
         /\ result' = "none"
         /\ UNCHANGED armed

End(how) == /\ phase = "running"
            /\ phase' = "idle"
            /\ result' = how

(* The verdict on the TPM's response code rc.                              *)
Judged(rc) ==
  LET fails == IF rc = NoError
               THEN armed.DemandError \/ armed.ExpectedError # NoError
               ELSE ~armed.DemandError /\ ~armed.AllowErrors /\ armed.ExpectedError # rc
  IN  IF fails THEN "exception" ELSE IF rc = NoError THEN "ok" ELSE "failed"

Answered == \E rc \in Errors \cup {NoError} :
               End(Judged(rc)) /\ armed' = Disarmed /\ ~armed.CpHash

(* With _GetCpHash the command is not sent.                                *)
HashOnly == armed.CpHash /\ End("cphash") /\ armed' = Disarmed

(* The command is refused before it is sent, or the device fails, or the   *)
(* answer is garbled, or an asynchronous completion is told to try again:  *)
(* the modifiers stay in force, or the sessions alone.                     *)
Broken == /\ End("exception") \/ End("empty")
          /\ armed' \in {armed, Only(armed.Sessions)}

Next == Arm \/ Issue \/ Answered \/ HashOnly \/ Broken

Safety == Init /\ [][Next]_vars

(* Every command ends.                                                     *)
Spec == Safety /\ WF_vars(Answered \/ HashOnly \/ Broken)
=============================================================================
