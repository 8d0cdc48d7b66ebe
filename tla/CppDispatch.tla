----------------------------- MODULE CppDispatch -----------------------------
(***************************************************************************)
(* The command dispatcher of TSS.C++, Tpm2::DispatchOut and DispatchIn     *)
(* (src/TSS.CPP/Src/Tpm2.cpp), with the TPM it talks to.  The caller arms  *)
(* modifiers, then calls a command synchronously (Dispatch: out and in,    *)
(* repeated while the TPM answers RETRY) or asynchronously (Async.X, later *)
(* Async.XComplete).  The TPM checks the authorization of every command    *)
(* against its own authorization values and nonces, executes it and rolls  *)
(* them; the library must follow.  One hierarchy handle (lockout) and one  *)
(* NV index stand for the authorized entities.                             *)
(***************************************************************************)
EXTENDS Naturals, Sequences, Functions

CONSTANTS
  HmacSessions,    \* HMAC sessions the caller has started
  PW,              \* AUTH_SESSION::PWAP()
  Crypt,           \* [HmacSessions -> SUBSET {"decrypt", "encrypt"}]
  SessionLists,    \* the lists the caller passes to _Sessions
  Offered,         \* the modifiers the caller uses
  Commands,        \* the commands the caller issues
  AuthValues, NoAuth,
  Errors, NoError, \* the TPM's own error codes; TPM_RC::SUCCESS
  NoSession,
  DeviceFails,     \* may the device throw, or deliver a garbled answer?
  MaxSessionNum,   \* sessions in one command (the TPM's limit is 3)
  MaxRetries,      \* RETRY answers to one command
  MaxAudits        \* audited commands in a behaviour

AllCommands == {"Plain", "UseHierarchy", "HierarchyChangeAuth", "Clear",
                "NvReadPublic", "NvRead", "NvChangeAuth"}

ASSUME CppAssumption ==
  /\ Crypt \in [HmacSessions -> SUBSET {"decrypt", "encrypt"}]
  /\ SessionLists \subseteq Seq(HmacSessions \cup {PW}) \ {<<>>}
  /\ PW \notin HmacSessions /\ NoSession \notin HmacSessions \cup {PW}
  /\ "auth" \notin HmacSessions /\ "audit" \notin HmacSessions
  /\ Commands \subseteq AllCommands
  /\ NoAuth \in AuthValues
  /\ NoError \notin Errors \cup {"AUTH_FAIL", "RETRY", "none"} /\ "none" \notin Errors
  /\ "RETRY" \notin Errors /\ "AUTH_FAIL" \notin Errors
  /\ DeviceFails \in BOOLEAN
  /\ MaxSessionNum \in Nat /\ MaxRetries \in Nat /\ MaxAudits \in Nat

VARIABLES
  tpm2,      \* the members of the Tpm2 object
  call,      \* the command being dispatched and its request structure
  nonces,    \* the sessions whose current nonceTPM the library holds
  chip,      \* the TPM: authorization values, audit count
  wire,      \* the answer the device holds
  lost       \* history: what the library cannot know, because the answer of an
             \* executed command was lost or ended in an exception

vars == <<tpm2, call, nonces, chip, wire, lost>>

NoAnswer == [rc |-> "none", auth |-> NoAuth, encrypted |-> FALSE]
Idle == [at |-> "idle", async |-> FALSE, cmd |-> "Plain", auth |-> NoAuth,
         newAuth |-> NoAuth, retries |-> 0, result |-> "none"]

(* A command has handles, all of them of one entity here, and the first of *)
(* them are authorized: NV_ReadPublic has a handle that is not, NV_Read    *)
(* has two of which one is.                                                *)
Entity(cmd) == IF cmd \in {"NvReadPublic", "NvRead", "NvChangeAuth"} THEN "nv" ELSE "hierarchy"
NumHandles(cmd) == CASE cmd = "Plain" -> 0 [] cmd = "NvRead" -> 2 [] OTHER -> 1
NumAuthHandles(cmd) == IF cmd \in {"Plain", "NvReadPublic"} THEN 0 ELSE 1
Explicit(list) == Range(list) \ {PW}

Members ==
  [AllowErrors : BOOLEAN, DemandError : BOOLEAN, CpHash : BOOLEAN, AuditCommand : BOOLEAN,
   Auditing : BOOLEAN, Pending : BOOLEAN, ExpectedError : Errors \cup {NoError},
   Sessions : Seq(HmacSessions \cup {PW}), EncSession : HmacSessions \cup {NoSession},
   DecSession : HmacSessions \cup {NoSession}, admin : AuthValues, audit : 0 .. MaxAudits]

Calls ==
  [at : {"idle", "out", "started", "in"}, async : BOOLEAN, cmd : AllCommands,
   auth : AuthValues, newAuth : AuthValues, retries : 0 .. MaxRetries,
   result : {"none", "refused", "ok", "failed", "exception", "empty", "cphash"}]
ResponseCodes == Errors \cup {NoError, "AUTH_FAIL", "RETRY"}
Responses == [rc : ResponseCodes \cup {"none"}, auth : AuthValues, encrypted : BOOLEAN]

TypeOK ==
  /\ tpm2 \in Members
  /\ call \in Calls
  /\ nonces \subseteq HmacSessions /\ lost \subseteq HmacSessions \cup {"auth", "audit"}
  /\ chip \in [auth : [{"hierarchy", "nv"} -> AuthValues], audit : 0 .. MaxAudits]
  /\ wire \in Responses
  /\ tpm2.Pending <=> call.at \in {"started", "in"}
  /\ wire.rc = "none" <=> call.at \in {"idle", "out"}

Init ==
  \E a \in AuthValues :
    /\ tpm2 = [AllowErrors |-> FALSE, DemandError |-> FALSE, CpHash |-> FALSE,
               AuditCommand |-> FALSE, Auditing |-> FALSE, Pending |-> FALSE,
               ExpectedError |-> NoError, Sessions |-> <<>>,
               EncSession |-> NoSession, DecSession |-> NoSession,
               admin |-> a, audit |-> 0]
    /\ call = Idle
    /\ nonces = HmacSessions
    /\ chip = [auth |-> [e \in {"hierarchy", "nv"} |-> a], audit |-> 0]
    /\ wire = NoAnswer
    /\ lost = {}

-----------------------------------------------------------------------------
(* The caller's modifiers, called while no command is under way.           *)
Offers(m) == m \in Offered /\ call.at = "idle"
Untouched == UNCHANGED <<call, nonces, chip, wire, lost>>

(* _Sessions appends, also to what an exception has left in the list.      *)
SetSessions == \E list \in SessionLists :
  /\ Offers("Sessions")
  /\ Len(tpm2.Sessions) + Len(list) <= MaxSessionNum
  /\ tpm2' = [tpm2 EXCEPT !.Sessions = @ \o list]
  /\ Untouched

(* The form that takes a vector replaces the list.                         *)
ReplaceSessions == \E list \in SessionLists :
  /\ Offers("Sessions")
  /\ Len(list) <= MaxSessionNum
  /\ tpm2' = [tpm2 EXCEPT !.Sessions = list]
  /\ Untouched

AllowErrors == Offers("AllowErrors") /\ tpm2' = [tpm2 EXCEPT !.AllowErrors = TRUE] /\ Untouched
DemandError == Offers("DemandError") /\ tpm2' = [tpm2 EXCEPT !.DemandError = TRUE] /\ Untouched
GetCpHash == Offers("CpHash") /\ tpm2' = [tpm2 EXCEPT !.CpHash = TRUE] /\ Untouched
ExpectError == \E e \in Errors :
  Offers("ExpectError") /\ tpm2' = [tpm2 EXCEPT !.ExpectedError = e] /\ Untouched

Audit ==
  /\ Offers("Audit") /\ chip.audit < MaxAudits
  /\ tpm2' = [tpm2 EXCEPT !.AuditCommand = TRUE]
  /\ Untouched

(* _StartAudit begins a new digest; the caller compares it with one the    *)
(* TPM begins at the same time.                                            *)
StartAudit ==
  /\ Offers("Audit") /\ ~tpm2.Auditing
  /\ tpm2' = [tpm2 EXCEPT !.Auditing = TRUE, !.audit = chip.audit]
  /\ lost' = lost \ {"audit"}
  /\ UNCHANGED <<call, nonces, chip, wire>>

EndAudit ==
  /\ Offers("Audit") /\ tpm2.Auditing
  /\ tpm2' = [tpm2 EXCEPT !.Auditing = FALSE, !.AuditCommand = FALSE]
  /\ Untouched

Modifiers == \/ SetSessions \/ ReplaceSessions \/ AllowErrors \/ DemandError
             \/ ExpectError \/ GetCpHash \/ Audit \/ StartAudit \/ EndAudit

(* A command is called.  The caller's NV handle carries the index's        *)
(* current authorization value; a hierarchy handle carries none.  A        *)
(* password session that authorizes no handle is left out: the TPM refuses *)
(* it, and its value may be read past the end of InHandles.                *)
Issue == \E cmd \in Commands, async \in BOOLEAN, a \in AuthValues :
  /\ call.at = "idle"
  /\ \A i \in DOMAIN tpm2.Sessions : tpm2.Sessions[i] = PW => i <= NumAuthHandles(cmd)
  /\ tpm2.AuditCommand => chip.audit < MaxAudits
  /\ cmd \notin {"HierarchyChangeAuth", "NvChangeAuth"} => a = NoAuth
  /\ call' = [Idle EXCEPT !.at = "out", !.async = async, !.cmd = cmd, !.newAuth = a,
                          !.auth = IF Entity(cmd) = "nv" THEN chip.auth["nv"] ELSE NoAuth]
  /\ UNCHANGED <<tpm2, nonces, chip, wire, lost>>

-----------------------------------------------------------------------------
(* DispatchOut.                                                            *)
ClearInvocationState(t) ==
  [t EXCEPT !.AllowErrors = FALSE, !.DemandError = FALSE, !.ExpectedError = NoError,
            !.CpHash = FALSE, !.AuditCommand = FALSE, !.Pending = FALSE]

Ends(how) == call' = [Idle EXCEPT !.result = how]

(* The sessions the command goes out with: the missing one is a password   *)
(* session.  A repeated command finds the list already filled in.          *)
Filled == IF Len(tpm2.Sessions) < NumAuthHandles(call.cmd) THEN <<PW>> ELSE tpm2.Sessions

(* _SetRhAuthValue: the handle of a hierarchy gets the value the library   *)
(* tracks; another handle has the value the request structure carries.     *)
(* mutant of HandleAuth: the request's value, once it has one              *)
HandleAuthOfRequest ==
  IF Entity(call.cmd) = "hierarchy" /\ call.auth = NoAuth THEN tpm2.admin ELSE call.auth
HandleAuth == IF Entity(call.cmd) = "hierarchy" THEN tpm2.admin ELSE call.auth

(* The last session of the list that has the attribute.                    *)
SessionWith(list, attribute) ==
  LET has(i) == list[i] # PW /\ attribute \in Crypt[list[i]]
      last == {i \in DOMAIN list : has(i) /\ \A j \in DOMAIN list : has(j) => j <= i}
  IN  IF last = {} THEN NoSession ELSE list[CHOOSE i \in last : TRUE]

(* PrepareParmEncryptionSessions and the request half of DoParmEncryption, *)
(* which forgets both sessions once it has encrypted.                      *)
PrepareSessions(t, list) ==
  LET dec == SessionWith(list, "decrypt")
      enc == SessionWith(list, "encrypt")
  IN  IF list = <<>> THEN t
      ELSE IF dec # NoSession
           THEN [t EXCEPT !.Sessions = list, !.DecSession = NoSession, !.EncSession = NoSession]
           ELSE [t EXCEPT !.Sessions = list, !.DecSession = NoSession, !.EncSession = enc]

(* The nonces of a decrypting or encrypting session that is not the first  *)
(* go into every session's HMAC, where the TPM expects them in the first.  *)
ExtraNonces(list) ==
  \E i \in DOMAIN list \ {1}, attribute \in {"decrypt", "encrypt"} :
     list[i] = SessionWith(list, attribute) /\ list[i] # list[1]
HmacsMatch(list) == ExtraNonces(list) => \A i \in 2 .. Len(list) : list[i] = PW

(* What the TPM checks of the command it receives.                         *)
Authorized(list) ==
  /\ NumAuthHandles(call.cmd) = 1 => HandleAuth = chip.auth[Entity(call.cmd)]
  /\ \A i \in DOMAIN list : list[i] # PW => list[i] \in nonces
  /\ HmacsMatch(list)

(* The TPM executes the command: authorization values and nonces change.   *)
Execute(list) ==
  /\ chip' = [auth |-> CASE call.cmd \in {"HierarchyChangeAuth", "NvChangeAuth"} ->
                              [chip.auth EXCEPT ![Entity(call.cmd)] = call.newAuth]
                         [] call.cmd = "Clear" -> [chip.auth EXCEPT !["hierarchy"] = NoAuth]
                         [] OTHER -> chip.auth,
              audit |-> IF tpm2.AuditCommand THEN chip.audit + 1 ELSE chip.audit]
  /\ nonces' = nonces \ Range(list)
  /\ wire' = [rc |-> NoError,
              auth |-> IF NumAuthHandles(call.cmd) = 1 THEN chip'.auth[Entity(call.cmd)] ELSE NoAuth,
              encrypted |-> SessionWith(list, "encrypt") # NoSession]

Answer(rc) == wire' = [NoAnswer EXCEPT !.rc = rc] /\ UNCHANGED <<chip, nonces>>

(* UpdateRequestHandles: the request's own copy of the handle.             *)
UpdateRequestHandles ==
  CASE call.cmd \in {"HierarchyChangeAuth", "NvChangeAuth"} -> call.newAuth
    [] call.cmd = "Clear" -> NoAuth
    [] OTHER -> call.auth

AuditReady == tpm2.AuditCommand => tpm2.Auditing

OutSend == \E rc \in ResponseCodes :
  /\ call.at = "out" /\ ~tpm2.CpHash /\ AuditReady
  /\ rc = "AUTH_FAIL" <=> ~Authorized(Filled)
  /\ rc = NoError =>    \* a session counts once
       \A i, j \in DOMAIN Filled : Filled[i] = Filled[j] => i = j \/ Filled[i] = PW
  /\ rc = "RETRY" => call.retries < MaxRetries
  /\ IF rc = NoError THEN Execute(Filled) ELSE Answer(rc)
  /\ tpm2' = [PrepareSessions(tpm2, Filled) EXCEPT !.Pending = TRUE]
  /\ call' = [call EXCEPT !.at = IF call.async THEN "started" ELSE "in",
                          !.auth = UpdateRequestHandles]
  /\ UNCHANGED lost

(* _GetCpHash: the command is built and hashed, not sent.                  *)
OutCpHash ==
  /\ call.at = "out" /\ tpm2.CpHash /\ AuditReady
  /\ tpm2' = [ClearInvocationState(PrepareSessions(tpm2, Filled)) EXCEPT !.Sessions = <<>>]
  /\ Ends("cphash")
  /\ UNCHANGED <<nonces, chip, wire, lost>>

(* "Command audit is not enabled": modifiers and sessions stay.            *)
OutNoAudit ==
  /\ call.at = "out" /\ tpm2.AuditCommand /\ ~tpm2.Auditing
  /\ Ends("exception")
  /\ UNCHANGED <<tpm2, nonces, chip, wire, lost>>

(* There is no device, or its DispatchCommand throws.                      *)
OutDeviceThrows ==
  /\ DeviceFails /\ call.at = "out" /\ ~tpm2.CpHash /\ AuditReady
  /\ tpm2' = PrepareSessions(tpm2, Filled)
  /\ Ends("exception")
  /\ UNCHANGED <<nonces, chip, wire, lost>>

-----------------------------------------------------------------------------
(* While a command is started: another one, or the completion of another   *)
(* one, throws and changes nothing; the completion goes on to DispatchIn.  *)
RefusedWhilePending ==
  /\ call.at = "started" /\ call.result # "refused"
  /\ call' = [call EXCEPT !.result = "refused"]
  /\ UNCHANGED <<tpm2, nonces, chip, wire, lost>>

Complete ==
  /\ call.at = "started"
  /\ call' = [call EXCEPT !.at = "in", !.result = "none"]
  /\ UNCHANGED <<tpm2, nonces, chip, wire, lost>>

(* DispatchIn.  What an executed command leaves unknown when its answer is *)
(* not processed.                                                          *)
Unheard(withAuth) ==
  IF wire.rc # NoError THEN {}
  ELSE Explicit(tpm2.Sessions)
       \cup (IF tpm2.AuditCommand THEN {"audit"} ELSE {})
       \cup (IF withAuth /\ call.cmd \in {"HierarchyChangeAuth", "Clear"} THEN {"auth"} ELSE {})

(* GetResponse throws, or the answer is too short or of the wrong size:    *)
(* only the pending command has been forgotten.                            *)
InDeviceThrows ==
  /\ DeviceFails /\ call.at = "in"
  /\ tpm2' = [tpm2 EXCEPT !.Pending = FALSE]
  /\ lost' = lost \cup Unheard(TRUE)
  /\ wire' = NoAnswer
  /\ Ends("exception")
  /\ UNCHANGED <<nonces, chip>>

(* mutants of InRetry: the pending command is kept, or the modifiers are   *)
(* cleared                                                                 *)
InRetryPending ==
  /\ call.at = "in" /\ wire.rc = "RETRY"
  /\ IF call.async THEN Ends("empty")
                   ELSE call' = [call EXCEPT !.at = "out", !.retries = @ + 1]
  /\ wire' = NoAnswer
  /\ UNCHANGED <<tpm2, nonces, chip, lost>>
InRetryCleared ==
  /\ call.at = "in" /\ wire.rc = "RETRY"
  /\ tpm2' = ClearInvocationState(tpm2)
  /\ IF call.async THEN Ends("empty")
                   ELSE call' = [call EXCEPT !.at = "out", !.retries = @ + 1]
  /\ wire' = NoAnswer
  /\ UNCHANGED <<nonces, chip, lost>>

(* RETRY: Dispatch sleeps and sends again; the generated XComplete ignores *)
(* the result and returns the empty response.                              *)
InRetry ==
  /\ call.at = "in" /\ wire.rc = "RETRY"
  /\ tpm2' = [tpm2 EXCEPT !.Pending = FALSE]
  /\ IF call.async THEN Ends("empty")
                   ELSE call' = [call EXCEPT !.at = "out", !.retries = @ + 1]
  /\ wire' = NoAnswer
  /\ UNCHANGED <<nonces, chip, lost>>

(* An error, allowed, expected, demanded or none of these.                 *)
InError ==
  /\ call.at = "in" /\ wire.rc \in Errors \cup {"AUTH_FAIL"}
  /\ tpm2' = [ClearInvocationState(tpm2) EXCEPT !.Sessions = <<>>]
  /\ Ends(IF tpm2.DemandError \/ tpm2.AllowErrors \/ tpm2.ExpectedError = wire.rc
          THEN "failed" ELSE "exception")
  /\ wire' = NoAnswer
  /\ UNCHANGED <<nonces, chip, lost>>

(* Success where an error was demanded or expected.                        *)
Unexpected == tpm2.DemandError \/ tpm2.ExpectedError # NoError

(* mutant of CompleteUpdateRequestHandles: only what succeeds as expected  *)
CompleteIfExpected ==
  CASE Unexpected -> tpm2.admin
    [] call.cmd = "HierarchyChangeAuth" -> call.newAuth
    [] call.cmd = "Clear" -> NoAuth
    [] OTHER -> tpm2.admin

(* CompleteUpdateRequestHandles: the library's value for the hierarchy.    *)
CompleteUpdateRequestHandles ==
  CASE call.cmd = "HierarchyChangeAuth" -> call.newAuth
    [] call.cmd = "Clear" -> NoAuth
    [] OTHER -> tpm2.admin

(* The library's own value is updated, the response sessions are not       *)
(* processed.                                                              *)
InUnexpectedSuccess ==
  /\ call.at = "in" /\ wire.rc = NoError /\ Unexpected
  /\ tpm2' = [ClearInvocationState(tpm2) EXCEPT !.Sessions = <<>>,
                                                !.admin = CompleteUpdateRequestHandles]
  /\ lost' = lost \cup Unheard(FALSE)
  /\ wire' = NoAnswer
  /\ Ends("exception")
  /\ UNCHANGED <<nonces, chip>>

(* ProcessRespSessions keys the HMAC of the i-th session's answer with the *)
(* value of the i-th handle, authorized or not, after the command;         *)
(* InHandles[0] is not touched by Clear.  The TPM uses the value of the    *)
(* handle that the session authorizes, if there is one.                    *)
ResponseAuth(i) ==
  CASE i > NumHandles(call.cmd) -> NoAuth
    [] call.cmd \in {"HierarchyChangeAuth", "NvChangeAuth"} /\ i = 1 -> call.newAuth
    [] OTHER -> HandleAuth
HmacVerifies(i) ==
  tpm2.Sessions[i] # PW =>
    ResponseAuth(i) = IF i <= NumAuthHandles(call.cmd) THEN wire.auth ELSE NoAuth
AllVerify == \A i \in DOMAIN tpm2.Sessions : HmacVerifies(i)

Succeeds == call.at = "in" /\ wire.rc = NoError /\ ~Unexpected

(* "Invalid TPM response HMAC": it was computed with another value, or the *)
(* answer is garbled, which its session tag may tell already.  The         *)
(* sessions stay in the list; those up to the failing one have their new   *)
(* nonces.                                                                 *)
InBadHmac == \E n \in 0 .. Len(tpm2.Sessions) :
  /\ Succeeds
  /\ \A i \in 1 .. n - 1 : HmacVerifies(i)
  /\ \/ n > 0 /\ ~HmacVerifies(n)
     \/ DeviceFails
  /\ LET heard == Explicit(SubSeq(tpm2.Sessions, 1, n))
     IN  /\ nonces' = nonces \cup heard
         /\ lost' = lost \cup (Unheard(FALSE) \ heard)
  /\ tpm2' = [ClearInvocationState(tpm2) EXCEPT !.admin = CompleteUpdateRequestHandles]
  /\ wire' = NoAnswer
  /\ Ends("exception")
  /\ UNCHANGED chip

(* The answer's sessions, audit digest and encryption are processed.       *)
Processed(t) ==
  [ClearInvocationState(t) EXCEPT !.admin = CompleteUpdateRequestHandles,
                                  !.audit = IF t.AuditCommand THEN @ + 1 ELSE @,
                                  !.EncSession = NoSession, !.DecSession = NoSession]
Decrypts == (tpm2.EncSession # NoSession) <=> wire.encrypted

(* "Bad response parameters area", garbled or wrongly decrypted: the       *)
(* sessions stay in the list.                                              *)
InBadParameters ==
  /\ Succeeds /\ AllVerify /\ (DeviceFails \/ ~Decrypts)
  /\ tpm2' = Processed(tpm2)
  /\ nonces' = nonces \cup Explicit(tpm2.Sessions)
  /\ wire' = NoAnswer
  /\ Ends("exception")
  /\ UNCHANGED <<chip, lost>>

InSuccess ==
  /\ Succeeds /\ AllVerify
  /\ tpm2' = [Processed(tpm2) EXCEPT !.Sessions = <<>>]
  /\ nonces' = nonces \cup Explicit(tpm2.Sessions)
  /\ wire' = NoAnswer
  /\ Ends("ok")
  /\ UNCHANGED <<chip, lost>>

-----------------------------------------------------------------------------
DispatchOut == OutSend \/ OutCpHash \/ OutNoAudit \/ OutDeviceThrows
DispatchIn == \/ InDeviceThrows \/ InRetry \/ InError \/ InUnexpectedSuccess
              \/ InBadHmac \/ InBadParameters \/ InSuccess

Next == Modifiers \/ Issue \/ DispatchOut \/ RefusedWhilePending \/ Complete \/ DispatchIn

(* The calling thread runs the dispatcher, and completes what it started.  *)
Spec == Init /\ [][Next]_vars /\ WF_vars(DispatchOut \/ DispatchIn) /\ WF_vars(Complete)

-----------------------------------------------------------------------------
(* The library and the TPM agree between commands on every session's       *)
(* nonceTPM, on the hierarchy's authorization value and on the number of   *)
(* audited commands, except for what it was prevented from learning: the   *)
(* session, value or audit step of an executed command whose answer ended  *)
(* in an exception.  RETRY, allowed and expected errors, and _GetCpHash    *)
(* never break it.                                                         *)
LibraryAgrees ==
  call.at = "idle" =>
    /\ HmacSessions \ nonces \subseteq lost
    /\ tpm2.admin # chip.auth["hierarchy"] => "auth" \in lost
    /\ tpm2.Auditing /\ tpm2.audit # chip.audit => "audit" \in lost

(* What the code does not authorize or validate as the TPM does: a session *)
(* other than the first that encrypts or decrypts, NV_ChangeAuth sent      *)
(* again, Clear by an HMAC session, and an HMAC session at the place of a  *)
(* handle that carries a value without being authorized.                   *)
Mishandled(list) ==
  \/ ~HmacsMatch(list)
  \/ call.cmd = "NvChangeAuth" /\ call.retries > 0
  \/ /\ HandleAuth # NoAuth
     /\ \E i \in DOMAIN list : /\ list[i] # PW /\ i <= NumHandles(call.cmd)
                               /\ call.cmd = "Clear" \/ i > NumAuthHandles(call.cmd)

(* Every other command is never refused for its authorization, and the     *)
(* answer to it never fails validation, as long as nothing was lost: also  *)
(* not when RETRY makes Dispatch send it again.                            *)
AuthorizationHolds ==
  call.at = "in" /\ lost = {} /\ ~Mishandled(tpm2.Sessions) =>
    /\ wire.rc # "AUTH_FAIL"
    /\ wire.rc = NoError => AllVerify

(* A response parameter is decrypted exactly when the TPM encrypted it:    *)
(* "TSS.C++ adds all necessary parameter encryption and decryption".       *)
ResponsesAreDecrypted == Succeeds => Decrypts

(* The dispatcher implements the contract of CppInvocation.                *)
Armed(t) == [AllowErrors |-> t.AllowErrors, DemandError |-> t.DemandError,
             ExpectedError |-> t.ExpectedError, CpHash |-> t.CpHash,
             AuditCommand |-> t.AuditCommand, Sessions |-> Explicit(t.Sessions)]
Phase == IF call.at = "idle" THEN "idle" ELSE "running"
Result == IF call.at = "idle" THEN call.result ELSE "none"

Invocation == INSTANCE CppInvocation WITH
  Errors <- Errors \cup {"AUTH_FAIL"}, armed <- Armed(tpm2), phase <- Phase, result <- Result

InvocationSpec == Invocation!Spec
=============================================================================
