-------------------------- MODULE CppDispatchProof --------------------------
(***************************************************************************)
(* The members of the Tpm2 object and the TPM agree whatever the caller    *)
(* does, and the dispatcher keeps the contract of CppInvocation.  Both     *)
(* rest on what is known while a command is under way: which part of the   *)
(* executed command the library has still to learn from the answer.        *)
(***************************************************************************)
EXTENDS CppDispatch, SequenceTheorems, TLAPS

(* The TPM has executed the command, and its answer is still to be judged. *)
Executed == wire.rc = NoError

NoncesInv ==
  HmacSessions \ nonces \subseteq lost \cup (IF Executed THEN Explicit(tpm2.Sessions) ELSE {})

AdminInv ==
  (IF Executed THEN CompleteUpdateRequestHandles ELSE tpm2.admin) # chip.auth["hierarchy"]
    => "auth" \in lost

AuditInv ==
  /\ tpm2.audit <= chip.audit
  /\ call.at # "idle" /\ ~Executed /\ tpm2.AuditCommand => chip.audit < MaxAudits
  /\ Executed /\ tpm2.AuditCommand => tpm2.Auditing /\ tpm2.audit + 1 <= chip.audit
  /\ tpm2.Auditing /\ tpm2.audit + (IF Executed /\ tpm2.AuditCommand THEN 1 ELSE 0) # chip.audit
       => "audit" \in lost

(* A command whose answer is awaited has been sent.                        *)
SentInv ==
  /\ wire.rc = "none" <=> call.at \in {"idle", "out"}
  /\ call.at \in {"started", "in"} => ~tpm2.CpHash
  /\ wire.rc = "RETRY" => call.retries < MaxRetries

IInv == TypeOK /\ SentInv /\ NoncesInv /\ AdminInv /\ AuditInv

-----------------------------------------------------------------------------
(* The members                                                             *)

(* ClearInvocationState keeps the sessions and what the library tracks.    *)
LEMMA ClearedMembers ==
  ASSUME NEW t \in Members
  PROVE  /\ ClearInvocationState(t) \in Members
         /\ ClearInvocationState(t).Sessions = t.Sessions
         /\ ClearInvocationState(t).admin = t.admin
         /\ ClearInvocationState(t).audit = t.audit
         /\ ClearInvocationState(t).Auditing = t.Auditing
         /\ ~ClearInvocationState(t).AuditCommand /\ ~ClearInvocationState(t).Pending
         /\ ~ClearInvocationState(t).CpHash /\ ~ClearInvocationState(t).AllowErrors
         /\ ~ClearInvocationState(t).DemandError
         /\ ClearInvocationState(t).ExpectedError = NoError
BY DEF ClearInvocationState, Members

(* Members that differ in the sessions or in what the library tracks.      *)
LEMMA EmptiedMembers ==
  ASSUME NEW t \in Members
  PROVE  LET u == [t EXCEPT !.Sessions = <<>>]
         IN  /\ u \in Members /\ u.Sessions = <<>> /\ u.Pending = t.Pending
             /\ u.admin = t.admin /\ u.audit = t.audit /\ u.Auditing = t.Auditing
             /\ u.CpHash = t.CpHash /\ u.AllowErrors = t.AllowErrors
             /\ u.DemandError = t.DemandError /\ u.ExpectedError = t.ExpectedError
             /\ u.AuditCommand = t.AuditCommand
<1>1. <<>> \in Seq(HmacSessions \cup {PW})
  OBVIOUS
<1> QED BY <1>1 DEF Members

(* Filling in a password session changes no HMAC session.                  *)
LEMMA FilledSessions ==
  ASSUME TypeOK
  PROVE  /\ Filled \in Seq(HmacSessions \cup {PW})
         /\ Explicit(Filled) = Explicit(tpm2.Sessions)
         /\ Filled = <<>> => tpm2.Sessions = <<>>
<1>1. CASE Len(tpm2.Sessions) < NumAuthHandles(call.cmd)
  <2>1. Filled = <<PW>> /\ tpm2.Sessions = <<>>
    BY <1>1 DEF Filled, NumAuthHandles, TypeOK, Members
  <2> QED BY <2>1 DEF Explicit, Range
<1>2. CASE ~(Len(tpm2.Sessions) < NumAuthHandles(call.cmd))
  BY <1>2 DEF Filled, TypeOK, Members
<1> QED BY <1>1, <1>2

(* The session with an attribute is a session.                             *)
LEMMA SessionWithType ==
  ASSUME NEW list \in Seq(HmacSessions \cup {PW}), NEW attribute
  PROVE  SessionWith(list, attribute) \in HmacSessions \cup {NoSession}
<1> DEFINE has(i) == list[i] # PW /\ attribute \in Crypt[list[i]]
           last == {i \in DOMAIN list : has(i) /\ \A j \in DOMAIN list : has(j) => j <= i}
<1>1. CASE last = {}
  BY <1>1 DEF SessionWith
<1>2. CASE last # {}
  <2>1. (CHOOSE i \in last : TRUE) \in last
    BY <1>2
  <2>2. list[CHOOSE i \in last : TRUE] \in HmacSessions
    BY <2>1
  <2> QED BY <1>2, <2>2 DEF SessionWith
<1> QED BY <1>1, <1>2

(* PrepareParmEncryptionSessions changes the sessions it prepares only.    *)
LEMMA PreparedMembers ==
  ASSUME TypeOK
  PROVE  LET t == PrepareSessions(tpm2, Filled)
         IN  /\ t \in Members
             /\ Explicit(t.Sessions) = Explicit(tpm2.Sessions)
             /\ t.admin = tpm2.admin /\ t.audit = tpm2.audit
             /\ t.Auditing = tpm2.Auditing /\ t.AuditCommand = tpm2.AuditCommand
             /\ t.CpHash = tpm2.CpHash /\ t.Pending = tpm2.Pending
             /\ t.AllowErrors = tpm2.AllowErrors /\ t.DemandError = tpm2.DemandError
             /\ t.ExpectedError = tpm2.ExpectedError
<1> DEFINE enc == SessionWith(Filled, "encrypt")
           dec == SessionWith(Filled, "decrypt")
<1>1. Filled \in Seq(HmacSessions \cup {PW}) /\ Explicit(Filled) = Explicit(tpm2.Sessions)
      /\ tpm2 \in Members
  BY FilledSessions DEF TypeOK
<1>2. enc \in HmacSessions \cup {NoSession}
  BY <1>1, SessionWithType
<1> HIDE DEF enc, dec
<1>3. \/ PrepareSessions(tpm2, Filled) = tpm2
      \/ PrepareSessions(tpm2, Filled) =
           [tpm2 EXCEPT !.Sessions = Filled, !.DecSession = NoSession, !.EncSession = NoSession]
      \/ PrepareSessions(tpm2, Filled) =
           [tpm2 EXCEPT !.Sessions = Filled, !.DecSession = NoSession, !.EncSession = enc]
  BY DEF PrepareSessions, enc, dec
<1> QED BY <1>1, <1>2, <1>3 DEF Members

-----------------------------------------------------------------------------
(* Initially and between commands                                          *)

LEMMA InitIInv == Init => IInv
<1> SUFFICES ASSUME Init PROVE IInv
  OBVIOUS
<1> USE CppAssumption
<1>1. TypeOK
  BY DEF Init, TypeOK, Members, Calls, Responses, Idle, NoAnswer, AllCommands
<1>2. ~Executed
  BY DEF Init, Executed, NoAnswer
<1>3. SentInv
  BY DEF Init, SentInv, Idle, NoAnswer
<1>4. NoncesInv /\ AdminInv
  BY <1>2 DEF Init, NoncesInv, AdminInv
<1>5. AuditInv
  BY <1>2 DEF Init, AuditInv, Idle
<1> QED BY <1>1, <1>3, <1>4, <1>5 DEF IInv

(* A modifier changes members while the TPM is idle.                       *)
LEMMA ModifierKeeps ==
  ASSUME IInv, Modifiers
  PROVE  IInv'
<1> USE CppAssumption
<1>1. call.at = "idle" /\ UNCHANGED <<call, nonces, chip, wire>> /\ ~Executed /\ ~Executed'
  BY DEF IInv, SentInv, Executed, Modifiers, SetSessions, ReplaceSessions, AllowErrors, DemandError, ExpectError,
         GetCpHash, Audit, StartAudit, EndAudit, Offers, Untouched
<1>2. tpm2' \in Members /\ tpm2'.admin = tpm2.admin /\ tpm2'.Pending = tpm2.Pending
  <2>1. tpm2 \in Members /\ chip.audit \in 0 .. MaxAudits
    BY DEF IInv, TypeOK
  <2>2. CASE SetSessions
    <3>1. PICK list \in SessionLists : tpm2' = [tpm2 EXCEPT !.Sessions = @ \o list]
      BY <2>2 DEF SetSessions
    <3>2. tpm2.Sessions \o list \in Seq(HmacSessions \cup {PW})
      BY <2>1 DEF Members
    <3> QED BY <2>1, <3>1, <3>2 DEF Members
  <2>10. CASE ReplaceSessions
    <3>1. PICK list \in SessionLists : tpm2' = [tpm2 EXCEPT !.Sessions = list]
      BY <2>10 DEF ReplaceSessions
    <3>2. list \in Seq(HmacSessions \cup {PW})
      OBVIOUS
    <3> QED BY <2>1, <3>1, <3>2 DEF Members
  <2>3. CASE AllowErrors
    BY <2>1, <2>3 DEF AllowErrors, Members
  <2>6. CASE DemandError
    BY <2>1, <2>6 DEF DemandError, Members
  <2>7. CASE GetCpHash
    BY <2>1, <2>7 DEF GetCpHash, Members
  <2>8. CASE Audit
    BY <2>1, <2>8 DEF Audit, Members
  <2>9. CASE EndAudit
    BY <2>1, <2>9 DEF EndAudit, Members
  <2>4. CASE ExpectError
    BY <2>1, <2>4 DEF ExpectError, Members
  <2>5. CASE StartAudit
    BY <2>1, <2>5 DEF StartAudit, Members
  <2> QED BY <2>2, <2>3, <2>4, <2>5, <2>6, <2>7, <2>8, <2>9, <2>10 DEF Modifiers
<1>3. \/ lost' = lost /\ tpm2'.audit = tpm2.audit /\ (tpm2'.Auditing => tpm2.Auditing)
      \/ lost' = lost \ {"audit"} /\ tpm2'.audit = chip.audit
  <2>1. tpm2 \in Members
    BY DEF IInv, TypeOK
  <2>2. CASE SetSessions \/ ReplaceSessions \/ ExpectError
    BY <2>1, <2>2 DEF SetSessions, ReplaceSessions, ExpectError, Untouched, Members
  <2>3. CASE AllowErrors
    BY <2>1, <2>3 DEF AllowErrors, Untouched, Members
  <2>4. CASE DemandError \/ GetCpHash
    BY <2>1, <2>4 DEF DemandError, GetCpHash, Untouched, Members
  <2>5. CASE Audit \/ EndAudit
    BY <2>1, <2>5 DEF Audit, EndAudit, Untouched, Members
  <2>6. CASE StartAudit
    BY <2>1, <2>6 DEF StartAudit, Members
  <2> QED BY <2>2, <2>3, <2>4, <2>5, <2>6 DEF Modifiers
<1>4. TypeOK' /\ SentInv'
  BY <1>1, <1>2, <1>3 DEF IInv, TypeOK, SentInv
<1>5. NoncesInv' /\ AdminInv'
  BY <1>1, <1>2, <1>3 DEF IInv, NoncesInv, AdminInv
<1>6. AuditInv'
  BY <1>1, <1>2, <1>3 DEF IInv, TypeOK, Members, AuditInv
<1> QED BY <1>4, <1>5, <1>6 DEF IInv

(* A new command finds nothing under way.                                  *)
LEMMA IssueKeeps ==
  ASSUME IInv, Issue
  PROVE  IInv'
<1> USE CppAssumption
<1>1. PICK cmd \in Commands, async \in BOOLEAN, a \in AuthValues :
        /\ call.at = "idle"
        /\ tpm2.AuditCommand => chip.audit < MaxAudits
        /\ call' = [Idle EXCEPT !.at = "out", !.async = async, !.cmd = cmd, !.newAuth = a,
                          !.auth = IF Entity(cmd) = "nv" THEN chip.auth["nv"] ELSE NoAuth]
        /\ UNCHANGED <<tpm2, nonces, chip, wire, lost>>
  BY DEF Issue
<1>2. ~Executed /\ ~Executed' /\ call'.at = "out"
  BY <1>1 DEF IInv, SentInv, Executed, Idle
<1>3. TypeOK'
  <2>1. TypeOK /\ chip.auth["nv"] \in AuthValues
    BY DEF IInv, TypeOK
  <2>2. call' \in Calls
    <3>1. PICK auth \in AuthValues :
            call' = [at |-> "out", async |-> async, cmd |-> cmd, auth |-> auth,
                     newAuth |-> a, retries |-> 0, result |-> "none"]
      BY <1>1, <2>1 DEF Idle
    <3>2. cmd \in AllCommands /\ 0 \in 0 .. MaxRetries
      OBVIOUS
    <3> QED BY <3>1, <3>2 DEF Calls
  <2> QED BY <1>1, <1>2, <2>1, <2>2 DEF TypeOK
<1>4. SentInv' /\ NoncesInv' /\ AdminInv'
  BY <1>1, <1>2 DEF IInv, SentInv, NoncesInv, AdminInv
<1>5. AuditInv'
  BY <1>1, <1>2 DEF IInv, AuditInv
<1> QED BY <1>3, <1>4, <1>5 DEF IInv

-----------------------------------------------------------------------------
(* A command that ends                                                     *)

LEMMA EndsIdle ==
  ASSUME NEW how \in {"none", "ok", "failed", "exception", "empty", "cphash"}, Ends(how)
  PROVE  call' \in Calls /\ call'.at = "idle" /\ call'.result = how
<1>1. "Plain" \in AllCommands /\ NoAuth \in AuthValues /\ 0 \in 0 .. MaxRetries
  BY CppAssumption DEF AllCommands
<1>2. call' = [at |-> "idle", async |-> FALSE, cmd |-> "Plain", auth |-> NoAuth,
               newAuth |-> NoAuth, retries |-> 0, result |-> how]
  BY DEF Ends, Idle
<1> QED BY <1>1, <1>2 DEF Calls

LEMMA NoAnswerType == NoAnswer \in Responses /\ NoAnswer.rc = "none"
BY CppAssumption DEF NoAnswer, Responses

(* It is enough that what the library cannot know is recorded as lost.     *)
NothingForgotten ==
  /\ call'.at = "idle" /\ tpm2' \in Members /\ ~tpm2'.Pending
  /\ wire' \in Responses /\ wire'.rc = "none"
  /\ chip' = chip
  /\ nonces' \subseteq HmacSessions /\ lost' \subseteq HmacSessions \cup {"auth", "audit"}
  /\ HmacSessions \ nonces' \subseteq lost'
  /\ tpm2'.admin # chip.auth["hierarchy"] => "auth" \in lost'
  /\ tpm2'.audit <= chip.audit
  /\ tpm2'.Auditing /\ tpm2'.audit # chip.audit => "audit" \in lost'

LEMMA EndKeeps ==
  ASSUME IInv, call' \in Calls, NothingForgotten
  PROVE  IInv'
<1> USE DEF NothingForgotten
<1>1. ~Executed'
  BY CppAssumption DEF Executed
<1>2. TypeOK' /\ SentInv'
  BY <1>1 DEF IInv, TypeOK, SentInv
<1>3. NoncesInv' /\ AdminInv'
  BY <1>1 DEF NoncesInv, AdminInv
<1>4. AuditInv'
  BY <1>1 DEF AuditInv, IInv, TypeOK, Members
<1> QED BY <1>2, <1>3, <1>4 DEF IInv

(* DispatchOut ends a command that it does not send.                       *)
LEMMA NotSentKeeps ==
  ASSUME IInv, OutCpHash \/ OutNoAudit \/ OutDeviceThrows
  PROVE  IInv'
<1> DEFINE t == PrepareSessions(tpm2, Filled)
<1>1. call.at = "out" /\ wire.rc = "none" /\ ~Executed /\ ~tpm2.Pending /\ tpm2 \in Members
  BY CppAssumption DEF IInv, TypeOK, SentInv, Executed, OutCpHash, OutNoAudit, OutDeviceThrows
<1>2. t \in Members /\ t.admin = tpm2.admin /\ t.audit = tpm2.audit
      /\ t.Auditing = tpm2.Auditing /\ t.Pending = tpm2.Pending
  BY PreparedMembers DEF IInv
<1> HIDE DEF t
<1>3. /\ tpm2' \in Members /\ ~tpm2'.Pending
      /\ tpm2'.admin = tpm2.admin /\ tpm2'.audit = tpm2.audit /\ tpm2'.Auditing = tpm2.Auditing
  <2>1. CASE OutCpHash
    <3>1. tpm2' = [ClearInvocationState(t) EXCEPT !.Sessions = <<>>]
      BY <2>1 DEF OutCpHash, t
    <3>2. /\ ClearInvocationState(t) \in Members /\ ~ClearInvocationState(t).Pending
          /\ ClearInvocationState(t).admin = tpm2.admin
          /\ ClearInvocationState(t).audit = tpm2.audit
          /\ ClearInvocationState(t).Auditing = tpm2.Auditing
      BY <1>2, ClearedMembers
    <3> QED BY <3>1, <3>2, EmptiedMembers
  <2>2. CASE OutNoAudit
    BY <1>1, <2>2 DEF OutNoAudit
  <2>3. CASE OutDeviceThrows
    BY <1>1, <1>2, <2>3 DEF OutDeviceThrows, t
  <2> QED BY <2>1, <2>2, <2>3
<1>4. call' \in Calls /\ call'.at = "idle" /\ UNCHANGED <<nonces, chip, wire, lost>>
  BY EndsIdle DEF OutCpHash, OutNoAudit, OutDeviceThrows
<1>5. /\ HmacSessions \ nonces \subseteq lost
      /\ tpm2.admin # chip.auth["hierarchy"] => "auth" \in lost
      /\ tpm2.audit <= chip.audit
      /\ tpm2.Auditing /\ tpm2.audit # chip.audit => "audit" \in lost
  BY <1>1 DEF IInv, TypeOK, Members, NoncesInv, AdminInv, AuditInv
<1>6. NothingForgotten
  BY <1>1, <1>3, <1>4, <1>5 DEF NothingForgotten, IInv, TypeOK
<1> QED BY <1>4, <1>6, EndKeeps

-----------------------------------------------------------------------------
(* A command under way                                                     *)

(* What is sent and executed: its sessions have nonces to be learnt, its   *)
(* new authorization value is the one that the library will complete.      *)
LEMMA ExecuteKeeps ==
  ASSUME IInv, Execute(Filled), call.at = "out", AuditReady
  PROVE  /\ chip' \in [auth : [{"hierarchy", "nv"} -> AuthValues], audit : 0 .. MaxAudits]
         /\ chip'.auth["hierarchy"] = IF call.cmd = "HierarchyChangeAuth" THEN call.newAuth
                                      ELSE IF call.cmd = "Clear" THEN NoAuth
                                      ELSE chip.auth["hierarchy"]
         /\ chip'.audit = IF tpm2.AuditCommand THEN chip.audit + 1 ELSE chip.audit
         /\ nonces' \subseteq HmacSessions
         /\ HmacSessions \ nonces' \subseteq (HmacSessions \ nonces) \cup Explicit(tpm2.Sessions)
         /\ wire' \in Responses
         /\ wire'.rc = NoError
<1> DEFINE auths == CASE call.cmd \in {"HierarchyChangeAuth", "NvChangeAuth"} ->
                           [chip.auth EXCEPT ![Entity(call.cmd)] = call.newAuth]
                      [] call.cmd = "Clear" -> [chip.auth EXCEPT !["hierarchy"] = NoAuth]
                      [] OTHER -> chip.auth
           audits == IF tpm2.AuditCommand THEN chip.audit + 1 ELSE chip.audit
           enc == SessionWith(Filled, "encrypt") # NoSession
           auth == IF NumAuthHandles(call.cmd) = 1 THEN chip'.auth[Entity(call.cmd)] ELSE NoAuth
<1> USE CppAssumption
<1>1. chip' = [auth |-> auths, audit |-> audits] /\ nonces' = nonces \ Range(Filled)
      /\ wire' = [rc |-> NoError, auth |-> auth, encrypted |-> enc]
  BY DEF Execute
<1>2. TypeOK /\ call.newAuth \in AuthValues /\ chip.auth \in [{"hierarchy", "nv"} -> AuthValues]
      /\ call.cmd \in AllCommands
  BY DEF IInv, TypeOK, Calls
<1>3. Entity(call.cmd) \in {"hierarchy", "nv"}
  BY DEF Entity
<1>4. /\ auths \in [{"hierarchy", "nv"} -> AuthValues]
      /\ auths["hierarchy"] = IF call.cmd = "HierarchyChangeAuth" THEN call.newAuth
                              ELSE IF call.cmd = "Clear" THEN NoAuth
                              ELSE chip.auth["hierarchy"]
  <2>1. CASE call.cmd = "HierarchyChangeAuth"
    BY <1>2, <2>1 DEF Entity
  <2>2. CASE call.cmd = "NvChangeAuth"
    BY <1>2, <2>2 DEF Entity
  <2>3. CASE call.cmd = "Clear"
    BY <1>2, <2>3
  <2>4. CASE call.cmd \notin {"HierarchyChangeAuth", "NvChangeAuth", "Clear"}
    BY <1>2, <2>4
  <2> QED BY <2>1, <2>2, <2>3, <2>4
<1>5. audits \in 0 .. MaxAudits
  BY DEF IInv, TypeOK, SentInv, AuditInv, Executed
<1>6. Range(Filled) \subseteq Explicit(tpm2.Sessions) \cup {PW} /\ nonces \subseteq HmacSessions
  BY <1>2, FilledSessions DEF Explicit, TypeOK
<1>7. enc \in BOOLEAN
  OBVIOUS
<1> HIDE DEF auths, audits, enc
<1>8. chip' \in [auth : [{"hierarchy", "nv"} -> AuthValues], audit : 0 .. MaxAudits]
      /\ chip'.auth = auths /\ chip'.audit = audits
  BY <1>1, <1>4, <1>5
<1>9. wire' \in Responses
      /\ wire'.rc = NoError
  <2>1. auth \in AuthValues
    BY <1>3, <1>4, <1>8
  <2> HIDE DEF auth
  <2> QED BY <1>1, <1>7, <2>1 DEF Responses, ResponseCodes
<1> QED BY <1>1, <1>4, <1>6, <1>8, <1>9 DEF audits

LEMMA SendKeeps ==
  ASSUME IInv, OutSend
  PROVE  IInv'
<1> DEFINE t == PrepareSessions(tpm2, Filled)
<1> USE CppAssumption
<1>1. PICK rc \in ResponseCodes :
        /\ call.at = "out" /\ ~tpm2.CpHash /\ AuditReady
        /\ rc = "RETRY" => call.retries < MaxRetries
        /\ IF rc = NoError THEN Execute(Filled) ELSE Answer(rc)
        /\ tpm2' = [t EXCEPT !.Pending = TRUE]
        /\ call' = [call EXCEPT !.at = IF call.async THEN "started" ELSE "in",
                                !.auth = UpdateRequestHandles]
        /\ UNCHANGED lost
  BY DEF OutSend
<1>2. /\ t \in Members /\ Explicit(t.Sessions) = Explicit(tpm2.Sessions)
      /\ t.admin = tpm2.admin /\ t.audit = tpm2.audit /\ t.CpHash = tpm2.CpHash
      /\ t.Auditing = tpm2.Auditing /\ t.AuditCommand = tpm2.AuditCommand
  BY PreparedMembers DEF IInv
<1> HIDE DEF t
<1>3. /\ tpm2' \in Members /\ Explicit(tpm2'.Sessions) = Explicit(tpm2.Sessions)
      /\ tpm2'.admin = tpm2.admin /\ tpm2'.audit = tpm2.audit /\ ~tpm2'.CpHash /\ tpm2'.Pending
      /\ tpm2'.Auditing = tpm2.Auditing /\ tpm2'.AuditCommand = tpm2.AuditCommand
  BY <1>1, <1>2 DEF Members
<1>4. call' \in Calls /\ call'.at \in {"started", "in"} /\ call'.cmd = call.cmd
      /\ call'.newAuth = call.newAuth /\ call'.retries = call.retries
  <2>1. UpdateRequestHandles \in AuthValues
    BY DEF IInv, TypeOK, Calls, UpdateRequestHandles
  <2> QED BY <1>1, <2>1 DEF IInv, TypeOK, Calls
<1>5. ~Executed /\ wire.rc = "none"
  BY <1>1 DEF IInv, SentInv, Executed
<1>6. CASE rc = NoError
  <2>1. Execute(Filled)
    BY <1>1, <1>6
  <2>2. Executed'
    BY <1>1, <2>1, ExecuteKeeps DEF Executed
  <2>3. TypeOK' /\ SentInv'
    BY <1>1, <1>3, <1>4, <2>1, ExecuteKeeps DEF IInv, TypeOK, SentInv
  <2>4. NoncesInv'
    BY <1>1, <1>3, <1>5, <2>1, <2>2, ExecuteKeeps DEF IInv, NoncesInv
  <2>5. AdminInv'
    <3>1. tpm2.admin # chip.auth["hierarchy"] => "auth" \in lost
      BY <1>5 DEF IInv, AdminInv
    <3>2. CompleteUpdateRequestHandles' =
            IF call.cmd = "HierarchyChangeAuth" THEN call.newAuth
            ELSE IF call.cmd = "Clear" THEN NoAuth ELSE tpm2.admin
      BY <1>3, <1>4 DEF CompleteUpdateRequestHandles
    <3>3. chip'.auth["hierarchy"] = IF call.cmd = "HierarchyChangeAuth" THEN call.newAuth
                                    ELSE IF call.cmd = "Clear" THEN NoAuth
                                    ELSE chip.auth["hierarchy"]
      BY <1>1, <2>1, ExecuteKeeps
    <3> QED BY <1>1, <2>2, <3>1, <3>2, <3>3 DEF AdminInv
  <2>6. AuditInv'
    <3>1. chip'.audit = IF tpm2.AuditCommand THEN chip.audit + 1 ELSE chip.audit
      BY <1>1, <2>1, ExecuteKeeps
    <3> QED BY <1>1, <1>3, <1>4, <1>5, <2>2, <3>1 DEF IInv, TypeOK, Members, AuditInv, AuditReady
  <2> QED BY <2>3, <2>4, <2>5, <2>6 DEF IInv
<1>7. CASE rc # NoError
  <2>1. wire' = [NoAnswer EXCEPT !.rc = rc] /\ UNCHANGED <<chip, nonces>>
    BY <1>1, <1>7 DEF Answer
  <2>2. wire' \in Responses
        /\ wire'.rc = rc /\ rc # "none"
    BY <2>1 DEF NoAnswer, Responses, ResponseCodes
  <2>3. ~Executed'
    BY <1>7, <2>2 DEF Executed
  <2>4. TypeOK' /\ SentInv'
    BY <1>1, <1>3, <1>4, <2>1, <2>2 DEF IInv, TypeOK, SentInv
  <2>5. NoncesInv' /\ AdminInv'
    BY <1>1, <1>3, <1>5, <2>1, <2>3 DEF IInv, NoncesInv, AdminInv
  <2>6. AuditInv'
    BY <1>1, <1>3, <1>4, <1>5, <2>1, <2>3 DEF IInv, TypeOK, Members, AuditInv
  <2> QED BY <2>4, <2>5, <2>6 DEF IInv
<1> QED BY <1>6, <1>7

LEMMA WaitingKeeps ==
  ASSUME IInv, RefusedWhilePending \/ Complete
  PROVE  IInv'
<1>1. /\ call' \in Calls /\ call.at = "started" /\ call'.at \in {"started", "in"}
      /\ call'.cmd = call.cmd /\ call'.newAuth = call.newAuth /\ call'.retries = call.retries
      /\ UNCHANGED <<tpm2, nonces, chip, wire, lost>>
  <2>1. call \in Calls
    BY DEF IInv, TypeOK
  <2>2. CASE RefusedWhilePending
    BY <2>1, <2>2 DEF Calls, RefusedWhilePending
  <2>3. CASE Complete
    BY <2>1, <2>3 DEF Calls, Complete
  <2> QED BY <2>2, <2>3
<1>2. TypeOK' /\ SentInv'
  BY <1>1 DEF IInv, TypeOK, SentInv
<1>3. NoncesInv' /\ AdminInv' /\ AuditInv'
  BY <1>1 DEF IInv, NoncesInv, AdminInv, AuditInv, Executed, CompleteUpdateRequestHandles
<1> QED BY <1>2, <1>3 DEF IInv

-----------------------------------------------------------------------------
(* The answer                                                              *)

(* What may be done with an answer that is not processed.                  *)
LEMMA UnheardSessions ==
  ASSUME IInv, call.at = "in", NEW withAuth \in BOOLEAN
  PROVE  /\ Unheard(withAuth) \subseteq HmacSessions \cup {"auth", "audit"}
         /\ HmacSessions \ nonces \subseteq lost \cup Unheard(withAuth)
         /\ "audit" \notin lost \cup Unheard(withAuth) =>
              ~tpm2.Auditing \/ tpm2.audit = chip.audit
         /\ Executed /\ call.cmd \in {"HierarchyChangeAuth", "Clear"} /\ withAuth =>
              "auth" \in Unheard(withAuth)
<1>1. tpm2 \in Members /\ chip.audit \in 0 .. MaxAudits
  BY DEF IInv, TypeOK
<1>2. Explicit(tpm2.Sessions) \subseteq HmacSessions
  BY <1>1 DEF Members, Explicit, Range
<1>3. CASE Executed
  BY <1>1, <1>2, <1>3 DEF Unheard, Executed, IInv, NoncesInv, AuditInv, Members
<1>4. CASE ~Executed
  BY <1>1, <1>2, <1>4 DEF Unheard, Executed, IInv, NoncesInv, AuditInv, Members
<1> QED BY <1>3, <1>4

(* CompleteUpdateRequestHandles makes up for what the TPM did.             *)
LEMMA CompletedAdmin ==
  ASSUME IInv, Executed
  PROVE  /\ CompleteUpdateRequestHandles \in AuthValues
         /\ CompleteUpdateRequestHandles # chip.auth["hierarchy"] => "auth" \in lost
<1>1. call.newAuth \in AuthValues /\ tpm2.admin \in AuthValues /\ NoAuth \in AuthValues
  BY CppAssumption DEF IInv, TypeOK, Calls, Members
<1> QED BY <1>1 DEF IInv, AdminInv, CompleteUpdateRequestHandles

LEMMA DeviceThrowsKeeps ==
  ASSUME IInv, InDeviceThrows
  PROVE  IInv'
<1>1. /\ tpm2' = [tpm2 EXCEPT !.Pending = FALSE] /\ lost' = lost \cup Unheard(TRUE)
      /\ call.at = "in" /\ wire' = NoAnswer /\ UNCHANGED <<nonces, chip>> /\ Ends("exception")
  BY DEF InDeviceThrows
<1>2. tpm2' \in Members /\ ~tpm2'.Pending /\ tpm2'.admin = tpm2.admin
      /\ tpm2'.audit = tpm2.audit /\ tpm2'.Auditing = tpm2.Auditing
  BY <1>1 DEF IInv, TypeOK, Members
<1>3. tpm2.admin # chip.auth["hierarchy"] => "auth" \in lost \cup Unheard(TRUE)
  <2>1. CASE Executed /\ call.cmd \in {"HierarchyChangeAuth", "Clear"}
    BY <1>1, <2>1, UnheardSessions
  <2>2. CASE ~(Executed /\ call.cmd \in {"HierarchyChangeAuth", "Clear"})
    BY <2>2 DEF IInv, AdminInv, CompleteUpdateRequestHandles
  <2> QED BY <2>1, <2>2
<1>4. tpm2.audit <= chip.audit /\ nonces \subseteq HmacSessions
      /\ lost \subseteq HmacSessions \cup {"auth", "audit"}
  BY DEF IInv, TypeOK, AuditInv
<1>5. call' \in Calls /\ call'.at = "idle"
  BY <1>1, EndsIdle
<1>6. /\ lost' \subseteq HmacSessions \cup {"auth", "audit"}
      /\ HmacSessions \ nonces \subseteq lost'
      /\ tpm2.Auditing /\ tpm2.audit # chip.audit => "audit" \in lost'
  BY <1>1, <1>4, UnheardSessions
<1>7. NothingForgotten
  BY <1>1, <1>2, <1>3, <1>4, <1>5, <1>6, NoAnswerType DEF NothingForgotten
<1> QED BY <1>5, <1>7, EndKeeps

LEMMA RetryKeeps ==
  ASSUME IInv, InRetry
  PROVE  IInv'
<1> USE CppAssumption
<1>1. /\ call.at = "in" /\ wire.rc = "RETRY" /\ tpm2' = [tpm2 EXCEPT !.Pending = FALSE]
      /\ wire' = NoAnswer /\ UNCHANGED <<nonces, chip, lost>>
  BY DEF InRetry
<1>2. tpm2' \in Members /\ ~tpm2'.Pending /\ tpm2'.admin = tpm2.admin
      /\ tpm2'.audit = tpm2.audit /\ tpm2'.Auditing = tpm2.Auditing
      /\ tpm2'.AuditCommand = tpm2.AuditCommand
  BY <1>1 DEF IInv, TypeOK, Members
<1>3. ~Executed
  BY <1>1 DEF Executed
<1>4. /\ HmacSessions \ nonces \subseteq lost
      /\ tpm2.admin # chip.auth["hierarchy"] => "auth" \in lost
      /\ tpm2.audit <= chip.audit
      /\ tpm2.Auditing /\ tpm2.audit # chip.audit => "audit" \in lost
  BY <1>3 DEF IInv, TypeOK, Members, NoncesInv, AdminInv, AuditInv
<1>5. nonces \subseteq HmacSessions /\ lost \subseteq HmacSessions \cup {"auth", "audit"}
  BY DEF IInv, TypeOK
<1>6. CASE call.async
  <2>1. call' \in Calls /\ call'.at = "idle"
    BY <1>6, EndsIdle DEF InRetry
  <2>2. NothingForgotten
    BY <1>1, <1>2, <1>4, <1>5, <2>1, NoAnswerType DEF NothingForgotten
  <2> QED BY <2>1, <2>2, EndKeeps
<1>7. CASE ~call.async
  <2>1. call' = [call EXCEPT !.at = "out", !.retries = @ + 1]
    BY <1>7 DEF InRetry
  <2>2. call.retries < MaxRetries /\ (tpm2.AuditCommand => chip.audit < MaxAudits)
    BY <1>1, <1>3 DEF IInv, SentInv, AuditInv
  <2>3. call' \in Calls /\ call'.at = "out"
    <3>1. call \in Calls /\ call.retries + 1 \in 0 .. MaxRetries
      BY <2>2 DEF IInv, TypeOK, Calls
    <3> QED BY <2>1, <3>1 DEF Calls
  <2>4. wire' \in Responses /\ wire'.rc = "none" /\ ~Executed'
    BY <1>1, NoAnswerType DEF Executed
  <2>5. TypeOK' /\ SentInv'
    BY <1>1, <1>2, <2>3, <2>4 DEF IInv, TypeOK, SentInv
  <2>6. NoncesInv' /\ AdminInv' /\ AuditInv'
    BY <1>1, <1>2, <1>4, <2>2, <2>4 DEF NoncesInv, AdminInv, AuditInv, IInv, TypeOK, Members
  <2> QED BY <2>5, <2>6 DEF IInv
<1> QED BY <1>6, <1>7

LEMMA ErrorKeeps ==
  ASSUME IInv, InError
  PROVE  IInv'
<1> USE CppAssumption
<1>1. /\ call.at = "in" /\ wire.rc \in Errors \cup {"AUTH_FAIL"}
      /\ tpm2' = [ClearInvocationState(tpm2) EXCEPT !.Sessions = <<>>]
      /\ wire' = NoAnswer /\ UNCHANGED <<nonces, chip, lost>>
  BY DEF InError
<1>2. ~Executed /\ tpm2 \in Members
  BY <1>1 DEF Executed, IInv, TypeOK
<1>3. tpm2' \in Members /\ ~tpm2'.Pending /\ tpm2'.admin = tpm2.admin
      /\ tpm2'.audit = tpm2.audit /\ tpm2'.Auditing = tpm2.Auditing
  BY <1>1, <1>2, ClearedMembers, EmptiedMembers
<1>4. /\ HmacSessions \ nonces \subseteq lost
      /\ tpm2.admin # chip.auth["hierarchy"] => "auth" \in lost
      /\ tpm2.audit <= chip.audit
      /\ tpm2.Auditing /\ tpm2.audit # chip.audit => "audit" \in lost
  BY <1>2 DEF IInv, TypeOK, Members, NoncesInv, AdminInv, AuditInv
<1>5. nonces \subseteq HmacSessions /\ lost \subseteq HmacSessions \cup {"auth", "audit"}
  BY DEF IInv, TypeOK
<1>6. call' \in Calls /\ call'.at = "idle"
  BY EndsIdle DEF InError
<1>7. NothingForgotten
  BY <1>1, <1>3, <1>4, <1>5, <1>6, NoAnswerType DEF NothingForgotten
<1> QED BY <1>6, <1>7, EndKeeps

(* The members after a success whose answer is not processed.              *)
LEMMA CompletedMembers ==
  ASSUME IInv, Executed
  PROVE  LET u == [ClearInvocationState(tpm2) EXCEPT !.admin = CompleteUpdateRequestHandles]
         IN  /\ u \in Members /\ ~u.Pending /\ u.admin = CompleteUpdateRequestHandles
             /\ u.audit = tpm2.audit /\ u.Auditing = tpm2.Auditing
             /\ u.Sessions = tpm2.Sessions
<1> DEFINE c == ClearInvocationState(tpm2)
<1>1. c \in Members /\ ~c.Pending /\ c.audit = tpm2.audit /\ c.Auditing = tpm2.Auditing
      /\ c.Sessions = tpm2.Sessions
  BY ClearedMembers DEF IInv, TypeOK
<1>2. CompleteUpdateRequestHandles \in AuthValues
  BY CompletedAdmin
<1> HIDE DEF c
<1>3. LET u == [c EXCEPT !.admin = CompleteUpdateRequestHandles]
      IN  /\ u \in Members /\ ~u.Pending /\ u.admin = CompleteUpdateRequestHandles
          /\ u.audit = tpm2.audit /\ u.Auditing = tpm2.Auditing
          /\ u.Sessions = tpm2.Sessions
  BY <1>1, <1>2 DEF Members
<1> QED BY <1>3 DEF c

LEMMA UnexpectedSuccessKeeps ==
  ASSUME IInv, InUnexpectedSuccess
  PROVE  IInv'
<1> DEFINE u == [ClearInvocationState(tpm2) EXCEPT !.admin = CompleteUpdateRequestHandles]
<1>1. /\ call.at = "in" /\ Executed
      /\ lost' = lost \cup Unheard(FALSE)
      /\ wire' = NoAnswer /\ UNCHANGED <<nonces, chip>>
  BY DEF InUnexpectedSuccess, Executed
<1>2. tpm2' = [u EXCEPT !.Sessions = <<>>]
  <2>1. ClearInvocationState(tpm2) \in Members
    BY ClearedMembers DEF IInv, TypeOK
  <2>2. tpm2' = [ClearInvocationState(tpm2) EXCEPT !.Sessions = <<>>,
                                                   !.admin = CompleteUpdateRequestHandles]
    BY DEF InUnexpectedSuccess
  <2> QED BY <2>1, <2>2 DEF Members
<1>3. u \in Members /\ ~u.Pending /\ u.admin = CompleteUpdateRequestHandles
      /\ u.audit = tpm2.audit /\ u.Auditing = tpm2.Auditing
  BY <1>1, CompletedMembers
<1> HIDE DEF u
<1>4. tpm2' \in Members /\ ~tpm2'.Pending /\ tpm2'.admin = CompleteUpdateRequestHandles
      /\ tpm2'.audit = tpm2.audit /\ tpm2'.Auditing = tpm2.Auditing
  BY <1>2, <1>3, EmptiedMembers
<1>5. /\ lost' \subseteq HmacSessions \cup {"auth", "audit"}
      /\ HmacSessions \ nonces \subseteq lost'
      /\ tpm2.Auditing /\ tpm2.audit # chip.audit => "audit" \in lost'
  BY <1>1, UnheardSessions DEF IInv, TypeOK
<1>6. tpm2.audit <= chip.audit /\ nonces \subseteq HmacSessions
  BY DEF IInv, TypeOK, AuditInv
<1>7. CompleteUpdateRequestHandles # chip.auth["hierarchy"] => "auth" \in lost'
  BY <1>1, CompletedAdmin
<1>8. call' \in Calls /\ call'.at = "idle"
  BY EndsIdle DEF InUnexpectedSuccess
<1>9. NothingForgotten
  BY <1>1, <1>4, <1>5, <1>6, <1>7, <1>8, NoAnswerType DEF NothingForgotten
<1> QED BY <1>8, <1>9, EndKeeps

LEMMA BadHmacKeeps ==
  ASSUME IInv, InBadHmac
  PROVE  IInv'
<1> USE CppAssumption
<1>1. PICK n \in 0 .. Len(tpm2.Sessions) :
        /\ Succeeds
        /\ nonces' = nonces \cup Explicit(SubSeq(tpm2.Sessions, 1, n))
        /\ lost' = lost \cup (Unheard(FALSE) \ Explicit(SubSeq(tpm2.Sessions, 1, n)))
        /\ tpm2' = [ClearInvocationState(tpm2) EXCEPT !.admin = CompleteUpdateRequestHandles]
        /\ wire' = NoAnswer /\ Ends("exception") /\ UNCHANGED chip
  BY DEF InBadHmac
<1> DEFINE heard == Explicit(SubSeq(tpm2.Sessions, 1, n))
<1>2. heard \subseteq HmacSessions
  <2>1. tpm2.Sessions \in Seq(HmacSessions \cup {PW})
    BY DEF IInv, TypeOK, Members
  <2>2. n \in Nat /\ n <= Len(tpm2.Sessions)
    BY <2>1
  <2>3. SubSeq(tpm2.Sessions, 1, n) \in Seq(HmacSessions \cup {PW})
    BY <2>1, <2>2
  <2> QED BY <2>3 DEF Explicit, Range
<1>3. call.at = "in" /\ Executed
  BY <1>1 DEF Succeeds, Executed
<1>4. tpm2' \in Members /\ ~tpm2'.Pending /\ tpm2'.admin = CompleteUpdateRequestHandles
      /\ tpm2'.audit = tpm2.audit /\ tpm2'.Auditing = tpm2.Auditing
  BY <1>1, <1>3, CompletedMembers
<1> HIDE DEF heard
<1>5. nonces' = nonces \cup heard /\ lost' = lost \cup (Unheard(FALSE) \ heard)
  BY <1>1 DEF heard
<1>6. /\ lost' \subseteq HmacSessions \cup {"auth", "audit"}
      /\ nonces' \subseteq HmacSessions
      /\ HmacSessions \ nonces' \subseteq lost'
      /\ tpm2.Auditing /\ tpm2.audit # chip.audit => "audit" \in lost'
  BY <1>2, <1>3, <1>5, UnheardSessions DEF IInv, TypeOK
<1>7. CompleteUpdateRequestHandles # chip.auth["hierarchy"] => "auth" \in lost'
  BY <1>3, <1>5, CompletedAdmin
<1>8. call' \in Calls /\ call'.at = "idle"
  BY <1>1, EndsIdle
<1>9. tpm2.audit <= chip.audit
  BY DEF IInv, AuditInv
<1>10. NothingForgotten
  BY <1>1, <1>4, <1>6, <1>7, <1>8, <1>9, NoAnswerType DEF NothingForgotten
<1> QED BY <1>8, <1>10, EndKeeps

Counted(t, a, n) ==
  [t EXCEPT !.admin = a, !.audit = n, !.EncSession = NoSession, !.DecSession = NoSession]

LEMMA CountedMembers ==
  ASSUME NEW t \in Members, NEW a \in AuthValues, NEW n \in 0 .. MaxAudits
  PROVE  /\ Counted(t, a, n) \in Members
         /\ Counted(t, a, n).Pending = t.Pending
         /\ Counted(t, a, n).admin = a
         /\ Counted(t, a, n).audit = n
         /\ Counted(t, a, n).Auditing = t.Auditing
         /\ Counted(t, a, n).Sessions = t.Sessions
BY DEF Members, Counted

(* The members after an answer that has been processed.                    *)
LEMMA ProcessedMembers ==
  ASSUME IInv, Executed, call.at = "in"
  PROVE  /\ Processed(tpm2) \in Members /\ ~Processed(tpm2).Pending
         /\ Processed(tpm2).admin = CompleteUpdateRequestHandles
         /\ Processed(tpm2).Auditing = tpm2.Auditing
         /\ Processed(tpm2).audit <= chip.audit
         /\ tpm2.Auditing /\ Processed(tpm2).audit # chip.audit => "audit" \in lost
         /\ Processed(tpm2).Sessions = tpm2.Sessions
<1> DEFINE c == ClearInvocationState(tpm2)
           counted == IF tpm2.AuditCommand THEN tpm2.audit + 1 ELSE tpm2.audit
<1>1. c \in Members /\ ~c.Pending /\ c.audit = tpm2.audit /\ c.Auditing = tpm2.Auditing
      /\ c.Sessions = tpm2.Sessions
  BY ClearedMembers DEF IInv, TypeOK
<1>2. CompleteUpdateRequestHandles \in AuthValues
  BY CompletedAdmin
<1>3. counted \in 0 .. MaxAudits /\ counted <= chip.audit
      /\ (tpm2.Auditing /\ counted # chip.audit => "audit" \in lost)
  BY CppAssumption DEF IInv, TypeOK, Members, AuditInv
<1>4. Processed(tpm2) = Counted(c, CompleteUpdateRequestHandles, counted)
  BY <1>1 DEF Processed, Counted, Members
<1> HIDE DEF c, counted
<1>5. /\ Processed(tpm2) \in Members /\ Processed(tpm2).Pending = c.Pending
      /\ Processed(tpm2).admin = CompleteUpdateRequestHandles
      /\ Processed(tpm2).audit = counted
      /\ Processed(tpm2).Auditing = c.Auditing /\ Processed(tpm2).Sessions = c.Sessions
  <2>1. c \in Members
    BY <1>1
  <2>2. counted \in 0 .. MaxAudits
    BY <1>3
  <2> QED BY <1>2, <1>4, <2>1, <2>2, CountedMembers
<1> QED BY <1>1, <1>3, <1>5

LEMMA ProcessedKeeps ==
  ASSUME IInv, InBadParameters \/ InSuccess
  PROVE  IInv'
<1>1. /\ Succeeds /\ nonces' = nonces \cup Explicit(tpm2.Sessions)
      /\ wire' = NoAnswer /\ UNCHANGED <<chip, lost>>
  BY DEF InBadParameters, InSuccess
<1>2. call.at = "in" /\ Executed
  BY <1>1 DEF Succeeds, Executed
<1>3. /\ tpm2' \in Members /\ ~tpm2'.Pending /\ tpm2'.admin = CompleteUpdateRequestHandles
      /\ tpm2'.audit <= chip.audit
      /\ tpm2'.Auditing /\ tpm2'.audit # chip.audit => "audit" \in lost
  <2>1. CASE InBadParameters
    BY <1>2, <2>1, ProcessedMembers DEF InBadParameters
  <2>2. CASE InSuccess
    <3>1. tpm2' = [Processed(tpm2) EXCEPT !.Sessions = <<>>]
      BY <2>2 DEF InSuccess
    <3> QED BY <1>2, <3>1, ProcessedMembers, EmptiedMembers
  <2> QED BY <2>1, <2>2
<1>4. Explicit(tpm2.Sessions) \subseteq HmacSessions
  BY DEF IInv, TypeOK, Members, Explicit, Range
<1>5. HmacSessions \ nonces' \subseteq lost /\ nonces' \subseteq HmacSessions
      /\ lost \subseteq HmacSessions \cup {"auth", "audit"}
  BY <1>1, <1>2, <1>4 DEF IInv, TypeOK, NoncesInv
<1>6. CompleteUpdateRequestHandles # chip.auth["hierarchy"] => "auth" \in lost
  BY <1>2, CompletedAdmin
<1>7. call' \in Calls /\ call'.at = "idle"
  BY EndsIdle DEF InBadParameters, InSuccess
<1>8. NothingForgotten
  BY <1>1, <1>3, <1>5, <1>6, <1>7, NoAnswerType DEF NothingForgotten
<1> QED BY <1>7, <1>8, EndKeeps

-----------------------------------------------------------------------------
(* The theorems                                                            *)

LEMMA NextKeeps == IInv /\ [Next]_vars => IInv'
<1> SUFFICES ASSUME IInv, [Next]_vars PROVE IInv'
  OBVIOUS
<1>1. CASE Modifiers
  BY <1>1, ModifierKeeps
<1>2. CASE Issue
  BY <1>2, IssueKeeps
<1>3. CASE DispatchOut
  BY <1>3, SendKeeps, NotSentKeeps DEF DispatchOut
<1>4. CASE RefusedWhilePending \/ Complete
  BY <1>4, WaitingKeeps
<1>5. CASE DispatchIn
  BY <1>5, DeviceThrowsKeeps, RetryKeeps, ErrorKeeps, UnexpectedSuccessKeeps, BadHmacKeeps,
     ProcessedKeeps DEF DispatchIn
<1>6. CASE UNCHANGED vars
  BY <1>6 DEF vars, IInv, TypeOK, SentInv, NoncesInv, AdminInv, AuditInv, Executed,
              CompleteUpdateRequestHandles
<1> QED BY <1>1, <1>2, <1>3, <1>4, <1>5, <1>6 DEF Next

LEMMA Invariant == Spec => []IInv
<1> QED BY InitIInv, NextKeeps, PTL DEF Spec

(* The members, the command under way and the answer keep their types: a   *)
(* command is pending in the object exactly while its answer is awaited.   *)
THEOREM CppTypeCorrect == Spec => []TypeOK
<1>1. IInv => TypeOK
  BY DEF IInv
<1> QED BY <1>1, Invariant, PTL

(* Between commands the library and the TPM agree on nonces, hierarchy     *)
(* authorization and audit count, but for what the library was prevented   *)
(* from learning.                                                          *)
THEOREM LibraryAndTpmAgree == Spec => []LibraryAgrees
<1>1. IInv => LibraryAgrees
  <2> SUFFICES ASSUME IInv, call.at = "idle"
               PROVE  /\ HmacSessions \ nonces \subseteq lost
                      /\ tpm2.admin # chip.auth["hierarchy"] => "auth" \in lost
                      /\ tpm2.Auditing /\ tpm2.audit # chip.audit => "audit" \in lost
    BY DEF LibraryAgrees
  <2>1. ~Executed
    BY CppAssumption DEF IInv, SentInv, Executed
  <2>2. HmacSessions \ nonces \subseteq lost /\ (tpm2.admin # chip.auth["hierarchy"] => "auth" \in lost)
    BY <2>1 DEF IInv, NoncesInv, AdminInv
  <2>3. tpm2.Auditing /\ tpm2.audit # chip.audit => "audit" \in lost
    BY <2>1 DEF IInv, TypeOK, Members, AuditInv
  <2> QED BY <2>2, <2>3
<1> QED BY <1>1, Invariant, PTL

-----------------------------------------------------------------------------
(* The contract                                                            *)

LEMMA StartsDisarmed == Init => Invocation!Init
<1> SUFFICES ASSUME Init PROVE Invocation!Init
  OBVIOUS
<1>1. Explicit(tpm2.Sessions) = {}
  BY DEF Init, Explicit, Range
<1>2. Armed(tpm2) = Invocation!Disarmed
  <2>1. /\ tpm2.AllowErrors = FALSE /\ tpm2.DemandError = FALSE /\ tpm2.CpHash = FALSE
        /\ tpm2.AuditCommand = FALSE /\ tpm2.ExpectedError = NoError
    BY DEF Init
  <2> QED BY <1>1, <2>1 DEF Armed, Invocation!Disarmed, Invocation!Only
<1>3. Phase = "idle" /\ Result = "none"
  BY DEF Init, Idle, Phase, Result
<1> QED BY <1>2, <1>3 DEF Invocation!Init

(* A command ends with a verdict; the modifiers are what is left of them.  *)
LEMMA EndsVisibly ==
  ASSUME NEW how \in {"none", "ok", "failed", "exception", "empty", "cphash"}, Ends(how),
         call.at # "idle"
  PROVE  Invocation!End(how)
BY EndsIdle DEF Invocation!End, Phase, Result

LEMMA ClearedArmed ==
  ASSUME NEW t \in Members, NEW u \in Members,
         u.AllowErrors = FALSE, u.DemandError = FALSE, u.CpHash = FALSE, u.AuditCommand = FALSE,
         u.ExpectedError = NoError
  PROVE  /\ u.Sessions = <<>> => Armed(u) = Invocation!Disarmed
         /\ u.Sessions = t.Sessions =>
              Armed(u) = Invocation!Only(Armed(t).Sessions)
<1>1. Armed(u) = Invocation!Only(Explicit(u.Sessions))
  BY DEF Armed, Invocation!Only
<1>2. Explicit(<<>>) = {}
  BY DEF Explicit, Range
<1>3. Armed(t).Sessions = Explicit(t.Sessions)
  BY DEF Armed
<1>4. ASSUME u.Sessions = <<>>
      PROVE  Armed(u) = Invocation!Disarmed
  BY <1>1, <1>2, <1>4 DEF Invocation!Disarmed
<1>5. ASSUME u.Sessions = t.Sessions
      PROVE  Armed(u) = Invocation!Only(Armed(t).Sessions)
  BY <1>1, <1>3, <1>5
<1> QED BY <1>4, <1>5

LEMMA ModifierArms ==
  ASSUME Modifiers
  PROVE  [Invocation!Next]_Invocation!vars
<1>1. call.at = "idle" /\ call' = call
  BY DEF Modifiers, SetSessions, ReplaceSessions, AllowErrors, DemandError, ExpectError,
         GetCpHash, Audit, StartAudit, EndAudit, Offers, Untouched
<1>2. UNCHANGED <<Phase, Result>> /\ Phase = "idle"
  BY <1>1 DEF Phase, Result
<1>3. CASE Armed(tpm2)' = Armed(tpm2)
  BY <1>2, <1>3 DEF Invocation!vars
<1>4. CASE Armed(tpm2)' # Armed(tpm2)
  BY <1>2, <1>4 DEF Invocation!Arm, Invocation!Next
<1> QED BY <1>3, <1>4

LEMMA IssueVisible ==
  ASSUME Issue
  PROVE  [Invocation!Next]_Invocation!vars
<1>1. call.at = "idle" /\ call'.at = "out" /\ tpm2' = tpm2
  BY DEF Issue, Idle
<1>2. Phase = "idle" /\ Phase' = "running" /\ Result' = "none" /\ Armed(tpm2)' = Armed(tpm2)
  BY <1>1 DEF Phase, Result, Armed
<1> QED BY <1>2 DEF Invocation!Issue, Invocation!Next

(* Sending, sending again and waiting cannot be seen.                      *)
LEMMA SendInvisible ==
  ASSUME IInv, OutSend \/ RefusedWhilePending \/ Complete \/ (InRetry /\ ~call.async)
  PROVE  UNCHANGED Invocation!vars
<1>1. call.at # "idle" /\ call'.at # "idle"
  <2>1. call \in Calls
    BY DEF IInv, TypeOK
  <2> QED BY <2>1 DEF OutSend, RefusedWhilePending, Complete, InRetry, Calls
<1>2. Armed(tpm2') = Armed(tpm2)
  <2>1. CASE OutSend
    <3> DEFINE t == PrepareSessions(tpm2, Filled)
    <3>1. tpm2' = [t EXCEPT !.Pending = TRUE]
      BY <2>1 DEF OutSend
    <3>2. t \in Members /\ Armed(t) = Armed(tpm2)
      BY PreparedMembers DEF IInv, Armed
    <3> HIDE DEF t
    <3> QED BY <3>1, <3>2 DEF Armed, Members
  <2>2. CASE RefusedWhilePending \/ Complete
    BY <2>2 DEF RefusedWhilePending, Complete
  <2>3. CASE InRetry
    BY <2>3 DEF InRetry, Armed, Members, IInv, TypeOK
  <2> QED BY <2>1, <2>2, <2>3
<1>3. Armed(tpm2)' = Armed(tpm2)
  BY <1>2 DEF Armed
<1> QED BY <1>1, <1>3 DEF Invocation!vars, Phase, Result

LEMMA NotSentVisible ==
  ASSUME IInv, OutCpHash \/ OutNoAudit \/ OutDeviceThrows
  PROVE  Invocation!Next
<1> DEFINE t == PrepareSessions(tpm2, Filled)
<1>1. t \in Members /\ Armed(t) = Armed(tpm2) /\ tpm2 \in Members
  BY PreparedMembers DEF IInv, TypeOK, Armed
<1> HIDE DEF t
<1>2. CASE OutCpHash
  <2>1. /\ tpm2' = [ClearInvocationState(t) EXCEPT !.Sessions = <<>>]
        /\ call.at = "out" /\ tpm2.CpHash /\ Ends("cphash")
    BY <1>2 DEF OutCpHash, t
  <2>2. Armed(tpm2') = Invocation!Disarmed
    <3> DEFINE c == ClearInvocationState(t)
    <3>1. tpm2' = [c EXCEPT !.Sessions = <<>>]
      BY <2>1
    <3>2. /\ c \in Members /\ ~c.AllowErrors /\ ~c.DemandError /\ ~c.CpHash
          /\ ~c.AuditCommand /\ c.ExpectedError = NoError
      BY <1>1, ClearedMembers
    <3> HIDE DEF c
    <3>3. /\ tpm2' \in Members
          /\ tpm2'.AllowErrors = FALSE /\ tpm2'.DemandError = FALSE /\ tpm2'.CpHash = FALSE
          /\ tpm2'.AuditCommand = FALSE /\ tpm2'.ExpectedError = NoError
          /\ tpm2'.Sessions = <<>>
      BY <3>1, <3>2, EmptiedMembers DEF Members
    <3> QED BY <1>1, <3>3, ClearedArmed
  <2>3. Invocation!End("cphash")
    BY <2>1, EndsVisibly
  <2>4. Armed(tpm2).CpHash /\ Armed(tpm2)' = Armed(tpm2')
    BY <2>1 DEF Armed
  <2> QED BY <2>2, <2>3, <2>4 DEF Invocation!HashOnly, Invocation!Next
<1>3. CASE OutNoAudit \/ OutDeviceThrows
  <2>1. call.at = "out" /\ Ends("exception") /\ Armed(tpm2') = Armed(tpm2)
    BY <1>1, <1>3 DEF OutNoAudit, OutDeviceThrows, t
  <2>2. Invocation!End("exception") /\ Armed(tpm2)' = Armed(tpm2)
    BY <2>1, EndsVisibly DEF Armed
  <2> QED BY <2>2 DEF Invocation!Broken, Invocation!Next
<1> QED BY <1>2, <1>3

(* The verdict on the TPM's answer.                                        *)
LEMMA AnsweredVisible ==
  ASSUME IInv, InError \/ InUnexpectedSuccess \/ InSuccess
  PROVE  Invocation!Next
<1> USE CppAssumption
<1>1. call.at = "in" /\ ~tpm2.CpHash /\ tpm2 \in Members
  BY DEF IInv, TypeOK, SentInv, InError, InUnexpectedSuccess, InSuccess, Succeeds
<1>2. Armed(tpm2') = Invocation!Disarmed
  <2>1. CASE InError
    <3> DEFINE c == ClearInvocationState(tpm2)
    <3>1. tpm2' = [c EXCEPT !.Sessions = <<>>]
      BY <2>1 DEF InError
    <3>2. /\ c \in Members /\ ~c.AllowErrors /\ ~c.DemandError /\ ~c.CpHash
          /\ ~c.AuditCommand /\ c.ExpectedError = NoError
      BY <1>1, ClearedMembers
    <3> HIDE DEF c
    <3>3. /\ tpm2' \in Members
          /\ tpm2'.AllowErrors = FALSE /\ tpm2'.DemandError = FALSE /\ tpm2'.CpHash = FALSE
          /\ tpm2'.AuditCommand = FALSE /\ tpm2'.ExpectedError = NoError
          /\ tpm2'.Sessions = <<>>
      BY <3>1, <3>2, EmptiedMembers DEF Members
    <3> QED BY <1>1, <3>3, ClearedArmed
  <2>2. CASE InUnexpectedSuccess
    <3> DEFINE c == ClearInvocationState(tpm2)
    <3>1. tpm2' = [c EXCEPT !.Sessions = <<>>, !.admin = CompleteUpdateRequestHandles]
      BY <2>2 DEF InUnexpectedSuccess
    <3>2. /\ c \in Members /\ ~c.AllowErrors /\ ~c.DemandError /\ ~c.CpHash
          /\ ~c.AuditCommand /\ c.ExpectedError = NoError
      BY <1>1, ClearedMembers
    <3> HIDE DEF c
    <3>3. /\ tpm2'.AllowErrors = FALSE /\ tpm2'.DemandError = FALSE /\ tpm2'.CpHash = FALSE
          /\ tpm2'.AuditCommand = FALSE /\ tpm2'.ExpectedError = NoError
          /\ tpm2'.Sessions = <<>>
      BY <3>1, <3>2 DEF Members
    <3>4. Explicit(<<>>) = {}
      BY DEF Explicit, Range
    <3> QED BY <3>3, <3>4 DEF Armed, Invocation!Disarmed, Invocation!Only
  <2>3. CASE InSuccess
    <3> DEFINE c == ClearInvocationState(tpm2)
    <3>1. tpm2' = [Processed(tpm2) EXCEPT !.Sessions = <<>>]
      BY <2>3 DEF InSuccess
    <3>2. /\ c \in Members /\ ~c.AllowErrors /\ ~c.DemandError /\ ~c.CpHash
          /\ ~c.AuditCommand /\ c.ExpectedError = NoError
      BY <1>1, ClearedMembers
    <3>3. Processed(tpm2) =
            [c EXCEPT !.admin = CompleteUpdateRequestHandles,
                      !.audit = IF tpm2.AuditCommand THEN @ + 1 ELSE @,
                      !.EncSession = NoSession, !.DecSession = NoSession]
      BY DEF Processed
    <3> HIDE DEF c
    <3>4. /\ tpm2'.AllowErrors = FALSE /\ tpm2'.DemandError = FALSE /\ tpm2'.CpHash = FALSE
          /\ tpm2'.AuditCommand = FALSE /\ tpm2'.ExpectedError = NoError
          /\ tpm2'.Sessions = <<>>
      BY <3>1, <3>2, <3>3 DEF Members
    <3>5. Explicit(<<>>) = {}
      BY DEF Explicit, Range
    <3> QED BY <3>4, <3>5 DEF Armed, Invocation!Disarmed, Invocation!Only
  <2> QED BY <2>1, <2>2, <2>3
<1>3. \E rc \in (Errors \cup {"AUTH_FAIL"}) \cup {NoError} : Invocation!End(Invocation!Judged(rc))
  <2>1. CASE InError
    <3>1. wire.rc \in Errors \cup {"AUTH_FAIL"} /\ wire.rc # NoError
          /\ Ends(IF tpm2.DemandError \/ tpm2.AllowErrors \/ tpm2.ExpectedError = wire.rc
                  THEN "failed" ELSE "exception")
      BY <2>1 DEF InError
    <3>2. Invocation!Judged(wire.rc) =
            IF tpm2.DemandError \/ tpm2.AllowErrors \/ tpm2.ExpectedError = wire.rc
            THEN "failed" ELSE "exception"
      BY <1>1, <3>1 DEF Invocation!Judged, Armed, Members
    <3> QED BY <1>1, <3>1, <3>2, EndsVisibly
  <2>2. CASE InUnexpectedSuccess
    <3>1. Ends("exception") /\ Unexpected
      BY <2>2 DEF InUnexpectedSuccess
    <3>2. Invocation!Judged(NoError) = "exception"
      BY <3>1 DEF Invocation!Judged, Armed, Unexpected
    <3> QED BY <1>1, <3>1, <3>2, EndsVisibly
  <2>3. CASE InSuccess
    <3>1. Ends("ok") /\ ~Unexpected
      BY <2>3 DEF InSuccess, Succeeds
    <3>2. Invocation!Judged(NoError) = "ok"
      BY <3>1 DEF Invocation!Judged, Armed, Unexpected
    <3> QED BY <1>1, <3>1, <3>2, EndsVisibly
  <2> QED BY <2>1, <2>2, <2>3
<1>4. Armed(tpm2)' = Armed(tpm2') /\ ~Armed(tpm2).CpHash
  BY <1>1 DEF Armed
<1> QED BY <1>2, <1>3, <1>4 DEF Invocation!Answered, Invocation!Next

(* An answer that cannot be judged, or is not to be believed.              *)
LEMMA BrokenVisible ==
  ASSUME IInv, InDeviceThrows \/ (InRetry /\ call.async) \/ InBadHmac \/ InBadParameters
  PROVE  Invocation!Next
<1>1. call.at = "in" /\ tpm2 \in Members
  BY DEF IInv, TypeOK, InDeviceThrows, InRetry, InBadHmac, InBadParameters, Succeeds
<1>2. Invocation!End("exception") \/ Invocation!End("empty")
  BY <1>1, EndsVisibly DEF InDeviceThrows, InRetry, InBadHmac, InBadParameters
<1>3. Armed(tpm2') \in {Armed(tpm2), Invocation!Only(Armed(tpm2).Sessions)}
  <2>1. CASE InDeviceThrows \/ InRetry
    BY <1>1, <2>1 DEF InDeviceThrows, InRetry, Armed, Members
  <2>2. CASE InBadHmac \/ InBadParameters
    <3> DEFINE c == ClearInvocationState(tpm2)
    <3>1. /\ c \in Members /\ ~c.AllowErrors /\ ~c.DemandError /\ ~c.CpHash
          /\ ~c.AuditCommand /\ c.ExpectedError = NoError /\ c.Sessions = tpm2.Sessions
      BY <1>1, ClearedMembers
    <3>2. \/ tpm2' = [c EXCEPT !.admin = CompleteUpdateRequestHandles]
          \/ tpm2' = [c EXCEPT !.admin = CompleteUpdateRequestHandles,
                               !.audit = IF tpm2.AuditCommand THEN @ + 1 ELSE @,
                               !.EncSession = NoSession, !.DecSession = NoSession]
      BY <2>2 DEF InBadHmac, InBadParameters, Processed
    <3> HIDE DEF c
    <3>3. /\ c.AllowErrors = FALSE /\ c.DemandError = FALSE /\ c.CpHash = FALSE
          /\ c.AuditCommand = FALSE
      BY <3>1 DEF Members
    <3>4. Armed(tpm2') = Armed(c)
      BY <3>1, <3>2 DEF Armed, Members
    <3>5. Armed(c) = Invocation!Only(Armed(tpm2).Sessions)
      BY <1>1, <3>1, <3>3, ClearedArmed
    <3> QED BY <3>4, <3>5
  <2> QED BY <2>1, <2>2
<1>4. Armed(tpm2)' = Armed(tpm2')
  BY DEF Armed
<1> QED BY <1>2, <1>3, <1>4 DEF Invocation!Broken, Invocation!Next

LEMMA StepVisible == IInv /\ [Next]_vars => [Invocation!Next]_Invocation!vars
<1> SUFFICES ASSUME IInv, [Next]_vars PROVE [Invocation!Next]_Invocation!vars
  OBVIOUS
<1>1. CASE Modifiers \/ Issue
  BY <1>1, ModifierArms, IssueVisible
<1>2. CASE DispatchOut
  BY <1>2, SendInvisible, NotSentVisible DEF DispatchOut
<1>3. CASE RefusedWhilePending \/ Complete
  BY <1>3, SendInvisible
<1>4. CASE DispatchIn
  BY <1>4, SendInvisible, AnsweredVisible, BrokenVisible DEF DispatchIn
<1>5. CASE UNCHANGED vars
  BY <1>5 DEF vars, Invocation!vars, Armed, Phase, Result
<1> QED BY <1>1, <1>2, <1>3, <1>4, <1>5 DEF Next

(* The dispatcher keeps the contract that Tpm2.h states: the modifiers     *)
(* stay with their command until the TPM's answer has been judged, decide  *)
(* how it ends, and are gone afterwards, however often it was sent.        *)
THEOREM DispatcherKeepsContract == Spec => Invocation!Safety
<1> QED BY StartsDisarmed, StepVisible, Invariant, PTL DEF Spec, Invocation!Safety

-----------------------------------------------------------------------------
(* Authorization                                                           *)

(* A command goes out with the value of its handle that the TPM has, but   *)
(* for NV_ChangeAuth sent again; what was sent while nothing was lost, and *)
(* is not mishandled, is accepted, and so will its answer be.              *)
AuthInv ==
  /\ call.at # "idle" /\ call.cmd \in {"NvReadPublic", "NvRead"} => call.auth = chip.auth["nv"]
  /\ call.at = "out" /\ call.cmd = "NvChangeAuth" /\ call.retries = 0 =>
       call.auth = chip.auth["nv"]
  /\ call.at \in {"started", "in"} /\ lost = {} /\ ~Mishandled(tpm2.Sessions) =>
       wire.rc # "AUTH_FAIL" /\ (wire.rc = NoError => AllVerify)

(* The list that goes out stays the list of the object.                    *)
LEMMA PreparedList ==
  ASSUME TypeOK
  PROVE  PrepareSessions(tpm2, Filled).Sessions = Filled
<1> DEFINE enc == SessionWith(Filled, "encrypt")
           dec == SessionWith(Filled, "decrypt")
<1>1. tpm2 \in Members /\ (Filled = <<>> => tpm2.Sessions = <<>>)
  BY FilledSessions DEF TypeOK
<1> HIDE DEF enc, dec
<1>2. \/ Filled = <<>> /\ PrepareSessions(tpm2, Filled) = tpm2
      \/ PrepareSessions(tpm2, Filled) =
           [tpm2 EXCEPT !.Sessions = Filled, !.DecSession = NoSession, !.EncSession = NoSession]
      \/ PrepareSessions(tpm2, Filled) =
           [tpm2 EXCEPT !.Sessions = Filled, !.DecSession = NoSession, !.EncSession = enc]
  BY DEF PrepareSessions, enc, dec
<1> QED BY <1>1, <1>2 DEF Members

(* A command that has ended leaves nothing to tell about.                  *)
LEMMA EndedAuth ==
  ASSUME call'.at = "idle" PROVE AuthInv'
BY DEF AuthInv

LEMMA HandleCounts ==
  ASSUME NEW cmd \in AllCommands
  PROVE  /\ NumHandles(cmd) \in 0 .. 2 /\ NumAuthHandles(cmd) \in 0 .. 1
         /\ NumAuthHandles(cmd) <= NumHandles(cmd)
         /\ NumAuthHandles(cmd) < NumHandles(cmd) => cmd \in {"NvReadPublic", "NvRead"}
BY DEF AllCommands, NumHandles, NumAuthHandles

(* With all nonces and the right value the TPM accepts the command.        *)
LEMMA NothingLostAuthorizes ==
  ASSUME IInv, AuthInv, call.at = "out", lost = {}, ~Mishandled(Filled)
  PROVE  Authorized(Filled)
<1>1. TypeOK /\ ~Executed /\ call \in Calls
  BY CppAssumption DEF IInv, TypeOK, SentInv, Executed
<1>2. Filled \in Seq(HmacSessions \cup {PW})
  BY <1>1, FilledSessions
<1>3. NumAuthHandles(call.cmd) = 1 => HandleAuth = chip.auth[Entity(call.cmd)]
  <2>1. tpm2.admin = chip.auth["hierarchy"]
    BY <1>1 DEF IInv, AdminInv
  <2>2. call.cmd \in {"NvRead", "NvChangeAuth"} => call.auth = chip.auth["nv"]
    <3>1. call.cmd = "NvChangeAuth" => call.retries = 0
      BY <1>1 DEF Mishandled, Calls
    <3> QED BY <3>1 DEF AuthInv
  <2>3. call.cmd # "NvReadPublic" \/ NumAuthHandles(call.cmd) = 0
    BY DEF NumAuthHandles
  <2> QED BY <2>1, <2>2, <2>3 DEF HandleAuth, Entity
<1>4. \A i \in DOMAIN Filled : Filled[i] # PW => Filled[i] \in nonces
  BY <1>1, <1>2 DEF IInv, NoncesInv
<1>5. HmacsMatch(Filled)
  BY DEF Mishandled
<1> QED BY <1>3, <1>4, <1>5 DEF Authorized

(* What the TPM keys the answer with is what the library verifies it with. *)
LEMMA AnswerVerifies ==
  ASSUME IInv, AuthInv, call.at = "out", Execute(Filled), lost = {}, ~Mishandled(Filled),
         tpm2'.Sessions = Filled, tpm2'.admin = tpm2.admin, call'.cmd = call.cmd,
         call'.newAuth = call.newAuth, call'.auth = UpdateRequestHandles
  PROVE  AllVerify'
<1> USE CppAssumption
<1>1. TypeOK /\ Filled \in Seq(HmacSessions \cup {PW}) /\ call \in Calls
      /\ call.cmd \in AllCommands
  BY FilledSessions DEF IInv, TypeOK, Calls
<1>2. PICK c : c = call.cmd
  OBVIOUS
<1>3. /\ NumHandles(c) \in 0 .. 2 /\ NumAuthHandles(c) \in 0 .. 1
      /\ NumAuthHandles(c) <= NumHandles(c)
      /\ NumAuthHandles(c) < NumHandles(c) => c \in {"NvReadPublic", "NvRead"}
  BY <1>1, <1>2, HandleCounts
<1>4. tpm2.admin = chip.auth["hierarchy"]
  BY DEF IInv, SentInv, AdminInv, Executed
<1>5. /\ wire'.auth = IF NumAuthHandles(c) = 1 THEN chip'.auth[Entity(c)] ELSE NoAuth
      /\ chip'.auth = CASE c \in {"HierarchyChangeAuth", "NvChangeAuth"} ->
                             [chip.auth EXCEPT ![Entity(c)] = call.newAuth]
                        [] c = "Clear" -> [chip.auth EXCEPT !["hierarchy"] = NoAuth]
                        [] OTHER -> chip.auth
  BY <1>2 DEF Execute
<1>6. chip.auth \in [{"hierarchy", "nv"} -> AuthValues] /\ Entity(c) \in {"hierarchy", "nv"}
  BY <1>1 DEF TypeOK, Entity
<1>7. c # "NvChangeAuth" => HandleAuth' = HandleAuth
  <2>1. c \in {"NvReadPublic", "NvRead"} => call'.auth = call.auth
    BY <1>2 DEF UpdateRequestHandles
  <2>2. Entity(c) = "nv" => c \in {"NvReadPublic", "NvRead", "NvChangeAuth"}
    BY DEF Entity
  <2> QED BY <1>2, <1>6, <2>1, <2>2 DEF HandleAuth
<1> SUFFICES ASSUME NEW i \in DOMAIN Filled, Filled[i] # PW
             PROVE  ResponseAuth(i)' = IF i <= NumAuthHandles(c) THEN wire'.auth ELSE NoAuth
  BY <1>2 DEF AllVerify, HmacVerifies
<1>8. i \in Nat /\ i >= 1
  BY <1>1
<1>9. CASE i > NumHandles(c)
  <2>1. ~(c \in {"HierarchyChangeAuth", "NvChangeAuth"} /\ i = 1)
    BY <1>9 DEF NumHandles
  <2> QED BY <1>2, <1>3, <1>8, <1>9, <2>1 DEF ResponseAuth
<1>10. CASE i <= NumHandles(c) /\ i > NumAuthHandles(c)
  <2>1. c \in {"NvReadPublic", "NvRead"}
    BY <1>3, <1>8, <1>10
  <2>2. HandleAuth = NoAuth
    BY <1>2, <1>10 DEF Mishandled
  <2> QED BY <1>2, <1>3, <1>7, <1>8, <1>10, <2>1, <2>2 DEF ResponseAuth
<1>11. CASE i <= NumAuthHandles(c)
  <2>1. i = 1 /\ NumAuthHandles(c) = 1 /\ i <= NumHandles(c) /\ c \notin {"Plain", "NvReadPublic"}
    <3>1. i = 1 /\ NumAuthHandles(c) = 1 /\ i <= NumHandles(c)
      BY <1>3, <1>8, <1>11
    <3> QED BY <3>1 DEF NumAuthHandles
  <2>2. CASE c \in {"HierarchyChangeAuth", "NvChangeAuth"}
    <3>1. wire'.auth = call.newAuth
      BY <1>5, <1>6, <2>1, <2>2
    <3> QED BY <1>2, <1>3, <2>1, <2>2, <3>1 DEF ResponseAuth
  <2>3. CASE c \notin {"HierarchyChangeAuth", "NvChangeAuth"}
    <3>1. ResponseAuth(i)' = HandleAuth
      BY <1>2, <1>3, <1>7, <2>1, <2>3 DEF ResponseAuth
    <3>2. CASE c = "Clear"
      <4>1. HandleAuth = NoAuth
        BY <1>2, <2>1, <3>2 DEF Mishandled
      <4>2. wire'.auth = NoAuth
        BY <1>5, <1>6, <2>1, <3>2 DEF Entity
      <4> QED BY <2>1, <3>1, <4>1, <4>2
    <3>3. CASE c = "UseHierarchy"
      <4>1. wire'.auth = chip.auth["hierarchy"]
        BY <1>5, <2>1, <3>3 DEF Entity
      <4>2. HandleAuth = tpm2.admin
        BY <1>2, <3>3 DEF HandleAuth, Entity
      <4> QED BY <1>4, <2>1, <3>1, <4>1, <4>2
    <3>4. CASE c = "NvRead"
      <4>1. wire'.auth = chip.auth["nv"]
        BY <1>5, <2>1, <3>4 DEF Entity
      <4>2. HandleAuth = call.auth /\ call.auth = chip.auth["nv"]
        BY <1>2, <3>4 DEF HandleAuth, Entity, AuthInv
      <4> QED BY <2>1, <3>1, <4>1, <4>2
    <3> QED BY <1>1, <1>2, <2>1, <2>3, <3>2, <3>3, <3>4 DEF AllCommands
  <2> QED BY <2>2, <2>3
<1> QED BY <1>3, <1>8, <1>9, <1>10, <1>11

LEMMA SendAuthorized ==
  ASSUME IInv, AuthInv, OutSend
  PROVE  AuthInv'
<1> DEFINE t == PrepareSessions(tpm2, Filled)
<1> USE CppAssumption
<1>1. PICK rc \in ResponseCodes :
        /\ call.at = "out"
        /\ rc = "AUTH_FAIL" <=> ~Authorized(Filled)
        /\ IF rc = NoError THEN Execute(Filled) ELSE Answer(rc)
        /\ tpm2' = [t EXCEPT !.Pending = TRUE]
        /\ call' = [call EXCEPT !.at = IF call.async THEN "started" ELSE "in",
                                !.auth = UpdateRequestHandles]
        /\ UNCHANGED lost
  BY DEF OutSend
<1>2. TypeOK
  BY DEF IInv
<1>3. t \in Members /\ t.Sessions = Filled /\ t.admin = tpm2.admin
  BY <1>2, PreparedMembers, PreparedList
<1> HIDE DEF t
<1>4. tpm2'.Sessions = Filled /\ tpm2'.admin = tpm2.admin
  BY <1>1, <1>3 DEF Members
<1>5. /\ call'.at \in {"started", "in"} /\ call'.cmd = call.cmd /\ call'.retries = call.retries
      /\ call'.newAuth = call.newAuth /\ call'.auth = UpdateRequestHandles
  BY <1>1, <1>2 DEF TypeOK, Calls
<1>6. ASSUME lost = {}, ~Mishandled(tpm2.Sessions)'
      PROVE  wire'.rc # "AUTH_FAIL" /\ (wire'.rc = NoError => AllVerify')
  <2>0. ~Mishandled(Filled)
    <3>1. HmacsMatch(Filled)
      BY <1>4, <1>6 DEF Mishandled, HmacsMatch, ExtraNonces
    <3>2. ~(call.cmd = "NvChangeAuth" /\ call.retries > 0)
      BY <1>5, <1>6 DEF Mishandled
    <3>3. ASSUME HandleAuth # NoAuth, NEW i \in DOMAIN Filled, Filled[i] # PW,
                 i <= NumHandles(call.cmd), call.cmd = "Clear" \/ i > NumAuthHandles(call.cmd)
          PROVE  FALSE
      <4>1. Filled \in Seq(HmacSessions \cup {PW}) /\ call.cmd \in AllCommands
        BY <1>2, FilledSessions DEF TypeOK, Calls
      <4>2. call.cmd \in {"Clear", "NvReadPublic", "NvRead"}
        BY <3>3, <4>1, HandleCounts
      <4>3. HandleAuth' = HandleAuth
        <5>1. CASE call.cmd = "Clear"
          BY <1>4, <1>5, <5>1 DEF HandleAuth, Entity
        <5>2. CASE call.cmd \in {"NvReadPublic", "NvRead"}
          BY <1>5, <5>2 DEF HandleAuth, Entity, UpdateRequestHandles
        <5> QED BY <4>2, <5>1, <5>2
      <4> QED BY <1>4, <1>5, <1>6, <3>3, <4>3 DEF Mishandled
    <3> QED BY <3>1, <3>2, <3>3 DEF Mishandled
  <2>1. Authorized(Filled)
    BY <1>1, <1>6, <2>0, NothingLostAuthorizes
  <2>2. rc # "AUTH_FAIL"
    BY <1>1, <2>1
  <2>3. CASE rc # NoError
    <3>1. wire'.rc = rc
      BY <1>1, <2>3 DEF Answer, NoAnswer
    <3> QED BY <2>2, <2>3, <3>1
  <2>4. CASE rc = NoError
    <3>1. wire'.rc = NoError
      BY <1>1, <2>4 DEF Execute
    <3>2. AllVerify'
      BY <1>1, <1>4, <1>5, <1>6, <2>0, <2>4, AnswerVerifies
    <3> QED BY <3>1, <3>2
  <2> QED BY <2>3, <2>4
<1>7. call'.cmd \in {"NvReadPublic", "NvRead"} => call'.auth = chip'.auth["nv"]
  <2> SUFFICES ASSUME call.cmd \in {"NvReadPublic", "NvRead"} PROVE call'.auth = chip'.auth["nv"]
    BY <1>5
  <2>1. call.auth = chip.auth["nv"] /\ call'.auth = call.auth
    BY <1>1, <1>5 DEF AuthInv, UpdateRequestHandles
  <2>2. chip'.auth = chip.auth
    BY <1>1 DEF Execute, Answer
  <2> QED BY <2>1, <2>2
<1> QED BY <1>1, <1>5, <1>6, <1>7 DEF AuthInv

LEMMA IssueAuth ==
  ASSUME IInv, AuthInv, Issue
  PROVE  AuthInv'
<1>1. PICK cmd \in Commands, async \in BOOLEAN, a \in AuthValues :
        /\ call' = [Idle EXCEPT !.at = "out", !.async = async, !.cmd = cmd, !.newAuth = a,
                          !.auth = IF Entity(cmd) = "nv" THEN chip.auth["nv"] ELSE NoAuth]
        /\ UNCHANGED <<tpm2, nonces, chip, wire, lost>>
  BY DEF Issue
<1>2. /\ call'.at = "out" /\ call'.cmd = cmd
      /\ call'.auth = IF Entity(cmd) = "nv" THEN chip.auth["nv"] ELSE NoAuth
  BY <1>1 DEF Idle
<1> QED BY <1>1, <1>2 DEF AuthInv, Entity

(* Modifiers are called between commands, and an ended command is gone.    *)
LEMMA IdleAuth ==
  ASSUME IInv, \/ Modifiers \/ OutCpHash \/ OutNoAudit \/ OutDeviceThrows
               \/ (DispatchIn /\ ~InRetry)
  PROVE  AuthInv'
<1>1. CASE Modifiers
  <2>1. call'.at = "idle"
    BY <1>1 DEF Modifiers, SetSessions, ReplaceSessions, AllowErrors, DemandError, ExpectError,
                GetCpHash, Audit, StartAudit, EndAudit, Offers, Untouched
  <2> QED BY <2>1, EndedAuth
<1>2. CASE OutCpHash \/ OutNoAudit \/ OutDeviceThrows
  <2>1. call'.at = "idle"
    BY <1>2, EndsIdle DEF OutCpHash, OutNoAudit, OutDeviceThrows
  <2> QED BY <2>1, EndedAuth
<1>3. CASE DispatchIn /\ ~InRetry
  <2>1. call'.at = "idle"
    BY <1>3, EndsIdle DEF DispatchIn, InDeviceThrows, InError, InUnexpectedSuccess, InBadHmac,
                          InBadParameters, InSuccess
  <2> QED BY <2>1, EndedAuth
<1> QED BY <1>1, <1>2, <1>3

LEMMA WaitingAuth ==
  ASSUME IInv, AuthInv, RefusedWhilePending \/ Complete
  PROVE  AuthInv'
<1>1. /\ call.at = "started" /\ call'.at \in {"started", "in"}
      /\ call'.cmd = call.cmd /\ call'.newAuth = call.newAuth /\ call'.auth = call.auth
      /\ call'.retries = call.retries
      /\ UNCHANGED <<tpm2, nonces, chip, wire, lost>>
  <2>1. call \in Calls
    BY DEF IInv, TypeOK
  <2> QED BY <2>1 DEF Calls, RefusedWhilePending, Complete
<1>2. (AllVerify' <=> AllVerify) /\ (Mishandled(tpm2.Sessions)' <=> Mishandled(tpm2.Sessions))
  BY <1>1 DEF AllVerify, HmacVerifies, ResponseAuth, Mishandled, HmacsMatch, ExtraNonces, HandleAuth
<1> QED BY <1>1, <1>2 DEF AuthInv

(* A command is repeated with the value it was sent with before.           *)
LEMMA RetryAuth ==
  ASSUME IInv, AuthInv, InRetry
  PROVE  AuthInv'
<1> USE CppAssumption
<1>1. call.at = "in" /\ UNCHANGED <<nonces, chip, lost>> /\ call \in Calls
  BY DEF InRetry, IInv, TypeOK
<1>2. CASE call.async
  <2>1. call'.at = "idle"
    BY <1>2, EndsIdle DEF InRetry
  <2> QED BY <2>1, EndedAuth
<1>3. CASE ~call.async
  <2>1. /\ call'.at = "out" /\ call'.cmd = call.cmd /\ call'.auth = call.auth
        /\ call'.retries = call.retries + 1 /\ call.retries \in Nat
    <3>1. call' = [call EXCEPT !.at = "out", !.retries = @ + 1]
      BY <1>3 DEF InRetry
    <3> QED BY <1>1, <3>1 DEF Calls
  <2>2. call'.retries # 0
    BY <2>1
  <2> QED BY <1>1, <2>1, <2>2 DEF AuthInv
<1> QED BY <1>2, <1>3

LEMMA NextAuth ==
  ASSUME IInv, AuthInv, [Next]_vars
  PROVE  AuthInv'
<1>1. CASE UNCHANGED vars
  <2>1. (AllVerify' <=> AllVerify) /\ (Mishandled(tpm2.Sessions)' <=> Mishandled(tpm2.Sessions))
    BY <1>1 DEF vars, AllVerify, HmacVerifies, ResponseAuth, Mishandled, HmacsMatch, ExtraNonces,
                HandleAuth
  <2> QED BY <1>1, <2>1 DEF vars, AuthInv
<1>2. CASE DispatchIn
  BY <1>2, RetryAuth, IdleAuth
<1>3. CASE Modifiers \/ Issue \/ DispatchOut \/ RefusedWhilePending \/ Complete
  BY <1>3, IdleAuth, IssueAuth, SendAuthorized, WaitingAuth DEF DispatchOut
<1> QED BY <1>1, <1>2, <1>3 DEF Next

(* The TPM never refuses what Tpm2::Dispatch authorizes, and the library   *)
(* never rejects the answer, as long as it has heard every answer so far:  *)
(* through RETRY, modifiers and sessions that were left over, for every    *)
(* list of sessions and every command but those that Mishandled names, for *)
(* handles that are not authorized too.                                    *)
THEOREM DispatchIsAuthorized == Spec => []AuthorizationHolds
<1>1. Init => AuthInv
  BY DEF Init, AuthInv, Idle
<1>2. IInv /\ AuthInv /\ [Next]_vars => AuthInv'
  BY NextAuth
<1>3. AuthInv => AuthorizationHolds
  BY DEF AuthInv, AuthorizationHolds
<1> QED BY <1>1, <1>2, <1>3, Invariant, PTL DEF Spec

=============================================================================
