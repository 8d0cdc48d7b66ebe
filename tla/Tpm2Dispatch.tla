---------------------------- MODULE Tpm2Dispatch ----------------------------
(***************************************************************************)
(* Tpm2.DispatchMethod of TSS.Net (Tpm2.cs): how one Tpm2 object runs a    *)
(* command of the application.  The application first calls modifiers      *)
(* (_AllowErrors, _ExpectError, sessions, ...), each of which is meant for *)
(* the next command only.  To run that command the library issues commands *)
(* of its own through the same object: StartAuthSession for a missing HMAC *)
(* session, ReadPublic for a missing name, GetCapability to know how long  *)
(* to wait on NV_RATE, FlushContext for the sessions it created.  The      *)
(* fields CurrentCommand and OuterCommand tell the two kinds apart.        *)
(*                                                                         *)
(* One thread runs all this; stack is its call stack, cut at the calls     *)
(* that reach the TPM.  A frame is an activation of DispatchMethod or,     *)
(* when it is at "cancelSafe", of CancelSafeStartAuthSession or            *)
(* CancelSafeFlushContext.  ret is the result on its way to the caller:    *)
(* "none", "true", "false", or the exception being thrown (the code of a   *)
(* TpmException, "Exception" for all others).                              *)
(***************************************************************************)
EXTENDS Integers, SequencesExt

CONSTANTS
  UserCommands,   (* commands that the application issues                  *)
  AuthHandles,    (* how many handles of each of them need authorization   *)
  UserSessions,   (* AuthSessions that the application created             *)
  Offered,        (* the modifiers that the application uses               *)
  SessionLists,   (* what the application passes to _SetSessions          *)
  Handles,        (* session handles of the TPM                            *)
  NoHandle,
  NoCommand,      (* TpmCc.None                                            *)
  Errors,         (* the response codes that have no special meaning here  *)
  TpmHashes,      (* hash algorithms that the TPM implements               *)
  NeedsHMAC,      (* Tpm2Device.NeedsHMAC                                  *)
  Unreliable,     (* the library's own commands that the environment fails *)
  MaxCancels,     (* bound: consecutive cancellations of such a command    *)
  MaxAttempts,    (* the 25 of CancelationCtx.NeedRetry                    *)
  MaxNvRetries,   (* the 4 of DispatchMethod                               *)
  RateLimited,    (* the commands that the TPM may answer with NV_RATE     *)
  MaxDepth,       (* bound: how deep in the call stack it does so          *)
  MaxPermanent    (* bound: nesting of _DisableExceptions                  *)

OwnCommands == {"StartAuthSession", "ReadPublic", "GetCapability", "FlushContext"}
HashAlgs    == {"Sha384", "Sha256", "Sha1"}
ErrorCodes  == Errors \cup {"Canceled", "NvRate", "Hash"}
Answers     == ErrorCodes \cup {"Success", "Garbled"}

ASSUME DispatchAssumption ==
  /\ AuthHandles \in [UserCommands -> Nat]
  /\ UserCommands \cap (OwnCommands \cup {NoCommand}) = {} /\ NoCommand \notin OwnCommands
  /\ SessionLists \subseteq Seq(UserSessions \cup {"Default", "Pw"})
  /\ UserSessions \cap Handles = {} /\ NoHandle \notin Handles
  /\ (UserSessions \cup Handles) \cap {"Default", "Pw"} = {}
  /\ Errors # {} /\ Errors \cap {"Canceled", "NvRate", "Hash", "Success", "Garbled",
                                 "none", "true", "false", "Exception", "unsent", "lost"} = {}
  /\ TpmHashes \subseteq HashAlgs /\ NeedsHMAC \in BOOLEAN /\ Unreliable \subseteq OwnCommands
  /\ RateLimited \subseteq UserCommands \cup (OwnCommands \ {"GetCapability"})
  /\ {MaxCancels, MaxAttempts, MaxNvRetries, MaxDepth, MaxPermanent} \subseteq Nat

VARIABLES
  tpm2,         (* the fields of the Tpm2 object                           *)
  stack,        (* the activations in progress, the innermost one last     *)
  ret,          (* the result on its way to the caller                     *)
  tpmSessions,  (* the implicit sessions alive in the TPM                  *)
  call          (* the application's last command: the sessions it was     *)
                (* sent with and, for the properties only, what was asked  *)
                (* of it and what the TPM said                             *)

vars == <<tpm2, stack, ret, tpmSessions, call>>

(***************************************************************************)
(* State.  expected = {} stands for ExpectedResponses = null.  The library  *)
(* does not read _LastCommand, and it is left out.                         *)
(***************************************************************************)
Modifiers(t) ==
  [sessions |-> t.sessions, tolerate |-> t.TolerateErrors,
   permanent |-> t.TolerateErrorsPermanently, expected |-> t.ExpectedResponses,
   presence |-> t.ResetPp, cpHash |-> t.CpHashMode, record |-> t.DoNotDispatchCommand,
   onWarning |-> t.TheWarningHandler, onError |-> t.TheErrorHandler, code |-> t.LastError]

NoCall(t) == [asked |-> Modifiers(t), said |-> "unsent", sent |-> <<>>]

Frame(at, cc, h) == [at |-> at, cc |-> cc, rc |-> "none", n |-> 0, h |-> h,
                     tolerate |-> FALSE, code |-> "Success"]

InitialTpm2 ==
  [sessions |-> <<>>, TempSessions |-> <<>>, TolerateErrors |-> FALSE,
   TolerateErrorsPermanently |-> 0, ExpectedResponses |-> {}, CurrentCommand |-> NoCommand,
   OuterCommand |-> NoCommand, ResetPp |-> FALSE, LastError |-> "Success",
   CpHashMode |-> FALSE, DoNotDispatchCommand |-> FALSE,
   TheWarningHandler |-> FALSE, TheErrorHandler |-> FALSE, AutoAuthHashAlg |-> "Sha384"]

Init ==
  /\ tpm2 = InitialTpm2
  /\ stack = <<>> /\ ret = "none" /\ tpmSessions = {}
  /\ call = NoCall(InitialTpm2)

Idle      == stack = <<>>
Top       == Last(stack)
Outermost == tpm2.OuterCommand = NoCommand
Raised(r) == r \notin {"none", "true", "false"}
At(where) == ~Idle /\ ret = "none" /\ Top.at = where       (* runs on from there    *)
BackAt(where) == ~Idle /\ ret # "none" /\ Top.at = where   (* a nested call is over *)

Become(f)   == stack' = [stack EXCEPT ![Len(stack)] = f] /\ ret' = "none"
Invoke(f, g) == stack' = Append([stack EXCEPT ![Len(stack)] = f], g) /\ ret' = "none"

(* A response handle is the caller's to use.                               *)
Return(r) ==
  /\ ret' = r
  /\ stack' = IF Len(stack) = 1 THEN <<>>
              ELSE [Front(stack) EXCEPT ![Len(stack) - 1].h = Top.h]

(***************************************************************************)
(* Entering and leaving DispatchMethod.                                    *)
(***************************************************************************)
Entered(t, cc) ==
  [t EXCEPT !.OuterCommand = IF t.CurrentCommand # NoCommand THEN t.CurrentCommand ELSE @,
            !.CurrentCommand = cc]

(* mutant of ClearCommandContext: a nested command ends what is expected   *)
ForgetExpected(t) ==
  IF t.OuterCommand # NoCommand
  THEN [t EXCEPT !.CurrentCommand = t.OuterCommand, !.OuterCommand = NoCommand,
                 !.ExpectedResponses = {}]
  ELSE [t EXCEPT !.ResetPp = FALSE, !.CurrentCommand = NoCommand,
                 !.ExpectedResponses = {}, !.sessions = <<>>,
                 !.TolerateErrors = @ /\ t.TolerateErrorsPermanently > 0]

(* mutant of ClearCommandContext: the sessions stay for the next command   *)
ClearAllButSessions(t) ==
  IF t.OuterCommand # NoCommand
  THEN [t EXCEPT !.CurrentCommand = t.OuterCommand, !.OuterCommand = NoCommand]
  ELSE [t EXCEPT !.ResetPp = FALSE, !.CurrentCommand = NoCommand,
                 !.ExpectedResponses = {},
                 !.TolerateErrors = @ /\ t.TolerateErrorsPermanently > 0]

ClearCommandContext(t) ==
  IF t.OuterCommand # NoCommand
  THEN [t EXCEPT !.CurrentCommand = t.OuterCommand, !.OuterCommand = NoCommand]
  ELSE [t EXCEPT !.ResetPp = FALSE, !.CurrentCommand = NoCommand,
                 !.ExpectedResponses = {}, !.sessions = <<>>,
                 !.TolerateErrors = @ /\ t.TolerateErrorsPermanently > 0]

(***************************************************************************)
(* The application calls a modifier between two commands.                  *)
(***************************************************************************)
Modify(modifier, t) ==
  /\ Idle /\ modifier \in Offered
  /\ tpm2' = t /\ call' = NoCall(t) /\ ret' = "none"
  /\ UNCHANGED <<stack, tpmSessions>>

SetSessions == \E s \in SessionLists : Modify("SetSessions", [tpm2 EXCEPT !.sessions = s])
AllowErrors == Modify("AllowErrors", [tpm2 EXCEPT !.TolerateErrors = TRUE])

ExpectResponses == \E codes \in SUBSET (Errors \cup {"Success"}) :
  Modify("ExpectResponses",
         [tpm2 EXCEPT !.ExpectedResponses = IF codes = {"Success"} THEN {} ELSE codes])

ExpectMoreResponses == \E codes \in (SUBSET Errors) \ {{}} :
  Modify("ExpectMoreResponses",
         [tpm2 EXCEPT !.ExpectedResponses = codes \cup (IF @ = {} THEN {"Success"} ELSE @)])

DisableExceptions ==
  /\ tpm2.TolerateErrorsPermanently < MaxPermanent
  /\ Modify("DisableExceptions",
            [tpm2 EXCEPT !.TolerateErrorsPermanently = @ + 1,
                         !.TolerateErrors = @ \/ tpm2.TolerateErrorsPermanently + 1 > 0])

EnableExceptions ==
  /\ tpm2.TolerateErrorsPermanently > -MaxPermanent
  /\ Modify("EnableExceptions",
            [tpm2 EXCEPT !.TolerateErrorsPermanently = @ - 1,
                         !.TolerateErrors = @ /\ tpm2.TolerateErrorsPermanently - 1 > 0])

AssertPhysicalPresence == Modify("AssertPhysicalPresence", [tpm2 EXCEPT !.ResetPp = TRUE])

GetCpHash == Modify("GetCpHash", [tpm2 EXCEPT !.CpHashMode = TRUE])

DoNotDispatchCommand ==
  Modify("DoNotDispatchCommand", [tpm2 EXCEPT !.DoNotDispatchCommand = TRUE])

SetWarningHandler ==
  \E on \in BOOLEAN : Modify("SetWarningHandler", [tpm2 EXCEPT !.TheWarningHandler = on])
SetErrorHandler ==
  \E on \in BOOLEAN : Modify("SetErrorHandler", [tpm2 EXCEPT !.TheErrorHandler = on])

(***************************************************************************)
(* DispatchMethod is called, and PrepareRequestSessions.                   *)
(***************************************************************************)
Call(cc) ==
  /\ Idle
  /\ stack' = <<Frame("prepare", cc, NoHandle)>> /\ ret' = "none"
  /\ tpm2' = Entered(tpm2, cc) /\ call' = NoCall(tpm2)
  /\ UNCHANGED tpmSessions

CallOwn(f, cc, h, t) ==
  Invoke(f, Frame("prepare", cc, h)) /\ tpm2' = Entered(t, cc)

(* CancelationCtx remembers TolerateErrors and LastError.                  *)
CallCancelSafe(f, cc, h) ==
  Invoke(f, [Frame("cancelSafe", cc, h) EXCEPT !.tolerate = tpm2.TolerateErrors,
                                               !.code = tpm2.LastError])

(* A session slot the application left open becomes an implicit session,   *)
(* or a password when the device does not ask for HMAC sessions.           *)
RequestSessions(cc) ==
  LET given == tpm2.sessions
      open  == IF NeedsHMAC THEN "Default" ELSE "Pw"
      need  == IF cc \in UserCommands THEN AuthHandles[cc] ELSE 0
  IN  [i \in 1..(IF Len(given) < need THEN need ELSE Len(given)) |->
         IF i > Len(given) \/ given[i] = "Default" THEN open ELSE given[i]]

FirstMissing(ss, i) == ss[i] = "Default" /\ \A j \in 1..(i - 1) : ss[j] # "Default"

AreErrorsExpected(t) ==
  t.OuterCommand = NoCommand /\ t.ExpectedResponses \notin {{}, {"Success"}}
IsErrorAllowed(t, rc) ==
  t.TolerateErrors \/ (AreErrorsExpected(t) /\ rc \in t.ExpectedResponses)

(* mutant of CatchInPrepare: return allowedToContinue                      *)
CatchAndContinue(e) ==
  LET allowed == e # "Exception" /\ IsErrorAllowed(tpm2, e)
  IN  Become([Top EXCEPT !.at = "catchPrepare", !.n = 0, !.rc = IF allowed THEN "true" ELSE e])

(* The raw code of a format-one error names a parameter, too, and is not   *)
(* any of the expected codes.                                              *)
CatchInPrepare(e) ==
  LET allowed == e # "Exception" /\ IsErrorAllowed(tpm2, IF e = "Hash" THEN "raw" ELSE e)
  IN  Become([Top EXCEPT !.at = "catchPrepare", !.n = 0, !.rc = IF allowed THEN "false" ELSE e])

PrepareOwnCommand ==
  /\ At("prepare") /\ ~Outermost
  /\ Become([Top EXCEPT !.at = "send"])
  /\ UNCHANGED <<tpm2, tpmSessions, call>>

StartMissingSession ==
  /\ At("prepare") /\ Outermost
  /\ LET ss == RequestSessions(Top.cc) IN
       /\ \E i \in DOMAIN ss : ss[i] = "Default"
       /\ CallCancelSafe(Top, "StartAuthSession", NoHandle)
       /\ tpm2' = [tpm2 EXCEPT !.sessions = ss]
  /\ UNCHANGED <<tpmSessions, call>>

MissingSessionStarted ==
  /\ BackAt("prepare") /\ Top.n = 0 /\ ret = "true" /\ tpm2.sessions # <<>>
  /\ \E i \in DOMAIN tpm2.sessions :
       /\ FirstMissing(tpm2.sessions, i)
       /\ tpm2' = [tpm2 EXCEPT !.sessions[i] = Top.h, !.TempSessions = Append(@, Top.h)]
  /\ Become(Top)
  /\ UNCHANGED <<tpmSessions, call>>

(* A StartAuthSession that was rate limited took itself for the command of *)
(* the application and cleared the sessions: the slot is not there.        *)
MissingSessionLost ==
  /\ BackAt("prepare") /\ Top.n = 0 /\ ret = "true" /\ tpm2.sessions = <<>>
  /\ CatchInPrepare("Exception")
  /\ UNCHANGED <<tpm2, tpmSessions, call>>

CanFallBack == ret = "Hash" /\ tpm2.AutoAuthHashAlg # "Sha1"
FallBackToNextHash ==
  /\ BackAt("prepare") /\ Top.n = 0 /\ CanFallBack
  /\ tpm2' = [tpm2 EXCEPT !.AutoAuthHashAlg = IF @ = "Sha384" THEN "Sha256" ELSE "Sha1"]
  /\ Become(Top)
  /\ UNCHANGED <<tpmSessions, call>>

MissingSessionFailed ==
  /\ BackAt("prepare") /\ Top.n = 0 /\ Raised(ret) /\ ~CanFallBack
  /\ CatchInPrepare(ret)
  /\ UNCHANGED <<tpm2, tpmSessions, call>>

(* A session of the application is unknown to this Tpm2 object.            *)
WrongSessionHandle ==
  /\ At("prepare") /\ Outermost /\ Top.n = 0
  /\ LET ss == RequestSessions(Top.cc) IN
       /\ \E i \in DOMAIN ss : /\ ss[i] \in UserSessions
                               /\ \A j \in DOMAIN ss : ss[j] = "Default" => j > i
                               /\ \A j \in DOMAIN ss : ss[j] \in Handles => j < i
       /\ tpm2' = [tpm2 EXCEPT !.sessions = ss]
  /\ CatchInPrepare("Exception")
  /\ UNCHANGED <<tpmSessions, call>>

AllSessionsKnown(ss) == \A i \in DOMAIN ss : ss[i] # "Default"

(* n = 1 from here on: a name has been asked for, and the sessions are     *)
(* not looked at again.                                                    *)
Slots == IF Top.n = 0 THEN RequestSessions(Top.cc) ELSE tpm2.sessions

ReadMissingName ==
  /\ At("prepare") /\ Outermost /\ Top.n = 0
  /\ LET ss == RequestSessions(Top.cc) IN
       /\ ss # <<>> /\ AllSessionsKnown(ss)
       /\ CallOwn([Top EXCEPT !.n = 1], "ReadPublic", NoHandle, [tpm2 EXCEPT !.sessions = ss])
  /\ UNCHANGED <<tpmSessions, call>>

(* A TpmException leaves the name empty, any other exception is passed on. *)
NameRead ==
  /\ BackAt("prepare") /\ Top.n = 1
  /\ IF ret = "Exception" THEN CatchInPrepare(ret) ELSE Become(Top)
  /\ UNCHANGED <<tpm2, tpmSessions, call>>

Prepared ==
  /\ At("prepare") /\ Outermost
  /\ AllSessionsKnown(Slots) /\ tpm2' = [tpm2 EXCEPT !.sessions = Slots]
  /\ Become([Top EXCEPT !.at = "send", !.n = 0])
  /\ UNCHANGED <<tpmSessions, call>>

(***************************************************************************)
(* The command is sent, or what the application asked for instead.         *)
(***************************************************************************)
ComputeCpHash ==
  /\ At("send") /\ Top.n = 0 /\ Outermost /\ tpm2.CpHashMode
  /\ tpm2' = ClearCommandContext([tpm2 EXCEPT !.CpHashMode = FALSE])
  /\ Return("true")
  /\ UNCHANGED <<tpmSessions, call>>

RecordCommandBytes ==
  /\ At("send") /\ Top.n = 0 /\ Outermost /\ ~tpm2.CpHashMode /\ tpm2.DoNotDispatchCommand
  /\ tpm2' = ClearCommandContext([tpm2 EXCEPT !.DoNotDispatchCommand = FALSE])
  /\ Return("true")
  /\ UNCHANGED <<tpmSessions, call>>

(* n counts the repetitions on NV_RATE.                                    *)
Sending ==
  At("send") /\ (Outermost /\ Top.n = 0 => ~tpm2.CpHashMode /\ ~tpm2.DoNotDispatchCommand)

(* CreateRequestSessions: a nested command carries no sessions.  They are  *)
(* created once; a repeated command is the same bytes.                     *)
InSessions ==
  IF Top.n > 0 THEN call.sent ELSE IF Outermost THEN tpm2.sessions ELSE <<>>

(* The TPM: what it may answer, the response handle, its sessions then.    *)
(* TpmRc.Retry makes the loop send the same bytes again and changes        *)
(* nothing, so it is no step here.                                         *)
MayBeCanceled == stack[Len(stack) - 1].at # "cancelSafe" \/ stack[Len(stack) - 1].n < MaxCancels

(* The codes in a set, each leaving the TPM as it is; the set if c holds.  *)
Answer(codes) == {<<rc, Top.h, tpmSessions>> : rc \in codes}
When(c, codes) == IF c THEN codes ELSE {}

MayBeLimited == Top.cc \in RateLimited /\ Len(stack) <= MaxDepth

Refusals ==
  Answer(When(MayBeCanceled, {"Canceled"}) \cup When(Top.cc \in Unreliable, Errors)
           \cup When(MayBeLimited /\ Top.n >= MaxNvRetries, {"NvRate"}))

HmacSessionsSent == \E i \in DOMAIN InSessions : InSessions[i] # "Pw"

UserAnswers ==
  Answer(Errors \cup {"Success", "Canceled"} \cup When(HmacSessionsSent, {"Garbled"})
           \cup When(MayBeLimited /\ Top.n >= MaxNvRetries, {"NvRate"}))

StartAnswers ==
  IF tpm2.AutoAuthHashAlg \notin TpmHashes THEN Answer({"Hash"})
  ELSE {<<"Success", h, tpmSessions \cup {h}>> : h \in Handles \ tpmSessions}
         \cup Refusals \cup Answer(When(Handles \subseteq tpmSessions, Errors))

FlushAnswers ==
  Refusals \cup (IF Top.h \in tpmSessions THEN {<<"Success", Top.h, tpmSessions \ {Top.h}>>}
                 ELSE Answer(Errors))

TpmAnswers ==
  CASE Top.cc \in UserCommands                      -> UserAnswers
    [] Top.cc = "StartAuthSession"                  -> StartAnswers
    [] Top.cc = "FlushContext"                      -> FlushAnswers
    [] Top.cc \in {"ReadPublic", "GetCapability"}   -> Refusals \cup Answer({"Success"})

Note(said) ==
  call' = IF Top.cc \in UserCommands
          THEN [call EXCEPT !.said = said, !.sent = InSessions] ELSE call

Execute ==
  /\ Sending
  /\ \E a \in TpmAnswers :
       /\ Become([Top EXCEPT !.at = "flush", !.n = 0, !.rc = a[1], !.h = a[2]])
       /\ tpmSessions' = a[3]
       /\ Note(a[1])
  /\ UNCHANGED tpm2

(* NV_RATE: ask the TPM how long to wait, wait, send again.  When this is  *)
(* for a command of the library, GetCapability is nested in it and leaves  *)
(* OuterCommand empty: the command goes on as if it were the outermost one.*)
NvRate ==
  /\ Sending /\ MayBeLimited /\ Top.n < MaxNvRetries
  /\ CallOwn([Top EXCEPT !.n = @ + 1], "GetCapability", NoHandle, tpm2)
  /\ Note("NvRate")
  /\ UNCHANGED tpmSessions

CatchInSend(e) ==
  /\ Become([Top EXCEPT !.at = "catchSend", !.n = 0, !.rc = e])
  /\ Note("lost")

PropertyRead ==
  /\ BackAt("send")
  /\ \/ ret = "true" /\ Become(Top) /\ UNCHANGED call
     \/ ret = "false" /\ CatchInSend("Exception")
     \/ Raised(ret) /\ CatchInSend(ret)
  /\ UNCHANGED <<tpm2, tpmSessions>>

(* The device throws, before or after the TPM executed the command.        *)
DeviceFails ==
  /\ Sending /\ Top.cc \in UserCommands \cup Unreliable
  /\ CatchInSend("Exception")
  /\ \E a \in TpmAnswers : tpmSessions' \in {tpmSessions, a[3]}
  /\ UNCHANGED tpm2

(***************************************************************************)
(* ProcessError, with the processing of a successful response that follows *)
(* it.  The result of DispatchMethod and the Tpm2 object after it.         *)
(***************************************************************************)
Outcome(result, t) == [result |-> result, tpm2 |-> ClearCommandContext(t)]

ProcessSuccess(t, garbled) ==
  LET expected == t.OuterCommand # NoCommand \/ t.ExpectedResponses = {}
                    \/ "Success" \in t.ExpectedResponses
  IN  IF expected THEN Outcome(IF garbled THEN "Exception" ELSE "true", t)
      ELSE Outcome(IF t.TolerateErrors \/ t.TheErrorHandler THEN "false" ELSE "Exception", t)

ProcessFailure(t, rc) ==
  LET silent == IF t.OuterCommand = NoCommand THEN IsErrorAllowed(t, rc) ELSE rc = "Canceled"
  IN  IF silent THEN Outcome("false", t)
      ELSE IF AreErrorsExpected(t) /\ t.TheWarningHandler
           THEN Outcome("false", ClearCommandContext(t))   (* cleared twice *)
           ELSE Outcome(rc, t)

ProcessError(t, rc) ==
  IF rc \in {"Success", "Garbled"}
  THEN ProcessSuccess([t EXCEPT !.LastError = "Success"], rc = "Garbled")
  ELSE ProcessFailure([t EXCEPT !.LastError = rc], rc)

(***************************************************************************)
(* ClearCommandPrelaunchContext flushes the sessions created for the       *)
(* command, then the result is processed or the exception passed on.       *)
(***************************************************************************)
Leaving   == {"flush", "catchPrepare", "catchSend"}

FlushLeft == Outermost /\ Top.n < Len(tpm2.TempSessions)

FlushTempSession ==
  /\ \E where \in Leaving : At(where)
  /\ FlushLeft
  /\ CallCancelSafe([Top EXCEPT !.n = @ + 1], "FlushContext", tpm2.TempSessions[Top.n + 1])
  /\ UNCHANGED <<tpm2, tpmSessions, call>>

(* A FlushContext that was rate limited has emptied the list under the     *)
(* loop that flushes it, and the enumerator throws.                        *)
ListChanged == Top.n > Len(tpm2.TempSessions)

TempSessionFlushed ==
  /\ \E where \in Leaving : BackAt(where)
  /\ ret = "true" /\ ~ListChanged
  /\ Become(Top)
  /\ UNCHANGED <<tpm2, tpmSessions, call>>

(* Nothing clears the command context here.  The handler of the sending    *)
(* loop swallows this exception, and rethrows the one it caught.           *)
FlushThrows ==
  /\ \E where \in Leaving : BackAt(where)
  /\ Raised(ret) \/ ListChanged
  /\ Return(IF Top.at = "catchSend" THEN Top.rc ELSE IF Raised(ret) THEN ret ELSE "Exception")
  /\ UNCHANGED <<tpm2, tpmSessions, call>>

ClearCommandPrelaunchContext ==
  IF Outermost THEN [tpm2 EXCEPT !.TempSessions = <<>>] ELSE tpm2

FinishCommand ==
  /\ At("flush") /\ ~FlushLeft
  /\ LET o == ProcessError(ClearCommandPrelaunchContext, Top.rc)
     IN  tpm2' = o.tpm2 /\ Return(o.result)
  /\ UNCHANGED <<tpmSessions, call>>

FinishCatch ==
  /\ At("catchPrepare") \/ At("catchSend")
  /\ ~FlushLeft
  /\ tpm2' = ClearCommandContext(ClearCommandPrelaunchContext)
  /\ Return(Top.rc)
  /\ UNCHANGED <<tpmSessions, call>>

(***************************************************************************)
(* CancelSafeStartAuthSession and CancelSafeFlushContext; n counts the     *)
(* attempts.                                                               *)
(***************************************************************************)
Attempt ==
  /\ At("cancelSafe")
  /\ CallOwn(Top, Top.cc, Top.h, [tpm2 EXCEPT !.TolerateErrors = TRUE])
  /\ UNCHANGED <<tpmSessions, call>>

(* mutant of NeedRetry: ++attempt                                          *)
NeedRetryEarlier == tpm2.LastError = "Canceled" /\ Top.n + 1 < MaxAttempts

NeedRetry == tpm2.LastError = "Canceled" /\ Top.n < MaxAttempts

(* mutant of AttemptAgain: the attempts are not counted                    *)
AttemptForever ==
  /\ BackAt("cancelSafe") /\ ~Raised(ret) /\ NeedRetry
  /\ Become(Top)
  /\ UNCHANGED <<tpm2, tpmSessions, call>>

AttemptAgain ==
  /\ BackAt("cancelSafe") /\ ~Raised(ret) /\ NeedRetry
  /\ Become([Top EXCEPT !.n = @ + 1])
  /\ UNCHANGED <<tpm2, tpmSessions, call>>

(* mutant of AttemptsDone: the handle is not looked at                     *)
AttemptsDoneUnchecked ==
  /\ BackAt("cancelSafe") /\ ~Raised(ret) /\ ~NeedRetry
  /\ tpm2' = [tpm2 EXCEPT !.TolerateErrors = Top.tolerate, !.LastError = Top.code]
  /\ Return("true")
  /\ UNCHANGED <<tpmSessions, call>>

(* A session whose creation was canceled to the end, or not sent at all,   *)
(* has no session handle, and AuthSession's constructor throws.            *)
AttemptsDone ==
  /\ BackAt("cancelSafe") /\ ~Raised(ret) /\ ~NeedRetry
  /\ tpm2' = [tpm2 EXCEPT !.TolerateErrors = Top.tolerate, !.LastError = Top.code]
  /\ Return(IF Top.cc = "FlushContext" \/ (ret = "true" /\ Top.h # NoHandle) THEN "true"
            ELSE "Exception")
  /\ UNCHANGED <<tpmSessions, call>>

(* The exception skips CancelationCtx.Done.                                *)
AttemptThrows ==
  /\ BackAt("cancelSafe") /\ Raised(ret)
  /\ Return(ret)
  /\ UNCHANGED <<tpm2, tpmSessions, call>>

Application ==
  \/ SetSessions \/ AllowErrors \/ ExpectResponses \/ ExpectMoreResponses
  \/ DisableExceptions \/ EnableExceptions \/ AssertPhysicalPresence
  \/ GetCpHash \/ DoNotDispatchCommand \/ SetWarningHandler \/ SetErrorHandler
  \/ \E cc \in UserCommands : Call(cc)

Library ==
  \/ PrepareOwnCommand \/ StartMissingSession \/ MissingSessionStarted \/ MissingSessionLost
  \/ FallBackToNextHash
  \/ MissingSessionFailed \/ WrongSessionHandle \/ ReadMissingName \/ NameRead \/ Prepared
  \/ ComputeCpHash \/ RecordCommandBytes \/ Execute \/ NvRate \/ PropertyRead \/ DeviceFails
  \/ FlushTempSession \/ TempSessionFlushed \/ FlushThrows \/ FinishCommand \/ FinishCatch
  \/ Attempt \/ AttemptAgain \/ AttemptsDone \/ AttemptThrows

Next == Application \/ Library

(* The thread that called the library runs on until the call returns, and  *)
(* the TPM answers; nothing makes the application call.                    *)
Spec == Init /\ [][Next]_vars /\ WF_vars(Library)

(***************************************************************************)
(* Properties.                                                             *)
(***************************************************************************)
Tpm2Type ==
  [sessions : Seq(UserSessions \cup Handles \cup {"Default", "Pw"}), TempSessions : Seq(Handles),
   TolerateErrors : BOOLEAN, TolerateErrorsPermanently : -MaxPermanent..MaxPermanent,
   ExpectedResponses : SUBSET (Errors \cup {"Success"}),
   CurrentCommand : UserCommands \cup OwnCommands \cup {NoCommand},
   OuterCommand : UserCommands \cup OwnCommands \cup {NoCommand},
   ResetPp : BOOLEAN, LastError : ErrorCodes \cup {"Success"},
   CpHashMode : BOOLEAN, DoNotDispatchCommand : BOOLEAN,
   TheWarningHandler : BOOLEAN, TheErrorHandler : BOOLEAN, AutoAuthHashAlg : HashAlgs]

FrameType ==
  [at : {"prepare", "send", "flush", "catchPrepare", "catchSend", "cancelSafe"},
   cc : UserCommands \cup OwnCommands, n : Nat,
   rc : Answers \cup {"none", "true", "false", "Exception"},
   h : Handles \cup {NoHandle}, tolerate : BOOLEAN, code : ErrorCodes \cup {"Success"}]

(* The types of the variables.  The application's command is the outermost *)
(* activation, and no other one is of a command of the application.        *)
TypeOK ==
  /\ tpm2 \in Tpm2Type
  /\ stack \in Seq(FrameType)
  /\ \A i \in DOMAIN stack : i = 1 <=> stack[i].cc \in UserCommands
  /\ ret \in ErrorCodes \cup {"none", "true", "false", "Exception"}
  /\ tpmSessions \subseteq Handles
  /\ call.said \in Answers \cup {"unsent", "lost"}
  /\ call.sent \in Seq(UserSessions \cup Handles \cup {"Default", "Pw"})

Returned == Idle /\ ret # "none"

(* A command that returns TRUE was executed by the TPM with success, or    *)
(* was not to be executed: neither an error that the library tolerates for *)
(* its own commands nor one that was lost in a handler passes for success. *)
TrueMeansDone ==
  Returned /\ ret = "true" =>
    call.said \in {"Success", "Garbled"} \/ call.asked.cpHash \/ call.asked.record

(* A command is not sent with an implicit session that the TPM no longer   *)
(* has: neither a failed flush nor a command that was given up leaves one  *)
(* in the list that the next command takes over.                           *)
NoDeadSession ==
  ~Idle /\ Top.at = "send" /\ Top.cc \in UserCommands =>
    \A i \in DOMAIN InSessions : InSessions[i] \in Handles => InSessions[i] \in tpmSessions

(* The sessions that the library creates for a command are flushed when    *)
(* the command returns (Tpm2.cs: "These sessions are flushed upon the      *)
(* command completion"), whatever its result.  Only the sessions of a      *)
(* command that was not sent at the application's request stay; they are   *)
(* still listed, and the next command flushes them, were it only because   *)
(* the TPM has no session left for it.                                     *)
TemporarySessionsAreFlushed ==
  /\ Idle => tpmSessions \subseteq {tpm2.TempSessions[i] : i \in DOMAIN tpm2.TempSessions}
  /\ Returned /\ (call.said # "unsent" \/ ret # "true") => tpmSessions = {}

(* "By default, Tpm2 throws an exception when an error is returned by the  *)
(* TPM" (Tpm2.cs): a command returns FALSE only to an application that     *)
(* asked for errors to be tolerated or expected.                           *)
ErrorsAreReported ==
  Returned /\ ret = "false" => call.asked.tolerate \/ call.asked.expected # {}

(* As long as the library's own sessions can be created and flushed, the   *)
(* object keeps the promise of OneShot.                                    *)
Promise == INSTANCE OneShot WITH
  pending <- IF Idle THEN Modifiers(tpm2) ELSE call.asked, running <- ~Idle,
  said <- call.said, sent <- call.sent, reply <- IF Idle THEN ret ELSE "none"

ModifiersAreOneShot == Promise!Spec

(* Every call returns: the retries on NV_RATE, on cancellation and with    *)
(* another hash algorithm all end.                                         *)
CallReturns == ~Idle ~> Idle

=============================================================================
