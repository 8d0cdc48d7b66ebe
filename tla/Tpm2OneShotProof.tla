-------------------------- MODULE Tpm2OneShotProof --------------------------
(***************************************************************************)
(* Proofs about Tpm2Dispatch when the library can create and flush its own *)
(* sessions, unless the TPM has no session left: the sessions are all      *)
(* flushed when the command returns, and the object keeps the promise of   *)
(* OneShot, every modifier being of one command.  Commands of the          *)
(* application, the names it reads and the device may still fail in every  *)
(* way, and its own commands may be canceled.                              *)
(***************************************************************************)
EXTENDS Tpm2DispatchProof

(* The commands with which the library creates and flushes its sessions    *)
(* are not failed, and not canceled more often than they are attempted.    *)
(* StartAuthSession is still refused when the TPM has no session left.     *)
Reliable ==
  /\ Unreliable \cap CancelSafe = {} /\ MaxCancels <= MaxAttempts
  /\ "Sha384" \in TpmHashes /\ NestedUnlimited

-----------------------------------------------------------------------------
(* The invariant, by the depth of the call stack as IInv.                  *)

(* The first k of the temporary sessions are flushed, the others are in    *)
(* the TPM, with those in extra that the list does not have (yet).         *)
Remaining(k) == {tpm2.TempSessions[i] : i \in k + 1 .. Len(tpm2.TempSessions)}
Distinct(s)  == \A i, j \in DOMAIN s : s[i] = s[j] => i = j
Held(k, extra) ==
  /\ Distinct(tpm2.TempSessions)
  /\ tpmSessions = Remaining(k) \cup extra /\ Remaining(k) \cap extra = {}

(* What was asked of the command is what the object still says.            *)
Asked(tolerate) ==
  call.asked =
    [sessions |-> call.asked.sessions, tolerate |-> tolerate,
     permanent |-> tpm2.TolerateErrorsPermanently, expected |-> tpm2.ExpectedResponses,
     presence |-> tpm2.ResetPp, cpHash |-> tpm2.CpHashMode, record |-> tpm2.DoNotDispatchCommand,
     onWarning |-> tpm2.TheWarningHandler, onError |-> tpm2.TheErrorHandler,
     code |-> call.asked.code]

(* When the preparation is given up, errors may have stayed tolerated, and *)
(* the result "false" comes with the code of one.                          *)
StillAsked(f, tolerate, code) ==
  IF f.at = "catchPrepare"
  THEN /\ Asked(call.asked.tolerate) /\ (call.asked.tolerate => tolerate)
       /\ f.rc = "false" => code # "Success"
  ELSE Asked(tolerate)

(* A session was to be started, and the TPM had none left.                 *)
NoneLeft(f) == f.at = "prepare" /\ f.n = 0 /\ ret \in Errors

(* What the command was sent with, and what is known of the answer.        *)
Progress(f) ==
  /\ f.at = "prepare" \/ (f.at = "send" /\ f.n = 0) =>
       /\ call.said = "unsent" /\ call.sent = <<>>
       /\ Promise!Completes(call.asked.sessions, tpm2.sessions)
  /\ f.at = "prepare" /\ f.n > 0 => AllSessionsKnown(RequestSessions(f.cc))
  /\ f.at = "send" /\ f.n > 0 =>
       /\ call.said = "NvRate" /\ Promise!Completes(call.asked.sessions, call.sent)
       /\ ~call.asked.cpHash /\ ~call.asked.record
  /\ f.at \in {"flush", "catchSend"} =>
       call.said # "unsent" /\ ~call.asked.cpHash /\ ~call.asked.record
  /\ f.at = "catchSend"    => call.said = "lost" /\ Raised(f.rc)
  /\ f.at = "catchPrepare" => call.said = "unsent" /\ (Raised(f.rc) \/ f.rc = "false")

Flushed(f) == IF f.at \in Leaving THEN f.n ELSE 0

(* No name is asked for before the sessions are created.  The session that *)
(* is being flushed is the last one taken from the list.                   *)
Serves(f, g) ==
  /\ g.cc = "StartAuthSession" => f.n = 0 /\ tpm2.sessions # <<>>
  /\ g.cc = "FlushContext" => f.n \in DOMAIN tpm2.TempSessions /\ g.h = tpm2.TempSessions[f.n]

(* A session that was created is in the TPM, one that was flushed is not.  *)
Doing(g, done) == IF done <=> g.cc = "StartAuthSession" THEN {g.h} ELSE {}

ReliableIdle ==
  /\ tpm2.CurrentCommand = NoCommand
  /\ tpm2.TolerateErrorsPermanently > 0 => tpm2.TolerateErrors
  /\ Held(0, {})
  /\ ret # "none" /\ (call.said # "unsent" \/ ret # "true") => tpmSessions = {}

ReliableUser(f) ==
  /\ Outermost /\ Progress(f)
  /\ IF NoneLeft(f)
     THEN Asked(call.asked.tolerate) /\ tpm2.TolerateErrors /\ tpm2.LastError = ret
     ELSE StillAsked(f, tpm2.TolerateErrors, tpm2.LastError)
  /\ f.at = "prepare" /\ f.n = 0 =>
       ret = "none" \/ ret \in Errors \/ (ret = "true" /\ tpm2.sessions # <<>>)
  /\ f.at \in Leaving => ret = "none" \/ (ret = "true" /\ f.n \in DOMAIN tpm2.TempSessions)
  /\ f.at = "send" /\ ret # "none" => f.n > 0
  /\ Held(Flushed(f), IF f.at = "prepare" /\ f.n = 0 /\ ret = "true" THEN {f.h} ELSE {})

ReliableOwn(f) == Progress(f) /\ Asked(tpm2.TolerateErrors) /\ Held(0, {})

ReliableCancelSafe(f, g) ==
  /\ Progress(f) /\ StillAsked(f, g.tolerate, g.code) /\ Serves(f, g)
  /\ \/ ret = "none"
     \/ ret = "true" /\ tpm2.LastError # "Canceled"
     \/ ret = "false" /\ tpm2.LastError = "Canceled" /\ g.n < MaxAttempts
     \/ /\ g.cc = "StartAuthSession" /\ ret \in Errors
        /\ tpm2.LastError = ret /\ tpm2.TolerateErrors
  /\ Held(Flushed(f), Doing(g, ret = "true"))

ReliableAttempt(f, g, h) ==
  /\ Progress(f) /\ StillAsked(f, g.tolerate, g.code) /\ Serves(f, h)
  /\ h.at \in {"prepare", "send", "flush"} /\ tpm2.TolerateErrors
  /\ h.at = "flush" => \/ h.rc = "Success" \/ (h.rc = "Canceled" /\ g.n < MaxAttempts)
                       \/ h.cc = "StartAuthSession" /\ h.rc \in Errors
  /\ Held(Flushed(f), Doing(h, h.at = "flush" /\ h.rc = "Success"))

Common ==
  /\ tpm2.AutoAuthHashAlg = "Sha384" /\ call.asked.sessions \in Seq(Sessions)
  /\ call.asked.permanent > 0 => call.asked.tolerate

RInv ==
  /\ Common
  /\ Idle => ReliableIdle
  /\ Len(stack) = 1 => ReliableUser(stack[1])
  /\ Len(stack) = 2 => IF stack[2].at = "cancelSafe" THEN ReliableCancelSafe(stack[1], stack[2])
                       ELSE ReliableOwn(stack[1])
  /\ Len(stack) = 3 => ReliableAttempt(stack[1], stack[2], stack[3])

-----------------------------------------------------------------------------
(* How the invariant follows a change of the call stack.                   *)

LEMMA RUserBecomes ==
  ASSUME IInv, ~Idle, Len(stack) = 1, NEW f \in FrameType, Become(f),
         Common', ReliableUser(f)'
  PROVE  RInv' /\ ~Idle'
<1>1. Len(stack') = 1 /\ stack'[1] = f /\ ~Idle'
  BY BecomeStack DEF IInv
<1>2. ReliableUser(stack[1])'
  BY <1>1
<1> QED BY <1>1, <1>2 DEF RInv

LEMMA RUserInvokes ==
  ASSUME IInv, ~Idle, Len(stack) = 1, NEW f \in FrameType, NEW g \in FrameType, Invoke(f, g),
         Common', g.at = "cancelSafe" => ReliableCancelSafe(f, g)',
         g.at # "cancelSafe" => ReliableOwn(f)'
  PROVE  RInv' /\ ~Idle'
<1>1. Len(stack') = 2 /\ stack'[1] = f /\ stack'[2] = g /\ ~Idle'
  BY InvokeStack DEF IInv
<1>2. /\ g.at = "cancelSafe" => ReliableCancelSafe(stack[1], stack[2])'
      /\ g.at # "cancelSafe" => ReliableOwn(stack[1])'
  BY <1>1
<1> QED BY <1>1, <1>2 DEF RInv

LEMMA RUserReturns ==
  ASSUME IInv, ~Idle, Len(stack) = 1, NEW r, Return(r), Common', ReliableIdle'
  PROVE  RInv' /\ Idle'
<1>1. Len(stack') = 0 /\ Idle'
  BY ReturnStack DEF IInv
<1> QED BY <1>1 DEF RInv

LEMMA ROwnBecomes ==
  ASSUME IInv, ~Idle, Len(stack) = 2, NEW f, f = stack[1], NEW g \in FrameType, Become(g),
         Common', g.at = "cancelSafe" => ReliableCancelSafe(f, g)',
         g.at # "cancelSafe" => ReliableOwn(f)'
  PROVE  RInv' /\ ~Idle'
<1>1. Len(stack') = 2 /\ stack'[1] = f /\ stack'[2] = g /\ ~Idle'
  BY BecomeStack DEF IInv
<1>2. /\ g.at = "cancelSafe" => ReliableCancelSafe(stack[1], stack[2])'
      /\ g.at # "cancelSafe" => ReliableOwn(stack[1])'
  BY <1>1
<1> QED BY <1>1, <1>2 DEF RInv

LEMMA RCancelSafeInvokes ==
  ASSUME IInv, ~Idle, Len(stack) = 2, NEW f, f = stack[1], NEW g \in FrameType,
         NEW h \in FrameType, Invoke(g, h), Common', ReliableAttempt(f, g, h)'
  PROVE  RInv' /\ ~Idle'
<1>1. Len(stack') = 3 /\ stack'[1] = f /\ stack'[2] = g /\ stack'[3] = h /\ ~Idle'
  BY InvokeStack DEF IInv
<1>2. ReliableAttempt(stack[1], stack[2], stack[3])'
  BY <1>1
<1> QED BY <1>1, <1>2 DEF RInv

LEMMA RAttemptBecomes ==
  ASSUME IInv, ~Idle, Len(stack) = 3, NEW f, f = stack[1], NEW g, g = stack[2],
         NEW h \in FrameType, Become(h), Common', ReliableAttempt(f, g, h)'
  PROVE  RInv' /\ ~Idle'
<1>1. Len(stack') = 3 /\ stack'[1] = f /\ stack'[2] = g /\ stack'[3] = h /\ ~Idle'
  BY BecomeStack DEF IInv
<1>2. ReliableAttempt(stack[1], stack[2], stack[3])'
  BY <1>1
<1> QED BY <1>1, <1>2 DEF RInv

(* The rest of the invariant says nothing of a command that runs on.       *)
LEMMA UserGoesOn ==
  ASSUME NEW f, ret' = "none", Outermost', Progress(f)',
         StillAsked(f, tpm2.TolerateErrors, tpm2.LastError)', Held(Flushed(f), {})'
  PROVE  ReliableUser(f)'
<1>1. ret' # "true" /\ ret' \notin Errors
  BY DispatchAssumption
<1>2. Held(Flushed(f), IF f.at = "prepare" /\ f.n = 0 /\ ret = "true" THEN {f.h} ELSE {})'
  BY <1>1 DEF Held
<1> QED BY <1>1, <1>2 DEF ReliableUser, NoneLeft

LEMMA UserAsked ==
  ASSUME NEW f, ReliableUser(f)
  PROVE  /\ Asked(call.asked.tolerate) /\ (call.asked.tolerate => tpm2.TolerateErrors)
         /\ f.at # "catchPrepare" /\ ret \notin Errors => Asked(tpm2.TolerateErrors)
<1>1. ASSUME NEW b, Asked(b) PROVE call.asked.tolerate = b
  BY <1>1 DEF Asked
<1>2. ASSUME Asked(tpm2.TolerateErrors)
      PROVE  Asked(call.asked.tolerate) /\ call.asked.tolerate = tpm2.TolerateErrors
  BY <1>1, <1>2
<1>3. CASE NoneLeft(f)
  BY <1>3 DEF ReliableUser, NoneLeft
<1>4. CASE ~NoneLeft(f) /\ f.at = "catchPrepare"
  BY <1>4 DEF ReliableUser, StillAsked
<1>5. CASE ~NoneLeft(f) /\ f.at # "catchPrepare"
  BY <1>2, <1>5 DEF ReliableUser, StillAsked
<1> QED BY <1>3, <1>4, <1>5

LEMMA RBackToUser ==
  ASSUME IInv, ~Idle, Len(stack) = 2, NEW f, f = stack[1], NEW g, g = Top, NEW r, Return(r),
         Common', Outermost', Progress(f)',
         \/ r \notin Errors /\ StillAsked(f, tpm2.TolerateErrors, tpm2.LastError)'
         \/ f.at # "prepare" /\ StillAsked(f, tpm2.TolerateErrors, tpm2.LastError)'
         \/ f.at = "prepare" /\ f.n # 0 /\ StillAsked(f, tpm2.TolerateErrors, tpm2.LastError)'
         \/ /\ f.at = "prepare" /\ f.n = 0 /\ r \in Errors
            /\ Asked(call.asked.tolerate)' /\ tpm2'.TolerateErrors /\ tpm2'.LastError = r,
         f.at = "prepare" /\ f.n = 0 => r \in Errors \/ (r = "true" /\ tpm2'.sessions # <<>>),
         f.at \in Leaving => r = "true" /\ f.n \in DOMAIN tpm2'.TempSessions,
         f.at = "send" => f.n > 0,
         Held(Flushed(f), IF f.at = "prepare" /\ f.n = 0 /\ r = "true" THEN {g.h} ELSE {})'
  PROVE  RInv' /\ ~Idle'
<1>0. PICK u : u = [f EXCEPT !.h = g.h]
  OBVIOUS
<1>1. Len(stack') = 1 /\ stack'[1] = u /\ ret' = r /\ ~Idle'
  BY <1>0, ReturnStack DEF IInv
<1>2. f \in FrameType
  BY TopFrame
<1>3. u.at = f.at /\ u.cc = f.cc /\ u.n = f.n /\ u.rc = f.rc /\ u.h = g.h
  BY <1>0, <1>2 DEF FrameType
<1>4. Progress(u)'
  BY <1>3 DEF Progress
<1>5. Held(Flushed(u), IF u.at = "prepare" /\ u.n = 0 /\ ret = "true" THEN {u.h} ELSE {})'
  <2>1. Flushed(u) = Flushed(f)
    BY <1>3 DEF Flushed
  <2>2. (IF u.at = "prepare" /\ u.n = 0 /\ r = "true" THEN {u.h} ELSE {})
          = IF f.at = "prepare" /\ f.n = 0 /\ r = "true" THEN {g.h} ELSE {}
    BY <1>3
  <2> QED BY <1>1, <2>1, <2>2
<1>6. IF NoneLeft(u)' THEN Asked(call.asked.tolerate)' /\ tpm2'.TolerateErrors /\ tpm2'.LastError = ret'
      ELSE StillAsked(u, tpm2.TolerateErrors, tpm2.LastError)'
  <2>1. NoneLeft(u)' <=> f.at = "prepare" /\ f.n = 0 /\ r \in Errors
    BY <1>1, <1>3 DEF NoneLeft
  <2>2. StillAsked(f, tpm2.TolerateErrors, tpm2.LastError)'
          => StillAsked(u, tpm2.TolerateErrors, tpm2.LastError)'
    BY <1>3 DEF StillAsked
  <2> QED BY <1>1, <2>1, <2>2
<1>7. ReliableUser(u)'
  BY <1>1, <1>3, <1>4, <1>5, <1>6 DEF ReliableUser
<1>8. ReliableUser(stack[1])'
  BY <1>1, <1>7
<1> QED BY <1>1, <1>8 DEF RInv

LEMMA RBackToCancelSafe ==
  ASSUME IInv, ~Idle, Len(stack) = 3, NEW f, f = stack[1], NEW g, g = stack[2],
         CancelSafeFrame(g), NEW h, h = Top, h.cc = g.cc, NEW r, Return(r), Common',
         Progress(f)', StillAsked(f, g.tolerate, g.code)', Serves(f, h)',
         \/ r = "true" /\ tpm2'.LastError # "Canceled"
         \/ r = "false" /\ tpm2'.LastError = "Canceled" /\ g.n < MaxAttempts
         \/ /\ g.cc = "StartAuthSession" /\ r \in Errors
            /\ tpm2'.LastError = r /\ tpm2'.TolerateErrors,
         Held(Flushed(f), Doing(h, r = "true"))'
  PROVE  RInv' /\ ~Idle'
<1>0. PICK u : u = [g EXCEPT !.h = h.h]
  OBVIOUS
<1>1. /\ Len(stack') = 2 /\ stack'[1] = f /\ stack'[2] = u /\ ret' = r /\ ~Idle'
  BY <1>0, ReturnStack DEF IInv
<1>2. /\ u.at = "cancelSafe" /\ u.cc = h.cc /\ u.n = g.n /\ u.h = h.h
      /\ u.tolerate = g.tolerate /\ u.code = g.code
  BY <1>0 DEF CancelSafeFrame, FrameType
<1>3. Doing(u, r = "true") = Doing(h, r = "true")
  BY <1>2 DEF Doing
<1>4. Serves(f, u)'
  BY <1>2 DEF Serves
<1>5. Held(Flushed(f), Doing(u, ret = "true"))'
  BY <1>1, <1>3
<1>6. ReliableCancelSafe(f, u)'
  BY <1>1, <1>2, <1>4, <1>5 DEF ReliableCancelSafe
<1>7. ReliableCancelSafe(stack[1], stack[2])'
  BY <1>1, <1>6
<1> QED BY <1>1, <1>2, <1>7 DEF RInv

LEMMA HeldKept ==
  ASSUME NEW k, NEW extra, Held(k, extra), tpm2'.TempSessions = tpm2.TempSessions,
         tpmSessions' = tpmSessions
  PROVE  Held(k, extra)'
BY DEF Held, Remaining, Distinct

LEMMA AskedKept ==
  ASSUME NEW b, Asked(b), SameModifiers(tpm2, tpm2'), call'.asked = call.asked
  PROVE  Asked(b)'
BY DEF Asked, SameModifiers

LEMMA StillAskedKept ==
  ASSUME NEW f, NEW b, NEW c, StillAsked(f, b, c), SameModifiers(tpm2, tpm2'),
         call'.asked = call.asked
  PROVE  StillAsked(f, b, c)'
<1>1. CASE f.at = "catchPrepare"
  <2>1. PICK a : a = call.asked.tolerate
    OBVIOUS
  <2>2. Asked(a)'
    BY <1>1, <2>1, AskedKept DEF StillAsked
  <2> QED BY <1>1, <2>1, <2>2 DEF StillAsked
<1>2. CASE f.at # "catchPrepare"
  BY <1>2, AskedKept DEF StillAsked
<1> QED BY <1>1, <1>2

LEMMA ProgressKept ==
  ASSUME NEW f, Progress(f), tpm2'.sessions = tpm2.sessions, call' = call
  PROVE  Progress(f)'
BY DEF Progress, RequestSessions

LEMMA CommonKept ==
  ASSUME Common, tpm2'.AutoAuthHashAlg = tpm2.AutoAuthHashAlg, call'.asked = call.asked
  PROVE  Common'
BY DEF Common

(* A step within the command that tells the application nothing.           *)
Promised == [Promise!Next]_(Promise!vars)

LEMMA Silent ==
  ASSUME ~Idle, ~Idle', call' = call
  PROVE  Promised
BY DEF Promised, Promise!vars

LEMMA RTop ==
  ASSUME IInv, RInv, ~Idle
  PROVE  /\ Len(stack) = 1 /\ Top = stack[1] => ReliableUser(Top)
         /\ Len(stack) = 2 /\ Top = stack[2] /\ Top.at = "cancelSafe" =>
              ReliableCancelSafe(stack[1], Top)
         /\ Len(stack) = 2 /\ Top = stack[2] /\ Top.at # "cancelSafe" => ReliableOwn(stack[1])
         /\ Len(stack) = 3 /\ Top = stack[3] => ReliableAttempt(stack[1], stack[2], Top)
BY DEF RInv

(* The application's command, when it is at the top.                       *)
LEMMA RUserTop ==
  ASSUME IInv, RInv, ~Idle,
         \/ Outermost /\ Top.at # "cancelSafe"
         \/ ret # "none" /\ Top.at # "cancelSafe"
         \/ Top.cc \in UserCommands
  PROVE  /\ Len(stack) = 1 /\ Top.cc \in UserCommands /\ Top \in FrameType /\ UserInv(Top)
         /\ Outermost /\ ReliableUser(Top) /\ DataOK /\ tpm2 \in Tpm2Type /\ Common
<1>1. Len(stack) = 1 /\ Top = stack[1] /\ UserInv(Top) /\ Top.cc \in UserCommands
  BY UserTop
<1>2. ReliableUser(Top) /\ Common
  BY <1>1, RTop DEF RInv
<1> QED BY <1>1, <1>2, TopFrame DEF ReliableUser, IInv, DataOK

-----------------------------------------------------------------------------
(* The sets of sessions.                                                   *)

LEMMA RemainingAll ==
  ASSUME tpm2.TempSessions \in Seq(Handles)
  PROVE  Remaining(0) = {tpm2.TempSessions[i] : i \in DOMAIN tpm2.TempSessions}
BY LenProperties DEF Remaining

LEMMA RemainingNone ==
  ASSUME tpm2.TempSessions \in Seq(Handles), NEW k \in Nat, ~(k < Len(tpm2.TempSessions))
  PROVE  Remaining(k) = {}
BY LenProperties DEF Remaining

(* The next session is taken from the list to be flushed.                  *)
LEMMA TakeNext ==
  ASSUME tpm2.TempSessions \in Seq(Handles), NEW k \in Nat, k < Len(tpm2.TempSessions),
         Held(k, {})
  PROVE  /\ k + 1 \in DOMAIN tpm2.TempSessions
         /\ Held(k + 1, {tpm2.TempSessions[k + 1]})
<1> DEFINE s == tpm2.TempSessions
<1>1. Len(s) \in Nat /\ DOMAIN s = 1 .. Len(s)
  BY LenProperties
<1>2. k + 1 \in DOMAIN s
  BY <1>1
<1>3. Remaining(k) = Remaining(k + 1) \cup {s[k + 1]}
  <2>1. k + 1 .. Len(s) = (k + 1 + 1 .. Len(s)) \cup {k + 1}
    BY <1>1
  <2> QED BY <2>1 DEF Remaining
<1>4. s[k + 1] \notin Remaining(k + 1)
  <2> SUFFICES ASSUME NEW i \in k + 1 + 1 .. Len(s), s[i] = s[k + 1] PROVE FALSE
    BY DEF Remaining
  <2>1. i \in DOMAIN s /\ i # k + 1
    BY <1>1
  <2> QED BY <1>2, <2>1 DEF Held, Distinct
<1> QED BY <1>2, <1>3, <1>4 DEF Held

(* A session that was created is put on the list.                          *)
LEMMA PutLast ==
  ASSUME tpm2.TempSessions \in Seq(Handles), NEW h \in Handles, Held(0, {h}),
         tpm2'.TempSessions = Append(tpm2.TempSessions, h), tpmSessions' = tpmSessions
  PROVE  Held(0, {})'
<1>0. PICK s, t : s = tpm2.TempSessions /\ t = Append(s, h)
  OBVIOUS
<1>1. Len(s) \in Nat /\ DOMAIN s = 1 .. Len(s)
  BY <1>0, LenProperties
<1>2. /\ t \in Seq(Handles) /\ Len(t) = Len(s) + 1
      /\ \A i \in 1 .. Len(s) : t[i] = s[i]
      /\ t[Len(s) + 1] = h
  BY <1>0, AppendProperties
<1>3. DOMAIN t = 1 .. Len(s) + 1
  BY <1>2, LenProperties
<1>4. \A i \in 1 .. Len(s) + 1 : i \in 1 .. Len(s) \/ i = Len(s) + 1
  BY <1>1
<1>5. \A i \in 1 .. Len(s) : s[i] # h
  BY <1>0, <1>1, RemainingAll DEF Held
<1>6. Distinct(t)
  BY <1>0, <1>1, <1>2, <1>3, <1>4, <1>5 DEF Distinct, Held
<1>7. {t[i] : i \in 1 .. Len(s) + 1} = {s[i] : i \in 1 .. Len(s)} \cup {h}
  <2>1. \A i \in 1 .. Len(s) : i \in 1 .. Len(s) + 1
    BY <1>1
  <2>2. Len(s) + 1 \in 1 .. Len(s) + 1
    BY <1>1
  <2> QED BY <1>2, <1>4, <2>1, <2>2
<1>8. tpmSessions = {s[i] : i \in 1 .. Len(s)} \cup {h}
  BY <1>0, <1>1, RemainingAll DEF Held
<1>9. Remaining(0)' = {t[i] : i \in 1 .. Len(s) + 1}
  BY <1>0, <1>2 DEF Remaining
<1>10. Remaining(0)' = tpmSessions'
  BY <1>7, <1>8, <1>9
<1> QED BY <1>0, <1>6, <1>10 DEF Held

-----------------------------------------------------------------------------
(* The invariant holds initially, and the application keeps it.            *)

LEMMA RInit == Reliable /\ Init => RInv /\ Promise!Init
<1> SUFFICES ASSUME Reliable, Init PROVE RInv /\ Promise!Init
  OBVIOUS
<1>1. /\ tpm2 = InitialTpm2 /\ stack = <<>> /\ ret = "none" /\ tpmSessions = {}
      /\ call = NoCall(InitialTpm2)
  BY DEF Init
<1>2. /\ Idle /\ Len(stack) = 0
      /\ InitialTpm2.TempSessions = <<>> /\ InitialTpm2.sessions = <<>>
      /\ ~InitialTpm2.TolerateErrors /\ InitialTpm2.TolerateErrorsPermanently = 0
      /\ InitialTpm2.CurrentCommand = NoCommand /\ InitialTpm2.ExpectedResponses = {}
      /\ InitialTpm2.AutoAuthHashAlg = "Sha384"
  BY <1>1 DEF InitialTpm2, Idle
<1>3. /\ call.asked = Modifiers(InitialTpm2) /\ call.said = "unsent" /\ call.sent = <<>>
      /\ Modifiers(InitialTpm2).sessions = <<>> /\ Modifiers(InitialTpm2).permanent = 0
      /\ Modifiers(InitialTpm2).expected = {} /\ Modifiers(InitialTpm2).tolerate = FALSE
  BY <1>1, <1>2 DEF NoCall, Modifiers
<1>4. <<>> \in Seq(Sessions) /\ <<>> \in Seq(Handles) /\ DOMAIN <<>> = {}
  BY EmptySeq
<1>5. Common
  BY <1>1, <1>2, <1>3, <1>4 DEF Common
<1>6. Held(0, {})
  BY <1>1, <1>2, <1>4, RemainingAll DEF Held, Distinct
<1>7. ReliableIdle
  BY <1>1, <1>2, <1>3, <1>6 DEF ReliableIdle
<1>8. RInv
  BY <1>2, <1>5, <1>7 DEF RInv
<1>9. Promise!Init
  BY <1>1, <1>2, <1>3 DEF Promise!Init
<1> QED BY <1>8, <1>9

LEMMA ModifyPromised ==
  ASSUME IInv, IInv', RInv, NEW m, NEW t, Modify(m, t),
         t.LastError = tpm2.LastError, t.TempSessions = tpm2.TempSessions,
         t.CurrentCommand = tpm2.CurrentCommand, t.AutoAuthHashAlg = tpm2.AutoAuthHashAlg,
         t.TolerateErrorsPermanently > 0 => t.TolerateErrors
  PROVE  RInv' /\ Promised
<1>1. /\ Idle /\ tpm2' = t /\ call' = NoCall(t) /\ ret' = "none"
      /\ stack' = stack /\ tpmSessions' = tpmSessions
  BY DEF Modify
<1>2. Len(stack') = 0 /\ Idle'
  BY <1>1 DEF Idle
<1>3. ReliableIdle /\ Common
  BY <1>1 DEF RInv
<1>4. t.sessions \in Seq(Sessions)
  BY <1>1 DEF IInv, DataOK, Tpm2Type, Sessions
<1>5. /\ call'.asked = Modifiers(t) /\ call'.said = "unsent" /\ call'.sent = <<>>
      /\ Modifiers(t).sessions = t.sessions /\ Modifiers(t).permanent = t.TolerateErrorsPermanently
      /\ Modifiers(t).tolerate = t.TolerateErrors /\ Modifiers(t).code = t.LastError
  BY <1>1 DEF NoCall, Modifiers
<1>6. Common'
  BY <1>1, <1>3, <1>4, <1>5 DEF Common
<1>7. Held(0, {})'
  BY <1>1, <1>3, HeldKept DEF ReliableIdle
<1>8. ReliableIdle'
  BY <1>1, <1>3, <1>7 DEF ReliableIdle
<1>9. RInv'
  BY <1>2, <1>6, <1>8 DEF RInv
<1>10. Modifiers(tpm2).code = tpm2.LastError
  BY DEF Modifiers
<1>11. Promise!Ask
  BY <1>1, <1>2, <1>5, <1>10 DEF Promise!Ask
<1> QED BY <1>9, <1>11 DEF Promised, Promise!Next

LEMMA ModifiersPromised ==
  ASSUME IInv, IInv', RInv,
         \/ SetSessions \/ AllowErrors \/ ExpectResponses \/ ExpectMoreResponses
         \/ DisableExceptions \/ EnableExceptions \/ AssertPhysicalPresence
         \/ GetCpHash \/ DoNotDispatchCommand \/ SetWarningHandler \/ SetErrorHandler
  PROVE  RInv' /\ Promised
<1>1. tpm2 \in Tpm2Type
  BY DEF IInv, DataOK
<1>2. Idle => (tpm2.TolerateErrorsPermanently > 0 => tpm2.TolerateErrors)
  BY DEF RInv, ReliableIdle
<1>3. ASSUME NEW m, NEW t, Modify(m, t),
             t.TolerateErrorsPermanently = tpm2.TolerateErrorsPermanently,
             t.TolerateErrors = tpm2.TolerateErrors \/ t.TolerateErrors = TRUE,
             t.LastError = tpm2.LastError, t.TempSessions = tpm2.TempSessions,
             t.CurrentCommand = tpm2.CurrentCommand, t.AutoAuthHashAlg = tpm2.AutoAuthHashAlg
      PROVE  RInv' /\ Promised
  BY <1>2, <1>3, ModifyPromised DEF Modify
<1>4. CASE SetSessions
  <2>1. PICK s : Modify("SetSessions", [tpm2 EXCEPT !.sessions = s])
    BY <1>4 DEF SetSessions
  <2> QED BY <1>1, <1>3, <2>1 DEF Tpm2Type
<1>5. CASE AllowErrors
  BY <1>1, <1>3, <1>5 DEF AllowErrors, Tpm2Type
<1>6. CASE ExpectResponses
  <2>1. PICK codes :
          Modify("ExpectResponses",
                 [tpm2 EXCEPT !.ExpectedResponses = IF codes = {"Success"} THEN {} ELSE codes])
    BY <1>6 DEF ExpectResponses
  <2> QED BY <1>1, <1>3, <2>1 DEF Tpm2Type
<1>7. CASE ExpectMoreResponses
  <2>1. PICK codes :
          Modify("ExpectMoreResponses",
                 [tpm2 EXCEPT !.ExpectedResponses = codes \cup (IF @ = {} THEN {"Success"} ELSE @)])
    BY <1>7 DEF ExpectMoreResponses
  <2> QED BY <1>1, <1>3, <2>1 DEF Tpm2Type
<1>8. CASE DisableExceptions
  <2>0. PICK p, b : /\ p = tpm2.TolerateErrorsPermanently + 1
                    /\ b = (tpm2.TolerateErrors \/ tpm2.TolerateErrorsPermanently + 1 > 0)
    OBVIOUS
  <2>1. PICK t : t = [tpm2 EXCEPT !.TolerateErrorsPermanently = p, !.TolerateErrors = b]
    OBVIOUS
  <2>2. Modify("DisableExceptions", t)
    BY <1>1, <1>8, <2>0, <2>1 DEF DisableExceptions, Tpm2Type
  <2>3. /\ t.TolerateErrorsPermanently = p /\ t.TolerateErrors = b
        /\ t.LastError = tpm2.LastError /\ t.TempSessions = tpm2.TempSessions
        /\ t.CurrentCommand = tpm2.CurrentCommand /\ t.AutoAuthHashAlg = tpm2.AutoAuthHashAlg
    BY <1>1, <2>1 DEF Tpm2Type
  <2>4. p > 0 => b
    BY <2>0
  <2> QED BY <2>2, <2>3, <2>4, ModifyPromised
<1>9. CASE EnableExceptions
  <2>0. PICK p, b : /\ p = tpm2.TolerateErrorsPermanently - 1
                    /\ b = (tpm2.TolerateErrors /\ tpm2.TolerateErrorsPermanently - 1 > 0)
    OBVIOUS
  <2>1. PICK t : t = [tpm2 EXCEPT !.TolerateErrorsPermanently = p, !.TolerateErrors = b]
    OBVIOUS
  <2>2. Modify("EnableExceptions", t)
    BY <1>1, <1>9, <2>0, <2>1 DEF EnableExceptions, Tpm2Type
  <2>3. /\ t.TolerateErrorsPermanently = p /\ t.TolerateErrors = b
        /\ t.LastError = tpm2.LastError /\ t.TempSessions = tpm2.TempSessions
        /\ t.CurrentCommand = tpm2.CurrentCommand /\ t.AutoAuthHashAlg = tpm2.AutoAuthHashAlg
    BY <1>1, <2>1 DEF Tpm2Type
  <2>4. p > 0 => b
    <3>1. p > 0 => tpm2.TolerateErrorsPermanently > 0
      BY <1>1, <2>0 DEF Tpm2Type
    <3> QED BY <1>2, <2>0, <2>2, <3>1 DEF Modify
  <2> QED BY <2>2, <2>3, <2>4, ModifyPromised
<1>10. CASE AssertPhysicalPresence
  BY <1>1, <1>3, <1>10 DEF AssertPhysicalPresence, Tpm2Type
<1>11. CASE GetCpHash
  BY <1>1, <1>3, <1>11 DEF GetCpHash, Tpm2Type
<1>12. CASE DoNotDispatchCommand
  BY <1>1, <1>3, <1>12 DEF DoNotDispatchCommand, Tpm2Type
<1>13. CASE SetWarningHandler
  BY <1>1, <1>3, <1>13 DEF SetWarningHandler, Tpm2Type
<1>14. CASE SetErrorHandler
  BY <1>1, <1>3, <1>14 DEF SetErrorHandler, Tpm2Type
<1> QED BY <1>4, <1>5, <1>6, <1>7, <1>8, <1>9, <1>10, <1>11, <1>12, <1>13, <1>14

LEMMA CallPromised ==
  ASSUME IInv, RInv, NEW cc \in UserCommands, Call(cc)
  PROVE  RInv' /\ Promised
<1>0. PICK f : f = Frame("prepare", cc, NoHandle)
  OBVIOUS
<1>1. /\ Idle /\ stack' = <<f>> /\ ret' = "none"
      /\ tpm2' = Entered(tpm2, cc) /\ call' = NoCall(tpm2) /\ tpmSessions' = tpmSessions
  BY <1>0 DEF Call
<1>2. ReliableIdle /\ Common /\ Outermost /\ tpm2 \in Tpm2Type
  BY <1>1, EmptySeq DEF RInv, IInv, Idle, IdleInv, DataOK
<1>3. cc \in Commands
  BY DEF Commands
<1>4. /\ tpm2'.OuterCommand = NoCommand /\ SameModifiers(tpm2, tpm2')
      /\ SameSessions(tpm2, tpm2') /\ tpm2'.TolerateErrors = tpm2.TolerateErrors
      /\ tpm2'.AutoAuthHashAlg = tpm2.AutoAuthHashAlg
  BY <1>1, <1>2, <1>3, EnteredFields DEF ReliableIdle, Outermost
<1>5. f.at = "prepare" /\ f.n = 0
  BY <1>0, <1>3, FrameFacts
<1>6. tpm2.sessions \in Seq(Sessions)
  BY <1>2 DEF Tpm2Type, Sessions
<1>7. call'.asked = Modifiers(tpm2) /\ call'.said = "unsent" /\ call'.sent = <<>>
  BY <1>1 DEF NoCall
<1>8. /\ Modifiers(tpm2).sessions = tpm2.sessions
      /\ Modifiers(tpm2).permanent = tpm2.TolerateErrorsPermanently
      /\ Modifiers(tpm2).tolerate = tpm2.TolerateErrors
  BY DEF Modifiers
<1>9. Common'
  BY <1>2, <1>4, <1>6, <1>7, <1>8 DEF Common, ReliableIdle
<1>10. Progress(f)'
  <2>1. Promise!Completes(tpm2.sessions, tpm2.sessions)
    BY <1>6, LenProperties DEF Promise!Completes
  <2> QED BY <1>4, <1>5, <1>7, <1>8, <2>1 DEF Progress, SameSessions
<1>11. StillAsked(f, tpm2.TolerateErrors, tpm2.LastError)'
  <2>1. Asked(tpm2.TolerateErrors)'
    BY <1>4, <1>7 DEF Asked, Modifiers, SameModifiers
  <2> QED BY <1>5, <2>1 DEF StillAsked
<1>12. Held(0, {})'
  BY <1>1, <1>2, <1>4, HeldKept DEF ReliableIdle, SameSessions
<1>13. ReliableUser(f)'
  <2>1. Flushed(f) = 0 /\ Outermost'
    BY <1>4, <1>5 DEF Flushed, Leaving, Outermost
  <2> QED BY <1>1, <1>10, <1>11, <1>12, <2>1, UserGoesOn
<1>14. Len(stack') = 1 /\ stack'[1] = f /\ ~Idle'
  BY <1>1 DEF Idle
<1>15. ReliableUser(stack[1])'
  BY <1>13, <1>14
<1>16. RInv'
  BY <1>9, <1>14, <1>15 DEF RInv
<1>17. Promise!Start
  BY <1>1, <1>7, <1>14 DEF Promise!Start
<1> QED BY <1>16, <1>17 DEF Promised, Promise!Next

-----------------------------------------------------------------------------
(* The application's command is prepared.                                  *)

LEMMA CompletesMore ==
  ASSUME NEW asked \in Seq(Sessions), NEW given \in Seq(Sessions), NEW ss \in Seq(Sessions),
         Promise!Completes(asked, given), Len(ss) >= Len(given),
         \A i \in 1 .. Len(given) : given[i] # "Default" => ss[i] = given[i]
  PROVE  Promise!Completes(asked, ss)
<1>1. Len(asked) \in Nat /\ Len(given) \in Nat /\ Len(ss) \in Nat
  BY LenProperties
<1> QED BY <1>1 DEF Promise!Completes

LEMMA RequestedMore ==
  ASSUME tpm2 \in Tpm2Type, NEW cc \in UserCommands
  PROVE  LET ss == RequestSessions(cc)
         IN  /\ Len(ss) >= Len(tpm2.sessions) /\ Len(ss) >= AuthHandles[cc]
             /\ \A i \in 1 .. Len(tpm2.sessions) :
                  tpm2.sessions[i] # "Default" => ss[i] = tpm2.sessions[i]
<1>0. PICK given, open, need :
        /\ given = tpm2.sessions /\ open = (IF NeedsHMAC THEN "Default" ELSE "Pw")
        /\ need = AuthHandles[cc]
  OBVIOUS
<1>1. PICK n : n = IF Len(given) < need THEN need ELSE Len(given)
  OBVIOUS
<1>2. PICK ss :
        ss = [i \in 1 .. n |-> IF i > Len(given) \/ given[i] = "Default" THEN open ELSE given[i]]
  OBVIOUS
<1>3. RequestSessions(cc) = ss
  BY <1>0, <1>1, <1>2 DEF RequestSessions
<1>4. Len(given) \in Nat /\ need \in Nat
  <2>1. given \in Seq(Sessions)
    BY <1>0 DEF Tpm2Type, Sessions
  <2> QED BY <1>0, <2>1, LenProperties, DispatchAssumption
<1>5. n \in Nat /\ n >= Len(given) /\ n >= need
  BY <1>1, <1>4
<1>6. Len(ss) = n
  <2>1. ss \in Seq(Sessions) /\ DOMAIN ss = 1 .. n
    BY <1>2, <1>3, RequestedSessions
  <2>2. DOMAIN ss = 1 .. Len(ss) /\ Len(ss) \in Nat
    BY <2>1, LenProperties
  <2> QED BY <1>5, <2>1, <2>2
<1>7. ASSUME NEW i \in 1 .. Len(given), given[i] # "Default" PROVE ss[i] = given[i]
  <2>1. i \in 1 .. n /\ ~(i > Len(given))
    BY <1>4, <1>5
  <2> QED BY <1>2, <1>7, <2>1
<1> QED BY <1>0, <1>3, <1>5, <1>6, <1>7

(* Completing the sessions again changes nothing.                          *)
LEMMA KnownStays ==
  ASSUME tpm2 \in Tpm2Type, tpm2' \in Tpm2Type, NEW cc \in UserCommands,
         AllSessionsKnown(RequestSessions(cc)), tpm2'.sessions = RequestSessions(cc)
  PROVE  AllSessionsKnown(RequestSessions(cc))'
<1>0. PICK given, open, need :
        /\ given = tpm2'.sessions /\ open = (IF NeedsHMAC THEN "Default" ELSE "Pw")
        /\ need = AuthHandles[cc]
  OBVIOUS
<1>1. given \in Seq(Sessions) /\ Len(given) >= need /\ AllSessionsKnown(given)
  BY <1>0, RequestedSessions, RequestedMore
<1>2. Len(given) \in Nat /\ DOMAIN given = 1 .. Len(given) /\ need \in Nat
  BY <1>0, <1>1, LenProperties, DispatchAssumption
<1>3. RequestSessions(cc)' =
        [i \in 1 .. Len(given) |-> IF i > Len(given) \/ given[i] = "Default" THEN open ELSE given[i]]
  <2>1. ASSUME NEW m \in Nat, NEW n \in Nat, n >= m PROVE (IF n < m THEN m ELSE n) = n
    BY <2>1
  <2>2. (IF Len(given) < need THEN need ELSE Len(given)) = Len(given)
    BY <1>1, <1>2, <2>1
  <2> QED BY <1>0, <2>2 DEF RequestSessions
<1>4. \A i \in 1 .. Len(given) : given[i] # "Default" /\ ~(i > Len(given))
  BY <1>1, <1>2 DEF AllSessionsKnown
<1> QED BY <1>3, <1>4 DEF AllSessionsKnown

LEMMA StartMissingSessionPromised ==
  ASSUME IInv, IInv', RInv, StartMissingSession PROVE RInv' /\ Promised
<1>0. PICK f, ss : f = Top /\ ss = RequestSessions(f.cc)
  OBVIOUS
<1>1. /\ ~Idle /\ ret = "none" /\ f.at = "prepare" /\ Outermost
      /\ CallCancelSafe(f, "StartAuthSession", NoHandle)
      /\ tpm2' = [tpm2 EXCEPT !.sessions = ss] /\ ~AllSessionsKnown(ss)
      /\ tpmSessions' = tpmSessions /\ call' = call
  BY <1>0 DEF StartMissingSession, At, AllSessionsKnown
<1>2. /\ Len(stack) = 1 /\ f.cc \in UserCommands /\ f \in FrameType /\ ReliableUser(f)
      /\ tpm2 \in Tpm2Type /\ Common
  BY <1>0, <1>1, RUserTop
<1>3. PICK g \in FrameType :
        /\ Invoke(f, g) /\ CancelSafeFrame(g) /\ g.cc = "StartAuthSession"
        /\ g.tolerate = tpm2.TolerateErrors /\ g.code = tpm2.LastError
  BY <1>1, CancelSafeCalled DEF CancelSafe
<1>4. f.n = 0
  BY <1>0, <1>1, <1>2 DEF ReliableUser, Progress, FrameType
<1>5. /\ tpm2'.sessions = ss /\ SameModifiers(tpm2, tpm2')
      /\ tpm2'.TempSessions = tpm2.TempSessions /\ tpm2'.AutoAuthHashAlg = tpm2.AutoAuthHashAlg
  BY <1>1, <1>2 DEF Tpm2Type, SameModifiers
<1>6. Promise!Completes(call.asked.sessions, ss)
  <2>1. tpm2.sessions \in Seq(Sessions) /\ call.asked.sessions \in Seq(Sessions)
    BY <1>2 DEF Common, Tpm2Type, Sessions
  <2>2. Promise!Completes(call.asked.sessions, tpm2.sessions)
    BY <1>1, <1>2 DEF ReliableUser, Progress
  <2> QED BY <1>0, <1>2, <2>1, <2>2, CompletesMore, RequestedSessions, RequestedMore
<1>7. Progress(f)'
  BY <1>1, <1>2, <1>4, <1>5, <1>6 DEF ReliableUser, Progress
<1>8. StillAsked(f, g.tolerate, g.code)'
  <2>1. ret \notin Errors
    BY <1>1, DispatchAssumption
  <2>2. Asked(g.tolerate)
    BY <1>1, <1>2, <1>3, <2>1, UserAsked
  <2>3. StillAsked(f, g.tolerate, g.code)
    BY <1>1, <2>2 DEF StillAsked
  <2> QED BY <1>1, <1>5, <2>3, StillAskedKept
<1>9. Held(Flushed(f), Doing(g, FALSE))'
  <2>1. Flushed(f) = 0 /\ Doing(g, FALSE) = {}
    BY <1>1, <1>3 DEF Flushed, Doing, Leaving
  <2>2. Held(0, {})
    BY <1>1, <1>2, <2>1 DEF ReliableUser
  <2> QED BY <1>1, <1>5, <2>1, <2>2, HeldKept
<1>10. ret' = "none"
  BY <1>3 DEF Invoke
<1>11. Serves(f, g)'
  <2>1. ss # <<>>
    BY <1>1, EmptySeq DEF AllSessionsKnown
  <2> QED BY <1>3, <1>4, <1>5, <2>1 DEF Serves
<1>12. ReliableCancelSafe(f, g)'
  BY <1>7, <1>8, <1>9, <1>10, <1>11 DEF ReliableCancelSafe
<1>13. Common'
  BY <1>1, <1>2, <1>5, CommonKept
<1> QED BY <1>1, <1>2, <1>3, <1>12, <1>13, RUserInvokes, Silent DEF CancelSafeFrame

LEMMA MissingSessionStartedPromised ==
  ASSUME IInv, IInv', RInv, MissingSessionStarted PROVE RInv' /\ Promised
<1>0. PICK f : f = Top
  OBVIOUS
<1>1. /\ ~Idle /\ ret = "true" /\ f.at = "prepare" /\ f.n = 0 /\ Become(f)
      /\ tpmSessions' = tpmSessions /\ call' = call
  BY <1>0 DEF MissingSessionStarted, BackAt
<1>2. PICK i \in DOMAIN tpm2.sessions :
        /\ tpm2.sessions[i] = "Default"
        /\ tpm2' = [tpm2 EXCEPT !.sessions[i] = f.h, !.TempSessions = Append(@, f.h)]
  BY <1>0 DEF MissingSessionStarted, FirstMissing
<1>3. /\ Len(stack) = 1 /\ f.cc \in UserCommands /\ f \in FrameType /\ ReliableUser(f)
      /\ UserInv(f) /\ tpm2 \in Tpm2Type /\ Common
  BY <1>0, <1>1, RUserTop
<1>4. /\ tpm2'.sessions = [tpm2.sessions EXCEPT ![i] = f.h]
      /\ tpm2'.TempSessions = Append(tpm2.TempSessions, f.h) /\ SameModifiers(tpm2, tpm2')
      /\ tpm2'.OuterCommand = tpm2.OuterCommand
      /\ tpm2'.TolerateErrors = tpm2.TolerateErrors /\ tpm2'.AutoAuthHashAlg = tpm2.AutoAuthHashAlg
  BY <1>2, <1>3 DEF Tpm2Type, SameModifiers
<1>5. Promise!Completes(call.asked.sessions, tpm2'.sessions)
  <2>1. /\ tpm2.sessions \in Seq(Sessions) /\ tpm2'.sessions \in Seq(Sessions)
        /\ call.asked.sessions \in Seq(Sessions)
    BY <1>3 DEF Common, IInv, DataOK, Tpm2Type, Sessions
  <2>2. Promise!Completes(call.asked.sessions, tpm2.sessions)
    BY <1>1, <1>3 DEF ReliableUser, Progress
  <2>3. DOMAIN tpm2'.sessions = DOMAIN tpm2.sessions
    BY <1>4
  <2>4. /\ Len(tpm2'.sessions) = Len(tpm2.sessions)
        /\ \A j \in 1 .. Len(tpm2.sessions) :
             tpm2.sessions[j] # "Default" => tpm2'.sessions[j] = tpm2.sessions[j]
    <3>1. Len(tpm2'.sessions) = Len(tpm2.sessions) /\ DOMAIN tpm2.sessions = 1 .. Len(tpm2.sessions)
      BY <2>1, <2>3, LenProperties
    <3> QED BY <1>2, <1>4, <3>1
  <2>5. Len(tpm2'.sessions) >= Len(tpm2.sessions)
    BY <2>1, <2>4, LenProperties
  <2> QED BY <2>1, <2>2, <2>4, <2>5, CompletesMore
<1>6. Progress(f)'
  BY <1>1, <1>3, <1>5 DEF ReliableUser, Progress
<1>7. StillAsked(f, tpm2.TolerateErrors, tpm2.LastError)'
  <2>1. PICK b : b = tpm2.TolerateErrors
    OBVIOUS
  <2>2. ret \notin Errors
    BY <1>1, DispatchAssumption
  <2>3. Asked(b)'
    BY <1>1, <1>3, <1>4, <2>1, <2>2, UserAsked, AskedKept
  <2> QED BY <1>1, <1>4, <2>1, <2>3 DEF StillAsked
<1>8. Held(0, {})'
  <2>1. tpm2.TempSessions \in Seq(Handles) /\ f.h \in Handles
    BY <1>1, <1>3 DEF Tpm2Type, UserInv
  <2>2. Held(0, {f.h})
    BY <1>1, <1>3 DEF ReliableUser, Flushed, Leaving
  <2> QED BY <1>1, <1>4, <2>1, <2>2, PutLast
<1>9. ret' = "none" /\ Flushed(f) = 0
  BY <1>1 DEF Become, Flushed, Leaving
<1>10. ReliableUser(f)'
  <2>1. Outermost'
    BY <1>3, <1>4 DEF ReliableUser, Outermost
  <2> QED BY <1>6, <1>7, <1>8, <1>9, <2>1, UserGoesOn
<1>11. Common'
  BY <1>1, <1>3, <1>4, CommonKept
<1> QED BY <1>1, <1>3, <1>10, <1>11, RUserBecomes, Silent

(* Nothing else goes wrong with the sessions.                              *)
LEMMA NoSessionFails ==
  ASSUME IInv, RInv, FallBackToNextHash \/ MissingSessionLost \/ FlushThrows
  PROVE  FALSE
<1>1. ~Idle /\ ret # "none" /\ ((Top.at = "prepare" /\ Top.n = 0) \/ Top.at \in Leaving)
  BY DEF FallBackToNextHash, MissingSessionLost, FlushThrows, BackAt
<1>2. ReliableUser(Top) /\ tpm2 \in Tpm2Type /\ Top \in FrameType
  <2>1. Top.at # "cancelSafe"
    BY <1>1 DEF Leaving
  <2> QED BY <1>1, <2>1, RUserTop
<1>3. CASE FallBackToNextHash
  <2>1. Top.at = "prepare" /\ Top.n = 0 /\ ret = "Hash"
    BY <1>3 DEF FallBackToNextHash, CanFallBack, BackAt
  <2> QED BY <1>2, <2>1, DispatchAssumption DEF ReliableUser
<1>4. CASE MissingSessionLost
  <2>1. Top.at = "prepare" /\ Top.n = 0 /\ ret = "true" /\ tpm2.sessions = <<>>
    BY <1>4 DEF MissingSessionLost, BackAt
  <2> QED BY <1>2, <2>1, DispatchAssumption DEF ReliableUser
<1>5. CASE FlushThrows
  <2>1. Top.at \in Leaving /\ (Raised(ret) \/ ListChanged)
    BY <1>5 DEF FlushThrows, BackAt
  <2>2. ret = "true" /\ Top.n \in DOMAIN tpm2.TempSessions
    BY <1>1, <1>2, <2>1 DEF ReliableUser, Leaving
  <2>3. DOMAIN tpm2.TempSessions = 1 .. Len(tpm2.TempSessions) /\ Len(tpm2.TempSessions) \in Nat
    BY <1>2, LenProperties DEF Tpm2Type
  <2> QED BY <2>1, <2>2, <2>3 DEF ListChanged, Raised
<1> QED BY <1>3, <1>4, <1>5

(* The preparation is given up.                                            *)
LEMMA PreparationGivesUp ==
  ASSUME IInv, IInv', RInv, ~Idle, Len(stack) = 1, Top.at = "prepare", ReliableUser(Top),
         NEW e \in ErrorCodes \cup {"false", "Exception"},
         Become([Top EXCEPT !.at = "catchPrepare", !.n = 0, !.rc = e]),
         e = "false" => tpm2.LastError # "Success",
         Held(0, {}), SameModifiers(tpm2, tpm2'), tpm2'.LastError = tpm2.LastError,
         tpm2'.OuterCommand = tpm2.OuterCommand, tpm2'.TolerateErrors = tpm2.TolerateErrors,
         tpm2'.TempSessions = tpm2.TempSessions, tpm2'.AutoAuthHashAlg = tpm2.AutoAuthHashAlg,
         tpmSessions' = tpmSessions, call' = call
  PROVE  RInv' /\ Promised
<1>0. PICK f, b, c : /\ f = [Top EXCEPT !.at = "catchPrepare", !.n = 0, !.rc = e]
                     /\ b = tpm2.TolerateErrors /\ c = tpm2.LastError
  OBVIOUS
<1>1. Top \in FrameType /\ Common
  BY TopFrame DEF RInv
<1>2. Become(f)
  BY <1>0
<1>3. f \in FrameType /\ f.at = "catchPrepare" /\ f.n = 0 /\ f.rc = e
  BY <1>0, <1>1, ErrorCodesAreOthers DEF FrameType
<1>4. Progress(f)'
  <2>1. Raised(e) \/ e = "false"
    BY ErrorCodesAreOthers DEF Raised
  <2> QED BY <1>3, <2>1 DEF ReliableUser, Progress
<1>5. StillAsked(f, tpm2.TolerateErrors, tpm2.LastError)'
  <2>1. StillAsked(f, b, c)
    BY <1>0, <1>3, UserAsked DEF StillAsked
  <2>2. StillAsked(f, b, c)'
    BY <2>1, StillAskedKept
  <2> QED BY <1>0, <2>2
<1>6. Held(0, {})'
  BY HeldKept
<1>7. ret' = "none" /\ Flushed(f) = 0 /\ Outermost'
  BY <1>2, <1>3 DEF Become, Flushed, ReliableUser, Outermost
<1>8. ReliableUser(f)'
  BY <1>4, <1>5, <1>6, <1>7, UserGoesOn
<1>9. Common'
  BY <1>1, CommonKept
<1> QED BY <1>2, <1>3, <1>8, <1>9, RUserBecomes, Silent

LEMMA CaughtException ==
  ASSUME CatchInPrepare("Exception")
  PROVE  Become([Top EXCEPT !.at = "catchPrepare", !.n = 0, !.rc = "Exception"])
BY DEF CatchInPrepare

(* The TPM has no session left.                                            *)
LEMMA MissingSessionFailedPromised ==
  ASSUME IInv, IInv', RInv, MissingSessionFailed PROVE RInv' /\ Promised
<1>1. /\ ~Idle /\ ret # "none" /\ Top.at = "prepare" /\ Top.n = 0 /\ Raised(ret)
      /\ CatchInPrepare(ret) /\ tpm2' = tpm2 /\ tpmSessions' = tpmSessions /\ call' = call
  BY DEF MissingSessionFailed, BackAt
<1>2. Len(stack) = 1 /\ ReliableUser(Top)
  BY <1>1, RUserTop
<1>3. ret \in Errors /\ tpm2.LastError = ret
  BY <1>1, <1>2 DEF ReliableUser, NoneLeft, Raised
<1>4. ret # "Success" /\ ret # "true" /\ ret \in ErrorCodes
  BY <1>3, DispatchAssumption DEF ErrorCodes
<1>5. PICK e \in {"false", ret} : Become([Top EXCEPT !.at = "catchPrepare", !.n = 0, !.rc = e])
  BY <1>1 DEF CatchInPrepare
<1>6. Held(0, {})
  BY <1>1, <1>2, <1>4 DEF ReliableUser, Flushed, Leaving
<1> QED BY <1>1, <1>2, <1>3, <1>4, <1>5, <1>6, PreparationGivesUp DEF SameModifiers

LEMMA WrongSessionHandlePromised ==
  ASSUME IInv, IInv', RInv, WrongSessionHandle PROVE RInv' /\ Promised
<1>1. /\ ~Idle /\ ret = "none" /\ Top.at = "prepare" /\ Outermost /\ CatchInPrepare("Exception")
      /\ tpm2' = [tpm2 EXCEPT !.sessions = RequestSessions(Top.cc)]
      /\ tpmSessions' = tpmSessions /\ call' = call
  BY DEF WrongSessionHandle, At
<1>2. Len(stack) = 1 /\ ReliableUser(Top) /\ tpm2 \in Tpm2Type
  BY <1>1, RUserTop
<1>3. /\ SameModifiers(tpm2, tpm2') /\ tpm2'.OuterCommand = tpm2.OuterCommand
      /\ tpm2'.TolerateErrors = tpm2.TolerateErrors /\ tpm2'.TempSessions = tpm2.TempSessions
      /\ tpm2'.AutoAuthHashAlg = tpm2.AutoAuthHashAlg /\ tpm2'.LastError = tpm2.LastError
  BY <1>1, <1>2 DEF Tpm2Type, SameModifiers
<1>4. Held(0, {})
  BY <1>1, <1>2 DEF ReliableUser, Flushed, Leaving
<1> QED BY <1>1, <1>2, <1>3, <1>4, CaughtException, PreparationGivesUp

LEMMA ReadMissingNamePromised ==
  ASSUME IInv, IInv', RInv, ReadMissingName PROVE RInv' /\ Promised
<1>0. PICK f, t, ss : /\ ss = RequestSessions(Top.cc) /\ f = [Top EXCEPT !.n = 1]
                      /\ t = [tpm2 EXCEPT !.sessions = ss]
  OBVIOUS
<1>1. /\ ~Idle /\ ret = "none" /\ Top.at = "prepare" /\ Outermost
      /\ CallOwn(f, "ReadPublic", NoHandle, t) /\ AllSessionsKnown(ss)
      /\ tpmSessions' = tpmSessions /\ call' = call
  BY <1>0 DEF ReadMissingName, At
<1>2. /\ Len(stack) = 1 /\ Top.cc \in UserCommands /\ Top \in FrameType /\ UserInv(Top)
      /\ ReliableUser(Top) /\ tpm2 \in Tpm2Type /\ Common
  BY <1>1, RUserTop
<1>3. t \in Tpm2Type
  BY <1>0, <1>2, RequestedSessions
<1>4. /\ t.sessions = ss /\ SameModifiers(tpm2, t) /\ t.TempSessions = tpm2.TempSessions
      /\ t.CurrentCommand = tpm2.CurrentCommand /\ t.TolerateErrors = tpm2.TolerateErrors
      /\ t.AutoAuthHashAlg = tpm2.AutoAuthHashAlg
  BY <1>0, <1>2 DEF Tpm2Type, SameModifiers
<1>5. f \in FrameType /\ f.at = "prepare" /\ f.cc = Top.cc /\ f.n = 1
  BY <1>0, <1>1, <1>2 DEF FrameType
<1>6. PICK g \in FrameType :
        /\ Invoke(f, g) /\ g.at = "prepare"
        /\ tpm2' \in Tpm2Type /\ SameModifiers(t, tpm2') /\ SameSessions(t, tpm2')
        /\ tpm2'.TolerateErrors = t.TolerateErrors /\ tpm2'.AutoAuthHashAlg = t.AutoAuthHashAlg
  <2>1. "ReadPublic" \in OwnCommands
    BY DEF OwnCommands
  <2>2. t.CurrentCommand \in UserCommands
    BY <1>2, <1>4 DEF UserInv
  <2> QED BY <1>1, <1>3, <2>1, <2>2, OwnCalled
<1>7. /\ tpm2'.sessions = ss /\ tpm2'.TempSessions = tpm2.TempSessions
      /\ SameModifiers(tpm2, tpm2')
      /\ tpm2'.TolerateErrors = tpm2.TolerateErrors /\ tpm2'.AutoAuthHashAlg = tpm2.AutoAuthHashAlg
  BY <1>4, <1>6 DEF SameModifiers, SameSessions
<1>8. Promise!Completes(call.asked.sessions, ss)
  <2>1. tpm2.sessions \in Seq(Sessions) /\ call.asked.sessions \in Seq(Sessions)
    BY <1>2 DEF Common, Tpm2Type, Sessions
  <2>2. Promise!Completes(call.asked.sessions, tpm2.sessions)
    BY <1>1, <1>2 DEF ReliableUser, Progress
  <2> QED BY <1>0, <1>2, <2>1, <2>2, CompletesMore, RequestedSessions, RequestedMore
<1>9. AllSessionsKnown(RequestSessions(f.cc))'
  <2>1. RequestSessions(f.cc) = ss /\ f.cc \in UserCommands
    BY <1>0, <1>2, <1>5
  <2> QED BY <1>1, <1>2, <1>6, <1>7, <2>1, KnownStays
<1>10. Progress(f)'
  <2>1. call.said = "unsent" /\ call.sent = <<>>
    BY <1>1, <1>2 DEF ReliableUser, Progress
  <2> QED BY <1>1, <1>5, <1>7, <1>8, <1>9, <2>1 DEF Progress
<1>11. Asked(tpm2.TolerateErrors)'
  <2>1. PICK b : b = tpm2.TolerateErrors
    OBVIOUS
  <2>2. ret \notin Errors
    BY <1>1, DispatchAssumption
  <2>3. Asked(b)'
    BY <1>1, <1>2, <1>7, <2>1, <2>2, UserAsked, AskedKept
  <2> QED BY <1>7, <2>1, <2>3
<1>12. Held(0, {})'
  <2>1. Held(0, {})
    BY <1>1, <1>2 DEF ReliableUser, Flushed, Leaving
  <2> QED BY <1>1, <1>7, <2>1, HeldKept
<1>13. ReliableOwn(f)'
  BY <1>10, <1>11, <1>12 DEF ReliableOwn
<1>14. Common'
  BY <1>1, <1>2, <1>7, CommonKept
<1> QED BY <1>1, <1>2, <1>5, <1>6, <1>13, <1>14, RUserInvokes, Silent

(* The command goes on as it is.                                           *)
LEMMA GoesOn ==
  ASSUME IInv, RInv, ~Idle, Len(stack) = 1, NEW f \in FrameType, f = Top, Become(f),
         ReliableUser(f), ~NoneLeft(f), Held(Flushed(f), {}), tpm2' = tpm2, tpmSessions' = tpmSessions, call' = call
  PROVE  RInv' /\ Promised
<1>1. ret' = "none" /\ Common
  BY DEF Become, RInv
<1>2. PICK k : k = Flushed(f)
  OBVIOUS
<1>3. Held(k, {})'
  BY <1>2, HeldKept
<1>4. Held(Flushed(f), {})'
  BY <1>2, <1>3 DEF Flushed
<1>5. Progress(f)'
  BY ProgressKept DEF ReliableUser
<1>6. StillAsked(f, tpm2.TolerateErrors, tpm2.LastError)'
  BY DEF ReliableUser, StillAsked, Asked
<1>7. ReliableUser(f)'
  <2>1. Outermost'
    BY DEF ReliableUser, Outermost
  <2> QED BY <1>1, <1>4, <1>5, <1>6, <2>1, UserGoesOn
<1>8. Common'
  BY <1>1, CommonKept
<1> QED BY <1>7, <1>8, RUserBecomes, Silent

LEMMA NameReadPromised ==
  ASSUME IInv, IInv', RInv, NameRead PROVE RInv' /\ Promised
<1>1. /\ ~Idle /\ ret # "none" /\ Top.at = "prepare" /\ Top.n = 1
      /\ tpm2' = tpm2 /\ tpmSessions' = tpmSessions /\ call' = call
      /\ CatchInPrepare("Exception") \/ Become(Top)
  BY DEF NameRead, BackAt
<1>2. Len(stack) = 1 /\ ReliableUser(Top) /\ Top \in FrameType
  BY <1>1, RUserTop
<1>3. Held(0, {}) /\ Flushed(Top) = 0
  BY <1>1, <1>2 DEF ReliableUser, Flushed, Leaving
<1>4. CASE CatchInPrepare("Exception")
  BY <1>1, <1>2, <1>3, <1>4, CaughtException, PreparationGivesUp DEF SameModifiers
<1>5. CASE Become(Top)
  <2>0. PICK f : f = Top
    OBVIOUS
  <2>1. Become(f) /\ Held(Flushed(f), {}) /\ ~NoneLeft(f)
    BY <1>1, <1>3, <1>5, <2>0 DEF NoneLeft
  <2> QED BY <1>1, <1>2, <2>0, <2>1, GoesOn
<1> QED BY <1>1, <1>4, <1>5

LEMMA PreparedPromised ==
  ASSUME IInv, IInv', RInv, Prepared PROVE RInv' /\ Promised
<1>0. PICK f, ss, b : /\ f = [Top EXCEPT !.at = "send", !.n = 0] /\ ss = Slots
                      /\ b = tpm2.TolerateErrors
  OBVIOUS
<1>1. /\ ~Idle /\ ret = "none" /\ Top.at = "prepare" /\ Outermost /\ Become(f)
      /\ tpm2' = [tpm2 EXCEPT !.sessions = ss] /\ tpmSessions' = tpmSessions /\ call' = call
  BY <1>0 DEF Prepared, At
<1>2. /\ Len(stack) = 1 /\ Top.cc \in UserCommands /\ Top \in FrameType
      /\ ReliableUser(Top) /\ tpm2 \in Tpm2Type /\ Common
  BY <1>1, RUserTop
<1>3. /\ tpm2'.sessions = ss /\ tpm2'.TempSessions = tpm2.TempSessions
      /\ SameModifiers(tpm2, tpm2') /\ tpm2'.OuterCommand = tpm2.OuterCommand
      /\ tpm2'.TolerateErrors = tpm2.TolerateErrors /\ tpm2'.AutoAuthHashAlg = tpm2.AutoAuthHashAlg
  BY <1>1, <1>2 DEF Tpm2Type, SameModifiers
<1>4. f \in FrameType /\ f.at = "send" /\ f.n = 0
  BY <1>0, <1>2 DEF FrameType
<1>5. Promise!Completes(call.asked.sessions, ss)
  <2>1. tpm2.sessions \in Seq(Sessions) /\ call.asked.sessions \in Seq(Sessions)
    BY <1>2 DEF Common, Tpm2Type, Sessions
  <2>2. Promise!Completes(call.asked.sessions, tpm2.sessions)
    BY <1>1, <1>2 DEF ReliableUser, Progress
  <2>3. CASE Top.n = 0
    <3>1. ss = RequestSessions(Top.cc)
      BY <1>0, <2>3 DEF Slots
    <3> QED BY <1>2, <2>1, <2>2, <3>1, CompletesMore, RequestedSessions, RequestedMore
  <2>4. CASE Top.n # 0
    BY <1>0, <2>2, <2>4 DEF Slots
  <2> QED BY <2>3, <2>4
<1>6. Progress(f)'
  <2>1. call.said = "unsent" /\ call.sent = <<>>
    BY <1>1, <1>2 DEF ReliableUser, Progress
  <2> QED BY <1>1, <1>3, <1>4, <1>5, <2>1 DEF Progress
<1>7. StillAsked(f, tpm2.TolerateErrors, tpm2.LastError)'
  <2>1. ret \notin Errors
    BY <1>1, DispatchAssumption
  <2>2. Asked(b)'
    BY <1>0, <1>1, <1>2, <1>3, <2>1, UserAsked, AskedKept
  <2> QED BY <1>0, <1>3, <1>4, <2>2 DEF StillAsked
<1>8. Held(0, {})'
  <2>1. Held(0, {})
    BY <1>1, <1>2 DEF ReliableUser, Flushed, Leaving
  <2> QED BY <1>1, <1>3, <2>1, HeldKept
<1>9. ret' = "none" /\ Flushed(f) = 0
  BY <1>1, <1>4 DEF Become, Flushed, Leaving
<1>10. ReliableUser(f)'
  <2>1. Outermost'
    BY <1>1, <1>3 DEF Outermost
  <2> QED BY <1>6, <1>7, <1>8, <1>9, <2>1, UserGoesOn
<1>11. Common'
  BY <1>1, <1>2, <1>3, CommonKept
<1> QED BY <1>1, <1>2, <1>4, <1>10, <1>11, RUserBecomes, Silent

-----------------------------------------------------------------------------
(* A command of the application ends.                                      *)

(* Its modifiers are used up.                                              *)
UsedUp(t, u) ==
  /\ u.CurrentCommand = NoCommand /\ u.OuterCommand = NoCommand
  /\ u.sessions = <<>> /\ u.ExpectedResponses = {} /\ u.ResetPp = FALSE
  /\ u.TolerateErrors = (t.TolerateErrors /\ t.TolerateErrorsPermanently > 0)
  /\ u.TolerateErrorsPermanently = t.TolerateErrorsPermanently
  /\ u.TheWarningHandler = t.TheWarningHandler /\ u.TheErrorHandler = t.TheErrorHandler
  /\ u.AutoAuthHashAlg = t.AutoAuthHashAlg

(* A record of modifiers, and what it becomes at the end of a command.     *)
Asking(f1, f2, f3, f4, f5, f6, f7, f8, f9, f10) ==
  [sessions |-> f1, tolerate |-> f2, permanent |-> f3, expected |-> f4, presence |-> f5,
   cpHash |-> f6, record |-> f7, onWarning |-> f8, onError |-> f9, code |-> f10]

AskedOf(t, a) ==
  a = Asking(a.sessions, a.tolerate, t.TolerateErrorsPermanently, t.ExpectedResponses, t.ResetPp,
             t.CpHashMode, t.DoNotDispatchCommand, t.TheWarningHandler, t.TheErrorHandler, a.code)
FreshOf(r, x, y) == [r EXCEPT !.sessions = <<>>, !.expected = {}, !.presence = FALSE,
                              !.cpHash = FALSE, !.record = FALSE, !.tolerate = x, !.code = y]
ModesSet(r, x, y) == [r EXCEPT !.cpHash = x, !.record = y]

LEMMA FreshRecord ==
  ASSUME NEW t, NEW u, NEW a, UsedUp(t, u), AskedOf(t, a)
  PROVE  LET F == FreshOf(a, u.TolerateErrors, u.LastError)
         IN  /\ Modifiers(u) = ModesSet(F, u.CpHashMode, u.DoNotDispatchCommand)
             /\ u.CpHashMode = FALSE =>
                  Modifiers(u) = [F EXCEPT !.record = u.DoNotDispatchCommand]
             /\ u.CpHashMode = FALSE /\ u.DoNotDispatchCommand = FALSE => Modifiers(u) = F
<1>1. PICK n, no, z, x, y :
        n = <<>> /\ no = {} /\ z = FALSE /\ x = u.TolerateErrors /\ y = u.LastError
  OBVIOUS
<1>2. PICK p, c, d, w, e, cu, du :
        /\ p = t.TolerateErrorsPermanently /\ c = t.CpHashMode /\ d = t.DoNotDispatchCommand
        /\ w = t.TheWarningHandler /\ e = t.TheErrorHandler
        /\ cu = u.CpHashMode /\ du = u.DoNotDispatchCommand
  OBVIOUS
<1>3. PICK s, b, q, v, k : a = Asking(s, b, p, q, v, c, d, w, e, k)
  BY <1>2 DEF AskedOf
<1>4. PICK r1 : r1 = [a EXCEPT !.sessions = n]
  OBVIOUS
<1>5. PICK r2 : r2 = [r1 EXCEPT !.expected = no]
  OBVIOUS
<1>6. PICK r3 : r3 = [r2 EXCEPT !.presence = z]
  OBVIOUS
<1>7. PICK r4 : r4 = [r3 EXCEPT !.cpHash = z]
  OBVIOUS
<1>8. PICK r5 : r5 = [r4 EXCEPT !.record = z]
  OBVIOUS
<1>9. PICK r6 : r6 = [r5 EXCEPT !.tolerate = x]
  OBVIOUS
<1>10. PICK F : F = [r6 EXCEPT !.code = y]
  OBVIOUS
<1>11. F = Asking(n, x, p, no, z, z, z, w, e, y)
  <2>1. r1 = Asking(n, b, p, q, v, c, d, w, e, k)
    BY <1>3, <1>4 DEF Asking
  <2>2. r2 = Asking(n, b, p, no, v, c, d, w, e, k)
    BY <1>5, <2>1 DEF Asking
  <2>3. r3 = Asking(n, b, p, no, z, c, d, w, e, k)
    BY <1>6, <2>2 DEF Asking
  <2>4. r4 = Asking(n, b, p, no, z, z, d, w, e, k)
    BY <1>7, <2>3 DEF Asking
  <2>5. r5 = Asking(n, b, p, no, z, z, z, w, e, k)
    BY <1>8, <2>4 DEF Asking
  <2>6. r6 = Asking(n, x, p, no, z, z, z, w, e, k)
    BY <1>9, <2>5 DEF Asking
  <2> QED BY <1>10, <2>6 DEF Asking
<1>12. FreshOf(a, x, y) = F
  BY <1>1, <1>4, <1>5, <1>6, <1>7, <1>8, <1>9, <1>10, Zenon DEF FreshOf
<1>13. PICK m1 : m1 = [F EXCEPT !.cpHash = cu]
  OBVIOUS
<1>14. m1 = Asking(n, x, p, no, z, cu, z, w, e, y)
  BY <1>11, <1>13 DEF Asking
<1>15. PICK m2 : m2 = [m1 EXCEPT !.record = du]
  OBVIOUS
<1>16. m2 = Asking(n, x, p, no, z, cu, du, w, e, y)
  BY <1>14, <1>15 DEF Asking
<1>17. ModesSet(F, cu, du) = m2
  BY <1>13, <1>15, Zenon DEF ModesSet
<1>18. Modifiers(u) = Asking(n, x, p, no, z, cu, du, w, e, y)
  BY <1>1, <1>2 DEF Modifiers, UsedUp, Asking
<1>19. PICK m3 : m3 = [F EXCEPT !.record = du]
  OBVIOUS
<1>20. m3 = Asking(n, x, p, no, z, z, du, w, e, y)
  BY <1>11, <1>19 DEF Asking
<1>21. cu = z => Modifiers(u) = m3
  BY <1>18, <1>20
<1>22. cu = z /\ du = z => Modifiers(u) = F
  BY <1>11, <1>18
<1> QED BY <1>1, <1>2, <1>12, <1>16, <1>17, <1>18, <1>19, <1>21, <1>22

LEMMA CommandEnds ==
  ASSUME IInv, RInv, ~Idle, Len(stack) = 1, ReliableUser(Top), NEW r, Return(r),
         tpm2' \in Tpm2Type, UsedUp(tpm2, tpm2'), call' = call,
         Held(0, {})', call.said # "unsent" \/ r # "true" => tpmSessions' = {}
  PROVE  LET F == Promise!Fresh(tpm2'.LastError)
         IN  /\ RInv' /\ Idle' /\ ret' = r
             /\ Modifiers(tpm2') = ModesSet(F, tpm2'.CpHashMode, tpm2'.DoNotDispatchCommand)
             /\ tpm2'.CpHashMode = FALSE =>
                  Modifiers(tpm2') = [F EXCEPT !.record = tpm2'.DoNotDispatchCommand]
             /\ tpm2'.CpHashMode = FALSE /\ tpm2'.DoNotDispatchCommand = FALSE =>
                  Modifiers(tpm2') = F
<1>1. Common /\ ret' = r /\ tpm2 \in Tpm2Type
  BY DEF RInv, Return, IInv, DataOK
<1>2. Asked(call.asked.tolerate) /\ (call.asked.tolerate => tpm2.TolerateErrors)
  BY UserAsked
<1>3. call.asked.permanent = tpm2.TolerateErrorsPermanently
  BY <1>2 DEF Asked
<1>4. tpm2'.TolerateErrors = (tpm2.TolerateErrorsPermanently > 0)
  <2>1. tpm2.TolerateErrorsPermanently > 0 => tpm2.TolerateErrors = TRUE
    BY <1>1, <1>2, <1>3 DEF Common, Tpm2Type
  <2>2. tpm2'.TolerateErrors = (tpm2.TolerateErrors /\ tpm2.TolerateErrorsPermanently > 0)
    BY DEF UsedUp
  <2> QED BY <2>1, <2>2
<1>5. ReliableIdle'
  <2>1. tpm2'.TolerateErrorsPermanently > 0 => tpm2'.TolerateErrors
    BY <1>4 DEF UsedUp
  <2> QED BY <1>1, <2>1 DEF ReliableIdle, UsedUp
<1>6. Common'
  BY <1>1, CommonKept DEF UsedUp
<1>7. PICK u, a, F : u = tpm2' /\ a = call.asked /\ F = Promise!Fresh(tpm2'.LastError)
  OBVIOUS
<1>8. AskedOf(tpm2, a)
  BY <1>2, <1>7 DEF Asked, Asking, AskedOf
<1>9. F = FreshOf(a, u.TolerateErrors, u.LastError)
  BY <1>3, <1>4, <1>7 DEF Promise!Fresh, FreshOf
<1>10. /\ Modifiers(u) = ModesSet(F, u.CpHashMode, u.DoNotDispatchCommand)
       /\ u.CpHashMode = FALSE => Modifiers(u) = [F EXCEPT !.record = u.DoNotDispatchCommand]
       /\ u.CpHashMode = FALSE /\ u.DoNotDispatchCommand = FALSE => Modifiers(u) = F
  <2>1. UsedUp(tpm2, u)
    BY <1>7
  <2>2. LET R == FreshOf(a, u.TolerateErrors, u.LastError)
        IN  /\ Modifiers(u) = ModesSet(R, u.CpHashMode, u.DoNotDispatchCommand)
            /\ u.CpHashMode = FALSE =>
                 Modifiers(u) = [R EXCEPT !.record = u.DoNotDispatchCommand]
            /\ u.CpHashMode = FALSE /\ u.DoNotDispatchCommand = FALSE => Modifiers(u) = R
    BY <1>8, <2>1, FreshRecord
  <2> QED BY <1>9, <2>2
<1>11. RInv' /\ Idle'
  BY <1>5, <1>6, RUserReturns
<1> QED BY <1>1, <1>7, <1>10, <1>11

LEMMA NotSentPromised ==
  ASSUME IInv, IInv', RInv, ComputeCpHash \/ RecordCommandBytes PROVE RInv' /\ Promised
<1>0. PICK t : \/ ComputeCpHash /\ t = [tpm2 EXCEPT !.CpHashMode = FALSE]
               \/ RecordCommandBytes /\ t = [tpm2 EXCEPT !.DoNotDispatchCommand = FALSE]
  OBVIOUS
<1>1. /\ ~Idle /\ ret = "none" /\ Top.at = "send" /\ Top.n = 0 /\ Outermost
      /\ tpm2' = ClearCommandContext(t) /\ Return("true")
      /\ tpmSessions' = tpmSessions /\ call' = call
  BY <1>0 DEF ComputeCpHash, RecordCommandBytes, At
<1>2. Len(stack) = 1 /\ ReliableUser(Top) /\ tpm2 \in Tpm2Type
  BY <1>1, RUserTop
<1>3. /\ t \in Tpm2Type /\ t.OuterCommand = NoCommand
      /\ t.TolerateErrors = tpm2.TolerateErrors
      /\ t.TolerateErrorsPermanently = tpm2.TolerateErrorsPermanently
      /\ t.TheWarningHandler = tpm2.TheWarningHandler /\ t.TheErrorHandler = tpm2.TheErrorHandler
      /\ t.AutoAuthHashAlg = tpm2.AutoAuthHashAlg /\ t.TempSessions = tpm2.TempSessions
      /\ t.CpHashMode = FALSE /\ (tpm2.CpHashMode \/ tpm2.DoNotDispatchCommand)
      /\ t.DoNotDispatchCommand = (tpm2.CpHashMode /\ tpm2.DoNotDispatchCommand)
  <2>1. CASE ComputeCpHash /\ t = [tpm2 EXCEPT !.CpHashMode = FALSE]
    <3>1. tpm2.CpHashMode = TRUE
      BY <1>2, <2>1 DEF Tpm2Type, ComputeCpHash
    <3> QED BY <1>1, <1>2, <2>1, <3>1 DEF Tpm2Type, Outermost
  <2>2. CASE RecordCommandBytes /\ t = [tpm2 EXCEPT !.DoNotDispatchCommand = FALSE]
    <3>1. tpm2.CpHashMode = FALSE /\ tpm2.DoNotDispatchCommand
      BY <1>2, <2>2 DEF Tpm2Type, RecordCommandBytes
    <3> QED BY <1>1, <1>2, <2>2, <3>1 DEF Tpm2Type, Outermost
  <2> QED BY <1>0, <2>1, <2>2
<1>4. /\ tpm2' \in Tpm2Type /\ UsedUp(tpm2, tpm2') /\ tpm2'.TempSessions = tpm2.TempSessions
      /\ tpm2'.CpHashMode = t.CpHashMode /\ tpm2'.DoNotDispatchCommand = t.DoNotDispatchCommand
  BY <1>1, <1>3, OutermostCleared DEF UsedUp
<1>5. call.said = "unsent"
  BY <1>1, <1>2 DEF ReliableUser, Progress
<1>6. Held(0, {})'
  <2>1. Held(0, {})
    BY <1>1, <1>2 DEF ReliableUser, Flushed, Leaving
  <2> QED BY <1>1, <1>4, <2>1, HeldKept
<1>7. PICK u, F : u = tpm2' /\ F = Promise!Fresh(tpm2'.LastError)
  OBVIOUS
<1>8. /\ RInv' /\ Idle' /\ ret' = "true"
      /\ Modifiers(u) = [F EXCEPT !.record = u.DoNotDispatchCommand]
      /\ u.DoNotDispatchCommand = FALSE => Modifiers(u) = F
  BY <1>1, <1>2, <1>3, <1>4, <1>5, <1>6, <1>7, CommandEnds
<1>9. /\ call.asked.cpHash = tpm2.CpHashMode /\ call.asked.record = tpm2.DoNotDispatchCommand
      /\ tpm2.CpHashMode \in BOOLEAN /\ tpm2.DoNotDispatchCommand \in BOOLEAN
  BY <1>2, UserAsked DEF Asked, Tpm2Type
<1>10. Modifiers(u).code = u.LastError
  BY DEF Modifiers
<1>11. CASE tpm2.CpHashMode /\ tpm2.DoNotDispatchCommand
  <2>1. u.DoNotDispatchCommand = TRUE
    BY <1>3, <1>4, <1>7, <1>11
  <2>2. Promise!SkipHalf
    BY <1>1, <1>5, <1>7, <1>8, <1>9, <1>10, <1>11, <2>1 DEF Promise!SkipHalf
  <2> QED BY <1>8, <2>2 DEF Promised, Promise!Next
<1>12. CASE ~(tpm2.CpHashMode /\ tpm2.DoNotDispatchCommand)
  <2>1. u.DoNotDispatchCommand = FALSE /\ Modifiers(u) = F
    BY <1>3, <1>4, <1>7, <1>8, <1>9, <1>12
  <2>2. call.asked.cpHash # call.asked.record
    BY <1>3, <1>9, <1>12
  <2>3. Promise!Skip
    BY <1>1, <1>5, <1>7, <1>8, <1>10, <2>1, <2>2 DEF Promise!Skip
  <2> QED BY <1>8, <2>3 DEF Promised, Promise!Next
<1> QED BY <1>11, <1>12

-----------------------------------------------------------------------------
(* The application's command is sent.                                      *)

LEMMA SendPromised ==
  ASSUME IInv, ~Idle, Top.at = "send", Top.cc \in UserCommands, Top \in FrameType,
         ReliableUser(Top), Common, Top.n = 0 => ~tpm2.CpHashMode /\ ~tpm2.DoNotDispatchCommand,
         NEW said \in Answers \cup {"lost"}, Note(said), ~Idle'
  PROVE  /\ Promise!Send /\ Promise!Completes(call.asked.sessions, call'.sent)
         /\ call'.asked = call.asked /\ call'.said = said
         /\ ~call.asked.cpHash /\ ~call.asked.record
<1>0. PICK f : f = Top
  OBVIOUS
<1>1. f.n \in Nat /\ f.at = "send" /\ Progress(f) /\ Asked(call.asked.tolerate) /\ Outermost
  BY <1>0, UserAsked DEF FrameType, ReliableUser
<1>2. /\ call'.asked = call.asked /\ call'.said = said /\ call'.sent = InSessions
      /\ call' = [asked |-> call'.asked, said |-> call'.said, sent |-> call'.sent]
  BY NotedCall DEF IInv
<1>3. /\ call.asked.cpHash = tpm2.CpHashMode /\ call.asked.record = tpm2.DoNotDispatchCommand
  BY <1>1 DEF Asked
<1>4. said # "unsent"
  BY ErrorCodesAreOthers
<1>5. CASE f.n = 0
  <2>1. /\ call.said = "unsent" /\ call'.sent = tpm2.sessions
        /\ Promise!Completes(call.asked.sessions, tpm2.sessions)
    BY <1>0, <1>1, <1>2, <1>5 DEF Progress, InSessions
  <2> QED BY <1>0, <1>2, <1>3, <1>4, <1>5, <2>1 DEF Promise!Send
<1>6. CASE f.n > 0
  <2>1. /\ call.said = "NvRate" /\ call'.sent = call.sent
        /\ Promise!Completes(call.asked.sessions, call.sent)
        /\ ~call.asked.cpHash /\ ~call.asked.record
    BY <1>0, <1>1, <1>2, <1>6 DEF Progress, InSessions
  <2> QED BY <1>2, <1>4, <2>1 DEF Promise!Send
<1> QED BY <1>1, <1>5, <1>6

LEMMA UserSentPromised ==
  ASSUME IInv, RInv, ~Idle, Top.at = "send", Top.cc \in UserCommands,
         Top.n = 0 => ~tpm2.CpHashMode /\ ~tpm2.DoNotDispatchCommand,
         NEW f \in FrameType, Become(f), f.n = 0, NEW said \in Answers \cup {"lost"}, Note(said),
         f.at = "flush" \/ (f.at = "catchSend" /\ Raised(f.rc) /\ said = "lost"),
         tpm2' = tpm2, tpmSessions' = tpmSessions
  PROVE  RInv' /\ Promised
<1>1. /\ Len(stack) = 1 /\ Top \in FrameType /\ ReliableUser(Top) /\ Common
  BY RUserTop
<1>2. ~Idle' /\ ret' = "none"
  BY BecomeStack DEF IInv
<1>3. Promise!Send /\ call'.asked = call.asked /\ call'.said = said
  BY <1>1, <1>2, SendPromised
<1>4. Progress(f)'
  <2>1. said # "unsent"
    BY ErrorCodesAreOthers
  <2>2. ~call'.asked.cpHash /\ ~call'.asked.record
    BY <1>1, <1>2, <1>3, SendPromised
  <2> QED BY <1>3, <2>1, <2>2 DEF Progress
<1>5. StillAsked(f, tpm2.TolerateErrors, tpm2.LastError)'
  <2>1. ~NoneLeft(Top)
    BY DEF NoneLeft
  <2>2. Asked(tpm2.TolerateErrors)
    BY <1>1, <2>1 DEF ReliableUser, StillAsked
  <2> QED BY <1>3, <2>2 DEF Asked, StillAsked
<1>6. Held(0, {})'
  <2>1. Held(0, {})
    BY <1>1 DEF ReliableUser, Flushed, Leaving
  <2> QED BY <2>1, HeldKept
<1>7. Flushed(f) = 0 /\ Outermost'
  BY <1>1 DEF Flushed, ReliableUser, Outermost
<1>8. ReliableUser(f)'
  BY <1>2, <1>4, <1>5, <1>6, <1>7, UserGoesOn
<1>9. Common'
  BY <1>1, <1>3, CommonKept
<1> QED BY <1>1, <1>3, <1>8, <1>9, RUserBecomes DEF Promised, Promise!Next

(* A command of the application leaves the library's sessions as they are. *)
LEMMA UserAnswered ==
  ASSUME Top.cc \in UserCommands, NEW a \in TpmAnswers
  PROVE  a[2] = Top.h /\ a[3] = tpmSessions
<1>1. a \in UserAnswers
  BY CommandKinds DEF TpmAnswers, OwnCommands
<1>2. PICK rc : a = <<rc, Top.h, tpmSessions>>
  BY <1>1 DEF UserAnswers, Answer
<1> QED BY <1>2

LEMMA UserExecutePromised ==
  ASSUME IInv, IInv', RInv, Execute, Top.cc \in UserCommands PROVE RInv' /\ Promised
<1>1. PICK a \in TpmAnswers :
        /\ Become([Top EXCEPT !.at = "flush", !.n = 0, !.rc = a[1], !.h = a[2]])
        /\ tpmSessions' = a[3] /\ Note(a[1])
  BY DEF Execute
<1>2. PICK f : f = [Top EXCEPT !.at = "flush", !.n = 0, !.rc = a[1], !.h = a[2]]
  OBVIOUS
<1>3. /\ ~Idle /\ Top.at = "send" /\ tpm2' = tpm2 /\ Top \in FrameType /\ DataOK
      /\ Outermost /\ Top.n = 0 => ~tpm2.CpHashMode /\ ~tpm2.DoNotDispatchCommand
  BY TopFrame DEF Execute, Sending, At, IInv
<1>4. Outermost
  BY <1>3, RUserTop
<1>5. a[1] \in Answers /\ a[2] \in Handles \cup {NoHandle} /\ a[3] = tpmSessions
  BY <1>3, AnswerFacts, UserAnswered
<1>6. f \in FrameType /\ f.at = "flush" /\ f.n = 0
  BY <1>2, <1>3, <1>5 DEF FrameType
<1> QED BY <1>1, <1>2, <1>3, <1>4, <1>5, <1>6, UserSentPromised

LEMMA CaughtInSend ==
  ASSUME IInv, RInv, ~Idle, Top.at = "send", Top.cc \in UserCommands,
         Top.n = 0 => ~tpm2.CpHashMode /\ ~tpm2.DoNotDispatchCommand,
         NEW e \in ErrorCodes \cup {"Exception"}, CatchInSend(e),
         tpm2' = tpm2, tpmSessions' = tpmSessions
  PROVE  RInv' /\ Promised
<1>1. PICK f : f = [Top EXCEPT !.at = "catchSend", !.n = 0, !.rc = e]
  OBVIOUS
<1>2. Become(f) /\ Note("lost")
  BY <1>1 DEF CatchInSend
<1>3. Raised(e) /\ e \in Answers \cup {"none", "true", "false", "Exception"}
  BY ErrorCodesAreOthers DEF Raised
<1>4. f \in FrameType /\ f.at = "catchSend" /\ f.n = 0 /\ f.rc = e
  BY <1>1, <1>3, TopFrame DEF FrameType
<1> QED BY <1>2, <1>3, <1>4, UserSentPromised

LEMMA UserDeviceFailsPromised ==
  ASSUME IInv, IInv', RInv, DeviceFails, Top.cc \in UserCommands PROVE RInv' /\ Promised
<1>1. /\ ~Idle /\ Top.at = "send" /\ tpm2' = tpm2 /\ CatchInSend("Exception")
      /\ Outermost /\ Top.n = 0 => ~tpm2.CpHashMode /\ ~tpm2.DoNotDispatchCommand
  BY DEF DeviceFails, Sending, At
<1>2. PICK a \in TpmAnswers : tpmSessions' \in {tpmSessions, a[3]}
  BY DEF DeviceFails
<1>3. tpmSessions' = tpmSessions
  BY <1>2, UserAnswered
<1>4. Outermost
  BY <1>1, RUserTop
<1> QED BY <1>1, <1>3, <1>4, CaughtInSend

LEMMA PropertyReadPromised ==
  ASSUME IInv, IInv', RInv, PropertyRead PROVE RInv' /\ Promised
<1>1. /\ ~Idle /\ ret # "none" /\ Top.at = "send" /\ tpm2' = tpm2 /\ tpmSessions' = tpmSessions
      /\ ret \in ErrorCodes \cup {"none", "true", "false", "Exception"}
  BY DEF PropertyRead, BackAt, IInv, DataOK
<1>2. /\ Len(stack) = 1 /\ Top.cc \in UserCommands /\ Top \in FrameType
      /\ ReliableUser(Top) /\ Common
  BY <1>1, RUserTop
<1>3. Top.n > 0 /\ Top.n # 0 /\ Held(0, {}) /\ Flushed(Top) = 0
  BY <1>1, <1>2 DEF ReliableUser, Flushed, Leaving, FrameType
<1>4. CASE Become(Top) /\ call' = call
  <2>0. PICK f : f = Top
    OBVIOUS
  <2>1. Become(f) /\ Held(Flushed(f), {}) /\ ~NoneLeft(f)
    BY <1>1, <1>3, <1>4, <2>0 DEF NoneLeft
  <2> QED BY <1>1, <1>2, <1>4, <2>0, <2>1, GoesOn
<1>5. ASSUME NEW e \in ErrorCodes \cup {"Exception"}, CatchInSend(e) PROVE RInv' /\ Promised
  BY <1>1, <1>2, <1>3, <1>5, CaughtInSend
<1>6. \/ Become(Top) /\ call' = call
      \/ \E e \in ErrorCodes \cup {"Exception"} : CatchInSend(e)
  <2>1. Raised(ret) => ret \in ErrorCodes \cup {"Exception"}
    BY <1>1 DEF Raised
  <2> QED BY <2>1 DEF PropertyRead
<1> QED BY <1>4, <1>5, <1>6

LEMMA NvRatePromised ==
  ASSUME IInv, IInv', RInv, Reliable, NvRate PROVE RInv' /\ Promised
<1>0. PICK f : f = [Top EXCEPT !.n = @ + 1]
  OBVIOUS
<1>1. /\ ~Idle /\ Top.at = "send" /\ Top.cc \in UserCommands
      /\ CallOwn(f, "GetCapability", NoHandle, tpm2) /\ Note("NvRate")
      /\ tpmSessions' = tpmSessions
      /\ Outermost /\ Top.n = 0 => ~tpm2.CpHashMode /\ ~tpm2.DoNotDispatchCommand
  BY <1>0 DEF NvRate, MayBeLimited, Reliable, NestedUnlimited, Sending, At
<1>2. /\ Len(stack) = 1 /\ Top \in FrameType /\ UserInv(Top) /\ Outermost
      /\ ReliableUser(Top) /\ tpm2 \in Tpm2Type /\ Common
  BY <1>1, RUserTop
<1>3. f \in FrameType /\ f.at = "send" /\ f.n > 0 /\ f.n # 0
  BY <1>0, <1>1, <1>2 DEF FrameType
<1>4. PICK g \in FrameType :
        /\ Invoke(f, g) /\ g.at = "prepare"
        /\ SameModifiers(tpm2, tpm2') /\ SameSessions(tpm2, tpm2')
        /\ tpm2'.TolerateErrors = tpm2.TolerateErrors /\ tpm2'.AutoAuthHashAlg = tpm2.AutoAuthHashAlg
  <2>1. "GetCapability" \in OwnCommands /\ tpm2.CurrentCommand \in UserCommands
    BY <1>1, <1>2 DEF OwnCommands, UserInv
  <2> QED BY <1>1, <1>2, <2>1, OwnCalled
<1>5. ~Idle'
  BY <1>1, <1>3, <1>4, InvokeStack DEF IInv
<1>6. /\ Promise!Send /\ Promise!Completes(call.asked.sessions, call'.sent)
      /\ call'.asked = call.asked /\ call'.said = "NvRate"
      /\ ~call.asked.cpHash /\ ~call.asked.record
  BY <1>1, <1>2, <1>5, SendPromised DEF Answers, ErrorCodes
<1>7. Progress(f)'
  BY <1>3, <1>6 DEF Progress
<1>8. Asked(tpm2.TolerateErrors)'
  <2>1. PICK b : b = tpm2.TolerateErrors
    OBVIOUS
  <2>2. ~NoneLeft(Top)
    BY <1>1 DEF NoneLeft
  <2>3. Asked(b)
    BY <1>1, <1>2, <2>1, <2>2 DEF ReliableUser, StillAsked
  <2>4. Asked(b)'
    BY <1>4, <1>6, <2>3, AskedKept
  <2> QED BY <1>4, <2>1, <2>4
<1>9. Held(0, {})'
  <2>1. Held(0, {})
    BY <1>1, <1>2 DEF ReliableUser, Flushed, Leaving
  <2> QED BY <1>1, <1>4, <2>1, HeldKept DEF SameSessions
<1>10. ReliableOwn(f)' /\ Common'
  BY <1>2, <1>4, <1>6, <1>7, <1>8, <1>9, CommonKept DEF ReliableOwn
<1> QED BY <1>1, <1>2, <1>3, <1>4, <1>6, <1>10, RUserInvokes DEF Promised, Promise!Next

-----------------------------------------------------------------------------
(* The library's own commands.                                             *)

LEMMA ROwnTop ==
  ASSUME IInv, RInv, ~Idle, Top.at # "cancelSafe", Top.cc \notin UserCommands
  PROVE  /\ ret = "none" /\ ~Outermost /\ Top \in FrameType /\ OwnFrame(Top)
         /\ Common /\ DataOK /\ tpm2 \in Tpm2Type
         /\ \/ /\ Len(stack) = 2 /\ Top.cc \notin CancelSafe
               /\ OwnInv(stack[1], Top) /\ ReliableOwn(stack[1])
            \/ /\ Len(stack) = 3 /\ Top.cc \in CancelSafe
               /\ AttemptInv(stack[1], stack[2], Top) /\ ReliableAttempt(stack[1], stack[2], Top)
<1>1. /\ ret = "none" /\ ~Outermost /\ Top \in FrameType /\ OwnFrame(Top)
      /\ Common /\ DataOK /\ tpm2 \in Tpm2Type
  BY OwnTop DEF RInv, IInv, DataOK
<1>2. \/ Len(stack) = 2 /\ Top = stack[2] /\ OwnInv(stack[1], Top)
      \/ Len(stack) = 3 /\ Top = stack[3] /\ AttemptInv(stack[1], stack[2], Top)
  BY Depth DEF UserInv, UserFrame
<1>3. CASE Len(stack) = 2 /\ Top = stack[2] /\ OwnInv(stack[1], Top)
  <2>1. ReliableOwn(stack[1])
    BY <1>3, RTop
  <2> QED BY <1>1, <1>3, <2>1 DEF OwnInv
<1>4. CASE Len(stack) = 3 /\ Top = stack[3] /\ AttemptInv(stack[1], stack[2], Top)
  <2>1. ReliableAttempt(stack[1], stack[2], Top)
    BY <1>4, RTop
  <2>2. Top.cc \in CancelSafe
    BY <1>4 DEF AttemptInv, CancelSafeFrame
  <2> QED BY <1>1, <1>4, <2>1, <2>2
<1> QED BY <1>2, <1>3, <1>4

LEMMA OtherOwnGoesOn ==
  ASSUME IInv, IInv', RInv, ~Idle, Top.at # "cancelSafe", Top.cc \notin UserCommands \cup CancelSafe,
         NEW h \in FrameType, Become(h), h.at # "cancelSafe",
         tpm2' = tpm2, call' = call, tpmSessions' = tpmSessions
  PROVE  RInv' /\ Promised
<1>0. PICK f, b : f = stack[1] /\ b = tpm2.TolerateErrors
  OBVIOUS
<1>1. Len(stack) = 2 /\ ReliableOwn(f) /\ Common
  BY <1>0, ROwnTop
<1>2. Progress(f)' /\ Asked(b)' /\ Held(0, {})'
  BY <1>0, <1>1, ProgressKept, AskedKept, HeldKept DEF ReliableOwn, SameModifiers
<1>3. ReliableOwn(f)' /\ Common'
  BY <1>0, <1>1, <1>2, CommonKept DEF ReliableOwn
<1> QED BY <1>0, <1>1, <1>3, ROwnBecomes, Silent

LEMMA CancelSafeGoesOn ==
  ASSUME IInv, IInv', RInv, ~Idle, Top.at # "cancelSafe", Top.cc \in CancelSafe,
         NEW h \in FrameType, Become(h), h.cc = Top.cc, h.at \in {"prepare", "send", "flush"},
         Top.cc = "FlushContext" => h.h = Top.h, NEW done \in BOOLEAN,
         done <=> h.at = "flush" /\ h.rc = "Success",
         h.at = "flush" => \/ h.rc = "Success" \/ (h.rc = "Canceled" /\ stack[2].n < MaxAttempts)
                           \/ h.cc = "StartAuthSession" /\ h.rc \in Errors,
         NEW k, k = Flushed(stack[1]), Held(k, Doing(h, done))',
         tpm2' = tpm2, call' = call
  PROVE  RInv' /\ Promised
<1>0. PICK f, g : f = stack[1] /\ g = stack[2]
  OBVIOUS
<1>1. Top.cc \notin UserCommands
  BY CommandKinds
<1>2. Len(stack) = 3 /\ ReliableAttempt(f, g, Top) /\ Common
  BY <1>0, <1>1, ROwnTop
<1>3. Progress(f)' /\ StillAsked(f, g.tolerate, g.code)'
  BY <1>2, ProgressKept, StillAskedKept DEF ReliableAttempt, SameModifiers
<1>4. Serves(f, h)'
  BY <1>2 DEF ReliableAttempt, Serves
<1>5. Held(Flushed(f), Doing(h, done))'
  BY <1>0 DEF Flushed
<1>6. ReliableAttempt(f, g, h)'
  BY <1>0, <1>2, <1>3, <1>4, <1>5 DEF ReliableAttempt
<1>7. Common'
  BY <1>2, CommonKept
<1> QED BY <1>0, <1>2, <1>6, <1>7, RAttemptBecomes, Silent

LEMMA PrepareOwnCommandPromised ==
  ASSUME IInv, IInv', RInv, PrepareOwnCommand PROVE RInv' /\ Promised
<1>1. /\ ~Idle /\ Top.at = "prepare" /\ ~Outermost /\ Become([Top EXCEPT !.at = "send"])
      /\ tpm2' = tpm2 /\ tpmSessions' = tpmSessions /\ call' = call /\ ret = "none"
  BY DEF PrepareOwnCommand, At
<1>2. Top.cc \notin UserCommands /\ Top \in FrameType
  BY <1>1, RUserTop, TopFrame
<1>3. PICK h : h = [Top EXCEPT !.at = "send"]
  OBVIOUS
<1>4. h \in FrameType /\ h.at = "send" /\ h.cc = Top.cc /\ h.h = Top.h /\ Become(h)
  BY <1>1, <1>2, <1>3 DEF FrameType
<1>5. CASE Top.cc \notin CancelSafe
  BY <1>1, <1>2, <1>4, <1>5, OtherOwnGoesOn
<1>6. CASE Top.cc \in CancelSafe
  <2>0. PICK k : k = Flushed(stack[1])
    OBVIOUS
  <2>1. ReliableAttempt(stack[1], stack[2], Top)
    BY <1>1, <1>2, <1>6, ROwnTop
  <2>2. Doing(Top, FALSE) = Doing(h, FALSE)
    BY <1>4 DEF Doing
  <2>3. Held(k, Doing(h, FALSE))
    BY <1>1, <2>0, <2>1, <2>2 DEF ReliableAttempt
  <2>4. PICK e : e = Doing(h, FALSE)
    OBVIOUS
  <2>5. Held(k, e)'
    BY <1>1, <2>3, <2>4, HeldKept
  <2>6. Held(k, Doing(h, FALSE))'
    BY <2>4, <2>5 DEF Doing
  <2> QED BY <1>1, <1>4, <1>6, <2>0, <2>6, CancelSafeGoesOn
<1> QED BY <1>5, <1>6

(* What the TPM may answer to one of the library's own commands.           *)
LEMMA RefusedOwn ==
  ASSUME IInv, RInv, Reliable, ~Idle, Top.at # "cancelSafe", Top.cc \in CancelSafe,
         NEW a \in Refusals
  PROVE  /\ a[1] = "Canceled" /\ a[2] = Top.h /\ a[3] = tpmSessions
         /\ stack[2].n < MaxAttempts
<1>1. /\ Len(stack) = 3 /\ CancelSafeFrame(stack[2])
  BY ROwnTop, CommandKinds DEF AttemptInv
<1>2. Top.cc \notin Unreliable /\ MaxCancels <= MaxAttempts /\ MaxCancels \in Nat /\ MaxAttempts \in Nat
  BY DispatchAssumption DEF Reliable
<1>3. PICK rc \in When(MayBeCanceled, {"Canceled"}) \cup When(Top.cc \in Unreliable, Errors)
                     \cup When(MayBeLimited /\ Top.n >= MaxNvRetries, {"NvRate"}) :
        a = <<rc, Top.h, tpmSessions>>
  BY DEF Refusals, Answer
<1>4. ~MayBeLimited
  BY CommandKinds DEF MayBeLimited, Reliable, NestedUnlimited
<1>5. rc = "Canceled" /\ MayBeCanceled
  BY <1>2, <1>3, <1>4 DEF When
<1>6. stack[2].n < MaxCancels
  BY <1>1, <1>5 DEF MayBeCanceled, CancelSafeFrame
<1>7. stack[2].n \in Nat
  BY <1>1 DEF CancelSafeFrame, FrameType
<1> QED BY <1>2, <1>3, <1>5, <1>6, <1>7

LEMMA OtherOwnAnswered ==
  ASSUME Top.cc \in OwnCommands \ CancelSafe, NEW a \in TpmAnswers
  PROVE  a[2] = Top.h /\ a[3] = tpmSessions
<1>1. a \in Refusals \cup Answer({"Success"})
  BY CommandKinds DEF TpmAnswers, OwnCommands, CancelSafe
<1>2. \E rc : a = <<rc, Top.h, tpmSessions>>
  BY <1>1 DEF Refusals, Answer
<1> QED BY <1>2

LEMMA StartAnswered ==
  ASSUME IInv, RInv, Reliable, At("send"), Top.cc = "StartAuthSession", NEW a \in TpmAnswers
  PROVE  \/ a[1] = "Success" /\ a[2] \in Handles \ tpmSessions /\ a[3] = tpmSessions \cup {a[2]}
         \/ a[1] = "Canceled" /\ a[3] = tpmSessions /\ stack[2].n < MaxAttempts
         \/ a[1] \in Errors /\ a[3] = tpmSessions
<1>1. ~Idle /\ Top.at = "send"
  BY DEF At
<1>2. tpm2.AutoAuthHashAlg \in TpmHashes
  BY DEF RInv, Common, Reliable
<1>3. TpmAnswers = StartAnswers
  BY CommandKinds DEF TpmAnswers, OwnCommands
<1>4. \/ \E h \in Handles \ tpmSessions : a = <<"Success", h, tpmSessions \cup {h}>>
      \/ a \in Refusals
      \/ \E rc \in Errors : a = <<rc, Top.h, tpmSessions>>
  BY <1>1, <1>2, <1>3 DEF StartAnswers, When, Answer
<1>5. CASE \E h \in Handles \ tpmSessions : a = <<"Success", h, tpmSessions \cup {h}>>
  BY <1>5
<1>6. CASE a \in Refusals
  BY <1>1, <1>6, RefusedOwn DEF CancelSafe
<1>7. CASE \E rc \in Errors : a = <<rc, Top.h, tpmSessions>>
  BY <1>7
<1> QED BY <1>4, <1>5, <1>6, <1>7

LEMMA FlushAnswered ==
  ASSUME IInv, RInv, Reliable, At("send"), Top.cc = "FlushContext", Top.h \in tpmSessions,
         NEW a \in TpmAnswers
  PROVE  /\ a[2] = Top.h
         /\ \/ a[1] = "Success" /\ a[3] = tpmSessions \ {Top.h}
            \/ a[1] = "Canceled" /\ a[3] = tpmSessions /\ stack[2].n < MaxAttempts
<1>1. ~Idle /\ Top.at = "send"
  BY DEF At
<1>2. TpmAnswers = FlushAnswers
  BY CommandKinds DEF TpmAnswers, OwnCommands
<1>3. \/ a = <<"Success", Top.h, tpmSessions \ {Top.h}>>
      \/ a \in Refusals
  BY <1>2 DEF FlushAnswers
<1>4. CASE a \in Refusals
  BY <1>1, <1>4, RefusedOwn DEF CancelSafe
<1> QED BY <1>3, <1>4

(* A session is added to those held, or taken away.                        *)
LEMMA OneMore ==
  ASSUME NEW k, NEW h, Held(k, {}), h \notin tpmSessions,
         tpm2' = tpm2, tpmSessions' = tpmSessions \cup {h}
  PROVE  Held(k, {h})'
<1>1. Remaining(k)' = Remaining(k)
  BY DEF Remaining
<1> QED BY <1>1 DEF Held, Distinct

LEMMA OneLess ==
  ASSUME NEW k, NEW h, Held(k, {h}), tpm2' = tpm2, tpmSessions' = tpmSessions \ {h}
  PROVE  Held(k, {})'
<1>1. Remaining(k)' = Remaining(k)
  BY DEF Remaining
<1> QED BY <1>1 DEF Held, Distinct

LEMMA OwnExecutePromised ==
  ASSUME IInv, IInv', RInv, Reliable, Execute, Top.cc \notin UserCommands
  PROVE  RInv' /\ Promised
<1>1. PICK a \in TpmAnswers :
        /\ Become([Top EXCEPT !.at = "flush", !.n = 0, !.rc = a[1], !.h = a[2]])
        /\ tpmSessions' = a[3] /\ Note(a[1])
  BY DEF Execute
<1>2. PICK h : h = [Top EXCEPT !.at = "flush", !.n = 0, !.rc = a[1], !.h = a[2]]
  OBVIOUS
<1>3. /\ ~Idle /\ Top.at = "send" /\ tpm2' = tpm2 /\ Top \in FrameType /\ DataOK /\ At("send")
  BY TopFrame DEF Execute, Sending, At, IInv
<1>4. OwnFrame(Top) /\ Top.cc \in OwnCommands
  BY <1>3, ROwnTop DEF OwnFrame
<1>5. a[1] \in Answers /\ a[2] \in Handles \cup {NoHandle}
  BY <1>3, AnswerFacts
<1>6. /\ h \in FrameType /\ h.at = "flush" /\ h.cc = Top.cc /\ h.rc = a[1] /\ h.h = a[2]
      /\ Become(h)
  BY <1>1, <1>2, <1>3, <1>5 DEF FrameType
<1>7. call' = call
  BY <1>1 DEF Note
<1>8. CASE Top.cc \notin CancelSafe
  BY <1>1, <1>3, <1>4, <1>6, <1>7, <1>8, OtherOwnAnswered, OtherOwnGoesOn
<1>9. CASE Top.cc \in CancelSafe
  <2>0. PICK k, d, done : /\ k = Flushed(stack[1]) /\ d = Doing(Top, FALSE)
                          /\ done = (a[1] = "Success") /\ done \in BOOLEAN
    OBVIOUS
  <2>1. ReliableAttempt(stack[1], stack[2], Top)
    BY <1>3, <1>9, ROwnTop
  <2>2. Held(k, d)
    BY <1>3, <2>0, <2>1 DEF ReliableAttempt
  <2>3. CASE Top.cc = "StartAuthSession"
    <3>1. d = {}
      BY <2>0, <2>3 DEF Doing
    <3>2. \/ a[1] = "Success" /\ a[2] \notin tpmSessions /\ a[3] = tpmSessions \cup {a[2]}
          \/ a[1] = "Canceled" /\ a[3] = tpmSessions /\ stack[2].n < MaxAttempts
          \/ a[1] \in Errors /\ a[3] = tpmSessions
      BY <1>3, <2>3, StartAnswered
    <3>3. CASE a[1] = "Success"
      <4>0. a[2] \notin tpmSessions /\ a[3] = tpmSessions \cup {a[2]}
        BY <3>2, <3>3, DispatchAssumption
      <4>1. Held(k, {a[2]})'
        BY <1>1, <1>3, <2>2, <3>1, <4>0, OneMore
      <4>2. Doing(h, TRUE)' = {a[2]}
        BY <1>6, <2>3 DEF Doing
      <4>3. h.rc = "Success" /\ h.cc = "StartAuthSession"
        BY <1>6, <2>3, <3>3
      <4> QED BY <1>3, <1>6, <1>7, <1>9, <2>0, <2>3, <3>3, <4>1, <4>2, <4>3, CancelSafeGoesOn
    <3>4. CASE /\ a[3] = tpmSessions
               /\ a[1] \in Errors \/ (a[1] = "Canceled" /\ stack[2].n < MaxAttempts)
      <4>1. Held(k, {})'
        BY <1>1, <1>3, <2>2, <3>1, <3>4, HeldKept
      <4>2. Doing(h, FALSE)' = {}
        BY <1>6, <2>3 DEF Doing
      <4>3. a[1] # "Success"
        BY <3>4, DispatchAssumption
      <4> QED BY <1>3, <1>6, <1>7, <1>9, <2>0, <2>3, <3>4, <4>1, <4>2, <4>3, CancelSafeGoesOn
    <3> QED BY <3>2, <3>3, <3>4
  <2>4. CASE Top.cc = "FlushContext"
    <3>1. d = {Top.h} /\ Top.h \in tpmSessions
      BY <2>0, <2>2, <2>4 DEF Doing, Held
    <3>2. /\ a[2] = Top.h
          /\ \/ a[1] = "Success" /\ a[3] = tpmSessions \ {Top.h}
             \/ a[1] = "Canceled" /\ a[3] = tpmSessions /\ stack[2].n < MaxAttempts
      BY <1>3, <2>4, <3>1, FlushAnswered
    <3>0. PICK t : t = Top.h
      OBVIOUS
    <3>3. CASE a[1] = "Success"
      <4>1. Held(k, {})'
        BY <1>1, <1>3, <2>2, <3>0, <3>1, <3>2, <3>3, OneLess
      <4>2. Doing(h, TRUE)' = {}
        BY <1>6, <2>4 DEF Doing
      <4> QED BY <1>3, <1>6, <1>7, <1>9, <2>0, <2>4, <3>2, <3>3, <4>1, <4>2, CancelSafeGoesOn
    <3>4. CASE a[1] = "Canceled" /\ a[3] = tpmSessions /\ stack[2].n < MaxAttempts
      <4>1. Held(k, {t})'
        BY <1>1, <1>3, <2>2, <3>0, <3>1, <3>4, HeldKept
      <4>2. Doing(h, FALSE)' = {t}
        BY <1>6, <2>4, <3>0, <3>2 DEF Doing
      <4> QED BY <1>3, <1>6, <1>7, <1>9, <2>0, <2>4, <3>2, <3>4, <4>1, <4>2, CancelSafeGoesOn
    <3> QED BY <3>2, <3>3, <3>4
  <2> QED BY <1>9, <2>3, <2>4 DEF CancelSafe
<1> QED BY <1>8, <1>9

LEMMA OwnDeviceFailsPromised ==
  ASSUME IInv, IInv', RInv, Reliable, DeviceFails, Top.cc \notin UserCommands
  PROVE  RInv' /\ Promised
<1>1. /\ ~Idle /\ Top.at = "send" /\ tpm2' = tpm2 /\ CatchInSend("Exception")
      /\ Top.cc \in Unreliable /\ Top \in FrameType
  BY TopFrame DEF DeviceFails, Sending, At
<1>2. PICK h : h = [Top EXCEPT !.at = "catchSend", !.n = 0, !.rc = "Exception"]
  OBVIOUS
<1>3. Become(h) /\ call' = call
  <2>1. Become(h)
    BY <1>1, <1>2 DEF CatchInSend
  <2>2. Note("lost")
    BY <1>1 DEF CatchInSend
  <2> QED BY <2>1, <2>2 DEF Note
<1>4. h \in FrameType /\ h.at = "catchSend"
  BY <1>1, <1>2 DEF FrameType
<1>5. Top.cc \in OwnCommands \ CancelSafe
  BY <1>1, ROwnTop DEF Reliable, OwnFrame
<1>6. PICK a \in TpmAnswers : tpmSessions' \in {tpmSessions, a[3]}
  BY DEF DeviceFails
<1>7. tpmSessions' = tpmSessions
  BY <1>5, <1>6, OtherOwnAnswered
<1> QED BY <1>1, <1>3, <1>4, <1>5, <1>7, OtherOwnGoesOn

-----------------------------------------------------------------------------
(* The sessions of the library are flushed.                                *)

LEMMA FlushTempSessionPromised ==
  ASSUME IInv, IInv', RInv, FlushTempSession PROVE RInv' /\ Promised
<1>0. PICK f, h, k : f = [Top EXCEPT !.n = k] /\ k = Top.n + 1 /\ h = tpm2.TempSessions[k]
  OBVIOUS
<1>1. /\ ~Idle /\ ret = "none" /\ Top.at \in Leaving /\ Outermost
      /\ Top.n < Len(tpm2.TempSessions) /\ UNCHANGED <<tpm2, tpmSessions, call>>
  BY DEF FlushTempSession, FlushLeft, At
<1>2. /\ Len(stack) = 1 /\ Top \in FrameType /\ ReliableUser(Top) /\ tpm2 \in Tpm2Type /\ Common
  BY <1>1, RUserTop DEF Leaving
<1>3. CallCancelSafe(f, "FlushContext", h)
  BY <1>0, <1>2 DEF FlushTempSession, FrameType
<1>4. tpm2.TempSessions \in Seq(Handles) /\ Top.n \in Nat /\ Top.at # "prepare"
  BY <1>1, <1>2 DEF Tpm2Type, FrameType, Leaving
<1>5. k \in DOMAIN tpm2.TempSessions /\ Held(k, {h})
  <2>1. Held(Top.n, {})
    BY <1>1, <1>2, <1>4 DEF ReliableUser, Flushed
  <2> QED BY <1>0, <1>1, <1>4, <2>1, TakeNext
<1>6. h \in Handles
  BY <1>0, <1>4, <1>5
<1>7. PICK g \in FrameType :
        /\ Invoke(f, g) /\ CancelSafeFrame(g) /\ g.cc = "FlushContext" /\ g.h = h
        /\ g.tolerate = tpm2.TolerateErrors /\ g.code = tpm2.LastError
  BY <1>1, <1>3, <1>6, CancelSafeCalled DEF CancelSafe
<1>8. f \in FrameType /\ f.at = Top.at /\ f.cc = Top.cc /\ f.rc = Top.rc /\ f.n = k
  BY <1>0, <1>2, <1>4 DEF FrameType
<1>9. ret' = "none" /\ g.at = "cancelSafe"
  BY <1>7 DEF Invoke, CancelSafeFrame
<1>10. Progress(f)'
  BY <1>1, <1>2, <1>8 DEF ReliableUser, Progress, Leaving
<1>11. StillAsked(f, g.tolerate, g.code)'
  <2>1. ~NoneLeft(Top)
    BY <1>4 DEF NoneLeft
  <2>2. StillAsked(f, g.tolerate, g.code)
    BY <1>2, <1>7, <1>8, <2>1 DEF ReliableUser, StillAsked
  <2> QED BY <1>1, <2>2, StillAskedKept DEF SameModifiers
<1>12. Serves(f, g)'
  BY <1>0, <1>1, <1>5, <1>7, <1>8 DEF Serves
<1>13. Held(Flushed(f), Doing(g, ret = "true"))'
  <2>1. Held(k, {h})'
    BY <1>1, <1>5, HeldKept
  <2>2. Flushed(f) = k
    BY <1>1, <1>8 DEF Flushed
  <2>3. Doing(g, ret = "true")' = {h}
    BY <1>7, <1>9 DEF Doing
  <2> QED BY <2>1, <2>2, <2>3
<1>14. ReliableCancelSafe(f, g)'
  BY <1>9, <1>10, <1>11, <1>12, <1>13 DEF ReliableCancelSafe
<1>15. Common'
  BY <1>1, <1>2, CommonKept
<1> QED BY <1>1, <1>2, <1>7, <1>8, <1>9, <1>14, <1>15, RUserInvokes, Silent

LEMMA TempSessionFlushedPromised ==
  ASSUME IInv, IInv', RInv, TempSessionFlushed PROVE RInv' /\ Promised
<1>0. PICK f : f = Top
  OBVIOUS
<1>1. /\ ~Idle /\ ret = "true" /\ f.at \in Leaving /\ Become(f)
      /\ tpm2' = tpm2 /\ tpmSessions' = tpmSessions /\ call' = call
  BY <1>0 DEF TempSessionFlushed, BackAt
<1>2. Len(stack) = 1 /\ ReliableUser(f) /\ f \in FrameType
  BY <1>0, <1>1, RUserTop DEF Leaving
<1>3. Held(Flushed(f), {})
  BY <1>1, <1>2 DEF ReliableUser, Leaving
<1>4. ~NoneLeft(f)
  BY <1>1 DEF NoneLeft, Leaving
<1> QED BY <1>0, <1>1, <1>2, <1>3, <1>4, GoesOn

(* At the end of a command none of them is left.                           *)
LEMMA AllFlushed ==
  ASSUME IInv, RInv, ~Idle, ret = "none", Top.at \in Leaving, Outermost, ~FlushLeft,
         tpm2' \in Tpm2Type, tpm2'.TempSessions = <<>>, tpmSessions' = tpmSessions
  PROVE  tpmSessions' = {} /\ Held(0, {})'
<1>1. /\ Len(stack) = 1 /\ Top \in FrameType /\ ReliableUser(Top) /\ tpm2 \in Tpm2Type
  BY RUserTop DEF Leaving
<1>2. Held(Top.n, {}) /\ Top.n \in Nat /\ tpm2.TempSessions \in Seq(Handles)
  BY <1>1 DEF ReliableUser, Flushed, Leaving, FrameType, Tpm2Type
<1>3. Remaining(Top.n) = {}
  BY <1>2, RemainingNone DEF FlushLeft
<1>4. tpmSessions' = {}
  BY <1>2, <1>3 DEF Held
<1>5. Distinct(<<>>)
  BY EmptySeq DEF Distinct
<1>6. Remaining(0)' = {}
  BY EmptySeq DEF Remaining
<1> QED BY <1>4, <1>5, <1>6 DEF Held

LEMMA FinishPromised ==
  ASSUME IInv, RInv, ~Idle, Len(stack) = 1, ReliableUser(Top), Top.at \in {"flush", "catchSend"},
         NEW r, Return(r),
         tpm2' \in Tpm2Type, UsedUp(tpm2, tpm2'), tpm2'.CpHashMode = tpm2.CpHashMode,
         tpm2'.DoNotDispatchCommand = tpm2.DoNotDispatchCommand, call' = call,
         Held(0, {})', tpmSessions' = {}, Promise!Fits(r, tpm2'.LastError)
  PROVE  RInv' /\ Promised
<1>1. call.said # "unsent" /\ ~call.asked.cpHash /\ ~call.asked.record
  BY DEF ReliableUser, Progress
<1>2. /\ call.asked.cpHash = tpm2.CpHashMode /\ call.asked.record = tpm2.DoNotDispatchCommand
  BY UserAsked DEF Asked
<1>3. tpm2'.CpHashMode = FALSE /\ tpm2'.DoNotDispatchCommand = FALSE
  BY <1>1, <1>2 DEF Tpm2Type
<1>4. /\ RInv' /\ Idle' /\ ret' = r
      /\ Modifiers(tpm2') = Promise!Fresh(tpm2'.LastError)
  BY <1>3, CommandEnds
<1>5. Modifiers(tpm2').code = tpm2'.LastError
  BY DEF Modifiers
<1>6. Promise!Finish
  BY <1>1, <1>4, <1>5 DEF Promise!Finish
<1> QED BY <1>4, <1>6 DEF Promised, Promise!Next

LEMMA FinishCatchPromised ==
  ASSUME IInv, IInv', RInv, FinishCatch, Outermost PROVE RInv' /\ Promised
<1>0. PICK t, r : t = ClearCommandPrelaunchContext /\ r = Top.rc
  OBVIOUS
<1>1. /\ ~Idle /\ ret = "none" /\ Top.at \in {"catchPrepare", "catchSend"} /\ ~FlushLeft
      /\ tpm2' = ClearCommandContext(t) /\ Return(r) /\ tpmSessions' = tpmSessions /\ call' = call
  BY <1>0 DEF FinishCatch, At
<1>2. Len(stack) = 1 /\ ReliableUser(Top) /\ tpm2 \in Tpm2Type
  BY <1>1, RUserTop
<1>3. /\ t \in Tpm2Type /\ t.TempSessions = <<>> /\ t.OuterCommand = NoCommand
      /\ SameModifiers(tpm2, t) /\ t.TolerateErrors = tpm2.TolerateErrors
      /\ t.AutoAuthHashAlg = tpm2.AutoAuthHashAlg /\ t.LastError = tpm2.LastError
  BY <1>0, <1>2, PrelaunchCleared DEF Outermost
<1>4. /\ tpm2' \in Tpm2Type /\ UsedUp(tpm2, tpm2') /\ tpm2'.TempSessions = <<>>
      /\ tpm2'.CpHashMode = tpm2.CpHashMode
      /\ tpm2'.DoNotDispatchCommand = tpm2.DoNotDispatchCommand
      /\ tpm2'.LastError = tpm2.LastError
  BY <1>1, <1>3, OutermostCleared DEF UsedUp, SameModifiers
<1>5. tpmSessions' = {} /\ Held(0, {})'
  BY <1>1, <1>4, AllFlushed DEF Leaving
<1>6. CASE Top.at = "catchSend"
  <2>1. call.said = "lost" /\ Raised(r)
    BY <1>0, <1>2, <1>6 DEF ReliableUser, Progress
  <2>2. Promise!Fits(r, tpm2'.LastError)
    BY <2>1 DEF Promise!Fits, Promise!Raises, Raised
  <2> QED BY <1>1, <1>2, <1>4, <1>5, <1>6, <2>2, FinishPromised
<1>7. CASE Top.at = "catchPrepare"
  <2>1. call.said = "unsent" /\ (Raised(r) \/ r = "false")
    BY <1>0, <1>2, <1>7 DEF ReliableUser, Progress
  <2>2. r = "false" => tpm2.LastError # "Success"
    BY <1>0, <1>2, <1>7 DEF ReliableUser, StillAsked, NoneLeft
  <2>3. PICK u, F : u = tpm2' /\ F = Promise!Fresh(tpm2'.LastError)
    OBVIOUS
  <2>4. /\ RInv' /\ Idle' /\ ret' = r
        /\ Modifiers(u) = ModesSet(F, u.CpHashMode, u.DoNotDispatchCommand)
    BY <1>1, <1>2, <1>4, <1>5, <2>1, <2>3, CommandEnds
  <2>5. Modifiers(u).code = u.LastError
    BY DEF Modifiers
  <2>6. u.CpHashMode = call.asked.cpHash /\ u.DoNotDispatchCommand = call.asked.record
    BY <1>2, <1>4, <2>3, UserAsked DEF Asked
  <2>7. Modifiers(u) = [F EXCEPT !.cpHash = call.asked.cpHash, !.record = call.asked.record]
    BY <2>4, <2>6 DEF ModesSet
  <2>8. Promise!GivenUp
    BY <1>1, <1>4, <2>1, <2>2, <2>3, <2>4, <2>5, <2>7
       DEF Promise!GivenUp, Promise!Raises, Raised
  <2> QED BY <2>4, <2>8 DEF Promised, Promise!Next
<1> QED BY <1>1, <1>6, <1>7

(* The result of a command of the application, in full.                    *)
LEMMA ErrorProcessed ==
  ASSUME NEW t \in Tpm2Type, t.OuterCommand = NoCommand, NEW rc \in Answers
  PROVE  LET r  == ProcessError(t, rc).result
             ok == t.ExpectedResponses = {} \/ "Success" \in t.ExpectedResponses
         IN  /\ rc = "Success" =>
                  r = IF ok THEN "true"
                      ELSE IF t.TolerateErrors \/ t.TheErrorHandler THEN "false" ELSE "Exception"
             /\ rc = "Garbled" => r = "Exception" \/ (~ok /\ r = "false")
             /\ rc \in ErrorCodes =>
                  r = IF \/ t.TolerateErrors \/ rc \in t.ExpectedResponses
                         \/ t.ExpectedResponses \notin {{}, {"Success"}} /\ t.TheWarningHandler
                      THEN "false" ELSE rc
<1>0. PICK code : code = IF rc = "Garbled" THEN "Success" ELSE rc
  OBVIOUS
<1>1. code \in ErrorCodes \cup {"Success"}
  BY <1>0, ErrorCodesAreOthers
<1>2. PICK s : s = [t EXCEPT !.LastError = code]
  OBVIOUS
<1>3. /\ s.OuterCommand = NoCommand /\ s.ExpectedResponses = t.ExpectedResponses
      /\ s.TolerateErrors = t.TolerateErrors /\ s.TheErrorHandler = t.TheErrorHandler
      /\ s.TheWarningHandler = t.TheWarningHandler
  BY <1>1, <1>2, LastErrorSet DEF SameModifiers
<1>4. CASE rc \in {"Success", "Garbled"}
  <2>1. ProcessError(t, rc).result = ProcessSuccess(s, rc = "Garbled").result
    BY <1>0, <1>2, <1>4 DEF ProcessError
  <2> QED BY <1>3, <1>4, <2>1, ErrorCodesAreOthers DEF ProcessSuccess, Outcome
<1>5. CASE rc \notin {"Success", "Garbled"}
  <2>1. ProcessError(t, rc).result = ProcessFailure(s, rc).result
    BY <1>0, <1>2, <1>5 DEF ProcessError
  <2>2. AreErrorsExpected(s) = (t.ExpectedResponses \notin {{}, {"Success"}})
    BY <1>3 DEF AreErrorsExpected
  <2>3. rc \in t.ExpectedResponses => t.ExpectedResponses \notin {{}, {"Success"}}
    BY <1>5
  <2>4. IsErrorAllowed(s, rc) = (t.TolerateErrors \/ rc \in t.ExpectedResponses)
    BY <1>3, <2>2, <2>3 DEF IsErrorAllowed
  <2> QED BY <1>3, <1>5, <2>1, <2>2, <2>4 DEF ProcessFailure, Outcome
<1> QED BY <1>4, <1>5

LEMMA CommandProcessed ==
  ASSUME NEW t \in Tpm2Type, t.OuterCommand = NoCommand, NEW rc \in Answers
  PROVE  LET u == ProcessError(t, rc).tpm2
         IN  /\ u \in Tpm2Type /\ UsedUp(t, u) /\ u.TempSessions = t.TempSessions
             /\ u.CpHashMode = t.CpHashMode /\ u.DoNotDispatchCommand = t.DoNotDispatchCommand
             /\ u.LastError = IF rc = "Garbled" THEN "Success" ELSE rc
<1>1. LET o == ProcessError(t, rc)
          u == o.tpm2
      IN  /\ o.result \in Results \ {"none"}
          /\ o.result = "true" => rc = "Success"
          /\ o.result = "false" => t.TolerateErrors \/ t.TheErrorHandler \/ AreErrorsExpected(t)
          /\ u \in Tpm2Type /\ u.OuterCommand = NoCommand /\ u.CurrentCommand = NoCommand
          /\ u.sessions = <<>> /\ u.ExpectedResponses = {} /\ u.ResetPp = FALSE
          /\ u.TolerateErrors = (t.TolerateErrors /\ t.TolerateErrorsPermanently > 0)
          /\ u.TolerateErrorsPermanently = t.TolerateErrorsPermanently
          /\ u.CpHashMode = t.CpHashMode /\ u.DoNotDispatchCommand = t.DoNotDispatchCommand
          /\ u.TheWarningHandler = t.TheWarningHandler /\ u.TheErrorHandler = t.TheErrorHandler
          /\ u.TempSessions = t.TempSessions /\ u.AutoAuthHashAlg = t.AutoAuthHashAlg
          /\ u.LastError = IF rc = "Garbled" THEN "Success" ELSE rc
  BY OutermostProcessed
<1> QED BY <1>1 DEF UsedUp

LEMMA FinishCommandPromised ==
  ASSUME IInv, IInv', RInv, FinishCommand, Outermost PROVE RInv' /\ Promised
<1>0. PICK t, o, rc : /\ t = ClearCommandPrelaunchContext /\ rc = Top.rc
                      /\ o = ProcessError(t, rc)
  OBVIOUS
<1>1. /\ ~Idle /\ ret = "none" /\ Top.at = "flush" /\ ~FlushLeft
      /\ tpm2' = o.tpm2 /\ Return(o.result) /\ tpmSessions' = tpmSessions /\ call' = call
  BY <1>0 DEF FinishCommand, At
<1>2. /\ Len(stack) = 1 /\ ReliableUser(Top) /\ UserInv(Top) /\ tpm2 \in Tpm2Type
  BY <1>1, RUserTop
<1>3. rc \in Answers /\ rc = call.said
  BY <1>0, <1>1, <1>2 DEF UserInv, UserFrame, Result
<1>4. /\ t \in Tpm2Type /\ t.TempSessions = <<>> /\ t.OuterCommand = NoCommand
      /\ SameModifiers(tpm2, t) /\ t.TolerateErrors = tpm2.TolerateErrors
      /\ t.AutoAuthHashAlg = tpm2.AutoAuthHashAlg
  BY <1>0, <1>2, PrelaunchCleared DEF Outermost
<1>5. /\ tpm2' \in Tpm2Type /\ UsedUp(tpm2, tpm2') /\ tpm2'.TempSessions = <<>>
      /\ tpm2'.CpHashMode = tpm2.CpHashMode
      /\ tpm2'.DoNotDispatchCommand = tpm2.DoNotDispatchCommand
      /\ tpm2'.LastError = IF rc = "Garbled" THEN "Success" ELSE rc
  <2>1. PICK u : u = o.tpm2
    OBVIOUS
  <2>2. /\ u \in Tpm2Type /\ UsedUp(t, u) /\ u.TempSessions = t.TempSessions
        /\ u.CpHashMode = t.CpHashMode /\ u.DoNotDispatchCommand = t.DoNotDispatchCommand
        /\ u.LastError = IF rc = "Garbled" THEN "Success" ELSE rc
    BY <1>0, <1>3, <1>4, <2>1, CommandProcessed
  <2>3. UsedUp(tpm2, u)
    BY <1>4, <2>2 DEF UsedUp, SameModifiers
  <2> QED BY <1>1, <1>4, <2>1, <2>2, <2>3 DEF SameModifiers
<1>6. tpmSessions' = {} /\ Held(0, {})'
  BY <1>1, <1>2, <1>5, AllFlushed DEF Leaving
<1>7. /\ call.asked.expected = t.ExpectedResponses /\ call.asked.tolerate = t.TolerateErrors
      /\ call.asked.onWarning = t.TheWarningHandler /\ call.asked.onError = t.TheErrorHandler
  <2>1. ret \notin Errors
    BY <1>1, DispatchAssumption
  <2>2. Asked(tpm2.TolerateErrors)
    BY <1>1, <1>2, <2>1, UserAsked
  <2> QED BY <1>4, <2>2 DEF Asked, SameModifiers
<1>8. Promise!Fits(o.result, tpm2'.LastError)
  <2>1. CASE rc = "Success"
    BY <1>0, <1>1, <1>3, <1>4, <1>5, <1>7, <2>1, ErrorProcessed DEF Promise!Fits, Promise!SuccessFits
  <2>2. CASE rc = "Garbled"
    <3>1. Promise!Raises("Exception")
      BY DEF Promise!Raises
    <3> QED BY <1>0, <1>1, <1>3, <1>4, <1>7, <2>2, <3>1, ErrorProcessed
            DEF Promise!Fits, Promise!SuccessFits
  <2>3. CASE rc \in ErrorCodes
    <3>1. rc \notin {"Success", "Garbled", "unsent", "lost"}
      BY <2>3, ErrorCodesAreOthers
    <3>2. o.result = IF Promise!ErrorFits THEN "false" ELSE rc
      BY <1>0, <1>1, <1>3, <1>4, <1>7, <2>3, ErrorProcessed
       DEF Promise!ErrorFits, Promise!ErrorsExpected
    <3> QED BY <1>3, <1>5, <3>1, <3>2 DEF Promise!Fits
  <2> QED BY <1>3, <2>1, <2>2, <2>3, ErrorCodesAreOthers
<1> QED BY <1>1, <1>2, <1>5, <1>6, <1>8, FinishPromised

-----------------------------------------------------------------------------
(* A command of the library ends.                                          *)

(* One that is not retried goes back to the command of the application.    *)
LEMMA OwnReturnsPromised ==
  ASSUME IInv, RInv, ~Idle, Top.at # "cancelSafe", Top.cc \notin UserCommands \cup CancelSafe,
         NEW r, Return(r), tpm2'.OuterCommand = NoCommand,
         SameModifiers(tpm2, tpm2'), SameSessions(tpm2, tpm2'),
         tpm2'.TolerateErrors = tpm2.TolerateErrors, tpm2'.AutoAuthHashAlg = tpm2.AutoAuthHashAlg,
         tpmSessions' = tpmSessions, call' = call
  PROVE  RInv' /\ Promised
<1>0. PICK f, g, b : f = stack[1] /\ g = Top /\ b = tpm2.TolerateErrors
  OBVIOUS
<1>1. Len(stack) = 2 /\ OwnInv(f, g) /\ ReliableOwn(f) /\ Common
  BY <1>0, ROwnTop
<1>2. /\ f.at = "prepare" => f.n = 1
      /\ f.at = "send" => f.n > 0
      /\ f.at \notin Leaving
  BY <1>0, <1>1 DEF OwnInv, Waits, CancelSafe
<1>3. Progress(f)' /\ Asked(b)' /\ Held(0, {})' /\ Common'
  BY <1>0, <1>1, ProgressKept, AskedKept, HeldKept, CommonKept DEF ReliableOwn, SameSessions
<1>4. Outermost'
  BY DEF Outermost
<1>5. Held(Flushed(f), IF f.at = "prepare" /\ f.n = 0 /\ r = "true" THEN {g.h} ELSE {})'
  <2>1. Flushed(f) = 0 /\ ~(f.at = "prepare" /\ f.n = 0)
    BY <1>2 DEF Flushed
  <2> QED BY <1>3, <2>1
<1>6. StillAsked(f, tpm2.TolerateErrors, tpm2.LastError)'
  <2>1. f.at # "catchPrepare"
    BY <1>2 DEF Leaving
  <2> QED BY <1>0, <1>3, <2>1 DEF StillAsked
<1>7. f.at # "prepare" \/ f.n # 0
  BY <1>2
<1> QED BY <1>0, <1>1, <1>2, <1>3, <1>4, <1>5, <1>6, <1>7, RBackToUser, Silent

LEMMA OwnProcessed ==
  ASSUME NEW t \in Tpm2Type, t.OuterCommand # NoCommand, NEW rc \in Answers
  PROVE  LET o == ProcessError(t, rc)
             u == o.tpm2
         IN  /\ u.OuterCommand = NoCommand /\ SameModifiers(t, u) /\ SameSessions(t, u)
             /\ u.TolerateErrors = t.TolerateErrors /\ u.AutoAuthHashAlg = t.AutoAuthHashAlg
             /\ u.LastError = IF rc = "Garbled" THEN "Success" ELSE rc
             /\ o.result = "true" <=> rc = "Success"
             /\ o.result = "false" <=> rc = "Canceled"
             /\ rc \in Errors => o.result = rc
<1>1. PICK s : s = [t EXCEPT !.LastError = rc]
  OBVIOUS
<1>2. rc \in Errors => rc \notin {"Success", "Garbled", "Canceled"} /\ rc \in ErrorCodes
  BY DispatchAssumption DEF ErrorCodes
<1>3. rc \in Errors => s.OuterCommand # NoCommand
  BY <1>1, <1>2, LastErrorSet
<1>4. rc \in Errors => ProcessError(t, rc) = ProcessFailure(s, rc)
  BY <1>1, <1>2 DEF ProcessError
<1>5. rc \in Errors => ProcessFailure(s, rc) = Outcome(rc, s)
  BY <1>2, <1>3 DEF ProcessFailure, AreErrorsExpected
<1>6. rc \in Errors => ProcessError(t, rc).result = rc
  BY <1>4, <1>5 DEF Outcome
<1> QED BY <1>6, NestedProcessed

LEMMA OwnFinishCommandPromised ==
  ASSUME IInv, IInv', RInv, FinishCommand, ~Outermost PROVE RInv' /\ Promised
<1>0. PICK t, o, rc : /\ t = ClearCommandPrelaunchContext /\ rc = Top.rc
                      /\ o = ProcessError(t, rc)
  OBVIOUS
<1>1. /\ ~Idle /\ ret = "none" /\ Top.at = "flush"
      /\ tpm2' = o.tpm2 /\ Return(o.result) /\ tpmSessions' = tpmSessions /\ call' = call
  BY <1>0 DEF FinishCommand, At
<1>2. Top.cc \notin UserCommands
  BY <1>1, RUserTop
<1>3. OwnFrame(Top) /\ DataOK /\ tpm2 \in Tpm2Type /\ Common
  BY <1>1, <1>2, ROwnTop
<1>4. rc \in Answers /\ t = tpm2
  BY <1>0, <1>1, <1>3, PrelaunchCleared DEF OwnFrame, Result
<1>5. PICK u, r : u = o.tpm2 /\ r = o.result
  OBVIOUS
<1>6. /\ u.OuterCommand = NoCommand /\ SameModifiers(tpm2, u) /\ SameSessions(tpm2, u)
      /\ u.TolerateErrors = tpm2.TolerateErrors /\ u.AutoAuthHashAlg = tpm2.AutoAuthHashAlg
      /\ u.LastError = IF rc = "Garbled" THEN "Success" ELSE rc
      /\ r = "true" <=> rc = "Success"
      /\ r = "false" <=> rc = "Canceled"
      /\ rc \in Errors => r = rc
  <2>1. tpm2.OuterCommand # NoCommand /\ o = ProcessError(tpm2, rc)
    BY <1>0, <1>4 DEF Outermost
  <2>2. LET p == ProcessError(tpm2, rc)
            v == p.tpm2
        IN  /\ v.OuterCommand = NoCommand /\ SameModifiers(tpm2, v) /\ SameSessions(tpm2, v)
            /\ v.TolerateErrors = tpm2.TolerateErrors /\ v.AutoAuthHashAlg = tpm2.AutoAuthHashAlg
            /\ v.LastError = IF rc = "Garbled" THEN "Success" ELSE rc
            /\ p.result = "true" <=> rc = "Success"
            /\ p.result = "false" <=> rc = "Canceled"
            /\ rc \in Errors => p.result = rc
    BY <1>3, <1>4, <2>1, OwnProcessed
  <2> QED BY <1>5, <2>1, <2>2
<1>7. CASE Top.cc \notin CancelSafe
  BY <1>1, <1>2, <1>5, <1>6, <1>7, OwnReturnsPromised
<1>8. CASE Top.cc \in CancelSafe
  <2>0. PICK f, g, h, k, e : /\ f = stack[1] /\ g = stack[2] /\ h = Top
                             /\ k = Flushed(f) /\ e = Doing(h, rc = "Success")
    OBVIOUS
  <2>1. /\ Len(stack) = 3 /\ AttemptInv(f, g, h) /\ ReliableAttempt(f, g, h)
    BY <1>1, <1>2, <1>8, <2>0, ROwnTop
  <2>2. /\ \/ rc = "Success" \/ (rc = "Canceled" /\ g.n < MaxAttempts)
           \/ g.cc = "StartAuthSession" /\ rc \in Errors
        /\ tpm2.TolerateErrors
    BY <1>0, <1>1, <2>0, <2>1 DEF ReliableAttempt, AttemptInv
  <2>3. \/ r = "true" /\ u.LastError # "Canceled"
        \/ r = "false" /\ u.LastError = "Canceled" /\ g.n < MaxAttempts
        \/ g.cc = "StartAuthSession" /\ r \in Errors /\ u.LastError = r /\ u.TolerateErrors
    BY <1>6, <2>2, DispatchAssumption
  <2>4. Progress(f)' /\ StillAsked(f, g.tolerate, g.code)'
    BY <1>1, <1>5, <1>6, <2>1, ProgressKept, StillAskedKept DEF ReliableAttempt, SameSessions
  <2>5. Serves(f, h)'
    BY <1>1, <1>5, <1>6, <2>1 DEF ReliableAttempt, Serves, SameSessions
  <2>6. Held(k, e)'
    <3>1. Held(k, e)
      BY <1>0, <1>1, <2>0, <2>1 DEF ReliableAttempt
    <3> QED BY <1>1, <1>5, <1>6, <3>1, HeldKept DEF SameSessions
  <2>7. Held(Flushed(f), Doing(h, r = "true"))'
    <3>1. Doing(h, r = "true") = e
      BY <1>6, <2>0 DEF Doing
    <3> QED BY <2>0, <2>6, <3>1
  <2>8. Common'
    BY <1>1, <1>3, <1>5, <1>6, CommonKept
  <2>9. CancelSafeFrame(g) /\ h.cc = g.cc
    BY <2>1 DEF AttemptInv
  <2> QED BY <1>1, <1>5, <2>0, <2>1, <2>3, <2>4, <2>5, <2>7, <2>8, <2>9, RBackToCancelSafe, Silent
<1> QED BY <1>7, <1>8

LEMMA OwnFinishCatchPromised ==
  ASSUME IInv, IInv', RInv, FinishCatch, ~Outermost PROVE RInv' /\ Promised
<1>0. PICK t, r : t = ClearCommandPrelaunchContext /\ r = Top.rc
  OBVIOUS
<1>1. /\ ~Idle /\ ret = "none" /\ Top.at \in {"catchPrepare", "catchSend"}
      /\ tpm2' = ClearCommandContext(t) /\ Return(r) /\ tpmSessions' = tpmSessions /\ call' = call
  BY <1>0 DEF FinishCatch, At
<1>2. Top.cc \notin UserCommands
  BY <1>1, RUserTop
<1>3. tpm2 \in Tpm2Type /\ Top.cc \notin CancelSafe
  BY <1>1, <1>2, ROwnTop DEF ReliableAttempt
<1>4. t = tpm2
  BY <1>0, <1>3, PrelaunchCleared
<1>5. /\ tpm2'.OuterCommand = NoCommand /\ SameModifiers(tpm2, tpm2') /\ SameSessions(tpm2, tpm2')
      /\ tpm2'.TolerateErrors = tpm2.TolerateErrors /\ tpm2'.AutoAuthHashAlg = tpm2.AutoAuthHashAlg
  BY <1>1, <1>3, <1>4, NestedCleared DEF Outermost
<1> QED BY <1>1, <1>2, <1>3, <1>5, OwnReturnsPromised

-----------------------------------------------------------------------------
(* The attempts to start or to flush a session.                            *)

LEMMA RCancelSafeTop ==
  ASSUME IInv, RInv, ~Idle, Top.at = "cancelSafe"
  PROVE  /\ Len(stack) = 2 /\ Top = stack[2] /\ Top \in FrameType /\ tpm2 \in Tpm2Type /\ Common
         /\ CancelSafeInv(stack[1], Top) /\ ReliableCancelSafe(stack[1], Top)
<1>1. Len(stack) = 2 /\ Top = stack[2] /\ CancelSafeInv(stack[1], Top)
  BY CancelSafeTop
<1>2. ReliableCancelSafe(stack[1], Top)
  BY <1>1, RTop
<1> QED BY <1>1, <1>2, TopFrame DEF RInv, IInv, DataOK

LEMMA AttemptPromised ==
  ASSUME IInv, IInv', RInv, Attempt PROVE RInv' /\ Promised
<1>0. PICK f, g, t, k, e :
        /\ f = stack[1] /\ g = Top /\ t = [tpm2 EXCEPT !.TolerateErrors = TRUE]
        /\ k = Flushed(f) /\ e = Doing(g, FALSE)
  OBVIOUS
<1>1. /\ ~Idle /\ ret = "none" /\ g.at = "cancelSafe" /\ CallOwn(g, g.cc, g.h, t)
      /\ tpmSessions' = tpmSessions /\ call' = call
  BY <1>0 DEF Attempt, At
<1>2. /\ Len(stack) = 2 /\ g = stack[2] /\ g \in FrameType /\ tpm2 \in Tpm2Type /\ Common
      /\ CancelSafeInv(f, g) /\ ReliableCancelSafe(f, g)
  BY <1>0, <1>1, RCancelSafeTop
<1>3. /\ t \in Tpm2Type /\ t.CurrentCommand = tpm2.CurrentCommand
      /\ t.AutoAuthHashAlg = tpm2.AutoAuthHashAlg /\ t.TolerateErrors
      /\ SameModifiers(tpm2, t) /\ SameSessions(tpm2, t)
  BY <1>0, <1>2 DEF Tpm2Type, SameModifiers, SameSessions
<1>4. /\ g.cc \in OwnCommands /\ g.h \in Handles \cup {NoHandle}
      /\ t.CurrentCommand \in UserCommands
  BY <1>2, <1>3, CommandKinds DEF CancelSafeInv, CancelSafeFrame, UserFrame, FrameType
<1>5. PICK h \in FrameType :
        /\ Invoke(g, h) /\ h.cc = g.cc /\ h.at = "prepare" /\ h.h = g.h
        /\ SameModifiers(t, tpm2') /\ SameSessions(t, tpm2')
        /\ tpm2'.AutoAuthHashAlg = t.AutoAuthHashAlg /\ tpm2'.TolerateErrors = t.TolerateErrors
  <2>1. PICK cc, hh : cc = g.cc /\ hh = g.h
    OBVIOUS
  <2>2. \E h \in FrameType :
          /\ Invoke(g, h) /\ OwnFrame(h) /\ h.cc = cc /\ h.at = "prepare" /\ h.n = 0 /\ h.h = hh
          /\ tpm2' \in Tpm2Type /\ tpm2'.CurrentCommand = cc
          /\ tpm2'.OuterCommand = t.CurrentCommand /\ tpm2'.LastError = t.LastError
          /\ SameModifiers(t, tpm2') /\ SameSessions(t, tpm2')
          /\ tpm2'.TolerateErrors = t.TolerateErrors
          /\ tpm2'.AutoAuthHashAlg = t.AutoAuthHashAlg
    <3>1. /\ ~Idle /\ cc \in OwnCommands /\ hh \in Handles \cup {NoHandle}
          /\ t \in Tpm2Type /\ t.CurrentCommand \in UserCommands /\ CallOwn(g, cc, hh, t)
      BY <1>1, <1>3, <1>4, <2>1
    <3> QED BY <3>1, OwnCalled
  <2> QED BY <2>1, <2>2
<1>6. /\ SameModifiers(tpm2, tpm2') /\ SameSessions(tpm2, tpm2')
      /\ tpm2'.AutoAuthHashAlg = tpm2.AutoAuthHashAlg
  BY <1>3, <1>5 DEF SameModifiers, SameSessions
<1>7. Progress(f)' /\ StillAsked(f, g.tolerate, g.code)' /\ Common'
  BY <1>1, <1>2, <1>6, ProgressKept, StillAskedKept, CommonKept
     DEF ReliableCancelSafe, SameSessions
<1>8. Serves(f, h)'
  BY <1>2, <1>5, <1>6 DEF ReliableCancelSafe, Serves, SameSessions
<1>9. Held(k, e)'
  <2>1. Doing(g, ret = "true") = e
    BY <1>0, <1>1 DEF Doing
  <2>2. Held(k, e)
    BY <1>0, <1>2, <2>1 DEF ReliableCancelSafe
  <2> QED BY <1>1, <1>6, <2>2, HeldKept DEF SameSessions
<1>10. Held(Flushed(f), Doing(h, h.at = "flush" /\ h.rc = "Success"))'
  <2>1. Doing(h, h.at = "flush" /\ h.rc = "Success") = e
    BY <1>0, <1>5 DEF Doing
  <2> QED BY <1>0, <1>9, <2>1
<1>11. ReliableAttempt(f, g, h)'
  BY <1>3, <1>5, <1>7, <1>8, <1>10 DEF ReliableAttempt
<1> QED BY <1>0, <1>1, <1>2, <1>5, <1>7, <1>11, RCancelSafeInvokes, Silent

LEMMA AttemptAgainPromised ==
  ASSUME IInv, IInv', RInv, AttemptAgain PROVE RInv' /\ Promised
<1>0. PICK f, g, u, k, e :
        /\ f = stack[1] /\ g = Top /\ u = [Top EXCEPT !.n = @ + 1]
        /\ k = Flushed(f) /\ e = Doing(g, FALSE)
  OBVIOUS
<1>1. /\ ~Idle /\ ret # "none" /\ g.at = "cancelSafe" /\ Become(u)
      /\ tpm2.LastError = "Canceled"
      /\ tpm2' = tpm2 /\ tpmSessions' = tpmSessions /\ call' = call
  BY <1>0 DEF AttemptAgain, BackAt, NeedRetry
<1>2. /\ Len(stack) = 2 /\ g \in FrameType /\ Common /\ ReliableCancelSafe(f, g)
  BY <1>0, <1>1, RCancelSafeTop
<1>3. ret = "false"
  BY <1>1, <1>2, DispatchAssumption DEF ReliableCancelSafe
<1>4. /\ u \in FrameType /\ u.at = "cancelSafe" /\ u.cc = g.cc /\ u.h = g.h
      /\ u.tolerate = g.tolerate /\ u.code = g.code
  BY <1>0, <1>1, <1>2 DEF FrameType
<1>5. Progress(f)' /\ StillAsked(f, g.tolerate, g.code)' /\ Common'
  BY <1>1, <1>2, ProgressKept, StillAskedKept, CommonKept DEF ReliableCancelSafe, SameModifiers
<1>6. Serves(f, u)'
  BY <1>1, <1>2, <1>4 DEF ReliableCancelSafe, Serves
<1>7. ret' = "none"
  BY <1>1 DEF Become
<1>8. Held(k, e)'
  <2>1. Doing(g, ret = "true") = e
    BY <1>0, <1>3 DEF Doing
  <2>2. Held(k, e)
    BY <1>0, <1>2, <2>1 DEF ReliableCancelSafe
  <2> QED BY <1>1, <2>2, HeldKept
<1>9. Held(Flushed(f), Doing(u, ret = "true"))'
  <2>1. Doing(u, FALSE) = e
    BY <1>0, <1>4 DEF Doing
  <2>2. (ret = "true")' = FALSE
    BY <1>7
  <2>3. Doing(u, ret = "true")' = e
    BY <2>1, <2>2 DEF Doing
  <2> QED BY <1>0, <1>8, <2>3
<1>10. ReliableCancelSafe(f, u)'
  BY <1>4, <1>5, <1>6, <1>7, <1>9 DEF ReliableCancelSafe
<1> QED BY <1>0, <1>1, <1>2, <1>4, <1>5, <1>10, ROwnBecomes, Silent

LEMMA AttemptsDonePromised ==
  ASSUME IInv, IInv', RInv, AttemptsDone PROVE RInv' /\ Promised
<1>0. PICK f, g, k, e :
        /\ f = stack[1] /\ g = Top /\ k = Flushed(f) /\ e = Doing(g, TRUE)
  OBVIOUS
<1>1. /\ ~Idle /\ ret # "none" /\ ~Raised(ret) /\ g.at = "cancelSafe"
      /\ ~(tpm2.LastError = "Canceled" /\ g.n < MaxAttempts)
      /\ tpm2' = [tpm2 EXCEPT !.TolerateErrors = g.tolerate, !.LastError = g.code]
      /\ Return(IF g.cc = "FlushContext" \/ (ret = "true" /\ g.h # NoHandle) THEN "true"
                ELSE "Exception")
      /\ tpmSessions' = tpmSessions /\ call' = call
  BY <1>0 DEF AttemptsDone, BackAt, NeedRetry
<1>2. /\ Len(stack) = 2 /\ g \in FrameType /\ tpm2 \in Tpm2Type /\ Common
      /\ CancelSafeInv(f, g) /\ ReliableCancelSafe(f, g)
  BY <1>0, <1>1, RCancelSafeTop
<1>3. ret = "true" /\ Return("true")
  <2>1. ret = "true"
    BY <1>1, <1>2, DispatchAssumption DEF ReliableCancelSafe, Raised
  <2>2. g.cc = "FlushContext" \/ g.h # NoHandle
    BY <1>2, <2>1, DispatchAssumption DEF CancelSafeInv, CancelSafeFrame, CancelSafe
  <2> QED BY <1>1, <2>1, <2>2
<1>4. /\ tpm2'.TolerateErrors = g.tolerate /\ tpm2'.LastError = g.code
      /\ tpm2'.OuterCommand = tpm2.OuterCommand
      /\ SameModifiers(tpm2, tpm2') /\ SameSessions(tpm2, tpm2')
      /\ tpm2'.AutoAuthHashAlg = tpm2.AutoAuthHashAlg
  BY <1>0, <1>1, <1>2 DEF Tpm2Type, SameModifiers, SameSessions
<1>5. Progress(f)' /\ StillAsked(f, g.tolerate, g.code)' /\ Common'
  BY <1>1, <1>2, <1>4, ProgressKept, StillAskedKept, CommonKept
     DEF ReliableCancelSafe, SameSessions
<1>6. Outermost' /\ StillAsked(f, tpm2.TolerateErrors, tpm2.LastError)'
  BY <1>2, <1>4, <1>5 DEF CancelSafeInv, Outermost
<1>7. Held(k, e)'
  <2>1. Doing(g, ret = "true") = e
    BY <1>0, <1>3 DEF Doing
  <2>2. Held(k, e)
    BY <1>0, <1>2, <2>1 DEF ReliableCancelSafe
  <2> QED BY <1>1, <1>4, <2>2, HeldKept DEF SameSessions
<1>8. /\ f.at = "prepare" /\ f.n = 0 <=> g.cc = "StartAuthSession"
      /\ f.at \in Leaving => g.cc = "FlushContext"
      /\ Serves(f, g)
  <2>1. f.at \in {"prepare", "send", "flush", "catchPrepare", "catchSend"} /\ g.cc \in CancelSafe
    BY <1>2 DEF CancelSafeInv, UserFrame, FrameType, CancelSafeFrame
  <2>2. Waits(f, g.cc) /\ Serves(f, g)
    BY <1>2 DEF CancelSafeInv, ReliableCancelSafe
  <2> QED BY <2>1, <2>2 DEF Waits, Serves, CancelSafe, Leaving
<1>9. Held(Flushed(f), IF f.at = "prepare" /\ f.n = 0 THEN {g.h} ELSE {})'
  <2>1. (IF f.at = "prepare" /\ f.n = 0 THEN {g.h} ELSE {}) = e
    BY <1>0, <1>8 DEF Doing
  <2> QED BY <1>0, <1>7, <2>1
<1>10. f.at # "send"
  BY <1>2 DEF CancelSafeInv, CancelSafeFrame, CancelSafe, Waits
<1>11. /\ f.at = "prepare" /\ f.n = 0 => tpm2'.sessions # <<>>
       /\ f.at \in Leaving => f.n \in DOMAIN tpm2'.TempSessions
  BY <1>4, <1>8 DEF Serves, SameSessions
<1>12. "true" \notin Errors
  BY DispatchAssumption
<1> QED BY <1>0, <1>1, <1>2, <1>3, <1>5, <1>6, <1>9, <1>10, <1>11, <1>12, RBackToUser, Silent

(* Only the TPM that has no session left makes an attempt throw.           *)
LEMMA AttemptThrowsPromised ==
  ASSUME IInv, IInv', RInv, AttemptThrows PROVE RInv' /\ Promised
<1>0. PICK f, g : f = stack[1] /\ g = Top
  OBVIOUS
<1>1. /\ ~Idle /\ ret # "none" /\ Raised(ret) /\ g.at = "cancelSafe" /\ Return(ret)
      /\ tpm2' = tpm2 /\ tpmSessions' = tpmSessions /\ call' = call
  BY <1>0 DEF AttemptThrows, BackAt
<1>2. /\ Len(stack) = 2 /\ Common /\ CancelSafeInv(f, g) /\ ReliableCancelSafe(f, g)
  BY <1>0, <1>1, RCancelSafeTop
<1>3. /\ g.cc = "StartAuthSession" /\ ret \in Errors /\ ret # "true"
      /\ tpm2.LastError = ret /\ tpm2.TolerateErrors
  BY <1>1, <1>2, DispatchAssumption DEF ReliableCancelSafe, Raised
<1>4. f.at = "prepare" /\ f.n = 0
  <2>1. f.at \in {"prepare", "send", "flush", "catchPrepare", "catchSend"}
    BY <1>2 DEF CancelSafeInv, UserFrame, FrameType
  <2> QED BY <1>2, <1>3, <2>1 DEF CancelSafeInv, ReliableCancelSafe, Waits, Serves, Leaving
<1>5. Asked(call.asked.tolerate)
  <2>1. Asked(g.tolerate)
    BY <1>2, <1>4 DEF ReliableCancelSafe, StillAsked
  <2>2. call.asked.tolerate = g.tolerate
    BY <2>1 DEF Asked
  <2> QED BY <2>1, <2>2
<1>6. Asked(call.asked.tolerate)' /\ Progress(f)' /\ Common' /\ Outermost'
  BY <1>1, <1>2, <1>5, ProgressKept, CommonKept DEF ReliableCancelSafe, CancelSafeInv, Asked, Outermost
<1>7. Held(0, {})'
  <2>1. Flushed(f) = 0 /\ Doing(g, ret = "true") = {}
    BY <1>3, <1>4 DEF Flushed, Leaving, Doing
  <2>2. Held(0, {})
    BY <1>2, <2>1 DEF ReliableCancelSafe
  <2> QED BY <1>1, <2>2, HeldKept
<1>8. Flushed(f) = 0 /\ f.at \notin Leaving
  BY <1>4 DEF Flushed, Leaving
<1> QED BY <1>0, <1>1, <1>2, <1>3, <1>4, <1>6, <1>7, <1>8, RBackToUser, Silent

-----------------------------------------------------------------------------
(* Every step keeps the invariant, and the promise.                        *)

LEMMA StutterPromised ==
  ASSUME IInv, RInv, UNCHANGED vars PROVE RInv' /\ Promised
<1>1. /\ tpm2' = tpm2 /\ stack' = stack /\ ret' = ret /\ tpmSessions' = tpmSessions
      /\ call' = call
  BY DEF vars
<1>2. Common'
  BY <1>1, CommonKept DEF RInv
<1>3. ASSUME NEW k, NEW e, Held(k, e) PROVE Held(k, e)'
  BY <1>1, <1>3, HeldKept
<1>4. /\ \A b : Asked(b) => Asked(b)'
      /\ \A f, b, c : StillAsked(f, b, c) => StillAsked(f, b, c)'
  BY <1>1 DEF Asked, StillAsked
<1>5. ASSUME NEW f, Progress(f) PROVE Progress(f)'
  BY <1>1, <1>5, ProgressKept
<1>6. Idle => Idle' /\ ReliableIdle'
  BY <1>1, <1>3 DEF RInv, ReliableIdle, Idle
<1>7. ASSUME NEW f, ReliableUser(f) PROVE ReliableUser(f)'
  <2>1. PICK k, e, a, b, c :
          /\ k = Flushed(f) /\ a = call.asked.tolerate
          /\ b = tpm2.TolerateErrors /\ c = tpm2.LastError
          /\ e = IF f.at = "prepare" /\ f.n = 0 /\ ret = "true" THEN {f.h} ELSE {}
    OBVIOUS
  <2>2. Held(k, e)' /\ Progress(f)'
    BY <1>3, <1>5, <1>7, <2>1 DEF ReliableUser
  <2>3. IF NoneLeft(f)' THEN Asked(a)' ELSE StillAsked(f, b, c)'
    BY <1>1, <1>4, <1>7, <2>1 DEF ReliableUser, NoneLeft
  <2>4. Held(Flushed(f), IF f.at = "prepare" /\ f.n = 0 /\ ret = "true" THEN {f.h} ELSE {})'
    BY <1>1, <2>1, <2>2
  <2>5. /\ NoneLeft(f)' = NoneLeft(f)
        /\ Asked(call.asked.tolerate)' = Asked(a)'
        /\ StillAsked(f, tpm2.TolerateErrors, tpm2.LastError)' = StillAsked(f, b, c)'
    BY <1>1, <2>1 DEF NoneLeft, Asked, StillAsked
  <2> QED BY <1>1, <1>7, <2>2, <2>3, <2>4, <2>5 DEF ReliableUser, Outermost
<1>8. ASSUME NEW f, ReliableOwn(f) PROVE ReliableOwn(f)'
  <2>1. PICK b : b = tpm2.TolerateErrors
    OBVIOUS
  <2>2. Held(0, {})' /\ Asked(b)' /\ Progress(f)'
    BY <1>3, <1>4, <1>5, <1>8, <2>1 DEF ReliableOwn
  <2> QED BY <1>1, <2>1, <2>2 DEF ReliableOwn
<1>9. ASSUME NEW f, NEW g, ReliableCancelSafe(f, g) PROVE ReliableCancelSafe(f, g)'
  <2>1. PICK k, e : k = Flushed(f) /\ e = Doing(g, ret = "true")
    OBVIOUS
  <2>2. Held(k, e)' /\ StillAsked(f, g.tolerate, g.code)' /\ Progress(f)'
    BY <1>3, <1>4, <1>5, <1>9, <2>1 DEF ReliableCancelSafe
  <2>3. Held(Flushed(f), Doing(g, ret = "true"))'
    BY <1>1, <2>1, <2>2 DEF Doing
  <2> QED BY <1>1, <1>9, <2>1, <2>2, <2>3 DEF ReliableCancelSafe, Serves
<1>10. ASSUME NEW f, NEW g, NEW h, ReliableAttempt(f, g, h) PROVE ReliableAttempt(f, g, h)'
  <2>1. PICK k, e : k = Flushed(f) /\ e = Doing(h, h.at = "flush" /\ h.rc = "Success")
    OBVIOUS
  <2>2. Held(k, e)' /\ StillAsked(f, g.tolerate, g.code)' /\ Progress(f)'
    BY <1>3, <1>4, <1>5, <1>10, <2>1 DEF ReliableAttempt
  <2> QED BY <1>1, <1>10, <2>1, <2>2 DEF ReliableAttempt, Serves
<1>11. Idle' <=> Idle
  BY <1>1 DEF Idle
<1>12. RInv'
  <2>1. PICK f, g, h : f = stack[1] /\ g = stack[2] /\ h = stack[3]
    OBVIOUS
  <2>2. /\ Len(stack) = 1 => ReliableUser(f)'
        /\ Len(stack) = 2 => IF g.at = "cancelSafe" THEN ReliableCancelSafe(f, g)'
                             ELSE ReliableOwn(f)'
        /\ Len(stack) = 3 => ReliableAttempt(f, g, h)'
    BY <1>7, <1>8, <1>9, <1>10, <2>1 DEF RInv
  <2>3. f = stack'[1] /\ g = stack'[2] /\ h = stack'[3] /\ Len(stack') = Len(stack)
    BY <1>1, <2>1
  <2>4. /\ Len(stack') = 1 => ReliableUser(stack[1])'
        /\ Len(stack') = 2 => IF stack'[2].at = "cancelSafe"
                              THEN ReliableCancelSafe(stack[1], stack[2])'
                              ELSE ReliableOwn(stack[1])'
        /\ Len(stack') = 3 => ReliableAttempt(stack[1], stack[2], stack[3])'
    BY <2>2, <2>3
  <2> QED BY <1>2, <1>6, <1>11, <2>4 DEF RInv
<1>13. Promised
  BY <1>1, <1>11 DEF Promised, Promise!vars, Idle
<1> QED BY <1>12, <1>13

LEMMA NextPromised ==
  ASSUME IInv, IInv', RInv, Reliable, [Next]_vars PROVE RInv' /\ Promised
<1>1. CASE Application
  BY <1>1, ModifiersPromised, CallPromised DEF Application
<1>2. CASE PrepareOwnCommand \/ StartMissingSession \/ MissingSessionStarted
             \/ MissingSessionLost \/ FallBackToNextHash \/ MissingSessionFailed
             \/ WrongSessionHandle \/ ReadMissingName \/ NameRead \/ Prepared
  BY <1>2, PrepareOwnCommandPromised, StartMissingSessionPromised, MissingSessionStartedPromised,
     NoSessionFails, MissingSessionFailedPromised, WrongSessionHandlePromised,
     ReadMissingNamePromised, NameReadPromised, PreparedPromised
<1>3. CASE ComputeCpHash \/ RecordCommandBytes \/ NvRate \/ PropertyRead
  BY <1>3, NotSentPromised, NvRatePromised, PropertyReadPromised
<1>4. CASE Execute \/ DeviceFails
  <2>1. CASE Top.cc \in UserCommands
    BY <1>4, <2>1, UserExecutePromised, UserDeviceFailsPromised
  <2>2. CASE Top.cc \notin UserCommands
    BY <1>4, <2>2, OwnExecutePromised, OwnDeviceFailsPromised
  <2> QED BY <2>1, <2>2
<1>5. CASE FlushTempSession \/ TempSessionFlushed \/ FlushThrows
  BY <1>5, FlushTempSessionPromised, TempSessionFlushedPromised, NoSessionFails
<1>6. CASE FinishCommand \/ FinishCatch
  BY <1>6, FinishCommandPromised, FinishCatchPromised, OwnFinishCommandPromised,
     OwnFinishCatchPromised
<1>7. CASE Attempt \/ AttemptAgain \/ AttemptsDone \/ AttemptThrows
  BY <1>7, AttemptPromised, AttemptAgainPromised, AttemptsDonePromised, AttemptThrowsPromised
<1>8. CASE UNCHANGED vars
  BY <1>8, StutterPromised
<1> QED BY <1>1, <1>2, <1>3, <1>4, <1>5, <1>6, <1>7, <1>8 DEF Next, Library

-----------------------------------------------------------------------------
(* The theorems.                                                           *)

(* As long as the library's own commands for sessions are not failed, the  *)
(* sessions are accounted for: those of the list that are not flushed yet, *)
(* and the one being started or flushed, are the ones in the TPM.          *)
THEOREM SessionsAreAccountedFor == Reliable /\ Spec => []RInv
<1> SUFFICES ASSUME Reliable PROVE Spec => []RInv
  OBVIOUS
<1>1. NestedUnlimited /\ (Init => RInv)
  BY RInit DEF Reliable
<1>2. IInv /\ IInv' /\ RInv /\ [Next]_vars => RInv'
  BY NextPromised
<1> QED BY <1>1, <1>2, Invariance, PTL DEF Spec

(* No session that the library creates for a command outlives it           *)
(* (ClearCommandPrelaunchContext of Tpm2.cs), neither when the command     *)
(* fails nor when the TPM has no session left for it.  Those of a command  *)
(* that was not sent are still listed, for the next command to flush.      *)
THEOREM SessionsAreFlushed == Reliable /\ Spec => []TemporarySessionsAreFlushed
<1> SUFFICES ASSUME Reliable PROVE Spec => []TemporarySessionsAreFlushed
  OBVIOUS
<1>1. ASSUME IInv, RInv PROVE TemporarySessionsAreFlushed
  <2> SUFFICES ASSUME Idle
               PROVE  /\ tpmSessions = {tpm2.TempSessions[i] : i \in DOMAIN tpm2.TempSessions}
                      /\ ret # "none" /\ (call.said # "unsent" \/ ret # "true") =>
                           tpmSessions = {}
    BY DEF TemporarySessionsAreFlushed, Returned
  <2>1. ReliableIdle /\ tpm2.TempSessions \in Seq(Handles)
    BY <1>1 DEF RInv, IInv, DataOK, Tpm2Type
  <2>2. tpmSessions = Remaining(0)
    BY <2>1 DEF ReliableIdle, Held
  <2> QED BY <2>1, <2>2, RemainingAll DEF ReliableIdle
<1>2. NestedUnlimited /\ (IInv /\ RInv => TemporarySessionsAreFlushed)
  BY <1>1 DEF Reliable
<1> QED BY <1>2, Invariance, SessionsAreAccountedFor, PTL

(* The object keeps the promise of OneShot: every modifier is of the next  *)
(* command of the application, of all of it, and of no other one, whatever *)
(* commands of its own the library issues in between.                      *)
THEOREM ModifiersAreForOneCommand == Reliable /\ Spec => ModifiersAreOneShot
<1> SUFFICES ASSUME Reliable PROVE Spec => ModifiersAreOneShot
  OBVIOUS
<1>1. NestedUnlimited /\ (Init => Promise!Init)
  BY RInit DEF Reliable
<1>2. IInv /\ IInv' /\ RInv /\ [Next]_vars => [Promise!Next]_(Promise!vars)
  BY NextPromised DEF Promised
<1> QED BY <1>1, <1>2, Invariance, SessionsAreAccountedFor, PTL
        DEF Spec, ModifiersAreOneShot, Promise!Spec

=============================================================================
