-------------------------- MODULE Tpm2DispatchProof --------------------------
(***************************************************************************)
(* Proofs about Tpm2Dispatch.  Whatever the application asks for and the   *)
(* TPM and the device answer: the variables keep their types, TRUE means   *)
(* that the command was done, and no command is sent with an implicit      *)
(* session that the TPM does not have.                                     *)
(*                                                                         *)
(* The proofs rest on the shape of the call stack.  The application's      *)
(* command is the first activation; what it waits for says which command   *)
(* of the library is the second, and CurrentCommand and OuterCommand agree *)
(* with it.                                                                *)
(***************************************************************************)
EXTENDS Tpm2Dispatch, SequenceTheorems, TLAPS

Commands == UserCommands \cup OwnCommands
Sessions == UserSessions \cup Handles \cup {"Default", "Pw"}
CancelSafe == {"StartAuthSession", "FlushContext"}

(* The TPM does not answer the library's own commands with NV_RATE: they   *)
(* do not write to its nonvolatile memory.                                 *)
NestedUnlimited == RateLimited \subseteq UserCommands

-----------------------------------------------------------------------------
(* The inductive invariant, by the depth of the call stack.                *)

DataOK ==
  /\ tpm2 \in Tpm2Type
  /\ ret \in ErrorCodes \cup {"none", "true", "false", "Exception"}
  /\ tpmSessions \subseteq Handles
  /\ call = [asked |-> call.asked, said |-> call.said, sent |-> call.sent]
  /\ call.said \in Answers \cup {"unsent", "lost"}
  /\ call.sent \in Seq(Sessions)

(* A command that was answered has its answer, and a handler its exception.*)
Result(f) ==
  /\ f.at = "flush" => f.rc \in Answers
  /\ f.at \in {"catchPrepare", "catchSend"} => f.rc \in ErrorCodes \cup {"false", "Exception"}

(* The application's command, and what was asked and said of it.           *)
UserFrame(f) ==
  /\ f \in FrameType /\ f.cc \in UserCommands /\ f.at # "cancelSafe"
  /\ Result(f) /\ (f.at = "flush" => f.rc = call.said)
  /\ tpm2.CpHashMode = call.asked.cpHash /\ tpm2.DoNotDispatchCommand = call.asked.record

(* A command of the library, run by a command of the application.          *)
OwnFrame(g) ==
  /\ g \in FrameType /\ g.cc \in OwnCommands /\ g.at # "cancelSafe"
  /\ Result(g) /\ (g.at = "flush" => g.rc # "Garbled")
  /\ g.cc = "StartAuthSession" /\ g.at = "flush" /\ g.rc = "Success" =>
       g.h \in Handles \cap tpmSessions
Nested(f, g) ==
  ret = "none" /\ tpm2.CurrentCommand = g.cc /\ tpm2.OuterCommand = f.cc

CancelSafeFrame(g) == g \in FrameType /\ g.cc \in CancelSafe /\ g.at = "cancelSafe"

(* The sessions that the command was given so far.                         *)
Alive(ss) == \A i \in DOMAIN ss : ss[i] \in Handles => ss[i] \in tpmSessions

(* What a command waits for.  Its implicit sessions are alive meanwhile.   *)
Waits(f, cc) ==
  /\ f.at = "prepare" => /\ cc \in {"StartAuthSession", "ReadPublic"}
                         /\ cc = "ReadPublic" => f.n = 1
                         /\ Alive(tpm2.sessions)
  /\ f.at = "send"    => cc = "GetCapability" /\ f.n > 0 /\ Alive(call.sent)
  /\ f.at \in Leaving => cc = "FlushContext"

(* A command whose flush failed was never left: the next one runs as if it *)
(* were nested in it, finds dead sessions in the list, and sends none.     *)
IdleInv ==
  /\ Outermost /\ tpm2.CurrentCommand \in UserCommands \cup {NoCommand}
  /\ tpm2.CurrentCommand = NoCommand =>
       \A i \in DOMAIN tpm2.sessions : tpm2.sessions[i] \notin Handles
  /\ TrueMeansDone

UserInv(f) ==
  /\ UserFrame(f)
  /\ tpm2.CurrentCommand = f.cc /\ tpm2.OuterCommand \in UserCommands \cup {NoCommand}
  /\ ret # "none" \/ (f.at = "prepare" /\ f.n > 0) => Outermost
  /\ f.at = "prepare" /\ f.n = 0 /\ ret = "true" => f.h \in Handles \cap tpmSessions
  /\ f.at = "prepare" \/ (f.at = "send" /\ f.n = 0) => (Outermost => Alive(tpm2.sessions))
  /\ f.at = "send" /\ f.n > 0 => Alive(call.sent)

CancelSafeInv(f, g) ==
  /\ UserFrame(f) /\ CancelSafeFrame(g) /\ Waits(f, g.cc)
  /\ tpm2.CurrentCommand = f.cc /\ Outermost
  /\ g.cc = "StartAuthSession" /\ ret = "true" => g.h \in Handles \cap tpmSessions

OwnInv(f, g) ==
  UserFrame(f) /\ OwnFrame(g) /\ g.cc \notin CancelSafe /\ Waits(f, g.cc) /\ Nested(f, g)

AttemptInv(f, g, h) ==
  /\ UserFrame(f) /\ CancelSafeFrame(g) /\ Waits(f, g.cc)
  /\ OwnFrame(h) /\ h.cc = g.cc /\ Nested(f, h)

IInv ==
  /\ DataOK /\ stack \in Seq(FrameType)
  /\ \/ Idle /\ IdleInv
     \/ Len(stack) = 1 /\ UserInv(stack[1])
     \/ Len(stack) = 2 /\ (CancelSafeInv(stack[1], stack[2]) \/ OwnInv(stack[1], stack[2]))
     \/ Len(stack) = 3 /\ AttemptInv(stack[1], stack[2], stack[3])

-----------------------------------------------------------------------------
(* The call stack.                                                         *)

LEMMA Below == \A n \in Nat \ {0} : \A i \in 1 .. n - 1 : i \in 1 .. n /\ i # n
OBVIOUS

LEMMA BecomeStack ==
  ASSUME stack \in Seq(FrameType), ~Idle, NEW f \in FrameType, Become(f)
  PROVE  /\ stack' \in Seq(FrameType) /\ Len(stack') = Len(stack) /\ ~Idle'
         /\ DOMAIN stack' = DOMAIN stack
         /\ stack'[Len(stack)] = f
         /\ \A i \in 1 .. Len(stack) - 1 : stack'[i] = stack[i]
         /\ ret' = "none"
<1>1. Len(stack) \in Nat \ {0} /\ DOMAIN stack = 1 .. Len(stack)
  BY DEF Idle
<1>2. stack' = [stack EXCEPT ![Len(stack)] = f] /\ ret' = "none"
  BY DEF Become
<1>3. Len(stack) \in 1 .. Len(stack)
  BY <1>1
<1>4. /\ stack' \in Seq(FrameType) /\ Len(stack') = Len(stack)
      /\ \A j \in 1 .. Len(stack) : stack'[j] = IF j = Len(stack) THEN f ELSE stack[j]
  BY <1>2, <1>3, ExceptSeq
<1>5. DOMAIN stack' = 1 .. Len(stack)
  BY <1>4, LenProperties
<1>6. stack' # <<>>
  BY <1>1, <1>4, EmptySeq
<1>7. \A i \in 1 .. Len(stack) - 1 : i \in 1 .. Len(stack) /\ i # Len(stack)
  BY <1>1, Below
<1> QED BY <1>1, <1>2, <1>3, <1>4, <1>5, <1>6, <1>7 DEF Idle

LEMMA InvokeStack ==
  ASSUME stack \in Seq(FrameType), ~Idle, NEW f \in FrameType, NEW g \in FrameType, Invoke(f, g)
  PROVE  /\ stack' \in Seq(FrameType) /\ Len(stack') = Len(stack) + 1 /\ ~Idle'
         /\ DOMAIN stack' = 1 .. Len(stack) + 1
         /\ stack'[Len(stack)] = f /\ stack'[Len(stack) + 1] = g
         /\ \A i \in 1 .. Len(stack) - 1 : stack'[i] = stack[i]
         /\ ret' = "none"
<1> DEFINE s == [stack EXCEPT ![Len(stack)] = f]
<1>1. Len(stack) \in Nat \ {0} /\ DOMAIN stack = 1 .. Len(stack)
  BY DEF Idle
<1>2. Len(stack) \in 1 .. Len(stack)
  BY <1>1
<1>3. /\ s \in Seq(FrameType) /\ Len(s) = Len(stack)
      /\ \A j \in 1 .. Len(stack) : s[j] = IF j = Len(stack) THEN f ELSE stack[j]
  BY <1>2, ExceptSeq
<1>4. stack' = Append(s, g) /\ ret' = "none"
  BY DEF Invoke
<1> HIDE DEF s
<1>5. /\ stack' \in Seq(FrameType) /\ Len(stack') = Len(stack) + 1
      /\ \A i \in 1 .. Len(stack) : stack'[i] = s[i]
      /\ stack'[Len(stack) + 1] = g
  <2>1. Append(s, g) \in Seq(FrameType) /\ Len(Append(s, g)) = Len(s) + 1
    BY <1>3, AppendProperties
  <2>2. \A i \in 1 .. Len(s) : Append(s, g)[i] = s[i]
    BY <1>3, AppendProperties
  <2>3. Append(s, g)[Len(s) + 1] = g
    BY <1>3, AppendProperties
  <2> QED BY <1>3, <1>4, <2>1, <2>2, <2>3
<1>6. DOMAIN stack' = 1 .. Len(stack) + 1
  BY <1>5, LenProperties
<1>7. stack' # <<>>
  BY <1>1, <1>5, EmptySeq
<1>8. \A i \in 1 .. Len(stack) - 1 : i \in 1 .. Len(stack) /\ i # Len(stack)
  BY <1>1, Below
<1> QED BY <1>2, <1>3, <1>4, <1>5, <1>6, <1>7, <1>8 DEF Idle

LEMMA ReturnStack ==
  ASSUME stack \in Seq(FrameType), ~Idle, NEW r, Return(r)
  PROVE  /\ stack' \in Seq(FrameType) /\ Len(stack') = Len(stack) - 1
         /\ DOMAIN stack' = 1 .. Len(stack) - 1
         /\ Idle' <=> Len(stack) = 1
         /\ Len(stack) > 1 => stack'[Len(stack) - 1] = [stack[Len(stack) - 1] EXCEPT !.h = Top.h]
         /\ \A i \in 1 .. Len(stack) - 2 : stack'[i] = stack[i]
         /\ ret' = r
<1>1. Len(stack) \in Nat \ {0} /\ DOMAIN stack = 1 .. Len(stack) /\ ret' = r
  BY DEF Idle, Return
<1>2. CASE Len(stack) = 1
  <2>1. stack' = <<>>
    BY <1>2 DEF Return
  <2> QED BY <1>1, <1>2, <2>1, EmptySeq DEF Idle
<1>3. CASE Len(stack) # 1
  <2> DEFINE k == Len(stack) - 1
             s == Front(stack)
             g == [stack[k] EXCEPT !.h = Top.h]
  <2>1. k \in Nat \ {0} /\ k \in 1 .. Len(stack) /\ Len(stack) \in 1 .. Len(stack)
    BY <1>1, <1>3
  <2>2. /\ s \in Seq(FrameType) /\ Len(s) = k /\ \A i \in 1 .. k : s[i] = stack[i]
    <3>1. 1 \in 1 .. Len(stack) + 1 /\ k \in 0 .. Len(stack)
      BY <2>1
    <3> QED BY <2>1, <3>1, SubSeqProperties DEF Front
  <2>3. stack[k] \in FrameType /\ Top \in FrameType
    BY <2>1, ElementOfSeq DEF Top, Last
  <2>4. g \in FrameType
    BY <2>3 DEF FrameType
  <2>5. stack' = [s EXCEPT ![k] = g]
    <3>1. stack' = [s EXCEPT ![k].h = Top.h]
      BY <1>3 DEF Return
    <3>2. s[k] = stack[k]
      BY <2>1, <2>2
    <3> QED BY <3>1, <3>2
  <2> HIDE DEF g, s
  <2>6. k \in 1 .. Len(s)
    BY <2>1, <2>2
  <2>7. /\ stack' \in Seq(FrameType) /\ Len(stack') = k
        /\ \A j \in 1 .. k : stack'[j] = IF j = k THEN g ELSE s[j]
    BY <2>2, <2>4, <2>5, <2>6, ExceptSeq
  <2>8. DOMAIN stack' = 1 .. k /\ stack' # <<>>
    BY <2>1, <2>7, LenProperties, EmptySeq
  <2>9. \A i \in 1 .. Len(stack) - 2 : i \in 1 .. k /\ i # k
    BY <2>1
  <2>10. stack'[k] = [stack[k] EXCEPT !.h = Top.h]
    BY <2>1, <2>7 DEF g
  <2>11. \A i \in 1 .. Len(stack) - 2 : stack'[i] = stack[i]
    BY <2>2, <2>7, <2>9
  <2> QED BY <1>1, <1>3, <2>7, <2>8, <2>10, <2>11 DEF Idle
<1> QED BY <1>2, <1>3

(* Where the innermost activation can be.                                  *)
LEMMA TopFrame ==
  ASSUME IInv, ~Idle
  PROVE  /\ Len(stack) \in {1, 2, 3} /\ Top = stack[Len(stack)] /\ Top \in FrameType
         /\ DOMAIN stack = 1 .. Len(stack)
         /\ stack[1] \in FrameType
<1>1. stack \in Seq(FrameType) /\ Len(stack) \in {1, 2, 3}
  BY DEF IInv
<1>2. 1 \in 1 .. Len(stack) /\ Len(stack) \in 1 .. Len(stack)
  BY <1>1
<1> QED BY <1>1, <1>2, ElementOfSeq, LenProperties DEF Top, Last

LEMMA CommandKinds ==
  /\ UserCommands \cap OwnCommands = {} /\ CancelSafe \subseteq OwnCommands
  /\ NoCommand \notin UserCommands /\ NoCommand \notin OwnCommands
BY DispatchAssumption DEF CancelSafe, OwnCommands

LEMMA Depth ==
  ASSUME IInv, ~Idle
  PROVE  \/ Len(stack) = 1 /\ Top = stack[1] /\ UserInv(Top)
         \/ Len(stack) = 2 /\ Top = stack[2] /\ Top.at = "cancelSafe" /\ CancelSafeInv(stack[1], Top)
         \/ /\ Len(stack) = 2 /\ Top = stack[2] /\ Top.at # "cancelSafe" /\ ~Outermost
            /\ OwnInv(stack[1], Top)
         \/ /\ Len(stack) = 3 /\ Top = stack[3] /\ Top.at # "cancelSafe" /\ ~Outermost
            /\ AttemptInv(stack[1], stack[2], Top)
<1>1. Top = stack[Len(stack)]
  BY TopFrame
<1>2. CASE Len(stack) = 1
  BY <1>1, <1>2 DEF IInv, Idle
<1>3. CASE Len(stack) = 2 /\ CancelSafeInv(stack[1], stack[2])
  BY <1>1, <1>3 DEF CancelSafeInv, CancelSafeFrame
<1>4. CASE Len(stack) = 2 /\ OwnInv(stack[1], stack[2])
  BY <1>1, <1>4, CommandKinds DEF OwnInv, UserFrame, OwnFrame, Nested, Outermost
<1>5. CASE Len(stack) = 3 /\ AttemptInv(stack[1], stack[2], stack[3])
  BY <1>1, <1>5, CommandKinds DEF AttemptInv, UserFrame, OwnFrame, Nested, Outermost
<1> QED BY <1>2, <1>3, <1>4, <1>5 DEF IInv

(* A command of the application is alone on the stack while it runs.       *)
LEMMA UserTop ==
  ASSUME IInv, ~Idle,
         \/ Outermost /\ Top.at # "cancelSafe"
         \/ ret # "none" /\ Top.at # "cancelSafe"
         \/ Top.cc \in UserCommands
  PROVE  Len(stack) = 1 /\ Top = stack[1] /\ UserInv(Top) /\ Top.cc \in UserCommands
<1>1. \/ Len(stack) = 1 /\ Top = stack[1] /\ UserInv(Top)
      \/ Top.at = "cancelSafe" /\ CancelSafeInv(stack[1], Top)
      \/ ~Outermost /\ OwnInv(stack[1], Top)
      \/ ~Outermost /\ AttemptInv(stack[1], stack[2], Top)
  BY Depth
<1>2. CancelSafeInv(stack[1], Top) => Top.cc \notin UserCommands
  BY CommandKinds DEF CancelSafeInv, CancelSafeFrame
<1>3. OwnInv(stack[1], Top) => Top.cc \notin UserCommands /\ ret = "none"
  BY CommandKinds DEF OwnInv, OwnFrame, Nested
<1>4. AttemptInv(stack[1], stack[2], Top) => Top.cc \notin UserCommands /\ ret = "none"
  BY CommandKinds DEF AttemptInv, OwnFrame, Nested
<1> QED BY <1>1, <1>2, <1>3, <1>4 DEF UserInv, UserFrame

LEMMA CancelSafeTop ==
  ASSUME IInv, ~Idle, Top.at = "cancelSafe"
  PROVE  Len(stack) = 2 /\ Top = stack[2] /\ CancelSafeInv(stack[1], Top)
BY Depth DEF UserInv, UserFrame

-----------------------------------------------------------------------------
(* The fields of the Tpm2 object.                                          *)

(* What only the application, and the end of its command, change.          *)
SameModifiers(t, u) ==
  /\ u.TolerateErrorsPermanently = t.TolerateErrorsPermanently
  /\ u.ExpectedResponses = t.ExpectedResponses /\ u.ResetPp = t.ResetPp
  /\ u.CpHashMode = t.CpHashMode /\ u.DoNotDispatchCommand = t.DoNotDispatchCommand
  /\ u.TheWarningHandler = t.TheWarningHandler /\ u.TheErrorHandler = t.TheErrorHandler

SameSessions(t, u) == u.sessions = t.sessions /\ u.TempSessions = t.TempSessions

LEMMA EnteredFields ==
  ASSUME NEW t \in Tpm2Type, NEW cc \in Commands
  PROVE  /\ Entered(t, cc) \in Tpm2Type
         /\ Entered(t, cc).CurrentCommand = cc
         /\ Entered(t, cc).OuterCommand =
              IF t.CurrentCommand # NoCommand THEN t.CurrentCommand ELSE t.OuterCommand
         /\ SameModifiers(t, Entered(t, cc)) /\ SameSessions(t, Entered(t, cc))
         /\ Entered(t, cc).TolerateErrors = t.TolerateErrors
         /\ Entered(t, cc).LastError = t.LastError
         /\ Entered(t, cc).AutoAuthHashAlg = t.AutoAuthHashAlg
BY ZenonT(40) DEF Entered, Tpm2Type, Commands, SameModifiers, SameSessions

LEMMA NestedCleared ==
  ASSUME NEW t \in Tpm2Type, t.OuterCommand # NoCommand
  PROVE  /\ ClearCommandContext(t) \in Tpm2Type
         /\ ClearCommandContext(t).CurrentCommand = t.OuterCommand
         /\ ClearCommandContext(t).OuterCommand = NoCommand
         /\ SameModifiers(t, ClearCommandContext(t)) /\ SameSessions(t, ClearCommandContext(t))
         /\ ClearCommandContext(t).TolerateErrors = t.TolerateErrors
         /\ ClearCommandContext(t).LastError = t.LastError
         /\ ClearCommandContext(t).AutoAuthHashAlg = t.AutoAuthHashAlg
BY DEF ClearCommandContext, Tpm2Type, SameModifiers, SameSessions

LEMMA OutermostCleared ==
  ASSUME NEW t \in Tpm2Type, t.OuterCommand = NoCommand
  PROVE  LET u == ClearCommandContext(t)
         IN  /\ u \in Tpm2Type
             /\ u.CurrentCommand = NoCommand /\ u.OuterCommand = NoCommand
             /\ u.sessions = <<>> /\ u.ExpectedResponses = {} /\ u.ResetPp = FALSE
             /\ u.TolerateErrors = (t.TolerateErrors /\ t.TolerateErrorsPermanently > 0)
             /\ u.TolerateErrorsPermanently = t.TolerateErrorsPermanently
             /\ u.CpHashMode = t.CpHashMode /\ u.DoNotDispatchCommand = t.DoNotDispatchCommand
             /\ u.TheWarningHandler = t.TheWarningHandler /\ u.TheErrorHandler = t.TheErrorHandler
             /\ u.TempSessions = t.TempSessions /\ u.LastError = t.LastError
             /\ u.AutoAuthHashAlg = t.AutoAuthHashAlg
<1> DEFINE b == t.TolerateErrors /\ t.TolerateErrorsPermanently > 0
<1>1. ClearCommandContext(t) =
        [t EXCEPT !.ResetPp = FALSE, !.CurrentCommand = NoCommand,
                  !.ExpectedResponses = {}, !.sessions = <<>>, !.TolerateErrors = b]
  BY DEF ClearCommandContext, Tpm2Type
<1>2. b \in BOOLEAN
  OBVIOUS
<1>3. <<>> \in Seq(UserSessions \cup Handles \cup {"Default", "Pw"})
  BY EmptySeq
<1>4. b = (t.TolerateErrors /\ t.TolerateErrorsPermanently > 0)
  OBVIOUS
<1> HIDE DEF b
<1>5. ClearCommandContext(t) \in Tpm2Type
  BY ZenonT(40), <1>1, <1>2, <1>3 DEF Tpm2Type
<1>6. /\ ClearCommandContext(t).CurrentCommand = NoCommand
      /\ ClearCommandContext(t).OuterCommand = NoCommand
      /\ ClearCommandContext(t).sessions = <<>> /\ ClearCommandContext(t).ExpectedResponses = {}
      /\ ClearCommandContext(t).ResetPp = FALSE /\ ClearCommandContext(t).TolerateErrors = b
  BY <1>1 DEF Tpm2Type
<1>7. LET u == ClearCommandContext(t)
      IN  /\ u.TolerateErrorsPermanently = t.TolerateErrorsPermanently
          /\ u.CpHashMode = t.CpHashMode /\ u.DoNotDispatchCommand = t.DoNotDispatchCommand
          /\ u.TheWarningHandler = t.TheWarningHandler /\ u.TheErrorHandler = t.TheErrorHandler
          /\ u.TempSessions = t.TempSessions /\ u.LastError = t.LastError
          /\ u.AutoAuthHashAlg = t.AutoAuthHashAlg
  BY <1>1 DEF Tpm2Type
<1> QED BY <1>4, <1>5, <1>6, <1>7

(* What the TPM may answer.                                                *)
LEMMA AnswerFacts ==
  ASSUME DataOK, Top \in FrameType, NEW a \in TpmAnswers
  PROVE  /\ a[1] \in Answers /\ a[2] \in Handles \cup {NoHandle} /\ a[3] \subseteq Handles
         /\ Top.cc \notin UserCommands => a[1] # "Garbled"
         /\ Top.cc # "FlushContext" => tpmSessions \subseteq a[3]
         /\ Top.cc = "StartAuthSession" /\ a[1] = "Success" => a[2] \in Handles \cap a[3]
<1>1. Top.h \in Handles \cup {NoHandle} /\ Top.cc \in UserCommands \cup OwnCommands
  BY DEF FrameType
<1>2. tpmSessions \subseteq Handles
  BY DEF DataOK
<1>3. ASSUME NEW codes, a \in Answer(codes)
      PROVE  a[1] \in codes /\ a[2] = Top.h /\ a[3] = tpmSessions
  BY <1>3 DEF Answer
<1>4. ASSUME a \in Refusals
      PROVE  a[1] \in Errors \cup {"Canceled", "NvRate"} /\ a[2] = Top.h /\ a[3] = tpmSessions
  BY <1>3, <1>4 DEF Refusals, When
<1>5. Errors \subseteq Answers /\ {"Success", "Canceled", "NvRate", "Hash", "Garbled"} \subseteq Answers
      /\ "Success" \notin Errors /\ "Garbled" \notin Errors
  BY DispatchAssumption DEF Answers, ErrorCodes
<1>6. CASE Top.cc \in UserCommands
  <2>1. TpmAnswers = UserAnswers
    BY <1>6, DispatchAssumption DEF TpmAnswers, OwnCommands
  <2>2. a[1] \in Answers /\ a[2] = Top.h /\ a[3] = tpmSessions
    BY <1>3, <1>5, <2>1 DEF UserAnswers, When
  <2> QED BY <1>1, <1>2, <1>6, <2>2, CommandKinds DEF OwnCommands
<1>7. CASE Top.cc = "StartAuthSession"
  <2>1. TpmAnswers = StartAnswers
    BY <1>7, DispatchAssumption DEF TpmAnswers, OwnCommands
  <2>2. \/ /\ a[1] \in Errors \cup {"Canceled", "NvRate", "Hash"}
           /\ a[2] = Top.h /\ a[3] = tpmSessions
        \/ \E h \in Handles \ tpmSessions : a = <<"Success", h, tpmSessions \cup {h}>>
    BY <1>3, <1>4, <2>1 DEF StartAnswers, When
  <2>3. CASE \E h \in Handles \ tpmSessions : a = <<"Success", h, tpmSessions \cup {h}>>
    BY <1>2, <1>5, <2>3
  <2>4. CASE a[1] \in Errors \cup {"Canceled", "NvRate", "Hash"} /\ a[2] = Top.h /\ a[3] = tpmSessions
    BY <1>1, <1>2, <1>5, <2>4
  <2> QED BY <2>2, <2>3, <2>4
<1>8. CASE Top.cc = "FlushContext"
  <2>1. TpmAnswers = FlushAnswers
    BY <1>8, DispatchAssumption DEF TpmAnswers, OwnCommands
  <2>2. \/ /\ a[1] \in Errors \cup {"Canceled", "NvRate"}
           /\ a[2] = Top.h /\ a[3] = tpmSessions
        \/ a = <<"Success", Top.h, tpmSessions \ {Top.h}>>
    BY <1>3, <1>4, <2>1 DEF FlushAnswers
  <2> QED BY <1>1, <1>2, <1>5, <1>8, <2>2
<1>9. CASE Top.cc \in {"ReadPublic", "GetCapability"}
  <2>1. TpmAnswers = Refusals \cup Answer({"Success"})
    BY <1>9, DispatchAssumption DEF TpmAnswers, OwnCommands
  <2> QED BY <1>1, <1>2, <1>3, <1>4, <1>5, <1>9, <2>1
<1> QED BY <1>1, <1>6, <1>7, <1>8, <1>9 DEF OwnCommands

-----------------------------------------------------------------------------
(* How the invariant follows a change of the call stack.                   *)

Results == ErrorCodes \cup {"none", "true", "false", "Exception"}

LEMMA UserBecomes ==
  ASSUME IInv, ~Idle, Len(stack) = 1, NEW f \in FrameType, Become(f), DataOK', UserInv(f)'
  PROVE  IInv'
<1>1. stack' \in Seq(FrameType) /\ Len(stack') = 1 /\ stack'[1] = f
  BY BecomeStack DEF IInv
<1>2. UserInv(stack[1])'
  BY <1>1
<1> QED BY <1>1, <1>2 DEF IInv

LEMMA UserInvokes ==
  ASSUME IInv, ~Idle, Len(stack) = 1, NEW f \in FrameType, NEW g \in FrameType, Invoke(f, g),
         DataOK', CancelSafeInv(f, g)' \/ OwnInv(f, g)'
  PROVE  IInv'
<1>1. stack' \in Seq(FrameType) /\ Len(stack') = 2 /\ stack'[1] = f /\ stack'[2] = g
  BY InvokeStack DEF IInv
<1>2. CancelSafeInv(stack[1], stack[2])' \/ OwnInv(stack[1], stack[2])'
  BY <1>1
<1> QED BY <1>1, <1>2 DEF IInv

LEMMA UserReturns ==
  ASSUME IInv, ~Idle, Len(stack) = 1, NEW r, Return(r), DataOK', IdleInv'
  PROVE  IInv'
<1>1. stack' \in Seq(FrameType) /\ Idle'
  BY ReturnStack DEF IInv
<1> QED BY <1>1 DEF IInv

LEMMA CancelSafeBecomes ==
  ASSUME IInv, ~Idle, Len(stack) = 2, NEW f, f = stack[1], NEW g \in FrameType, Become(g),
         DataOK', CancelSafeInv(f, g)' \/ OwnInv(f, g)'
  PROVE  IInv'
<1>1. stack' \in Seq(FrameType) /\ Len(stack') = 2 /\ stack'[1] = f /\ stack'[2] = g
  BY BecomeStack DEF IInv
<1>2. CancelSafeInv(stack[1], stack[2])' \/ OwnInv(stack[1], stack[2])'
  BY <1>1
<1> QED BY <1>1, <1>2 DEF IInv

LEMMA CancelSafeInvokes ==
  ASSUME IInv, ~Idle, Len(stack) = 2, NEW f, f = stack[1], NEW g \in FrameType,
         NEW h \in FrameType, Invoke(g, h), DataOK', AttemptInv(f, g, h)'
  PROVE  IInv'
<1>1. /\ stack' \in Seq(FrameType) /\ Len(stack') = 3
      /\ stack'[1] = f /\ stack'[2] = g /\ stack'[3] = h
  BY InvokeStack DEF IInv
<1>2. AttemptInv(stack[1], stack[2], stack[3])'
  BY <1>1
<1> QED BY <1>1, <1>2 DEF IInv

LEMMA AttemptBecomes ==
  ASSUME IInv, ~Idle, Len(stack) = 3, NEW f, f = stack[1], NEW g, g = stack[2],
         NEW h \in FrameType, Become(h), DataOK', AttemptInv(f, g, h)'
  PROVE  IInv'
<1>1. /\ stack' \in Seq(FrameType) /\ Len(stack') = 3
      /\ stack'[1] = f /\ stack'[2] = g /\ stack'[3] = h
  BY BecomeStack DEF IInv
<1>2. AttemptInv(stack[1], stack[2], stack[3])'
  BY <1>1
<1> QED BY <1>1, <1>2 DEF IInv

LEMMA UserFrameKept ==
  ASSUME NEW f, UserFrame(f), SameModifiers(tpm2, tpm2'),
         call'.asked = call.asked, call'.said = call.said
  PROVE  UserFrame(f)'
BY DEF UserFrame, SameModifiers

LEMMA WaitsKept ==
  ASSUME NEW f, NEW cc, Waits(f, cc), SameSessions(tpm2, tpm2'), call'.sent = call.sent,
         cc # "FlushContext" => tpmSessions \subseteq tpmSessions'
  PROVE  Waits(f, cc)'
BY DEF Waits, Alive, SameSessions, Leaving

(* The application's command goes on with the result of what it waited for.*)
LEMMA BackToUser ==
  ASSUME IInv, ~Idle, Len(stack) = 2, NEW f, f = stack[1], NEW g, g = Top,
         NEW r, Return(r), DataOK',
         UserFrame(f)', Waits(f, g.cc)', tpm2'.CurrentCommand = f.cc, Outermost',
         g.cc = "StartAuthSession" /\ r = "true" => g.h \in Handles \cap tpmSessions'
  PROVE  IInv'
<1>0. PICK u : u = [f EXCEPT !.h = g.h]
  OBVIOUS
<1>1. stack' \in Seq(FrameType) /\ Len(stack') = 1 /\ stack'[1] = u /\ ret' = r
  BY <1>0, ReturnStack DEF IInv
<1>2. g \in FrameType /\ f \in FrameType
  BY TopFrame
<1>3. /\ u \in FrameType /\ u.at = f.at /\ u.cc = f.cc /\ u.n = f.n /\ u.rc = f.rc
      /\ u.h = g.h
  BY <1>0, <1>2 DEF FrameType
<1>4. UserFrame(u)'
  BY <1>3 DEF UserFrame, Result
<1>5. f.at = "prepare" /\ f.n = 0 /\ r = "true" => g.h \in Handles \cap tpmSessions'
  BY DEF Waits
<1>6. (f.at = "prepare" => Alive(tpm2.sessions)') /\ (f.at = "send" => f.n > 0 /\ Alive(call.sent)')
  BY DEF Waits
<1>7. f.n \in Nat
  BY <1>2 DEF FrameType
<1>8. UserInv(u)'
  BY <1>1, <1>3, <1>4, <1>5, <1>6, <1>7 DEF UserInv, Outermost
<1>9. UserInv(stack[1])'
  BY <1>1, <1>8
<1> QED BY <1>1, <1>9 DEF IInv

LEMMA BackToCancelSafe ==
  ASSUME IInv, ~Idle, Len(stack) = 3, NEW f, f = stack[1], NEW g, g = stack[2],
         NEW r, Return(r), DataOK', NEW h, h = Top,
         UserFrame(f)', CancelSafeFrame(g), Waits(f, g.cc)',
         tpm2'.CurrentCommand = f.cc, Outermost',
         g.cc = "StartAuthSession" /\ r = "true" => h.h \in Handles \cap tpmSessions'
  PROVE  IInv'
<1>0. PICK u : u = [g EXCEPT !.h = h.h]
  OBVIOUS
<1>1. /\ stack' \in Seq(FrameType) /\ Len(stack') = 2 /\ ret' = r
      /\ stack'[1] = f /\ stack'[2] = u
  BY <1>0, ReturnStack DEF IInv
<1>2. h \in FrameType /\ g \in FrameType
  BY TopFrame DEF CancelSafeFrame
<1>3. u \in FrameType /\ u.at = g.at /\ u.cc = g.cc /\ u.h = h.h
  BY <1>0, <1>2 DEF FrameType
<1>4. CancelSafeInv(f, u)'
  BY <1>1, <1>3 DEF CancelSafeInv, CancelSafeFrame
<1>5. CancelSafeInv(stack[1], stack[2])'
  BY <1>1, <1>4
<1> QED BY <1>1, <1>5 DEF IInv

-----------------------------------------------------------------------------
(* What the steps make of the sessions, the frames and the notes.          *)

LEMMA CallFacts ==
  ASSUME NEW t
  PROVE  /\ NoCall(t).asked = Modifiers(t)
         /\ NoCall(t).said = "unsent" /\ NoCall(t).sent = <<>>
         /\ NoCall(t) = [asked |-> NoCall(t).asked, said |-> NoCall(t).said, sent |-> NoCall(t).sent]
         /\ Modifiers(t).cpHash = t.CpHashMode /\ Modifiers(t).record = t.DoNotDispatchCommand
         /\ NoCall(t).sent \in Seq(Sessions)
         /\ NoCall(t).said \in Answers \cup {"unsent", "lost"}
BY EmptySeq DEF NoCall, Modifiers

LEMMA FrameFacts ==
  ASSUME NEW cc \in Commands, NEW h \in Handles \cup {NoHandle}, NEW at \in {"prepare", "cancelSafe"}
  PROVE  /\ Frame(at, cc, h) \in FrameType
         /\ Frame(at, cc, h).at = at /\ Frame(at, cc, h).cc = cc /\ Frame(at, cc, h).h = h
         /\ Frame(at, cc, h).n = 0
BY DEF Frame, FrameType, Commands

LEMMA SessionsOfApplication ==
  ASSUME NEW s \in SessionLists
  PROVE  s \in Seq(Sessions) /\ \A i \in DOMAIN s : s[i] \notin Handles
<1>1. s \in Seq(UserSessions \cup {"Default", "Pw"})
  BY DispatchAssumption
<1>2. DOMAIN s = 1 .. Len(s) /\ \A i \in 1 .. Len(s) : s[i] \in UserSessions \cup {"Default", "Pw"}
  BY <1>1, LenProperties, ElementOfSeq
<1>3. UserSessions \cup {"Default", "Pw"} \subseteq Sessions
  BY DEF Sessions
<1>4. s \in Seq(Sessions)
  BY <1>1, <1>3, SeqMonotonic
<1> QED BY <1>2, <1>4, DispatchAssumption

(* Filling the open slots neither removes nor adds an implicit session.    *)
LEMMA RequestedSessions ==
  ASSUME tpm2 \in Tpm2Type, NEW cc \in UserCommands
  PROVE  LET ss == RequestSessions(cc)
         IN  /\ ss \in Seq(Sessions) /\ [tpm2 EXCEPT !.sessions = ss] \in Tpm2Type
             /\ Alive(tpm2.sessions) => Alive(ss)
<1> DEFINE given == tpm2.sessions
           open  == IF NeedsHMAC THEN "Default" ELSE "Pw"
           need  == AuthHandles[cc]
           n     == IF Len(given) < need THEN need ELSE Len(given)
           ss    == [i \in 1 .. n |-> IF i > Len(given) \/ given[i] = "Default" THEN open ELSE given[i]]
<1>1. RequestSessions(cc) = ss
  BY DEF RequestSessions
<1>2. given \in Seq(Sessions)
  BY DEF Tpm2Type, Sessions
<1>3. Len(given) \in Nat /\ \A i \in 1 .. Len(given) : given[i] \in Sessions
  BY <1>2, LenProperties, ElementOfSeq
<1>4. need \in Nat /\ open \in {"Default", "Pw"}
  BY DispatchAssumption
<1> HIDE DEF given, need, open
<1>5. n \in Nat
  BY <1>3, <1>4
<1>6. {"Default", "Pw"} \subseteq Sessions /\ {"Default", "Pw"} \cap Handles = {}
  BY DispatchAssumption DEF Sessions
<1>7. \A i \in 1 .. n : ss[i] \in Sessions
  <2> SUFFICES ASSUME NEW i \in 1 .. n PROVE ss[i] \in Sessions
    OBVIOUS
  <2>1. CASE i > Len(given) \/ given[i] = "Default"
    BY <1>4, <1>6, <2>1
  <2>2. CASE ~(i > Len(given) \/ given[i] = "Default")
    <3>1. i \in 1 .. Len(given)
      BY <1>3, <1>5, <2>2
    <3> QED BY <1>3, <2>2, <3>1
  <2> QED BY <2>1, <2>2
<1>8. ss \in [1 .. n -> Sessions]
  BY <1>7
<1>9. ss \in Seq(Sessions) /\ DOMAIN ss = 1 .. n
  BY <1>5, <1>8, SeqDef
<1>10. \A i \in DOMAIN ss : ss[i] \in Handles => i \in 1 .. Len(given) /\ ss[i] = given[i]
  BY <1>3, <1>4, <1>5, <1>6, <1>9
<1>11. DOMAIN given = 1 .. Len(given)
  BY <1>2, LenProperties
<1>12. Alive(given) => Alive(ss)
  BY <1>10, <1>11 DEF Alive
<1> HIDE DEF ss
<1>13. [tpm2 EXCEPT !.sessions = ss] \in Tpm2Type
  BY <1>9 DEF Tpm2Type, Sessions
<1> QED BY <1>1, <1>9, <1>12, <1>13 DEF given

LEMMA NotedCall ==
  ASSUME DataOK, ~Idle, Top \in FrameType, NEW said \in Answers \cup {"unsent", "lost"}, Note(said)
  PROVE  /\ call' = [asked |-> call'.asked, said |-> call'.said, sent |-> call'.sent]
         /\ call'.asked = call.asked
         /\ call'.said \in Answers \cup {"unsent", "lost"} /\ call'.sent \in Seq(Sessions)
         /\ Top.cc \in UserCommands => call'.said = said /\ call'.sent = InSessions
         /\ Top.cc \notin UserCommands => call' = call
<1>1. call = [asked |-> call.asked, said |-> call.said, sent |-> call.sent]
  BY DEF DataOK
<1>2. InSessions \in Seq(Sessions)
  BY EmptySeq DEF InSessions, DataOK, Tpm2Type, Sessions
<1>3. CASE Top.cc \in UserCommands
  <2>1. call' = [call EXCEPT !.said = said, !.sent = InSessions]
    BY <1>3 DEF Note
  <2>2. call' = [asked |-> call.asked, said |-> said, sent |-> InSessions]
    BY <1>1, <2>1
  <2> QED BY <1>2, <1>3, <2>2
<1>4. CASE Top.cc \notin UserCommands
  BY <1>1, <1>4 DEF Note, DataOK
<1> QED BY <1>3, <1>4

LEMMA ExceptionInPrepare ==
  ASSUME NEW e \in ErrorCodes \cup {"Exception"}, CatchInPrepare(e), Top \in FrameType
  PROVE  \E f \in FrameType :
           /\ Become(f) /\ f.at = "catchPrepare" /\ f.cc = Top.cc /\ f.n = 0
           /\ f.rc \in ErrorCodes \cup {"false", "Exception"}
<1> PICK allowed : allowed = (e # "Exception" /\ IsErrorAllowed(tpm2, IF e = "Hash" THEN "raw" ELSE e))
  OBVIOUS
<1> PICK f : f = [Top EXCEPT !.at = "catchPrepare", !.n = 0, !.rc = IF allowed THEN "false" ELSE e]
  OBVIOUS
<1>1. Become(f)
  BY DEF CatchInPrepare
<1>2. ErrorCodes \subseteq Answers
  BY DEF Answers
<1>3. f \in FrameType /\ f.at = "catchPrepare" /\ f.cc = Top.cc /\ f.n = 0
  BY <1>2 DEF FrameType
<1>4. f.rc \in ErrorCodes \cup {"false", "Exception"}
  BY DEF FrameType
<1> QED BY <1>1, <1>3, <1>4

-----------------------------------------------------------------------------
(* The invariant holds initially, and the application keeps it.            *)

LEMMA InitKeeps == Init => IInv
<1> SUFFICES ASSUME Init PROVE IInv
  OBVIOUS
<1>1. tpm2 = InitialTpm2 /\ stack = <<>> /\ ret = "none" /\ tpmSessions = {} /\ call = NoCall(InitialTpm2)
  BY DEF Init
<1>2. \A S : <<>> \in Seq(S)
  BY EmptySeq
<1>3. InitialTpm2 \in Tpm2Type
  BY <1>2, DispatchAssumption DEF InitialTpm2, Tpm2Type, HashAlgs
<1>4. DataOK
  BY <1>1, <1>3, CallFacts DEF DataOK
<1>5. Outermost /\ tpm2.CurrentCommand = NoCommand /\ tpm2.sessions = <<>>
  BY <1>1 DEF InitialTpm2, Outermost
<1>6. DOMAIN <<>> = {}
  OBVIOUS
<1>7. IdleInv
  BY <1>1, <1>5, <1>6 DEF IdleInv, TrueMeansDone, Returned
<1> QED BY <1>1, <1>2, <1>4, <1>7 DEF IInv, Idle

LEMMA ModifyKeeps ==
  ASSUME IInv, NEW m, NEW t \in Tpm2Type, Modify(m, t),
         t.CurrentCommand = tpm2.CurrentCommand, t.OuterCommand = tpm2.OuterCommand,
         t.sessions = tpm2.sessions \/ t.sessions \in SessionLists
  PROVE  IInv'
<1>1. /\ Idle /\ tpm2' = t /\ call' = NoCall(t) /\ ret' = "none"
      /\ stack' = stack /\ tpmSessions' = tpmSessions
  BY DEF Modify
<1>2. DataOK'
  BY <1>1, CallFacts DEF DataOK, IInv
<1>3. IdleInv
  BY <1>1, EmptySeq DEF IInv, Idle
<1>4. TrueMeansDone'
  BY <1>1 DEF TrueMeansDone, Returned
<1>5. IdleInv'
  BY <1>1, <1>3, <1>4, SessionsOfApplication DEF IdleInv, Outermost
<1> QED BY <1>1, <1>2, <1>5 DEF IInv, Idle

LEMMA ModifiersKeep ==
  ASSUME IInv,
         \/ SetSessions \/ AllowErrors \/ ExpectResponses \/ ExpectMoreResponses
         \/ DisableExceptions \/ EnableExceptions \/ AssertPhysicalPresence
         \/ GetCpHash \/ DoNotDispatchCommand \/ SetWarningHandler \/ SetErrorHandler
  PROVE  IInv'
<1>1. tpm2 \in Tpm2Type
  BY DEF IInv, DataOK
<1>2. CASE SetSessions
  <2> PICK s \in SessionLists : Modify("SetSessions", [tpm2 EXCEPT !.sessions = s])
    BY <1>2 DEF SetSessions
  <2>1. s \in Seq(UserSessions \cup Handles \cup {"Default", "Pw"})
    BY SessionsOfApplication DEF Sessions
  <2> QED BY <1>1, <2>1, ModifyKeeps DEF Tpm2Type
<1>3. CASE AllowErrors
  BY <1>1, <1>3, ModifyKeeps DEF AllowErrors, Tpm2Type
<1>4. CASE ExpectResponses
  <2> PICK codes \in SUBSET (Errors \cup {"Success"}) :
         Modify("ExpectResponses",
                [tpm2 EXCEPT !.ExpectedResponses = IF codes = {"Success"} THEN {} ELSE codes])
    BY <1>4 DEF ExpectResponses
  <2> QED BY <1>1, ModifyKeeps DEF Tpm2Type
<1>5. CASE ExpectMoreResponses
  <2> PICK codes \in SUBSET Errors :
         Modify("ExpectMoreResponses",
                [tpm2 EXCEPT !.ExpectedResponses = codes \cup (IF @ = {} THEN {"Success"} ELSE @)])
    BY <1>5 DEF ExpectMoreResponses
  <2> QED BY <1>1, ModifyKeeps DEF Tpm2Type
<1>6. CASE DisableExceptions
  <2> DEFINE p == tpm2.TolerateErrorsPermanently + 1
             b == tpm2.TolerateErrors \/ p > 0
  <2>1. p \in -MaxPermanent .. MaxPermanent /\ b \in BOOLEAN
    BY <1>1, <1>6, DispatchAssumption DEF DisableExceptions, Tpm2Type
  <2>2. [tpm2 EXCEPT !.TolerateErrorsPermanently = @ + 1,
                     !.TolerateErrors = @ \/ tpm2.TolerateErrorsPermanently + 1 > 0]
          = [tpm2 EXCEPT !.TolerateErrorsPermanently = p, !.TolerateErrors = b]
    BY <1>1 DEF Tpm2Type
  <2>3. Modify("DisableExceptions",
               [tpm2 EXCEPT !.TolerateErrorsPermanently = p, !.TolerateErrors = b])
    BY <1>6, <2>2 DEF DisableExceptions
  <2> HIDE DEF p, b
  <2> PICK t : t = [tpm2 EXCEPT !.TolerateErrorsPermanently = p, !.TolerateErrors = b]
    OBVIOUS
  <2>4. t \in Tpm2Type
    BY <1>1, <2>1 DEF Tpm2Type
  <2>5. /\ t.CurrentCommand = tpm2.CurrentCommand /\ t.OuterCommand = tpm2.OuterCommand
        /\ t.sessions = tpm2.sessions
    BY <1>1 DEF Tpm2Type
  <2> QED BY <2>3, <2>4, <2>5, ModifyKeeps
<1>7. CASE EnableExceptions
  <2> DEFINE p == tpm2.TolerateErrorsPermanently - 1
             b == tpm2.TolerateErrors /\ p > 0
  <2>1. p \in -MaxPermanent .. MaxPermanent /\ b \in BOOLEAN
    BY <1>1, <1>7, DispatchAssumption DEF EnableExceptions, Tpm2Type
  <2>2. [tpm2 EXCEPT !.TolerateErrorsPermanently = @ - 1,
                     !.TolerateErrors = @ /\ tpm2.TolerateErrorsPermanently - 1 > 0]
          = [tpm2 EXCEPT !.TolerateErrorsPermanently = p, !.TolerateErrors = b]
    BY <1>1 DEF Tpm2Type
  <2>3. Modify("EnableExceptions",
               [tpm2 EXCEPT !.TolerateErrorsPermanently = p, !.TolerateErrors = b])
    BY <1>7, <2>2 DEF EnableExceptions
  <2> HIDE DEF p, b
  <2> PICK t : t = [tpm2 EXCEPT !.TolerateErrorsPermanently = p, !.TolerateErrors = b]
    OBVIOUS
  <2>4. t \in Tpm2Type
    BY <1>1, <2>1 DEF Tpm2Type
  <2>5. /\ t.CurrentCommand = tpm2.CurrentCommand /\ t.OuterCommand = tpm2.OuterCommand
        /\ t.sessions = tpm2.sessions
    BY <1>1 DEF Tpm2Type
  <2> QED BY <2>3, <2>4, <2>5, ModifyKeeps
<1>8. CASE AssertPhysicalPresence
  BY ZenonT(40), <1>1, <1>8, ModifyKeeps DEF AssertPhysicalPresence, Tpm2Type
<1>9. CASE GetCpHash
  BY ZenonT(40), <1>1, <1>9, ModifyKeeps DEF GetCpHash, Tpm2Type
<1>10. CASE DoNotDispatchCommand
  BY ZenonT(40), <1>1, <1>10, ModifyKeeps DEF DoNotDispatchCommand, Tpm2Type
<1>11. CASE SetWarningHandler
  BY <1>1, <1>11, ModifyKeeps DEF SetWarningHandler, Tpm2Type
<1>12. CASE SetErrorHandler
  BY <1>1, <1>12, ModifyKeeps DEF SetErrorHandler, Tpm2Type
<1> QED BY <1>2, <1>3, <1>4, <1>5, <1>6, <1>7, <1>8, <1>9, <1>10, <1>11, <1>12

LEMMA CallKeeps ==
  ASSUME IInv, NEW cc \in UserCommands, Call(cc)
  PROVE  IInv'
<1> PICK f : f = Frame("prepare", cc, NoHandle)
  OBVIOUS
<1>1. /\ Idle /\ stack' = <<f>> /\ ret' = "none"
      /\ tpm2' = Entered(tpm2, cc) /\ call' = NoCall(tpm2) /\ tpmSessions' = tpmSessions
  BY DEF Call
<1>2. DataOK /\ IdleInv
  BY <1>1, EmptySeq DEF IInv, Idle
<1>3. cc \in Commands /\ tpm2 \in Tpm2Type
  BY <1>2 DEF DataOK, Commands
<1>4. /\ tpm2' \in Tpm2Type /\ tpm2'.CurrentCommand = cc
      /\ tpm2'.OuterCommand =
           IF tpm2.CurrentCommand # NoCommand THEN tpm2.CurrentCommand ELSE tpm2.OuterCommand
      /\ SameModifiers(tpm2, tpm2') /\ SameSessions(tpm2, tpm2')
  BY <1>1, <1>3, EnteredFields
<1>5. /\ f \in FrameType /\ f.at = "prepare" /\ f.cc = cc /\ f.n = 0
  BY <1>3, FrameFacts DEF Frame
<1>6. DataOK'
  BY <1>1, <1>2, <1>4, CallFacts DEF DataOK
<1>7. UserFrame(f)'
  BY <1>1, <1>4, <1>5, CallFacts DEF UserFrame, Result, SameModifiers
<1>8. Outermost' => Alive(tpm2.sessions)'
  <2>1. Outermost' => tpm2.CurrentCommand = NoCommand
    BY <1>4 DEF Outermost
  <2> QED BY <1>1, <1>2, <1>4, <2>1 DEF IdleInv, SameSessions, Alive
<1>9. tpm2'.OuterCommand \in UserCommands \cup {NoCommand}
  BY <1>2, <1>4 DEF IdleInv, Outermost
<1>10. UserInv(f)'
  BY <1>1, <1>4, <1>5, <1>7, <1>8, <1>9 DEF UserInv
<1>11. stack' \in Seq(FrameType) /\ Len(stack') = 1 /\ stack'[1] = f
  BY <1>1, <1>5
<1>12. UserInv(stack[1])'
  BY <1>10, <1>11
<1> QED BY <1>6, <1>11, <1>12 DEF IInv

-----------------------------------------------------------------------------
(* The application's command is prepared.                                  *)

LEMMA CancelSafeCalled ==
  ASSUME IInv, ~Idle, NEW f, NEW cc \in CancelSafe, NEW h \in Handles \cup {NoHandle},
         CallCancelSafe(f, cc, h)
  PROVE  \E g \in FrameType :
           /\ Invoke(f, g) /\ CancelSafeFrame(g) /\ g.cc = cc /\ g.h = h /\ g.n = 0
           /\ g.tolerate = tpm2.TolerateErrors /\ g.code = tpm2.LastError
<1> PICK g : g = [Frame("cancelSafe", cc, h) EXCEPT !.tolerate = tpm2.TolerateErrors,
                                                    !.code = tpm2.LastError]
  OBVIOUS
<1>1. Invoke(f, g)
  BY DEF CallCancelSafe
<1>2. tpm2.TolerateErrors \in BOOLEAN /\ tpm2.LastError \in ErrorCodes \cup {"Success"}
  BY DEF IInv, DataOK, Tpm2Type
<1>3. cc \in Commands
  BY CommandKinds DEF Commands
<1>4. g \in FrameType /\ g.at = "cancelSafe" /\ g.cc = cc /\ g.h = h /\ g.n = 0
      /\ g.tolerate = tpm2.TolerateErrors /\ g.code = tpm2.LastError
  BY <1>2, <1>3 DEF Frame, FrameType, Commands
<1> QED BY <1>1, <1>4 DEF CancelSafeFrame

LEMMA OwnCalled ==
  ASSUME IInv, ~Idle, NEW f, NEW cc \in OwnCommands, NEW h \in Handles \cup {NoHandle},
         NEW t \in Tpm2Type, t.CurrentCommand \in UserCommands, CallOwn(f, cc, h, t)
  PROVE  \E g \in FrameType :
           /\ Invoke(f, g) /\ OwnFrame(g) /\ g.cc = cc /\ g.at = "prepare" /\ g.n = 0 /\ g.h = h
           /\ tpm2' \in Tpm2Type /\ tpm2'.CurrentCommand = cc
           /\ tpm2'.OuterCommand = t.CurrentCommand /\ tpm2'.LastError = t.LastError
           /\ SameModifiers(t, tpm2') /\ SameSessions(t, tpm2')
           /\ tpm2'.TolerateErrors = t.TolerateErrors
           /\ tpm2'.AutoAuthHashAlg = t.AutoAuthHashAlg
<1> PICK g : g = Frame("prepare", cc, h)
  OBVIOUS
<1>1. Invoke(f, g) /\ tpm2' = Entered(t, cc)
  BY DEF CallOwn
<1>2. cc \in Commands /\ t.CurrentCommand # NoCommand
  BY CommandKinds DEF Commands
<1>3. /\ g \in FrameType /\ g.at = "prepare" /\ g.cc = cc /\ g.n = 0 /\ g.h = h
  BY <1>2, FrameFacts
<1>4. OwnFrame(g)
  BY <1>3 DEF OwnFrame, Result
<1> QED BY <1>1, <1>2, <1>3, <1>4, EnteredFields

LEMMA StartMissingSessionKeeps == ASSUME IInv, StartMissingSession PROVE IInv'
<1> PICK f : f = Top
  OBVIOUS
<1> PICK ss : ss = RequestSessions(f.cc)
  OBVIOUS
<1>1. /\ ~Idle /\ ret = "none" /\ f.at = "prepare" /\ Outermost
      /\ CallCancelSafe(f, "StartAuthSession", NoHandle)
      /\ tpm2' = [tpm2 EXCEPT !.sessions = ss]
      /\ tpmSessions' = tpmSessions /\ call' = call
  BY DEF StartMissingSession, At
<1>2. Len(stack) = 1 /\ UserInv(f) /\ f.cc \in UserCommands /\ f \in FrameType
  BY <1>1, UserTop, TopFrame
<1>3. PICK g \in FrameType : Invoke(f, g) /\ CancelSafeFrame(g) /\ g.cc = "StartAuthSession"
  BY <1>1, CancelSafeCalled DEF CancelSafe
<1>4. DataOK /\ tpm2 \in Tpm2Type
  BY DEF IInv, DataOK
<1>5. tpm2' \in Tpm2Type /\ Alive(ss)
  BY <1>1, <1>2, <1>4, RequestedSessions DEF UserInv
<1>6. /\ tpm2'.sessions = ss /\ SameModifiers(tpm2, tpm2')
      /\ tpm2'.CurrentCommand = tpm2.CurrentCommand /\ tpm2'.OuterCommand = tpm2.OuterCommand
  BY <1>1, <1>4 DEF Tpm2Type, SameModifiers
<1>7. ret' = "none"
  BY <1>3 DEF Invoke
<1>8. DataOK'
  BY <1>1, <1>4, <1>5, <1>7 DEF DataOK
<1>9. UserFrame(f)'
  BY <1>1, <1>2, <1>6, UserFrameKept DEF UserInv
<1>10. Waits(f, g.cc)'
  BY <1>1, <1>3, <1>5, <1>6 DEF Waits, Alive, Leaving
<1>11. CancelSafeInv(f, g)'
  BY <1>1, <1>2, <1>3, <1>6, <1>7, <1>9, <1>10 DEF CancelSafeInv, UserInv, Outermost
<1> QED BY <1>1, <1>2, <1>3, <1>8, <1>11, UserInvokes

LEMMA SessionsTyped ==
  ASSUME NEW t \in Tpm2Type, NEW ss \in Seq(Sessions), NEW ts \in Seq(Handles)
  PROVE  [t EXCEPT !.sessions = ss, !.TempSessions = ts] \in Tpm2Type
<1>1. ss \in Seq(UserSessions \cup Handles \cup {"Default", "Pw"})
  BY DEF Sessions
<1> QED BY <1>1 DEF Tpm2Type

LEMMA MissingSessionStartedKeeps == ASSUME IInv, MissingSessionStarted PROVE IInv'
<1> PICK f : f = Top
  OBVIOUS
<1>1. /\ ~Idle /\ ret = "true" /\ f.at = "prepare" /\ f.n = 0 /\ Become(f)
      /\ tpmSessions' = tpmSessions /\ call' = call
  BY DEF MissingSessionStarted, BackAt
<1>2. PICK i \in DOMAIN tpm2.sessions :
        tpm2' = [tpm2 EXCEPT !.sessions[i] = f.h, !.TempSessions = Append(@, f.h)]
  BY DEF MissingSessionStarted
<1>3. Len(stack) = 1 /\ UserInv(f) /\ f.cc \in UserCommands /\ f \in FrameType
  BY <1>1, UserTop, TopFrame
<1>4. f.h \in Handles \cap tpmSessions /\ Outermost /\ Alive(tpm2.sessions)
  BY <1>1, <1>3 DEF UserInv
<1>5. DataOK /\ tpm2 \in Tpm2Type
  BY DEF IInv, DataOK
<1>6. tpm2.sessions \in Seq(Sessions) /\ f.h \in Sessions /\ tpm2.TempSessions \in Seq(Handles)
  BY <1>4, <1>5 DEF Tpm2Type, Sessions
<1> PICK ss : ss = [tpm2.sessions EXCEPT ![i] = f.h]
  OBVIOUS
<1> PICK ts : ts = Append(tpm2.TempSessions, f.h)
  OBVIOUS
<1>7. i \in 1 .. Len(tpm2.sessions)
  BY <1>2, <1>6, LenProperties
<1>8. ss \in Seq(Sessions) /\ Len(ss) = Len(tpm2.sessions)
      /\ \A j \in 1 .. Len(tpm2.sessions) : ss[j] = IF j = i THEN f.h ELSE tpm2.sessions[j]
  BY <1>6, <1>7, ExceptSeq
<1>9. ts \in Seq(Handles)
  BY <1>4, <1>6, AppendProperties
<1>10. Alive(ss)
  <2>1. DOMAIN ss = 1 .. Len(tpm2.sessions) /\ DOMAIN tpm2.sessions = 1 .. Len(tpm2.sessions)
    BY <1>6, <1>8, LenProperties
  <2> QED BY <1>4, <1>8, <2>1 DEF Alive
<1>11. tpm2' = [tpm2 EXCEPT !.sessions = ss, !.TempSessions = ts]
  BY <1>2, <1>5 DEF Tpm2Type
<1>12. tpm2' \in Tpm2Type
  BY <1>5, <1>8, <1>9, <1>11, SessionsTyped
<1>13. /\ tpm2'.sessions = ss /\ SameModifiers(tpm2, tpm2')
       /\ tpm2'.CurrentCommand = tpm2.CurrentCommand /\ tpm2'.OuterCommand = tpm2.OuterCommand
  BY <1>5, <1>11 DEF Tpm2Type, SameModifiers
<1>14. ret' = "none"
  BY <1>1 DEF Become
<1>15. DataOK'
  BY <1>1, <1>5, <1>12, <1>14 DEF DataOK
<1>16. UserFrame(f)'
  BY <1>1, <1>3, <1>13, UserFrameKept DEF UserInv
<1>17. UserInv(f)'
  BY <1>1, <1>3, <1>4, <1>10, <1>13, <1>14, <1>16 DEF UserInv, Outermost, Alive
<1> QED BY <1>1, <1>3, <1>15, <1>17, UserBecomes

LEMMA FallBackToNextHashKeeps == ASSUME IInv, FallBackToNextHash PROVE IInv'
<1> PICK f : f = Top
  OBVIOUS
<1> PICK alg : alg = IF tpm2.AutoAuthHashAlg = "Sha384" THEN "Sha256" ELSE "Sha1"
  OBVIOUS
<1>1. /\ ~Idle /\ ret = "Hash" /\ f.at = "prepare" /\ f.n = 0 /\ Become(f)
      /\ tpmSessions' = tpmSessions /\ call' = call
      /\ tpm2' = [tpm2 EXCEPT !.AutoAuthHashAlg = alg]
  BY DEF FallBackToNextHash, BackAt, CanFallBack
<1>2. Len(stack) = 1 /\ UserInv(f) /\ f.cc \in UserCommands /\ f \in FrameType
  BY <1>1, UserTop, TopFrame
<1>3. DataOK /\ tpm2 \in Tpm2Type
  BY DEF IInv, DataOK
<1>4. tpm2' \in Tpm2Type
  BY <1>1, <1>3 DEF Tpm2Type, HashAlgs
<1>5. /\ tpm2'.sessions = tpm2.sessions /\ SameModifiers(tpm2, tpm2')
      /\ tpm2'.CurrentCommand = tpm2.CurrentCommand /\ tpm2'.OuterCommand = tpm2.OuterCommand
  BY <1>1, <1>3 DEF Tpm2Type, SameModifiers
<1>6. ret' = "none"
  BY <1>1 DEF Become
<1>7. DataOK'
  BY <1>1, <1>3, <1>4, <1>6 DEF DataOK
<1>8. UserFrame(f)'
  BY <1>1, <1>2, <1>5, UserFrameKept DEF UserInv
<1>9. UserInv(f)'
  BY <1>1, <1>2, <1>5, <1>6, <1>8 DEF UserInv, Outermost, Alive
<1> QED BY <1>1, <1>2, <1>7, <1>9, UserBecomes

(* The handler of the preparation takes over.                              *)
LEMMA PreparationFails ==
  ASSUME IInv, ~Idle, NEW e \in ErrorCodes \cup {"Exception"}, CatchInPrepare(e),
         Len(stack) = 1, UserInv(Top), Outermost, tpm2' \in Tpm2Type, SameModifiers(tpm2, tpm2'),
         tpm2'.CurrentCommand = tpm2.CurrentCommand, tpm2'.OuterCommand = tpm2.OuterCommand,
         UNCHANGED <<tpmSessions, call>>
  PROVE  IInv'
<1>1. Top \in FrameType /\ DataOK
  BY TopFrame DEF IInv
<1>2. PICK f \in FrameType :
           /\ Become(f) /\ f.at = "catchPrepare" /\ f.cc = Top.cc /\ f.n = 0
           /\ f.rc \in ErrorCodes \cup {"false", "Exception"}
  BY <1>1, ExceptionInPrepare
<1>3. ret' = "none"
  BY <1>2 DEF Become
<1>4. DataOK'
  BY <1>1, <1>3 DEF DataOK
<1>5. UserFrame(f)'
  BY <1>2 DEF UserInv, UserFrame, Result, SameModifiers
<1>6. UserInv(f)'
  BY <1>2, <1>3, <1>5 DEF UserInv, Outermost
<1> QED BY <1>2, <1>4, <1>6, UserBecomes

LEMMA MissingSessionFailedKeeps == ASSUME IInv, MissingSessionFailed PROVE IInv'
<1>1. /\ ~Idle /\ ret # "none" /\ Top.at = "prepare" /\ Raised(ret) /\ CatchInPrepare(ret)
      /\ tpm2' = tpm2 /\ UNCHANGED <<tpmSessions, call>>
  BY DEF MissingSessionFailed, BackAt
<1>2. Len(stack) = 1 /\ UserInv(Top)
  BY <1>1, UserTop
<1>3. ret \in ErrorCodes \cup {"Exception"} /\ tpm2 \in Tpm2Type
  BY <1>1 DEF Raised, IInv, DataOK
<1>4. Outermost
  BY <1>1, <1>2 DEF UserInv
<1> QED BY <1>1, <1>2, <1>3, <1>4, PreparationFails DEF SameModifiers

LEMMA MissingSessionLostKeeps == ASSUME IInv, MissingSessionLost PROVE IInv'
<1>1. /\ ~Idle /\ ret # "none" /\ Top.at = "prepare" /\ CatchInPrepare("Exception")
      /\ tpm2' = tpm2 /\ UNCHANGED <<tpmSessions, call>>
  BY DEF MissingSessionLost, BackAt
<1>2. Len(stack) = 1 /\ UserInv(Top) /\ tpm2 \in Tpm2Type
  BY <1>1, UserTop DEF IInv, DataOK
<1>3. Outermost
  BY <1>1, <1>2 DEF UserInv
<1> QED BY <1>1, <1>2, <1>3, PreparationFails DEF SameModifiers

LEMMA WrongSessionHandleKeeps == ASSUME IInv, WrongSessionHandle PROVE IInv'
<1>1. /\ ~Idle /\ Top.at = "prepare" /\ Outermost /\ CatchInPrepare("Exception")
      /\ tpm2' = [tpm2 EXCEPT !.sessions = RequestSessions(Top.cc)]
      /\ UNCHANGED <<tpmSessions, call>>
  BY DEF WrongSessionHandle, At
<1>2. Len(stack) = 1 /\ UserInv(Top) /\ Top.cc \in UserCommands
  BY <1>1, UserTop
<1>3. tpm2 \in Tpm2Type
  BY DEF IInv, DataOK
<1>4. tpm2' \in Tpm2Type
  BY <1>1, <1>2, <1>3, RequestedSessions
<1>5. /\ SameModifiers(tpm2, tpm2')
      /\ tpm2'.CurrentCommand = tpm2.CurrentCommand /\ tpm2'.OuterCommand = tpm2.OuterCommand
  BY <1>1, <1>3 DEF Tpm2Type, SameModifiers
<1> QED BY <1>1, <1>2, <1>4, <1>5, PreparationFails

LEMMA ReadMissingNameKeeps == ASSUME IInv, ReadMissingName PROVE IInv'
<1>0. PICK f, t : /\ f = [Top EXCEPT !.n = 1]
                  /\ t = [tpm2 EXCEPT !.sessions = RequestSessions(Top.cc)]
  OBVIOUS
<1>1. /\ ~Idle /\ ret = "none" /\ Top.at = "prepare" /\ Outermost
      /\ CallOwn(f, "ReadPublic", NoHandle, t)
      /\ tpmSessions' = tpmSessions /\ call' = call
  BY <1>0 DEF ReadMissingName, At
<1>2. Len(stack) = 1 /\ UserInv(Top) /\ Top.cc \in UserCommands /\ Top \in FrameType
  BY <1>1, UserTop, TopFrame
<1>3. DataOK /\ tpm2 \in Tpm2Type
  BY DEF IInv, DataOK
<1>4. t \in Tpm2Type /\ Alive(RequestSessions(Top.cc))
  BY <1>0, <1>1, <1>2, <1>3, RequestedSessions DEF UserInv
<1>5. /\ t.sessions = RequestSessions(Top.cc) /\ SameModifiers(tpm2, t)
      /\ t.CurrentCommand = tpm2.CurrentCommand
  BY <1>0, <1>3 DEF Tpm2Type, SameModifiers
<1>6. f \in FrameType /\ f.at = "prepare" /\ f.cc = Top.cc /\ f.n = 1 /\ f.rc = Top.rc
  BY <1>0, <1>1, <1>2 DEF FrameType
<1>7. tpm2.CurrentCommand = f.cc
  BY <1>2, <1>6 DEF UserInv
<1>8. PICK g \in FrameType :
           /\ Invoke(f, g) /\ OwnFrame(g) /\ g.cc = "ReadPublic"
           /\ tpm2' \in Tpm2Type /\ tpm2'.CurrentCommand = "ReadPublic"
           /\ tpm2'.OuterCommand = t.CurrentCommand
           /\ SameModifiers(t, tpm2') /\ SameSessions(t, tpm2')
  <2>1. "ReadPublic" \in OwnCommands
    BY DEF OwnCommands
  <2>2. t.CurrentCommand \in UserCommands
    BY <1>2, <1>5, <1>6, <1>7
  <2> QED BY <1>1, <1>4, <2>1, <2>2, OwnCalled
<1>9. ret' = "none"
  BY <1>8 DEF Invoke
<1>10. DataOK'
  BY <1>1, <1>3, <1>8, <1>9 DEF DataOK
<1>11. UserFrame(f)'
  BY <1>1, <1>2, <1>5, <1>6, <1>8 DEF UserInv, UserFrame, Result, SameModifiers
<1>12. Waits(f, g.cc)'
  BY <1>1, <1>4, <1>5, <1>6, <1>8 DEF Waits, Alive, Leaving, SameSessions
<1>13. OwnFrame(g)'
  BY <1>1, <1>8 DEF OwnFrame
<1>14. OwnInv(f, g)'
  BY <1>5, <1>7, <1>8, <1>9, <1>11, <1>12, <1>13 DEF OwnInv, Nested, CancelSafe
<1> QED BY <1>1, <1>2, <1>6, <1>8, <1>10, <1>14, UserInvokes

LEMMA NameReadKeeps == ASSUME IInv, NameRead PROVE IInv'
<1> PICK f : f = Top
  OBVIOUS
<1>1. /\ ~Idle /\ ret # "none" /\ f.at = "prepare" /\ f.n = 1
      /\ tpm2' = tpm2 /\ UNCHANGED <<tpmSessions, call>>
      /\ CatchInPrepare("Exception") \/ Become(f)
  BY DEF NameRead, BackAt
<1>2. Len(stack) = 1 /\ UserInv(f) /\ f \in FrameType /\ DataOK
  BY <1>1, UserTop, TopFrame DEF IInv
<1>3. Outermost /\ tpm2 \in Tpm2Type
  BY <1>1, <1>2 DEF UserInv, DataOK
<1>4. CASE CatchInPrepare("Exception")
  BY <1>1, <1>2, <1>3, <1>4, PreparationFails DEF SameModifiers
<1>5. CASE Become(f)
  <2>1. ret' = "none"
    BY <1>5 DEF Become
  <2>2. DataOK'
    BY <1>1, <1>2, <2>1 DEF DataOK
  <2>3. UserFrame(f)'
    BY <1>1, <1>2, UserFrameKept DEF UserInv, SameModifiers
  <2>4. UserInv(f)'
    BY <1>1, <1>2, <1>3, <2>1, <2>3 DEF UserInv, Outermost, Alive
  <2> QED BY <1>1, <1>2, <1>5, <2>2, <2>4, UserBecomes
<1> QED BY <1>1, <1>4, <1>5

LEMMA PreparedKeeps == ASSUME IInv, Prepared PROVE IInv'
<1> PICK f : f = [Top EXCEPT !.at = "send", !.n = 0]
  OBVIOUS
<1>1. /\ ~Idle /\ Top.at = "prepare" /\ Outermost /\ Become(f)
      /\ tpm2' = [tpm2 EXCEPT !.sessions = Slots]
      /\ UNCHANGED <<tpmSessions, call>>
  BY DEF Prepared, At
<1>2. Len(stack) = 1 /\ UserInv(Top) /\ Top.cc \in UserCommands /\ Top \in FrameType
  BY <1>1, UserTop, TopFrame
<1>3. DataOK /\ tpm2 \in Tpm2Type
  BY DEF IInv, DataOK
<1>4. tpm2' \in Tpm2Type /\ Alive(Slots)
  <2>1. CASE Top.n = 0
    BY <1>1, <1>2, <1>3, <2>1, RequestedSessions DEF UserInv, Slots
  <2>2. CASE Top.n # 0
    <3>1. Slots = tpm2.sessions /\ [tpm2 EXCEPT !.sessions = tpm2.sessions] = tpm2
      BY <1>3, <2>2 DEF Slots, Tpm2Type
    <3> QED BY <1>1, <1>2, <1>3, <3>1 DEF UserInv
  <2> QED BY <2>1, <2>2
<1>5. /\ tpm2'.sessions = Slots /\ SameModifiers(tpm2, tpm2')
      /\ tpm2'.CurrentCommand = tpm2.CurrentCommand /\ tpm2'.OuterCommand = tpm2.OuterCommand
  BY <1>1, <1>3 DEF Tpm2Type, SameModifiers
<1>6. f \in FrameType /\ f.at = "send" /\ f.cc = Top.cc /\ f.n = 0
  BY <1>2 DEF FrameType
<1>7. ret' = "none"
  BY <1>1 DEF Become
<1>8. DataOK'
  BY <1>1, <1>3, <1>4, <1>7 DEF DataOK
<1>9. UserFrame(f)'
  BY <1>1, <1>2, <1>5, <1>6 DEF UserInv, UserFrame, Result, SameModifiers
<1>10. UserInv(f)'
  BY <1>1, <1>2, <1>4, <1>5, <1>6, <1>7, <1>9 DEF UserInv, Outermost, Alive
<1> QED BY <1>1, <1>2, <1>6, <1>8, <1>10, UserBecomes

-----------------------------------------------------------------------------
(* The application's command is sent, or not to be sent.                   *)

(* The command returns TRUE, or has another result.                        *)
LEMMA CommandReturns ==
  ASSUME IInv, ~Idle, Len(stack) = 1, NEW r \in Results \ {"none"}, Return(r),
         tpm2' \in Tpm2Type, tpm2'.OuterCommand = NoCommand, UNCHANGED <<tpmSessions, call>>,
         \/ tpm2'.CurrentCommand \in UserCommands
         \/ tpm2'.CurrentCommand = NoCommand /\ tpm2'.sessions = <<>>,
         r = "true" => \/ call.said \in {"Success", "Garbled"}
                       \/ call.asked.cpHash \/ call.asked.record
  PROVE  IInv'
<1>1. ret' = r
  BY DEF Return
<1>2. DataOK'
  BY <1>1 DEF IInv, DataOK, Results
<1>3. TrueMeansDone'
  BY <1>1 DEF TrueMeansDone
<1>4. DOMAIN <<>> = {}
  OBVIOUS
<1>5. IdleInv'
  BY <1>3, <1>4, CommandKinds DEF IdleInv, Outermost
<1> QED BY <1>2, <1>5, UserReturns

LEMMA NotSentKeeps ==
  ASSUME IInv, ComputeCpHash \/ RecordCommandBytes
  PROVE  IInv'
<1> PICK t : \/ ComputeCpHash /\ t = [tpm2 EXCEPT !.CpHashMode = FALSE]
             \/ RecordCommandBytes /\ t = [tpm2 EXCEPT !.DoNotDispatchCommand = FALSE]
  OBVIOUS
<1>1. /\ ~Idle /\ Top.at = "send" /\ Outermost /\ tpm2' = ClearCommandContext(t)
      /\ Return("true") /\ UNCHANGED <<tpmSessions, call>>
      /\ tpm2.CpHashMode \/ tpm2.DoNotDispatchCommand
  BY DEF ComputeCpHash, RecordCommandBytes, At
<1>2. Len(stack) = 1 /\ UserInv(Top)
  BY <1>1, UserTop
<1>3. tpm2 \in Tpm2Type
  BY DEF IInv, DataOK
<1>4. t \in Tpm2Type /\ t.OuterCommand = NoCommand
  BY ZenonT(40), <1>1, <1>3 DEF Tpm2Type, Outermost
<1>5. /\ tpm2' \in Tpm2Type /\ tpm2'.OuterCommand = NoCommand
      /\ tpm2'.CurrentCommand = NoCommand /\ tpm2'.sessions = <<>>
  BY <1>1, <1>4, OutermostCleared
<1>6. call.asked.cpHash \/ call.asked.record
  BY <1>1, <1>2 DEF UserInv, UserFrame
<1> QED BY <1>1, <1>2, <1>5, <1>6, CommandReturns DEF Results

(* The sessions that a command is sent with are alive.                     *)
LEMMA SentAlive ==
  ASSUME IInv, ~Idle, Top.at = "send", Top.cc \in UserCommands
  PROVE  Alive(InSessions)
<1>1. UserInv(Top) /\ Top \in FrameType
  BY UserTop, TopFrame
<1>2. Top.n \in Nat /\ Alive(<<>>)
  BY <1>1 DEF FrameType, Alive
<1> QED BY <1>1, <1>2 DEF UserInv, InSessions

LEMMA NvRateKeeps == ASSUME IInv, NestedUnlimited, NvRate PROVE IInv'
<1> PICK f : f = [Top EXCEPT !.n = Top.n + 1]
  OBVIOUS
<1>1. /\ ~Idle /\ Top.at = "send" /\ Top.cc \in UserCommands
      /\ Note("NvRate") /\ tpmSessions' = tpmSessions
  BY DEF NvRate, MayBeLimited, NestedUnlimited, Sending, At
<1>2. Len(stack) = 1 /\ UserInv(Top) /\ Top \in FrameType
  BY <1>1, UserTop, TopFrame
<1>3. DataOK /\ tpm2 \in Tpm2Type
  BY DEF IInv, DataOK
<1>4. CallOwn(f, "GetCapability", NoHandle, tpm2)
  BY <1>2 DEF NvRate, FrameType
<1>5. f \in FrameType /\ f.at = "send" /\ f.cc = Top.cc /\ f.n = Top.n + 1 /\ f.n > 0
  BY <1>1, <1>2 DEF FrameType
<1>6. tpm2.CurrentCommand = f.cc
  BY <1>2, <1>5 DEF UserInv
<1>7. PICK g \in FrameType :
           /\ Invoke(f, g) /\ OwnFrame(g) /\ g.cc = "GetCapability"
           /\ tpm2' \in Tpm2Type /\ tpm2'.CurrentCommand = "GetCapability"
           /\ tpm2'.OuterCommand = tpm2.CurrentCommand
           /\ SameModifiers(tpm2, tpm2') /\ SameSessions(tpm2, tpm2')
  BY <1>1, <1>3, <1>4, <1>5, <1>6, OwnCalled DEF OwnCommands
<1>8. "NvRate" \in Answers
  BY DEF Answers, ErrorCodes
<1>9. /\ call' = [asked |-> call'.asked, said |-> call'.said, sent |-> call'.sent]
      /\ call'.asked = call.asked /\ call'.said \in Answers \cup {"unsent", "lost"}
      /\ call'.sent \in Seq(Sessions) /\ call'.sent = InSessions
  BY <1>1, <1>2, <1>3, <1>8, NotedCall
<1>10. ret' = "none"
  BY <1>7 DEF Invoke
<1>11. DataOK'
  BY <1>1, <1>3, <1>7, <1>9, <1>10 DEF DataOK
<1>12. UserFrame(f)'
  BY <1>2, <1>5, <1>7, <1>9 DEF UserInv, UserFrame, Result, SameModifiers
<1>13. Alive(call.sent)'
  BY <1>1, <1>9, SentAlive DEF Alive
<1>14. Waits(f, g.cc)'
  BY <1>5, <1>7, <1>13 DEF Waits, Leaving
<1>15. OwnFrame(g)'
  BY <1>1, <1>7 DEF OwnFrame
<1>16. OwnInv(f, g)'
  BY <1>6, <1>7, <1>10, <1>12, <1>14, <1>15 DEF OwnInv, Nested, CancelSafe
<1> QED BY <1>1, <1>2, <1>5, <1>7, <1>11, <1>16, UserInvokes

(* The application's command has its answer, or an exception.              *)
LEMMA UserSent ==
  ASSUME IInv, ~Idle, Top.at = "send", Top.cc \in UserCommands,
         NEW f \in FrameType, Become(f), f.cc = Top.cc, NEW said, Note(said),
         \/ f.at = "flush" /\ f.rc = said /\ said \in Answers
         \/ f.at = "catchSend" /\ f.rc \in ErrorCodes \cup {"Exception"} /\ said = "lost",
         tpm2' = tpm2, tpmSessions' \subseteq Handles
  PROVE  IInv'
<1>1. Len(stack) = 1 /\ UserInv(Top) /\ Top \in FrameType /\ DataOK
  BY UserTop, TopFrame DEF IInv
<1>2. /\ call' = [asked |-> call'.asked, said |-> call'.said, sent |-> call'.sent]
      /\ call'.asked = call.asked /\ call'.said \in Answers \cup {"unsent", "lost"}
      /\ call'.sent \in Seq(Sessions) /\ call'.said = said
  BY <1>1, NotedCall
<1>3. ret' = "none"
  BY DEF Become
<1>4. DataOK'
  BY <1>1, <1>2, <1>3 DEF DataOK
<1>5. UserFrame(f)'
  BY <1>1, <1>2 DEF UserInv, UserFrame, Result
<1>6. UserInv(f)'
  BY <1>1, <1>3, <1>5 DEF UserInv, Outermost
<1> QED BY <1>1, <1>4, <1>6, UserBecomes

(* A command of the library goes on.                                       *)
LEMMA OwnBecomes ==
  ASSUME IInv, ~Idle, Top.at # "cancelSafe", Top.cc \notin UserCommands,
         NEW h \in FrameType, Become(h), h.cc = Top.cc, OwnFrame(h)',
         tpm2' = tpm2, call' = call, tpmSessions' \subseteq Handles,
         Top.cc # "FlushContext" => tpmSessions \subseteq tpmSessions'
  PROVE  IInv'
<1>1. DataOK'
  BY DEF IInv, DataOK, Become
<1>2. ret' = "none"
  BY DEF Become
<1> PICK f, g, c : f = stack[1] /\ g = stack[2] /\ c = Top.cc
  OBVIOUS
<1>3. \/ Len(stack) = 2 /\ Top = stack[2] /\ OwnInv(f, Top)
      \/ Len(stack) = 3 /\ AttemptInv(f, g, Top)
  BY Depth DEF UserInv, UserFrame
<1>4. CASE Len(stack) = 2 /\ OwnInv(f, Top)
  <2>1. UserFrame(f)'
    BY <1>4, UserFrameKept DEF OwnInv, SameModifiers
  <2>2. Waits(f, c)'
    BY <1>4, WaitsKept DEF OwnInv, SameSessions
  <2>3. OwnInv(f, h)'
    BY <1>2, <1>4, <2>1, <2>2 DEF OwnInv, Nested
  <2> QED BY <1>1, <1>4, <2>3, CancelSafeBecomes
<1>5. CASE Len(stack) = 3 /\ AttemptInv(f, g, Top)
  <2>1. UserFrame(f)'
    BY <1>5, UserFrameKept DEF AttemptInv, SameModifiers
  <2>2. Waits(f, c)'
    BY <1>5, WaitsKept DEF AttemptInv, SameSessions
  <2>3. g.cc = c /\ CancelSafeFrame(g)
    BY <1>5 DEF AttemptInv
  <2>4. AttemptInv(f, g, h)'
    BY <1>2, <1>5, <2>1, <2>2, <2>3 DEF AttemptInv, Nested
  <2> QED BY <1>1, <1>5, <2>4, AttemptBecomes
<1> QED BY <1>3, <1>4, <1>5

LEMMA OwnTop ==
  ASSUME IInv, ~Idle, Top.at # "cancelSafe", Top.cc \notin UserCommands
  PROVE  Top \in FrameType /\ OwnFrame(Top) /\ ~Outermost /\ ret = "none"
<1>1. \/ ~Outermost /\ OwnInv(stack[1], Top)
      \/ ~Outermost /\ AttemptInv(stack[1], stack[2], Top)
  BY Depth DEF UserInv, UserFrame
<1> QED BY <1>1, TopFrame DEF OwnInv, AttemptInv, Nested

LEMMA PrepareOwnCommandKeeps == ASSUME IInv, PrepareOwnCommand PROVE IInv'
<1>0. PICK f : f = [Top EXCEPT !.at = "send"]
  OBVIOUS
<1>1. /\ ~Idle /\ Top.at = "prepare" /\ ~Outermost /\ Become(f)
      /\ UNCHANGED <<tpm2, tpmSessions, call>>
  BY <1>0 DEF PrepareOwnCommand, At
<1>2. Top \in FrameType /\ DataOK
  BY <1>1, TopFrame DEF IInv
<1>3. f \in FrameType /\ f.at = "send" /\ f.cc = Top.cc /\ f.n = Top.n
  BY <1>0, <1>2 DEF FrameType
<1>4. CASE Top.cc \in UserCommands
  <2>1. Len(stack) = 1 /\ UserInv(Top)
    BY <1>1, <1>4, UserTop
  <2>2. ret' = "none"
    BY <1>1 DEF Become
  <2>3. DataOK'
    BY <1>1, <1>2, <2>2 DEF DataOK
  <2>4. UserFrame(f)'
    BY <1>1, <1>3, <2>1 DEF UserInv, UserFrame, Result
  <2>5. f.n \in Nat /\ ~(f.n > 0)
    BY <1>1, <1>2, <1>3, <2>1 DEF UserInv, FrameType
  <2>6. UserInv(f)'
    BY <1>1, <1>3, <2>1, <2>2, <2>4, <2>5 DEF UserInv, Outermost
  <2> QED BY <1>1, <1>3, <2>1, <2>3, <2>6, UserBecomes
<1>5. CASE Top.cc \notin UserCommands
  <2>1. OwnFrame(f)'
    BY <1>1, <1>3, <1>5, OwnTop DEF OwnFrame, Result
  <2>2. tpmSessions' \subseteq Handles /\ tpmSessions \subseteq tpmSessions'
    BY <1>1, <1>2 DEF DataOK
  <2> QED BY <1>1, <1>3, <1>5, <2>1, <2>2, OwnBecomes
<1> QED BY <1>4, <1>5

LEMMA ExecuteKeeps == ASSUME IInv, Execute PROVE IInv'
<1>1. ~Idle /\ Top.at = "send" /\ tpm2' = tpm2
  BY DEF Execute, Sending, At
<1>2. Top \in FrameType /\ DataOK
  BY <1>1, TopFrame DEF IInv
<1>3. PICK a \in TpmAnswers :
        /\ Become([Top EXCEPT !.at = "flush", !.n = 0, !.rc = a[1], !.h = a[2]])
        /\ tpmSessions' = a[3] /\ Note(a[1])
  BY DEF Execute
<1>4. /\ a[1] \in Answers /\ a[2] \in Handles \cup {NoHandle} /\ a[3] \subseteq Handles
      /\ Top.cc \notin UserCommands => a[1] # "Garbled"
      /\ Top.cc # "FlushContext" => tpmSessions \subseteq a[3]
      /\ Top.cc = "StartAuthSession" /\ a[1] = "Success" => a[2] \in Handles \cap a[3]
  BY <1>2, AnswerFacts
<1>5. PICK f : f = [Top EXCEPT !.at = "flush", !.n = 0, !.rc = a[1], !.h = a[2]]
  OBVIOUS
<1>6. /\ f \in FrameType /\ f.at = "flush" /\ f.cc = Top.cc /\ f.rc = a[1] /\ f.h = a[2]
      /\ Become(f)
  BY <1>2, <1>3, <1>4, <1>5 DEF FrameType
<1>7. CASE Top.cc \in UserCommands
  BY <1>1, <1>3, <1>4, <1>6, <1>7, UserSent
<1>8. CASE Top.cc \notin UserCommands
  <2>1. f.cc \in OwnCommands
    BY <1>1, <1>6, <1>8, OwnTop DEF OwnFrame
  <2>2. OwnFrame(f)'
    BY <1>3, <1>4, <1>6, <1>8, <2>1 DEF OwnFrame, Result
  <2>3. call' = call
    BY <1>3, <1>8 DEF Note
  <2> QED BY <1>1, <1>3, <1>4, <1>6, <1>8, <2>2, <2>3, OwnBecomes
<1> QED BY <1>7, <1>8

LEMMA DeviceFailsKeeps == ASSUME IInv, DeviceFails PROVE IInv'
<1>1. ~Idle /\ Top.at = "send" /\ tpm2' = tpm2 /\ CatchInSend("Exception")
  BY DEF DeviceFails, Sending, At
<1>2. Top \in FrameType /\ DataOK
  BY <1>1, TopFrame DEF IInv
<1>3. PICK a \in TpmAnswers : tpmSessions' \in {tpmSessions, a[3]}
  BY DEF DeviceFails
<1>4. tpmSessions' \subseteq Handles /\ (Top.cc # "FlushContext" => tpmSessions \subseteq tpmSessions')
  <2>1. a[3] \subseteq Handles /\ (Top.cc # "FlushContext" => tpmSessions \subseteq a[3])
    BY <1>2, AnswerFacts
  <2> QED BY <1>2, <1>3, <2>1 DEF DataOK
<1>5. PICK f : f = [Top EXCEPT !.at = "catchSend", !.n = 0, !.rc = "Exception"]
  OBVIOUS
<1>6. Become(f) /\ Note("lost")
  BY <1>1, <1>5 DEF CatchInSend
<1>7. f \in FrameType /\ f.at = "catchSend" /\ f.cc = Top.cc /\ f.rc = "Exception"
  BY <1>2, <1>5 DEF FrameType
<1>8. CASE Top.cc \in UserCommands
  BY <1>1, <1>4, <1>6, <1>7, <1>8, UserSent
<1>9. CASE Top.cc \notin UserCommands
  <2>1. f.cc \in OwnCommands
    BY <1>1, <1>7, <1>9, OwnTop DEF OwnFrame
  <2>2. OwnFrame(f)'
    BY <1>7, <2>1 DEF OwnFrame, Result
  <2>3. call' = call
    BY <1>6, <1>9 DEF Note
  <2> QED BY <1>1, <1>4, <1>6, <1>7, <1>9, <2>2, <2>3, OwnBecomes
<1> QED BY <1>8, <1>9

LEMMA PropertyReadKeeps == ASSUME IInv, PropertyRead PROVE IInv'
<1>1. ~Idle /\ ret # "none" /\ Top.at = "send" /\ UNCHANGED <<tpm2, tpmSessions>>
  BY DEF PropertyRead, BackAt
<1>2. Len(stack) = 1 /\ UserInv(Top) /\ Top.cc \in UserCommands /\ Top \in FrameType /\ DataOK
  BY <1>1, UserTop, TopFrame DEF IInv
<1>3. CASE Become(Top) /\ UNCHANGED call
  <2>0. PICK f : f = Top
    OBVIOUS
  <2>1. ret' = "none"
    BY <1>3 DEF Become
  <2>2. DataOK'
    BY <1>1, <1>2, <1>3, <2>1 DEF DataOK
  <2>3. UserFrame(f)'
    BY <1>1, <1>2, <1>3, <2>0, UserFrameKept DEF UserInv, SameModifiers
  <2>4. UserInv(f)'
    BY <1>1, <1>2, <1>3, <2>0, <2>1, <2>3 DEF UserInv, Outermost, Alive
  <2> QED BY <1>1, <1>2, <1>3, <2>0, <2>2, <2>4, UserBecomes
<1>4. ASSUME NEW e \in ErrorCodes \cup {"Exception"}, CatchInSend(e)
      PROVE  IInv'
  <2>1. PICK f : f = [Top EXCEPT !.at = "catchSend", !.n = 0, !.rc = e]
    OBVIOUS
  <2>2. Become(f) /\ Note("lost")
    BY <1>4, <2>1 DEF CatchInSend
  <2>3. f \in FrameType /\ f.at = "catchSend" /\ f.cc = Top.cc /\ f.rc = e
    BY <1>2, <2>1 DEF FrameType, Answers
  <2>4. tpmSessions' \subseteq Handles
    BY <1>1, <1>2 DEF DataOK
  <2> QED BY <1>1, <1>2, <2>2, <2>3, <2>4, UserSent
<1>5. Raised(ret) => ret \in ErrorCodes \cup {"Exception"}
  BY <1>2 DEF Raised, DataOK
<1> QED BY <1>3, <1>4, <1>5 DEF PropertyRead

-----------------------------------------------------------------------------
(* The sessions that were created for the command are flushed.             *)

LEMMA FlushTempSessionKeeps == ASSUME IInv, FlushTempSession PROVE IInv'
<1>0. PICK f, h : f = [Top EXCEPT !.n = Top.n + 1] /\ h = tpm2.TempSessions[Top.n + 1]
  OBVIOUS
<1>1. /\ ~Idle /\ ret = "none" /\ Top.at \in Leaving /\ Outermost
      /\ Top.n < Len(tpm2.TempSessions) /\ UNCHANGED <<tpm2, tpmSessions, call>>
  BY DEF FlushTempSession, FlushLeft, At
<1>2. Len(stack) = 1 /\ UserInv(Top) /\ Top.cc \in UserCommands /\ Top \in FrameType /\ DataOK
  BY <1>1, UserTop, TopFrame DEF Leaving, IInv
<1>3. CallCancelSafe(f, "FlushContext", h)
  BY <1>0, <1>2 DEF FlushTempSession, FrameType
<1>4. h \in Handles
  <2>1. tpm2.TempSessions \in Seq(Handles) /\ Top.n \in Nat
    BY <1>2 DEF DataOK, Tpm2Type, FrameType
  <2>2. Top.n + 1 \in 1 .. Len(tpm2.TempSessions)
    BY <1>1, <2>1
  <2> QED BY <1>0, <2>1, <2>2, ElementOfSeq
<1>5. PICK g \in FrameType : Invoke(f, g) /\ CancelSafeFrame(g) /\ g.cc = "FlushContext"
  BY <1>1, <1>3, <1>4, CancelSafeCalled DEF CancelSafe
<1>6. f \in FrameType /\ f.at = Top.at /\ f.cc = Top.cc /\ f.rc = Top.rc
  BY <1>0, <1>2 DEF FrameType
<1>7. ret' = "none"
  BY <1>5 DEF Invoke
<1>8. DataOK'
  BY <1>1, <1>2, <1>7 DEF DataOK
<1>9. UserFrame(f)'
  BY <1>1, <1>2, <1>6 DEF UserInv, UserFrame, Result
<1>10. Waits(f, g.cc)'
  BY <1>1, <1>5, <1>6 DEF Waits, Leaving
<1>11. CancelSafeInv(f, g)'
  BY <1>1, <1>2, <1>5, <1>6, <1>7, <1>9, <1>10 DEF CancelSafeInv, UserInv, Outermost
<1> QED BY <1>1, <1>2, <1>5, <1>6, <1>8, <1>11, UserInvokes

LEMMA TempSessionFlushedKeeps == ASSUME IInv, TempSessionFlushed PROVE IInv'
<1>0. PICK f : f = Top
  OBVIOUS
<1>1. /\ ~Idle /\ ret = "true" /\ Top.at \in Leaving /\ Become(f)
      /\ UNCHANGED <<tpm2, tpmSessions, call>>
  BY <1>0 DEF TempSessionFlushed, BackAt
<1>2. Len(stack) = 1 /\ UserInv(f) /\ f \in FrameType /\ DataOK
  BY <1>0, <1>1, UserTop, TopFrame DEF Leaving, IInv
<1>3. ret' = "none"
  BY <1>1 DEF Become
<1>4. DataOK'
  BY <1>1, <1>2, <1>3 DEF DataOK
<1>5. UserFrame(f)'
  BY <1>1, <1>2, UserFrameKept DEF UserInv, SameModifiers
<1>6. UserInv(f)'
  BY <1>0, <1>1, <1>2, <1>3, <1>5 DEF UserInv, Outermost, Leaving
<1> QED BY <1>1, <1>2, <1>4, <1>6, UserBecomes

LEMMA FlushThrowsKeeps == ASSUME IInv, FlushThrows PROVE IInv'
<1>0. PICK r : r = IF Top.at = "catchSend" THEN Top.rc ELSE IF Raised(ret) THEN ret ELSE "Exception"
  OBVIOUS
<1>1. /\ ~Idle /\ ret # "none" /\ Top.at \in Leaving /\ Return(r)
      /\ r = IF Top.at = "catchSend" THEN Top.rc ELSE IF Raised(ret) THEN ret ELSE "Exception"
      /\ UNCHANGED <<tpm2, tpmSessions, call>>
  BY <1>0 DEF FlushThrows, BackAt
<1>2. Len(stack) = 1 /\ UserInv(Top) /\ Top.cc \in UserCommands /\ DataOK
  BY <1>1, UserTop DEF Leaving, IInv
<1>3. tpm2' \in Tpm2Type /\ tpm2'.OuterCommand = NoCommand /\ tpm2'.CurrentCommand \in UserCommands
  BY <1>1, <1>2 DEF DataOK, UserInv, Outermost
<1>4. "none" \notin ErrorCodes /\ "true" \notin ErrorCodes
  BY DispatchAssumption DEF ErrorCodes
<1>5. r \in Results \ {"none"} /\ r # "true"
  BY <1>0, <1>1, <1>2, <1>4 DEF DataOK, Results, Raised, UserInv, UserFrame, Result
<1>6. ~Idle /\ Len(stack) = 1 /\ Return(r) /\ UNCHANGED <<tpmSessions, call>>
  BY <1>1, <1>2
<1> QED BY <1>3, <1>5, <1>6, CommandReturns

-----------------------------------------------------------------------------
(* The result is processed.                                                *)

LEMMA ErrorCodesAreOthers ==
  /\ ErrorCodes \cap {"none", "true", "false", "Exception", "Success", "Garbled", "unsent", "lost"} = {}
  /\ Answers = ErrorCodes \cup {"Success", "Garbled"}
BY DispatchAssumption DEF ErrorCodes, Answers

LEMMA LastErrorSet ==
  ASSUME NEW t \in Tpm2Type, NEW rc \in ErrorCodes \cup {"Success"}
  PROVE  LET u == [t EXCEPT !.LastError = rc]
         IN  /\ u \in Tpm2Type /\ u.LastError = rc
             /\ u.CurrentCommand = t.CurrentCommand /\ u.OuterCommand = t.OuterCommand
             /\ SameModifiers(t, u) /\ SameSessions(t, u)
             /\ u.TolerateErrors = t.TolerateErrors /\ u.AutoAuthHashAlg = t.AutoAuthHashAlg
BY DEF Tpm2Type, SameModifiers, SameSessions

(* A command of the library leaves the modifiers alone, and reports what   *)
(* the TPM answered.  Cancellation is the one error that is not thrown.    *)
LEMMA NestedProcessed ==
  ASSUME NEW t \in Tpm2Type, t.OuterCommand # NoCommand, NEW rc \in Answers
  PROVE  LET o == ProcessError(t, rc)
             u == o.tpm2
         IN  /\ o.result \in Results \ {"none"}
             /\ o.result = "true" <=> rc = "Success"
             /\ o.result = "false" <=> rc = "Canceled"
             /\ u \in Tpm2Type /\ u.OuterCommand = NoCommand /\ u.CurrentCommand = t.OuterCommand
             /\ SameModifiers(t, u) /\ SameSessions(t, u)
             /\ u.TolerateErrors = t.TolerateErrors /\ u.AutoAuthHashAlg = t.AutoAuthHashAlg
             /\ u.LastError = IF rc = "Garbled" THEN "Success" ELSE rc
<1>0. PICK code : code = IF rc = "Garbled" THEN "Success" ELSE rc
  OBVIOUS
<1>1. code \in ErrorCodes \cup {"Success"}
  BY <1>0, ErrorCodesAreOthers
<1>2. PICK s : s = [t EXCEPT !.LastError = code]
  OBVIOUS
<1>3. /\ s \in Tpm2Type /\ s.LastError = code
      /\ s.CurrentCommand = t.CurrentCommand /\ s.OuterCommand = t.OuterCommand
      /\ SameModifiers(t, s) /\ SameSessions(t, s)
      /\ s.TolerateErrors = t.TolerateErrors /\ s.AutoAuthHashAlg = t.AutoAuthHashAlg
  BY <1>1, <1>2, LastErrorSet
<1>4. ProcessError(t, rc).tpm2 = ClearCommandContext(s)
  BY <1>0, <1>2, <1>3
     DEF ProcessError, ProcessSuccess, ProcessFailure, AreErrorsExpected, Outcome
<1>5. /\ ProcessError(t, rc).result \in Results \ {"none"}
      /\ ProcessError(t, rc).result = "true" <=> rc = "Success"
      /\ ProcessError(t, rc).result = "false" <=> rc = "Canceled"
  <2>1. CASE rc \in {"Success", "Garbled"}
    BY <1>0, <1>2, <1>3, <2>1
       DEF ProcessError, ProcessSuccess, Outcome, Results
  <2>2. CASE rc \notin {"Success", "Garbled"}
    <3>1. ProcessError(t, rc).result = IF rc = "Canceled" THEN "false" ELSE rc
      BY <1>0, <1>2, <1>3, <2>2
         DEF ProcessError, ProcessFailure, AreErrorsExpected, Outcome
    <3>2. rc \in ErrorCodes
      BY <2>2, ErrorCodesAreOthers
    <3> QED BY <2>2, <3>1, <3>2, ErrorCodesAreOthers DEF Results
  <2> QED BY <2>1, <2>2
<1>6. /\ ClearCommandContext(s) \in Tpm2Type
      /\ ClearCommandContext(s).CurrentCommand = s.OuterCommand
      /\ ClearCommandContext(s).OuterCommand = NoCommand
      /\ SameModifiers(s, ClearCommandContext(s)) /\ SameSessions(s, ClearCommandContext(s))
      /\ ClearCommandContext(s).TolerateErrors = s.TolerateErrors
      /\ ClearCommandContext(s).LastError = s.LastError
      /\ ClearCommandContext(s).AutoAuthHashAlg = s.AutoAuthHashAlg
  BY <1>3, NestedCleared
<1>7. SameModifiers(t, ClearCommandContext(s)) /\ SameSessions(t, ClearCommandContext(s))
  BY <1>3, <1>6 DEF SameModifiers, SameSessions
<1> QED BY <1>0, <1>3, <1>4, <1>5, <1>6, <1>7

(* A command of the application ends, whatever the handlers say: it uses   *)
(* its modifiers up, and is TRUE only if the TPM said so.                  *)
LEMMA OutermostProcessed ==
  ASSUME NEW t \in Tpm2Type, t.OuterCommand = NoCommand, NEW rc \in Answers
  PROVE  LET o == ProcessError(t, rc)
             u == o.tpm2
         IN  /\ o.result \in Results \ {"none"}
             /\ o.result = "true" => rc = "Success"
             /\ o.result = "false" => t.TolerateErrors \/ t.TheErrorHandler \/ AreErrorsExpected(t)
             /\ u \in Tpm2Type /\ u.OuterCommand = NoCommand /\ u.CurrentCommand = NoCommand
             /\ u.sessions = <<>> /\ u.ExpectedResponses = {} /\ u.ResetPp = FALSE
             /\ u.TolerateErrors = (t.TolerateErrors /\ t.TolerateErrorsPermanently > 0)
             /\ u.TolerateErrorsPermanently = t.TolerateErrorsPermanently
             /\ u.CpHashMode = t.CpHashMode /\ u.DoNotDispatchCommand = t.DoNotDispatchCommand
             /\ u.TheWarningHandler = t.TheWarningHandler /\ u.TheErrorHandler = t.TheErrorHandler
             /\ u.TempSessions = t.TempSessions /\ u.AutoAuthHashAlg = t.AutoAuthHashAlg
             /\ u.LastError = IF rc = "Garbled" THEN "Success" ELSE rc
<1>0. PICK code : code = IF rc = "Garbled" THEN "Success" ELSE rc
  OBVIOUS
<1>1. code \in ErrorCodes \cup {"Success"}
  BY <1>0, ErrorCodesAreOthers
<1>2. PICK s : s = [t EXCEPT !.LastError = code]
  OBVIOUS
<1>3. /\ s \in Tpm2Type /\ s.LastError = code
      /\ s.CurrentCommand = t.CurrentCommand /\ s.OuterCommand = t.OuterCommand
      /\ SameModifiers(t, s) /\ SameSessions(t, s)
      /\ s.TolerateErrors = t.TolerateErrors /\ s.AutoAuthHashAlg = t.AutoAuthHashAlg
  BY <1>1, <1>2, LastErrorSet
<1>4. PICK c : c = ClearCommandContext(s)
  OBVIOUS
<1>5. PICK d : d = ClearCommandContext(c)
  OBVIOUS
<1>6. ProcessError(t, rc).tpm2 \in {c, d}
  BY <1>0, <1>2, <1>4, <1>5 DEF ProcessError, ProcessSuccess, ProcessFailure, Outcome
<1>7. AreErrorsExpected(s) = AreErrorsExpected(t)
  BY <1>3 DEF AreErrorsExpected, SameModifiers
<1>8. /\ ProcessError(t, rc).result \in Results \ {"none"}
      /\ ProcessError(t, rc).result = "true" => rc = "Success"
      /\ ProcessError(t, rc).result = "false" =>
           t.TolerateErrors \/ t.TheErrorHandler \/ AreErrorsExpected(t)
  <2>1. CASE rc \in {"Success", "Garbled"}
    BY <1>0, <1>2, <1>3, <2>1
       DEF ProcessError, ProcessSuccess, Outcome, Results, SameModifiers
  <2>2. CASE rc \notin {"Success", "Garbled"}
    <3>1. rc \in ErrorCodes
      BY <2>2, ErrorCodesAreOthers
    <3>2. /\ ProcessError(t, rc).result \in {"false", rc}
          /\ ProcessError(t, rc).result = "false" =>
               s.TolerateErrors \/ AreErrorsExpected(s) \/ rc = "false"
      BY <1>0, <1>2, <1>3, <2>2
         DEF ProcessError, ProcessFailure, IsErrorAllowed, Outcome
    <3> QED BY <1>3, <1>7, <2>2, <3>1, <3>2, ErrorCodesAreOthers DEF Results
  <2> QED BY <2>1, <2>2
<1>9. /\ c \in Tpm2Type /\ c.CurrentCommand = NoCommand /\ c.OuterCommand = NoCommand
      /\ c.sessions = <<>> /\ c.ExpectedResponses = {} /\ c.ResetPp = FALSE
      /\ c.TolerateErrors = (s.TolerateErrors /\ s.TolerateErrorsPermanently > 0)
      /\ c.TolerateErrorsPermanently = s.TolerateErrorsPermanently
      /\ c.CpHashMode = s.CpHashMode /\ c.DoNotDispatchCommand = s.DoNotDispatchCommand
      /\ c.TheWarningHandler = s.TheWarningHandler /\ c.TheErrorHandler = s.TheErrorHandler
      /\ c.TempSessions = s.TempSessions /\ c.LastError = s.LastError
      /\ c.AutoAuthHashAlg = s.AutoAuthHashAlg
  BY <1>3, <1>4, OutermostCleared
<1>10. /\ d \in Tpm2Type /\ d.CurrentCommand = NoCommand /\ d.OuterCommand = NoCommand
       /\ d.sessions = <<>> /\ d.ExpectedResponses = {} /\ d.ResetPp = FALSE
       /\ d.TolerateErrors = (c.TolerateErrors /\ c.TolerateErrorsPermanently > 0)
       /\ d.TolerateErrorsPermanently = c.TolerateErrorsPermanently
       /\ d.CpHashMode = c.CpHashMode /\ d.DoNotDispatchCommand = c.DoNotDispatchCommand
       /\ d.TheWarningHandler = c.TheWarningHandler /\ d.TheErrorHandler = c.TheErrorHandler
       /\ d.TempSessions = c.TempSessions /\ d.LastError = c.LastError
       /\ d.AutoAuthHashAlg = c.AutoAuthHashAlg
  BY <1>5, <1>9, OutermostCleared
<1>11. ASSUME NEW u \in {c, d}
       PROVE  /\ u \in Tpm2Type /\ u.OuterCommand = NoCommand /\ u.CurrentCommand = NoCommand
              /\ u.sessions = <<>> /\ u.ExpectedResponses = {} /\ u.ResetPp = FALSE
              /\ u.TolerateErrors = (t.TolerateErrors /\ t.TolerateErrorsPermanently > 0)
              /\ u.TolerateErrorsPermanently = t.TolerateErrorsPermanently
              /\ u.CpHashMode = t.CpHashMode /\ u.DoNotDispatchCommand = t.DoNotDispatchCommand
              /\ u.TheWarningHandler = t.TheWarningHandler /\ u.TheErrorHandler = t.TheErrorHandler
              /\ u.TempSessions = t.TempSessions /\ u.AutoAuthHashAlg = t.AutoAuthHashAlg
              /\ u.LastError = code
  BY <1>3, <1>9, <1>10 DEF SameModifiers, SameSessions
<1> QED BY <1>0, <1>6, <1>8, <1>11

(* The end of a command of the library, answered or not: it goes back to   *)
(* what waits for it with the TPM object as it was.                        *)
LEMMA OwnReturns ==
  ASSUME IInv, ~Idle, ret = "none", Top.at # "cancelSafe", Top.cc \notin UserCommands,
         NEW r \in Results \ {"none"}, Return(r), UNCHANGED <<tpmSessions, call>>,
         tpm2' \in Tpm2Type, tpm2'.OuterCommand = NoCommand,
         tpm2'.CurrentCommand = tpm2.OuterCommand,
         SameModifiers(tpm2, tpm2'), SameSessions(tpm2, tpm2'),
         Top.cc = "StartAuthSession" /\ r = "true" => Top.h \in Handles \cap tpmSessions
  PROVE  IInv'
<1>1. ret' = r /\ Outermost'
  BY DEF Return, Outermost
<1>2. DataOK'
  BY <1>1 DEF IInv, DataOK, Results
<1>0. PICK f, g, h : f = stack[1] /\ g = stack[2] /\ h = Top
  OBVIOUS
<1>3. \/ Len(stack) = 2 /\ OwnInv(f, h)
      \/ Len(stack) = 3 /\ AttemptInv(f, g, h)
  BY <1>0, Depth DEF UserInv, UserFrame
<1>4. CASE Len(stack) = 2 /\ OwnInv(f, h)
  <2>1. UserFrame(f)'
    BY <1>4, UserFrameKept DEF OwnInv
  <2>2. Waits(f, h.cc)'
    BY <1>4, WaitsKept DEF OwnInv
  <2>3. tpm2'.CurrentCommand = f.cc
    BY <1>4 DEF OwnInv, Nested
  <2>4. h.cc # "StartAuthSession"
    BY <1>4 DEF OwnInv, CancelSafe
  <2> QED BY <1>0, <1>1, <1>2, <1>4, <2>1, <2>2, <2>3, <2>4, BackToUser
<1>5. CASE Len(stack) = 3 /\ AttemptInv(f, g, h)
  <2>1. UserFrame(f)'
    BY <1>5, UserFrameKept DEF AttemptInv
  <2>2. Waits(f, g.cc)'
    BY <1>5, WaitsKept DEF AttemptInv
  <2>3. tpm2'.CurrentCommand = f.cc /\ CancelSafeFrame(g) /\ h.cc = g.cc
    BY <1>5 DEF AttemptInv, Nested
  <2>4. g.cc = "StartAuthSession" /\ r = "true" => h.h \in Handles \cap tpmSessions'
    BY <1>0, <2>3
  <2> QED BY <1>0, <1>1, <1>2, <1>5, <2>1, <2>2, <2>3, <2>4, BackToCancelSafe
<1> QED BY <1>3, <1>4, <1>5

LEMMA PrelaunchCleared ==
  ASSUME tpm2 \in Tpm2Type
  PROVE  LET t == ClearCommandPrelaunchContext
         IN  /\ t \in Tpm2Type
             /\ ~Outermost => t = tpm2
             /\ Outermost => t.TempSessions = <<>>
             /\ t.OuterCommand = tpm2.OuterCommand /\ t.CurrentCommand = tpm2.CurrentCommand
             /\ SameModifiers(tpm2, t) /\ t.sessions = tpm2.sessions
             /\ t.TolerateErrors = tpm2.TolerateErrors /\ t.LastError = tpm2.LastError
             /\ t.AutoAuthHashAlg = tpm2.AutoAuthHashAlg
<1>1. CASE Outermost
  <2>1. ClearCommandPrelaunchContext = [tpm2 EXCEPT !.TempSessions = <<>>]
    BY <1>1 DEF ClearCommandPrelaunchContext
  <2>2. <<>> \in Seq(Handles)
    BY EmptySeq
  <2> QED BY <1>1, <2>1, <2>2 DEF Tpm2Type, SameModifiers
<1>2. CASE ~Outermost
  BY <1>2 DEF ClearCommandPrelaunchContext, SameModifiers
<1> QED BY <1>1, <1>2

LEMMA FinishCommandKeeps == ASSUME IInv, FinishCommand PROVE IInv'
<1>0. PICK t, o : t = ClearCommandPrelaunchContext /\ o = ProcessError(t, Top.rc)
  OBVIOUS
<1>1. /\ ~Idle /\ ret = "none" /\ Top.at = "flush" /\ tpm2' = o.tpm2 /\ Return(o.result)
      /\ UNCHANGED <<tpmSessions, call>>
  BY <1>0 DEF FinishCommand, At
<1>2. DataOK /\ tpm2 \in Tpm2Type
  BY DEF IInv, DataOK
<1>3. /\ t \in Tpm2Type
      /\ ~Outermost => t = tpm2
      /\ t.OuterCommand = tpm2.OuterCommand /\ t.CurrentCommand = tpm2.CurrentCommand
  BY <1>0, <1>2, PrelaunchCleared
<1>4. CASE Top.cc \in UserCommands
  <2>1. Len(stack) = 1 /\ UserInv(Top)
    BY <1>1, <1>4, UserTop
  <2>2. Top.rc \in Answers /\ Top.rc = call.said
    BY <1>1, <2>1 DEF UserInv, UserFrame, Result
  <2>3. CASE Outermost
    <3>1. /\ o.result \in Results \ {"none"}
          /\ o.result = "true" => Top.rc = "Success"
          /\ o.tpm2 \in Tpm2Type /\ o.tpm2.OuterCommand = NoCommand
          /\ o.tpm2.CurrentCommand = NoCommand /\ o.tpm2.sessions = <<>>
      BY ZenonT(40), <1>0, <1>3, <2>2, <2>3, OutermostProcessed DEF Outermost
    <3> QED BY <1>1, <2>1, <2>2, <3>1, CommandReturns
  <2>4. CASE ~Outermost
    <3>1. /\ o.result \in Results \ {"none"}
          /\ o.result = "true" => Top.rc = "Success"
          /\ o.tpm2 \in Tpm2Type /\ o.tpm2.OuterCommand = NoCommand
          /\ o.tpm2.CurrentCommand = tpm2.OuterCommand
      BY <1>0, <1>3, <2>2, <2>4, NestedProcessed DEF Outermost
    <3>2. tpm2.OuterCommand \in UserCommands
      BY <2>1, <2>4 DEF UserInv, Outermost
    <3> QED BY <1>1, <2>1, <2>2, <3>1, <3>2, CommandReturns
  <2> QED BY <2>3, <2>4
<1>5. CASE Top.cc \notin UserCommands
  <2>1. OwnFrame(Top) /\ ~Outermost
    BY <1>1, <1>5, OwnTop
  <2>2. Top.rc \in Answers
    BY <1>1, <2>1 DEF OwnFrame, Result
  <2>3. /\ o.result \in Results \ {"none"}
        /\ o.result = "true" => Top.rc = "Success"
        /\ o.tpm2 \in Tpm2Type /\ o.tpm2.OuterCommand = NoCommand
        /\ o.tpm2.CurrentCommand = tpm2.OuterCommand
        /\ SameModifiers(tpm2, o.tpm2) /\ SameSessions(tpm2, o.tpm2)
    BY <1>0, <1>3, <2>1, <2>2, NestedProcessed DEF Outermost
  <2>4. Top.cc = "StartAuthSession" /\ o.result = "true" => Top.h \in Handles \cap tpmSessions
    BY <1>1, <2>1, <2>3 DEF OwnFrame
  <2> QED BY <1>1, <1>5, <2>3, <2>4, OwnReturns
<1> QED BY <1>4, <1>5

LEMMA FinishCatchKeeps == ASSUME IInv, FinishCatch PROVE IInv'
<1>0. PICK t, u, r : /\ t = ClearCommandPrelaunchContext /\ u = ClearCommandContext(t)
                     /\ r = Top.rc
  OBVIOUS
<1>1. /\ ~Idle /\ ret = "none" /\ Top.at \in {"catchPrepare", "catchSend"} /\ tpm2' = u
      /\ Return(r) /\ UNCHANGED <<tpmSessions, call>>
  BY <1>0 DEF FinishCatch, At
<1>2. DataOK /\ tpm2 \in Tpm2Type
  BY DEF IInv, DataOK
<1>3. /\ t \in Tpm2Type
      /\ ~Outermost => t = tpm2
      /\ t.OuterCommand = tpm2.OuterCommand /\ t.CurrentCommand = tpm2.CurrentCommand
  BY <1>0, <1>2, PrelaunchCleared
<1>4. r \in ErrorCodes \cup {"false", "Exception"} => r \in Results \ {"none"} /\ r # "true"
  BY ErrorCodesAreOthers DEF Results
<1>5. CASE Top.cc \in UserCommands
  <2>1. Len(stack) = 1 /\ UserInv(Top)
    BY <1>1, <1>5, UserTop
  <2>2. r \in Results \ {"none"} /\ r # "true"
    BY <1>0, <1>1, <1>4, <2>1 DEF UserInv, UserFrame, Result
  <2>3. CASE Outermost
    <3>1. /\ u \in Tpm2Type /\ u.OuterCommand = NoCommand
          /\ u.CurrentCommand = NoCommand /\ u.sessions = <<>>
      BY <1>0, <1>3, <2>3, OutermostCleared DEF Outermost
    <3> QED BY <1>1, <2>1, <2>2, <3>1, CommandReturns
  <2>4. CASE ~Outermost
    <3>1. /\ u \in Tpm2Type /\ u.OuterCommand = NoCommand /\ u.CurrentCommand = tpm2.OuterCommand
      BY <1>0, <1>3, <2>4, NestedCleared DEF Outermost
    <3>2. tpm2.OuterCommand \in UserCommands
      BY <2>1, <2>4 DEF UserInv, Outermost
    <3> QED BY <1>1, <2>1, <2>2, <3>1, <3>2, CommandReturns
  <2> QED BY <2>3, <2>4
<1>6. CASE Top.cc \notin UserCommands
  <2>1. OwnFrame(Top) /\ ~Outermost
    BY <1>1, <1>6, OwnTop
  <2>2. r \in Results \ {"none"} /\ r # "true"
    BY <1>0, <1>1, <1>4, <2>1 DEF OwnFrame, Result
  <2>3. /\ u \in Tpm2Type /\ u.OuterCommand = NoCommand /\ u.CurrentCommand = tpm2.OuterCommand
        /\ SameModifiers(tpm2, u) /\ SameSessions(tpm2, u)
    BY <1>0, <1>3, <2>1, NestedCleared DEF Outermost
  <2> QED BY <1>1, <1>6, <2>2, <2>3, OwnReturns
<1> QED BY <1>5, <1>6

-----------------------------------------------------------------------------
(* CancelSafeStartAuthSession and CancelSafeFlushContext.                  *)

LEMMA AttemptKeeps == ASSUME IInv, Attempt PROVE IInv'
<1>0. PICK f, g, t : f = stack[1] /\ g = Top /\ t = [tpm2 EXCEPT !.TolerateErrors = TRUE]
  OBVIOUS
<1>1. /\ ~Idle /\ ret = "none" /\ Top.at = "cancelSafe" /\ CallOwn(g, g.cc, g.h, t)
      /\ UNCHANGED <<tpmSessions, call>>
  BY <1>0 DEF Attempt, At
<1>2. Len(stack) = 2 /\ g = stack[2] /\ CancelSafeInv(f, g) /\ g \in FrameType /\ DataOK
  BY <1>0, <1>1, CancelSafeTop, TopFrame DEF IInv
<1>3. tpm2 \in Tpm2Type /\ tpm2.CurrentCommand = f.cc /\ f.cc \in UserCommands
  BY <1>2 DEF CancelSafeInv, UserFrame, DataOK
<1>4. /\ t \in Tpm2Type /\ t.CurrentCommand = f.cc
      /\ SameModifiers(tpm2, t) /\ SameSessions(tpm2, t)
  BY <1>0, <1>3 DEF Tpm2Type, SameModifiers, SameSessions
<1>5. g.cc \in OwnCommands /\ g.h \in Handles \cup {NoHandle}
  BY <1>2, CommandKinds DEF CancelSafeInv, CancelSafeFrame, FrameType
<1>6. PICK h \in FrameType :
        /\ Invoke(g, h) /\ OwnFrame(h) /\ h.cc = g.cc /\ h.at = "prepare"
        /\ tpm2' \in Tpm2Type /\ tpm2'.CurrentCommand = g.cc /\ tpm2'.OuterCommand = t.CurrentCommand
        /\ SameModifiers(t, tpm2') /\ SameSessions(t, tpm2')
  BY <1>1, <1>3, <1>4, <1>5, OwnCalled
<1>7. ret' = "none"
  BY <1>6 DEF Invoke
<1>8. DataOK'
  BY <1>1, <1>2, <1>6, <1>7 DEF DataOK
<1>9. SameModifiers(tpm2, tpm2') /\ SameSessions(tpm2, tpm2')
  BY <1>4, <1>6 DEF SameModifiers, SameSessions
<1>10. UserFrame(f)'
  BY <1>1, <1>2, <1>9, UserFrameKept DEF CancelSafeInv
<1>11. Waits(f, g.cc)'
  BY <1>1, <1>2, <1>9, WaitsKept DEF CancelSafeInv
<1>12. OwnFrame(h)'
  BY <1>1, <1>6 DEF OwnFrame
<1>13. AttemptInv(f, g, h)'
  BY <1>2, <1>4, <1>6, <1>7, <1>10, <1>11, <1>12 DEF AttemptInv, CancelSafeInv, Nested
<1> QED BY <1>0, <1>1, <1>2, <1>6, <1>8, <1>13, CancelSafeInvokes

LEMMA AttemptAgainKeeps == ASSUME IInv, AttemptAgain PROVE IInv'
<1>0. PICK f, g, u : f = stack[1] /\ g = Top /\ u = [Top EXCEPT !.n = Top.n + 1]
  OBVIOUS
<1>1. /\ ~Idle /\ Top.at = "cancelSafe" /\ UNCHANGED <<tpm2, tpmSessions, call>>
  BY DEF AttemptAgain, BackAt
<1>2. Len(stack) = 2 /\ CancelSafeInv(f, g) /\ g \in FrameType /\ DataOK
  BY <1>0, <1>1, CancelSafeTop, TopFrame DEF IInv
<1>3. u \in FrameType /\ u.at = g.at /\ u.cc = g.cc /\ Become(u)
  BY <1>0, <1>2 DEF AttemptAgain, FrameType
<1>4. ret' = "none"
  BY <1>3 DEF Become
<1>5. DataOK'
  BY <1>1, <1>2, <1>4 DEF DataOK
<1>6. UserFrame(f)'
  BY <1>1, <1>2, UserFrameKept DEF CancelSafeInv, SameModifiers
<1>7. Waits(f, u.cc)'
  BY <1>1, <1>2, <1>3, WaitsKept DEF CancelSafeInv, SameSessions
<1>8. CancelSafeInv(f, u)'
  BY <1>1, <1>2, <1>3, <1>4, <1>6, <1>7 DEF CancelSafeInv, CancelSafeFrame, Outermost
<1> QED BY <1>0, <1>1, <1>2, <1>3, <1>5, <1>8, CancelSafeBecomes

LEMMA AttemptsEndKeeps == ASSUME IInv, AttemptsDone \/ AttemptThrows PROVE IInv'
<1>0. PICK f, g : f = stack[1] /\ g = Top
  OBVIOUS
<1>1. ~Idle /\ ret # "none" /\ g.at = "cancelSafe" /\ UNCHANGED <<tpmSessions, call>>
  BY <1>0 DEF AttemptsDone, AttemptThrows, BackAt
<1>2. Len(stack) = 2 /\ CancelSafeInv(f, g) /\ g \in FrameType /\ DataOK
  BY <1>0, <1>1, CancelSafeTop, TopFrame DEF IInv
<1>3. PICK r : \/ /\ AttemptsDone
                  /\ r = IF Top.cc = "FlushContext" \/ (ret = "true" /\ Top.h # NoHandle)
                         THEN "true" ELSE "Exception"
               \/ AttemptThrows /\ r = ret
  OBVIOUS
<1>4. Return(r)
  BY <1>3 DEF AttemptsDone, AttemptThrows
<1>5. r \in Results \ {"none"} /\ (g.cc = "StartAuthSession" /\ r = "true" => ret = "true")
  BY <1>0, <1>1, <1>2, <1>3 DEF Results, DataOK
<1>6. /\ tpm2' \in Tpm2Type /\ SameModifiers(tpm2, tpm2') /\ SameSessions(tpm2, tpm2')
      /\ tpm2'.CurrentCommand = tpm2.CurrentCommand /\ tpm2'.OuterCommand = tpm2.OuterCommand
  <2>1. tpm2 \in Tpm2Type /\ g.tolerate \in BOOLEAN /\ g.code \in ErrorCodes \cup {"Success"}
    BY <1>2 DEF DataOK, FrameType
  <2>2. \/ tpm2' = tpm2
        \/ tpm2' = [tpm2 EXCEPT !.TolerateErrors = g.tolerate, !.LastError = g.code]
    BY <1>0, <1>3 DEF AttemptsDone, AttemptThrows
  <2> QED BY <2>1, <2>2 DEF Tpm2Type, SameModifiers, SameSessions
<1>7. DataOK'
  BY <1>1, <1>2, <1>4, <1>5, <1>6 DEF DataOK, Results, Return
<1>8. UserFrame(f)'
  BY <1>1, <1>2, <1>6, UserFrameKept DEF CancelSafeInv
<1>9. Waits(f, g.cc)'
  BY <1>1, <1>2, <1>6, WaitsKept DEF CancelSafeInv
<1>10. tpm2'.CurrentCommand = f.cc /\ Outermost'
  BY <1>2, <1>6 DEF CancelSafeInv, Outermost
<1>11. g.cc = "StartAuthSession" /\ r = "true" => g.h \in Handles \cap tpmSessions'
  BY <1>1, <1>2, <1>5 DEF CancelSafeInv
<1> QED BY <1>0, <1>1, <1>2, <1>4, <1>7, <1>8, <1>9, <1>10, <1>11, BackToUser

-----------------------------------------------------------------------------
(* The theorems that hold whatever the TPM and the device do.              *)

LEMMA StutterKeeps == ASSUME IInv, UNCHANGED vars PROVE IInv'
<1>1. /\ tpm2' = tpm2 /\ stack' = stack /\ ret' = ret /\ tpmSessions' = tpmSessions
      /\ call' = call
  BY DEF vars
<1>2. DataOK'
  BY <1>1 DEF IInv, DataOK
<1>3. Idle /\ IdleInv => Idle' /\ IdleInv'
  BY <1>1 DEF IdleInv, Idle, Outermost, TrueMeansDone, Returned
<1>4. ASSUME NEW f PROVE UserFrame(f) => UserFrame(f)'
  BY <1>1 DEF UserFrame
<1>5. ASSUME NEW f, NEW cc PROVE Waits(f, cc) => Waits(f, cc)'
  BY <1>1 DEF Waits, Alive
<1>6. ASSUME NEW f PROVE UserInv(f) => UserInv(f)'
  BY <1>1, <1>4 DEF UserInv, Outermost, Alive
<1>7. ASSUME NEW f, NEW g PROVE OwnFrame(g) /\ Nested(f, g) => OwnFrame(g)' /\ Nested(f, g)'
  BY <1>1 DEF OwnFrame, Nested
<1>8. ASSUME NEW f, NEW g PROVE CancelSafeInv(f, g) => CancelSafeInv(f, g)'
  BY <1>1, <1>4, <1>5 DEF CancelSafeInv, Outermost
<1>9. ASSUME NEW f, NEW g PROVE OwnInv(f, g) => OwnInv(f, g)'
  BY <1>4, <1>5, <1>7 DEF OwnInv
<1>10. ASSUME NEW f, NEW g, NEW h PROVE AttemptInv(f, g, h) => AttemptInv(f, g, h)'
  BY <1>4, <1>5, <1>7 DEF AttemptInv
<1> QED BY <1>1, <1>2, <1>3, <1>6, <1>8, <1>9, <1>10 DEF IInv

LEMMA NextKeeps == ASSUME IInv, NestedUnlimited, [Next]_vars PROVE IInv'
<1>1. CASE Application
  BY <1>1, ModifiersKeep, CallKeeps DEF Application
<1>2. CASE PrepareOwnCommand \/ StartMissingSession \/ MissingSessionStarted
             \/ MissingSessionLost \/ FallBackToNextHash \/ MissingSessionFailed \/ WrongSessionHandle
             \/ ReadMissingName \/ NameRead \/ Prepared
  BY <1>2, PrepareOwnCommandKeeps, StartMissingSessionKeeps, MissingSessionStartedKeeps,
     MissingSessionLostKeeps, FallBackToNextHashKeeps, MissingSessionFailedKeeps, WrongSessionHandleKeeps,
     ReadMissingNameKeeps, NameReadKeeps, PreparedKeeps
<1>3. CASE ComputeCpHash \/ RecordCommandBytes \/ Execute \/ NvRate \/ PropertyRead \/ DeviceFails
  BY <1>3, NotSentKeeps, ExecuteKeeps, NvRateKeeps, PropertyReadKeeps, DeviceFailsKeeps
<1>4. CASE FlushTempSession \/ TempSessionFlushed \/ FlushThrows \/ FinishCommand \/ FinishCatch
  BY <1>4, FlushTempSessionKeeps, TempSessionFlushedKeeps, FlushThrowsKeeps,
     FinishCommandKeeps, FinishCatchKeeps
<1>5. CASE Attempt \/ AttemptAgain \/ AttemptsDone \/ AttemptThrows
  BY <1>5, AttemptKeeps, AttemptAgainKeeps, AttemptsEndKeeps
<1>6. CASE UNCHANGED vars
  BY <1>6, StutterKeeps
<1> QED BY <1>1, <1>2, <1>3, <1>4, <1>5, <1>6 DEF Next, Library

(* The shape of the call stack is as IInv says in every behaviour of the   *)
(* library and its application.                                            *)
THEOREM Invariance == NestedUnlimited /\ Spec => []IInv
<1> SUFFICES ASSUME NestedUnlimited PROVE Spec => []IInv
  OBVIOUS
<1>1. Init => IInv
  BY InitKeeps
<1>2. IInv /\ [Next]_vars => IInv'
  BY NextKeeps
<1> QED BY <1>1, <1>2, PTL DEF Spec

LEMMA StackTyped ==
  ASSUME IInv
  PROVE  \A i \in DOMAIN stack : i = 1 <=> stack[i].cc \in UserCommands
<1>1. CASE Idle
  BY <1>1 DEF Idle
<1>2. CASE ~Idle
  <2>1. DOMAIN stack = 1 .. Len(stack) /\ Len(stack) \in {1, 2, 3}
    BY <1>2, TopFrame
  <2>2. CASE Len(stack) = 1
    BY <2>1, <2>2 DEF IInv, Idle, UserInv, UserFrame
  <2>3. CASE Len(stack) = 2
    <3>1. stack[1].cc \in UserCommands /\ stack[2].cc \in OwnCommands
      BY <1>2, <2>3, CommandKinds
         DEF IInv, CancelSafeInv, OwnInv, UserFrame, CancelSafeFrame, OwnFrame
    <3> QED BY <2>1, <2>3, <3>1, CommandKinds
  <2>4. CASE Len(stack) = 3
    <3>1. stack[1].cc \in UserCommands /\ stack[2].cc \in OwnCommands /\ stack[3].cc \in OwnCommands
      BY <1>2, <2>4, CommandKinds DEF IInv, AttemptInv, UserFrame, CancelSafeFrame, OwnFrame
    <3> QED BY <2>1, <2>4, <3>1, CommandKinds
  <2> QED BY <2>1, <2>2, <2>3, <2>4
<1> QED BY <1>1, <1>2

(* The variables keep their types, and the call stack of Tpm2.cs its form: *)
(* the outermost activation of DispatchMethod is of a command of the       *)
(* application, the nested ones are of commands of the library.            *)
THEOREM TypeCorrect == NestedUnlimited /\ Spec => []TypeOK
<1>1. IInv => TypeOK
  BY StackTyped DEF IInv, DataOK, TypeOK, Sessions
<1> QED BY <1>1, Invariance, PTL

(* A command that returns TRUE was executed with success, or was not to be *)
(* executed, for every answer of the TPM, every failure of the device and  *)
(* every combination of handlers, modifiers and commands given up before.  *)
THEOREM TrueIsDone == NestedUnlimited /\ Spec => []TrueMeansDone
<1>1. IInv => TrueMeansDone
  BY EmptySeq DEF IInv, IdleInv, TrueMeansDone, Returned, Idle
<1> QED BY <1>1, Invariance, PTL

(* No command is sent with an implicit session that the TPM has not,       *)
(* whichever commands failed or were given up before it.                   *)
THEOREM SessionsAreAlive == NestedUnlimited /\ Spec => []NoDeadSession
<1>1. IInv => NoDeadSession
  BY SentAlive DEF NoDeadSession, Alive
<1> QED BY <1>1, Invariance, PTL

=============================================================================
