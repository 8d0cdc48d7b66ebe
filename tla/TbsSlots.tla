------------------------------ MODULE TbsSlots ------------------------------
(***************************************************************************)
(* The Tbs resource manager of TSS.Net (SlotManager.cs, SlotContext.cs):   *)
(* several clients share one TPM, each through its own TbsContext.  Tbs    *)
(* gives every transient object and session a virtual handle, loads what a *)
(* command references, makes space by context-saving other entities, and   *)
(* translates handles on the way in and out.                               *)
(*                                                                         *)
(* Tbs.DispatchCommand runs under lock(this), so at most one command is in *)
(* progress (variable cmd); its loop over TPM calls is split into steps at *)
(* every call that can fail.  Steps that the code runs outside the lock    *)
(* (ProcessTpmClear in TbsContext.PowerCycle) interleave with them.        *)
(*                                                                         *)
(* The n-th entity created on the TPM is the number n, and so is the       *)
(* ObjectContext made for it: contexts are only ever appended to the list  *)
(* ObjectContexts, so the order of the list is the order of the numbers.   *)
(***************************************************************************)
EXTENDS TpmResources, Sequences, FiniteSetsExt

CONSTANTS
  Clients,        (* the TbsContexts                                       *)
  VObjHandles,    (* virtual transient handles, a superset of ObjHandles   *)
  VSessHandles,   (* virtual session handles, a superset of SessHandles    *)
  Perm,           (* a permanent handle: a hierarchy, PCR or NV index      *)
  RhNull,         (* TPM_RH_NULL, the value of a fresh TpmHandle           *)
  NoHandle,       (* the null reference                                    *)
  NoClient,
  Ops,            (* the operations that the clients issue                 *)
  MaxEntities,    (* bound: entities ever created                          *)
  MaxUse,         (* bound: UseCount when a command starts                 *)
  MaxSaves,       (* bound: the TPM's context counter when a command starts*)
  MaxResets,      (* bound: times that TPM2_Clear or a TPM Reset happens   *)
  MaxRefs         (* bound: handles in one command                         *)

AllOps == {"Load", "StartAuthSession", "Use", "EndSession", "SequenceComplete",
           "EventSequenceComplete", "FlushContext", "ContextSave", "ContextLoad", "Clear",
           "Dispose", "PowerCycle", "StateSave"}
Commands == AllOps \ {"Dispose", "PowerCycle", "StateSave"}

ASSUME TbsAssumption ==
  /\ IsFiniteSet(VObjHandles) /\ ObjHandles \subseteq VObjHandles
  /\ IsFiniteSet(VSessHandles) /\ SessHandles \subseteq VSessHandles
  /\ VObjHandles \cap VSessHandles = {}
  /\ {Perm, RhNull, NoHandle} \cap (VObjHandles \cup VSessHandles) = {}
  /\ Perm # RhNull /\ Perm # NoHandle /\ RhNull # NoHandle
  /\ NoClient \notin Clients
  /\ Ops \subseteq AllOps
  /\ {MaxEntities, MaxUse, MaxSaves, MaxResets, MaxRefs} \subseteq Nat

VARIABLES
  tpm,        (* the TPM, see TpmResources                                 *)
  contexts,   (* ObjectContexts: the live context numbers and their fields *)
  useCount,   (* ObjectContextManager.UseCount                             *)
  created,    (* how many entities were created so far                     *)
  cmd,        (* the command being dispatched under the lock               *)
  result,     (* what the last DispatchCommand gave back                   *)
  resetting   (* clients between the two halves of TbsContext.PowerCycle   *)

vars == <<tpm, contexts, useCount, created, cmd, result, resetting>>

VHandles == VObjHandles \cup VSessHandles

(* SlotTypeFromHandle: the range of a handle says what it names.           *)
SlotType(h) ==
  IF h \in VObjHandles THEN "ObjectSlot"
  ELSE IF h \in VSessHandles THEN "SessionSlot" ELSE "NoSlot"

ObjectContext ==
  [owner : Clients, ownerHandle : VHandles, slotType : {"ObjectSlot", "SessionSlot"},
   lastUseCount : Nat, tpmHandle : TpmHandles \cup {RhNull, NoHandle},
   isLoaded : BOOLEAN, context : Blobs]

(* ObjectContext.Loaded: a handle outside the transient and session ranges *)
(* counts as a TPM resource that is always there.                          *)
Loaded(x) == x.tpmHandle # NoHandle /\ (x.tpmHandle = RhNull \/ x.isLoaded)

(* Number 0 stands for the temporary context that GetContext makes for a   *)
(* handle that needs no translation.                                       *)
Temporary == 0
IsLoaded(e) == e = Temporary \/ (e \in DOMAIN contexts /\ Loaded(contexts[e]))

Named(c, h) == {e \in DOMAIN contexts : contexts[e].owner = c /\ contexts[e].ownerHandle = h}
GetContext(c, h) == IF SlotType(h) = "NoSlot" THEN Temporary ELSE Min(Named(c, h))
Unknown(c, h) == SlotType(h) # "NoSlot" /\ Named(c, h) = {}

Remove(E) == [e \in DOMAIN contexts \ E |-> contexts[e]]
OwnedBy(c) == {e \in DOMAIN contexts : contexts[e].owner = c}

-----------------------------------------------------------------------------
(* The command in progress.  phase says where DispatchCommand is:          *)
(*   "load"  LoadEntities is at need[at];                                  *)
(*   "exec"  the loop around TpmDevice.DispatchCommand;                    *)
(*   "space" the loop around ContextSave in MakeSpace, called from "from"; *)
(*   "state" StateSaveAndReload at the start of DispatchCommand.           *)
NoCmd ==
  [phase |-> "idle", caller |-> NoClient, cc |-> "none",
   arg |-> NoHandle, need |-> <<>>, at |-> 1, retry |-> FALSE, phys |-> <<>>, from |-> "idle",
   victim |-> 0, victimHandle |-> NoHandle, type |-> "NoSlot",
   firstSeq |-> 0, execSeq |-> 0]

Pinned == {cmd.need[i] : i \in DOMAIN cmd.need}

Reply(rc) == [caller |-> cmd.caller, rc |-> rc, handle |-> NoHandle, touched |-> {}]
NoResult == [caller |-> NoClient, rc |-> "none", handle |-> NoHandle, touched |-> {}]

(* Leaving DispatchCommand, by a response or by an exception ("throw").    *)
Return(r) == cmd' = NoCmd /\ result' = r

(* UpdateLastUseCount: one UseCount for each referenced context in turn.   *)
Positions(e) == {i \in DOMAIN cmd.need : cmd.need[i] = e}
UpdateLastUseCount(ctxs) ==
  /\ contexts' = [e \in DOMAIN ctxs |->
       IF Positions(e) = {} THEN ctxs[e]
       ELSE [ctxs[e] EXCEPT !.lastUseCount = useCount + Max(Positions(e)) - 1]]
  /\ useCount' = useCount + Len(cmd.need)

(* A response that is not Success goes back to the caller.                 *)
ReturnError(rc, ctxs) ==
  /\ UpdateLastUseCount(ctxs)
  /\ Return(Reply(rc))
  /\ UNCHANGED <<created, resetting>>

Throw(ctxs) ==
  /\ contexts' = ctxs
  /\ Return(Reply("throw"))
  /\ UNCHANGED <<useCount, created, resetting>>

-----------------------------------------------------------------------------
(* DispatchCommand: parsing and lookup                                     *)

(* What a command carries: first the handles of its handle area, then its  *)
(* sessions; no object comes after the first n.                            *)
SessionsAfter(hs, n) ==
  Len(hs) >= n /\ \A i \in DOMAIN hs : i > n => SlotType(hs[i]) # "ObjectSlot"

(* Load has a parent, StartAuthSession a tpmKey and a bind entity (Perm    *)
(* stands for TPM_RH_NULL, too).  FlushContext has no handle area: its     *)
(* handle is a parameter (CommandInfo HandleCountIn = 0).  The context     *)
(* commands take no sessions.                                              *)
Legal(cc, hs) ==
  CASE cc = "Load"                  -> SessionsAfter(hs, 1) /\ SlotType(hs[1]) # "SessionSlot"
    [] cc = "StartAuthSession"      -> SessionsAfter(hs, 2) /\ SlotType(hs[1]) # "SessionSlot"
                                                           /\ SlotType(hs[2]) # "SessionSlot"
    [] cc = "Use"                   -> Len(hs) > 0
    [] cc = "EndSession"            -> \E i \in DOMAIN hs : SlotType(hs[i]) = "SessionSlot"
    [] cc = "SequenceComplete"      -> SessionsAfter(hs, 1) /\ SlotType(hs[1]) = "ObjectSlot"
    [] cc = "EventSequenceComplete" -> SessionsAfter(hs, 2) /\ hs[1] = Perm
                                                           /\ SlotType(hs[2]) = "ObjectSlot"
    [] cc = "ContextSave"           -> Len(hs) = 1 /\ hs[1] # Perm
    [] cc = "Clear"                 -> SessionsAfter(hs, 1) /\ hs[1] = Perm
    [] OTHER                        -> hs = <<>>

(* The handle in its parameter area, if any.                               *)
Args(cc) == IF cc = "FlushContext" THEN VHandles ELSE {NoHandle}

WithinBounds(cc) ==
  /\ cc \in {"Load", "StartAuthSession", "ContextLoad"} => created < MaxEntities
  /\ cc = "Clear" => tpm.epoch < MaxResets
  /\ useCount + MaxRefs < MaxUse
  /\ tpm.counter <= MaxSaves

Begin(c, cc, hs, arg) ==
  /\ cmd = NoCmd /\ c \notin resetting
  /\ Legal(cc, hs)
  /\ WithinBounds(cc)
  /\ ~\E i \in DOMAIN hs : Unknown(c, hs[i])
  /\ cmd' = [NoCmd EXCEPT !.phase = "load", !.caller = c, !.cc = cc, !.arg = arg,
                          !.need = [i \in DOMAIN hs |-> GetContext(c, hs[i])]]
  /\ result' = NoResult
  /\ UNCHANGED <<tpm, contexts, useCount, created, resetting>>

(* A handle that the caller has no context for: FormatError(TpmRc.Handle). *)
RejectUnknown(c, cc, hs) ==
  /\ cmd = NoCmd /\ c \notin resetting
  /\ Legal(cc, hs)
  /\ \E i \in DOMAIN hs : Unknown(c, hs[i])
  /\ result' = [NoResult EXCEPT !.caller = c, !.rc = "Handle"]
  /\ UNCHANGED <<tpm, contexts, useCount, created, cmd, resetting>>

-----------------------------------------------------------------------------
(* MakeSpace                                                               *)

(* mutants of Victims: only the caller's entities; the command's own ones  *)
VictimsOfCaller(type, pinned) ==
  {e \in DOMAIN contexts : /\ contexts[e].slotType = type /\ Loaded(contexts[e]) /\ e \notin pinned
                           /\ contexts[e].owner = cmd.caller}
VictimsUnpinned(type, pinned) ==
  {e \in DOMAIN contexts : contexts[e].slotType = type /\ Loaded(contexts[e])}
Victims(type, pinned) ==
  {e \in DOMAIN contexts : contexts[e].slotType = type /\ Loaded(contexts[e]) /\ e \notin pinned}

(* GetEntityToEvict: the smallest LastUseCount, the first in the list if   *)
(* there are several.                                                      *)
EntityToEvict(type, pinned) ==
  LET stalest == {e \in Victims(type, pinned) :
                    \A f \in Victims(type, pinned) :
                      contexts[e].lastUseCount <= contexts[f].lastUseCount}
  IN IF stalest = {} THEN 0 ELSE Min(stalest)

(* MakeSpace gave up: LoadEntities fails and DispatchCommand throws; in    *)
(* the command loop the response becomes TpmRc.Memory.                     *)
MakeSpaceFailed(ctxs) ==
  IF cmd.from = "load" THEN Throw(ctxs) ELSE ReturnError("Memory", ctxs)

(* MakeSpace(type, neededEntities) starts by choosing its victim.          *)
CallMakeSpace(type, retry) ==
  LET e == EntityToEvict(type, Pinned)
  IN cmd' = [cmd EXCEPT !.phase = "space", !.from = cmd.phase, !.type = type,
                        !.retry = retry, !.firstSeq = 0, !.victim = e,
                        !.victimHandle = IF e = 0 THEN NoHandle ELSE contexts[e].tpmHandle]

(* mutant of SaveOut: whatever was saved is flushed                        *)
SaveAndFlush(t, h) == Flush(AfterSave(t, h), {h})

(* An object stays in TPM memory when it is saved, so it is flushed too.   *)
SaveOut(t, h) == IF h \in SessHandles THEN AfterSave(t, h) ELSE Flush(AfterSave(t, h), {h})

(* mutant of Evicted: the blob that ContextSave returned is not stored     *)
EvictedWithOldBlob(x, b) == [x EXCEPT !.tpmHandle = NoHandle, !.isLoaded = FALSE]
Evicted(x, b) == [x EXCEPT !.context = b, !.tpmHandle = NoHandle, !.isLoaded = FALSE]

EvictVictim ==
  /\ cmd.phase = "space" /\ cmd.victim # 0
  /\ SaveRc(tpm, cmd.victimHandle) = "Success"
  /\ tpm' = SaveOut(tpm, cmd.victimHandle)
  /\ contexts' = [e \in DOMAIN contexts |->
       IF e = cmd.victim THEN Evicted(contexts[e], SavedBlob(tpm, cmd.victimHandle))
                         ELSE contexts[e]]
  /\ cmd' = [cmd EXCEPT !.phase = cmd.from, !.from = "idle", !.type = "NoSlot", !.firstSeq = 0,
                         !.victim = 0, !.victimHandle = NoHandle]
  /\ UNCHANGED <<useCount, created, result, resetting>>

(* mutant of NothingToEvict: MakeSpace reports success with no space made  *)
RetryForever ==
  /\ cmd.phase = "space"
  /\ \/ cmd.victim = 0
     \/ SaveRc(tpm, cmd.victimHandle) \notin {"Success", "ContextGap"}
  /\ cmd' = [cmd EXCEPT !.phase = cmd.from, !.from = "idle", !.type = "NoSlot", !.firstSeq = 0,
                         !.victim = 0, !.victimHandle = NoHandle]
  /\ UNCHANGED <<tpm, contexts, useCount, created, result, resetting>>

NothingToEvict ==
  /\ cmd.phase = "space"
  /\ \/ cmd.victim = 0
     \/ SaveRc(tpm, cmd.victimHandle) \notin {"Success", "ContextGap"}
  /\ MakeSpaceFailed(contexts)
  /\ UNCHANGED tpm

-----------------------------------------------------------------------------
(* ShortenSessionContextGap: reload and re-save a saved session            *)

SavedSessions == {e \in DOMAIN contexts :
                    contexts[e].slotType = "SessionSlot" /\ ~Loaded(contexts[e])}

(* GetOldestSavedSession: the first one in the list.                       *)
OldestSavedSession == IF SavedSessions = {} THEN 0 ELSE Min(SavedSessions)

(* The session is reloaded and saved again; it keeps the TPM handle that   *)
(* ContextLoad returned, although it is not loaded any more.               *)
CanShorten(first) ==
  LET b == contexts[OldestSavedSession].context
  IN /\ OldestSavedSession # 0
     /\ b.seq # first
     /\ LoadRc(tpm, b) = "Success"
     /\ SaveRc(AfterLoad(tpm, b, b.handle), b.handle) = "Success"

(* mutant of Resave: the blob that ContextSave returned is not stored      *)
ResaveWithOldBlob ==
  LET e == OldestSavedSession
      b == contexts[e].context
      t == AfterLoad(tpm, b, b.handle)
  IN /\ tpm' = AfterSave(t, b.handle)
     /\ contexts' = [contexts EXCEPT ![e].tpmHandle = b.handle]

Resave ==
  LET e == OldestSavedSession
      b == contexts[e].context
      t == AfterLoad(tpm, b, b.handle)
  IN /\ tpm' = AfterSave(t, b.handle)
     /\ contexts' = [contexts EXCEPT ![e].tpmHandle = b.handle,
                                     ![e].context = SavedBlob(t, b.handle)]

(* What an attempt that returns 0 leaves behind: nothing; a context with   *)
(* the default handle of a failed ContextLoad; or, when the re-save fails, *)
(* a session that stays loaded, with the empty blob of that ContextSave.   *)
FailedShorten(first) ==
  LET e == OldestSavedSession
      b == contexts[e].context
  IN IF e = 0 \/ (e # 0 /\ b.seq = first) THEN [t |-> tpm, ctxs |-> contexts]
     ELSE IF LoadRc(tpm, b) # "Success"
     THEN [t |-> tpm, ctxs |-> [contexts EXCEPT ![e].tpmHandle = RhNull]]
     ELSE [t |-> AfterLoad(tpm, b, b.handle),
           ctxs |-> [contexts EXCEPT ![e].tpmHandle = b.handle, ![e].isLoaded = TRUE,
                                     ![e].context = NoBlob]]

GapInMakeSpace ==
  cmd.phase = "space" /\ cmd.victim # 0 /\ SaveRc(tpm, cmd.victimHandle) = "ContextGap"

(* The first sequence number is remembered: meeting it again ends the loop.*)
ShortenInMakeSpace ==
  /\ GapInMakeSpace
  /\ CanShorten(cmd.firstSeq)
  /\ Resave
  /\ cmd' = [cmd EXCEPT !.firstSeq = IF @ = 0 THEN tpm.counter ELSE @]
  /\ UNCHANGED <<useCount, created, result, resetting>>

CannotShortenInMakeSpace ==
  /\ GapInMakeSpace
  /\ ~CanShorten(cmd.firstSeq)
  /\ tpm' = FailedShorten(cmd.firstSeq).t
  /\ MakeSpaceFailed(FailedShorten(cmd.firstSeq).ctxs)

-----------------------------------------------------------------------------
(* LoadEntities and LoadObject                                             *)

AtEntity == cmd.phase = "load" /\ cmd.at <= Len(cmd.need)

SkipLoaded ==
  /\ AtEntity /\ ~cmd.retry
  /\ IsLoaded(cmd.need[cmd.at])
  /\ cmd' = [cmd EXCEPT !.at = @ + 1]
  /\ UNCHANGED <<tpm, contexts, useCount, created, result, resetting>>

(* LoadObject is working on need[at]: it is not loaded, or an earlier try  *)
(* failed and left the default handle, which no longer looks unloaded.     *)
Loading == AtEntity /\ (cmd.retry \/ ~IsLoaded(cmd.need[cmd.at]))

LoadObject ==
  /\ Loading
  /\ LET e == cmd.need[cmd.at]
         b == contexts[e].context
     IN /\ LoadRc(tpm, b) = "Success"
        /\ \E h \in LoadHandles(tpm, b) :
             /\ tpm' = AfterLoad(tpm, b, h)
             /\ contexts' = [contexts EXCEPT ![e].tpmHandle = h, ![e].isLoaded = TRUE]
  /\ cmd' = [cmd EXCEPT !.at = @ + 1, !.retry = FALSE]
  /\ UNCHANGED <<useCount, created, result, resetting>>

(* ContextLoad failed, for whatever reason: try to make space and repeat.  *)
LoadObjectNeedsSpace ==
  /\ Loading
  /\ LET e == cmd.need[cmd.at]
     IN /\ LoadRc(tpm, contexts[e].context) # "Success"
        /\ contexts' = [contexts EXCEPT ![e].tpmHandle = RhNull]
        /\ CallMakeSpace(contexts[e].slotType, TRUE)
  /\ UNCHANGED <<tpm, useCount, created, result, resetting>>

(* ReplaceHandlesIn: the command buffer gets the TPM handles, once.        *)
AllLoaded ==
  /\ cmd.phase = "load" /\ cmd.at > Len(cmd.need)
  /\ cmd' = [cmd EXCEPT !.phase = "exec",
       !.phys = [i \in DOMAIN cmd.need |->
                   IF cmd.need[i] = Temporary THEN Perm
                                              ELSE contexts[cmd.need[i]].tpmHandle]]
  /\ UNCHANGED <<tpm, contexts, useCount, created, result, resetting>>

-----------------------------------------------------------------------------
(* The command loop                                                        *)

Executable == \A i \in DOMAIN cmd.phys : cmd.phys[i] \in {Perm, RhNull} \/ Resident(tpm, cmd.phys[i])
Touched == {EntityAt(tpm, cmd.phys[i]) : i \in DOMAIN cmd.phys} \ {NoEntity}

(* Every command may need a transient slot for intermediate results; only  *)
(* StartAuthSession needs a session slot.                                  *)
ResourceErrors ==
  (IF FreeSlots(tpm) = {} THEN {"ObjectMemory"} ELSE {}) \cup
  (IF cmd.cc = "StartAuthSession" THEN {StartSessionRc(tpm)} \ {"Success"} ELSE {})

(* The TPM refuses for a reason that has nothing to do with resources.     *)
ExecFails ==
  /\ cmd.phase = "exec"
  /\ ReturnError("Failure", contexts)
  /\ UNCHANGED tpm

ExecNeedsSpace ==
  /\ cmd.phase = "exec" /\ Executable
  /\ \E rc \in ResourceErrors \ {"ContextGap"} :
       CallMakeSpace(IF rc = "ObjectMemory" THEN "ObjectSlot" ELSE "SessionSlot", FALSE)
  /\ UNCHANGED <<tpm, contexts, useCount, created, result, resetting>>

ExecGap == cmd.phase = "exec" /\ Executable /\ "ContextGap" \in ResourceErrors

ShortenInDispatch ==
  /\ ExecGap
  /\ CanShorten(cmd.execSeq)
  /\ Resave
  /\ cmd' = [cmd EXCEPT !.execSeq = IF @ = 0 THEN tpm.counter ELSE @]
  /\ UNCHANGED <<useCount, created, result, resetting>>

CannotShortenInDispatch ==
  /\ ExecGap
  /\ ~CanShorten(cmd.execSeq)
  /\ tpm' = FailedShorten(cmd.execSeq).t
  /\ ReturnError("ContextGap", FailedShorten(cmd.execSeq).ctxs)

-----------------------------------------------------------------------------
(* A successful command: ProcessUpdatedTpmState and ReplaceHandlesOut      *)

(* mutant of FreeHandles: the TPM handle is handed out as it is            *)
SameHandle(c, h) == {h}

(* GetFreeHandle: the TPM handle itself unless the caller already has it   *)
(* for something else, otherwise a random one of the range.                *)
FreeHandles(c, h) ==
  IF Named(c, h) = {} THEN {h}
  ELSE {v \in VHandles : SlotType(v) = SlotType(h) /\ Named(c, v) = {}}

(* mutant of NewContext: it gets the UseCount before the current one       *)
NewContextUncounted(c, v, h) ==
  [owner |-> c, ownerHandle |-> v, slotType |-> SlotType(h), lastUseCount |-> useCount - 1,
   tpmHandle |-> h, isLoaded |-> TRUE, context |-> NoBlob]
NewContext(c, v, h) ==
  [owner |-> c, ownerHandle |-> v, slotType |-> SlotType(h), lastUseCount |-> useCount,
   tpmHandle |-> h, isLoaded |-> TRUE, context |-> NoBlob]

(* TbsHandleFromTpmHandle: the first context in the list, of any client,   *)
(* that has this TPM handle.                                               *)
TbsHandleFromTpmHandle(ctxs, h) == ctxs[Min({e \in DOMAIN ctxs : ctxs[e].tpmHandle = h})].ownerHandle

CreateEntity(h) ==
  /\ tpm' = AfterCreate(tpm, h, created + 1)
  /\ created' = created + 1
  /\ useCount' = useCount + 1
  /\ \E v \in FreeHandles(cmd.caller, h) :
       /\ contexts' = [e \in DOMAIN contexts \cup {created + 1} |->
            IF e \in DOMAIN contexts THEN contexts[e] ELSE NewContext(cmd.caller, v, h)]
       /\ Return([Reply("Success") EXCEPT !.handle = TbsHandleFromTpmHandle(contexts', h),
                                          !.touched = Touched])
  /\ UNCHANGED resetting

Load ==
  /\ cmd.phase = "exec" /\ cmd.cc = "Load" /\ Executable
  /\ \E h \in FreeSlots(tpm) : CreateEntity(h)

StartAuthSession ==
  /\ cmd.phase = "exec" /\ cmd.cc = "StartAuthSession" /\ Executable
  /\ StartSessionRc(tpm) = "Success"
  /\ \E h \in FreeSessHandles(tpm) : CreateEntity(h)

(* Every other command creates nothing.                                    *)
Succeed(cc, t, ctxs, rc) ==
  /\ cmd.phase = "exec" /\ cmd.cc = cc /\ Executable
  /\ tpm' = t
  /\ contexts' = ctxs
  /\ Return([Reply(rc) EXCEPT !.touched = Touched])
  /\ UNCHANGED <<useCount, created, resetting>>

Use == Succeed("Use", tpm, contexts, "Success")

(* A session without ContinueSession is flushed by the TPM on success; Tbs *)
(* does not look at the session attributes.                                *)
EndSession ==
  Succeed("EndSession", Flush(tpm, {cmd.phys[i] : i \in DOMAIN cmd.phys} \cap SessHandles),
          contexts, "Success")

(* The sequence object goes, and so does its context.                      *)
Complete(cc, i, E) ==
  /\ cmd.phase = "exec" /\ cmd.cc = cc /\ Resident(tpm, cmd.phys[i])
  /\ Succeed(cc, Flush(tpm, {cmd.phys[i]}), Remove(E), "Success")

(* mutant of SequenceComplete: the context stays in the list               *)
SequenceCompleteKept == Complete("SequenceComplete", 1, {})
SequenceComplete == Complete("SequenceComplete", 1, {cmd.need[1]})

(* mutant of EventSequenceComplete: the index of SequenceComplete          *)
EventSequenceCompleteFirst == Complete("EventSequenceComplete", 2, {cmd.need[1]})
EventSequenceComplete == Complete("EventSequenceComplete", 2, {cmd.need[2]})

(* The handle in the parameter area goes to the TPM as the client wrote it.*)
(* Then Remove(inputObjects[0]) indexes an empty array.                    *)
FlushContext ==
  /\ Flushable(tpm, cmd.arg)
  /\ Succeed("FlushContext", Flush(tpm, {cmd.arg}), contexts, "throw")

(* ContextSave gets a NotUsed response that is then overwritten: the TPM   *)
(* executes the command and ProcessUpdatedTpmState throws.                 *)
ContextSave ==
  /\ cmd.phase = "exec" /\ cmd.cc = "ContextSave" /\ SaveRc(tpm, cmd.phys[1]) = "Success"
  /\ Succeed("ContextSave", AfterSave(tpm, cmd.phys[1]), contexts, "throw")

(* ContextLoad is refused in the same way: an object that was saved before *)
(* Tbs took over the TPM fills a slot, and no context is made for it.      *)
ContextLoad ==
  /\ cmd.phase = "exec" /\ cmd.cc = "ContextLoad"
  /\ \E h \in FreeSlots(tpm) : tpm' = AfterCreate(tpm, h, created + 1)
  /\ created' = created + 1
  /\ Return(Reply("throw"))
  /\ UNCHANGED <<contexts, useCount, resetting>>

(* ProcessTpmClear(caller, SessionSlot): the caller's objects go.          *)
Clear ==
  Succeed("Clear", AfterClear(tpm),
          Remove({e \in OwnedBy(cmd.caller) : contexts[e].slotType # "SessionSlot"}), "Success")

-----------------------------------------------------------------------------
(* Entry points other than DispatchCommand                                 *)

(* DisposeContext: flush what is loaded, forget everything.                *)
Dispose(c) ==
  /\ cmd = NoCmd /\ "Dispose" \in Ops
  /\ tpm' = Flush(tpm, {contexts[e].tpmHandle : e \in {f \in OwnedBy(c) : Loaded(contexts[f])}})
  /\ contexts' = Remove(OwnedBy(c))
  /\ result' = NoResult
  /\ UNCHANGED <<useCount, created, cmd, resetting>>

(* TbsContext.PowerCycle: the device is cycled under the lock, ...         *)
PowerCycle(c) ==
  /\ cmd = NoCmd /\ "PowerCycle" \in Ops /\ c \notin resetting
  /\ tpm.epoch < MaxResets
  /\ tpm' = AfterReset(tpm)
  /\ resetting' = resetting \cup {c}
  /\ result' = NoResult
  /\ UNCHANGED <<contexts, useCount, created, cmd>>

(* ... and the caller's contexts are dropped outside of it.                *)
ProcessTpmClear(c) ==
  /\ c \in resetting
  /\ resetting' = resetting \ {c}
  /\ contexts' = Remove(OwnedBy(c))
  /\ UNCHANGED <<tpm, useCount, created, cmd, result>>

(* StateSaveAndReload saves every loaded context in list order; a failing  *)
(* ContextSave throws in the middle.                                       *)
StartStateSave ==
  /\ cmd = NoCmd /\ "StateSave" \in Ops
  /\ tpm.counter <= MaxSaves
  /\ cmd' = [NoCmd EXCEPT !.phase = "state"]
  /\ result' = NoResult
  /\ UNCHANGED <<tpm, contexts, useCount, created, resetting>>

LoadedContexts == {e \in DOMAIN contexts : Loaded(contexts[e])}

ContextSaveNext ==
  /\ cmd.phase = "state" /\ LoadedContexts # {}
  /\ LET e == Min(LoadedContexts)
         h == contexts[e].tpmHandle
     IN /\ SaveRc(tpm, h) = "Success"
        /\ tpm' = SaveOut(tpm, h)
        /\ contexts' = [contexts EXCEPT ![e] = Evicted(@, SavedBlob(tpm, h))]
  /\ UNCHANGED <<useCount, created, cmd, result, resetting>>

ContextSaveThrows ==
  /\ cmd.phase = "state" /\ LoadedContexts # {}
  /\ SaveRc(tpm, contexts[Min(LoadedContexts)].tpmHandle) # "Success"
  /\ Throw(contexts)
  /\ UNCHANGED tpm

(* Shutdown(State), power cycle, Startup.  Without a power cycle the TPM   *)
(* carries on as it was.                                                   *)
StateSaveDone ==
  /\ cmd.phase = "state" /\ LoadedContexts = {}
  /\ tpm' \in {tpm, AfterResume(tpm)}
  /\ cmd' = NoCmd
  /\ UNCHANGED <<contexts, useCount, created, result, resetting>>

-----------------------------------------------------------------------------
HandleLists == UNION {[1 .. n -> VHandles \cup {Perm}] : n \in 0 .. MaxRefs}

Init ==
  /\ tpm = EmptyTpm           \* CleanTpm, in the constructor
  /\ contexts = <<>>
  /\ useCount = 0
  /\ created = 0
  /\ cmd = NoCmd
  /\ result = NoResult
  /\ resetting = {}

DispatchStep ==
  \/ SkipLoaded \/ LoadObject \/ LoadObjectNeedsSpace \/ AllLoaded
  \/ EvictVictim \/ NothingToEvict \/ ShortenInMakeSpace \/ CannotShortenInMakeSpace
  \/ ExecFails \/ ExecNeedsSpace \/ ShortenInDispatch \/ CannotShortenInDispatch
  \/ Load \/ StartAuthSession \/ Use \/ EndSession \/ SequenceComplete
  \/ EventSequenceComplete \/ FlushContext \/ ContextSave \/ ContextLoad \/ Clear

StateSaveStep == ContextSaveNext \/ ContextSaveThrows \/ StateSaveDone

ClientStep(c) ==
  \/ \E cc \in Ops \cap Commands, hs \in HandleLists :
       RejectUnknown(c, cc, hs) \/ \E arg \in Args(cc) : Begin(c, cc, hs, arg)
  \/ Dispose(c) \/ PowerCycle(c) \/ ProcessTpmClear(c)

Next ==
  \/ DispatchStep
  \/ StartStateSave \/ StateSaveStep
  \/ \E c \in Clients : ClientStep(c)

Spec == Init /\ [][Next]_vars

(* A thread that holds the lock keeps running.                             *)
FairSpec == Spec /\ WF_vars(DispatchStep \/ StateSaveStep)

-----------------------------------------------------------------------------
(* Properties                                                              *)

CmdRecords ==
  [phase : {"idle", "load", "exec", "space", "state"}, caller : Clients \cup {NoClient},
   cc : Commands \cup {"none"},
   arg : VHandles \cup {NoHandle}, need : Seq(Nat), at : Nat \ {0}, retry : BOOLEAN,
   phys : Seq(TpmHandles \cup {Perm, RhNull, NoHandle}), from : {"idle", "load", "exec"},
   victim : Nat, victimHandle : TpmHandles \cup {RhNull, NoHandle},
   type : {"NoSlot", "ObjectSlot", "SessionSlot"}, firstSeq : Nat, execSeq : Nat]

ResponseCodes == {"none", "Success", "Failure", "Memory", "ContextGap", "Handle", "throw"}
Results ==
  [caller : Clients \cup {NoClient}, rc : ResponseCodes, handle : VHandles \cup {NoHandle},
   touched : SUBSET Nat]

(* Every variable has its type, and the list holds contexts of created     *)
(* entities only.                                                          *)
TypeOK ==
  /\ tpm \in TpmStates
  /\ useCount \in Nat /\ created \in Nat
  /\ contexts \in [DOMAIN contexts -> ObjectContext]
  /\ DOMAIN contexts \subseteq 1 .. created
  /\ cmd \in CmdRecords
  /\ result \in Results
  /\ resetting \subseteq Clients

(* What Tbs.CheckConsistency asserts whenever no command is in progress:   *)
(* the loaded contexts are just the entities in TPM memory, and the other  *)
(* sessions are just those the TPM tracks as saved.                        *)
CheckConsistency ==
  cmd = NoCmd =>
    LET Of(type, ld) == {e \in DOMAIN contexts :
                           contexts[e].slotType = type /\ Loaded(contexts[e]) = ld}
    IN /\ \A e \in Of("ObjectSlot", TRUE) : contexts[e].tpmHandle \in ObjHandles \ FreeSlots(tpm)
       /\ \A e \in Of("SessionSlot", TRUE) : contexts[e].tpmHandle \in tpm.loaded
       /\ \A e \in Of("SessionSlot", FALSE) : contexts[e].context.handle \in SavedSessHandles(tpm)
       /\ Cardinality(Of("ObjectSlot", TRUE)) = Cardinality(ObjHandles \ FreeSlots(tpm))
       /\ Cardinality(Of("SessionSlot", TRUE)) = Cardinality(tpm.loaded)
       /\ Cardinality(Of("SessionSlot", FALSE)) = Cardinality(SavedSessHandles(tpm))

(* The command buffer is built once, before the loop that retries it while *)
(* other entities are evicted, reloaded and re-saved: all along, each      *)
(* handle in it still reaches the entity that the client meant.  (Or it is *)
(* TPM_RH_NULL, after a ContextLoad that failed in an earlier command.)    *)
BufferHandlesStayValid ==
  cmd.phys # <<>> =>
    \A i \in DOMAIN cmd.need :
      cmd.need[i] # Temporary =>
        cmd.phys[i] = RhNull \/ EntityAt(tpm, cmd.phys[i]) = cmd.need[i]

(* No entity is lost: a context that is not marked as loaded, not even one *)
(* with the default handle of a failed ContextLoad, has a blob of that     *)
(* very entity, which the TPM will accept as soon as there is room.        *)
NothingLost ==
  \A e \in DOMAIN contexts :
    ~contexts[e].isLoaded =>
      /\ contexts[e].context.ent = e
      /\ LoadRc(tpm, contexts[e].context) \notin {"Handle", "Integrity"}

(* Two contexts never claim the same TPM handle.                           *)
LoadedApart ==
  \A e, f \in DOMAIN contexts :
    /\ e # f /\ Loaded(contexts[e]) /\ Loaded(contexts[f])
    /\ contexts[e].tpmHandle # RhNull
    => contexts[e].tpmHandle # contexts[f].tpmHandle

(* A dispatch gives up for want of space only if every entity of that type *)
(* in TPM memory is used by the very command.                              *)
SpaceFailsOnlyIfAllPinned ==
  [][ NothingToEvict \/ CannotShortenInMakeSpace =>
        \A h \in TpmHandles : SlotType(h) = cmd.type /\ Resident(tpm, h)
                                => EntityAt(tpm, h) \in Pinned ]_vars

(* A client never has two entities under one virtual handle: GetContext    *)
(* would find the first of them for good.                                  *)
DistinctNames ==
  \A e, f \in DOMAIN contexts :
    /\ contexts[e].owner = contexts[f].owner
    /\ contexts[e].ownerHandle = contexts[f].ownerHandle
    => e = f

(* The lock is given back: the loops over ContextLoad, ContextSave and the *)
(* retried command all end.                                                *)
DispatchEnds == (cmd.phase # "idle") ~> (cmd.phase = "idle")

(* Each client sees a private TPM.                                         *)
View == {[client |-> contexts[e].owner, handle |-> contexts[e].ownerHandle, ent |-> e] :
           e \in DOMAIN contexts}
Response == [caller |-> IF result.rc = "none" THEN NoClient ELSE result.caller,
             handle |-> result.handle, touched |-> result.touched]
Private == INSTANCE PrivateTpm WITH Handles <- VHandles, view <- View, response <- Response
PrivateSpec == Private!Spec

-----------------------------------------------------------------------------
(* What the comments and assertions of the code say and the code does not  *)
(* do; each is the property of a run that TLC refutes.                     *)

Existing(t) == ({t.slot[h] : h \in ObjHandles} \cup {t.sess[h] : h \in SessHandles}) \ {NoEntity}
Vanished == Existing(tpm) \ Existing(tpm')

(* "If the command references a handle (session or transient object), ...  *)
(* the handle is translated": flushing an own handle flushes the entity    *)
(* that it names.                                                          *)
FlushIsTranslated ==
  [][ FlushContext => Vanished \subseteq Named(cmd.caller, cmd.arg) \/ Named(cmd.caller, cmd.arg) = {} ]_vars
=============================================================================
