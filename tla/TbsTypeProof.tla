---------------------------- MODULE TbsTypeProof ----------------------------
(***************************************************************************)
(* TypeOK is an invariant of the resource manager, for any number of       *)
(* clients, handles and slots and whatever the clients do.  It is not      *)
(* inductive by itself: a command refers to contexts by number, and an     *)
(* eviction or a reload needs to know what kind of handle and of blob it   *)
(* will find there.                                                        *)
(*                                                                         *)
(* The second half of the module is about the names that clients use.      *)
(*                                                                         *)
(* The module begins with facts about Min and Max and about the operators  *)
(* of TpmResources that all the proofs of the resource manager rest on.    *)
(***************************************************************************)
EXTENDS TbsSlots, FiniteSetsExt, SequenceTheorems, WellFoundedInduction, TLAPS

-----------------------------------------------------------------------------
(* Least and greatest elements.  The list of contexts is searched from its *)
(* start, which is a Min over the numbers of the contexts.                 *)

NatLess == {p \in Nat \X Nat : p[1] < p[2]}

(* The order of the natural numbers is well-founded.                       *)
LEMMA NatLessIsWellFounded == IsWellFoundedOn(NatLess, Nat)
BY NatLessThanWellFounded DEF OpToRel, NatLess

(* A non-empty set of natural numbers has a least element.                 *)
LEMMA Least ==
  ASSUME NEW S, S \subseteq Nat, S # {}
  PROVE  \E m \in S : \A x \in S : m <= x
<1>1. PICK m \in S : \A y \in S : ~ (<<y, m>> \in NatLess)
  BY NatLessIsWellFounded, WFMin
<1>2. ASSUME NEW y \in S PROVE m <= y
  <2>1. y \in Nat /\ m \in Nat
    OBVIOUS
  <2>2. <<y, m>> \in NatLess <=> y < m
    BY <2>1 DEF NatLess
  <2> QED BY <1>1, <2>1, <2>2
<1> QED BY <1>2

(* Min of such a set is that element ...                                   *)
LEMMA MinInSet ==
  ASSUME NEW S, S \subseteq Nat, S # {}
  PROVE  Min(S) \in S /\ \A x \in S : Min(S) <= x
BY Least DEF Min

(* ... and Max of a non-empty set with an upper bound is in the set.       *)
LEMMA MaxInSet ==
  ASSUME NEW n \in Nat, NEW S, S \subseteq 0 .. n, S # {}
  PROVE  Max(S) \in S /\ \A x \in S : x <= Max(S)
<1> DEFINE T == {n - x : x \in S}
<1>1. T \subseteq Nat
  <2>1. \A x \in S : n - x \in Nat
    OBVIOUS
  <2> QED BY <2>1
<1>2. T # {}
  OBVIOUS
<1>3. PICK m \in T : \A y \in T : m <= y
  BY <1>1, <1>2, Least
<1>4. PICK x \in S : m = n - x
  OBVIOUS
<1>5. \A y \in S : x >= y
  <2> TAKE y \in S
  <2>1. n - y \in T
    OBVIOUS
  <2>2. n - x <= n - y
    BY <1>3, <1>4, <2>1
  <2> HIDE DEF T
  <2>3. n \in Int /\ x \in Int /\ y \in Int
    OBVIOUS
  <2> QED BY <2>2, <2>3
<1> QED BY <1>5 DEF Max

-----------------------------------------------------------------------------
(* The TPM operators keep the TPM state well-typed.                        *)

(* What a handle reaches is an entity number.                              *)
LEMMA EntityAtType ==
  ASSUME NEW t \in TpmStates, NEW h
  PROVE  EntityAt(t, h) \in Nat
BY DEF EntityAt, TpmStates, NoEntity

(* Only a TPM handle reaches an entity.                                    *)
LEMMA ResidentHandle ==
  ASSUME NEW t \in TpmStates, NEW h, Resident(t, h)
  PROVE  h \in TpmHandles
BY DEF Resident, EntityAt, TpmStates, NoEntity, TpmHandles

(* ContextSave leads from a TPM state to a TPM state.                      *)
LEMMA AfterSaveType ==
  ASSUME NEW t \in TpmStates, NEW h
  PROVE  AfterSave(t, h) \in TpmStates
<1>1. CASE h \notin SessHandles
  BY <1>1 DEF AfterSave
<1>2. CASE h \in SessHandles
  <2>1. [t.seq EXCEPT ![h] = t.counter] \in [SessHandles -> Nat]
    BY DEF TpmStates
  <2>2. AfterSave(t, h) =
          [slot |-> t.slot, sess |-> t.sess, loaded |-> t.loaded \ {h},
           seq |-> [t.seq EXCEPT ![h] = t.counter], counter |-> t.counter + 1,
           epoch |-> t.epoch]
    BY <1>2 DEF AfterSave, TpmStates
  <2> QED BY <2>1, <2>2 DEF TpmStates
<1> QED BY <1>1, <1>2

(* So does ContextLoad.                                                    *)
LEMMA AfterLoadType ==
  ASSUME NEW t \in TpmStates, NEW b \in Blobs, NEW h \in TpmHandles
  PROVE  AfterLoad(t, b, h) \in TpmStates
BY DEF AfterLoad, TpmStates, Blobs, TpmHandles

(* So do the commands that fill a slot.                                    *)
LEMMA AfterCreateType ==
  ASSUME NEW t \in TpmStates, NEW h \in TpmHandles, NEW e \in Nat
  PROVE  AfterCreate(t, h, e) \in TpmStates
BY DEF AfterCreate, TpmStates, TpmHandles

(* So does FlushContext.                                                   *)
LEMMA FlushType ==
  ASSUME NEW t \in TpmStates, NEW H
  PROVE  Flush(t, H) \in TpmStates
BY DEF Flush, TpmStates, NoEntity

(* So do TPM2_Clear and the power cycles.                                  *)
LEMMA ClearResumeResetType ==
  ASSUME NEW t \in TpmStates
  PROVE  /\ AfterClear(t) \in TpmStates
         /\ AfterResume(t) \in TpmStates
         /\ AfterReset(t) \in TpmStates
<1>1. ASSUME NEW u \in TpmStates PROVE AfterClear(u) \in TpmStates
  BY FlushType DEF AfterClear, TpmStates
<1>2. AfterResume(t) \in TpmStates
  BY FlushType DEF AfterResume
<1>3. AfterReset(t) \in TpmStates
  <2>1. AfterClear(Flush(t, SessHandles)) \in TpmStates
    BY <1>1, FlushType
  <2> QED BY <2>1 DEF AfterReset, TpmStates
<1> QED BY <1>1, <1>2, <1>3

(* A successful ContextSave was of something in TPM memory, and its blob   *)
(* holds that very entity, under its own handle if it is a session.        *)
LEMMA SavedBlobType ==
  ASSUME NEW t \in TpmStates, NEW h, SaveRc(t, h) = "Success"
  PROVE  /\ h \in TpmHandles
         /\ Resident(t, h)
         /\ SavedBlob(t, h) \in Blobs
         /\ SavedBlob(t, h).ent = EntityAt(t, h)
         /\ SavedBlob(t, h).handle = IF h \in SessHandles THEN h ELSE "Transient"
<1>1. Resident(t, h)
  BY DEF SaveRc
<1>2. h \in TpmHandles
  BY <1>1, ResidentHandle
<1>3. EntityAt(t, h) \in Nat
  BY EntityAtType
<1>4. h \in SessHandles => EntityAt(t, h) = t.sess[h]
  BY <1>1, ResourceAssumption DEF EntityAt, Resident
<1>5. t.counter \in Nat /\ t.epoch \in Nat
  BY DEF TpmStates
<1> QED BY <1>1, <1>2, <1>3, <1>4, <1>5 DEF SavedBlob, Blobs

(* A successful ContextLoad gives an object a slot and a session its own   *)
(* handle, which was not loaded before.                                    *)
LEMMA LoadHandlesType ==
  ASSUME NEW t \in TpmStates, NEW b \in Blobs, LoadRc(t, b) = "Success",
         NEW h \in LoadHandles(t, b)
  PROVE  /\ h \in TpmHandles
         /\ h \notin SessHandles <=> b.handle = "Transient"
         /\ ~Resident(t, h)
         /\ h \in SessHandles => h = b.handle /\ t.sess[h] = b.ent /\ h \notin t.loaded
<1>1. CASE b.handle = "Transient"
  <2>1. h \in ObjHandles /\ t.slot[h] = NoEntity
    BY <1>1 DEF LoadHandles, FreeSlots
  <2> QED BY <1>1, <2>1, ResourceAssumption DEF TpmHandles, Resident, EntityAt
<1>2. CASE b.handle # "Transient"
  <2>1. h = b.handle /\ h \in SavedSessHandles(t) /\ t.sess[h] = b.ent
    BY <1>2 DEF LoadHandles, LoadRc
  <2>2. h \in SessHandles /\ h \notin t.loaded /\ h \notin ObjHandles
    BY <2>1, ResourceAssumption DEF SavedSessHandles
  <2> QED BY <1>2, <2>1, <2>2 DEF TpmHandles, Resident, EntityAt
<1> QED BY <1>1, <1>2

-----------------------------------------------------------------------------
(* The inductive invariant                                                 *)

(* Handle and blob of a context are of the kind of its slot; a context     *)
(* without an entity in TPM memory has been saved.                         *)
RightKind(x) ==
  /\ x.isLoaded => x.tpmHandle \in TpmHandles
  /\ x.tpmHandle \in TpmHandles => SlotType(x.tpmHandle) = x.slotType
  /\ ~x.isLoaded /\ x.slotType = "SessionSlot" => x.context.handle \in SessHandles
  /\ ~x.isLoaded /\ x.slotType = "ObjectSlot" => x.context.handle = "Transient"

ContextsInv == \A e \in DOMAIN contexts : RightKind(contexts[e])

(* The contexts that a command needs stay in the list while it runs.       *)
NeedInv ==
  \A i \in DOMAIN cmd.need :
    cmd.need[i] # Temporary =>
      cmd.need[i] \in DOMAIN contexts /\ contexts[cmd.need[i]].owner = cmd.caller

RetryInv ==
  cmd.retry =>
    /\ cmd.at \in DOMAIN cmd.need
    /\ cmd.need[cmd.at] # Temporary
    /\ ~contexts[cmd.need[cmd.at]].isLoaded

VictimInv ==
  cmd.phase = "space" /\ cmd.victim \in DOMAIN contexts =>
    /\ cmd.victimHandle = contexts[cmd.victim].tpmHandle
    /\ Loaded(contexts[cmd.victim])

PhaseInv ==
  /\ cmd.phase = "idle" => cmd = NoCmd
  /\ cmd.phase = "state" => cmd = [NoCmd EXCEPT !.phase = "state"]
  /\ cmd.phase \in {"load", "exec", "space"} => cmd.caller \in Clients
  /\ cmd.phase = "space" => cmd.from \in {"load", "exec"}
  /\ cmd.caller \notin resetting

DispatchInv == NeedInv /\ RetryInv /\ VictimInv /\ PhaseInv

IInv == TypeOK /\ ContextsInv /\ DispatchInv

-----------------------------------------------------------------------------
(* Single contexts                                                         *)

(* RhNull and NoHandle are no TPM handles, and SlotTypeFromHandle tells    *)
(* transient from session handles.                                         *)
LEMMA HandleKinds ==
  /\ \A h \in ObjHandles : SlotType(h) = "ObjectSlot"
  /\ \A h \in SessHandles : SlotType(h) = "SessionSlot"
  /\ TpmHandles \subseteq VHandles
  /\ RhNull \notin TpmHandles /\ NoHandle \notin TpmHandles /\ Perm \notin TpmHandles
BY ResourceAssumption, TbsAssumption DEF SlotType, TpmHandles, VHandles

(* An evicted context is well-formed.                                      *)
LEMMA EvictedKind ==
  ASSUME NEW t \in TpmStates, NEW x \in ObjectContext, RightKind(x),
         SaveRc(t, x.tpmHandle) = "Success"
  PROVE  /\ Evicted(x, SavedBlob(t, x.tpmHandle)) \in ObjectContext
         /\ RightKind(Evicted(x, SavedBlob(t, x.tpmHandle)))
         /\ ~Loaded(Evicted(x, SavedBlob(t, x.tpmHandle)))
<1> DEFINE b == SavedBlob(t, x.tpmHandle)
           y == Evicted(x, b)
<1>1. b \in Blobs /\ x.tpmHandle \in TpmHandles
      /\ b.handle = IF x.tpmHandle \in SessHandles THEN x.tpmHandle ELSE "Transient"
  BY SavedBlobType
<1>2. x.slotType = "SessionSlot" <=> x.tpmHandle \in SessHandles
  BY <1>1, HandleKinds DEF RightKind, TpmHandles
<1> HIDE DEF b
<1>3. y \in ObjectContext /\ y.isLoaded = FALSE /\ y.tpmHandle = NoHandle
      /\ y.slotType = x.slotType /\ y.context = b
  BY <1>1 DEF Evicted, ObjectContext
<1> HIDE DEF y
<1>4. RightKind(y)
  BY <1>1, <1>2, <1>3, HandleKinds DEF RightKind
<1>5. ~Loaded(y)
  BY <1>3, TbsAssumption DEF Loaded
<1> QED BY <1>3, <1>4, <1>5 DEF y, b

(* A context that was given a handle of its kind by ContextLoad is well-   *)
(* formed.                                                                 *)
LEMMA LoadedKind ==
  ASSUME NEW t \in TpmStates, NEW x \in ObjectContext, RightKind(x), ~x.isLoaded,
         LoadRc(t, x.context) = "Success", NEW h \in LoadHandles(t, x.context)
  PROVE  /\ h \in TpmHandles
         /\ SlotType(h) = x.slotType
         /\ [x EXCEPT !.tpmHandle = h, !.isLoaded = TRUE] \in ObjectContext
         /\ RightKind([x EXCEPT !.tpmHandle = h, !.isLoaded = TRUE])
<1>1. x.context \in Blobs /\ x.slotType \in {"ObjectSlot", "SessionSlot"}
  BY DEF ObjectContext
<1>2. h \in TpmHandles /\ (h \notin SessHandles <=> x.context.handle = "Transient")
  BY <1>1, LoadHandlesType
<1>3. SlotType(h) = x.slotType
  BY <1>1, <1>2, HandleKinds, ResourceAssumption DEF RightKind, TpmHandles
<1>4. [x EXCEPT !.tpmHandle = h, !.isLoaded = TRUE] \in ObjectContext
  BY <1>2 DEF ObjectContext
<1>5. RightKind([x EXCEPT !.tpmHandle = h, !.isLoaded = TRUE])
  BY <1>2, <1>3 DEF RightKind, ObjectContext
<1> QED BY <1>2, <1>3, <1>4, <1>5

(* So is a context that ContextLoad left with TPM_RH_NULL.                 *)
LEMMA NullKind ==
  ASSUME NEW x \in ObjectContext, RightKind(x), ~x.isLoaded
  PROVE  /\ [x EXCEPT !.tpmHandle = RhNull] \in ObjectContext
         /\ RightKind([x EXCEPT !.tpmHandle = RhNull])
         /\ Loaded([x EXCEPT !.tpmHandle = RhNull])
BY HandleKinds, TbsAssumption DEF RightKind, ObjectContext, Loaded

(* So is a new one.                                                        *)
LEMMA NewKind ==
  ASSUME NEW c \in Clients, NEW h \in TpmHandles, NEW v \in FreeHandles(c, h), useCount \in Nat
  PROVE  /\ NewContext(c, v, h) \in ObjectContext
         /\ RightKind(NewContext(c, v, h))
         /\ NewContext(c, v, h).tpmHandle = h
<1>1. v \in VHandles
  BY HandleKinds DEF FreeHandles
<1>2. SlotType(h) \in {"ObjectSlot", "SessionSlot"}
  BY HandleKinds DEF TpmHandles
<1>3. NoBlob \in Blobs
  BY DEF NoBlob, Blobs, NoEntity
<1>4. NewContext(c, v, h) \in ObjectContext
  BY <1>1, <1>2, <1>3 DEF NewContext, ObjectContext
<1>5. RightKind(NewContext(c, v, h)) /\ NewContext(c, v, h).tpmHandle = h
  BY DEF NewContext, RightKind
<1> QED BY <1>4, <1>5

(* A context that does not look loaded is not, and has no TPM_RH_NULL      *)
(* handle.                                                                 *)
LEMMA NotLoadedKind ==
  ASSUME NEW x \in ObjectContext, RightKind(x), ~Loaded(x)
  PROVE  ~x.isLoaded /\ x.tpmHandle # RhNull
BY HandleKinds, TbsAssumption DEF RightKind, Loaded

-----------------------------------------------------------------------------
(* Commands that return, and the fields of the command record              *)

(* The record for no command and the one for no result are well-typed.     *)
LEMMA NoCmdType == NoCmd \in CmdRecords /\ NoResult \in Results
<1>1. NoCmd \in CmdRecords
  BY EmptySeq DEF NoCmd, CmdRecords, Commands
<1>2. NoResult \in Results
  BY DEF NoResult, Results, ResponseCodes
<1> QED BY <1>1, <1>2

(* A reply is a well-typed result.                                         *)
LEMMA ReplyType ==
  ASSUME cmd \in CmdRecords, NEW rc \in ResponseCodes
  PROVE  Reply(rc) \in Results
BY DEF Reply, CmdRecords, Results

(* Nothing is left of a command that has returned.                         *)
LEMMA IdleKeeps ==
  ASSUME cmd' = NoCmd, resetting' \subseteq Clients
  PROVE  DispatchInv'
<1>1. DOMAIN cmd'.need = {} /\ cmd'.retry = FALSE /\ cmd'.phase = "idle"
      /\ cmd'.caller = NoClient
  BY DEF NoCmd
<1>2. NeedInv'
  BY <1>1 DEF NeedInv
<1>3. RetryInv' /\ VictimInv' /\ PhaseInv'
  BY <1>1, TbsAssumption DEF RetryInv, VictimInv, PhaseInv
<1> QED BY <1>2, <1>3 DEF DispatchInv

(* Replacing one context by another of the right kind and the same owner.  *)
LEMMA ReplaceOne ==
  ASSUME IInv, NEW e \in DOMAIN contexts, NEW x \in ObjectContext, RightKind(x),
         x.owner = contexts[e].owner, contexts' = [contexts EXCEPT ![e] = x]
  PROVE  /\ DOMAIN contexts' = DOMAIN contexts
         /\ contexts' \in [DOMAIN contexts' -> ObjectContext]
         /\ ContextsInv'
         /\ \A f \in DOMAIN contexts : contexts'[f].owner = contexts[f].owner
         /\ contexts'[e] = x
         /\ \A f \in DOMAIN contexts : f # e => contexts'[f] = contexts[f]
<1>1. contexts \in [DOMAIN contexts -> ObjectContext]
  BY DEF IInv, TypeOK
<1>2. contexts' = [f \in DOMAIN contexts |-> IF f = e THEN x ELSE contexts[f]]
  BY <1>1
<1>3. ContextsInv'
  BY <1>2 DEF IInv, ContextsInv
<1> QED BY <1>1, <1>2, <1>3

(* A step that leaves the needed contexts where they are.                  *)
LEMMA NeedKeeps ==
  ASSUME NeedInv, cmd'.need = cmd.need, cmd'.caller = cmd.caller,
         DOMAIN contexts' = DOMAIN contexts,
         \A f \in DOMAIN contexts : contexts'[f].owner = contexts[f].owner
  PROVE  NeedInv'
BY DEF NeedInv

-----------------------------------------------------------------------------
(* DispatchCommand: parsing and lookup                                     *)

(* Begin keeps the invariant.                                              *)
LEMMA BeginKeeps ==
  ASSUME IInv, NEW c \in Clients, NEW cc \in Ops \cap Commands, NEW hs \in HandleLists,
         NEW arg \in Args(cc), Begin(c, cc, hs, arg)
  PROVE  IInv'
<1> DEFINE need == [i \in DOMAIN hs |-> GetContext(c, hs[i])]
<1>1. /\ cmd = NoCmd /\ c \notin resetting
      /\ \A i \in DOMAIN hs : ~Unknown(c, hs[i])
      /\ cmd' = [NoCmd EXCEPT !.phase = "load", !.caller = c, !.cc = cc, !.arg = arg,
                              !.need = need]
      /\ result' = NoResult
      /\ UNCHANGED <<tpm, contexts, useCount, created, resetting>>
  BY DEF Begin
<1>2. DOMAIN contexts \subseteq Nat
  BY DEF IInv, TypeOK
<1>3. ASSUME NEW i \in DOMAIN hs
      PROVE  /\ GetContext(c, hs[i]) \in Nat
             /\ GetContext(c, hs[i]) # Temporary =>
                  GetContext(c, hs[i]) \in DOMAIN contexts /\ contexts[GetContext(c, hs[i])].owner = c
  <2>1. CASE SlotType(hs[i]) = "NoSlot"
    BY <2>1 DEF GetContext, Temporary
  <2>2. CASE SlotType(hs[i]) # "NoSlot"
    <3>1. Named(c, hs[i]) # {} /\ Named(c, hs[i]) \subseteq Nat
      BY <1>1, <1>2, <2>2 DEF Unknown, Named
    <3>2. GetContext(c, hs[i]) \in Named(c, hs[i])
      BY <2>2, <3>1, MinInSet DEF GetContext
    <3> QED BY <1>2, <3>2 DEF Named
  <2> QED BY <2>1, <2>2
<1>4. PICK n \in Nat : DOMAIN hs = 1 .. n
  BY TbsAssumption DEF HandleLists
<1>5. need \in Seq(Nat)
  BY <1>3, <1>4, IsASeq
<1>6. arg \in VHandles \cup {NoHandle}
  BY DEF Args
<1> HIDE DEF need
<1>7. /\ cmd'.phase = "load" /\ cmd'.caller = c /\ cmd'.need = need /\ cmd'.retry = FALSE
  BY <1>1 DEF NoCmd
<1>8. cmd' \in CmdRecords
  BY <1>1, <1>5, <1>6, NoCmdType DEF CmdRecords
<1>9. TypeOK'
  BY <1>1, <1>8, NoCmdType DEF IInv, TypeOK
<1>10. ContextsInv'
  BY <1>1 DEF IInv, ContextsInv
<1>11. NeedInv'
  BY <1>1, <1>3, <1>7 DEF NeedInv, need
<1>12. RetryInv' /\ VictimInv' /\ PhaseInv'
  BY <1>1, <1>7 DEF RetryInv, VictimInv, PhaseInv
<1> QED BY <1>9, <1>10, <1>11, <1>12 DEF IInv, DispatchInv

(* RejectUnknown keeps the invariant.                                      *)
LEMMA RejectUnknownKeeps ==
  ASSUME IInv, NEW c \in Clients, NEW cc, NEW hs, RejectUnknown(c, cc, hs)
  PROVE  IInv'
<1>1. /\ result' = [NoResult EXCEPT !.caller = c, !.rc = "Handle"]
      /\ UNCHANGED <<tpm, contexts, useCount, created, cmd, resetting>>
  BY DEF RejectUnknown
<1>2. result' \in Results
  BY <1>1, NoCmdType DEF Results, ResponseCodes
<1>3. TypeOK'
  BY <1>1, <1>2 DEF IInv, TypeOK
<1>4. ContextsInv' /\ DispatchInv'
  BY <1>1 DEF IInv, ContextsInv, DispatchInv, NeedInv, RetryInv, VictimInv, PhaseInv, Loaded
<1> QED BY <1>3, <1>4 DEF IInv

-----------------------------------------------------------------------------
(* Returning                                                               *)

(* A list of contexts that may replace the current one.                    *)
GoodList(ctxs) ==
  /\ ctxs \in [DOMAIN ctxs -> ObjectContext]
  /\ DOMAIN ctxs \subseteq 1 .. created
  /\ \A e \in DOMAIN ctxs : RightKind(ctxs[e])

(* The list of contexts as it is can be handed to the error paths.         *)
LEMMA CurrentList == IInv => GoodList(contexts)
BY DEF IInv, TypeOK, ContextsInv, GoodList

(* So can the list without some of its contexts.                           *)
LEMMA RemoveList ==
  ASSUME IInv, NEW E
  PROVE  GoodList(Remove(E))
<1>1. GoodList(contexts)
  BY CurrentList
<1> QED BY <1>1 DEF GoodList, Remove

(* Leaving by an exception keeps the invariant.                            *)
LEMMA ThrowKeeps ==
  ASSUME IInv, tpm' \in TpmStates, NEW ctxs, GoodList(ctxs), Throw(ctxs)
  PROVE  IInv'
<1>1. /\ contexts' = ctxs /\ cmd' = NoCmd /\ result' = Reply("throw")
      /\ UNCHANGED <<useCount, created, resetting>>
  BY DEF Throw, Return
<1>2. result' \in Results
  BY <1>1, ReplyType DEF IInv, TypeOK, ResponseCodes
<1>3. TypeOK'
  BY <1>1, <1>2, NoCmdType DEF IInv, TypeOK, GoodList
<1>4. ContextsInv'
  BY <1>1 DEF GoodList, ContextsInv
<1>5. DispatchInv'
  BY <1>1, IdleKeeps DEF IInv, TypeOK
<1> QED BY <1>3, <1>4, <1>5 DEF IInv

(* UpdateLastUseCount keeps the contexts well-formed and the counter a     *)
(* natural number.                                                         *)
LEMMA UpdateLastUseCountList ==
  ASSUME IInv, NEW ctxs, GoodList(ctxs), UpdateLastUseCount(ctxs)
  PROVE  GoodList(contexts') /\ useCount' \in Nat
<1>1. cmd.need \in Seq(Nat) /\ useCount \in Nat
  BY DEF IInv, TypeOK, CmdRecords
<1>2. Len(cmd.need) \in Nat /\ DOMAIN cmd.need = 1 .. Len(cmd.need)
  BY <1>1, LenProperties
<1>3. ASSUME NEW e, Positions(e) # {}
      PROVE  useCount + Max(Positions(e)) - 1 \in Nat
  <2>1. Positions(e) \subseteq 0 .. Len(cmd.need) /\ Positions(e) \subseteq 1 .. Len(cmd.need)
    BY <1>2 DEF Positions
  <2>2. Max(Positions(e)) \in 1 .. Len(cmd.need)
    BY <1>2, <1>3, <2>1, MaxInSet
  <2> QED BY <1>1, <1>2, <2>2
<1>4. contexts' = [e \in DOMAIN ctxs |->
        IF Positions(e) = {} THEN ctxs[e]
        ELSE [ctxs[e] EXCEPT !.lastUseCount = useCount + Max(Positions(e)) - 1]]
      /\ useCount' = useCount + Len(cmd.need)
  BY DEF UpdateLastUseCount
<1>5. ASSUME NEW e \in DOMAIN ctxs
      PROVE  contexts'[e] \in ObjectContext /\ RightKind(contexts'[e])
  <2>1. ctxs[e] \in ObjectContext /\ RightKind(ctxs[e])
    BY DEF GoodList
  <2>2. CASE Positions(e) = {}
    BY <1>4, <2>1, <2>2
  <2>3. CASE Positions(e) # {}
    <3> DEFINE n == useCount + Max(Positions(e)) - 1
    <3>1. n \in Nat
      BY <1>3, <2>3
    <3>2. contexts'[e] = [ctxs[e] EXCEPT !.lastUseCount = n]
      BY <1>4, <2>3
    <3> HIDE DEF n
    <3> QED BY <2>1, <3>1, <3>2 DEF ObjectContext, RightKind
  <2> QED BY <2>2, <2>3
<1>6. contexts' \in [DOMAIN ctxs -> ObjectContext] /\ DOMAIN contexts' = DOMAIN ctxs
  BY <1>4, <1>5
<1>7. useCount' \in Nat
  BY <1>1, <1>2, <1>4
<1>8. DOMAIN ctxs \subseteq 1 .. created
  BY DEF GoodList
<1> QED BY <1>5, <1>6, <1>7, <1>8 DEF GoodList

(* Leaving with an error response keeps the invariant.                     *)
LEMMA ReturnErrorKeeps ==
  ASSUME IInv, tpm' \in TpmStates, NEW ctxs, GoodList(ctxs), NEW rc \in ResponseCodes,
         ReturnError(rc, ctxs)
  PROVE  IInv'
<1>1. /\ cmd' = NoCmd /\ result' = Reply(rc) /\ UpdateLastUseCount(ctxs)
      /\ UNCHANGED <<created, resetting>>
  BY DEF ReturnError, Return
<1>2. result' \in Results
  BY <1>1, ReplyType DEF IInv, TypeOK
<1>3. GoodList(contexts') /\ useCount' \in Nat
  BY <1>1, UpdateLastUseCountList
<1>4. TypeOK'
  BY <1>1, <1>2, <1>3, NoCmdType DEF IInv, TypeOK, GoodList
<1>5. ContextsInv'
  BY <1>3 DEF GoodList, ContextsInv
<1>6. DispatchInv'
  BY <1>1, IdleKeeps DEF IInv, TypeOK
<1> QED BY <1>4, <1>5, <1>6 DEF IInv

(* The entities that a command touches are numbers.                        *)
LEMMA TouchedType == IInv => Touched \subseteq Nat
BY EntityAtType DEF IInv, TypeOK, Touched

(* A successful command that creates nothing keeps the invariant.          *)
LEMMA SucceedKeeps ==
  ASSUME IInv, NEW cc, NEW t \in TpmStates, NEW ctxs, GoodList(ctxs),
         NEW rc \in ResponseCodes, Succeed(cc, t, ctxs, rc)
  PROVE  IInv'
<1>1. /\ tpm' = t /\ contexts' = ctxs /\ cmd' = NoCmd
      /\ result' = [Reply(rc) EXCEPT !.touched = Touched]
      /\ UNCHANGED <<useCount, created, resetting>>
  BY DEF Succeed, Return
<1>2. result' \in Results
  BY <1>1, ReplyType, TouchedType DEF IInv, TypeOK, Results
<1>3. TypeOK'
  BY <1>1, <1>2, NoCmdType DEF IInv, TypeOK, GoodList
<1>4. ContextsInv'
  BY <1>1 DEF GoodList, ContextsInv
<1>5. DispatchInv'
  BY <1>1, IdleKeeps DEF IInv, TypeOK
<1> QED BY <1>3, <1>4, <1>5 DEF IInv

-----------------------------------------------------------------------------
(* LoadEntities, MakeSpace and ReplaceHandlesIn                            *)

(* While the command is at need[at], that is a reference to an existing    *)
(* context or a temporary one.                                             *)
LEMMA NeedDomain ==
  IInv => Len(cmd.need) \in Nat /\ DOMAIN cmd.need = 1 .. Len(cmd.need)
BY LenProperties DEF IInv, TypeOK, CmdRecords

(* LoadObject works on an existing context, never on a temporary one,      *)
(* which always counts as loaded.                                          *)
LEMMA LoadingContext ==
  ASSUME IInv, Loading
  PROVE  /\ cmd.at \in DOMAIN cmd.need
         /\ cmd.need[cmd.at] \in DOMAIN contexts
         /\ cmd.need[cmd.at] # Temporary
         /\ contexts[cmd.need[cmd.at]] \in ObjectContext
         /\ RightKind(contexts[cmd.need[cmd.at]])
         /\ ~contexts[cmd.need[cmd.at]].isLoaded
<1>1. cmd.at \in Nat \ {0} /\ cmd.at <= Len(cmd.need)
  BY DEF IInv, TypeOK, CmdRecords, Loading, AtEntity
<1>2. cmd.at \in DOMAIN cmd.need
  BY <1>1, NeedDomain
<1>3. cmd.need[cmd.at] # Temporary
  BY DEF IInv, DispatchInv, RetryInv, Loading, IsLoaded
<1>4. cmd.need[cmd.at] \in DOMAIN contexts
  BY <1>2, <1>3 DEF IInv, DispatchInv, NeedInv
<1>5. contexts[cmd.need[cmd.at]] \in ObjectContext /\ RightKind(contexts[cmd.need[cmd.at]])
  BY <1>4 DEF IInv, TypeOK, ContextsInv
<1>6. ~contexts[cmd.need[cmd.at]].isLoaded
  BY <1>4, <1>5, NotLoadedKind DEF IInv, DispatchInv, RetryInv, Loading, IsLoaded
<1> QED BY <1>2, <1>3, <1>4, <1>5, <1>6

(* LoadEntities goes on to the next handle.                                *)
LEMMA AdvanceType ==
  ASSUME cmd \in CmdRecords, NEW r \in BOOLEAN, cmd' = [cmd EXCEPT !.at = @ + 1, !.retry = r]
  PROVE  /\ cmd' \in CmdRecords
         /\ cmd'.need = cmd.need /\ cmd'.phase = cmd.phase /\ cmd'.caller = cmd.caller
         /\ cmd'.retry = r
<1> DEFINE n == cmd.at + 1
<1>1. n \in Nat \ {0}
  BY DEF CmdRecords
<1>2. cmd' = [cmd EXCEPT !.at = n, !.retry = r]
  BY DEF CmdRecords
<1> HIDE DEF n
<1> QED BY <1>1, <1>2 DEF CmdRecords

(* SkipLoaded keeps the invariant.                                         *)
LEMMA SkipLoadedKeeps ==
  ASSUME IInv, SkipLoaded
  PROVE  IInv'
<1>1. /\ cmd.phase = "load" /\ cmd.retry = FALSE
      /\ cmd' = [cmd EXCEPT !.at = @ + 1, !.retry = FALSE]
      /\ UNCHANGED <<tpm, contexts, useCount, created, result, resetting>>
  BY DEF SkipLoaded, AtEntity, IInv, TypeOK, CmdRecords
<1>2. cmd' \in CmdRecords /\ cmd'.need = cmd.need /\ cmd'.phase = "load"
      /\ cmd'.caller = cmd.caller /\ cmd'.retry = FALSE
  BY <1>1, AdvanceType DEF IInv, TypeOK, CmdRecords
<1>3. TypeOK' /\ ContextsInv'
  BY <1>1, <1>2 DEF IInv, TypeOK, ContextsInv
<1>4. NeedInv'
  BY <1>1, <1>2 DEF IInv, DispatchInv, NeedInv
<1>5. RetryInv' /\ VictimInv' /\ PhaseInv'
  BY <1>1, <1>2 DEF IInv, DispatchInv, RetryInv, VictimInv, PhaseInv
<1> QED BY <1>3, <1>4, <1>5 DEF IInv, DispatchInv

(* LoadObject keeps the invariant: the TPM gives a handle of the right     *)
(* kind.                                                                   *)
LEMMA LoadObjectKeeps ==
  ASSUME IInv, LoadObject
  PROVE  IInv'
<1> DEFINE e == cmd.need[cmd.at]
           b == contexts[e].context
<1>1. PICK h \in LoadHandles(tpm, b) :
        /\ tpm' = AfterLoad(tpm, b, h)
        /\ contexts' = [contexts EXCEPT ![e].tpmHandle = h, ![e].isLoaded = TRUE]
  BY DEF LoadObject
<1>2. /\ Loading /\ LoadRc(tpm, b) = "Success"
      /\ cmd' = [cmd EXCEPT !.at = @ + 1, !.retry = FALSE]
      /\ UNCHANGED <<useCount, created, result, resetting>>
  BY DEF LoadObject
<1>3. /\ e \in DOMAIN contexts /\ contexts[e] \in ObjectContext
      /\ RightKind(contexts[e]) /\ ~contexts[e].isLoaded
  BY <1>2, LoadingContext
<1>4. tpm \in TpmStates /\ b \in Blobs
  BY <1>3 DEF IInv, TypeOK, ObjectContext
<1> DEFINE x == [contexts[e] EXCEPT !.tpmHandle = h, !.isLoaded = TRUE]
<1>5. h \in TpmHandles /\ x \in ObjectContext /\ RightKind(x)
  BY <1>2, <1>3, <1>4, LoadedKind
<1>6. x.owner = contexts[e].owner
  BY <1>3 DEF ObjectContext
<1>7. contexts' = [contexts EXCEPT ![e] = x]
  BY <1>1, <1>3
<1> HIDE DEF x, e
<1>8. /\ DOMAIN contexts' = DOMAIN contexts
      /\ contexts' \in [DOMAIN contexts' -> ObjectContext] /\ ContextsInv'
      /\ \A f \in DOMAIN contexts : contexts'[f].owner = contexts[f].owner
  BY <1>3, <1>5, <1>6, <1>7, ReplaceOne
<1>9. tpm' \in TpmStates
  BY <1>1, <1>4, <1>5, AfterLoadType
<1>10. cmd' \in CmdRecords /\ cmd'.need = cmd.need /\ cmd'.phase = "load"
       /\ cmd'.caller = cmd.caller /\ cmd'.retry = FALSE
  BY <1>2, AdvanceType DEF IInv, TypeOK, CmdRecords, Loading, AtEntity
<1>11. TypeOK'
  BY <1>2, <1>8, <1>9, <1>10 DEF IInv, TypeOK
<1>12. NeedInv'
  BY <1>8, <1>10, NeedKeeps DEF IInv, DispatchInv
<1>13. RetryInv' /\ VictimInv' /\ PhaseInv'
  BY <1>2, <1>10 DEF IInv, DispatchInv, RetryInv, VictimInv, PhaseInv, Loading, AtEntity
<1> QED BY <1>8, <1>11, <1>12, <1>13 DEF IInv, DispatchInv

(* The victim is loaded, of the type asked for, and not used by the        *)
(* command; its number is 0 if there is none.                              *)
LEMMA EntityToEvictChoice ==
  ASSUME IInv, NEW type, NEW pinned
  PROVE  \/ EntityToEvict(type, pinned) = 0
         \/ EntityToEvict(type, pinned) \in Victims(type, pinned)
<1> DEFINE stalest == {e \in Victims(type, pinned) :
                        \A f \in Victims(type, pinned) :
                          contexts[e].lastUseCount <= contexts[f].lastUseCount}
<1>1. stalest \subseteq Victims(type, pinned) /\ Victims(type, pinned) \subseteq Nat
  BY DEF Victims, IInv, TypeOK
<1>2. stalest # {} => Min(stalest) \in stalest
  BY <1>1, MinInSet
<1>3. EntityToEvict(type, pinned) = IF stalest = {} THEN 0 ELSE Min(stalest)
  BY DEF EntityToEvict
<1> HIDE DEF stalest
<1> QED BY <1>1, <1>2, <1>3

(* CallMakeSpace changes where the command is, to a well-typed record, and *)
(* nothing else about it.                                                  *)
LEMMA CallMakeSpaceType ==
  ASSUME IInv, cmd.phase \in {"load", "exec"}, NEW type \in {"ObjectSlot", "SessionSlot"},
         NEW retry \in BOOLEAN, CallMakeSpace(type, retry)
  PROVE  /\ cmd' \in CmdRecords
         /\ cmd'.phase = "space" /\ cmd'.from = cmd.phase /\ cmd'.type = type
         /\ cmd'.caller = cmd.caller /\ cmd'.need = cmd.need /\ cmd'.at = cmd.at
         /\ cmd'.phys = cmd.phys /\ cmd'.cc = cmd.cc
         /\ cmd'.retry = retry
         /\ 0 \notin DOMAIN contexts
         /\ cmd'.victim \in DOMAIN contexts =>
              /\ Loaded(contexts[cmd'.victim])
              /\ contexts[cmd'.victim].slotType = type
              /\ cmd'.victim \notin Pinned
              /\ cmd'.victimHandle = contexts[cmd'.victim].tpmHandle
<1> DEFINE e == EntityToEvict(type, Pinned)
           h == IF e = 0 THEN NoHandle ELSE contexts[e].tpmHandle
<1>1. e = 0 \/ e \in Victims(type, Pinned)
  BY EntityToEvictChoice
<1>2. 0 \notin DOMAIN contexts /\ DOMAIN contexts \subseteq Nat
  BY DEF IInv, TypeOK
<1>3. e \in Nat /\ h \in TpmHandles \cup {RhNull, NoHandle}
  BY <1>1, <1>2 DEF IInv, TypeOK, ObjectContext, Victims
<1>4. cmd' = [cmd EXCEPT !.phase = "space", !.from = cmd.phase, !.type = type,
                         !.retry = retry, !.firstSeq = 0, !.victim = e, !.victimHandle = h]
  BY DEF CallMakeSpace
<1> HIDE DEF e, h
<1>5. cmd \in CmdRecords
  BY DEF IInv, TypeOK
<1>6. cmd' \in CmdRecords
  <2> DEFINE c == [cmd EXCEPT !.phase = "space", !.from = cmd.phase, !.type = type,
                              !.retry = retry]
  <2>1. c \in CmdRecords
    BY <1>5 DEF CmdRecords
  <2>2. cmd' = [c EXCEPT !.firstSeq = 0, !.victim = e, !.victimHandle = h]
    BY <1>4, <1>5 DEF CmdRecords
  <2> HIDE DEF c
  <2> QED BY <1>3, <2>1, <2>2 DEF CmdRecords
<1>7. /\ cmd'.phase = "space" /\ cmd'.from = cmd.phase /\ cmd'.type = type
      /\ cmd'.caller = cmd.caller /\ cmd'.need = cmd.need /\ cmd'.at = cmd.at
      /\ cmd'.phys = cmd.phys /\ cmd'.cc = cmd.cc
      /\ cmd'.retry = retry /\ cmd'.victim = e /\ cmd'.victimHandle = h
  BY <1>4, <1>5 DEF CmdRecords
<1>8. e \in DOMAIN contexts =>
        /\ Loaded(contexts[e]) /\ contexts[e].slotType = type
        /\ e \notin Pinned /\ h = contexts[e].tpmHandle
  BY <1>1, <1>2 DEF h, Victims
<1> QED BY <1>2, <1>6, <1>7, <1>8

(* LoadObjectNeedsSpace keeps the invariant.                               *)
LEMMA LoadObjectNeedsSpaceKeeps ==
  ASSUME IInv, LoadObjectNeedsSpace
  PROVE  IInv'
<1> DEFINE e == cmd.need[cmd.at]
           x == [contexts[e] EXCEPT !.tpmHandle = RhNull]
<1>1. /\ Loading
      /\ contexts' = [contexts EXCEPT ![e].tpmHandle = RhNull]
      /\ CallMakeSpace(contexts[e].slotType, TRUE)
      /\ UNCHANGED <<tpm, useCount, created, result, resetting>>
  BY DEF LoadObjectNeedsSpace
<1>2. /\ cmd.at \in DOMAIN cmd.need /\ e \in DOMAIN contexts /\ e # Temporary
      /\ contexts[e] \in ObjectContext /\ RightKind(contexts[e]) /\ ~contexts[e].isLoaded
  BY <1>1, LoadingContext
<1>3. x \in ObjectContext /\ RightKind(x)
  BY <1>2, NullKind
<1>4. x.owner = contexts[e].owner /\ ~x.isLoaded
  BY <1>2 DEF ObjectContext
<1>5. contexts' = [contexts EXCEPT ![e] = x]
  BY <1>1, <1>2
<1>6. e \in Pinned
  BY <1>2 DEF Pinned
<1>7. cmd.phase = "load" /\ contexts[e].slotType \in {"ObjectSlot", "SessionSlot"}
  BY <1>1, <1>2 DEF Loading, AtEntity, ObjectContext
<1>8. cmd.need[cmd.at] = e
  OBVIOUS
<1> HIDE DEF x, e
<1>9. /\ DOMAIN contexts' = DOMAIN contexts
      /\ contexts' \in [DOMAIN contexts' -> ObjectContext] /\ ContextsInv'
      /\ \A f \in DOMAIN contexts : contexts'[f].owner = contexts[f].owner
      /\ contexts'[e] = x
      /\ \A f \in DOMAIN contexts : f # e => contexts'[f] = contexts[f]
  BY <1>2, <1>3, <1>4, <1>5, ReplaceOne
<1>10. /\ cmd' \in CmdRecords
       /\ cmd'.phase = "space" /\ cmd'.from = "load"
       /\ cmd'.caller = cmd.caller /\ cmd'.need = cmd.need /\ cmd'.at = cmd.at
       /\ cmd'.victim \in DOMAIN contexts =>
            /\ Loaded(contexts[cmd'.victim]) /\ cmd'.victim \notin Pinned
            /\ cmd'.victimHandle = contexts[cmd'.victim].tpmHandle
  BY <1>1, <1>7, CallMakeSpaceType
<1>11. TypeOK'
  BY <1>1, <1>9, <1>10 DEF IInv, TypeOK
<1>12. NeedInv'
  BY <1>9, <1>10, NeedKeeps DEF IInv, DispatchInv
<1>13. RetryInv'
  BY <1>2, <1>4, <1>8, <1>9, <1>10 DEF RetryInv
<1>14. VictimInv'
  BY <1>6, <1>9, <1>10 DEF VictimInv, Loaded
<1>15. PhaseInv'
  BY <1>1, <1>7, <1>10 DEF IInv, DispatchInv, PhaseInv
<1> QED BY <1>9, <1>11, <1>12, <1>13, <1>14, <1>15 DEF IInv, DispatchInv

(* AllLoaded keeps the invariant: the command buffer has one handle per    *)
(* reference.                                                              *)
LEMMA AllLoadedKeeps ==
  ASSUME IInv, AllLoaded
  PROVE  IInv'
<1> DEFINE phys == [i \in DOMAIN cmd.need |->
                      IF cmd.need[i] = Temporary THEN Perm ELSE contexts[cmd.need[i]].tpmHandle]
<1>1. /\ cmd.phase = "load" /\ cmd' = [cmd EXCEPT !.phase = "exec", !.phys = phys]
      /\ UNCHANGED <<tpm, contexts, useCount, created, result, resetting>>
      /\ cmd.at > Len(cmd.need)
  BY DEF AllLoaded
<1>2. ASSUME NEW i \in DOMAIN cmd.need
      PROVE  phys[i] \in TpmHandles \cup {Perm, RhNull, NoHandle}
  BY DEF IInv, TypeOK, DispatchInv, NeedInv, ObjectContext
<1>3. phys \in Seq(TpmHandles \cup {Perm, RhNull, NoHandle})
  <2>1. PICK n \in Nat : DOMAIN cmd.need = 1 .. n
    BY NeedDomain
  <2>2. phys = [i \in 1 .. n |-> phys[i]]
    BY <2>1
  <2>3. \A i \in 1 .. n : phys[i] \in TpmHandles \cup {Perm, RhNull, NoHandle}
    BY <1>2, <2>1
  <2> HIDE DEF phys
  <2> QED BY <2>2, <2>3, IsASeq
<1> HIDE DEF phys
<1>4. /\ cmd' \in CmdRecords
      /\ cmd'.phase = "exec" /\ cmd'.need = cmd.need /\ cmd'.caller = cmd.caller
      /\ cmd'.retry = cmd.retry /\ cmd'.at = cmd.at
  BY <1>1, <1>3 DEF IInv, TypeOK, CmdRecords
<1>5. TypeOK' /\ ContextsInv'
  BY <1>1, <1>4 DEF IInv, TypeOK, ContextsInv
<1>6. NeedInv' /\ RetryInv' /\ VictimInv' /\ PhaseInv'
  BY <1>1, <1>4 DEF IInv, DispatchInv, NeedInv, RetryInv, VictimInv, PhaseInv
<1> QED BY <1>5, <1>6 DEF IInv, DispatchInv

(* Back from MakeSpace to the loop that called it.                         *)
LEMMA EvictVictimKeeps ==
  ASSUME IInv, EvictVictim
  PROVE  IInv'
<1> DEFINE h == cmd.victimHandle
           y == Evicted(contexts[cmd.victim], SavedBlob(tpm, h))
<1>1. /\ cmd.phase = "space" /\ SaveRc(tpm, h) = "Success"
      /\ tpm' = SaveOut(tpm, h)
      /\ contexts' = [e \in DOMAIN contexts |->
           IF e = cmd.victim THEN Evicted(contexts[e], SavedBlob(tpm, h)) ELSE contexts[e]]
      /\ cmd' = [cmd EXCEPT !.phase = cmd.from, !.from = "idle", !.type = "NoSlot",
                            !.firstSeq = 0, !.victim = 0, !.victimHandle = NoHandle]
      /\ UNCHANGED <<useCount, created, result, resetting>>
  BY DEF EvictVictim
<1>2. tpm \in TpmStates /\ cmd \in CmdRecords
  BY DEF IInv, TypeOK
<1>3. tpm' \in TpmStates
  BY <1>1, <1>2, AfterSaveType, FlushType DEF SaveOut
<1>4. DOMAIN contexts' = DOMAIN contexts
  BY <1>1
<1>5. cmd.victim \in DOMAIN contexts =>
        y \in ObjectContext /\ RightKind(y) /\ y.owner = contexts[cmd.victim].owner
        /\ ~y.isLoaded
  <2> SUFFICES ASSUME cmd.victim \in DOMAIN contexts
               PROVE  y \in ObjectContext /\ RightKind(y)
                      /\ y.owner = contexts[cmd.victim].owner /\ ~y.isLoaded
    OBVIOUS
  <2>1. contexts[cmd.victim] \in ObjectContext /\ RightKind(contexts[cmd.victim])
    BY DEF IInv, TypeOK, ContextsInv
  <2>2. h = contexts[cmd.victim].tpmHandle
    BY <1>1 DEF IInv, DispatchInv, VictimInv
  <2>3. y \in ObjectContext /\ RightKind(y)
    BY <1>1, <1>2, <2>1, <2>2, EvictedKind
  <2>4. y.owner = contexts[cmd.victim].owner /\ ~y.isLoaded
    BY <2>1 DEF Evicted, ObjectContext
  <2> QED BY <2>3, <2>4
<1>6. \A e \in DOMAIN contexts : contexts'[e] = IF e = cmd.victim THEN y ELSE contexts[e]
  BY <1>1
<1> HIDE DEF y
<1>7. contexts' \in [DOMAIN contexts' -> ObjectContext]
  <2>1. contexts' = [e \in DOMAIN contexts' |-> contexts'[e]]
    BY <1>1
  <2>2. \A e \in DOMAIN contexts' : contexts'[e] \in ObjectContext
    BY <1>4, <1>5, <1>6 DEF IInv, TypeOK
  <2> QED BY <2>1, <2>2
<1>8. ContextsInv'
  BY <1>4, <1>5, <1>6 DEF IInv, ContextsInv
<1>9. \A f \in DOMAIN contexts : contexts'[f].owner = contexts[f].owner
  BY <1>5, <1>6
<1>10. /\ cmd' \in CmdRecords
       /\ cmd'.phase = cmd.from /\ cmd'.need = cmd.need /\ cmd'.caller = cmd.caller
       /\ cmd'.retry = cmd.retry /\ cmd'.at = cmd.at
       /\ cmd'.phase \in {"load", "exec"}
  BY <1>1, <1>2 DEF IInv, CmdRecords, DispatchInv, PhaseInv
<1>11. TypeOK'
  BY <1>1, <1>3, <1>4, <1>7, <1>10 DEF IInv, TypeOK
<1>12. NeedInv'
  BY <1>4, <1>9, <1>10, NeedKeeps DEF IInv, DispatchInv
<1>13. RetryInv'
  BY <1>5, <1>6, <1>10 DEF IInv, DispatchInv, RetryInv, NeedInv
<1>14. VictimInv' /\ PhaseInv'
  BY <1>1, <1>10 DEF IInv, DispatchInv, VictimInv, PhaseInv
<1> QED BY <1>8, <1>11, <1>12, <1>13, <1>14 DEF IInv, DispatchInv

(* MakeSpace gave up, with whatever list of contexts it leaves behind.     *)
LEMMA MakeSpaceFailedKeeps ==
  ASSUME IInv, tpm' \in TpmStates, NEW ctxs, GoodList(ctxs), MakeSpaceFailed(ctxs)
  PROVE  IInv'
BY ThrowKeeps, ReturnErrorKeeps DEF MakeSpaceFailed, ResponseCodes

(* NothingToEvict keeps the invariant.                                     *)
LEMMA NothingToEvictKeeps ==
  ASSUME IInv, NothingToEvict
  PROVE  IInv'
BY MakeSpaceFailedKeeps, CurrentList DEF NothingToEvict, IInv, TypeOK

-----------------------------------------------------------------------------
(* ShortenSessionContextGap                                                *)

(* The context it works on is a session that has been saved.               *)
LEMMA OldestIsSaved ==
  ASSUME IInv, OldestSavedSession # 0
  PROVE  /\ OldestSavedSession \in DOMAIN contexts
         /\ contexts[OldestSavedSession] \in ObjectContext
         /\ RightKind(contexts[OldestSavedSession])
         /\ contexts[OldestSavedSession].slotType = "SessionSlot"
         /\ ~Loaded(contexts[OldestSavedSession])
         /\ ~contexts[OldestSavedSession].isLoaded
         /\ contexts[OldestSavedSession].context \in Blobs
         /\ contexts[OldestSavedSession].context.handle \in SessHandles
<1>1. SavedSessions # {} /\ SavedSessions \subseteq Nat
  BY DEF OldestSavedSession, SavedSessions, IInv, TypeOK
<1>2. OldestSavedSession \in SavedSessions
  BY <1>1, MinInSet DEF OldestSavedSession
<1>3. /\ OldestSavedSession \in DOMAIN contexts
      /\ contexts[OldestSavedSession].slotType = "SessionSlot"
      /\ ~Loaded(contexts[OldestSavedSession])
  BY <1>2 DEF SavedSessions
<1>4. contexts[OldestSavedSession] \in ObjectContext /\ RightKind(contexts[OldestSavedSession])
  BY <1>3 DEF IInv, TypeOK, ContextsInv
<1>5. ~contexts[OldestSavedSession].isLoaded
  BY <1>3, <1>4, NotLoadedKind
<1> QED BY <1>3, <1>4, <1>5 DEF RightKind, ObjectContext

(* Reloading and re-saving changes only the handle and the blob of a       *)
(* session that is not loaded, before or after.                            *)
LEMMA ResaveKeeps ==
  ASSUME IInv, NEW first, CanShorten(first), Resave
  PROVE  /\ tpm' \in TpmStates
         /\ DOMAIN contexts' = DOMAIN contexts
         /\ contexts' \in [DOMAIN contexts' -> ObjectContext]
         /\ ContextsInv'
         /\ \A f \in DOMAIN contexts :
              /\ contexts'[f].owner = contexts[f].owner
              /\ contexts'[f].isLoaded = contexts[f].isLoaded
              /\ Loaded(contexts[f]) => contexts'[f] = contexts[f]
<1> DEFINE e == OldestSavedSession
           b == contexts[e].context
           t == AfterLoad(tpm, b, b.handle)
           x == [contexts[e] EXCEPT !.tpmHandle = b.handle, !.context = SavedBlob(t, b.handle)]
<1>1. /\ e # 0 /\ SaveRc(t, b.handle) = "Success"
      /\ tpm' = AfterSave(t, b.handle)
      /\ contexts' = [contexts EXCEPT ![e].tpmHandle = b.handle,
                                      ![e].context = SavedBlob(t, b.handle)]
  BY DEF CanShorten, Resave
<1>2. /\ e \in DOMAIN contexts /\ contexts[e] \in ObjectContext
      /\ contexts[e].slotType = "SessionSlot"
      /\ ~Loaded(contexts[e]) /\ ~contexts[e].isLoaded
      /\ b \in Blobs /\ b.handle \in SessHandles
  BY <1>1, OldestIsSaved
<1>3. tpm \in TpmStates /\ b.handle \in TpmHandles
  BY <1>2 DEF IInv, TypeOK, TpmHandles
<1>4. t \in TpmStates
  BY <1>2, <1>3, AfterLoadType
<1> HIDE DEF t
<1>5. SavedBlob(t, b.handle) \in Blobs /\ SavedBlob(t, b.handle).handle = b.handle
  BY <1>1, <1>2, <1>4, SavedBlobType
<1>6. contexts' = [contexts EXCEPT ![e] = x]
  BY <1>1, <1>2
<1> DEFINE c == SavedBlob(t, b.handle)
<1>7. x = [contexts[e] EXCEPT !.tpmHandle = b.handle, !.context = c]
  OBVIOUS
<1> HIDE DEF c, x, e
<1>8. /\ x \in ObjectContext /\ x.owner = contexts[e].owner
      /\ x.isLoaded = FALSE /\ x.slotType = "SessionSlot"
      /\ x.tpmHandle = b.handle /\ x.context = c
  BY <1>2, <1>3, <1>5, <1>7 DEF ObjectContext, c
<1>9. RightKind(x)
  BY <1>2, <1>5, <1>8, HandleKinds DEF RightKind, c
<1>10. /\ DOMAIN contexts' = DOMAIN contexts
       /\ contexts' \in [DOMAIN contexts' -> ObjectContext] /\ ContextsInv'
       /\ \A f \in DOMAIN contexts : contexts'[f].owner = contexts[f].owner
       /\ contexts'[e] = x
       /\ \A f \in DOMAIN contexts : f # e => contexts'[f] = contexts[f]
  BY <1>2, <1>6, <1>8, <1>9, ReplaceOne
<1>11. tpm' \in TpmStates
  BY <1>1, <1>4, AfterSaveType
<1>12. contexts[e].isLoaded = FALSE
  BY <1>2 DEF ObjectContext
<1> QED BY <1>2, <1>8, <1>10, <1>11, <1>12

(* The command stays where it is, up to the remembered sequence numbers.   *)
LEMMA ShortenKeeps ==
  ASSUME IInv, NEW first, CanShorten(first), Resave, cmd' \in CmdRecords,
         cmd'.need = cmd.need, cmd'.caller = cmd.caller, cmd'.retry = cmd.retry,
         cmd'.at = cmd.at, cmd'.phase = cmd.phase, cmd'.from = cmd.from,
         cmd'.victim = cmd.victim, cmd'.victimHandle = cmd.victimHandle,
         cmd.phase \in {"exec", "space"},
         UNCHANGED <<useCount, created, result, resetting>>
  PROVE  IInv'
<1>1. /\ tpm' \in TpmStates
      /\ DOMAIN contexts' = DOMAIN contexts
      /\ contexts' \in [DOMAIN contexts' -> ObjectContext]
      /\ ContextsInv'
      /\ \A f \in DOMAIN contexts :
           /\ contexts'[f].owner = contexts[f].owner
           /\ contexts'[f].isLoaded = contexts[f].isLoaded
           /\ Loaded(contexts[f]) => contexts'[f] = contexts[f]
  BY ResaveKeeps
<1>2. TypeOK'
  BY <1>1 DEF IInv, TypeOK
<1>3. NeedInv'
  BY <1>1, NeedKeeps DEF IInv, DispatchInv
<1>4. RetryInv'
  BY <1>1 DEF IInv, DispatchInv, RetryInv, NeedInv
<1>5. VictimInv'
  BY <1>1 DEF IInv, DispatchInv, VictimInv, Loaded
<1>6. PhaseInv'
  BY DEF IInv, DispatchInv, PhaseInv
<1> QED BY <1>1, <1>2, <1>3, <1>4, <1>5, <1>6 DEF IInv, DispatchInv

(* ShortenInMakeSpace keeps the invariant: its victim stays loaded.        *)
LEMMA ShortenInMakeSpaceKeeps ==
  ASSUME IInv, ShortenInMakeSpace
  PROVE  IInv'
<1> DEFINE n == IF cmd.firstSeq = 0 THEN tpm.counter ELSE cmd.firstSeq
<1>1. /\ cmd.phase = "space" /\ CanShorten(cmd.firstSeq) /\ Resave
      /\ cmd' = [cmd EXCEPT !.firstSeq = n]
      /\ UNCHANGED <<useCount, created, result, resetting>>
  BY DEF ShortenInMakeSpace, GapInMakeSpace, IInv, TypeOK, CmdRecords
<1>2. n \in Nat /\ cmd \in CmdRecords
  BY DEF IInv, TypeOK, CmdRecords, TpmStates
<1> HIDE DEF n
<1>3. /\ cmd' \in CmdRecords
      /\ cmd'.need = cmd.need /\ cmd'.caller = cmd.caller /\ cmd'.retry = cmd.retry
      /\ cmd'.at = cmd.at /\ cmd'.phase = cmd.phase /\ cmd'.from = cmd.from
      /\ cmd'.victim = cmd.victim /\ cmd'.victimHandle = cmd.victimHandle
  BY <1>1, <1>2 DEF CmdRecords
<1> QED BY <1>1, <1>3, ShortenKeeps

(* ShortenInDispatch keeps the invariant.                                  *)
LEMMA ShortenInDispatchKeeps ==
  ASSUME IInv, ShortenInDispatch
  PROVE  IInv'
<1> DEFINE n == IF cmd.execSeq = 0 THEN tpm.counter ELSE cmd.execSeq
<1>1. /\ cmd.phase = "exec" /\ CanShorten(cmd.execSeq) /\ Resave
      /\ cmd' = [cmd EXCEPT !.execSeq = n]
      /\ UNCHANGED <<useCount, created, result, resetting>>
  BY DEF ShortenInDispatch, ExecGap, IInv, TypeOK, CmdRecords
<1>2. n \in Nat /\ cmd \in CmdRecords
  BY DEF IInv, TypeOK, CmdRecords, TpmStates
<1> HIDE DEF n
<1>3. /\ cmd' \in CmdRecords
      /\ cmd'.need = cmd.need /\ cmd'.caller = cmd.caller /\ cmd'.retry = cmd.retry
      /\ cmd'.at = cmd.at /\ cmd'.phase = cmd.phase /\ cmd'.from = cmd.from
      /\ cmd'.victim = cmd.victim /\ cmd'.victimHandle = cmd.victimHandle
  BY <1>1, <1>2 DEF CmdRecords
<1> QED BY <1>1, <1>3, ShortenKeeps

(* A failed attempt leaves a good list and a well-typed TPM.               *)
LEMMA FailedShortenGood ==
  ASSUME IInv, NEW first
  PROVE  FailedShorten(first).t \in TpmStates /\ GoodList(FailedShorten(first).ctxs)
<1> DEFINE e == OldestSavedSession
           b == contexts[e].context
           t == AfterLoad(tpm, b, b.handle)
           x == [contexts[e] EXCEPT !.tpmHandle = RhNull]
           y == [contexts[e] EXCEPT !.tpmHandle = b.handle, !.isLoaded = TRUE,
                                    !.context = NoBlob]
<1>1. tpm \in TpmStates /\ GoodList(contexts)
  BY CurrentList DEF IInv, TypeOK
<1>2. CASE e = 0 \/ (e # 0 /\ b.seq = first)
  BY <1>1, <1>2 DEF FailedShorten
<1>3. CASE e # 0 /\ b.seq # first
  <2>1. /\ e \in DOMAIN contexts /\ contexts[e] \in ObjectContext /\ RightKind(contexts[e])
        /\ contexts[e].slotType = "SessionSlot" /\ ~contexts[e].isLoaded
        /\ b \in Blobs /\ b.handle \in SessHandles
    BY <1>3, OldestIsSaved
  <2>2. t \in TpmStates
    BY <1>1, <2>1, AfterLoadType DEF TpmHandles
  <2>3. x \in ObjectContext /\ RightKind(x)
    BY <2>1, NullKind
  <2>4. y \in ObjectContext /\ RightKind(y)
    <3>1. NoBlob \in Blobs
      BY DEF NoBlob, Blobs, NoEntity
    <3>2. y \in ObjectContext
      BY <2>1, <3>1 DEF ObjectContext, TpmHandles
    <3>3. RightKind(y)
      BY <2>1, HandleKinds DEF RightKind, ObjectContext, TpmHandles
    <3> QED BY <3>2, <3>3
  <2>5. /\ [contexts EXCEPT ![e].tpmHandle = RhNull] = [contexts EXCEPT ![e] = x]
        /\ [contexts EXCEPT ![e].tpmHandle = b.handle, ![e].isLoaded = TRUE,
                            ![e].context = NoBlob] = [contexts EXCEPT ![e] = y]
    BY <2>1
  <2>6. \/ FailedShorten(first) = [t |-> tpm, ctxs |-> [contexts EXCEPT ![e] = x]]
        \/ FailedShorten(first) = [t |-> t, ctxs |-> [contexts EXCEPT ![e] = y]]
    BY <1>3, <2>5 DEF FailedShorten
  <2> HIDE DEF x, y, t
  <2>7. ASSUME NEW z \in ObjectContext, RightKind(z)
        PROVE  GoodList([contexts EXCEPT ![e] = z])
    BY <1>1, <2>1, <2>7 DEF GoodList
  <2> QED BY <1>1, <2>2, <2>3, <2>4, <2>6, <2>7
<1> QED BY <1>2, <1>3

(* CannotShortenInMakeSpace keeps the invariant.                           *)
LEMMA CannotShortenInMakeSpaceKeeps ==
  ASSUME IInv, CannotShortenInMakeSpace
  PROVE  IInv'
BY FailedShortenGood, MakeSpaceFailedKeeps DEF CannotShortenInMakeSpace

(* CannotShortenInDispatch keeps the invariant.                            *)
LEMMA CannotShortenInDispatchKeeps ==
  ASSUME IInv, CannotShortenInDispatch
  PROVE  IInv'
BY FailedShortenGood, ReturnErrorKeeps DEF CannotShortenInDispatch, ResponseCodes

-----------------------------------------------------------------------------
(* The command loop                                                        *)

(* ExecFails keeps the invariant.                                          *)
LEMMA ExecFailsKeeps ==
  ASSUME IInv, ExecFails
  PROVE  IInv'
BY CurrentList, ReturnErrorKeeps DEF ExecFails, ResponseCodes, IInv, TypeOK

(* ExecNeedsSpace keeps the invariant.                                     *)
LEMMA ExecNeedsSpaceKeeps ==
  ASSUME IInv, ExecNeedsSpace
  PROVE  IInv'
<1>1. /\ cmd.phase = "exec"
      /\ UNCHANGED <<tpm, contexts, useCount, created, result, resetting>>
  BY DEF ExecNeedsSpace
<1>2. PICK type \in {"ObjectSlot", "SessionSlot"} : CallMakeSpace(type, FALSE)
  BY DEF ExecNeedsSpace
<1>3. /\ cmd' \in CmdRecords
      /\ cmd'.phase = "space" /\ cmd'.from = cmd.phase
      /\ cmd'.caller = cmd.caller /\ cmd'.need = cmd.need /\ cmd'.retry = FALSE
      /\ cmd'.victim \in DOMAIN contexts =>
           /\ Loaded(contexts[cmd'.victim])
           /\ cmd'.victimHandle = contexts[cmd'.victim].tpmHandle
  BY <1>1, <1>2, CallMakeSpaceType
<1>4. TypeOK' /\ ContextsInv'
  BY <1>1, <1>3 DEF IInv, TypeOK, ContextsInv
<1>5. NeedInv'
  BY <1>1, <1>3, NeedKeeps DEF IInv, DispatchInv
<1>6. RetryInv' /\ VictimInv' /\ PhaseInv'
  BY <1>1, <1>3 DEF IInv, DispatchInv, RetryInv, VictimInv, PhaseInv, Loaded
<1> QED BY <1>4, <1>5, <1>6 DEF IInv, DispatchInv

-----------------------------------------------------------------------------
(* Successful commands                                                     *)

(* Appending a context for the new entity keeps the invariant.             *)
LEMMA CreateEntityKeeps ==
  ASSUME IInv, NEW h \in TpmHandles, cmd.caller \in Clients, CreateEntity(h)
  PROVE  IInv'
<1> DEFINE n == created + 1
<1>1. PICK v \in FreeHandles(cmd.caller, h) :
        /\ contexts' = [e \in DOMAIN contexts \cup {n} |->
             IF e \in DOMAIN contexts THEN contexts[e] ELSE NewContext(cmd.caller, v, h)]
        /\ cmd' = NoCmd
        /\ result' = [Reply("Success") EXCEPT !.handle = TbsHandleFromTpmHandle(contexts', h),
                                              !.touched = Touched]
  BY DEF CreateEntity, Return
<1>2. /\ tpm' = AfterCreate(tpm, h, n)
      /\ created' = n /\ useCount' = useCount + 1 /\ resetting' = resetting
  BY DEF CreateEntity
<1>3. /\ created \in Nat /\ n \in Nat /\ useCount \in Nat /\ tpm \in TpmStates
      /\ DOMAIN contexts \subseteq 1 .. created /\ n \notin DOMAIN contexts
      /\ 1 .. created \subseteq 1 .. n /\ n \in 1 .. n
  BY DEF IInv, TypeOK
<1> DEFINE x == NewContext(cmd.caller, v, h)
<1>4. x \in ObjectContext /\ RightKind(x) /\ x.tpmHandle = h
  BY <1>3, NewKind
<1> HIDE DEF n, x
<1>5. \A e \in DOMAIN contexts' : contexts'[e] \in ObjectContext /\ RightKind(contexts'[e])
  BY <1>1, <1>4 DEF IInv, TypeOK, ContextsInv, x
<1>6. /\ DOMAIN contexts' = DOMAIN contexts \cup {n}
      /\ contexts' = [e \in DOMAIN contexts' |-> contexts'[e]]
      /\ contexts'[n] = x
  BY <1>1, <1>3 DEF x
<1>7. TbsHandleFromTpmHandle(contexts', h) \in VHandles
  <2> DEFINE S == {e \in DOMAIN contexts' : contexts'[e].tpmHandle = h}
  <2>1. n \in S /\ S \subseteq Nat
    BY <1>3, <1>4, <1>6
  <2>2. Min(S) \in S
    BY <2>1, MinInSet
  <2>3. contexts'[Min(S)].ownerHandle \in VHandles
    BY <1>5, <2>2 DEF ObjectContext
  <2> QED BY <2>3 DEF TbsHandleFromTpmHandle
<1>8. result' \in Results
  BY <1>1, <1>7, ReplyType, TouchedType DEF IInv, TypeOK, Results, ResponseCodes
<1>9. TypeOK'
  <2>1. tpm' \in TpmStates
    BY <1>2, <1>3, AfterCreateType
  <2>2. useCount' \in Nat /\ created' \in Nat /\ resetting' \subseteq Clients
    BY <1>2, <1>3 DEF IInv, TypeOK
  <2>3. contexts' \in [DOMAIN contexts' -> ObjectContext]
    BY <1>5, <1>6
  <2>4. DOMAIN contexts' \subseteq 1 .. created'
    BY <1>2, <1>3, <1>6
  <2>5. cmd' \in CmdRecords
    BY <1>1, NoCmdType
  <2> QED BY <1>8, <2>1, <2>2, <2>3, <2>4, <2>5 DEF TypeOK
<1>10. ContextsInv'
  BY <1>5 DEF ContextsInv
<1>11. DispatchInv'
  BY <1>1, <1>2, IdleKeeps DEF IInv, TypeOK
<1> QED BY <1>9, <1>10, <1>11 DEF IInv

(* Load and StartAuthSession keep the invariant.                           *)
LEMMA LoadKeeps ==
  ASSUME IInv, Load \/ StartAuthSession
  PROVE  IInv'
<1>1. cmd.phase = "exec"
  BY DEF Load, StartAuthSession
<1>2. cmd.caller \in Clients
  BY <1>1 DEF IInv, DispatchInv, PhaseInv
<1>3. PICK h \in TpmHandles : CreateEntity(h)
  BY DEF Load, StartAuthSession, FreeSlots, FreeSessHandles, TpmHandles
<1> QED BY <1>2, <1>3, CreateEntityKeeps

(* ContextLoad keeps the invariant: the list does not change, and what the *)
(* TPM loads is one more created entity.                                   *)
LEMMA ContextLoadKeeps ==
  ASSUME IInv, ContextLoad
  PROVE  IInv'
<1>1. /\ tpm \in TpmStates /\ created \in Nat /\ created + 1 \in Nat \ {0}
      /\ GoodList(contexts) /\ useCount \in Nat /\ resetting \subseteq Clients
  BY CurrentList DEF IInv, TypeOK
<1>2. cmd.caller \in Clients
  BY DEF IInv, DispatchInv, PhaseInv, ContextLoad
<1>3. PICK h \in FreeSlots(tpm) : tpm' = AfterCreate(tpm, h, created + 1)
  BY DEF ContextLoad
<1>4. h \in TpmHandles
  BY <1>3 DEF FreeSlots, TpmHandles
<1>5. tpm' \in TpmStates
  BY <1>1, <1>3, <1>4, AfterCreateType
<1>6. /\ cmd' = NoCmd /\ result' = Reply("throw") /\ created' = created + 1
      /\ contexts' = contexts /\ useCount' = useCount /\ resetting' = resetting
  BY DEF ContextLoad, Return
<1>7. result' \in Results
  BY <1>2, <1>6 DEF Reply, Results, ResponseCodes
<1>8. GoodList(contexts') /\ created' \in Nat /\ 1 .. created \subseteq 1 .. created'
  BY <1>1, <1>6
<1>9. TypeOK'
  BY <1>1, <1>5, <1>6, <1>7, <1>8, NoCmdType DEF TypeOK, GoodList
<1>10. ContextsInv'
  BY <1>8 DEF GoodList, ContextsInv
<1> QED BY <1>1, <1>6, <1>9, <1>10, IdleKeeps DEF IInv

(* The commands that create nothing.                                       *)
LEMMA OthersKeep ==
  ASSUME IInv,
         \/ Use \/ EndSession \/ SequenceComplete \/ EventSequenceComplete
         \/ FlushContext \/ ContextSave \/ Clear
  PROVE  IInv'
<1>1. tpm \in TpmStates /\ GoodList(contexts) /\ {"Success", "throw"} \subseteq ResponseCodes
  BY CurrentList DEF IInv, TypeOK, ResponseCodes
<1>2. CASE Use
  BY <1>1, <1>2, SucceedKeeps DEF Use
<1>3. CASE EndSession
  BY <1>1, <1>3, SucceedKeeps, FlushType DEF EndSession
<1>4. CASE SequenceComplete
  BY <1>1, <1>4, SucceedKeeps, FlushType, RemoveList DEF SequenceComplete, Complete
<1>5. CASE EventSequenceComplete
  BY <1>1, <1>5, SucceedKeeps, FlushType, RemoveList DEF EventSequenceComplete, Complete
<1>6. CASE FlushContext
  BY <1>1, <1>6, SucceedKeeps, FlushType DEF FlushContext
<1>7. CASE ContextSave
  BY <1>1, <1>7, SucceedKeeps, AfterSaveType DEF ContextSave
<1>8. CASE Clear
  BY <1>1, <1>8, SucceedKeeps, ClearResumeResetType, RemoveList DEF Clear
<1> QED BY <1>2, <1>3, <1>4, <1>5, <1>6, <1>7, <1>8

-----------------------------------------------------------------------------
(* Entry points other than DispatchCommand                                 *)

(* Between commands only the list of contexts has to be good.              *)
LEMMA BetweenCommands ==
  ASSUME IInv, cmd' = NoCmd, tpm' \in TpmStates, result' \in Results,
         GoodList(contexts'), resetting' \subseteq Clients, UNCHANGED <<useCount, created>>
  PROVE  IInv'
<1>1. TypeOK'
  BY NoCmdType DEF IInv, TypeOK, GoodList
<1>2. ContextsInv'
  BY DEF GoodList, ContextsInv
<1> QED BY <1>1, <1>2, IdleKeeps DEF IInv

(* Dispose keeps the invariant.                                            *)
LEMMA DisposeKeeps ==
  ASSUME IInv, NEW c, Dispose(c)
  PROVE  IInv'
BY BetweenCommands, FlushType, RemoveList, NoCmdType DEF Dispose, IInv, TypeOK

(* PowerCycle keeps the invariant.                                         *)
LEMMA PowerCycleKeeps ==
  ASSUME IInv, NEW c \in Clients, PowerCycle(c)
  PROVE  IInv'
BY BetweenCommands, ClearResumeResetType, CurrentList, NoCmdType DEF PowerCycle, IInv, TypeOK

(* The client whose contexts go has no command in progress.                *)
LEMMA ProcessTpmClearKeeps ==
  ASSUME IInv, NEW c, ProcessTpmClear(c)
  PROVE  IInv'
<1>1. /\ c \in resetting /\ resetting' = resetting \ {c} /\ contexts' = Remove(OwnedBy(c))
      /\ UNCHANGED <<tpm, useCount, created, cmd, result>>
  BY DEF ProcessTpmClear
<1>2. GoodList(contexts')
  BY <1>1, RemoveList
<1>3. TypeOK' /\ ContextsInv'
  BY <1>1, <1>2 DEF IInv, TypeOK, GoodList, ContextsInv
<1>4. cmd.caller # c
  BY <1>1 DEF IInv, DispatchInv, PhaseInv
<1>5. /\ DOMAIN contexts' = {e \in DOMAIN contexts : contexts[e].owner # c}
      /\ \A e \in DOMAIN contexts' : contexts'[e] = contexts[e]
  BY <1>1 DEF Remove, OwnedBy
<1>6. NeedInv'
  BY <1>1, <1>4, <1>5 DEF IInv, DispatchInv, NeedInv
<1>7. RetryInv'
  BY <1>1, <1>5, <1>6 DEF IInv, DispatchInv, RetryInv, NeedInv
<1>8. VictimInv' /\ PhaseInv'
  BY <1>1, <1>5 DEF IInv, DispatchInv, VictimInv, PhaseInv, Loaded
<1> QED BY <1>3, <1>6, <1>7, <1>8 DEF IInv, DispatchInv

(* StartStateSave keeps the invariant.                                     *)
LEMMA StartStateSaveKeeps ==
  ASSUME IInv, StartStateSave
  PROVE  IInv'
<1>1. /\ cmd = NoCmd /\ cmd' = [NoCmd EXCEPT !.phase = "state"] /\ result' = NoResult
      /\ UNCHANGED <<tpm, contexts, useCount, created, resetting>>
  BY DEF StartStateSave
<1>2. /\ cmd' \in CmdRecords /\ cmd'.phase = "state" /\ cmd'.caller = NoClient
      /\ cmd'.retry = FALSE /\ DOMAIN cmd'.need = {}
  <2>1. cmd' \in CmdRecords /\ cmd'.phase = "state"
    BY <1>1, NoCmdType DEF CmdRecords
  <2>2. cmd'.caller = NoClient /\ cmd'.retry = FALSE /\ DOMAIN cmd'.need = {}
    BY <1>1 DEF NoCmd
  <2> QED BY <2>1, <2>2
<1>3. TypeOK' /\ ContextsInv'
  BY <1>1, <1>2, NoCmdType DEF IInv, TypeOK, ContextsInv
<1>4. NeedInv'
  BY <1>2 DEF NeedInv
<1>5. RetryInv' /\ VictimInv' /\ PhaseInv'
  BY <1>1, <1>2, TbsAssumption DEF RetryInv, VictimInv, PhaseInv, IInv, TypeOK
<1> QED BY <1>3, <1>4, <1>5 DEF IInv, DispatchInv

(* ContextSaveNext keeps the invariant.                                    *)
LEMMA ContextSaveNextKeeps ==
  ASSUME IInv, ContextSaveNext
  PROVE  IInv'
<1> DEFINE e == Min(LoadedContexts)
           h == contexts[e].tpmHandle
           y == Evicted(contexts[e], SavedBlob(tpm, h))
<1>1. /\ cmd.phase = "state" /\ LoadedContexts # {}
      /\ SaveRc(tpm, h) = "Success" /\ tpm' = SaveOut(tpm, h)
      /\ contexts' = [contexts EXCEPT ![e] = Evicted(@, SavedBlob(tpm, h))]
      /\ UNCHANGED <<useCount, created, cmd, result, resetting>>
  BY DEF ContextSaveNext
<1>2. LoadedContexts \subseteq DOMAIN contexts /\ LoadedContexts \subseteq Nat
  BY DEF LoadedContexts, IInv, TypeOK
<1>3. e \in DOMAIN contexts
  BY <1>1, <1>2, MinInSet
<1>4. tpm \in TpmStates /\ contexts[e] \in ObjectContext /\ RightKind(contexts[e])
  BY <1>3 DEF IInv, TypeOK, ContextsInv
<1>5. y \in ObjectContext /\ RightKind(y)
  BY <1>1, <1>4, EvictedKind
<1>6. y.owner = contexts[e].owner
  BY <1>4 DEF Evicted, ObjectContext
<1>7. contexts' = [contexts EXCEPT ![e] = y]
  BY <1>1, <1>3
<1>8. tpm' \in TpmStates
  BY <1>1, <1>4, AfterSaveType, FlushType DEF SaveOut
<1>9. DOMAIN cmd.need = {} /\ cmd.retry = FALSE
  BY <1>1 DEF IInv, DispatchInv, PhaseInv, NoCmd
<1> HIDE DEF y, e
<1>10. /\ DOMAIN contexts' = DOMAIN contexts
       /\ contexts' \in [DOMAIN contexts' -> ObjectContext] /\ ContextsInv'
  BY <1>3, <1>5, <1>6, <1>7, ReplaceOne
<1>11. TypeOK'
  BY <1>1, <1>8, <1>10 DEF IInv, TypeOK
<1>12. NeedInv' /\ RetryInv'
  BY <1>1, <1>9 DEF NeedInv, RetryInv
<1>13. VictimInv' /\ PhaseInv'
  BY <1>1 DEF IInv, DispatchInv, VictimInv, PhaseInv
<1> QED BY <1>10, <1>11, <1>12, <1>13 DEF IInv, DispatchInv

(* StateSaveAndReload ends, one way or the other, with the invariant.      *)
LEMMA StateSaveEndKeeps ==
  ASSUME IInv, ContextSaveThrows \/ StateSaveDone
  PROVE  IInv'
<1>1. tpm \in TpmStates /\ GoodList(contexts)
  BY CurrentList DEF IInv, TypeOK
<1>2. CASE ContextSaveThrows
  BY <1>1, <1>2, ThrowKeeps DEF ContextSaveThrows
<1>3. CASE StateSaveDone
  <2>1. /\ tpm' \in TpmStates /\ cmd' = NoCmd
        /\ UNCHANGED <<contexts, useCount, created, result, resetting>>
    BY <1>1, <1>3, ClearResumeResetType DEF StateSaveDone
  <2> QED BY <1>1, <2>1, BetweenCommands DEF IInv, TypeOK
<1> QED BY <1>2, <1>3

-----------------------------------------------------------------------------
(* The theorem                                                             *)

(* The invariant holds in the beginning.                                   *)
LEMMA InitHolds == Init => IInv
<1> SUFFICES ASSUME Init PROVE IInv
  OBVIOUS
<1>1. EmptyTpm \in TpmStates
  BY DEF EmptyTpm, TpmStates, NoEntity
<1>2. contexts = <<>> /\ DOMAIN contexts = {}
  BY DEF Init
<1>3. TypeOK
  BY <1>1, <1>2, NoCmdType DEF Init, TypeOK
<1>4. ContextsInv
  BY <1>2 DEF ContextsInv
<1>5. NeedInv /\ RetryInv /\ VictimInv /\ PhaseInv
  BY TbsAssumption DEF Init, NoCmd, NeedInv, RetryInv, VictimInv, PhaseInv
<1> QED BY <1>3, <1>4, <1>5 DEF IInv, DispatchInv

(* Every step keeps the invariant.                                         *)
LEMMA NextKeeps == IInv /\ [Next]_vars => IInv'
<1> SUFFICES ASSUME IInv, [Next]_vars PROVE IInv'
  OBVIOUS
<1>1. CASE DispatchStep
  <2>1. CASE SkipLoaded \/ LoadObject \/ LoadObjectNeedsSpace \/ AllLoaded
    BY <2>1, SkipLoadedKeeps, LoadObjectKeeps, LoadObjectNeedsSpaceKeeps, AllLoadedKeeps
  <2>2. CASE EvictVictim \/ NothingToEvict \/ ShortenInMakeSpace \/ CannotShortenInMakeSpace
    BY <2>2, EvictVictimKeeps, NothingToEvictKeeps, ShortenInMakeSpaceKeeps,
       CannotShortenInMakeSpaceKeeps
  <2>3. CASE ExecFails \/ ExecNeedsSpace \/ ShortenInDispatch \/ CannotShortenInDispatch
    BY <2>3, ExecFailsKeeps, ExecNeedsSpaceKeeps, ShortenInDispatchKeeps,
       CannotShortenInDispatchKeeps
  <2>4. CASE Load \/ StartAuthSession
    BY <2>4, LoadKeeps
  <2>5. CASE \/ Use \/ EndSession \/ SequenceComplete \/ EventSequenceComplete
             \/ FlushContext \/ ContextSave \/ Clear
    BY <2>5, OthersKeep
  <2>6. CASE ContextLoad
    BY <2>6, ContextLoadKeeps
  <2> QED BY <1>1, <2>1, <2>2, <2>3, <2>4, <2>5, <2>6 DEF DispatchStep
<1>2. CASE StartStateSave
  BY <1>2, StartStateSaveKeeps
<1>3. CASE StateSaveStep
  BY <1>3, ContextSaveNextKeeps, StateSaveEndKeeps DEF StateSaveStep
<1>4. ASSUME NEW c \in Clients, ClientStep(c)
      PROVE  IInv'
  <2>1. ASSUME NEW cc \in Ops \cap Commands, NEW hs \in HandleLists,
               RejectUnknown(c, cc, hs) \/ \E arg \in Args(cc) : Begin(c, cc, hs, arg)
        PROVE  IInv'
    BY <2>1, RejectUnknownKeeps, BeginKeeps
  <2>2. CASE Dispose(c) \/ PowerCycle(c) \/ ProcessTpmClear(c)
    BY <2>2, DisposeKeeps, PowerCycleKeeps, ProcessTpmClearKeeps
  <2> QED BY <1>4, <2>1, <2>2 DEF ClientStep
<1>5. CASE UNCHANGED vars
  BY <1>5 DEF vars, IInv, TypeOK, ContextsInv, DispatchInv, NeedInv, RetryInv, VictimInv,
              PhaseInv, Loaded
<1> QED BY <1>1, <1>2, <1>3, <1>4, <1>5 DEF Next

(* The strengthened invariant holds in every reachable state.              *)
THEOREM Invariance == Spec => []IInv
BY InitHolds, NextKeeps, PTL DEF Spec

(* Every variable of the resource manager keeps its type, and the list     *)
(* ObjectContexts never holds anything but entities that were created.     *)
THEOREM TypeCorrect == Spec => []TypeOK
<1>1. IInv => TypeOK
  BY DEF IInv
<1> QED BY <1>1, Invariance, PTL

-----------------------------------------------------------------------------
(***************************************************************************)
(* Who owns a context and what its owner calls it: both never change, so   *)
(* the names in use stay distinct, and only what its owner does takes a    *)
(* context off the list.  Both hold whatever the clients do, the commands  *)
(* that Tbs does not translate properly included.                          *)
(***************************************************************************)
SameName(e) ==
  contexts'[e].owner = contexts[e].owner /\ contexts'[e].ownerHandle = contexts[e].ownerHandle

(* How a step may change the list: only the contexts in E go ...           *)
OnlyDrops(E) ==
  /\ DOMAIN contexts' = DOMAIN contexts \ E
  /\ \A e \in DOMAIN contexts' : SameName(e)

(* ... or only one context comes, under a name that its owner is not using.*)
OnlyAdds ==
  \E n \in Nat \ DOMAIN contexts :
    /\ DOMAIN contexts' = DOMAIN contexts \cup {n}
    /\ \A e \in DOMAIN contexts : SameName(e)
    /\ Named(contexts'[n].owner, contexts'[n].ownerHandle) = {}

(* The sequence commands carry the handles that they index.                *)
ArgsInv ==
  /\ cmd.cc = "SequenceComplete" => 1 \in DOMAIN cmd.need
  /\ cmd.cc = "EventSequenceComplete" => 2 \in DOMAIN cmd.need

-----------------------------------------------------------------------------
(* What each step does to the list                                         *)

(* An unchanged list.                                                      *)
LEMMA UnchangedDropsNone == contexts' = contexts => OnlyDrops({})
BY DEF OnlyDrops, SameName

(* Fields of one context change, but not its owner or name.                *)
LEMMA ReplacedDropsNone ==
  ASSUME IInv, NEW e \in DOMAIN contexts, NEW x,
         x.owner = contexts[e].owner, x.ownerHandle = contexts[e].ownerHandle,
         contexts' = [contexts EXCEPT ![e] = x]
  PROVE  OnlyDrops({})
BY DEF IInv, TypeOK, OnlyDrops, SameName

(* Remove drops what it is told to.                                        *)
LEMMA RemoveDrops ==
  ASSUME NEW E, contexts' = Remove(E)
  PROVE  OnlyDrops(E)
BY DEF Remove, OnlyDrops, SameName

(* UpdateLastUseCount touches the counters only.                           *)
LEMMA CountingDropsNone ==
  ASSUME NEW ctxs, UpdateLastUseCount(ctxs), ctxs \in [DOMAIN ctxs -> ObjectContext],
         DOMAIN ctxs = DOMAIN contexts,
         \A e \in DOMAIN contexts : /\ ctxs[e].owner = contexts[e].owner
                                    /\ ctxs[e].ownerHandle = contexts[e].ownerHandle
  PROVE  OnlyDrops({})
<1>1. contexts' = [e \in DOMAIN ctxs |->
        IF Positions(e) = {} THEN ctxs[e]
        ELSE [ctxs[e] EXCEPT !.lastUseCount = useCount + Max(Positions(e)) - 1]]
  BY DEF UpdateLastUseCount
<1>2. ASSUME NEW e \in DOMAIN contexts PROVE SameName(e)
  <2> DEFINE n == useCount + Max(Positions(e)) - 1
  <2>1. contexts'[e] = IF Positions(e) = {} THEN ctxs[e] ELSE [ctxs[e] EXCEPT !.lastUseCount = n]
    BY <1>1
  <2> HIDE DEF n
  <2> QED BY <2>1 DEF SameName, ObjectContext
<1> QED BY <1>1, <1>2 DEF OnlyDrops

(* FailedShorten changes at most the handle and the blob of one context.   *)
LEMMA FailedShortenNames ==
  ASSUME IInv, NEW first
  PROVE  /\ DOMAIN FailedShorten(first).ctxs = DOMAIN contexts
         /\ \A e \in DOMAIN contexts :
              /\ FailedShorten(first).ctxs[e].owner = contexts[e].owner
              /\ FailedShorten(first).ctxs[e].ownerHandle = contexts[e].ownerHandle
<1> DEFINE b == contexts[OldestSavedSession].context
           o == OldestSavedSession
<1>1. \/ FailedShorten(first).ctxs = contexts
      \/ FailedShorten(first).ctxs = [contexts EXCEPT ![o].tpmHandle = RhNull]
      \/ FailedShorten(first).ctxs =
           [contexts EXCEPT ![o].tpmHandle = b.handle, ![o].isLoaded = TRUE, ![o].context = NoBlob]
  BY DEF FailedShorten
<1>2. contexts \in [DOMAIN contexts -> ObjectContext]
  BY DEF IInv, TypeOK
<1> DEFINE ctxs == FailedShorten(first).ctxs
           h == b.handle
<1> HIDE DEF b, o, ctxs, h
<1>3. CASE ctxs = contexts
  BY <1>3 DEF ctxs
<1>4. CASE ctxs = [contexts EXCEPT ![o].tpmHandle = RhNull]
  BY <1>2, <1>4 DEF ctxs, ObjectContext
<1>5. CASE ctxs = [contexts EXCEPT ![o].tpmHandle = h, ![o].isLoaded = TRUE, ![o].context = NoBlob]
  BY <1>2, <1>5 DEF ctxs, ObjectContext
<1> QED BY <1>1, <1>3, <1>4, <1>5 DEF ctxs, h

(* Leaving with an error, by ReturnError or Throw.                         *)
LEMMA FailureDropsNone ==
  ASSUME IInv, NEW ctxs, GoodList(ctxs), NEW rc,
         ReturnError(rc, ctxs) \/ Throw(ctxs),
         DOMAIN ctxs = DOMAIN contexts,
         \A e \in DOMAIN contexts : /\ ctxs[e].owner = contexts[e].owner
                                    /\ ctxs[e].ownerHandle = contexts[e].ownerHandle
  PROVE  OnlyDrops({})
<1>1. CASE ReturnError(rc, ctxs)
  BY <1>1, CountingDropsNone DEF ReturnError, GoodList
<1>2. CASE Throw(ctxs)
  BY <1>2 DEF Throw, OnlyDrops, SameName
<1> QED BY <1>1, <1>2

(* LoadObject and its failure change the handle of need[at].               *)
LEMMA LoadObjectDropsNone ==
  ASSUME IInv, LoadObject \/ LoadObjectNeedsSpace
  PROVE  OnlyDrops({})
<1> DEFINE e == cmd.need[cmd.at]
<1>1. \/ \E h : contexts' = [contexts EXCEPT ![e].tpmHandle = h, ![e].isLoaded = TRUE]
      \/ contexts' = [contexts EXCEPT ![e].tpmHandle = RhNull]
  BY DEF LoadObject, LoadObjectNeedsSpace
<1>2. contexts \in [DOMAIN contexts -> ObjectContext]
  BY DEF IInv, TypeOK
<1> HIDE DEF e
<1>3. ASSUME NEW h, contexts' = [contexts EXCEPT ![e].tpmHandle = h, ![e].isLoaded = TRUE]
      PROVE  OnlyDrops({})
  BY <1>2, <1>3 DEF ObjectContext, OnlyDrops, SameName
<1>4. CASE contexts' = [contexts EXCEPT ![e].tpmHandle = RhNull]
  BY <1>2, <1>4 DEF ObjectContext, OnlyDrops, SameName
<1> QED BY <1>1, <1>3, <1>4

(* MakeSpace evicts its victim, StateSaveAndReload the next loaded one.    *)
LEMMA EvictionDropsNone ==
  ASSUME IInv, EvictVictim \/ ContextSaveNext
  PROVE  OnlyDrops({})
<1>1. contexts \in [DOMAIN contexts -> ObjectContext]
  BY DEF IInv, TypeOK
<1>2. CASE EvictVictim
  <2> DEFINE b == SavedBlob(tpm, cmd.victimHandle)
  <2>1. /\ DOMAIN contexts' = DOMAIN contexts
        /\ \A e \in DOMAIN contexts :
             contexts'[e] = contexts[e] \/ contexts'[e] = Evicted(contexts[e], b)
    BY <1>2 DEF EvictVictim
  <2> HIDE DEF b
  <2>2. ASSUME NEW e \in DOMAIN contexts
        PROVE  SameName(e)
    <3>1. contexts[e] \in ObjectContext
      BY <1>1
    <3>2. CASE contexts'[e] = contexts[e]
      BY <3>2 DEF SameName
    <3>3. CASE contexts'[e] = Evicted(contexts[e], b)
      BY <3>1, <3>3 DEF Evicted, ObjectContext, SameName
    <3> QED BY <2>1, <3>2, <3>3
  <2> QED BY <2>1, <2>2 DEF OnlyDrops
<1>3. CASE ContextSaveNext
  <2> DEFINE e == Min(LoadedContexts)
             b == SavedBlob(tpm, contexts[e].tpmHandle)
  <2>1. contexts' = [contexts EXCEPT ![e] = Evicted(@, b)]
    BY <1>3 DEF ContextSaveNext
  <2> HIDE DEF e, b
  <2> QED BY <1>1, <2>1 DEF Evicted, ObjectContext, OnlyDrops, SameName
<1> QED BY <1>2, <1>3

(* ShortenSessionContextGap, whether it succeeds ...                       *)
LEMMA ResaveDropsNone ==
  ASSUME IInv, Resave
  PROVE  OnlyDrops({})
<1> DEFINE o == OldestSavedSession
           h == contexts[o].context.handle
           b == SavedBlob(AfterLoad(tpm, contexts[o].context, h), h)
<1>1. contexts' = [contexts EXCEPT ![o].tpmHandle = h, ![o].context = b]
  BY DEF Resave
<1>2. contexts \in [DOMAIN contexts -> ObjectContext]
  BY DEF IInv, TypeOK
<1> HIDE DEF o, h, b
<1> QED BY <1>1, <1>2 DEF ObjectContext, OnlyDrops, SameName

(* ... or not.                                                             *)
LEMMA CannotShortenDropsNone ==
  ASSUME IInv, CannotShortenInMakeSpace \/ CannotShortenInDispatch
  PROVE  OnlyDrops({})
<1>1. PICK first : \/ MakeSpaceFailed(FailedShorten(first).ctxs)
                   \/ ReturnError("ContextGap", FailedShorten(first).ctxs)
  BY DEF CannotShortenInMakeSpace, CannotShortenInDispatch
<1>2. \E rc : ReturnError(rc, FailedShorten(first).ctxs) \/ Throw(FailedShorten(first).ctxs)
  BY <1>1 DEF MakeSpaceFailed
<1> QED BY <1>2, FailedShortenNames, FailedShortenGood, FailureDropsNone

(* A failing command, with or without MakeSpace.                           *)
LEMMA FailingDropsNone ==
  ASSUME IInv, ExecFails \/ NothingToEvict \/ ContextSaveThrows
  PROVE  OnlyDrops({})
<1>1. \E rc : ReturnError(rc, contexts) \/ Throw(contexts)
  BY DEF ExecFails, NothingToEvict, ContextSaveThrows, MakeSpaceFailed
<1> QED BY <1>1, CurrentList, FailureDropsNone

(* Load and StartAuthSession add a context under a free name.              *)
LEMMA CreationAdds ==
  ASSUME IInv, Load \/ StartAuthSession
  PROVE  OnlyAdds
<1>1. PICK h \in TpmHandles : CreateEntity(h)
  BY DEF Load, StartAuthSession, FreeSlots, FreeSessHandles, TpmHandles
<1> DEFINE n == created + 1
           x(v) == NewContext(cmd.caller, v, h)
<1>2. PICK v \in FreeHandles(cmd.caller, h) :
        contexts' = [e \in DOMAIN contexts \cup {n} |->
          IF e \in DOMAIN contexts THEN contexts[e] ELSE x(v)]
  BY <1>1 DEF CreateEntity
<1>3. n \in Nat \ DOMAIN contexts
  BY DEF IInv, TypeOK
<1>4. Named(cmd.caller, v) = {}
  BY DEF FreeHandles
<1>5. x(v).owner = cmd.caller /\ x(v).ownerHandle = v
  BY DEF NewContext
<1> HIDE DEF n, x
<1> QED BY <1>2, <1>3, <1>4, <1>5 DEF OnlyAdds, SameName

(* The steps that leave the list alone.                                    *)
LEMMA QuietDropsNone ==
  ASSUME \/ SkipLoaded \/ AllLoaded \/ ExecNeedsSpace
         \/ Use \/ EndSession \/ FlushContext \/ ContextSave \/ ContextLoad
         \/ StartStateSave \/ StateSaveDone
         \/ \E c \in Clients : PowerCycle(c)
         \/ \E c, cc, hs : RejectUnknown(c, cc, hs) \/ \E arg : Begin(c, cc, hs, arg)
         \/ UNCHANGED vars
  PROVE  OnlyDrops({})
<1>1. contexts' = contexts
  BY DEF SkipLoaded, AllLoaded, ExecNeedsSpace, Use, EndSession, FlushContext, ContextSave,
         ContextLoad, Succeed, StartStateSave, StateSaveDone, PowerCycle, RejectUnknown, Begin, vars
<1> QED BY <1>1, UnchangedDropsNone

(* The commands that remove contexts remove the caller's.                  *)
LEMMA RemovalDropsOwn ==
  ASSUME IInv, ArgsInv, SequenceComplete \/ EventSequenceComplete \/ Clear
  PROVE  /\ cmd' = NoCmd
         /\ \E E : OnlyDrops(E) /\ E \cap DOMAIN contexts \subseteq OwnedBy(cmd.caller)
<1>1. cmd.cc \in {"SequenceComplete", "EventSequenceComplete", "Clear"}
      /\ cmd.phase = "exec" /\ cmd' = NoCmd
  BY DEF SequenceComplete, EventSequenceComplete, Complete, Clear, Succeed, Return
<1>2. \A i \in DOMAIN cmd.need :
        {cmd.need[i]} \cap DOMAIN contexts \subseteq OwnedBy(cmd.caller)
  BY DEF IInv, TypeOK, DispatchInv, NeedInv, OwnedBy, Temporary
<1>3. CASE SequenceComplete
  <2>1. 1 \in DOMAIN cmd.need
    BY <1>3 DEF ArgsInv, SequenceComplete, Complete, Succeed
  <2>2. contexts' = Remove({cmd.need[1]})
    BY <1>3 DEF SequenceComplete, Complete, Succeed
  <2> QED BY <1>1, <1>2, <2>1, <2>2, RemoveDrops
<1>4. CASE EventSequenceComplete
  <2>1. 2 \in DOMAIN cmd.need
    BY <1>4 DEF ArgsInv, EventSequenceComplete, Complete, Succeed
  <2>2. contexts' = Remove({cmd.need[2]})
    BY <1>4 DEF EventSequenceComplete, Complete, Succeed
  <2> QED BY <1>1, <1>2, <2>1, <2>2, RemoveDrops
<1>5. CASE Clear
  <2> DEFINE E == {e \in OwnedBy(cmd.caller) : contexts[e].slotType # "SessionSlot"}
  <2>1. contexts' = Remove(E) /\ E \subseteq OwnedBy(cmd.caller)
    BY <1>5 DEF Clear, Succeed
  <2> HIDE DEF E
  <2> QED BY <1>1, <2>1, RemoveDrops
<1> QED BY <1>3, <1>4, <1>5

(* Every step, on the list: nothing goes, or something comes, or the owner *)
(* of what goes is the caller of a command that ends, a client that leaves *)
(* or one whose power cycle completes.                                     *)
LEMMA ListStep ==
  ASSUME IInv, ArgsInv, [Next]_vars
  PROVE  \/ OnlyDrops({})
         \/ OnlyAdds
         \/ \E c, E : /\ OnlyDrops(E) /\ E \cap DOMAIN contexts \subseteq OwnedBy(c)
                      /\ \/ cmd.caller = c /\ cmd' = NoCmd
                         \/ c \in resetting \ resetting'
                         \/ Dispose(c)
<1>1. CASE DispatchStep
  <2>1. CASE \/ SkipLoaded \/ AllLoaded \/ ExecNeedsSpace
             \/ Use \/ EndSession \/ FlushContext \/ ContextSave \/ ContextLoad
    BY <2>1, QuietDropsNone
  <2>2. CASE LoadObject \/ LoadObjectNeedsSpace
    BY <2>2, LoadObjectDropsNone
  <2>3. CASE EvictVictim
    BY <2>3, EvictionDropsNone
  <2>4. CASE ShortenInMakeSpace \/ ShortenInDispatch
    BY <2>4, ResaveDropsNone DEF ShortenInMakeSpace, ShortenInDispatch
  <2>5. CASE CannotShortenInMakeSpace \/ CannotShortenInDispatch
    BY <2>5, CannotShortenDropsNone
  <2>6. CASE ExecFails \/ NothingToEvict
    BY <2>6, FailingDropsNone
  <2>7. CASE Load \/ StartAuthSession
    BY <2>7, CreationAdds
  <2>8. CASE SequenceComplete \/ EventSequenceComplete \/ Clear
    BY <2>8, RemovalDropsOwn
  <2> QED
    BY <1>1, <2>1, <2>2, <2>3, <2>4, <2>5, <2>6, <2>7, <2>8 DEF DispatchStep
<1>2. CASE StartStateSave \/ StateSaveDone
  BY <1>2, QuietDropsNone
<1>3. CASE ContextSaveNext
  BY <1>3, EvictionDropsNone
<1>4. CASE ContextSaveThrows
  BY <1>4, FailingDropsNone
<1>5. ASSUME NEW c \in Clients, ClientStep(c)
      PROVE  \/ OnlyDrops({})
             \/ \E E : /\ OnlyDrops(E) /\ E \cap DOMAIN contexts \subseteq OwnedBy(c)
                       /\ c \in resetting \ resetting' \/ Dispose(c)
  <2>1. CASE \E cc, hs : RejectUnknown(c, cc, hs) \/ \E arg : Begin(c, cc, hs, arg)
    BY <2>1, QuietDropsNone
  <2>2. CASE PowerCycle(c)
    BY <2>2, QuietDropsNone
  <2>3. CASE Dispose(c) \/ ProcessTpmClear(c)
    <3>1. contexts' = Remove(OwnedBy(c)) /\ (c \in resetting \ resetting' \/ Dispose(c))
      BY <2>3 DEF Dispose, ProcessTpmClear
    <3>2. OnlyDrops(OwnedBy(c))
      BY <3>1, RemoveDrops
    <3> QED BY <3>1, <3>2
  <2> QED BY <1>5, <2>1, <2>2, <2>3 DEF ClientStep
<1>6. CASE UNCHANGED vars
  BY <1>6, QuietDropsNone
<1> QED BY <1>1, <1>2, <1>3, <1>4, <1>5, <1>6 DEF Next, StateSaveStep

-----------------------------------------------------------------------------
(* The command keeps its arguments until it returns                        *)

LEMMA CallMakeSpaceKeepsArguments ==
  ASSUME IInv, NEW type, NEW retry, CallMakeSpace(type, retry)
  PROVE  cmd'.need = cmd.need /\ cmd'.cc = cmd.cc
<1>1. cmd \in CmdRecords
  BY DEF IInv, TypeOK
<1>2. PICK from, e, h :
        cmd' = [cmd EXCEPT !.phase = "space", !.from = from, !.type = type,
                           !.retry = retry, !.firstSeq = 0, !.victim = e, !.victimHandle = h]
  BY DEF CallMakeSpace
<1> QED BY <1>1, <1>2 DEF CmdRecords

(* After Begin, only the end of the command changes what it is about.      *)
LEMMA CommandStep ==
  ASSUME IInv, [Next]_vars
  PROVE  \/ cmd'.need = cmd.need /\ cmd'.cc = cmd.cc
         \/ cmd' = NoCmd \/ cmd' = [NoCmd EXCEPT !.phase = "state"]
         \/ \E c \in Clients, cc \in Commands, hs \in HandleLists : \E arg : Begin(c, cc, hs, arg)
<1>1. cmd \in CmdRecords
  BY DEF IInv, TypeOK
<1>2. CASE SkipLoaded \/ LoadObject \/ LoadObjectNeedsSpace \/ AllLoaded
  <2>1. CASE SkipLoaded \/ LoadObject
    BY <1>1, <2>1 DEF SkipLoaded, LoadObject, CmdRecords
  <2>2. CASE LoadObjectNeedsSpace
    BY <2>2, CallMakeSpaceKeepsArguments DEF LoadObjectNeedsSpace
  <2>3. CASE AllLoaded
    <3>1. PICK phys : cmd' = [cmd EXCEPT !.phase = "exec", !.phys = phys]
      BY <2>3 DEF AllLoaded
    <3> QED BY <1>1, <3>1 DEF CmdRecords
  <2> QED BY <1>2, <2>1, <2>2, <2>3
<1>3. CASE EvictVictim \/ ShortenInMakeSpace \/ ShortenInDispatch \/ ExecNeedsSpace
  <2>1. CASE EvictVictim
    BY <1>1, <2>1 DEF EvictVictim, CmdRecords
  <2>2. CASE ShortenInMakeSpace
    BY <1>1, <2>2 DEF ShortenInMakeSpace, CmdRecords
  <2>3. CASE ShortenInDispatch
    BY <1>1, <2>3 DEF ShortenInDispatch, CmdRecords
  <2>4. CASE ExecNeedsSpace
    BY <2>4, CallMakeSpaceKeepsArguments DEF ExecNeedsSpace
  <2> QED BY <1>3, <2>1, <2>2, <2>3, <2>4
<1>4. CASE \/ NothingToEvict \/ CannotShortenInMakeSpace \/ CannotShortenInDispatch
           \/ ExecFails \/ ContextSaveThrows
  BY <1>4 DEF NothingToEvict, CannotShortenInMakeSpace, CannotShortenInDispatch, ExecFails,
              ContextSaveThrows, MakeSpaceFailed, ReturnError, Throw, Return
<1>5. CASE \/ Load \/ StartAuthSession \/ Use \/ EndSession \/ SequenceComplete
           \/ EventSequenceComplete \/ FlushContext \/ ContextSave \/ ContextLoad \/ Clear
  BY <1>5 DEF Load, StartAuthSession, CreateEntity, Use, EndSession, SequenceComplete,
              EventSequenceComplete, Complete, FlushContext, ContextSave, ContextLoad, Clear, Succeed, Return
<1>6. CASE StartStateSave \/ ContextSaveNext \/ StateSaveDone
  BY <1>6 DEF StartStateSave, ContextSaveNext, StateSaveDone
<1>7. ASSUME NEW c \in Clients, ClientStep(c)
      PROVE  \/ cmd' = cmd
             \/ \E cc \in Commands, hs \in HandleLists : \E arg : Begin(c, cc, hs, arg)
  BY <1>7 DEF ClientStep, RejectUnknown, Dispose, PowerCycle, ProcessTpmClear
<1>8. CASE UNCHANGED vars
  BY <1>8 DEF vars
<1> QED BY <1>2, <1>3, <1>4, <1>5, <1>6, <1>7, <1>8 DEF Next, DispatchStep, StateSaveStep

(* A step keeps what is known of the handles a command references.         *)
LEMMA ArgsKept ==
  ASSUME IInv, ArgsInv, [Next]_vars
  PROVE  ArgsInv'
<1>1. CASE cmd'.need = cmd.need /\ cmd'.cc = cmd.cc
  BY <1>1 DEF ArgsInv
<1>2. CASE cmd' = NoCmd \/ cmd' = [NoCmd EXCEPT !.phase = "state"]
  BY <1>2 DEF ArgsInv, NoCmd
<1>3. ASSUME NEW c, NEW cc \in Commands, NEW hs \in HandleLists, NEW arg, Begin(c, cc, hs, arg)
      PROVE  ArgsInv'
  <2>1. Legal(cc, hs) /\ cmd'.cc = cc /\ DOMAIN cmd'.need = DOMAIN hs
    BY <1>3 DEF Begin, NoCmd
  <2>2. PICK n \in Nat : DOMAIN hs = 1 .. n /\ Len(hs) = n
    BY TbsAssumption DEF HandleLists
  <2>3. (cc = "SequenceComplete" => Len(hs) >= 1) /\ (cc = "EventSequenceComplete" => Len(hs) >= 2)
    BY <2>1 DEF Legal, SessionsAfter
  <2> QED BY <2>1, <2>2, <2>3 DEF ArgsInv
<1> QED BY <1>1, <1>2, <1>3, CommandStep

-----------------------------------------------------------------------------
(* The theorems                                                            *)

NamesInv == ArgsInv /\ DistinctNames

(* A step keeps the names distinct: it drops contexts, or adds one under a *)
(* name that GetFreeHandle found free.                                     *)
LEMMA DistinctKept ==
  ASSUME IInv, ArgsInv, DistinctNames, [Next]_vars
  PROVE  DistinctNames'
<1>1. ASSUME NEW E, OnlyDrops(E) PROVE DistinctNames'
  BY <1>1 DEF OnlyDrops, SameName, DistinctNames
<1>2. CASE OnlyAdds
  BY <1>2 DEF OnlyAdds, SameName, DistinctNames, Named
<1> QED BY <1>1, <1>2, ListStep

(* NamesInv is inductive relative to IInv.                                 *)
LEMMA NamesInvariance == Spec => [](IInv /\ NamesInv)
<1>1. Init => NamesInv
  BY DEF Init, NamesInv, ArgsInv, DistinctNames, NoCmd
<1>2. IInv /\ NamesInv /\ [Next]_vars => NamesInv'
  BY ArgsKept, DistinctKept DEF NamesInv
<1> QED BY <1>1, <1>2, Invariance, PTL DEF Spec

(* No client ever has two entities under one virtual handle, so GetContext *)
(* finds the one that the client means.                                    *)
THEOREM NamesAreDistinct == Spec => []DistinctNames
<1>1. IInv /\ NamesInv => DistinctNames
  BY DEF NamesInv
<1> QED BY <1>1, NamesInvariance, PTL

=============================================================================
