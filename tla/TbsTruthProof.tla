---------------------------- MODULE TbsTruthProof ----------------------------
(***************************************************************************)
(* What Tbs believes about the TPM is true: a context that is marked as    *)
(* loaded names the TPM handle of its entity, and any other one holds a    *)
(* context blob of it that the TPM accepts.  From this it follows that the *)
(* handles in the command buffer stay right while other entities are       *)
(* moved around, that no entity is lost, and that no two contexts claim    *)
(* the same TPM handle.  The second half of the module shows that each     *)
(* client therefore has a TPM of its own.                                  *)
(*                                                                         *)
(* It takes clients that do not empty slots behind the back of Tbs: the    *)
(* operations in BypassOps do, because Tbs does not look at their effect   *)
(* on the TPM (or on the entities of other clients).                       *)
(***************************************************************************)
EXTENDS TbsTypeProof

BypassOps == {"EndSession", "FlushContext", "ContextSave", "ContextLoad", "Clear",
              "PowerCycle"}

(* The blob b of entity e is one that the TPM t still accepts.             *)
BlobGood(t, b, e) ==
  /\ b.ent = e
  /\ b.handle = "Transient" => b.epoch = t.epoch
  /\ b.handle # "Transient" =>
       b.handle \in SavedSessHandles(t) /\ t.sess[b.handle] = e /\ t.seq[b.handle] = b.seq

Faithful(t, e, x) ==
  /\ x.isLoaded => EntityAt(t, x.tpmHandle) = e
  /\ ~x.isLoaded => BlobGood(t, x.context, e)
  /\ ~x.isLoaded /\ x.tpmHandle \in TpmHandles =>
       x.tpmHandle \in SessHandles /\ x.tpmHandle = x.context.handle

AllFaithful(t, ctxs) == \A e \in DOMAIN ctxs : Faithful(t, e, ctxs[e])

-----------------------------------------------------------------------------
(* The TPM commands, and the contexts that they do not concern             *)

(* Flushing resident entities other than f.                                *)
LEMMA FlushFaithful ==
  ASSUME NEW t \in TpmStates, NEW H, NEW x \in ObjectContext, RightKind(x),
         NEW f \in Nat \ {0}, Faithful(t, f, x),
         \A h \in H : h \in TpmHandles => Resident(t, h) /\ EntityAt(t, h) # f
  PROVE  Faithful(Flush(t, H), f, x)
<1> DEFINE u == Flush(t, H)
<1>1. /\ u.slot = [h \in ObjHandles |-> IF h \in H THEN NoEntity ELSE t.slot[h]]
      /\ u.sess = [h \in SessHandles |-> IF h \in H THEN NoEntity ELSE t.sess[h]]
      /\ u.seq  = [h \in SessHandles |-> IF h \in H THEN 0 ELSE t.seq[h]]
      /\ u.loaded = t.loaded \ H /\ u.epoch = t.epoch
  BY DEF Flush, TpmStates
<1> HIDE DEF u
<1>2. CASE x.isLoaded
  <2>1. x.tpmHandle \in TpmHandles /\ EntityAt(t, x.tpmHandle) = f
    BY <1>2 DEF RightKind, Faithful
  <2>2. x.tpmHandle \notin H
    BY <2>1
  <2>3. EntityAt(u, x.tpmHandle) = f
    BY <1>1, <2>1, <2>2 DEF EntityAt, TpmHandles, TpmStates
  <2> QED BY <1>2, <2>3 DEF Faithful, u
<1>3. CASE ~x.isLoaded
  <2> DEFINE b == x.context
  <2>1. BlobGood(t, b, f)
    BY <1>3 DEF Faithful
  <2>2. ASSUME b.handle = "Transient" PROVE BlobGood(u, b, f)
    BY <1>1, <2>1, <2>2 DEF BlobGood
  <2>3. ASSUME b.handle # "Transient" PROVE BlobGood(u, b, f)
    <3>1. b.handle \in SessHandles /\ t.sess[b.handle] = f /\ b.handle \notin t.loaded
      BY <2>1, <2>3 DEF BlobGood, SavedSessHandles
    <3>2. b.handle \notin H
      BY <3>1, ResourceAssumption DEF Resident, EntityAt, TpmHandles
    <3>3. b.handle \in SavedSessHandles(u) /\ u.sess[b.handle] = f /\ u.seq[b.handle] = t.seq[b.handle]
      BY <1>1, <3>1, <3>2 DEF SavedSessHandles, NoEntity
    <3> QED BY <2>1, <2>3, <3>3 DEF BlobGood
  <2>4. BlobGood(u, b, f)
    BY <2>2, <2>3
  <2> QED BY <1>3, <2>4 DEF Faithful, u
<1> QED BY <1>2, <1>3

(* Saving an entity other than f.                                          *)
LEMMA AfterSaveFaithful ==
  ASSUME NEW t \in TpmStates, NEW h, NEW x \in ObjectContext,
         NEW f \in Nat \ {0}, Faithful(t, f, x), Resident(t, h), EntityAt(t, h) # f
  PROVE  Faithful(AfterSave(t, h), f, x)
<1>1. CASE h \notin SessHandles
  BY <1>1 DEF AfterSave
<1>2. CASE h \in SessHandles
  <2> DEFINE u == AfterSave(t, h)
  <2>1. /\ u.slot = t.slot /\ u.sess = t.sess /\ u.loaded = t.loaded \ {h} /\ u.epoch = t.epoch
        /\ u.seq = [t.seq EXCEPT ![h] = t.counter]
    BY <1>2 DEF AfterSave, TpmStates
  <2>2. h \in t.loaded
    BY <1>2, ResourceAssumption DEF Resident, EntityAt
  <2> HIDE DEF u
  <2>3. CASE x.isLoaded
    BY <1>2, <2>1, <2>3 DEF Faithful, EntityAt, u
  <2>4. CASE ~x.isLoaded
    <3>1. BlobGood(t, x.context, f)
      BY <2>4 DEF Faithful
    <3>2. BlobGood(u, x.context, f)
      BY <2>1, <2>2, <3>1 DEF BlobGood, SavedSessHandles, TpmStates
    <3> QED BY <2>4, <3>2 DEF Faithful, u
  <2> QED BY <2>3, <2>4
<1> QED BY <1>1, <1>2

(* An object is flushed after it was saved.                                *)
LEMMA SaveOutFaithful ==
  ASSUME NEW t \in TpmStates, NEW h, NEW x \in ObjectContext, RightKind(x),
         NEW f \in Nat \ {0}, Faithful(t, f, x), Resident(t, h), EntityAt(t, h) # f
  PROVE  Faithful(SaveOut(t, h), f, x)
<1>1. CASE h \in SessHandles
  BY <1>1, AfterSaveFaithful DEF SaveOut
<1>2. CASE h \notin SessHandles
  <2>1. SaveOut(t, h) = Flush(t, {h})
    BY <1>2 DEF SaveOut, AfterSave
  <2> QED BY <2>1, FlushFaithful
<1> QED BY <1>1, <1>2

(* The blob of a saved entity is good.                                     *)
LEMMA SavedBlobGood ==
  ASSUME NEW t \in TpmStates, NEW h, SaveRc(t, h) = "Success"
  PROVE  BlobGood(SaveOut(t, h), SavedBlob(t, h), EntityAt(t, h))
<1>1. /\ h \in TpmHandles /\ Resident(t, h)
      /\ SavedBlob(t, h).ent = EntityAt(t, h)
      /\ SavedBlob(t, h).handle = IF h \in SessHandles THEN h ELSE "Transient"
  BY SavedBlobType
<1>2. CASE h \notin SessHandles
  <2>1. SaveOut(t, h).epoch = t.epoch
    BY <1>2 DEF SaveOut, AfterSave, Flush, TpmStates
  <2> QED BY <1>1, <1>2, <2>1 DEF BlobGood, SavedBlob
<1>3. CASE h \in SessHandles
  <2>1. h \in t.loaded /\ EntityAt(t, h) = t.sess[h] /\ t.sess[h] # NoEntity
    BY <1>1, <1>3, ResourceAssumption DEF Resident, EntityAt
  <2>2. /\ SaveOut(t, h).sess = t.sess /\ SaveOut(t, h).loaded = t.loaded \ {h}
        /\ SaveOut(t, h).seq[h] = t.counter
    BY <1>3 DEF SaveOut, AfterSave, TpmStates
  <2>3. SavedBlob(t, h).seq = t.counter
    BY <1>3 DEF SavedBlob
  <2> QED BY <1>1, <1>3, <2>1, <2>2, <2>3, ResourceAssumption DEF BlobGood, SavedSessHandles
<1> QED BY <1>2, <1>3

(* Loading an entity other than f, and what it loads.                      *)
LEMMA AfterLoadFaithful ==
  ASSUME NEW t \in TpmStates, NEW b \in Blobs, LoadRc(t, b) = "Success",
         NEW h \in LoadHandles(t, b)
  PROVE  /\ EntityAt(AfterLoad(t, b, h), h) = b.ent
         /\ \A x \in ObjectContext, f \in Nat \ {0} :
              Faithful(t, f, x) /\ f # b.ent => Faithful(AfterLoad(t, b, h), f, x)
<1> DEFINE u == AfterLoad(t, b, h)
<1>1. /\ h \in TpmHandles /\ ~Resident(t, h)
      /\ h \in SessHandles => h = b.handle /\ t.sess[h] = b.ent
  BY LoadHandlesType
<1>2. CASE h \in ObjHandles
  <2>1. u.slot = [t.slot EXCEPT ![h] = b.ent] /\ u.sess = t.sess /\ u.loaded = t.loaded
        /\ u.seq = t.seq /\ u.epoch = t.epoch
    BY <1>2 DEF AfterLoad, TpmStates
  <2> HIDE DEF u
  <2>2. EntityAt(u, h) = b.ent
    BY <1>2, <2>1 DEF EntityAt, TpmStates
  <2>3. ASSUME NEW g, Resident(t, g) PROVE EntityAt(u, g) = EntityAt(t, g)
    BY <1>1, <1>2, <2>1, <2>3 DEF EntityAt, Resident, TpmStates
  <2>4. ASSUME NEW x \in ObjectContext, NEW f \in Nat \ {0}, Faithful(t, f, x)
        PROVE  Faithful(u, f, x)
    <3>1. CASE x.isLoaded
      BY <2>3, <2>4, <3>1 DEF Faithful, Resident, NoEntity
    <3>2. CASE ~x.isLoaded
      <4>1. BlobGood(t, x.context, f)
        BY <2>4, <3>2 DEF Faithful
      <4>2. BlobGood(u, x.context, f)
        BY <2>1, <4>1 DEF BlobGood, SavedSessHandles
      <4> QED BY <2>4, <3>2, <4>2 DEF Faithful
    <3> QED BY <3>1, <3>2
  <2> QED BY <2>2, <2>4 DEF u
<1>3. CASE h \in SessHandles
  <2>1. u.slot = t.slot /\ u.sess = t.sess /\ u.loaded = t.loaded \cup {h}
        /\ u.seq = [t.seq EXCEPT ![h] = 0] /\ u.epoch = t.epoch
    BY <1>3, ResourceAssumption DEF AfterLoad, TpmStates
  <2> HIDE DEF u
  <2>2. EntityAt(u, h) = b.ent
    BY <1>1, <1>3, <2>1, ResourceAssumption DEF EntityAt
  <2>3. ASSUME NEW g, Resident(t, g) PROVE EntityAt(u, g) = EntityAt(t, g)
    BY <1>1, <2>1, <2>3 DEF EntityAt, Resident
  <2>4. ASSUME NEW x \in ObjectContext, NEW f \in Nat \ {0}, Faithful(t, f, x), f # b.ent
        PROVE  Faithful(u, f, x)
    <3>1. CASE x.isLoaded
      BY <2>3, <2>4, <3>1 DEF Faithful, Resident, NoEntity
    <3>2. CASE ~x.isLoaded
      <4>1. BlobGood(t, x.context, f)
        BY <2>4, <3>2 DEF Faithful
      <4>2. BlobGood(u, x.context, f)
        BY <1>1, <1>3, <2>1, <2>4, <4>1 DEF BlobGood, SavedSessHandles, TpmStates
      <4> QED BY <2>4, <3>2, <4>2 DEF Faithful
    <3> QED BY <3>1, <3>2
  <2> QED BY <2>2, <2>4 DEF u
<1> QED BY <1>1, <1>2, <1>3 DEF TpmHandles

(* A new entity in a free slot, or a new session with a free handle.       *)
LEMMA AfterCreateFaithful ==
  ASSUME NEW t \in TpmStates, NEW h \in FreeSlots(t) \cup FreeSessHandles(t), NEW n \in Nat \ {0}
  PROVE  /\ EntityAt(AfterCreate(t, h, n), h) = n
         /\ \A x \in ObjectContext, f \in Nat \ {0} :
              Faithful(t, f, x) => Faithful(AfterCreate(t, h, n), f, x)
<1> DEFINE u == AfterCreate(t, h, n)
<1>1. CASE h \in FreeSlots(t)
  <2>1. /\ h \in ObjHandles /\ t.slot[h] = NoEntity
        /\ u.slot = [t.slot EXCEPT ![h] = n] /\ u.sess = t.sess /\ u.loaded = t.loaded
        /\ u.seq = t.seq /\ u.epoch = t.epoch
    BY <1>1 DEF AfterCreate, TpmStates, FreeSlots
  <2> HIDE DEF u
  <2>2. EntityAt(u, h) = n
    BY <2>1 DEF EntityAt, TpmStates
  <2>3. ASSUME NEW g, Resident(t, g) PROVE EntityAt(u, g) = EntityAt(t, g)
    BY <2>1, <2>3 DEF EntityAt, Resident, TpmStates
  <2>4. ASSUME NEW x \in ObjectContext, NEW f \in Nat \ {0}, Faithful(t, f, x)
        PROVE  Faithful(u, f, x)
    <3>1. CASE x.isLoaded
      BY <2>3, <2>4, <3>1 DEF Faithful, Resident, NoEntity
    <3>2. CASE ~x.isLoaded
      <4>1. BlobGood(t, x.context, f)
        BY <2>4, <3>2 DEF Faithful
      <4>2. BlobGood(u, x.context, f)
        BY <2>1, <4>1 DEF BlobGood, SavedSessHandles
      <4> QED BY <2>4, <3>2, <4>2 DEF Faithful
    <3> QED BY <3>1, <3>2
  <2> QED BY <2>2, <2>4 DEF u
<1>2. CASE h \in FreeSessHandles(t)
  <2>1. /\ h \in SessHandles /\ h \notin ObjHandles /\ t.sess[h] = NoEntity
        /\ u.slot = t.slot /\ u.sess = [t.sess EXCEPT ![h] = n] /\ u.loaded = t.loaded \cup {h}
        /\ u.seq = t.seq /\ u.epoch = t.epoch
    BY <1>2, ResourceAssumption DEF AfterCreate, TpmStates, FreeSessHandles
  <2> HIDE DEF u
  <2>2. EntityAt(u, h) = n
    BY <2>1 DEF EntityAt, TpmStates
  <2>3. ASSUME NEW g, Resident(t, g) PROVE EntityAt(u, g) = EntityAt(t, g)
    BY <2>1, <2>3 DEF EntityAt, Resident, TpmStates
  <2>4. ASSUME NEW x \in ObjectContext, NEW f \in Nat \ {0}, Faithful(t, f, x)
        PROVE  Faithful(u, f, x)
    <3>1. CASE x.isLoaded
      BY <2>3, <2>4, <3>1 DEF Faithful, Resident, NoEntity
    <3>2. CASE ~x.isLoaded
      <4>1. BlobGood(t, x.context, f)
        BY <2>4, <3>2 DEF Faithful
      <4>2. BlobGood(u, x.context, f)
        BY <2>1, <4>1 DEF BlobGood, SavedSessHandles, TpmStates
      <4> QED BY <2>4, <3>2, <4>2 DEF Faithful
    <3> QED BY <3>1, <3>2
  <2> QED BY <2>2, <2>4 DEF u
<1> QED BY <1>1, <1>2

(* The power cycle after Shutdown(State) spares what is saved.             *)
LEMMA ResumeFaithful ==
  ASSUME NEW t \in TpmStates, NEW x \in ObjectContext, ~x.isLoaded,
         NEW f \in Nat \ {0}, Faithful(t, f, x)
  PROVE  Faithful(AfterResume(t), f, x)
<1> DEFINE u == AfterResume(t)
           H == ObjHandles \cup t.loaded
<1>1. /\ u.sess = [h \in SessHandles |-> IF h \in H THEN NoEntity ELSE t.sess[h]]
      /\ u.seq  = [h \in SessHandles |-> IF h \in H THEN 0 ELSE t.seq[h]]
      /\ u.loaded = t.loaded \ H /\ u.epoch = t.epoch
  BY DEF AfterResume, Flush, TpmStates
<1> HIDE DEF u
<1>2. BlobGood(t, x.context, f)
  BY DEF Faithful
<1>3. BlobGood(u, x.context, f)
  BY <1>1, <1>2, ResourceAssumption DEF BlobGood, SavedSessHandles, NoEntity
<1> QED BY <1>3 DEF Faithful, u

-----------------------------------------------------------------------------
(* The invariant                                                           *)

(* The loop around TpmDevice.DispatchCommand, and LoadEntities, with the   *)
(* MakeSpace that they may be in.                                          *)
InExec == cmd.phase = "exec" \/ (cmd.phase = "space" /\ cmd.from = "exec")
InLoad == cmd.phase = "load" \/ (cmd.phase = "space" /\ cmd.from = "load")

(* The command buffer holds the handles of loaded contexts.                *)
BufferInv ==
  /\ ~InExec => cmd.phys = <<>>
  /\ InExec =>
       /\ DOMAIN cmd.phys = DOMAIN cmd.need
       /\ \A i \in DOMAIN cmd.need :
            /\ cmd.need[i] = Temporary => cmd.phys[i] = Perm
            /\ cmd.need[i] # Temporary => /\ cmd.phys[i] = contexts[cmd.need[i]].tpmHandle
                                          /\ Loaded(contexts[cmd.need[i]])

(* What LoadEntities has loaded so far stays loaded ...                    *)
ProgressInv ==
  InLoad => \A i \in DOMAIN cmd.need :
              i < cmd.at /\ cmd.need[i] # Temporary => Loaded(contexts[cmd.need[i]])

(* ... because MakeSpace spares the entities of the command.               *)
SpareInv == cmd.phase = "space" /\ cmd.victim # 0 => cmd.victim \in DOMAIN contexts \ Pinned

OpsInv == resetting = {} /\ cmd.cc \in Ops \cup {"none"}

TruthInv == AllFaithful(tpm, contexts) /\ BufferInv /\ ProgressInv /\ SpareInv /\ OpsInv

-----------------------------------------------------------------------------
(* Changes of the TPM and of the list together                             *)

(* A context whose handle is a real one is faithful as a loaded one.       *)
LEMMA LoadedEntity ==
  ASSUME IInv, AllFaithful(tpm, contexts), NEW e \in DOMAIN contexts,
         Loaded(contexts[e]), contexts[e].tpmHandle # RhNull
  PROVE  /\ contexts[e].isLoaded /\ contexts[e].tpmHandle \in TpmHandles
         /\ EntityAt(tpm, contexts[e].tpmHandle) = e
         /\ e \in Nat \ {0} /\ Resident(tpm, contexts[e].tpmHandle)
<1>1. contexts[e].isLoaded
  BY DEF Loaded
<1>2. RightKind(contexts[e]) /\ Faithful(tpm, e, contexts[e]) /\ e \in Nat \ {0}
  BY DEF IInv, TypeOK, ContextsInv, AllFaithful
<1> QED BY <1>1, <1>2 DEF RightKind, Faithful, Resident, NoEntity

(* The facts about one context of the list.                                *)
LEMMA ListedContext ==
  ASSUME IInv, AllFaithful(tpm, contexts), NEW e \in DOMAIN contexts
  PROVE  /\ e \in Nat \ {0} /\ contexts[e] \in ObjectContext
         /\ RightKind(contexts[e]) /\ Faithful(tpm, e, contexts[e])
BY DEF IInv, TypeOK, ContextsInv, AllFaithful

(* Only three fields of a context matter.                                  *)
LEMMA SameFaithful ==
  ASSUME NEW t, NEW e, NEW x, Faithful(t, e, x),
         NEW y, y.isLoaded = x.isLoaded, y.context = x.context,
         y.tpmHandle = x.tpmHandle \/ (~x.isLoaded /\ y.tpmHandle = RhNull)
  PROVE  Faithful(t, e, y)
BY HandleKinds DEF Faithful

(* An eviction, by MakeSpace or StateSaveAndReload.                        *)
LEMMA EvictionFaithful ==
  ASSUME IInv, AllFaithful(tpm, contexts), NEW e \in DOMAIN contexts, Loaded(contexts[e]),
         SaveRc(tpm, contexts[e].tpmHandle) = "Success",
         tpm' = SaveOut(tpm, contexts[e].tpmHandle),
         DOMAIN contexts' = DOMAIN contexts,
         \A f \in DOMAIN contexts :
           contexts'[f] = IF f = e THEN Evicted(contexts[e], SavedBlob(tpm, contexts[e].tpmHandle))
                                   ELSE contexts[f]
  PROVE  AllFaithful(tpm', contexts')
<1> DEFINE h == contexts[e].tpmHandle
           b == SavedBlob(tpm, h)
<1>1. tpm \in TpmStates /\ contexts[e] \in ObjectContext
  BY ListedContext DEF IInv, TypeOK
<1>2. h # RhNull
  BY <1>1, SavedBlobType, HandleKinds
<1>3. Resident(tpm, h) /\ EntityAt(tpm, h) = e
  BY <1>2, LoadedEntity
<1>4. BlobGood(tpm', b, e)
  BY <1>1, <1>3, SavedBlobGood
<1> HIDE DEF b
<1>5. Faithful(tpm', e, contexts'[e])
  <2>1. contexts'[e] = Evicted(contexts[e], b)
    BY DEF b
  <2>2. contexts'[e].isLoaded = FALSE /\ contexts'[e].context = b
        /\ contexts'[e].tpmHandle = NoHandle
    BY <1>1, <2>1 DEF Evicted, ObjectContext
  <2> QED BY <1>4, <2>2, HandleKinds DEF Faithful
<1>6. ASSUME NEW f \in DOMAIN contexts, f # e
      PROVE  Faithful(tpm', f, contexts'[f])
  BY <1>1, <1>3, <1>6, ListedContext, SaveOutFaithful
<1> QED BY <1>5, <1>6 DEF AllFaithful

(* The session that ShortenSessionContextGap works on can be reloaded.     *)
LEMMA OldestReloads ==
  ASSUME IInv, AllFaithful(tpm, contexts), OldestSavedSession # 0,
         LoadRc(tpm, contexts[OldestSavedSession].context) = "Success"
  PROVE  LET o == OldestSavedSession
             b == contexts[o].context
             t == AfterLoad(tpm, b, b.handle)
         IN /\ t \in TpmStates /\ Resident(t, b.handle) /\ EntityAt(t, b.handle) = o
            /\ o \in DOMAIN contexts
            /\ \A f \in DOMAIN contexts : f # o => Faithful(t, f, contexts[f])
<1> DEFINE o == OldestSavedSession
           b == contexts[o].context
           t == AfterLoad(tpm, b, b.handle)
<1>1. /\ o \in DOMAIN contexts /\ ~contexts[o].isLoaded
      /\ b \in Blobs /\ b.handle \in SessHandles
  BY OldestIsSaved
<1>2. b.ent = o
  BY <1>1, ListedContext DEF Faithful, BlobGood
<1>3. b.handle \in LoadHandles(tpm, b) /\ b.handle \in TpmHandles
  BY <1>1, ResourceAssumption DEF LoadHandles, TpmHandles
<1>4. tpm \in TpmStates
  BY DEF IInv, TypeOK
<1>5. t \in TpmStates
  BY <1>1, <1>3, <1>4, AfterLoadType
<1>6. /\ EntityAt(t, b.handle) = b.ent
      /\ \A x \in ObjectContext, f \in Nat \ {0} :
           Faithful(tpm, f, x) /\ f # b.ent => Faithful(t, f, x)
  BY <1>1, <1>3, <1>4, AfterLoadFaithful
<1> HIDE DEF t
<1>7. \A f \in DOMAIN contexts : f # o => Faithful(t, f, contexts[f])
  BY <1>2, <1>6, ListedContext
<1>8. Resident(t, b.handle)
  BY <1>1, <1>2, <1>6, ListedContext DEF Resident, NoEntity
<1> QED BY <1>1, <1>2, <1>5, <1>6, <1>7, <1>8 DEF t

(* Its reload and re-save.                                                 *)
LEMMA ResaveFaithful ==
  ASSUME IInv, AllFaithful(tpm, contexts), NEW first, CanShorten(first), Resave
  PROVE  AllFaithful(tpm', contexts')
<1> DEFINE o == OldestSavedSession
           h == contexts[o].context.handle
           t == AfterLoad(tpm, contexts[o].context, h)
           b == SavedBlob(t, h)
<1>1. /\ o # 0 /\ LoadRc(tpm, contexts[o].context) = "Success" /\ SaveRc(t, h) = "Success"
      /\ tpm' = AfterSave(t, h)
      /\ contexts' = [contexts EXCEPT ![o].tpmHandle = h, ![o].context = b]
  BY DEF CanShorten, Resave
<1>2. /\ o \in DOMAIN contexts /\ contexts[o].isLoaded = FALSE /\ h \in SessHandles
      /\ contexts[o] \in ObjectContext
  BY <1>1, OldestIsSaved DEF ObjectContext
<1>3. /\ t \in TpmStates /\ Resident(t, h) /\ EntityAt(t, h) = o
      /\ \A f \in DOMAIN contexts : f # o => Faithful(t, f, contexts[f])
  BY <1>1, OldestReloads
<1> HIDE DEF t
<1>4. BlobGood(AfterSave(t, h), b, o) /\ b.handle = h
  BY <1>1, <1>2, <1>3, SavedBlobGood, SavedBlobType DEF SaveOut
<1>5. ASSUME NEW f \in DOMAIN contexts, f # o
      PROVE  Faithful(tpm', f, contexts[f])
  BY <1>1, <1>3, <1>5, ListedContext, AfterSaveFaithful
<1>9. h \in SessHandles /\ contexts[o].isLoaded = FALSE
  BY <1>2
<1> HIDE DEF b, h, o
<1>6. /\ DOMAIN contexts' = DOMAIN contexts
      /\ contexts'[o].isLoaded = FALSE /\ contexts'[o].context = b
      /\ contexts'[o].tpmHandle = h
      /\ \A f \in DOMAIN contexts : f # o => contexts'[f] = contexts[f]
  BY <1>1, <1>2 DEF ObjectContext, IInv, TypeOK
<1>7. Faithful(tpm', o, contexts'[o])
  BY <1>1, <1>4, <1>6, <1>9 DEF Faithful
<1> QED BY <1>5, <1>6, <1>7 DEF AllFaithful

(* What a failed attempt leaves behind is true as well.                    *)
LEMMA FailedShortenFaithful ==
  ASSUME IInv, AllFaithful(tpm, contexts), NEW first
  PROVE  AllFaithful(FailedShorten(first).t, FailedShorten(first).ctxs)
<1> DEFINE o == OldestSavedSession
           b == contexts[o].context
           h == b.handle
           t == AfterLoad(tpm, b, h)
<1>1. CASE o = 0 \/ b.seq = first
  BY <1>1 DEF FailedShorten
<1>2. CASE o # 0 /\ b.seq # first
  <2>1. /\ o \in DOMAIN contexts /\ contexts[o] \in ObjectContext /\ ~contexts[o].isLoaded
    BY <1>2, OldestIsSaved
  <2>2. CASE LoadRc(tpm, b) # "Success"
    <3> DEFINE ctxs == [contexts EXCEPT ![o].tpmHandle = RhNull]
    <3>1. FailedShorten(first) = [t |-> tpm, ctxs |-> ctxs]
      BY <1>2, <2>2 DEF FailedShorten
    <3> HIDE DEF o
    <3>2. /\ DOMAIN ctxs = DOMAIN contexts
          /\ ctxs[o].isLoaded = contexts[o].isLoaded /\ ctxs[o].context = contexts[o].context
          /\ ctxs[o].tpmHandle = RhNull
          /\ \A f \in DOMAIN contexts : f # o => ctxs[f] = contexts[f]
      BY <2>1 DEF ObjectContext, IInv, TypeOK
    <3> HIDE DEF ctxs
    <3>3. AllFaithful(tpm, ctxs)
      BY <2>1, <3>2, SameFaithful DEF AllFaithful
    <3> QED BY <3>1, <3>3
  <2>3. CASE LoadRc(tpm, b) = "Success"
    <3> DEFINE ctxs == [contexts EXCEPT ![o].tpmHandle = h, ![o].isLoaded = TRUE,
                                        ![o].context = NoBlob]
    <3>1. FailedShorten(first) = [t |-> t, ctxs |-> ctxs]
      BY <1>2, <2>3 DEF FailedShorten
    <3>2. /\ EntityAt(t, h) = o
          /\ \A f \in DOMAIN contexts : f # o => Faithful(t, f, contexts[f])
      BY <1>2, <2>3, OldestReloads
    <3> HIDE DEF o, t, b, h
    <3>3. /\ DOMAIN ctxs = DOMAIN contexts
          /\ ctxs[o].isLoaded = TRUE /\ ctxs[o].tpmHandle = h
          /\ \A f \in DOMAIN contexts : f # o => ctxs[f] = contexts[f]
      BY <2>1 DEF ObjectContext, IInv, TypeOK
    <3> HIDE DEF ctxs
    <3>4. AllFaithful(t, ctxs)
      BY <3>2, <3>3 DEF AllFaithful, Faithful
    <3> QED BY <3>1, <3>4
  <2> QED BY <2>2, <2>3
<1> QED BY <1>1, <1>2

-----------------------------------------------------------------------------
(* Commands that end                                                       *)

(* Between commands only the list has to be faithful.                      *)
LEMMA BetweenTruth ==
  ASSUME cmd' = NoCmd \/ cmd' = [NoCmd EXCEPT !.phase = "state"],
         AllFaithful(tpm', contexts'), resetting' = {}
  PROVE  TruthInv'
<1>1. /\ cmd'.phase \in {"idle", "state"} /\ cmd'.phys = <<>> /\ cmd'.cc = "none"
  BY DEF NoCmd
<1>2. BufferInv' /\ ProgressInv' /\ SpareInv' /\ OpsInv'
  BY <1>1 DEF BufferInv, ProgressInv, SpareInv, OpsInv, InExec, InLoad
<1> QED BY <1>2 DEF TruthInv

(* A dispatch that ends with an error or an exception.                     *)
LEMMA FailureTruth ==
  ASSUME IInv, TruthInv, NEW ctxs, GoodList(ctxs), NEW rc,
         ReturnError(rc, ctxs) \/ Throw(ctxs), AllFaithful(tpm', ctxs)
  PROVE  TruthInv'
<1>1. cmd' = NoCmd /\ resetting' = {}
  BY DEF ReturnError, Throw, Return, TruthInv, OpsInv
<1>2. CASE Throw(ctxs)
  BY <1>1, <1>2, BetweenTruth DEF Throw
<1>3. CASE ReturnError(rc, ctxs)
  <2>1. contexts' = [e \in DOMAIN ctxs |->
          IF Positions(e) = {} THEN ctxs[e]
          ELSE [ctxs[e] EXCEPT !.lastUseCount = useCount + Max(Positions(e)) - 1]]
    BY <1>3 DEF ReturnError, UpdateLastUseCount
  <2>2. ASSUME NEW e \in DOMAIN ctxs PROVE Faithful(tpm', e, contexts'[e])
    <3> DEFINE n == useCount + Max(Positions(e)) - 1
    <3>1. contexts'[e] = IF Positions(e) = {} THEN ctxs[e] ELSE [ctxs[e] EXCEPT !.lastUseCount = n]
      BY <2>1
    <3>2. ctxs[e] \in ObjectContext /\ Faithful(tpm', e, ctxs[e])
      BY DEF GoodList, AllFaithful
    <3> HIDE DEF n
    <3>3. /\ contexts'[e].isLoaded = ctxs[e].isLoaded /\ contexts'[e].context = ctxs[e].context
          /\ contexts'[e].tpmHandle = ctxs[e].tpmHandle
      BY <3>1, <3>2 DEF ObjectContext
    <3> QED BY <3>2, <3>3, SameFaithful
  <2>3. AllFaithful(tpm', contexts')
    BY <2>1, <2>2 DEF AllFaithful
  <2> QED BY <1>1, <2>3, BetweenTruth
<1> QED BY <1>2, <1>3

(* Commands that fail with the TPM and the list as they were.              *)
LEMMA FailingTruth ==
  ASSUME IInv, TruthInv, ExecFails \/ NothingToEvict \/ ContextSaveThrows
  PROVE  TruthInv'
<1>1. /\ \E rc : ReturnError(rc, contexts) \/ Throw(contexts)
      /\ tpm' = tpm
  BY DEF ExecFails, NothingToEvict, ContextSaveThrows, MakeSpaceFailed
<1> QED BY <1>1, CurrentList, FailureTruth DEF TruthInv

(* Commands that fail because ShortenSessionContextGap does.               *)
LEMMA CannotShortenTruth ==
  ASSUME IInv, TruthInv, CannotShortenInMakeSpace \/ CannotShortenInDispatch
  PROVE  TruthInv'
<1>1. PICK first : /\ tpm' = FailedShorten(first).t
                   /\ \/ MakeSpaceFailed(FailedShorten(first).ctxs)
                      \/ ReturnError("ContextGap", FailedShorten(first).ctxs)
  BY DEF CannotShortenInMakeSpace, CannotShortenInDispatch
<1>2. \E rc : ReturnError(rc, FailedShorten(first).ctxs) \/ Throw(FailedShorten(first).ctxs)
  BY <1>1 DEF MakeSpaceFailed
<1>3. AllFaithful(tpm', FailedShorten(first).ctxs)
  BY <1>1, FailedShortenFaithful DEF TruthInv
<1> QED BY <1>2, <1>3, FailedShortenGood, FailureTruth

(* A command that creates an entity.                                       *)
LEMMA CreationTruth ==
  ASSUME IInv, TruthInv, Load \/ StartAuthSession
  PROVE  TruthInv'
<1>1. PICK h \in FreeSlots(tpm) \cup FreeSessHandles(tpm) : CreateEntity(h)
  BY DEF Load, StartAuthSession
<1> DEFINE n == created + 1
           x(v) == NewContext(cmd.caller, v, h)
<1>2. PICK v \in FreeHandles(cmd.caller, h) :
        contexts' = [e \in DOMAIN contexts \cup {n} |->
          IF e \in DOMAIN contexts THEN contexts[e] ELSE x(v)]
  BY <1>1 DEF CreateEntity
<1>3. tpm' = AfterCreate(tpm, h, n) /\ cmd' = NoCmd /\ resetting' = resetting
  BY <1>1 DEF CreateEntity, Return
<1>4. x(v).isLoaded = TRUE /\ x(v).tpmHandle = h
  BY DEF NewContext
<1>5. n \in Nat \ {0} /\ tpm \in TpmStates /\ n \notin DOMAIN contexts
  BY DEF IInv, TypeOK
<1>6. /\ EntityAt(tpm', h) = n
      /\ \A y \in ObjectContext, f \in Nat \ {0} : Faithful(tpm, f, y) => Faithful(tpm', f, y)
  BY <1>3, <1>5, AfterCreateFaithful
<1> HIDE DEF n, x
<1>7. \A f \in DOMAIN contexts : Faithful(tpm', f, contexts[f])
  BY <1>6, ListedContext DEF TruthInv
<1>8. AllFaithful(tpm', contexts')
  BY <1>2, <1>4, <1>5, <1>6, <1>7 DEF AllFaithful, Faithful
<1> QED BY <1>3, <1>8, BetweenTruth DEF TruthInv, OpsInv

(* The entities of a set of contexts leave the TPM, and the contexts the   *)
(* list.                                                                   *)
LEMMA FlushRemoveFaithful ==
  ASSUME IInv, AllFaithful(tpm, contexts), NEW H, NEW E,
         tpm' = Flush(tpm, H), contexts' = Remove(E),
         \A h \in H : h \in TpmHandles =>
           \E e \in DOMAIN contexts \cap E : Loaded(contexts[e]) /\ contexts[e].tpmHandle = h
  PROVE  AllFaithful(tpm', contexts')
<1>1. ASSUME NEW f \in DOMAIN contexts \ E
      PROVE  Faithful(tpm', f, contexts[f])
  <2>1. \A h \in H : h \in TpmHandles => Resident(tpm, h) /\ EntityAt(tpm, h) # f
    BY LoadedEntity, HandleKinds
  <2> QED BY <2>1, ListedContext, FlushFaithful DEF IInv, TypeOK
<1> QED BY <1>1 DEF Remove, AllFaithful

(* A sequence that completes: its handle in the buffer is its own.         *)
LEMMA CompletionTruth ==
  ASSUME IInv, TruthInv, ArgsInv, SequenceComplete \/ EventSequenceComplete
  PROVE  TruthInv'
<1>1. PICK i \in DOMAIN cmd.need :
        tpm' = Flush(tpm, {cmd.phys[i]}) /\ contexts' = Remove({cmd.need[i]})
  BY DEF SequenceComplete, EventSequenceComplete, Complete, Succeed, ArgsInv
<1>2. InExec /\ cmd' = NoCmd /\ resetting' = {}
  BY DEF SequenceComplete, EventSequenceComplete, Complete, Succeed, Return, InExec, TruthInv, OpsInv
<1>3. cmd.phys[i] \in TpmHandles =>
        /\ cmd.need[i] \in DOMAIN contexts
        /\ Loaded(contexts[cmd.need[i]]) /\ contexts[cmd.need[i]].tpmHandle = cmd.phys[i]
  BY <1>2, HandleKinds DEF TruthInv, BufferInv, IInv, DispatchInv, NeedInv
<1>4. AllFaithful(tpm', contexts')
  BY <1>1, <1>3, FlushRemoveFaithful DEF TruthInv
<1> QED BY <1>2, <1>4, BetweenTruth

(* Disposal flushes just the loaded entities of the contexts it drops.     *)
LEMMA DisposeTruth ==
  ASSUME IInv, TruthInv, NEW c, Dispose(c)
  PROVE  TruthInv'
<1> DEFINE H == {contexts[e].tpmHandle : e \in {f \in OwnedBy(c) : Loaded(contexts[f])}}
<1>1. /\ tpm' = Flush(tpm, H) /\ contexts' = Remove(OwnedBy(c))
      /\ cmd' = NoCmd /\ resetting' = {}
  BY DEF Dispose, TruthInv, OpsInv
<1>2. \A h \in H : \E e \in DOMAIN contexts \cap OwnedBy(c) :
                     Loaded(contexts[e]) /\ contexts[e].tpmHandle = h
  BY DEF OwnedBy
<1> HIDE DEF H
<1>3. AllFaithful(tpm', contexts')
  BY <1>1, <1>2, FlushRemoveFaithful DEF TruthInv
<1> QED BY <1>1, <1>3, BetweenTruth

(* StateSaveAndReload, up to the power cycle: nothing is loaded by then.   *)
LEMMA StateSaveTruth ==
  ASSUME IInv, TruthInv, StartStateSave \/ ContextSaveNext \/ StateSaveDone
  PROVE  TruthInv'
<1>1. resetting' = {} /\ (cmd' = NoCmd \/ cmd' = [NoCmd EXCEPT !.phase = "state"])
  BY DEF StartStateSave, ContextSaveNext, StateSaveDone, TruthInv, OpsInv, IInv, DispatchInv,
         PhaseInv
<1>2. CASE StartStateSave
  BY <1>1, <1>2, BetweenTruth DEF StartStateSave, TruthInv
<1>3. CASE ContextSaveNext
  <2> DEFINE e == Min(LoadedContexts)
             b == SavedBlob(tpm, contexts[e].tpmHandle)
  <2>1. /\ LoadedContexts # {} /\ SaveRc(tpm, contexts[e].tpmHandle) = "Success"
        /\ tpm' = SaveOut(tpm, contexts[e].tpmHandle)
        /\ contexts' = [contexts EXCEPT ![e] = Evicted(@, b)]
    BY <1>3 DEF ContextSaveNext
  <2>2. LoadedContexts \subseteq Nat
    BY DEF LoadedContexts, IInv, TypeOK
  <2>3. e \in DOMAIN contexts /\ Loaded(contexts[e])
    BY <2>1, <2>2, MinInSet DEF LoadedContexts
  <2> HIDE DEF e, b
  <2>4. /\ DOMAIN contexts' = DOMAIN contexts
        /\ \A f \in DOMAIN contexts :
             contexts'[f] = IF f = e THEN Evicted(contexts[e], b) ELSE contexts[f]
    BY <2>1, <2>3 DEF IInv, TypeOK
  <2>5. AllFaithful(tpm', contexts')
    BY <2>1, <2>3, <2>4, EvictionFaithful DEF TruthInv, b
  <2> QED BY <1>1, <2>5, BetweenTruth
<1>4. CASE StateSaveDone
  <2>1. LoadedContexts = {} /\ tpm' \in {tpm, AfterResume(tpm)} /\ contexts' = contexts
    BY <1>4 DEF StateSaveDone
  <2>2. ASSUME NEW f \in DOMAIN contexts PROVE Faithful(tpm', f, contexts[f])
    <3>1. ~Loaded(contexts[f])
      BY <2>1 DEF LoadedContexts
    <3>2. ~contexts[f].isLoaded
      BY <3>1, NotLoadedKind, ListedContext DEF TruthInv
    <3> QED BY <2>1, <3>2, ListedContext, ResumeFaithful DEF TruthInv, IInv, TypeOK
  <2>3. AllFaithful(tpm', contexts')
    BY <2>1, <2>2 DEF AllFaithful
  <2> QED BY <1>1, <2>3, BetweenTruth
<1> QED BY <1>2, <1>3, <1>4

-----------------------------------------------------------------------------
(* Commands in progress                                                    *)

(* A step of the command that keeps what it needs, where it needs it.      *)
LEMMA InFlightTruth ==
  ASSUME TruthInv, AllFaithful(tpm', contexts'), resetting' = resetting,
         cmd'.need = cmd.need, cmd'.cc = cmd.cc, cmd'.phys = cmd.phys, cmd'.at = cmd.at,
         InExec' = InExec, InLoad' = InLoad,
         SpareInv',
         \A i \in DOMAIN cmd.need :
           cmd.need[i] # Temporary /\ Loaded(contexts[cmd.need[i]]) =>
             /\ Loaded(contexts'[cmd.need[i]])
             /\ contexts'[cmd.need[i]].tpmHandle = contexts[cmd.need[i]].tpmHandle
  PROVE  TruthInv'
<1>1. BufferInv'
  BY DEF TruthInv, BufferInv
<1>2. ProgressInv'
  BY DEF TruthInv, ProgressInv
<1>3. OpsInv'
  BY DEF TruthInv, OpsInv
<1> QED BY <1>1, <1>2, <1>3 DEF TruthInv

(* A step that does not touch what the invariant is about.                 *)
LEMMA UnchangedTruth ==
  ASSUME TruthInv, UNCHANGED <<tpm, contexts, cmd, resetting>>
  PROVE  TruthInv'
<1>1. AllFaithful(tpm', contexts')
  BY DEF TruthInv
<1>2. BufferInv' /\ ProgressInv'
  BY DEF TruthInv, BufferInv, ProgressInv, InExec, InLoad, Loaded
<1>3. SpareInv' /\ OpsInv'
  BY DEF TruthInv, SpareInv, OpsInv, Pinned
<1> QED BY <1>1, <1>2, <1>3 DEF TruthInv

(* A command starts with an empty command buffer.                          *)
LEMMA BeginTruth ==
  ASSUME TruthInv, NEW c, NEW cc \in Ops, NEW hs \in HandleLists, NEW arg,
         Begin(c, cc, hs, arg) \/ RejectUnknown(c, cc, hs)
  PROVE  TruthInv'
<1>1. CASE RejectUnknown(c, cc, hs)
  <2>1. UNCHANGED <<tpm, contexts, cmd, resetting>>
    BY <1>1 DEF RejectUnknown
  <2> QED BY <2>1, UnchangedTruth
<1>2. CASE Begin(c, cc, hs, arg)
  <2>1. /\ cmd'.phase = "load" /\ cmd'.phys = <<>> /\ cmd'.at = 1 /\ cmd'.cc = cc
        /\ UNCHANGED <<tpm, contexts, resetting>>
        /\ DOMAIN cmd'.need = DOMAIN hs
    BY <1>2 DEF Begin, NoCmd
  <2>2. \A i \in DOMAIN cmd'.need : i \in Nat /\ ~(i < 1)
    BY <2>1, TbsAssumption DEF HandleLists
  <2> QED BY <1>2, <2>1, <2>2 DEF TruthInv, AllFaithful, BufferInv, ProgressInv, SpareInv, OpsInv,
                            InExec, InLoad
<1> QED BY <1>1, <1>2

(* LoadEntities passes a context that is loaded.                           *)
LEMMA SkipLoadedTruth ==
  ASSUME IInv, TruthInv, SkipLoaded
  PROVE  TruthInv'
<1>1. /\ cmd.phase = "load" /\ IsLoaded(cmd.need[cmd.at])
      /\ cmd' = [cmd EXCEPT !.at = @ + 1, !.retry = FALSE]
      /\ UNCHANGED <<tpm, contexts, resetting>>
  BY DEF SkipLoaded, AtEntity, IInv, TypeOK, CmdRecords
<1>2. /\ cmd'.phase = "load" /\ cmd'.phys = cmd.phys /\ cmd'.need = cmd.need
      /\ cmd'.cc = cmd.cc /\ cmd'.at = cmd.at + 1
      /\ cmd.at \in Nat
  BY <1>1 DEF IInv, TypeOK, CmdRecords
<1>3. ProgressInv'
  <2>1. ASSUME NEW i \in DOMAIN cmd.need, i < cmd.at + 1, cmd.need[i] # Temporary
        PROVE  Loaded(contexts[cmd.need[i]])
    <3>1. i \in Nat
      BY NeedDomain
    <3>2. i < cmd.at \/ i = cmd.at
      BY <1>2, <2>1, <3>1
    <3> QED BY <1>1, <2>1, <3>2 DEF TruthInv, ProgressInv, InLoad, IsLoaded
  <2> QED BY <1>1, <1>2, <2>1 DEF ProgressInv, Loaded
<1>4. BufferInv' /\ SpareInv' /\ OpsInv'
  BY <1>1, <1>2 DEF TruthInv, BufferInv, SpareInv, OpsInv, InExec
<1> QED BY <1>1, <1>3, <1>4 DEF TruthInv

(* LoadObject gives the context the handle that ContextLoad returned; what *)
(* was loaded before it stays.                                             *)
LEMMA LoadObjectTruth ==
  ASSUME IInv, TruthInv, LoadObject
  PROVE  TruthInv'
<1> DEFINE e == cmd.need[cmd.at]
           b == contexts[e].context
<1>1. PICK h \in LoadHandles(tpm, b) :
        /\ tpm' = AfterLoad(tpm, b, h)
        /\ contexts' = [contexts EXCEPT ![e].tpmHandle = h, ![e].isLoaded = TRUE]
  BY DEF LoadObject
<1>2. /\ Loading /\ cmd.phase = "load" /\ LoadRc(tpm, b) = "Success"
      /\ cmd' = [cmd EXCEPT !.at = @ + 1, !.retry = FALSE]
      /\ resetting' = resetting
  BY DEF LoadObject, Loading, AtEntity
<1>3. /\ e \in DOMAIN contexts /\ contexts[e] \in ObjectContext
      /\ ~contexts[e].isLoaded /\ b \in Blobs
  BY <1>2, LoadingContext DEF ObjectContext
<1>4. b.ent = e
  BY <1>3, ListedContext DEF TruthInv, Faithful, BlobGood
<1>5. /\ EntityAt(tpm', h) = e
      /\ \A x \in ObjectContext, f \in Nat \ {0} :
           Faithful(tpm, f, x) /\ f # e => Faithful(tpm', f, x)
  BY <1>1, <1>2, <1>3, <1>4, AfterLoadFaithful DEF IInv, TypeOK
<1>6. h \in TpmHandles
  BY <1>2, <1>3, LoadHandlesType DEF IInv, TypeOK
<1> HIDE DEF b
<1>7. /\ cmd'.phase = "load" /\ cmd'.phys = cmd.phys /\ cmd'.need = cmd.need
      /\ cmd'.cc = cmd.cc /\ cmd'.at = cmd.at + 1
      /\ cmd.at \in Nat
  BY <1>2 DEF IInv, TypeOK, CmdRecords
<1>8. cmd.need[cmd.at] = e
  OBVIOUS
<1> HIDE DEF e
<1>9. /\ DOMAIN contexts' = DOMAIN contexts
      /\ contexts'[e].isLoaded = TRUE /\ contexts'[e].tpmHandle = h
      /\ \A f \in DOMAIN contexts : f # e => contexts'[f] = contexts[f]
  BY <1>1, <1>3 DEF ObjectContext, IInv, TypeOK
<1>10. AllFaithful(tpm', contexts')
  <2>1. ASSUME NEW f \in DOMAIN contexts, f # e PROVE Faithful(tpm', f, contexts[f])
    BY <1>5, <2>1, ListedContext DEF TruthInv
  <2> QED BY <1>5, <1>9, <2>1 DEF AllFaithful, Faithful
<1>11. ProgressInv'
  <2>1. ASSUME NEW i \in DOMAIN cmd.need, i < cmd.at + 1, cmd.need[i] # Temporary
        PROVE  Loaded(contexts'[cmd.need[i]])
    <3>1. i \in Nat /\ cmd.need[i] \in DOMAIN contexts
      BY <2>1, NeedDomain DEF IInv, DispatchInv, NeedInv
    <3>2. CASE cmd.need[i] = e
      BY <1>6, <1>9, <3>2, HandleKinds DEF Loaded
    <3>3. CASE cmd.need[i] # e
      <4>1. i < cmd.at
        BY <1>7, <1>8, <2>1, <3>1, <3>3
      <4>2. Loaded(contexts[cmd.need[i]])
        BY <1>2, <2>1, <4>1 DEF TruthInv, ProgressInv, InLoad
      <4> QED BY <1>9, <3>1, <3>3, <4>2
    <3> QED BY <3>2, <3>3
  <2> QED BY <1>7, <2>1 DEF ProgressInv, Loaded
<1>12. BufferInv' /\ SpareInv' /\ OpsInv'
  BY <1>2, <1>7 DEF TruthInv, BufferInv, SpareInv, OpsInv, InExec
<1> QED BY <1>10, <1>11, <1>12 DEF TruthInv

(* A failed ContextLoad, and MakeSpace with a victim that is not needed.   *)
LEMMA LoadObjectNeedsSpaceTruth ==
  ASSUME IInv, TruthInv, LoadObjectNeedsSpace
  PROVE  TruthInv'
<1> DEFINE e == cmd.need[cmd.at]
<1>1. /\ Loading /\ cmd.phase = "load"
      /\ contexts' = [contexts EXCEPT ![e].tpmHandle = RhNull]
      /\ CallMakeSpace(contexts[e].slotType, TRUE)
      /\ UNCHANGED <<tpm, resetting>>
  BY DEF LoadObjectNeedsSpace, Loading, AtEntity
<1>2. /\ e \in DOMAIN contexts /\ contexts[e] \in ObjectContext /\ ~contexts[e].isLoaded
      /\ contexts[e].slotType \in {"ObjectSlot", "SessionSlot"}
  BY <1>1, LoadingContext DEF ObjectContext
<1>3. /\ cmd'.phase = "space" /\ cmd'.from = "load" /\ cmd'.need = cmd.need
      /\ cmd'.at = cmd.at /\ cmd'.phys = cmd.phys /\ cmd'.cc = cmd.cc
      /\ cmd'.victim \in DOMAIN contexts => cmd'.victim \notin Pinned
  BY <1>1, <1>2, CallMakeSpaceType
<1>4. cmd'.victim = EntityToEvict(contexts[e].slotType, Pinned)
  BY <1>1 DEF CallMakeSpace, IInv, TypeOK, CmdRecords
<1>5. cmd'.victim # 0 => cmd'.victim \in DOMAIN contexts
  BY <1>4, EntityToEvictChoice DEF Victims
<1> HIDE DEF e
<1>6. /\ DOMAIN contexts' = DOMAIN contexts
      /\ contexts'[e] = [contexts[e] EXCEPT !.tpmHandle = RhNull]
      /\ \A f \in DOMAIN contexts : f # e => contexts'[f] = contexts[f]
  BY <1>1, <1>2 DEF IInv, TypeOK
<1>7. /\ contexts'[e].isLoaded = contexts[e].isLoaded
      /\ contexts'[e].context = contexts[e].context
      /\ contexts'[e].tpmHandle = RhNull
  BY <1>2, <1>6 DEF ObjectContext
<1>8. AllFaithful(tpm', contexts')
  BY <1>1, <1>2, <1>6, <1>7, SameFaithful DEF TruthInv, AllFaithful
<1>9. SpareInv'
  BY <1>3, <1>5, <1>6 DEF SpareInv, Pinned
<1>10. ProgressInv'
  <2>1. ASSUME NEW i \in DOMAIN cmd.need, i < cmd.at, cmd.need[i] # Temporary
        PROVE  Loaded(contexts'[cmd.need[i]])
    <3>1. Loaded(contexts[cmd.need[i]]) /\ cmd.need[i] \in DOMAIN contexts
      BY <1>1, <2>1 DEF TruthInv, ProgressInv, InLoad, IInv, DispatchInv, NeedInv
    <3>2. CASE cmd.need[i] = e
      BY <1>7, <3>2, TbsAssumption DEF Loaded
    <3>3. CASE cmd.need[i] # e
      BY <1>6, <3>1, <3>3
    <3> QED BY <3>2, <3>3
  <2> QED BY <1>3, <2>1 DEF ProgressInv, Loaded
<1>11. BufferInv' /\ OpsInv'
  BY <1>1, <1>3 DEF TruthInv, BufferInv, OpsInv, InExec
<1> QED BY <1>8, <1>9, <1>10, <1>11 DEF TruthInv

(* ReplaceHandlesIn finds every referenced context loaded, so each handle  *)
(* in the command buffer reaches its entity.                               *)
LEMMA AllLoadedTruth ==
  ASSUME IInv, TruthInv, AllLoaded
  PROVE  TruthInv'
<1> DEFINE phys == [i \in DOMAIN cmd.need |->
                      IF cmd.need[i] = Temporary THEN Perm ELSE contexts[cmd.need[i]].tpmHandle]
<1>1. /\ cmd.phase = "load" /\ cmd.at > Len(cmd.need)
      /\ cmd' = [cmd EXCEPT !.phase = "exec", !.phys = phys]
      /\ UNCHANGED <<tpm, contexts, resetting>>
  BY DEF AllLoaded
<1>2. /\ cmd'.phase = "exec" /\ cmd'.need = cmd.need /\ cmd'.phys = phys /\ cmd'.cc = cmd.cc
      /\ cmd.at \in Nat
  BY <1>1 DEF IInv, TypeOK, CmdRecords
<1>3. ASSUME NEW i \in DOMAIN cmd.need, cmd.need[i] # Temporary
      PROVE  Loaded(contexts[cmd.need[i]])
  <2>1. i < cmd.at
    BY <1>1, <1>2, NeedDomain
  <2> QED BY <1>1, <1>3, <2>1 DEF TruthInv, ProgressInv, InLoad
<1>4. BufferInv'
  BY <1>1, <1>2, <1>3 DEF BufferInv, InExec, Loaded
<1>5. ProgressInv' /\ SpareInv' /\ OpsInv'
  BY <1>1, <1>2 DEF TruthInv, ProgressInv, SpareInv, OpsInv, InLoad
<1> QED BY <1>1, <1>4, <1>5 DEF TruthInv

(* An eviction spares what the command references, so the command buffer   *)
(* stays valid.                                                            *)
LEMMA EvictVictimTruth ==
  ASSUME IInv, TruthInv, EvictVictim
  PROVE  TruthInv'
<1> DEFINE h == cmd.victimHandle
<1>1. /\ cmd.phase = "space" /\ cmd.victim # 0 /\ SaveRc(tpm, h) = "Success"
      /\ tpm' = SaveOut(tpm, h)
      /\ contexts' = [e \in DOMAIN contexts |->
           IF e = cmd.victim THEN Evicted(contexts[e], SavedBlob(tpm, h)) ELSE contexts[e]]
      /\ cmd' = [cmd EXCEPT !.phase = cmd.from, !.from = "idle", !.type = "NoSlot",
                            !.firstSeq = 0, !.victim = 0, !.victimHandle = NoHandle]
      /\ resetting' = resetting
  BY DEF EvictVictim
<1>2. cmd.victim \in DOMAIN contexts /\ cmd.victim \notin Pinned
  BY <1>1 DEF TruthInv, SpareInv
<1>3. h = contexts[cmd.victim].tpmHandle /\ Loaded(contexts[cmd.victim])
      /\ cmd.from \in {"load", "exec"}
  BY <1>1, <1>2 DEF IInv, DispatchInv, VictimInv, PhaseInv
<1>4. AllFaithful(tpm', contexts')
  BY <1>1, <1>2, <1>3, EvictionFaithful DEF TruthInv
<1>5. /\ cmd'.phase = cmd.from /\ cmd'.victim = 0 /\ cmd'.need = cmd.need
      /\ cmd'.cc = cmd.cc /\ cmd'.phys = cmd.phys /\ cmd'.at = cmd.at
  BY <1>1 DEF IInv, TypeOK, CmdRecords
<1>6. InExec' = InExec /\ InLoad' = InLoad
  BY <1>1, <1>3, <1>5 DEF InExec, InLoad
<1>7. SpareInv'
  BY <1>5 DEF SpareInv
<1>8. ASSUME NEW i \in DOMAIN cmd.need, cmd.need[i] # Temporary
      PROVE  contexts'[cmd.need[i]] = contexts[cmd.need[i]]
  BY <1>1, <1>2, <1>8 DEF Pinned, IInv, DispatchInv, NeedInv
<1> QED BY <1>1, <1>4, <1>5, <1>6, <1>7, <1>8, InFlightTruth

(* Reloading and saving again a saved session leaves the loaded ones       *)
(* alone, so the command buffer stays valid.                               *)
LEMMA ShortenTruth ==
  ASSUME IInv, TruthInv, ShortenInMakeSpace \/ ShortenInDispatch
  PROVE  TruthInv'
<1>1. PICK first : CanShorten(first) /\ Resave /\ resetting' = resetting
  BY DEF ShortenInMakeSpace, ShortenInDispatch
<1>2. AllFaithful(tpm', contexts')
  BY <1>1, ResaveFaithful DEF TruthInv
<1>3. /\ DOMAIN contexts' = DOMAIN contexts
      /\ \A f \in DOMAIN contexts : Loaded(contexts[f]) => contexts'[f] = contexts[f]
  BY <1>1, ResaveKeeps
<1>4. /\ cmd'.need = cmd.need /\ cmd'.cc = cmd.cc /\ cmd'.phys = cmd.phys /\ cmd'.at = cmd.at
      /\ cmd'.phase = cmd.phase /\ cmd'.from = cmd.from /\ cmd'.victim = cmd.victim
  BY DEF ShortenInMakeSpace, ShortenInDispatch, IInv, TypeOK, CmdRecords
<1>5. InExec' = InExec /\ InLoad' = InLoad /\ Pinned' = Pinned
  BY <1>4 DEF InExec, InLoad, Pinned
<1>6. SpareInv'
  BY <1>3, <1>4, <1>5 DEF SpareInv, TruthInv
<1>7. ASSUME NEW i \in DOMAIN cmd.need, cmd.need[i] # Temporary, Loaded(contexts[cmd.need[i]])
      PROVE  contexts'[cmd.need[i]] = contexts[cmd.need[i]]
  BY <1>3, <1>7 DEF IInv, DispatchInv, NeedInv
<1>8. ASSUME NEW i \in DOMAIN cmd.need, cmd.need[i] # Temporary, Loaded(contexts[cmd.need[i]])
      PROVE  /\ Loaded(contexts'[cmd.need[i]])
             /\ contexts'[cmd.need[i]].tpmHandle = contexts[cmd.need[i]].tpmHandle
  BY <1>7, <1>8 DEF Loaded
<1> QED BY <1>1, <1>2, <1>4, <1>5, <1>6, <1>8, InFlightTruth

(* MakeSpace is called from the command loop with a victim that is not     *)
(* referenced by the command.                                              *)
LEMMA ExecNeedsSpaceTruth ==
  ASSUME IInv, TruthInv, ExecNeedsSpace
  PROVE  TruthInv'
<1>1. cmd.phase = "exec" /\ UNCHANGED <<tpm, contexts, resetting>>
  BY DEF ExecNeedsSpace
<1>2. PICK type \in {"ObjectSlot", "SessionSlot"} : CallMakeSpace(type, FALSE)
  BY DEF ExecNeedsSpace
<1>3. /\ cmd'.phase = "space" /\ cmd'.from = "exec" /\ cmd'.need = cmd.need
      /\ cmd'.at = cmd.at /\ cmd'.phys = cmd.phys /\ cmd'.cc = cmd.cc
      /\ cmd'.victim \in DOMAIN contexts => cmd'.victim \notin Pinned
  BY <1>1, <1>2, CallMakeSpaceType
<1>4. cmd'.victim = EntityToEvict(type, Pinned)
  BY <1>2 DEF CallMakeSpace, IInv, TypeOK, CmdRecords
<1>5. cmd'.victim # 0 => cmd'.victim \in DOMAIN contexts
  BY <1>4, EntityToEvictChoice DEF Victims
<1>6. SpareInv'
  BY <1>1, <1>3, <1>5 DEF SpareInv, Pinned
<1>7. InExec' = InExec /\ InLoad' = InLoad
  BY <1>1, <1>3 DEF InExec, InLoad
<1> QED BY <1>1, <1>3, <1>6, <1>7, InFlightTruth DEF TruthInv, Loaded

-----------------------------------------------------------------------------
(* The theorems                                                            *)

(* The empty database is true of the empty TPM.                            *)
LEMMA InitTruth == Init => TruthInv
<1> SUFFICES ASSUME Init PROVE TruthInv
  OBVIOUS
<1>1. cmd.phase = "idle" /\ cmd.phys = <<>> /\ cmd.cc = "none" /\ resetting = {}
      /\ DOMAIN contexts = {}
  BY DEF Init, NoCmd
<1> QED BY <1>1 DEF TruthInv, AllFaithful, BufferInv, ProgressInv, SpareInv, OpsInv, InExec, InLoad

(* Every step of Tbs without the bypassing operations keeps TruthInv.      *)
LEMMA NextTruth ==
  ASSUME Ops \cap BypassOps = {}, IInv, ArgsInv, TruthInv, [Next]_vars
  PROVE  TruthInv'
<1>1. cmd.cc \notin BypassOps /\ resetting = {}
  BY DEF TruthInv, OpsInv, BypassOps
<1>2. CASE DispatchStep
  <2>1. CASE SkipLoaded \/ LoadObject \/ LoadObjectNeedsSpace \/ AllLoaded
    BY <2>1, SkipLoadedTruth, LoadObjectTruth, LoadObjectNeedsSpaceTruth, AllLoadedTruth
  <2>2. CASE EvictVictim \/ ShortenInMakeSpace \/ ShortenInDispatch \/ ExecNeedsSpace
    BY <2>2, EvictVictimTruth, ShortenTruth, ExecNeedsSpaceTruth
  <2>3. CASE NothingToEvict \/ CannotShortenInMakeSpace \/ CannotShortenInDispatch \/ ExecFails
    BY <2>3, FailingTruth, CannotShortenTruth
  <2>4. CASE Load \/ StartAuthSession \/ SequenceComplete \/ EventSequenceComplete
    BY <2>4, CreationTruth, CompletionTruth
  <2>5. CASE Use
    <3>1. cmd' = NoCmd /\ UNCHANGED <<tpm, contexts, resetting>>
      BY <2>5 DEF Use, Succeed, Return
    <3> QED BY <1>1, <3>1, BetweenTruth DEF TruthInv
  <2>6. CASE EndSession \/ FlushContext \/ ContextSave \/ ContextLoad \/ Clear
    BY <1>1, <2>6 DEF EndSession, FlushContext, ContextSave, ContextLoad, Clear, Succeed, BypassOps
  <2> QED BY <1>2, <2>1, <2>2, <2>3, <2>4, <2>5, <2>6 DEF DispatchStep
<1>3. CASE StartStateSave \/ StateSaveStep
  BY <1>3, StateSaveTruth, FailingTruth DEF StateSaveStep
<1>4. ASSUME NEW c \in Clients, ClientStep(c)
      PROVE  TruthInv'
  <2>1. ASSUME NEW cc \in Ops, NEW hs \in HandleLists,
               RejectUnknown(c, cc, hs) \/ \E arg : Begin(c, cc, hs, arg)
        PROVE  TruthInv'
    BY <2>1, BeginTruth
  <2>2. ~PowerCycle(c) /\ ~ProcessTpmClear(c)
    BY <1>1 DEF PowerCycle, ProcessTpmClear, BypassOps
  <2> QED BY <1>4, <2>1, <2>2, DisposeTruth DEF ClientStep
<1>5. CASE UNCHANGED vars
  BY <1>5, UnchangedTruth DEF vars
<1> QED BY <1>2, <1>3, <1>4, <1>5 DEF Next

(* TruthInv is inductive relative to IInv and NamesInv.                    *)
LEMMA TruthInvariance ==
  ASSUME Ops \cap BypassOps = {}
  PROVE  Spec => [](IInv /\ TruthInv)
<1>1. IInv /\ NamesInv /\ TruthInv /\ [Next]_vars => TruthInv'
  BY NextTruth DEF NamesInv
<1> QED BY <1>1, InitTruth, NamesInvariance, PTL DEF Spec

(* While DispatchCommand retries a command, the handles that it wrote into *)
(* the command buffer keep meaning the entities that the client meant, no  *)
(* matter which other entities are evicted, reloaded or re-saved for it.   *)
THEOREM BufferStaysValid ==
  ASSUME Ops \cap BypassOps = {}
  PROVE  Spec => []BufferHandlesStayValid
<1>1. ASSUME IInv, TruthInv, cmd.phys # <<>>, NEW i \in DOMAIN cmd.need, cmd.need[i] # Temporary
      PROVE  cmd.phys[i] = RhNull \/ EntityAt(tpm, cmd.phys[i]) = cmd.need[i]
  <2>1. InExec
    BY <1>1 DEF TruthInv, BufferInv
  <2>2. /\ cmd.phys[i] = contexts[cmd.need[i]].tpmHandle /\ Loaded(contexts[cmd.need[i]])
        /\ cmd.need[i] \in DOMAIN contexts
    BY <1>1, <2>1 DEF TruthInv, BufferInv, IInv, DispatchInv, NeedInv
  <2> QED BY <1>1, <2>2, LoadedEntity DEF TruthInv
<1>2. IInv /\ TruthInv => BufferHandlesStayValid
  BY <1>1 DEF BufferHandlesStayValid
<1> QED BY <1>2, TruthInvariance, PTL

(* Whatever MakeSpace and StateSaveAndReload evict, and in whatever order, *)
(* comes back: its blob is of that entity and the TPM does not refuse it.  *)
THEOREM NothingIsLost ==
  ASSUME Ops \cap BypassOps = {}
  PROVE  Spec => []NothingLost
<1>1. ASSUME IInv, TruthInv, NEW e \in DOMAIN contexts, ~contexts[e].isLoaded
      PROVE  /\ contexts[e].context.ent = e
             /\ LoadRc(tpm, contexts[e].context) \notin {"Handle", "Integrity"}
  <2>1. BlobGood(tpm, contexts[e].context, e)
    BY <1>1, ListedContext DEF TruthInv, Faithful
  <2> QED BY <2>1 DEF BlobGood, LoadRc
<1>2. IInv /\ TruthInv => NothingLost
  BY <1>1 DEF NothingLost
<1> QED BY <1>2, TruthInvariance, PTL

(* Two contexts, of the same or of different clients, never claim the same *)
(* TPM handle.                                                             *)
THEOREM LoadedContextsAreApart ==
  ASSUME Ops \cap BypassOps = {}
  PROVE  Spec => []LoadedApart
<1>1. IInv /\ TruthInv => LoadedApart
  BY LoadedEntity DEF LoadedApart, TruthInv
<1> QED BY <1>1, TruthInvariance, PTL

-----------------------------------------------------------------------------
(***************************************************************************)
(* The resource manager implements PrivateTpm: under the refinement        *)
(* mapping View and Response of TbsSlots, every step of it is a step of    *)
(* the private TPMs or invisible to the clients.                           *)
(***************************************************************************)

(* The mapping                                                             *)

(* What a client owns in PrivateTpm is what it owns in the list.           *)
LEMMA EntitiesOfOwn ==
  ASSUME NEW c
  PROVE  Private!Entities(Private!Own(c)) = OwnedBy(c)
<1> DEFINE v(e) == [client |-> contexts[e].owner, handle |-> contexts[e].ownerHandle, ent |-> e]
<1>1. View = {v(e) : e \in DOMAIN contexts}
  BY DEF View
<1>2. \A e \in DOMAIN contexts : v(e).client = contexts[e].owner /\ v(e).ent = e
  OBVIOUS
<1> HIDE DEF v
<1>3. Private!Own(c) = {v(e) : e \in OwnedBy(c)}
  BY <1>1, <1>2 DEF Private!Own, OwnedBy
<1>4. \A e \in OwnedBy(c) : v(e).ent = e
  BY <1>2 DEF OwnedBy
<1> QED BY <1>3, <1>4 DEF Private!Entities

(* A list with the same names gives the same view.                         *)
LEMMA SameView == OnlyDrops({}) => View' = View
BY DEF OnlyDrops, SameName, View

(* A step that leaves the result alone is invisible in the response.       *)
LEMMA SameResponse == result' = result => Response' = Response
BY DEF Response

(* A result that belongs to no caller is no response.                      *)
LEMMA QuietResponse ==
  ASSUME result' = NoResult \/ (result'.caller = NoClient /\ result'.handle = NoHandle
                                /\ result'.touched = {})
  PROVE  Response' = Private!NoResponse
BY DEF Response, NoResult, Private!NoResponse

(* The response that the caller of a command gets.                         *)
LEMMA ReplyResponse ==
  ASSUME NEW c, NEW rc, rc # "none", NEW h, NEW S,
         result' = [caller |-> c, rc |-> rc, handle |-> h, touched |-> S]
  PROVE  Response' = [caller |-> c, handle |-> h, touched |-> S]
BY DEF Response

(* A command acts on entities of its caller only.                          *)
LEMMA TouchedAreOwn ==
  ASSUME IInv, TruthInv, cmd.phase = "exec"
  PROVE  Touched \subseteq OwnedBy(cmd.caller)
<1>1. InExec
  BY DEF InExec
<1>2. ASSUME NEW i \in DOMAIN cmd.phys, EntityAt(tpm, cmd.phys[i]) # NoEntity
      PROVE  /\ EntityAt(tpm, cmd.phys[i]) = cmd.need[i]
             /\ cmd.need[i] \in OwnedBy(cmd.caller)
  <2>1. i \in DOMAIN cmd.need /\ cmd.phys[i] \in TpmHandles
    BY <1>1, <1>2, ResidentHandle DEF TruthInv, BufferInv, IInv, TypeOK, Resident
  <2>2. cmd.need[i] # Temporary
    BY <1>1, <2>1, HandleKinds DEF TruthInv, BufferInv
  <2>3. /\ cmd.phys[i] = contexts[cmd.need[i]].tpmHandle /\ Loaded(contexts[cmd.need[i]])
        /\ cmd.need[i] \in DOMAIN contexts /\ contexts[cmd.need[i]].owner = cmd.caller
    BY <1>1, <2>1, <2>2 DEF TruthInv, BufferInv, IInv, DispatchInv, NeedInv
  <2> QED BY <2>1, <2>3, LoadedEntity, HandleKinds DEF TruthInv, OwnedBy
<1> QED BY <1>2 DEF Touched

-----------------------------------------------------------------------------
(* The steps                                                               *)

(* What moves entities around does not show.                               *)
LEMMA InvisibleSteps ==
  ASSUME IInv,
         \/ SkipLoaded \/ LoadObject \/ LoadObjectNeedsSpace \/ AllLoaded
         \/ EvictVictim \/ ShortenInMakeSpace \/ ShortenInDispatch \/ ExecNeedsSpace
         \/ ContextSaveNext \/ StateSaveDone \/ UNCHANGED vars
  PROVE  UNCHANGED Private!vars
<1>1. result' = result
  BY DEF SkipLoaded, LoadObject, LoadObjectNeedsSpace, AllLoaded, EvictVictim,
         ShortenInMakeSpace, ShortenInDispatch, ExecNeedsSpace, ContextSaveNext,
         StateSaveDone, vars
<1>2. OnlyDrops({})
  BY QuietDropsNone, LoadObjectDropsNone, EvictionDropsNone, ResaveDropsNone
     DEF ShortenInMakeSpace, ShortenInDispatch
<1> QED BY <1>1, <1>2, SameView, SameResponse DEF Private!vars

(* A command starts, or StateSaveAndReload.                                *)
LEMMA WaitingSteps ==
  ASSUME StartStateSave \/ \E c, cc, hs, arg : Begin(c, cc, hs, arg)
  PROVE  Private!Wait
<1>1. result' = NoResult /\ contexts' = contexts
  BY DEF StartStateSave, Begin
<1> QED BY <1>1, SameView, UnchangedDropsNone, QuietResponse DEF Private!Wait

(* A response without effect.                                              *)
LEMMA RefusalActs ==
  ASSUME NEW c \in Clients, NEW rc, rc # "none", OnlyDrops({}),
         result' = [caller |-> c, rc |-> rc, handle |-> NoHandle, touched |-> {}]
  PROVE  Private!Act(c)
<1>1. Response' = [caller |-> c, handle |-> NoHandle, touched |-> {}]
  BY ReplyResponse
<1> QED BY <1>1, SameView DEF Private!Act

(* A command that fails is a response without effect.                      *)
LEMMA FailingSteps ==
  ASSUME IInv, \/ ExecFails \/ NothingToEvict \/ CannotShortenInMakeSpace
               \/ CannotShortenInDispatch
  PROVE  \E c \in Clients : Private!Act(c)
<1>1. OnlyDrops({})
  BY FailingDropsNone, CannotShortenDropsNone
<1>2. cmd.caller \in Clients
  BY DEF ExecFails, NothingToEvict, CannotShortenInMakeSpace, GapInMakeSpace,
         CannotShortenInDispatch, ExecGap, IInv, DispatchInv, PhaseInv
<1>3. PICK rc \in {"Failure", "Memory", "ContextGap", "throw"} : result' = Reply(rc)
  BY DEF ExecFails, NothingToEvict, CannotShortenInMakeSpace, CannotShortenInDispatch,
         MakeSpaceFailed, ReturnError, Throw, Return
<1> QED BY <1>1, <1>2, <1>3, RefusalActs DEF Reply

(* Use acts on entities of its caller and changes no view.                 *)
LEMMA UseActs ==
  ASSUME IInv, TruthInv, Use
  PROVE  Private!Act(cmd.caller) /\ cmd.caller \in Clients
<1>1. /\ cmd.phase = "exec" /\ contexts' = contexts
      /\ result' = [Reply("Success") EXCEPT !.touched = Touched]
  BY DEF Use, Succeed, Return
<1>2. Response' = [caller |-> cmd.caller, handle |-> NoHandle, touched |-> Touched]
  BY <1>1, ReplyResponse DEF Reply
<1>3. Touched \in SUBSET Private!Entities(Private!Own(cmd.caller))
  BY <1>1, TouchedAreOwn, EntitiesOfOwn
<1>4. View' = View
  BY <1>1, SameView, UnchangedDropsNone
<1> QED BY <1>1, <1>2, <1>3, <1>4 DEF Private!Act, IInv, DispatchInv, PhaseInv

(* A completed sequence is given up by the command that completes it.      *)
LEMMA CompletionActs ==
  ASSUME IInv, TruthInv, ArgsInv, SequenceComplete \/ EventSequenceComplete
  PROVE  Private!Act(cmd.caller) /\ cmd.caller \in Clients
<1>1. PICK i \in DOMAIN cmd.need :
        /\ cmd.phase = "exec" /\ Resident(tpm, cmd.phys[i])
        /\ contexts' = Remove({cmd.need[i]})
        /\ result' = [Reply("Success") EXCEPT !.touched = Touched]
  BY DEF SequenceComplete, EventSequenceComplete, Complete, Succeed, Return, ArgsInv
<1> DEFINE e == cmd.need[i]
           v == [client |-> contexts[e].owner, handle |-> contexts[e].ownerHandle, ent |-> e]
<1>2. /\ i \in DOMAIN cmd.phys /\ cmd.phys[i] \in TpmHandles
      /\ EntityAt(tpm, cmd.phys[i]) # NoEntity
  BY <1>1, ResidentHandle DEF TruthInv, BufferInv, InExec, IInv, TypeOK, Resident
<1>3. /\ e \in DOMAIN contexts /\ contexts[e].owner = cmd.caller
      /\ cmd.phys[i] = contexts[e].tpmHandle /\ Loaded(contexts[e])
  BY <1>1, <1>2, HandleKinds DEF TruthInv, BufferInv, InExec, IInv, DispatchInv, NeedInv
<1>4. EntityAt(tpm, cmd.phys[i]) = e
  BY <1>2, <1>3, LoadedEntity, HandleKinds DEF TruthInv
<1>5. e \in Touched
  BY <1>2, <1>4 DEF Touched
<1>6. v \in Private!Own(cmd.caller)
  BY <1>3 DEF Private!Own, View
<1>7. View' = View \ {v}
  BY <1>1, <1>3 DEF View, Remove
<1>8. Response' = [caller |-> cmd.caller, handle |-> NoHandle, touched |-> Touched]
  BY <1>1, ReplyResponse DEF Reply
<1>9. Touched \in SUBSET Private!Entities(Private!Own(cmd.caller))
  BY <1>1, TouchedAreOwn, EntitiesOfOwn
<1>10. v.ent \in Response'.touched
  BY <1>5, <1>8
<1> HIDE DEF v
<1>11. Private!Act(cmd.caller)
  BY <1>6, <1>7, <1>8, <1>9, <1>10 DEF Private!Act
<1> QED BY <1>1, <1>11 DEF IInv, DispatchInv, PhaseInv

(* No context has the handle that the TPM gives a new entity, so           *)
(* TbsHandleFromTpmHandle finds the new one.                               *)
LEMMA NewHandleIsUnclaimed ==
  ASSUME IInv, TruthInv, NEW h \in FreeSlots(tpm) \cup FreeSessHandles(tpm),
         NEW e \in DOMAIN contexts
  PROVE  contexts[e].tpmHandle # h
<1>1. /\ Faithful(tpm, e, contexts[e]) /\ e \in Nat \ {0}
  BY ListedContext DEF TruthInv
<1>2. h \in TpmHandles /\ EntityAt(tpm, h) = NoEntity
  BY ResourceAssumption DEF FreeSlots, FreeSessHandles, TpmHandles, EntityAt
<1>3. CASE contexts[e].isLoaded
  BY <1>1, <1>2, <1>3 DEF Faithful, NoEntity
<1>4. CASE ~contexts[e].isLoaded
  <2> SUFFICES ASSUME contexts[e].tpmHandle = h PROVE FALSE
    OBVIOUS
  <2>1. h \in SessHandles /\ h = contexts[e].context.handle /\ BlobGood(tpm, contexts[e].context, e)
    BY <1>1, <1>2, <1>4 DEF Faithful
  <2>2. tpm.sess[h] = e
    BY <2>1, ResourceAssumption DEF BlobGood
  <2> QED BY <1>1, <2>1, <2>2, ResourceAssumption DEF FreeSlots, FreeSessHandles, NoEntity
<1> QED BY <1>3, <1>4

(* Load and StartAuthSession give the caller a new entity and tell it the  *)
(* name, although TbsHandleFromTpmHandle searches the contexts of all      *)
(* clients.                                                                *)
LEMMA CreationCreates ==
  ASSUME IInv, TruthInv, Load \/ StartAuthSession
  PROVE  /\ cmd.caller \in Clients
         /\ \E v \in View' \ View : Private!Create(cmd.caller, v.handle, v.ent)
<1> DEFINE n == created + 1
           c == cmd.caller
<1>1. PICK h \in FreeSlots(tpm) \cup FreeSessHandles(tpm) : CreateEntity(h) /\ cmd.phase = "exec"
  BY DEF Load, StartAuthSession
<1> DEFINE x(w) == NewContext(c, w, h)
<1>2. PICK w \in FreeHandles(c, h) :
        /\ contexts' = [e \in DOMAIN contexts \cup {n} |->
             IF e \in DOMAIN contexts THEN contexts[e] ELSE x(w)]
        /\ result' = [Reply("Success") EXCEPT !.handle = TbsHandleFromTpmHandle(contexts', h),
                                              !.touched = Touched]
  BY <1>1 DEF CreateEntity, Return
<1>3. /\ x(w).owner = c /\ x(w).ownerHandle = w /\ x(w).tpmHandle = h
      /\ Named(c, w) = {}
  BY DEF NewContext, FreeHandles
<1>4. n \in Nat /\ n \notin DOMAIN contexts /\ DOMAIN contexts \subseteq Nat
  BY DEF IInv, TypeOK
<1> HIDE DEF x, n
<1>5. /\ DOMAIN contexts' = DOMAIN contexts \cup {n} /\ contexts'[n] = x(w)
      /\ \A e \in DOMAIN contexts : contexts'[e] = contexts[e]
  BY <1>2, <1>4
<1>6. {e \in DOMAIN contexts' : contexts'[e].tpmHandle = h} = {n}
  BY <1>3, <1>5, NewHandleIsUnclaimed
<1>7. TbsHandleFromTpmHandle(contexts', h) = w
  BY <1>3, <1>4, <1>5, <1>6, MinInSet DEF TbsHandleFromTpmHandle
<1> DEFINE v == [client |-> c, handle |-> w, ent |-> n]
<1>8. View' = View \cup {v}
  BY <1>3, <1>4, <1>5 DEF View
<1>9. n \notin Private!Entities(View)
  BY <1>4 DEF Private!Entities, View
<1>10. w \notin {u.handle : u \in Private!Own(c)}
  BY <1>3 DEF Private!Own, View, Named
<1>11. v \in View' \ View
  BY <1>8, <1>9 DEF Private!Entities
<1>12. Response' = [caller |-> c, handle |-> w, touched |-> Touched]
  <2>1. result' = [caller |-> c, rc |-> "Success", handle |-> w, touched |-> Touched]
    BY <1>2, <1>7 DEF Reply
  <2> QED BY <2>1, ReplyResponse
<1>13. Touched \in SUBSET Private!Entities(Private!Own(c))
  BY <1>1, TouchedAreOwn, EntitiesOfOwn
<1>14. Private!Create(c, w, n)
  BY <1>8, <1>9, <1>10, <1>12, <1>13 DEF Private!Create
<1> QED BY <1>1, <1>11, <1>14 DEF IInv, DispatchInv, PhaseInv

(* DisposeContext forgets everything that the client owned.                *)
LEMMA DisposalDisconnects ==
  ASSUME NEW c, Dispose(c)
  PROVE  Private!Disconnect(c)
<1>1. contexts' = Remove(OwnedBy(c)) /\ result' = NoResult
  BY DEF Dispose
<1>2. View' = View \ Private!Own(c)
  BY <1>1 DEF View, Private!Own, Remove, OwnedBy
<1> QED BY <1>1, <1>2, QuietResponse DEF Private!Disconnect

-----------------------------------------------------------------------------
(* The theorem                                                             *)

(* Tbs starts with no client having anything.                              *)
LEMMA PrivateInit == Init => Private!Init
BY DEF Init, Private!Init, View, Response, NoResult, Private!NoResponse

(* Every step is a step of PrivateTpm or changes nothing visible.          *)
LEMMA PrivateNext ==
  ASSUME Ops \cap BypassOps = {}, IInv, ArgsInv, TruthInv, [Next]_vars
  PROVE  [Private!Next]_Private!vars
<1>1. cmd.cc \notin BypassOps /\ resetting = {}
  BY DEF TruthInv, OpsInv, BypassOps
<1>2. CASE DispatchStep
  <2>1. CASE \/ SkipLoaded \/ LoadObject \/ LoadObjectNeedsSpace \/ AllLoaded
             \/ EvictVictim \/ ShortenInMakeSpace \/ ShortenInDispatch \/ ExecNeedsSpace
    BY <2>1, InvisibleSteps
  <2>2. CASE \/ NothingToEvict \/ CannotShortenInMakeSpace
             \/ CannotShortenInDispatch \/ ExecFails
    BY <2>2, FailingSteps DEF Private!Next
  <2>3. CASE Load \/ StartAuthSession
    BY <2>3, CreationCreates DEF Private!Next
  <2>4. CASE Use
    BY <2>4, UseActs DEF Private!Next
  <2>5. CASE SequenceComplete \/ EventSequenceComplete
    BY <2>5, CompletionActs DEF Private!Next
  <2>6. CASE EndSession \/ FlushContext \/ ContextSave \/ ContextLoad \/ Clear
    BY <1>1, <2>6 DEF EndSession, FlushContext, ContextSave, ContextLoad, Clear, Succeed, BypassOps
  <2> QED BY <1>2, <2>1, <2>2, <2>3, <2>4, <2>5, <2>6 DEF DispatchStep
<1>3. CASE StartStateSave
  BY <1>3, WaitingSteps DEF Private!Next
<1>4. CASE ContextSaveNext \/ StateSaveDone
  BY <1>4, InvisibleSteps
<1>5. CASE ContextSaveThrows
  <2>1. OnlyDrops({})
    BY <1>5, FailingDropsNone
  <2>2. cmd.caller = NoClient /\ result' = Reply("throw")
    BY <1>5 DEF ContextSaveThrows, Throw, Return, IInv, DispatchInv, PhaseInv, NoCmd
  <2> QED BY <2>1, <2>2, SameView, QuietResponse DEF Reply, Private!Wait, Private!Next
<1>6. ASSUME NEW c \in Clients, ClientStep(c)
      PROVE  Private!Next
  <2>1. ASSUME NEW cc, NEW hs, RejectUnknown(c, cc, hs)
        PROVE  Private!Act(c)
    <3>1. OnlyDrops({})
      BY <2>1, UnchangedDropsNone DEF RejectUnknown
    <3>2. result' = [caller |-> c, rc |-> "Handle", handle |-> NoHandle, touched |-> {}]
      BY <2>1 DEF RejectUnknown, NoResult
    <3> QED BY <3>1, <3>2, RefusalActs
  <2>2. ASSUME NEW cc, NEW hs, NEW arg, Begin(c, cc, hs, arg)
        PROVE  Private!Wait
    BY <2>2, WaitingSteps
  <2>3. ~PowerCycle(c) /\ ~ProcessTpmClear(c)
    BY <1>1 DEF PowerCycle, ProcessTpmClear, BypassOps
  <2> QED BY <1>6, <2>1, <2>2, <2>3, DisposalDisconnects DEF ClientStep, Private!Next
<1>7. CASE UNCHANGED vars
  BY <1>7, InvisibleSteps
<1> QED BY <1>2, <1>3, <1>4, <1>5, <1>6, <1>7 DEF Next, StateSaveStep

(* Each client sees a TPM of its own, whatever the other clients do and    *)
(* however little room the real TPM has.                                   *)
THEOREM EachClientHasAPrivateTpm ==
  ASSUME Ops \cap BypassOps = {}
  PROVE  Spec => PrivateSpec
<1>1. IInv /\ NamesInv /\ TruthInv /\ [Next]_vars => [Private!Next]_Private!vars
  BY PrivateNext DEF NamesInv
<1> QED BY <1>1, PrivateInit, NamesInvariance, TruthInvariance, PTL
        DEF Spec, PrivateSpec, Private!Spec
=============================================================================
