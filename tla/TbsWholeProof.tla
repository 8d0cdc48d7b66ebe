---------------------------- MODULE TbsWholeProof ----------------------------
(***************************************************************************)
(* What Tbs believes about the TPM is the whole truth: an entity that is   *)
(* in TPM memory is the entity of a context that is marked as loaded, and  *)
(* a session that the TPM tracks as saved is that of a context with its    *)
(* blob.  From this it follows that the assertions of CheckConsistency     *)
(* hold, and that a command is refused for want of space only if it needs  *)
(* everything that is loaded.                                              *)
(*                                                                         *)
(* Besides what TbsTruthProof asks of the clients it takes a TPM with room *)
(* for what one command references, and a context gap that stays open:     *)
(* when it closes, sessions that cannot be reloaded are left behind with   *)
(* the handle TPM_RH_NULL.                                                 *)
(***************************************************************************)
EXTENDS TbsTruthProof, FunctionTheorems, FiniteSetTheorems

(* Use of the manager as it is meant, and a TPM that can hold at once what *)
(* a command references.                                                   *)
Managed ==
  /\ Ops \cap BypassOps = {}
  /\ MaxRefs <= Cardinality(ObjHandles) /\ MaxRefs <= MaxLoadedSessions

GapOpen == ~GapFull(tpm)

-----------------------------------------------------------------------------
(* The invariant                                                           *)

(* What is in TPM memory is listed as loaded, what is saved as saved.      *)
Active(t) == \A h \in t.loaded : t.sess[h] # NoEntity
Listed(t, ctxs) ==
  /\ Active(t)
  /\ \A h \in TpmHandles : Resident(t, h) =>
       /\ EntityAt(t, h) \in DOMAIN ctxs
       /\ ctxs[EntityAt(t, h)].isLoaded /\ ctxs[EntityAt(t, h)].tpmHandle = h

SavedListed(t, ctxs) ==
  \A h \in SavedSessHandles(t) :
    /\ t.sess[h] \in DOMAIN ctxs
    /\ ~ctxs[t.sess[h]].isLoaded /\ ctxs[t.sess[h]].context.handle = h

(* Only the context that LoadObject is working on has the handle of a      *)
(* failed ContextLoad, and it is given up for no other.                    *)
NullInv ==
  /\ \A e \in DOMAIN contexts :
       contexts[e].tpmHandle = RhNull => cmd.retry /\ e = cmd.need[cmd.at]
  /\ cmd.retry => InLoad

(* MakeSpace finds no victim only in the command loop, when there is none. *)
ChoiceInv ==
  /\ Len(cmd.need) <= MaxRefs
  /\ cmd.phase = "space" /\ cmd.victim = 0 =>
       cmd.from = "exec" /\ Victims(cmd.type, Pinned) = {}

WholeInv == Listed(tpm, contexts) /\ NullInv /\ ChoiceInv
SavedInv == SavedListed(tpm, contexts)

-----------------------------------------------------------------------------
(* Changes of the TPM and of the list together                             *)

(* Use counts and the handles of contexts that are not loaded play no part.*)
LEMMA KeptListed ==
  ASSUME NEW t, NEW ctxs, NEW new, DOMAIN new = DOMAIN ctxs,
         \A f \in DOMAIN ctxs :
           /\ new[f].isLoaded = ctxs[f].isLoaded /\ new[f].context = ctxs[f].context
           /\ ctxs[f].isLoaded => new[f].tpmHandle = ctxs[f].tpmHandle
  PROVE  /\ Listed(t, ctxs) => Listed(t, new)
         /\ SavedListed(t, ctxs) => SavedListed(t, new)
BY DEF Listed, SavedListed

(* An eviction empties the place of its entity, and of no other.           *)
LEMMA SaveOutMemory ==
  ASSUME NEW t \in TpmStates, Active(t), NEW h, SaveRc(t, h) = "Success", NEW u, u = SaveOut(t, h)
  PROVE  /\ Active(u)
         /\ \A g : Resident(u, g) => g # h /\ EntityAt(u, g) = EntityAt(t, g) /\ Resident(t, g)
         /\ u.sess = t.sess
         /\ SavedSessHandles(u) \subseteq SavedSessHandles(t) \cup ({h} \cap SessHandles)
<1>1. h \in TpmHandles
  BY SavedBlobType
<1>2. CASE h \in SessHandles
  <2>1. u.slot = t.slot /\ u.sess = t.sess /\ u.loaded = t.loaded \ {h}
    BY <1>2 DEF SaveOut, AfterSave, TpmStates
  <2> QED BY <1>2, <2>1, ResourceAssumption DEF Active, Resident, EntityAt, SavedSessHandles
<1>3. CASE h \notin SessHandles
  <2>1. u = Flush(t, {h})
    BY <1>3 DEF SaveOut, AfterSave
  <2>2. /\ u.slot = [g \in ObjHandles |-> IF g = h THEN NoEntity ELSE t.slot[g]]
        /\ u.sess = [g \in SessHandles |-> t.sess[g]]
        /\ u.loaded = t.loaded
    BY <1>3, <2>1 DEF Flush, TpmStates
  <2>3. u.sess = t.sess
    BY <2>2 DEF TpmStates
  <2> QED BY <1>1, <1>3, <2>2, <2>3 DEF Active, Resident, EntityAt, SavedSessHandles,
                                           TpmHandles, NoEntity
<1> QED BY <1>2, <1>3

(* Its context then has the blob.                                          *)
LEMMA EvictionListed ==
  ASSUME IInv, AllFaithful(tpm, contexts), Listed(tpm, contexts),
         NEW e \in DOMAIN contexts, Loaded(contexts[e]),
         SaveRc(tpm, contexts[e].tpmHandle) = "Success",
         tpm' = SaveOut(tpm, contexts[e].tpmHandle),
         DOMAIN contexts' = DOMAIN contexts,
         \A f \in DOMAIN contexts :
           contexts'[f] = IF f = e THEN Evicted(contexts[e], SavedBlob(tpm, contexts[e].tpmHandle))
                                   ELSE contexts[f]
  PROVE  Listed(tpm, contexts)' /\ (SavedInv => SavedInv')
<1>1. PICK h : h = contexts[e].tpmHandle
  OBVIOUS
<1>2. tpm \in TpmStates /\ contexts[e] \in ObjectContext
  BY ListedContext DEF IInv, TypeOK
<1>3. /\ h \in TpmHandles /\ Resident(tpm, h)
      /\ SavedBlob(tpm, h).handle = IF h \in SessHandles THEN h ELSE "Transient"
  BY <1>1, <1>2, SavedBlobType
<1>4. EntityAt(tpm, h) = e /\ contexts[e].isLoaded
  BY <1>1, <1>3, LoadedEntity, HandleKinds
<1>5. /\ Active(tpm')
      /\ \A g : Resident(tpm', g) =>
                  g # h /\ EntityAt(tpm', g) = EntityAt(tpm, g) /\ Resident(tpm, g)
      /\ tpm'.sess = tpm.sess
      /\ SavedSessHandles(tpm') \subseteq SavedSessHandles(tpm) \cup ({h} \cap SessHandles)
  BY <1>1, <1>2, SaveOutMemory DEF Listed
<1>6. contexts'[e].isLoaded = FALSE /\ contexts'[e].context = SavedBlob(tpm, h)
  BY <1>1, <1>2 DEF Evicted, ObjectContext
<1>7. Listed(tpm', contexts')
  <2> SUFFICES ASSUME NEW g \in TpmHandles, Resident(tpm', g)
               PROVE  /\ EntityAt(tpm', g) \in DOMAIN contexts'
                      /\ contexts'[EntityAt(tpm', g)].isLoaded
                      /\ contexts'[EntityAt(tpm', g)].tpmHandle = g
    BY <1>5 DEF Listed
  <2>1. g # h /\ EntityAt(tpm', g) = EntityAt(tpm, g) /\ Resident(tpm, g)
    BY <1>5
  <2>2. /\ EntityAt(tpm, g) \in DOMAIN contexts
        /\ contexts[EntityAt(tpm, g)].isLoaded /\ contexts[EntityAt(tpm, g)].tpmHandle = g
    BY <2>1 DEF Listed
  <2>3. EntityAt(tpm, g) # e
    BY <1>1, <2>1, <2>2
  <2> QED BY <2>1, <2>2, <2>3
<1>8. ASSUME SavedInv PROVE SavedListed(tpm', contexts')
  <2> SUFFICES ASSUME NEW g \in SavedSessHandles(tpm')
               PROVE  /\ tpm'.sess[g] \in DOMAIN contexts'
                      /\ ~contexts'[tpm'.sess[g]].isLoaded
                      /\ contexts'[tpm'.sess[g]].context.handle = g
    BY DEF SavedListed
  <2>1. CASE g = h /\ h \in SessHandles
    <3>1. tpm.sess[h] = e
      BY <1>3, <1>4, <2>1, ResourceAssumption DEF Resident, EntityAt
    <3> QED BY <1>3, <1>5, <1>6, <2>1, <3>1
  <2>2. CASE g \in SavedSessHandles(tpm)
    <3>1. /\ tpm.sess[g] \in DOMAIN contexts
          /\ ~contexts[tpm.sess[g]].isLoaded /\ contexts[tpm.sess[g]].context.handle = g
      BY <1>8, <2>2 DEF SavedInv, SavedListed
    <3> QED BY <1>4, <1>5, <3>1
  <2> QED BY <1>5, <2>1, <2>2
<1> QED BY <1>7, <1>8 DEF SavedInv

(* A reload fills the place that its entity gets.                          *)
LEMMA LoadMemory ==
  ASSUME NEW t \in TpmStates, Active(t), NEW b \in Blobs, LoadRc(t, b) = "Success",
         NEW h \in LoadHandles(t, b), NEW u, u = AfterLoad(t, b, h)
  PROVE  /\ Active(u)
         /\ \A g : Resident(u, g) /\ g # h => EntityAt(u, g) = EntityAt(t, g) /\ Resident(t, g)
         /\ u.sess = t.sess
         /\ SavedSessHandles(u) \subseteq SavedSessHandles(t) \ {h}
<1>1. h \in TpmHandles
  BY LoadHandlesType
<1>2. CASE h \in ObjHandles
  <2>1. u.slot = [t.slot EXCEPT ![h] = b.ent] /\ u.sess = t.sess /\ u.loaded = t.loaded
    BY <1>2 DEF AfterLoad, TpmStates
  <2>2. h \notin SessHandles
    BY <1>2, ResourceAssumption
  <2> QED BY <1>2, <2>1, <2>2 DEF Active, Resident, EntityAt, SavedSessHandles, TpmStates
<1>3. CASE h \notin ObjHandles
  <2>1. u.slot = t.slot /\ u.sess = t.sess /\ u.loaded = t.loaded \cup {h}
    BY <1>3 DEF AfterLoad, TpmStates
  <2>2. h \in SavedSessHandles(t)
    BY <1>3 DEF LoadHandles, LoadRc, FreeSlots
  <2> QED BY <1>3, <2>1, <2>2 DEF Active, Resident, EntityAt, SavedSessHandles
<1> QED BY <1>2, <1>3

(* Its context then has the handle.                                        *)
LEMMA ReloadListed ==
  ASSUME IInv, AllFaithful(tpm, contexts), Listed(tpm, contexts),
         NEW e \in DOMAIN contexts, ~contexts[e].isLoaded,
         LoadRc(tpm, contexts[e].context) = "Success",
         NEW h \in LoadHandles(tpm, contexts[e].context),
         tpm' = AfterLoad(tpm, contexts[e].context, h),
         contexts' = [contexts EXCEPT ![e].tpmHandle = h, ![e].isLoaded = TRUE]
  PROVE  Listed(tpm, contexts)' /\ (SavedInv => SavedInv')
<1>1. PICK b : b = contexts[e].context
  OBVIOUS
<1>2. tpm \in TpmStates /\ contexts[e] \in ObjectContext /\ b \in Blobs /\ b.ent = e
  BY <1>1, ListedContext DEF IInv, TypeOK, ObjectContext, Faithful, BlobGood
<1>3. /\ Active(tpm')
      /\ \A g : Resident(tpm', g) /\ g # h =>
                  EntityAt(tpm', g) = EntityAt(tpm, g) /\ Resident(tpm, g)
      /\ tpm'.sess = tpm.sess
      /\ SavedSessHandles(tpm') \subseteq SavedSessHandles(tpm) \ {h}
  BY <1>1, <1>2, LoadMemory DEF Listed
<1>4. EntityAt(tpm', h) = e
  BY <1>1, <1>2, AfterLoadFaithful
<1>5. /\ DOMAIN contexts' = DOMAIN contexts
      /\ contexts'[e].isLoaded = TRUE /\ contexts'[e].tpmHandle = h
      /\ \A f \in DOMAIN contexts : f # e => contexts'[f] = contexts[f]
  BY <1>2 DEF ObjectContext, IInv, TypeOK
<1>6. Listed(tpm', contexts')
  <2> SUFFICES ASSUME NEW g \in TpmHandles, Resident(tpm', g)
               PROVE  /\ EntityAt(tpm', g) \in DOMAIN contexts'
                      /\ contexts'[EntityAt(tpm', g)].isLoaded
                      /\ contexts'[EntityAt(tpm', g)].tpmHandle = g
    BY <1>3 DEF Listed
  <2>1. CASE g = h
    BY <1>4, <1>5, <2>1
  <2>2. CASE g # h
    <3>1. EntityAt(tpm', g) = EntityAt(tpm, g) /\ Resident(tpm, g)
      BY <1>3, <2>2
    <3>2. /\ EntityAt(tpm, g) \in DOMAIN contexts
          /\ contexts[EntityAt(tpm, g)].isLoaded /\ contexts[EntityAt(tpm, g)].tpmHandle = g
      BY <3>1 DEF Listed
    <3> QED BY <1>5, <3>1, <3>2
  <2> QED BY <2>1, <2>2
<1>7. ASSUME SavedInv PROVE SavedListed(tpm', contexts')
  <2> SUFFICES ASSUME NEW g \in SavedSessHandles(tpm')
               PROVE  /\ tpm'.sess[g] \in DOMAIN contexts'
                      /\ ~contexts'[tpm'.sess[g]].isLoaded
                      /\ contexts'[tpm'.sess[g]].context.handle = g
    BY DEF SavedListed
  <2>1. g \in SavedSessHandles(tpm) /\ g # h
    BY <1>3
  <2>2. /\ tpm.sess[g] \in DOMAIN contexts
        /\ ~contexts[tpm.sess[g]].isLoaded /\ contexts[tpm.sess[g]].context.handle = g
    BY <1>7, <2>1 DEF SavedInv, SavedListed
  <2>3. tpm.sess[g] # e
    <3> SUFFICES ASSUME tpm.sess[g] = e PROVE FALSE
      OBVIOUS
    <3>1. b.handle = g /\ g \in SessHandles
      BY <1>1, <2>1, <2>2 DEF SavedSessHandles
    <3>2. h = g
      BY <1>1, <3>1, ResourceAssumption DEF LoadHandles
    <3> QED BY <2>1, <3>2
  <2> QED BY <1>3, <1>5, <2>2, <2>3
<1> QED BY <1>6, <1>7 DEF SavedInv

(* A creation fills one place, and its entity is a new one of the list.    *)
LEMMA CreationListed ==
  ASSUME IInv, Listed(tpm, contexts),
         NEW h \in FreeSlots(tpm) \cup FreeSessHandles(tpm), CreateEntity(h)
  PROVE  Listed(tpm, contexts)' /\ (SavedInv => SavedInv')
<1>1. PICK n : n = created + 1
  OBVIOUS
<1>2. PICK v : contexts' = [e \in DOMAIN contexts \cup {n} |->
                  IF e \in DOMAIN contexts THEN contexts[e] ELSE NewContext(cmd.caller, v, h)]
  BY <1>1 DEF CreateEntity
<1>3. tpm' = AfterCreate(tpm, h, n)
  BY <1>1 DEF CreateEntity
<1>4. n \in Nat \ {0} /\ tpm \in TpmStates /\ n \notin DOMAIN contexts
  BY <1>1 DEF IInv, TypeOK
<1>5. /\ DOMAIN contexts' = DOMAIN contexts \cup {n}
      /\ contexts'[n].isLoaded = TRUE /\ contexts'[n].tpmHandle = h
      /\ \A f \in DOMAIN contexts : contexts'[f] = contexts[f]
  BY <1>2, <1>4 DEF NewContext
<1>6. EntityAt(tpm', h) = n
  BY <1>3, <1>4, AfterCreateFaithful
<1>7. /\ Active(tpm')
      /\ \A g : Resident(tpm', g) /\ g # h =>
                  EntityAt(tpm', g) = EntityAt(tpm, g) /\ Resident(tpm, g)
      /\ \A g \in SavedSessHandles(tpm') : g \in SavedSessHandles(tpm) /\ tpm'.sess[g] = tpm.sess[g]
  <2>1. CASE h \in ObjHandles
    <3>1. /\ tpm'.slot = [tpm.slot EXCEPT ![h] = n]
          /\ tpm'.sess = tpm.sess /\ tpm'.loaded = tpm.loaded
      BY <1>3, <1>4, <2>1 DEF AfterCreate, TpmStates
    <3>2. tpm.slot \in [ObjHandles -> Nat]
      BY <1>4 DEF TpmStates
    <3> QED BY <2>1, <3>1, <3>2 DEF Listed, Active, Resident, EntityAt, SavedSessHandles
  <2>2. CASE h \notin ObjHandles
    <3>1. /\ tpm'.sess = [tpm.sess EXCEPT ![h] = n]
          /\ tpm'.slot = tpm.slot /\ tpm'.loaded = tpm.loaded \cup {h}
      BY <1>3, <1>4, <2>2 DEF AfterCreate, TpmStates
    <3>2. tpm.sess \in [SessHandles -> Nat] /\ tpm.loaded \subseteq SessHandles
      BY <1>4 DEF TpmStates
    <3>3. h \in SessHandles
      BY <2>2 DEF FreeSlots, FreeSessHandles
    <3>4. Active(tpm')
      BY <1>4, <3>1, <3>2, <3>3 DEF Listed, Active, NoEntity
    <3> QED BY <2>2, <3>1, <3>2, <3>4 DEF Resident, EntityAt, SavedSessHandles
  <2> QED BY <2>1, <2>2
<1>8. Listed(tpm', contexts')
  <2> SUFFICES ASSUME NEW g \in TpmHandles, Resident(tpm', g)
               PROVE  /\ EntityAt(tpm', g) \in DOMAIN contexts'
                      /\ contexts'[EntityAt(tpm', g)].isLoaded
                      /\ contexts'[EntityAt(tpm', g)].tpmHandle = g
    BY <1>7 DEF Listed
  <2>1. CASE g = h
    BY <1>5, <1>6, <2>1
  <2>2. CASE g # h
    <3>1. EntityAt(tpm', g) = EntityAt(tpm, g) /\ Resident(tpm, g)
      BY <1>7, <2>2
    <3>2. /\ EntityAt(tpm, g) \in DOMAIN contexts
          /\ contexts[EntityAt(tpm, g)].isLoaded /\ contexts[EntityAt(tpm, g)].tpmHandle = g
      BY <3>1 DEF Listed
    <3> QED BY <1>5, <3>1, <3>2
  <2> QED BY <2>1, <2>2
<1>9. ASSUME SavedInv PROVE SavedListed(tpm', contexts')
  BY <1>5, <1>7, <1>9 DEF SavedInv, SavedListed
<1> QED BY <1>8, <1>9 DEF SavedInv

(* A flush empties places and fills none.                                  *)
LEMMA FlushMemory ==
  ASSUME NEW t \in TpmStates, Active(t), NEW H, NEW u, u = Flush(t, H)
  PROVE  /\ Active(u)
         /\ \A g : Resident(u, g) => g \notin H /\ EntityAt(u, g) = EntityAt(t, g) /\ Resident(t, g)
         /\ \A g \in SavedSessHandles(u) : g \in SavedSessHandles(t) /\ u.sess[g] = t.sess[g]
<1>1. /\ u.slot = [g \in ObjHandles |-> IF g \in H THEN NoEntity ELSE t.slot[g]]
      /\ u.sess = [g \in SessHandles |-> IF g \in H THEN NoEntity ELSE t.sess[g]]
      /\ u.loaded = t.loaded \ H
  BY DEF Flush, TpmStates
<1>2. t.loaded \subseteq SessHandles
  BY DEF TpmStates
<1> QED BY <1>1, <1>2 DEF Active, Resident, EntityAt, SavedSessHandles, NoEntity

(* Contexts go with what the TPM has loaded for them.                      *)
LEMMA FlushRemoveListed ==
  ASSUME IInv, Listed(tpm, contexts), NEW H, NEW E,
         tpm' = Flush(tpm, H), contexts' = Remove(E),
         \A e \in DOMAIN contexts \cap E : contexts[e].isLoaded => contexts[e].tpmHandle \in H
  PROVE  /\ Listed(tpm, contexts)'
         /\ SavedInv /\ (\A e \in DOMAIN contexts \cap E : contexts[e].isLoaded) => SavedInv'
<1>1. /\ Active(tpm')
      /\ \A g : Resident(tpm', g) =>
                  g \notin H /\ EntityAt(tpm', g) = EntityAt(tpm, g) /\ Resident(tpm, g)
      /\ \A g \in SavedSessHandles(tpm') : g \in SavedSessHandles(tpm) /\ tpm'.sess[g] = tpm.sess[g]
  BY FlushMemory DEF Listed, IInv, TypeOK
<1>2. DOMAIN contexts' = DOMAIN contexts \ E /\ \A e \in DOMAIN contexts \ E : contexts'[e] = contexts[e]
  BY DEF Remove
<1>3. Listed(tpm', contexts')
  <2> SUFFICES ASSUME NEW g \in TpmHandles, Resident(tpm', g)
               PROVE  /\ EntityAt(tpm', g) \in DOMAIN contexts'
                      /\ contexts'[EntityAt(tpm', g)].isLoaded
                      /\ contexts'[EntityAt(tpm', g)].tpmHandle = g
    BY <1>1 DEF Listed
  <2>1. g \notin H /\ EntityAt(tpm', g) = EntityAt(tpm, g) /\ Resident(tpm, g)
    BY <1>1
  <2>2. /\ EntityAt(tpm, g) \in DOMAIN contexts
        /\ contexts[EntityAt(tpm, g)].isLoaded /\ contexts[EntityAt(tpm, g)].tpmHandle = g
    BY <2>1 DEF Listed
  <2> QED BY <1>2, <2>1, <2>2
<1>4. ASSUME SavedInv, \A e \in DOMAIN contexts \cap E : contexts[e].isLoaded
      PROVE  SavedListed(tpm', contexts')
  BY <1>1, <1>2, <1>4 DEF SavedInv, SavedListed
<1> QED BY <1>3, <1>4 DEF SavedInv

(* After StateSaveAndReload nothing is in TPM memory, so a power cycle     *)
(* changes nothing.                                                        *)
LEMMA ResumeListed ==
  ASSUME IInv, Listed(tpm, contexts), LoadedContexts = {},
         tpm' \in {tpm, AfterResume(tpm)}, contexts' = contexts
  PROVE  Listed(tpm, contexts)' /\ (SavedInv => SavedInv')
<1>1. /\ Active(tpm')
      /\ \A g : Resident(tpm', g) => EntityAt(tpm', g) = EntityAt(tpm, g) /\ Resident(tpm, g)
      /\ \A g \in SavedSessHandles(tpm') : g \in SavedSessHandles(tpm) /\ tpm'.sess[g] = tpm.sess[g]
  BY FlushMemory DEF AfterResume, Listed, IInv, TypeOK
<1>2. Listed(tpm', contexts)
  BY <1>1 DEF Listed
<1>3. SavedInv => SavedListed(tpm', contexts)
  BY <1>1 DEF SavedInv, SavedListed
<1> QED BY <1>2, <1>3 DEF SavedInv

-----------------------------------------------------------------------------
(* MakeSpace finds a victim                                                *)

(* Different places that hold entities of a finite set are at most as many.*)
LEMMA PlacesOf ==
  ASSUME NEW S \in SUBSET TpmHandles, NEW P, IsFiniteSet(P), Listed(tpm, contexts),
         \A h \in S : Resident(tpm, h) /\ EntityAt(tpm, h) \in P
  PROVE  Cardinality(S) <= Cardinality(P)
<1>1. PICK f : f = [h \in S |-> EntityAt(tpm, h)]
  OBVIOUS
<1>2. \A g, h \in S : EntityAt(tpm, g) = EntityAt(tpm, h) => g = h
  BY DEF Listed
<1>3. f \in [S -> P] /\ \A g, h \in S : f[g] = f[h] => g = h
  BY <1>1, <1>2
<1>4. f \in Injection(S, P)
  BY <1>3, Fun_IsInj
<1> QED BY <1>4, FS_Injection

(* A command pins at most MaxRefs entities, and one fewer if one is left   *)
(* out.                                                                    *)
LEMMA PinnedCount ==
  ASSUME IInv, Len(cmd.need) <= MaxRefs, NEW e \in Pinned
  PROVE  /\ IsFiniteSet(Pinned \ {e})
         /\ Cardinality(Pinned \ {e}) \in Nat /\ Cardinality(Pinned \ {e}) < MaxRefs
<1>1. PICK n : n = Len(cmd.need)
  OBVIOUS
<1>2. n \in Nat /\ DOMAIN cmd.need = 1 .. n /\ MaxRefs \in Nat
  BY <1>1, TbsAssumption DEF IInv, TypeOK, CmdRecords
<1>3. IsFiniteSet(1 .. n) /\ Cardinality(1 .. n) = n
  BY <1>2, FS_Interval
<1>4. PICK f : f = [i \in 1 .. n |-> cmd.need[i]]
  OBVIOUS
<1>5. f \in Surjection(1 .. n, Pinned)
  BY <1>2, <1>4, Fun_IsSurj DEF Pinned
<1>6. IsFiniteSet(Pinned) /\ Cardinality(Pinned) <= n
  BY <1>3, <1>5, FS_Surjection
<1>7. Cardinality(Pinned) \in Nat /\ Pinned # {}
  BY <1>6, FS_CardinalityType
<1>8. IsFiniteSet(Pinned \ {e}) /\ Cardinality(Pinned \ {e}) = Cardinality(Pinned) - 1
  BY <1>6, FS_RemoveElement
<1>9. Cardinality(Pinned \ {e}) \in Nat
  BY <1>8, FS_CardinalityType
<1> QED BY <1>1, <1>2, <1>6, <1>7, <1>8, <1>9

(* GetEntityToEvict finds a victim if there is one.                        *)
LEMMA VictimExists ==
  ASSUME IInv, NEW type, NEW pinned, EntityToEvict(type, pinned) = 0
  PROVE  Victims(type, pinned) = {}
<1> SUFFICES ASSUME Victims(type, pinned) # {} PROVE FALSE
  OBVIOUS
<1>1. PICK V : V = Victims(type, pinned)
  OBVIOUS
<1>2. /\ V \subseteq Nat /\ 0 \notin V
      /\ \A e \in V : contexts[e].lastUseCount \in Nat
  BY <1>1 DEF Victims, IInv, TypeOK, ObjectContext
<1>3. PICK counts : counts = {contexts[e].lastUseCount : e \in V}
  OBVIOUS
<1>4. counts \subseteq Nat /\ counts # {}
  BY <1>1, <1>2, <1>3
<1>5. PICK m \in counts : \A n \in counts : m <= n
  BY <1>4, Least
<1>6. PICK e \in V : m = contexts[e].lastUseCount
  BY <1>3
<1>7. PICK stalest : stalest = {f \in V : \A g \in V : contexts[f].lastUseCount <= contexts[g].lastUseCount}
  OBVIOUS
<1>8. e \in stalest
  BY <1>3, <1>5, <1>6, <1>7
<1>9. Min(stalest) \in stalest /\ stalest \subseteq V
  BY <1>2, <1>7, <1>8, MinInSet
<1>10. EntityToEvict(type, pinned) = Min(stalest)
  BY <1>1, <1>7, <1>8 DEF EntityToEvict
<1> QED BY <1>2, <1>9, <1>10

(* What LoadObject works on is not in TPM memory, so the command leaves    *)
(* something to evict if the TPM has no room.                              *)
LEMMA LoadingFindsVictim ==
  ASSUME Managed, IInv, TruthInv, WholeInv, GapOpen, Loading,
         NEW e, e = cmd.need[cmd.at], LoadRc(tpm, contexts[e].context) # "Success"
  PROVE  EntityToEvict(contexts[e].slotType, Pinned) # 0
<1> SUFFICES ASSUME EntityToEvict(contexts[e].slotType, Pinned) = 0 PROVE FALSE
  OBVIOUS
<1>1. /\ e \in DOMAIN contexts /\ e \in Pinned /\ ~contexts[e].isLoaded
      /\ contexts[e] \in ObjectContext /\ RightKind(contexts[e])
  BY LoadingContext DEF Pinned
<1>2. Victims(contexts[e].slotType, Pinned) = {}
  BY VictimExists
<1>3. BlobGood(tpm, contexts[e].context, e)
  BY <1>1, ListedContext DEF TruthInv, Faithful
<1>4. tpm \in TpmStates
  BY DEF IInv, TypeOK
<1>5. ASSUME NEW h \in TpmHandles, Resident(tpm, h), SlotType(h) = contexts[e].slotType
      PROVE  EntityAt(tpm, h) \in Pinned \ {e}
  <2>1. PICK f : f = EntityAt(tpm, h)
    OBVIOUS
  <2>2. f \in DOMAIN contexts /\ contexts[f].isLoaded /\ contexts[f].tpmHandle = h
    BY <1>5, <2>1 DEF WholeInv, Listed
  <2>3. contexts[f].slotType = contexts[e].slotType /\ Loaded(contexts[f])
    BY <1>5, <2>2, ListedContext, HandleKinds DEF TruthInv, RightKind, Loaded
  <2>4. f \in Pinned
    BY <1>2, <2>2, <2>3 DEF Victims
  <2> QED BY <1>1, <2>1, <2>2, <2>4
<1>6. /\ IsFiniteSet(Pinned \ {e})
      /\ Cardinality(Pinned \ {e}) \in Nat /\ Cardinality(Pinned \ {e}) < MaxRefs
  BY <1>1, PinnedCount DEF WholeInv, ChoiceInv
<1>7. CASE contexts[e].slotType = "ObjectSlot"
  <2>1. FreeSlots(tpm) = {}
    BY <1>1, <1>3, <1>7 DEF RightKind, BlobGood, LoadRc
  <2>2. \A h \in ObjHandles : Resident(tpm, h) /\ EntityAt(tpm, h) \in Pinned \ {e}
    BY <1>5, <1>7, <2>1, HandleKinds DEF FreeSlots, Resident, EntityAt, TpmHandles
  <2>3. Cardinality(ObjHandles) <= Cardinality(Pinned \ {e})
    BY <1>6, <2>2, PlacesOf DEF WholeInv, TpmHandles
  <2>4. Cardinality(ObjHandles) \in Nat /\ MaxRefs \in Nat
    BY ResourceAssumption, TbsAssumption, FS_CardinalityType
  <2> QED BY <1>6, <2>3, <2>4 DEF Managed
<1>8. CASE contexts[e].slotType = "SessionSlot"
  <2>1. contexts[e].context.handle \in SessHandles
    BY <1>1, <1>8 DEF RightKind
  <2>2. SessionMemoryFull(tpm)
    BY <1>3, <2>1, ResourceAssumption DEF BlobGood, LoadRc, GapOpen
  <2>3. tpm.loaded \subseteq SessHandles
    BY <1>4 DEF TpmStates
  <2>4. ASSUME NEW h \in tpm.loaded
        PROVE  Resident(tpm, h) /\ EntityAt(tpm, h) \in Pinned \ {e}
    <3>1. Resident(tpm, h)
      BY <2>3, ResourceAssumption DEF WholeInv, Listed, Active, Resident, EntityAt
    <3> QED BY <1>5, <1>8, <2>3, <3>1, HandleKinds DEF TpmHandles
  <2>5. Cardinality(tpm.loaded) <= Cardinality(Pinned \ {e})
    BY <1>6, <2>3, <2>4, PlacesOf DEF WholeInv, TpmHandles
  <2>6. Cardinality(tpm.loaded) \in Nat /\ MaxRefs \in Nat
    BY <2>3, ResourceAssumption, TbsAssumption, FS_Subset, FS_CardinalityType
  <2> QED BY <1>6, <2>2, <2>5, <2>6, ResourceAssumption DEF Managed, SessionMemoryFull
<1> QED BY <1>1, <1>7, <1>8 DEF ObjectContext

-----------------------------------------------------------------------------
(* Commands that end                                                       *)

(* Between commands nothing is being loaded.                               *)
LEMMA BetweenWhole ==
  ASSUME cmd' = NoCmd \/ cmd' = [NoCmd EXCEPT !.phase = "state"], Listed(tpm, contexts)',
         \A e \in DOMAIN contexts' : contexts'[e].tpmHandle # RhNull
  PROVE  WholeInv'
<1>1. cmd'.need = <<>> /\ cmd'.retry = FALSE /\ cmd'.phase # "space"
  BY DEF NoCmd
<1>2. Len(cmd'.need) <= MaxRefs
  BY <1>1, EmptySeq, TbsAssumption
<1> QED BY <1>1, <1>2 DEF WholeInv, NullInv, ChoiceInv

(* When LoadObject is not at work, no context has the handle TPM_RH_NULL.  *)
LEMMA NothingNull ==
  ASSUME IInv, WholeInv, ~InLoad
  PROVE  ~cmd.retry /\ \A e \in DOMAIN contexts : contexts[e].tpmHandle # RhNull
BY DEF WholeInv, NullInv

(* A dispatch that ends with an error or an exception.                     *)
LEMMA FailureWhole ==
  ASSUME IInv, WholeInv, ~InLoad, NEW rc, ReturnError(rc, contexts) \/ Throw(contexts), tpm' = tpm
  PROVE  WholeInv' /\ (SavedInv => SavedInv')
<1>1. cmd' = NoCmd
  BY DEF ReturnError, Throw, Return
<1>2. DOMAIN contexts' = DOMAIN contexts
  BY DEF ReturnError, Throw, UpdateLastUseCount
<1>3. ASSUME NEW e \in DOMAIN contexts
      PROVE  /\ contexts'[e].isLoaded = contexts[e].isLoaded
             /\ contexts'[e].context = contexts[e].context
             /\ contexts'[e].tpmHandle = contexts[e].tpmHandle
  <2>1. CASE contexts'[e] = contexts[e]
    BY <2>1
  <2>2. CASE contexts'[e] # contexts[e]
    <3>1. PICK n : contexts'[e] = [contexts[e] EXCEPT !.lastUseCount = n]
      BY <2>2 DEF ReturnError, Throw, UpdateLastUseCount
    <3>2. contexts[e] \in ObjectContext
      BY DEF IInv, TypeOK
    <3> QED BY <3>1, <3>2 DEF ObjectContext
  <2> QED BY <2>1, <2>2
<1>4. Listed(tpm', contexts') /\ (SavedInv => SavedInv')
  BY <1>2, <1>3, KeptListed DEF WholeInv, SavedInv
<1> QED BY <1>1, <1>2, <1>3, <1>4, NothingNull, BetweenWhole

(* The victim of MakeSpace is in TPM memory.                               *)
LEMMA VictimResident ==
  ASSUME IInv, TruthInv, WholeInv, cmd.phase = "space", cmd.victim # 0
  PROVE  /\ cmd.victim \in DOMAIN contexts /\ cmd.victimHandle = contexts[cmd.victim].tpmHandle
         /\ Loaded(contexts[cmd.victim]) /\ Resident(tpm, cmd.victimHandle)
<1>1. cmd.victim \in DOMAIN contexts \ Pinned
  BY DEF TruthInv, SpareInv
<1>2. cmd.victimHandle = contexts[cmd.victim].tpmHandle /\ Loaded(contexts[cmd.victim])
  BY <1>1 DEF IInv, DispatchInv, VictimInv
<1>3. contexts[cmd.victim].tpmHandle # RhNull
  BY <1>1 DEF WholeInv, NullInv, Pinned, IInv, DispatchInv, RetryInv
<1> QED BY <1>1, <1>2, <1>3, LoadedEntity DEF TruthInv

(* With the gap open, it can be saved: MakeSpace fails for want of a       *)
(* victim only.                                                            *)
LEMMA VictimSaved ==
  ASSUME IInv, TruthInv, WholeInv, GapOpen
  PROVE  /\ ~GapInMakeSpace /\ ~ExecGap
         /\ NothingToEvict => cmd.phase = "space" /\ cmd.victim = 0
<1>1. cmd.phase = "space" /\ cmd.victim # 0 => SaveRc(tpm, cmd.victimHandle) = "Success"
  BY VictimResident DEF SaveRc, GapOpen
<1>2. ~ExecGap
  BY DEF ExecGap, ResourceErrors, StartSessionRc, GapOpen
<1> QED BY <1>1, <1>2 DEF GapInMakeSpace, NothingToEvict

(* Commands that fail.                                                     *)
LEMMA FailingWhole ==
  ASSUME IInv, TruthInv, WholeInv, GapOpen, ExecFails \/ NothingToEvict \/ ContextSaveThrows
  PROVE  WholeInv' /\ (SavedInv => SavedInv')
<1>1. \E rc : ReturnError(rc, contexts) \/ Throw(contexts)
  BY DEF ExecFails, NothingToEvict, ContextSaveThrows, MakeSpaceFailed
<1>2. tpm' = tpm
  BY DEF ExecFails, NothingToEvict, ContextSaveThrows
<1>3. ~InLoad
  BY VictimSaved DEF ExecFails, NothingToEvict, ContextSaveThrows, InLoad, WholeInv, ChoiceInv
<1> QED BY <1>1, <1>2, <1>3, FailureWhole

(* A command that creates an entity.                                       *)
LEMMA CreationWhole ==
  ASSUME IInv, WholeInv, Load \/ StartAuthSession
  PROVE  WholeInv' /\ (SavedInv => SavedInv')
<1>1. PICK h \in FreeSlots(tpm) \cup FreeSessHandles(tpm) : CreateEntity(h)
  BY DEF Load, StartAuthSession
<1>2. ~InLoad /\ cmd' = NoCmd
  BY DEF Load, StartAuthSession, InLoad, CreateEntity, Return
<1>3. h # RhNull
  BY HandleKinds DEF FreeSlots, FreeSessHandles, TpmHandles
<1>4. ASSUME NEW e \in DOMAIN contexts' PROVE contexts'[e].tpmHandle # RhNull
  <2>1. PICK v : contexts' = [f \in DOMAIN contexts \cup {created + 1} |->
                   IF f \in DOMAIN contexts THEN contexts[f] ELSE NewContext(cmd.caller, v, h)]
    BY <1>1 DEF CreateEntity
  <2>2. NewContext(cmd.caller, v, h).tpmHandle = h
    BY DEF NewContext
  <2> QED BY <1>2, <1>3, <2>1, <2>2, NothingNull
<1> QED BY <1>1, <1>2, <1>4, CreationListed, BetweenWhole DEF WholeInv

(* A sequence that completes.                                              *)
LEMMA CompletionWhole ==
  ASSUME IInv, TruthInv, ArgsInv, WholeInv, SequenceComplete \/ EventSequenceComplete
  PROVE  WholeInv' /\ (SavedInv => SavedInv')
<1>1. PICK i \in DOMAIN cmd.need :
        /\ tpm' = Flush(tpm, {cmd.phys[i]}) /\ contexts' = Remove({cmd.need[i]})
        /\ Resident(tpm, cmd.phys[i])
  BY DEF SequenceComplete, EventSequenceComplete, Complete, Succeed, ArgsInv
<1>2. cmd.phase = "exec" /\ cmd' = NoCmd
  BY DEF SequenceComplete, EventSequenceComplete, Complete, Succeed, Return
<1>3. cmd.phys[i] \in TpmHandles
  BY <1>1, ResidentHandle DEF IInv, TypeOK
<1>4. /\ cmd.need[i] \in DOMAIN contexts
      /\ Loaded(contexts[cmd.need[i]]) /\ contexts[cmd.need[i]].tpmHandle = cmd.phys[i]
  BY <1>2, <1>3, HandleKinds DEF TruthInv, BufferInv, InExec, IInv, DispatchInv, NeedInv
<1>5. contexts[cmd.need[i]].isLoaded
  BY <1>3, <1>4, HandleKinds DEF Loaded
<1>6. Listed(tpm, contexts)' /\ (SavedInv => SavedInv')
  BY <1>1, <1>4, <1>5, FlushRemoveListed DEF WholeInv
<1>7. ~InLoad
  BY <1>2 DEF InLoad
<1>8. \A e \in DOMAIN contexts' : contexts'[e].tpmHandle # RhNull
  BY <1>1, <1>7, NothingNull DEF Remove
<1> QED BY <1>2, <1>6, <1>8, BetweenWhole

(* Disposal: the sessions that are saved are forgotten.                    *)
LEMMA DisposeWhole ==
  ASSUME IInv, WholeInv, NEW c, Dispose(c)
  PROVE  WholeInv'
<1>1. PICK H : H = {contexts[e].tpmHandle : e \in {f \in OwnedBy(c) : Loaded(contexts[f])}}
  OBVIOUS
<1>2. /\ tpm' = Flush(tpm, H) /\ contexts' = Remove(OwnedBy(c))
      /\ cmd' = NoCmd /\ cmd = NoCmd
  BY <1>1 DEF Dispose
<1>3. ~InLoad
  BY <1>2 DEF InLoad, NoCmd
<1>4. ASSUME NEW e \in DOMAIN contexts \cap OwnedBy(c), contexts[e].isLoaded
      PROVE  contexts[e].tpmHandle \in H
  BY <1>1, <1>4, HandleKinds DEF IInv, ContextsInv, RightKind, Loaded
<1>5. Listed(tpm, contexts)'
  BY <1>2, <1>4, FlushRemoveListed DEF WholeInv
<1>6. \A e \in DOMAIN contexts' : contexts'[e].tpmHandle # RhNull
  BY <1>2, <1>3, NothingNull DEF Remove
<1> QED BY <1>2, <1>5, <1>6, BetweenWhole

(* StateSaveAndReload, and the end of any other command that changes       *)
(* nothing.                                                                *)
LEMMA StateSaveWhole ==
  ASSUME IInv, TruthInv, WholeInv, StartStateSave \/ ContextSaveNext \/ StateSaveDone
  PROVE  WholeInv' /\ (SavedInv => SavedInv')
<1>1. ~InLoad /\ (cmd' = NoCmd \/ cmd' = [NoCmd EXCEPT !.phase = "state"])
  <2>1. NoCmd.phase = "idle"
    BY DEF NoCmd
  <2> QED BY <2>1 DEF StartStateSave, ContextSaveNext, StateSaveDone, InLoad, IInv, DispatchInv, PhaseInv
<1>2. \A e \in DOMAIN contexts : contexts[e].tpmHandle # RhNull
  BY <1>1, NothingNull
<1>3. CASE StartStateSave
  <2>1. UNCHANGED <<tpm, contexts>>
    BY <1>3 DEF StartStateSave
  <2>2. Listed(tpm, contexts)' /\ (SavedInv => SavedInv')
    BY <2>1 DEF WholeInv, SavedInv
  <2> QED BY <1>1, <1>2, <2>1, <2>2, BetweenWhole
<1>4. CASE ContextSaveNext
  <2>1. PICK e : e = Min(LoadedContexts)
    OBVIOUS
  <2>2. PICK b : b = SavedBlob(tpm, contexts[e].tpmHandle)
    OBVIOUS
  <2>3. /\ LoadedContexts # {} /\ SaveRc(tpm, contexts[e].tpmHandle) = "Success"
        /\ tpm' = SaveOut(tpm, contexts[e].tpmHandle)
        /\ contexts' = [contexts EXCEPT ![e] = Evicted(@, b)]
    BY <1>4, <2>1, <2>2 DEF ContextSaveNext
  <2>4. LoadedContexts \subseteq Nat
    BY DEF LoadedContexts, IInv, TypeOK
  <2>5. e \in DOMAIN contexts /\ Loaded(contexts[e])
    BY <2>1, <2>3, <2>4, MinInSet DEF LoadedContexts
  <2>6. /\ DOMAIN contexts' = DOMAIN contexts
        /\ \A f \in DOMAIN contexts :
             contexts'[f] = IF f = e THEN Evicted(contexts[e], b) ELSE contexts[f]
    BY <2>3, <2>5 DEF IInv, TypeOK
  <2>7. Listed(tpm, contexts)' /\ (SavedInv => SavedInv')
    BY <2>2, <2>3, <2>5, <2>6, EvictionListed DEF TruthInv, WholeInv
  <2>8. Evicted(contexts[e], b).tpmHandle = NoHandle
    BY <2>5 DEF Evicted, IInv, TypeOK, ObjectContext
  <2>9. \A f \in DOMAIN contexts' : contexts'[f].tpmHandle # RhNull
    BY <1>2, <2>6, <2>8, TbsAssumption
  <2> QED BY <1>1, <2>7, <2>9, BetweenWhole
<1>5. CASE StateSaveDone
  <2>1. LoadedContexts = {} /\ tpm' \in {tpm, AfterResume(tpm)} /\ contexts' = contexts
    BY <1>5 DEF StateSaveDone
  <2>2. Listed(tpm, contexts)' /\ (SavedInv => SavedInv')
    BY <2>1, ResumeListed DEF WholeInv
  <2> QED BY <1>1, <1>2, <2>1, <2>2, BetweenWhole
<1> QED BY <1>3, <1>4, <1>5

-----------------------------------------------------------------------------
(* Commands in progress                                                    *)

(* A step that does not touch what the invariants are about.               *)
LEMMA UnchangedWhole ==
  ASSUME WholeInv, UNCHANGED <<tpm, contexts, cmd>>
  PROVE  WholeInv' /\ (SavedInv => SavedInv')
<1>1. NullInv' /\ ChoiceInv'
  BY DEF WholeInv, NullInv, ChoiceInv, InLoad, Victims, Pinned, Loaded
<1> QED BY <1>1 DEF WholeInv, SavedInv

(* A command references at most MaxRefs handles.                           *)
LEMMA BeginWhole ==
  ASSUME WholeInv, NEW c, NEW cc, NEW hs \in HandleLists, NEW arg,
         Begin(c, cc, hs, arg) \/ RejectUnknown(c, cc, hs)
  PROVE  WholeInv' /\ (SavedInv => SavedInv')
<1>1. CASE RejectUnknown(c, cc, hs)
  BY <1>1, UnchangedWhole DEF RejectUnknown
<1>2. CASE Begin(c, cc, hs, arg)
  <2>1. /\ cmd = NoCmd /\ cmd'.phase = "load" /\ cmd'.retry = FALSE
        /\ cmd'.need = [i \in DOMAIN hs |-> GetContext(c, hs[i])]
        /\ UNCHANGED <<tpm, contexts>>
    BY <1>2 DEF Begin, NoCmd
  <2>2. PICK n \in 0 .. MaxRefs : DOMAIN hs = 1 .. n
    BY DEF HandleLists
  <2>3. Len(cmd'.need) = n
    BY <2>1, <2>2, TbsAssumption
  <2>4. ~cmd.retry
    BY <2>1 DEF NoCmd
  <2> QED BY <2>1, <2>2, <2>3, <2>4, TbsAssumption DEF WholeInv, SavedInv, NullInv, ChoiceInv
<1> QED BY <1>1, <1>2

(* LoadEntities goes on, ReplaceHandlesIn: nothing is being loaded.        *)
LEMMA PassedWhole ==
  ASSUME IInv, WholeInv, SkipLoaded \/ AllLoaded
  PROVE  WholeInv' /\ (SavedInv => SavedInv')
<1>1. ~cmd.retry
  BY NeedDomain DEF SkipLoaded, AllLoaded, IInv, TypeOK, CmdRecords, DispatchInv, RetryInv
<1>2. /\ cmd'.retry = cmd.retry /\ cmd'.need = cmd.need /\ cmd'.phase # "space"
      /\ UNCHANGED <<tpm, contexts>>
  BY DEF SkipLoaded, AllLoaded, AtEntity, IInv, TypeOK, CmdRecords
<1> QED BY <1>1, <1>2 DEF WholeInv, SavedInv, NullInv, ChoiceInv

(* LoadObject.                                                             *)
LEMMA LoadObjectWhole ==
  ASSUME IInv, TruthInv, WholeInv, LoadObject
  PROVE  WholeInv' /\ (SavedInv => SavedInv')
<1>1. PICK e : e = cmd.need[cmd.at]
  OBVIOUS
<1>2. PICK h \in LoadHandles(tpm, contexts[e].context) :
        /\ tpm' = AfterLoad(tpm, contexts[e].context, h)
        /\ contexts' = [contexts EXCEPT ![e].tpmHandle = h, ![e].isLoaded = TRUE]
  BY <1>1 DEF LoadObject
<1>3. /\ Loading /\ LoadRc(tpm, contexts[e].context) = "Success"
      /\ cmd' = [cmd EXCEPT !.at = @ + 1, !.retry = FALSE] /\ cmd.phase = "load"
  BY <1>1 DEF LoadObject, Loading, AtEntity
<1>4. /\ e \in DOMAIN contexts /\ contexts[e] \in ObjectContext
      /\ ~contexts[e].isLoaded /\ contexts[e].context \in Blobs
  BY <1>1, <1>3, LoadingContext DEF ObjectContext
<1>5. Listed(tpm, contexts)' /\ (SavedInv => SavedInv')
  BY <1>2, <1>3, <1>4, ReloadListed DEF TruthInv, WholeInv
<1>6. h # RhNull
  BY <1>2, <1>3, <1>4, LoadHandlesType, HandleKinds DEF IInv, TypeOK
<1>7. /\ DOMAIN contexts' = DOMAIN contexts
      /\ contexts'[e].tpmHandle = h
      /\ \A f \in DOMAIN contexts : f # e => contexts'[f] = contexts[f]
  BY <1>2, <1>4 DEF ObjectContext, IInv, TypeOK
<1>8. \A f \in DOMAIN contexts' : contexts'[f].tpmHandle # RhNull
  BY <1>1, <1>6, <1>7 DEF WholeInv, NullInv
<1>9. cmd'.retry = FALSE /\ cmd'.phase = "load" /\ cmd'.need = cmd.need
  BY <1>3 DEF IInv, TypeOK, CmdRecords
<1> QED BY <1>5, <1>8, <1>9 DEF WholeInv, NullInv, ChoiceInv

(* A failed ContextLoad: there is something to evict for another try.      *)
LEMMA LoadObjectNeedsSpaceWhole ==
  ASSUME Managed, IInv, TruthInv, WholeInv, GapOpen, LoadObjectNeedsSpace
  PROVE  WholeInv' /\ (SavedInv => SavedInv')
<1>1. PICK e : e = cmd.need[cmd.at]
  OBVIOUS
<1>2. /\ Loading /\ cmd.phase = "load" /\ LoadRc(tpm, contexts[e].context) # "Success"
      /\ contexts' = [contexts EXCEPT ![e].tpmHandle = RhNull]
      /\ CallMakeSpace(contexts[e].slotType, TRUE) /\ tpm' = tpm
  BY <1>1 DEF LoadObjectNeedsSpace, Loading, AtEntity
<1>3. /\ e \in DOMAIN contexts /\ contexts[e] \in ObjectContext /\ ~contexts[e].isLoaded
      /\ contexts[e].slotType \in {"ObjectSlot", "SessionSlot"}
  BY <1>1, <1>2, LoadingContext DEF ObjectContext
<1>4. /\ cmd'.phase = "space" /\ cmd'.from = "load" /\ cmd'.need = cmd.need
      /\ cmd'.at = cmd.at /\ cmd'.retry = TRUE
  BY <1>2, <1>3, CallMakeSpaceType
<1>5. cmd'.victim # 0
  <2>1. cmd'.victim = EntityToEvict(contexts[e].slotType, Pinned)
    BY <1>2 DEF CallMakeSpace, IInv, TypeOK, CmdRecords
  <2> QED BY <1>1, <1>2, <2>1, LoadingFindsVictim
<1>6. /\ DOMAIN contexts' = DOMAIN contexts
      /\ contexts'[e].isLoaded = contexts[e].isLoaded /\ contexts'[e].context = contexts[e].context
      /\ \A f \in DOMAIN contexts : f # e => contexts'[f] = contexts[f]
  BY <1>2, <1>3 DEF ObjectContext, IInv, TypeOK
<1>7. Listed(tpm', contexts') /\ (SavedInv => SavedInv')
  <2>1. \A f \in DOMAIN contexts :
          /\ contexts'[f].isLoaded = contexts[f].isLoaded /\ contexts'[f].context = contexts[f].context
          /\ contexts[f].isLoaded => contexts'[f].tpmHandle = contexts[f].tpmHandle
    BY <1>3, <1>6
  <2>2. /\ Listed(tpm, contexts) => Listed(tpm, contexts')
        /\ SavedListed(tpm, contexts) => SavedListed(tpm, contexts')
    BY <1>6, <2>1, KeptListed
  <2> QED BY <1>2, <2>2 DEF WholeInv, SavedInv
<1>8. NullInv'
  BY <1>1, <1>4, <1>6 DEF WholeInv, NullInv, InLoad
<1>9. ChoiceInv'
  BY <1>4, <1>5 DEF WholeInv, ChoiceInv
<1> QED BY <1>7, <1>8, <1>9 DEF WholeInv

(* MakeSpace is called from the command loop.                              *)
LEMMA ExecNeedsSpaceWhole ==
  ASSUME IInv, WholeInv, ExecNeedsSpace
  PROVE  WholeInv' /\ (SavedInv => SavedInv')
<1>1. cmd.phase = "exec" /\ UNCHANGED <<tpm, contexts>>
  BY DEF ExecNeedsSpace
<1>2. PICK type \in {"ObjectSlot", "SessionSlot"} : CallMakeSpace(type, FALSE)
  BY DEF ExecNeedsSpace
<1>3. /\ cmd'.phase = "space" /\ cmd'.from = "exec" /\ cmd'.need = cmd.need
      /\ cmd'.type = type /\ cmd'.retry = FALSE
  BY <1>1, <1>2, CallMakeSpaceType
<1>4. cmd'.victim = EntityToEvict(type, Pinned)
  BY <1>2 DEF CallMakeSpace, IInv, TypeOK, CmdRecords
<1>5. cmd'.victim = 0 => Victims(type, Pinned) = {}
  BY <1>4, VictimExists
<1>6. ChoiceInv'
  BY <1>1, <1>3, <1>5 DEF WholeInv, ChoiceInv, Victims, Pinned, Loaded
<1>7. NullInv'
  BY <1>1, <1>3, NothingNull DEF NullInv, InLoad
<1> QED BY <1>1, <1>6, <1>7 DEF WholeInv, SavedInv

(* The victim goes.                                                        *)
LEMMA EvictVictimWhole ==
  ASSUME IInv, TruthInv, WholeInv, EvictVictim
  PROVE  WholeInv' /\ (SavedInv => SavedInv')
<1>1. PICK e, h : e = cmd.victim /\ h = cmd.victimHandle
  OBVIOUS
<1>2. /\ cmd.phase = "space" /\ e # 0 /\ SaveRc(tpm, h) = "Success"
      /\ tpm' = SaveOut(tpm, h)
      /\ contexts' = [f \in DOMAIN contexts |->
           IF f = e THEN Evicted(contexts[f], SavedBlob(tpm, h)) ELSE contexts[f]]
      /\ cmd' = [cmd EXCEPT !.phase = cmd.from, !.from = "idle", !.type = "NoSlot",
                            !.firstSeq = 0, !.victim = 0, !.victimHandle = NoHandle]
  BY <1>1 DEF EvictVictim
<1>3. e \in DOMAIN contexts /\ h = contexts[e].tpmHandle /\ Loaded(contexts[e])
  BY <1>1, <1>2, VictimResident
<1>4. Listed(tpm, contexts)' /\ (SavedInv => SavedInv')
  BY <1>2, <1>3, EvictionListed DEF TruthInv, WholeInv
<1>5. /\ cmd'.phase = cmd.from /\ cmd'.need = cmd.need /\ cmd'.at = cmd.at
      /\ cmd'.retry = cmd.retry /\ cmd.from \in {"load", "exec"}
  BY <1>2 DEF IInv, TypeOK, CmdRecords, DispatchInv, PhaseInv
<1>6. Evicted(contexts[e], SavedBlob(tpm, h)).tpmHandle = NoHandle
  BY <1>3 DEF Evicted, IInv, TypeOK, ObjectContext
<1>7. NullInv'
  BY <1>2, <1>5, <1>6, TbsAssumption DEF WholeInv, NullInv, InLoad
<1> QED BY <1>4, <1>5, <1>7 DEF WholeInv, ChoiceInv

-----------------------------------------------------------------------------
(* The theorems                                                            *)

(* The empty database says all there is to say about the empty TPM.        *)
LEMMA InitWhole == Init => WholeInv /\ SavedInv
<1> SUFFICES ASSUME Init PROVE WholeInv /\ SavedInv
  OBVIOUS
<1>1. /\ tpm = EmptyTpm /\ DOMAIN contexts = {} /\ cmd.phase = "idle" /\ cmd.retry = FALSE
      /\ cmd.need = <<>>
  BY DEF Init, NoCmd
<1>2. Len(cmd.need) <= MaxRefs
  BY <1>1, EmptySeq, TbsAssumption
<1>3. Active(tpm) /\ SavedSessHandles(tpm) = {} /\ \A h \in TpmHandles : ~Resident(tpm, h)
  BY <1>1 DEF EmptyTpm, Active, SavedSessHandles, Resident, EntityAt
<1> QED BY <1>1, <1>2, <1>3 DEF WholeInv, SavedInv, Listed, SavedListed, NullInv, ChoiceInv

(* Every step of a managed use keeps WholeInv, and SavedInv unless it is a *)
(* disposal.                                                               *)
LEMMA NextWhole ==
  ASSUME Managed, IInv, ArgsInv, TruthInv, WholeInv, GapOpen, [Next]_vars
  PROVE  /\ WholeInv'
         /\ "Dispose" \notin Ops /\ SavedInv => SavedInv'
<1>1. cmd.cc \notin BypassOps /\ resetting = {}
  BY DEF TruthInv, OpsInv, BypassOps, Managed
<1>2. CASE DispatchStep
  <2>1. CASE SkipLoaded \/ LoadObject \/ LoadObjectNeedsSpace \/ AllLoaded
    BY <2>1, PassedWhole, LoadObjectWhole, LoadObjectNeedsSpaceWhole
  <2>2. CASE EvictVictim \/ ExecNeedsSpace
    BY <2>2, EvictVictimWhole, ExecNeedsSpaceWhole
  <2>3. CASE NothingToEvict \/ ExecFails
    BY <2>3, FailingWhole
  <2>4. CASE ShortenInMakeSpace \/ ShortenInDispatch \/ CannotShortenInMakeSpace
             \/ CannotShortenInDispatch
    BY <2>4, VictimSaved DEF ShortenInMakeSpace, ShortenInDispatch, CannotShortenInMakeSpace,
                             CannotShortenInDispatch
  <2>5. CASE Load \/ StartAuthSession \/ SequenceComplete \/ EventSequenceComplete
    BY <2>5, CreationWhole, CompletionWhole
  <2>6. CASE Use
    <3>1. cmd' = NoCmd /\ ~InLoad /\ UNCHANGED <<tpm, contexts>>
      BY <2>6 DEF Use, Succeed, Return, InLoad
    <3>2. Listed(tpm, contexts)' /\ (SavedInv => SavedInv')
      BY <3>1 DEF WholeInv, SavedInv
    <3> QED BY <3>1, <3>2, NothingNull, BetweenWhole
  <2>7. CASE EndSession \/ FlushContext \/ ContextSave \/ ContextLoad \/ Clear
    BY <1>1, <2>7 DEF EndSession, FlushContext, ContextSave, ContextLoad, Clear, Succeed, BypassOps
  <2> QED BY <1>2, <2>1, <2>2, <2>3, <2>4, <2>5, <2>6, <2>7 DEF DispatchStep
<1>3. CASE StartStateSave \/ StateSaveStep
  BY <1>3, StateSaveWhole, FailingWhole DEF StateSaveStep
<1>4. ASSUME NEW c \in Clients, ClientStep(c)
      PROVE  /\ WholeInv'
             /\ "Dispose" \notin Ops /\ SavedInv => SavedInv'
  <2>1. ASSUME NEW cc \in Ops, NEW hs \in HandleLists,
               RejectUnknown(c, cc, hs) \/ \E arg : Begin(c, cc, hs, arg)
        PROVE  WholeInv' /\ (SavedInv => SavedInv')
    BY <2>1, BeginWhole
  <2>2. ~PowerCycle(c) /\ ~ProcessTpmClear(c)
    BY <1>1 DEF PowerCycle, ProcessTpmClear, BypassOps, Managed
  <2>3. CASE Dispose(c)
    BY <2>3, DisposeWhole DEF Dispose
  <2> QED BY <1>4, <2>1, <2>2, <2>3 DEF ClientStep
<1>5. CASE UNCHANGED vars
  BY <1>5, UnchangedWhole DEF vars
<1> QED BY <1>2, <1>3, <1>4, <1>5 DEF Next

(* In every managed use with the gap open, what is in TPM memory is listed *)
(* as loaded; what is saved is listed as saved, if no client is disposed.  *)
THEOREM EverythingIsListed ==
  ASSUME Managed
  PROVE  /\ Spec /\ []GapOpen => []WholeInv
         /\ "Dispose" \notin Ops => (Spec /\ []GapOpen => []SavedInv)
<1>1. Spec => [](IInv /\ TruthInv)
  BY TruthInvariance DEF Managed
<1>2. IInv /\ NamesInv /\ TruthInv /\ WholeInv /\ GapOpen /\ [Next]_vars => WholeInv'
  BY NextWhole DEF NamesInv
<1>3. Spec /\ []GapOpen => []WholeInv
  BY <1>1, <1>2, InitWhole, NamesInvariance, PTL DEF Spec
<1>4. ASSUME "Dispose" \notin Ops PROVE Spec /\ []GapOpen => []SavedInv
  <2>1. IInv /\ NamesInv /\ TruthInv /\ WholeInv /\ SavedInv /\ GapOpen /\ [Next]_vars => SavedInv'
    BY <1>4, NextWhole DEF NamesInv
  <2> QED BY <1>1, <1>3, <2>1, InitWhole, NamesInvariance, PTL DEF Spec
<1> QED BY <1>3, <1>4

(* Sets with a one-to-one correspondence have as many elements.            *)
LEMMA SameCount ==
  ASSUME NEW S, NEW T, IsFiniteSet(T), NEW f \in [S -> T],
         \A x, y \in S : f[x] = f[y] => x = y,
         \A y \in T : \E x \in S : f[x] = y
  PROVE  Cardinality(S) = Cardinality(T)
<1>1. f \in Injection(S, T) /\ f \in Surjection(S, T)
  BY Fun_IsInj, Fun_IsSurj
<1> QED BY <1>1, FS_Injection

(* Between commands the contexts that are loaded are just what the TPM has *)
(* in memory.                                                              *)
LEMMA LoadedCount ==
  ASSUME IInv, TruthInv, WholeInv, cmd = NoCmd,
         NEW type, NEW places,
         \/ type = "ObjectSlot" /\ places = ObjHandles \ FreeSlots(tpm)
         \/ type = "SessionSlot" /\ places = tpm.loaded,
         NEW S, S = {e \in DOMAIN contexts : contexts[e].slotType = type /\ Loaded(contexts[e])}
  PROVE  /\ \A e \in S : contexts[e].tpmHandle \in places
         /\ Cardinality(S) = Cardinality(places)
<1>1. \A e \in DOMAIN contexts : contexts[e].tpmHandle # RhNull
  BY NothingNull DEF InLoad, NoCmd
<1>2. places \subseteq TpmHandles /\ IsFiniteSet(places)
  BY ResourceAssumption, FS_Subset DEF IInv, TypeOK, TpmStates, TpmHandles, FreeSlots
<1>3. \A h \in TpmHandles : h \in places <=> Resident(tpm, h) /\ SlotType(h) = type
  BY HandleKinds, ResourceAssumption
     DEF FreeSlots, Resident, EntityAt, TpmHandles, WholeInv, Listed, Active, IInv, TypeOK, TpmStates
<1>4. ASSUME NEW e \in S
      PROVE  contexts[e].tpmHandle \in places /\ EntityAt(tpm, contexts[e].tpmHandle) = e
  <2>1. /\ contexts[e].tpmHandle \in TpmHandles /\ EntityAt(tpm, contexts[e].tpmHandle) = e
        /\ Resident(tpm, contexts[e].tpmHandle)
    BY <1>1, LoadedEntity DEF TruthInv
  <2>2. SlotType(contexts[e].tpmHandle) = type
    BY <2>1, ListedContext DEF TruthInv, RightKind
  <2> QED BY <1>3, <2>1, <2>2
<1>5. ASSUME NEW h \in places PROVE \E e \in S : contexts[e].tpmHandle = h
  <2>1. PICK e : e = EntityAt(tpm, h)
    OBVIOUS
  <2>2. e \in DOMAIN contexts /\ contexts[e].isLoaded /\ contexts[e].tpmHandle = h
    BY <1>2, <1>3, <2>1 DEF WholeInv, Listed
  <2>3. contexts[e].slotType = type /\ Loaded(contexts[e])
    BY <1>2, <1>3, <2>2, ListedContext, HandleKinds DEF TruthInv, RightKind, Loaded
  <2> QED BY <2>2, <2>3
<1>6. PICK f : f = [e \in S |-> contexts[e].tpmHandle]
  OBVIOUS
<1>7. /\ f \in [S -> places]
      /\ \A x, y \in S : f[x] = f[y] => x = y
      /\ \A h \in places : \E e \in S : f[e] = h
  BY <1>4, <1>5, <1>6
<1>8. Cardinality(S) = Cardinality(places)
  BY <1>2, <1>7, SameCount
<1> QED BY <1>4, <1>8

(* The other sessions are just those that the TPM tracks as saved.         *)
LEMMA SavedCount ==
  ASSUME IInv, TruthInv, WholeInv, SavedInv, cmd = NoCmd,
         NEW S, S = {e \in DOMAIN contexts : /\ contexts[e].slotType = "SessionSlot"
                                             /\ ~Loaded(contexts[e])}
  PROVE  /\ \A e \in S : contexts[e].context.handle \in SavedSessHandles(tpm)
         /\ Cardinality(S) = Cardinality(SavedSessHandles(tpm))
<1>1. \A e \in DOMAIN contexts : contexts[e].tpmHandle # RhNull
  BY NothingNull DEF InLoad, NoCmd
<1>2. IsFiniteSet(SavedSessHandles(tpm))
  BY ResourceAssumption, FS_Subset DEF SavedSessHandles
<1>3. ASSUME NEW e \in S
      PROVE  /\ contexts[e].context.handle \in SavedSessHandles(tpm)
             /\ tpm.sess[contexts[e].context.handle] = e
  <2>1. ~contexts[e].isLoaded
    BY ListedContext, NotLoadedKind DEF TruthInv
  <2>2. contexts[e].context.handle \in SessHandles
    BY <2>1, ListedContext DEF TruthInv, RightKind
  <2>3. BlobGood(tpm, contexts[e].context, e)
    BY <2>1, ListedContext DEF TruthInv, Faithful
  <2> QED BY <2>2, <2>3, ResourceAssumption DEF BlobGood
<1>4. ASSUME NEW h \in SavedSessHandles(tpm)
      PROVE  \E e \in S : contexts[e].context.handle = h
  <2>1. PICK e : e = tpm.sess[h]
    OBVIOUS
  <2>2. e \in DOMAIN contexts /\ ~contexts[e].isLoaded /\ contexts[e].context.handle = h
    BY <2>1 DEF SavedInv, SavedListed
  <2>3. contexts[e].slotType = "SessionSlot"
    BY <2>2, ListedContext, ResourceAssumption DEF TruthInv, RightKind, ObjectContext, SavedSessHandles
  <2>4. ~Loaded(contexts[e])
    BY <1>1, <2>2 DEF Loaded
  <2> QED BY <2>2, <2>3, <2>4
<1>5. PICK f : f = [e \in S |-> contexts[e].context.handle]
  OBVIOUS
<1>6. /\ f \in [S -> SavedSessHandles(tpm)]
      /\ \A x, y \in S : f[x] = f[y] => x = y
      /\ \A h \in SavedSessHandles(tpm) : \E e \in S : f[e] = h
  BY <1>3, <1>4, <1>5
<1>7. Cardinality(S) = Cardinality(SavedSessHandles(tpm))
  BY <1>2, <1>6, SameCount
<1> QED BY <1>3, <1>7

(* The assertions of Tbs.CheckConsistency hold whenever no command is in   *)
(* progress: the loaded contexts are the entities in TPM memory and the    *)
(* other sessions those that the TPM has as saved, none more and none      *)
(* less.  A disposal would leave saved sessions behind in the TPM.         *)
THEOREM DatabaseIsConsistent ==
  ASSUME Managed, "Dispose" \notin Ops
  PROVE  Spec /\ []GapOpen => []CheckConsistency
<1>1. ASSUME IInv, TruthInv, WholeInv, SavedInv PROVE CheckConsistency
  <2> SUFFICES ASSUME cmd = NoCmd PROVE CheckConsistency
    BY DEF CheckConsistency
  <2>1. PICK O : O = {e \in DOMAIN contexts :
                        contexts[e].slotType = "ObjectSlot" /\ Loaded(contexts[e])}
    OBVIOUS
  <2>2. PICK L : L = {e \in DOMAIN contexts :
                        contexts[e].slotType = "SessionSlot" /\ Loaded(contexts[e])}
    OBVIOUS
  <2>3. PICK S : S = {e \in DOMAIN contexts :
                        contexts[e].slotType = "SessionSlot" /\ ~Loaded(contexts[e])}
    OBVIOUS
  <2>4. \A x : (Loaded(x) = TRUE <=> Loaded(x)) /\ (Loaded(x) = FALSE <=> ~Loaded(x))
    BY Zenon DEF Loaded
  <2>5. /\ O = {e \in DOMAIN contexts :
                  contexts[e].slotType = "ObjectSlot" /\ Loaded(contexts[e]) = TRUE}
        /\ L = {e \in DOMAIN contexts :
                  contexts[e].slotType = "SessionSlot" /\ Loaded(contexts[e]) = TRUE}
        /\ S = {e \in DOMAIN contexts :
                  contexts[e].slotType = "SessionSlot" /\ Loaded(contexts[e]) = FALSE}
    BY <2>1, <2>2, <2>3, <2>4
  <2>6. /\ \A e \in O : contexts[e].tpmHandle \in ObjHandles \ FreeSlots(tpm)
        /\ Cardinality(O) = Cardinality(ObjHandles \ FreeSlots(tpm))
    BY <1>1, <2>1, LoadedCount
  <2>7. /\ \A e \in L : contexts[e].tpmHandle \in tpm.loaded
        /\ Cardinality(L) = Cardinality(tpm.loaded)
    BY <1>1, <2>2, LoadedCount
  <2>8. /\ \A e \in S : contexts[e].context.handle \in SavedSessHandles(tpm)
        /\ Cardinality(S) = Cardinality(SavedSessHandles(tpm))
    BY <1>1, <2>3, SavedCount
  <2> QED BY <2>5, <2>6, <2>7, <2>8, Zenon DEF CheckConsistency
<1>2. IInv /\ TruthInv /\ WholeInv /\ SavedInv => CheckConsistency
  BY <1>1
<1>3. Spec => [](IInv /\ TruthInv)
  BY TruthInvariance DEF Managed
<1> QED BY <1>2, <1>3, EverythingIsListed, PTL

(* A dispatch gives up for want of space only if every entity of that type *)
(* in TPM memory is used by the very command: neither the entities of      *)
(* other clients nor those of earlier commands can block it.               *)
THEOREM SpaceIsThereUnlessPinned ==
  ASSUME Managed
  PROVE  Spec /\ []GapOpen => SpaceFailsOnlyIfAllPinned
<1>1. ASSUME IInv, TruthInv, WholeInv, GapOpen, NothingToEvict \/ CannotShortenInMakeSpace,
             NEW h \in TpmHandles, SlotType(h) = cmd.type, Resident(tpm, h)
      PROVE  EntityAt(tpm, h) \in Pinned
  <2>1. cmd.phase = "space" /\ cmd.victim = 0
    BY <1>1, VictimSaved DEF CannotShortenInMakeSpace
  <2>2. Victims(cmd.type, Pinned) = {}
    BY <1>1, <2>1 DEF WholeInv, ChoiceInv
  <2>3. PICK e : e = EntityAt(tpm, h)
    OBVIOUS
  <2>4. e \in DOMAIN contexts /\ contexts[e].isLoaded /\ contexts[e].tpmHandle = h
    BY <1>1, <2>3 DEF WholeInv, Listed
  <2>5. contexts[e].slotType = cmd.type /\ Loaded(contexts[e])
    BY <1>1, <2>4, ListedContext, HandleKinds DEF TruthInv, RightKind, Loaded
  <2> QED BY <2>2, <2>3, <2>4, <2>5 DEF Victims
<1>2. IInv /\ TruthInv /\ WholeInv /\ GapOpen =>
        [ NothingToEvict \/ CannotShortenInMakeSpace =>
            \A h \in TpmHandles : SlotType(h) = cmd.type /\ Resident(tpm, h)
                                    => EntityAt(tpm, h) \in Pinned ]_vars
  BY <1>1
<1>3. Spec => [](IInv /\ TruthInv)
  BY TruthInvariance DEF Managed
<1> QED BY <1>2, <1>3, EverythingIsListed, PTL DEF SpaceFailsOnlyIfAllPinned

=============================================================================
