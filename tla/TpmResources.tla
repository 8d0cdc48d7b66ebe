---------------------------- MODULE TpmResources ----------------------------
(***************************************************************************)
(* The TPM as the Tbs resource manager sees it: transient object slots,    *)
(* authorization sessions, and the context management commands on them.    *)
(* The TPM itself is not part of the repository, so every operator here is *)
(* external: it says what src/TSS.NET/TSS.Net/SlotManager.cs relies on     *)
(* when it calls ContextSave, ContextLoad, FlushContext, Shutdown or       *)
(* Startup, or forwards a command that fills or empties a slot.            *)
(*                                                                         *)
(* An operator takes the TPM state as a record and returns a response code *)
(* or the next state, so that a caller can chain several commands in one   *)
(* step.                                                                   *)
(***************************************************************************)
EXTENDS Naturals, FiniteSets

CONSTANTS
  ObjHandles,         (* the TPM's transient handles, one per object slot  *)
  SessHandles,        (* the TPM's session handles                         *)
  MaxLoadedSessions,  (* how many sessions are in TPM memory at once       *)
  ContextGap          (* largest distance from the oldest saved session    *)
                      (* context to the context counter                    *)

ASSUME ResourceAssumption ==
  /\ IsFiniteSet(ObjHandles) /\ IsFiniteSet(SessHandles)
  /\ ObjHandles \cap SessHandles = {}
  /\ {"Transient", "none"} \cap SessHandles = {}
  /\ MaxLoadedSessions \in Nat \ {0}
  /\ ContextGap \in Nat \ {0}

NoEntity == 0
TpmHandles == ObjHandles \cup SessHandles

(* A context blob: the entity, its savedHandle (the handle of a session,   *)
(* the start of the transient range for every object), the sequence number *)
(* of a session and the epoch that the integrity protection is bound to.   *)
Blobs == [ent : Nat, handle : SessHandles \cup {"Transient", "none"}, seq : Nat, epoch : Nat]
NoBlob == [ent |-> NoEntity, handle |-> "none", seq |-> 0, epoch |-> 0]

TpmStates ==
  [slot    : [ObjHandles -> Nat],      \* object loaded in each slot, 0 if free
   sess    : [SessHandles -> Nat],     \* active session with this handle, 0 if none
   loaded  : SUBSET SessHandles,       \* the active sessions in TPM memory
   seq     : [SessHandles -> Nat],     \* sequence number of a saved session
   counter : Nat,                      \* sequence number of the next saved session
   epoch   : Nat]                      \* changed by TPM2_Clear and TPM Reset

EmptyTpm ==
  [slot |-> [h \in ObjHandles |-> NoEntity], sess |-> [h \in SessHandles |-> NoEntity],
   loaded |-> {}, seq |-> [h \in SessHandles |-> 0], counter |-> 1, epoch |-> 0]

FreeSlots(t) == {h \in ObjHandles : t.slot[h] = NoEntity}
FreeSessHandles(t) == {h \in SessHandles : t.sess[h] = NoEntity}
SavedSessHandles(t) == {h \in SessHandles : t.sess[h] # NoEntity} \ t.loaded

(* The entity a command reaches through a handle, if it is in TPM memory.  *)
EntityAt(t, h) ==
  IF h \in ObjHandles THEN t.slot[h] ELSE IF h \in t.loaded THEN t.sess[h] ELSE NoEntity

Resident(t, h) == EntityAt(t, h) # NoEntity

(* The context counter has run ContextGap ahead of the oldest saved session.*)
GapFull(t) == \E h \in SavedSessHandles(t) : t.seq[h] + ContextGap <= t.counter
IsOldest(t, h) == \A g \in SavedSessHandles(t) : t.seq[h] <= t.seq[g]
LastSessionSlot(t) == Cardinality(t.loaded) + 1 = MaxLoadedSessions
SessionMemoryFull(t) == Cardinality(t.loaded) >= MaxLoadedSessions

-----------------------------------------------------------------------------
(* TPM2_ContextSave                                                        *)

SaveRc(t, h) ==
  IF ~Resident(t, h) THEN "Handle"
  ELSE IF h \in SessHandles /\ GapFull(t) THEN "ContextGap"
  ELSE "Success"

SavedBlob(t, h) ==
  IF h \in SessHandles
  THEN [ent |-> t.sess[h], handle |-> h, seq |-> t.counter, epoch |-> 0]
  ELSE [ent |-> EntityAt(t, h), handle |-> "Transient", seq |-> 0, epoch |-> t.epoch]

(* A saved session leaves TPM memory but stays active; an object stays.    *)
AfterSave(t, h) ==
  IF h \in SessHandles
  THEN [t EXCEPT !.loaded = @ \ {h}, !.seq[h] = t.counter, !.counter = @ + 1]
  ELSE t

-----------------------------------------------------------------------------
(* TPM2_ContextLoad                                                        *)

LoadRc(t, b) ==
  IF b.handle = "Transient"
  THEN IF b.epoch # t.epoch THEN "Integrity"
       ELSE IF FreeSlots(t) = {} THEN "ObjectMemory" ELSE "Success"
  ELSE IF \/ b.handle \notin SavedSessHandles(t)
          \/ t.sess[b.handle] # b.ent
          \/ t.seq[b.handle] # b.seq
       THEN "Handle"
       ELSE IF SessionMemoryFull(t) THEN "SessionMemory"
       ELSE IF GapFull(t) /\ LastSessionSlot(t) /\ ~IsOldest(t, b.handle)
       THEN "ContextGap"
       ELSE "Success"

(* An object gets some free slot; a session gets its own handle back.      *)
LoadHandles(t, b) == IF b.handle = "Transient" THEN FreeSlots(t) ELSE {b.handle}

AfterLoad(t, b, h) ==
  IF h \in ObjHandles THEN [t EXCEPT !.slot[h] = b.ent]
                      ELSE [t EXCEPT !.loaded = @ \cup {h}, !.seq[h] = 0]

-----------------------------------------------------------------------------
(* Commands that fill and empty slots                                      *)

StartSessionRc(t) ==
  IF SessionMemoryFull(t) THEN "SessionMemory"
  ELSE IF GapFull(t) /\ LastSessionSlot(t) THEN "ContextGap"
  ELSE IF FreeSessHandles(t) = {} THEN "SessionHandles"
  ELSE "Success"

AfterCreate(t, h, e) ==
  IF h \in ObjHandles THEN [t EXCEPT !.slot[h] = e]
                      ELSE [t EXCEPT !.sess[h] = e, !.loaded = @ \cup {h}]

(* FlushContext of a set of handles; a session may be loaded or saved.     *)
Flush(t, H) ==
  [t EXCEPT !.slot = [h \in ObjHandles |-> IF h \in H THEN NoEntity ELSE t.slot[h]],
            !.sess = [h \in SessHandles |-> IF h \in H THEN NoEntity ELSE t.sess[h]],
            !.seq  = [h \in SessHandles |-> IF h \in H THEN 0 ELSE t.seq[h]],
            !.loaded = @ \ H]

Flushable(t, h) == Resident(t, h) \/ h \in SavedSessHandles(t)

(* TPM2_Clear evicts the storage-hierarchy objects and voids their blobs.  *)
AfterClear(t) == [Flush(t, ObjHandles) EXCEPT !.epoch = @ + 1]

(* Power cycle after Shutdown(State): TPM memory is lost, but saved        *)
(* sessions stay active and context blobs stay valid.                      *)
AfterResume(t) == Flush(t, ObjHandles \cup t.loaded)

(* Power cycle without Shutdown, then Startup(Clear).                      *)
AfterReset(t) == [AfterClear(Flush(t, SessHandles)) EXCEPT !.counter = t.counter]
=============================================================================
