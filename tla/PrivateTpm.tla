----------------------------- MODULE PrivateTpm -----------------------------
(***************************************************************************)
(* What Tbs promises its clients: each of them works with a TPM of its own *)
(* that has room for any number of objects and sessions.  A handle that a  *)
(* client got in a response names one entity until that client gives it    *)
(* up, and a command of the client acts on its own entities only.          *)
(***************************************************************************)
CONSTANTS Clients, Handles, NoClient, NoHandle

VARIABLES
  view,       (* the handles in use: a set of records client, handle, ent  *)
  response    (* the last response: caller, new handle, entities acted on  *)

vars == <<view, response>>

Own(c) == {v \in view : v.client = c}
Entities(V) == {v.ent : v \in V}
NoResponse == [caller |-> NoClient, handle |-> NoHandle, touched |-> {}]

Init == view = {} /\ response = NoResponse

(* A new entity, under a handle that the client does not use yet and that  *)
(* the response tells it.                                                  *)
Create(c, h, e) ==
  /\ h \notin {v.handle : v \in Own(c)}
  /\ e \notin Entities(view)
  /\ \E S \in SUBSET Entities(Own(c)) : response' = [caller |-> c, handle |-> h, touched |-> S]
  /\ view' = view \cup {[client |-> c, handle |-> h, ent |-> e]}

(* Any other command acts on own entities, and may complete one of them.   *)
Act(c) ==
  /\ \E S \in SUBSET Entities(Own(c)) :
       response' = [caller |-> c, handle |-> NoHandle, touched |-> S]
  /\ \/ view' = view
     \/ \E v \in Own(c) : v.ent \in response'.touched /\ view' = view \ {v}

(* The client disconnects.                                                 *)
Disconnect(c) == view' = view \ Own(c) /\ response' = NoResponse

(* A command is on its way; nothing has happened yet.                      *)
Wait == response' = NoResponse /\ UNCHANGED view

(* An entity number is the order of its creation.                          *)
Next ==
  \/ Wait
  \/ \E c \in Clients :
       \/ Act(c) \/ Disconnect(c)
       \/ \E v \in view' \ view : Create(c, v.handle, v.ent)

Spec == Init /\ [][Next]_vars
=============================================================================
