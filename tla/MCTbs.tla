------------------------------- MODULE MCTbs -------------------------------
(* TLC instances of TbsSlots: workloads and symmetry.                      *)
EXTENDS TbsSlots, TLC

CONSTANTS o1, o2, o3, s1, s2, s3, s4

SharedWork  == {"Load", "StartAuthSession", "Use", "SequenceComplete",
                "EventSequenceComplete", "StateSave"}
PrivateWork == (SharedWork \ {"StateSave"}) \cup {"Dispose"}
GapWork     == {"Load", "StartAuthSession", "Use", "StateSave"}
FlushWork   == {"Load", "Use", "FlushContext"}

(* Clients are interchangeable, and so are the TPM's slots and sessions.   *)
Symmetry == Permutations(Clients) \cup Permutations(ObjHandles) \cup Permutations(SessHandles)
=============================================================================
