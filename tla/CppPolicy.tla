------------------------------ MODULE CppPolicy ------------------------------
(***************************************************************************)
(* The policy trees of TSS.C++ (src/TSS.CPP/Src/TpmPolicy.cpp): the        *)
(* software computation of a policy's digest, and the execution of one     *)
(* branch of the policy on a policy session of the TPM, assertion by       *)
(* assertion and command by command, ending in the use of the session to   *)
(* authorize a command.                                                    *)
(*                                                                         *)
(* A policy is a function from chain numbers to chains.  A chain is a      *)
(* sequence of assertions; a PolicyOR names its branches, chains of higher *)
(* numbers.  Chain 1 is the root.  The tag of a chain's last assertion,    *)
(* its branch id, is the number of the chain.                              *)
(***************************************************************************)
EXTENDS Naturals, Sequences, FiniteSets, SequencesExt

CONSTANTS
  Policies,      \* the policies considered
  Failing,       \* the TPM commands that may fail though the sequence is right
  MaxKeys,       \* transient objects the TPM has room for
  MaxExecutions  \* executions in a behaviour

(* The classes of assertions (PolicyTicket only asserts FALSE).            *)
Kinds ==
  {"PolicyLocality", "PolicyPhysicalPresence", "PolicyOR", "PolicyPCR", "PolicyCommandCode",
   "PolicyCpHash", "PolicyCounterTimer", "PolicyNameHash", "PolicyAuthValue", "PolicyPassword",
   "PolicyNV", "PolicySigned", "PolicyAuthorize", "PolicySecret", "PolicyDuplicationSelect"}

Nodes == [kind : Kinds, arg : STRING, branches : Seq(Nat)]

(* Neither the policy nor a chain of it is empty, and no chain contains    *)
(* itself: a PolicyOR clones its branches when it is made.                 *)
WellFormed(p) ==
  /\ p \in Seq(Seq(Nodes) \ {<<>>}) \ {<<>>}
  /\ \A c \in DOMAIN p : \A i \in DOMAIN p[c] :
       /\ Range(p[c][i].branches) \subseteq (c + 1) .. Len(p)
       /\ p[c][i].kind # "PolicyOR" => p[c][i].branches = <<>>

ASSUME PolicyAssumption ==
  /\ MaxKeys \in Nat \ {0} /\ MaxExecutions \in Nat
  /\ \A p \in Policies : WellFormed(p)

VARIABLES
  policy,     \* the tree
  session,    \* the TPM's policy session: its digest, and what it wants of the
              \* command that uses it: "nothing", "password" or "hmac"
  flags,      \* NeedsHmac and NeedsPassword of the AUTH_SESSION, a set
  todo,       \* what is left of the running Execute: a sequence of TPM commands
  keys,       \* transient keys loaded by Execute and not flushed
  exec        \* the last Execute: result, session fresh when it began, whether
              \* it is the session's first; executions, and keys left loaded, so far

vars == <<policy, session, flags, todo, keys, exec>>

-----------------------------------------------------------------------------
(* Digests, as the sequence of what was extended since the last reset.     *)
(* UpdatePolicyDigest of each assertion class.                             *)
UpdatePolicyDigest(node, digest, branchDigests) ==
  CASE node.kind = "PolicyOR"         -> << <<"PolicyOR", branchDigests>> >>
    [] node.kind = "PolicyAuthorize"  -> << <<"PolicyAuthorize", "key">> >>
    [] node.kind = "PolicyPassword"   -> Append(digest, <<"PolicyAuthValue", "">>)
    [] OTHER                          -> Append(digest, <<node.kind, node.arg>>)

(* GetPolicyDigest goes backwards through a chain: the digest after its    *)
(* i-th assertion, given those of the chains that it branches to.          *)
Accumulated(c, chainDigests) ==
  LET after[i \in 0 .. Len(policy[c])] ==
        IF i = Len(policy[c]) THEN <<>>
        ELSE LET node == policy[c][i + 1]
             IN  UpdatePolicyDigest(node, after[i + 1],
                   [k \in DOMAIN node.branches |-> chainDigests[node.branches[k]]])
  IN  after

ChainDigests ==
  LET digest[c \in DOMAIN policy] == Accumulated(c, digest)[0] IN digest

DigestAfter(c, i) == Accumulated(c, ChainDigests)[i]

GetPolicyDigest == DigestAfter(1, 0)

BranchDigests(node) == [k \in DOMAIN node.branches |-> ChainDigests[node.branches[k]]]

IsOr(node) == node.kind = "PolicyOR"

(* GetBranchIds descends into the last assertion of a chain.               *)
GetBranchIds ==
  LET ids[c \in DOMAIN policy] ==
        IF IsOr(Last(policy[c]))
        THEN UNION {ids[Last(policy[c]).branches[k]] : k \in DOMAIN Last(policy[c]).branches}
        ELSE {c}
  IN  ids[1]

(* Compares the tag of the chain's last assertion; its descent into a      *)
(* PolicyOR compares the typeid of a PABase* with that of a PolicyOr* and  *)
(* never happens.                                                          *)
ChainContainsBranch(c, id) == c = id /\ ~IsOr(Last(policy[c]))

-----------------------------------------------------------------------------
(* The TPM commands an assertion executes.                                 *)
Command(cmd, node, approved) ==
  [cmd |-> cmd, kind |-> node.kind, arg |-> node.arg, approved |-> approved,
   list |-> BranchDigests(node)]

ExecuteNode(c, i) ==
  LET node == policy[c][i]
      approved == IF node.arg = "approved" THEN DigestAfter(c, i) ELSE << <<"other", "">> >>
      Cmd(cmd) == Command(cmd, node, approved)
  IN  CASE node.kind = "PolicySigned" ->
             <<Cmd("LoadExternal"), Cmd("PolicySigned"), Cmd("FlushContext")>>
        [] node.kind = "PolicyAuthorize" ->
             <<Cmd("LoadExternal"), Cmd("VerifySignature"), Cmd("PolicyAuthorize"),
               Cmd("FlushContext")>>
        [] OTHER -> <<Cmd(node.kind)>>

(* A PolicyOR is executed after the branches that contain the id.          *)
ExecuteAt(c, i, id, run) ==
  LET node == policy[c][i]
  IN  FlattenSeq([k \in DOMAIN node.branches |->
        IF ChainContainsBranch(node.branches[k], id) THEN run[node.branches[k]] ELSE <<>>])
      \o ExecuteNode(c, i)

(* mutant of ExecuteChain: forwards                                        *)
ExecuteForward(id) ==
  LET run[c \in DOMAIN policy] ==
        FlattenSeq([j \in 1 .. Len(policy[c]) |-> ExecuteAt(c, j, id, run)])
  IN  run[1]

(* PolicyTree::Execute: backwards through the chain, descending from a     *)
(* PolicyOR into the branches that contain the id before executing it.     *)
ExecuteChain(id) ==
  LET run[c \in DOMAIN policy] ==
        FlattenSeq([j \in 1 .. Len(policy[c]) |->
          ExecuteAt(c, Len(policy[c]) + 1 - j, id, run)])
  IN  run[1]

-----------------------------------------------------------------------------
TypeOK ==
  /\ policy \in Policies
  /\ session.wants \in {"nothing", "password", "hmac"}
  /\ flags \subseteq {"NeedsHmac", "NeedsPassword"}
  /\ keys \in 0 .. MaxKeys
  /\ exec.result \in {"none", "running", "SUCCESS", "exception"}
  /\ exec.fresh \in BOOLEAN /\ exec.first \in BOOLEAN /\ exec.count \in 0 .. MaxExecutions
  /\ exec.result = "running" <=> todo # <<>>

NewSession == [digest |-> <<>>, wants |-> "nothing"]

Init == /\ policy \in Policies
        /\ session = NewSession
        /\ flags = {}
        /\ todo = <<>>
        /\ keys = 0
        /\ exec = [result |-> "none", fresh |-> FALSE, first |-> FALSE, left |-> 0,
                   count |-> 0]

Execute == \E id \in GetBranchIds :
  /\ todo = <<>> /\ exec.count < MaxExecutions
  /\ todo' = ExecuteChain(id)
  /\ exec' = [exec EXCEPT !.result = "running", !.fresh = session = NewSession,
                          !.first = exec.count = 0, !.count = @ + 1]
  /\ UNCHANGED <<policy, session, flags, keys>>

Running(cmds) == todo # <<>> /\ todo[1].cmd \in cmds
Advance == /\ todo' = Tail(todo)
           /\ exec' = IF Len(todo) = 1 THEN [exec EXCEPT !.result = "SUCCESS"] ELSE exec
Throw == todo' = <<>> /\ exec' = [exec EXCEPT !.result = "exception"]
(* An exception before the key is flushed leaves it loaded.                *)
LeaveKey == todo' = <<>> /\ exec' = [exec EXCEPT !.result = "exception", !.left = @ + 1]
FlushFails == "FlushContext" \in Failing /\ UNCHANGED keys /\ LeaveKey

(* LoadExternal, for the key that verifies a signature.                    *)
LoadKey ==
  /\ Running({"LoadExternal"})
  /\ \/ keys < MaxKeys /\ keys' = keys + 1 /\ Advance
     \/ (keys = MaxKeys \/ "LoadExternal" \in Failing) /\ keys' = keys /\ Throw
  /\ UNCHANGED <<policy, session, flags>>

FlushKey ==
  /\ Running({"FlushContext"})
  /\ \/ keys' = keys - 1 /\ Advance
     \/ FlushFails
  /\ UNCHANGED <<policy, session, flags>>

(* mutants of VerifySignature: no exception, or no flush                   *)
VerifyAndGoOn ==
  /\ Running({"VerifySignature"})
  /\ \/ keys' = keys
     \/ "VerifySignature" \in Failing /\ keys' = keys - 1
  /\ Advance
  /\ UNCHANGED <<policy, session, flags>>
VerifyWithoutFlush ==
  /\ Running({"VerifySignature"})
  /\ \/ Advance
     \/ "VerifySignature" \in Failing /\ Throw
  /\ UNCHANGED <<policy, session, flags, keys>>

(* VerifySignature runs under _AllowErrors; its failure flushes the key    *)
(* and throws.                                                             *)
VerifySignature ==
  /\ Running({"VerifySignature"})
  /\ \/ keys' = keys /\ Advance
     \/ "VerifySignature" \in Failing /\ ((keys' = keys - 1 /\ Throw) \/ FlushFails)
  /\ UNCHANGED <<policy, session, flags>>

(* PolicyAuthorize replaces a session digest equal to the approved one.    *)
(* It runs under _AllowErrors too, and the code that is checked after it   *)
(* is still VerifySignature's: its failure goes unnoticed.                 *)
ExecuteAuthorize ==
  /\ Running({"PolicyAuthorize"})
  /\ \/ /\ session.digest = todo[1].approved
        /\ session' = [session EXCEPT !.digest = UpdatePolicyDigest(todo[1], @, <<>>)]
     \/ /\ session.digest # todo[1].approved \/ "PolicyAuthorize" \in Failing
        /\ UNCHANGED session
  /\ Advance
  /\ UNCHANGED <<policy, flags, keys>>

(* PolicyOR: the TPM wants the session digest to be one of the branches'.  *)
ExecuteOr ==
  /\ Running({"PolicyOR"})
  /\ IF session.digest \in Range(todo[1].list)
     THEN session' = [session EXCEPT !.digest = UpdatePolicyDigest(todo[1], @, todo[1].list)]
          /\ Advance
     ELSE UNCHANGED session /\ Throw
  /\ UNCHANGED <<policy, flags, keys>>

(* PolicyAuthValue and PolicyPassword mark the AUTH_SESSION before the     *)
(* command; the marks are never taken back.                                *)
(* mutant of Marks: an authorization value is not marked                   *)
MarksPasswords(kind) == IF kind = "PolicyPassword" THEN {"NeedsPassword"} ELSE {}
Marks(kind) == CASE kind = "PolicyAuthValue" -> {"NeedsHmac"}
                 [] kind = "PolicyPassword"  -> {"NeedsPassword"}
                 [] OTHER -> {}
Wanted(kind) == CASE kind = "PolicyAuthValue" -> "hmac"
                  [] kind = "PolicyPassword"  -> "password"
                  [] OTHER -> session.wants

(* Every other assertion extends the session digest, or is refused.  A     *)
(* refused PolicySigned leaves its key loaded.                             *)
ExecuteAssertion ==
  /\ todo # <<>>
  /\ ~Running({"LoadExternal", "FlushContext", "VerifySignature", "PolicyAuthorize", "PolicyOR"})
  /\ flags' = flags \cup Marks(todo[1].kind)
  /\ \/ /\ session' = [digest |-> UpdatePolicyDigest(todo[1], session.digest, <<>>),
                       wants |-> Wanted(todo[1].kind)]
        /\ Advance
     \/ /\ todo[1].cmd \in Failing
        /\ UNCHANGED session
        /\ IF todo[1].cmd = "PolicySigned" THEN LeaveKey ELSE Throw
  /\ UNCHANGED <<policy, keys>>

-----------------------------------------------------------------------------
(* What ProcessAuthSessions sends for a policy session (Tpm2.cpp), and     *)
(* GetAuthHmac when both marks are set.                                    *)
Sends == CASE "NeedsPassword" \in flags -> "password"
           [] flags = {"NeedsHmac"}     -> "hmac"
           [] OTHER                     -> "nothing"

Satisfied == session.digest = GetPolicyDigest /\ Sends = session.wants

(* The session authorizes a command.  If the TPM accepts, it resets the    *)
(* policy session.                                                         *)
UseSession ==
  /\ todo = <<>> /\ exec.result = "SUCCESS"
  /\ session' = IF Satisfied THEN NewSession ELSE session
  /\ exec' = [exec EXCEPT !.result = "none"]
  /\ UNCHANGED <<policy, flags, todo, keys>>

PolicyRestart ==
  /\ todo = <<>> /\ exec.count > 0
  /\ session' = NewSession
  /\ exec' = [exec EXCEPT !.result = "none"]
  /\ UNCHANGED <<policy, flags, todo, keys>>

Next == \/ Execute \/ LoadKey \/ FlushKey \/ VerifySignature \/ ExecuteAuthorize
        \/ ExecuteOr \/ ExecuteAssertion \/ UseSession \/ PolicyRestart

Spec == Init /\ [][Next]_vars

-----------------------------------------------------------------------------
(* The two computations agree: an execution that began on a new or         *)
(* restarted session and returned SUCCESS has brought the TPM's session    *)
(* digest to the digest GetPolicyDigest gave the object, whichever branch  *)
(* was taken and whatever was executed on the session before.              *)
SuccessMeansSatisfied ==
  exec.result = "SUCCESS" /\ exec.fresh => session.digest = GetPolicyDigest

(* ... and on its first execution the session then sends with a command    *)
(* what the assertions executed make the TPM ask for.                      *)
SendsWhatIsWanted ==
  exec.result = "SUCCESS" /\ exec.first => Sends = session.wants

(* Keys loaded to verify a signature are flushed on every path but two,    *)
(* a refused PolicySigned and a FlushContext that fails: between           *)
(* executions the TPM holds the keys that these have left, and no other.   *)
KeysAreFlushed == todo = <<>> => keys = exec.left
=============================================================================
