--------------------------- MODULE CppPolicyProof ---------------------------
(***************************************************************************)
(* The policies of TSS.C++, for policies of any size and depth: types, the *)
(* keys that an execution loads, the marks that it leaves on the session,  *)
(* and the agreement of the digest that it brings the session to with the  *)
(* one that is computed in software.                                       *)
(*                                                                         *)
(* GetPolicyDigest and Execute are recursive functions.  The first half of *)
(* the module shows that the recursions define something, and that what    *)
(* holds of the commands of each assertion, and is kept by concatenation,  *)
(* holds of an execution.                                                  *)
(***************************************************************************)
EXTENDS CppPolicy, SequenceTheorems, WellFoundedInduction, TLAPS

-----------------------------------------------------------------------------
(* Induction, with a set in place of a predicate                           *)

NatLess == {p \in Nat \X Nat : p[1] < p[2]}

(* A non-empty set of natural numbers has a least element.                 *)
LEMMA Least ==
  ASSUME NEW S, S \subseteq Nat, S # {}
  PROVE  \E m \in S : \A x \in S : m <= x
<1>0. IsWellFoundedOn(NatLess, Nat)
  BY NatLessThanWellFounded DEF OpToRel, NatLess
<1>1. PICK m \in S : \A y \in S : ~ (<<y, m>> \in NatLess)
  BY <1>0, WFMin
<1>2. ASSUME NEW y \in S PROVE m <= y
  <2>1. y \in Nat /\ m \in Nat
    OBVIOUS
  <2>2. <<y, m>> \in NatLess <=> y < m
    BY <2>1 DEF NatLess
  <2> QED BY <1>1, <2>1, <2>2
<1> QED BY <1>2

(* A set that contains 0 and the successor of each of its elements below n *)
(* contains everything up to n.                                            *)
LEMMA Reaches ==
  ASSUME NEW S, NEW n \in Nat, 0 \in S, \A k \in 0 .. n - 1 : k \in S => k + 1 \in S
  PROVE  \A k \in 0 .. n : k \in S
<1> SUFFICES ASSUME NEW k \in 0 .. n, k \notin S PROVE FALSE
  OBVIOUS
<1> DEFINE T == {j \in 0 .. n : j \notin S}
<1>1. T \subseteq Nat /\ T # {}
  OBVIOUS
<1>2. PICK m \in T : \A x \in T : m <= x
  BY <1>1, Least
<1>3. m \in Nat /\ m # 0 /\ m <= n
  OBVIOUS
<1>4. m - 1 \notin T /\ m - 1 \in 0 .. n - 1
  BY <1>2, <1>3
<1>5. m - 1 \in S
  BY <1>4
<1>6. (m - 1) + 1 \in S
  BY <1>4, <1>5
<1> QED BY <1>3, <1>6

-----------------------------------------------------------------------------
(* FlattenSeq                                                              *)

(* The partial concatenations of ss.                                       *)
IsFlattening(fl, ss) ==
  /\ fl[0] = <<>>
  /\ \A i \in 1 .. Len(ss) : fl[i] = fl[i - 1] \o ss[i]
  /\ FlattenSeq(ss) = fl[Len(ss)]

(* The recursive function in FlattenSeq, up to the m-th sequence, as an    *)
(* equation that g solves ...                                              *)
Prefixed(ss, m, g) == g = [i \in 1 .. m |-> IF i = 1 THEN ss[i] ELSE g[i - 1] \o ss[i]]

(* ... and the same as an equation for each element.                       *)
LEMMA PrefixedAt ==
  ASSUME NEW ss, NEW n \in Nat, NEW g, Prefixed(ss, n, g)
  PROVE  \A i \in 1 .. n : g[i] = IF i = 1 THEN ss[i] ELSE g[i - 1] \o ss[i]
<1>1. PICK f : f = [i \in 1 .. n |-> IF i = 1 THEN ss[i] ELSE g[i - 1] \o ss[i]]
  OBVIOUS
<1>2. \A i \in 1 .. n : f[i] = IF i = 1 THEN ss[i] ELSE g[i - 1] \o ss[i]
  BY <1>1
<1>3. g = f
  BY <1>1 DEF Prefixed
<1> QED BY <1>2, <1>3

(* The equation has a solution.                                            *)
LEMMA PrefixedExists ==
  ASSUME NEW ss, NEW n \in Nat
  PROVE  \E g : Prefixed(ss, n, g)
<1> DEFINE S == {m \in 0 .. n : \E g : Prefixed(ss, m, g)}
<1>1. 0 \in S
  <2>1. Prefixed(ss, 0, [i \in 1 .. 0 |-> 0])
    BY DEF Prefixed
  <2> QED BY <2>1
<1>2. ASSUME NEW k \in 0 .. n - 1, k \in S PROVE k + 1 \in S
  <2>1. PICK g : Prefixed(ss, k, g)
    BY <1>2
  <2>2. PICK h : h = [i \in 1 .. k + 1 |-> IF i = 1 THEN ss[i] ELSE g[i - 1] \o ss[i]]
    OBVIOUS
  <2>3. \A i \in 1 .. k : h[i] = g[i]
    <3>1. \A i \in 1 .. k : g[i] = IF i = 1 THEN ss[i] ELSE g[i - 1] \o ss[i]
      BY <2>1, PrefixedAt
    <3> QED BY <2>2, <3>1
  <2>4. \A i \in 1 .. k + 1 : i # 1 => h[i - 1] = g[i - 1]
    BY <2>3
  <2>5. Prefixed(ss, k + 1, h)
    BY <2>2, <2>4 DEF Prefixed
  <2> QED BY <2>5
<1>3. \A k \in 0 .. n : k \in S
  <2> HIDE DEF S
  <2> QED BY <1>1, <1>2, Reaches
<1> QED BY <1>3

(* FlattenSeq is the last of the partial concatenations.                   *)
LEMMA Flattening ==
  ASSUME NEW S, NEW ss \in Seq(Seq(S))
  PROVE  \E fl : IsFlattening(fl, ss)
<1>1. CASE ss = <<>>
  <2>1. IsFlattening([i \in {0} |-> <<>>], ss)
    BY <1>1 DEF IsFlattening, FlattenSeq
  <2> QED BY <2>1
<1>2. CASE ss # <<>>
  <2> DEFINE G == CHOOSE g : Prefixed(ss, Len(ss), g)
  <2>1. Len(ss) \in Nat /\ Len(ss) # 0
    BY <1>2, EmptySeq
  <2>2. Prefixed(ss, Len(ss), G)
    BY <2>1, PrefixedExists
  <2>3. FlattenSeq(ss) = G[Len(ss)]
    BY <2>1 DEF FlattenSeq, Prefixed
  <2> HIDE DEF G
  <2>4. PICK fl : fl = [i \in 0 .. Len(ss) |-> IF i = 0 THEN <<>> ELSE G[i]]
    OBVIOUS
  <2>5. ASSUME NEW i \in 1 .. Len(ss) PROVE fl[i] = fl[i - 1] \o ss[i]
    <3>1. CASE i = 1
      <4>1. fl[i] = ss[1] /\ fl[i - 1] = <<>>
        BY <2>1, <2>2, <2>4, <3>1 DEF Prefixed
      <4>2. ss[1] \in Seq(S)
        BY <2>1
      <4> QED BY <3>1, <4>1, <4>2, ConcatEmptySeq
    <3>2. CASE i # 1
      <4>1. G[i] = G[i - 1] \o ss[i]
        <5>1. \A j \in 1 .. Len(ss) : G[j] = IF j = 1 THEN ss[j] ELSE G[j - 1] \o ss[j]
          BY <2>1, <2>2, PrefixedAt
        <5> QED BY <3>2, <5>1
      <4>2. i - 1 \in 0 .. Len(ss) /\ i - 1 # 0
        BY <2>1, <3>2
      <4>3. fl[i - 1] = G[i - 1] /\ fl[i] = G[i]
        BY <2>4, <3>2, <4>2
      <4> QED BY <4>1, <4>3
    <3> QED BY <3>1, <3>2
  <2>6. fl[0] = <<>> /\ FlattenSeq(ss) = fl[Len(ss)]
    BY <2>1, <2>3, <2>4
  <2>7. IsFlattening(fl, ss)
    BY <2>5, <2>6 DEF IsFlattening
  <2> QED BY <2>7
<1> QED BY <1>1, <1>2

(* A set of sequences that is closed under concatenation contains the      *)
(* flattening of its sequences, and every part of it.                      *)
LEMMA FlattenSeqIn ==
  ASSUME NEW S, NEW X \in SUBSET Seq(S), <<>> \in X,
         \A a, b \in X : a \o b \in X,
         NEW ss \in Seq(X)
  PROVE  /\ FlattenSeq(ss) \in X
         /\ \E fl : IsFlattening(fl, ss) /\ \A i \in 0 .. Len(ss) : fl[i] \in X
<1>1. ss \in Seq(Seq(S)) /\ Len(ss) \in Nat
  BY SeqMonotonic
<1>2. PICK fl : IsFlattening(fl, ss)
  BY <1>1, Flattening
<1> DEFINE T == {i \in 0 .. Len(ss) : fl[i] \in X}
<1>3. 0 \in T
  BY <1>1, <1>2 DEF IsFlattening
<1>4. ASSUME NEW k \in 0 .. Len(ss) - 1, k \in T PROVE k + 1 \in T
  <2>1. k + 1 \in 1 .. Len(ss) /\ (k + 1) - 1 = k
    BY <1>1
  <2>2. fl[k + 1] = fl[k] \o ss[k + 1]
    BY <1>2, <2>1 DEF IsFlattening
  <2>3. ss[k + 1] \in X /\ fl[k] \in X
    BY <1>4, <2>1
  <2>4. fl[k + 1] \in X
    BY <2>2, <2>3
  <2> QED BY <1>1, <2>1, <2>4
<1>5. \A k \in 0 .. Len(ss) : k \in T
  <2> HIDE DEF T
  <2> QED BY <1>1, <1>3, <1>4, Reaches
<1>6. \A k \in 0 .. Len(ss) : fl[k] \in X
  BY <1>5
<1>7. FlattenSeq(ss) = fl[Len(ss)]
  BY <1>2 DEF IsFlattening
<1> QED BY <1>1, <1>2, <1>6, <1>7

-----------------------------------------------------------------------------
(* ExecuteChain                                                            *)

(* What the execution of chain c consists of, when run gives that of the   *)
(* chains it branches to.                                                  *)
Backwards(c, id, run) ==
  [j \in 1 .. Len(policy[c]) |-> ExecuteAt(c, Len(policy[c]) + 1 - j, id, run)]

(* The recursion of Execute from chain m on, as an equation that g solves. *)
Runs(id, m, g) == g = [c \in m .. Len(policy) |-> FlattenSeq(Backwards(c, id, g))]

(* What a well-formed policy is made of.                                   *)
LEMMA PolicyShape ==
  ASSUME WellFormed(policy)
  PROVE  /\ Len(policy) \in Nat /\ DOMAIN policy = 1 .. Len(policy) /\ 1 \in DOMAIN policy
         /\ \A c \in DOMAIN policy :
              /\ policy[c] \in Seq(Nodes)
              /\ Len(policy[c]) \in Nat \ {0} /\ DOMAIN policy[c] = 1 .. Len(policy[c])
              /\ \A i \in DOMAIN policy[c] :
                   /\ policy[c][i] \in Nodes
                   /\ \A k \in DOMAIN policy[c][i].branches :
                        policy[c][i].branches[k] \in (c + 1) .. Len(policy)
<1>2. PICK C : C = Seq(Nodes) \ {<<>>}
  OBVIOUS
<1>3. policy \in Seq(C) /\ policy # <<>>
  BY <1>2 DEF WellFormed
<1>4. Len(policy) \in Nat \ {0} /\ DOMAIN policy = 1 .. Len(policy)
  BY <1>3, EmptySeq
<1>5. ASSUME NEW c \in DOMAIN policy
      PROVE  /\ policy[c] \in Seq(Nodes)
             /\ Len(policy[c]) \in Nat \ {0} /\ DOMAIN policy[c] = 1 .. Len(policy[c])
  <2>1. policy[c] \in C
    BY <1>3, <1>4, ElementOfSeq
  <2>2. policy[c] \in Seq(Nodes) /\ policy[c] # <<>>
    BY <1>2, <2>1
  <2> QED BY <2>2, EmptySeq
<1>6. ASSUME NEW c \in DOMAIN policy, NEW i \in DOMAIN policy[c]
      PROVE  /\ policy[c][i] \in Nodes
             /\ \A k \in DOMAIN policy[c][i].branches :
                  policy[c][i].branches[k] \in (c + 1) .. Len(policy)
  <2>1. policy[c][i] \in Nodes
    BY <1>5, <1>6, ElementOfSeq
  <2>2. Range(policy[c][i].branches) \subseteq (c + 1) .. Len(policy)
    BY <1>6 DEF WellFormed
  <2>3. ASSUME NEW k \in DOMAIN policy[c][i].branches
        PROVE  policy[c][i].branches[k] \in (c + 1) .. Len(policy)
    <3>1. policy[c][i].branches[k] \in Range(policy[c][i].branches)
      BY DEF Range
    <3> QED BY <2>2, <3>1
  <2> QED BY <2>1, <2>3
<1>7. 1 \in DOMAIN policy
  BY <1>4
<1> QED BY <1>4, <1>5, <1>6, <1>7

(* An assertion needs the chains that it branches to only.                 *)
LEMMA ExecuteAtNeeds ==
  ASSUME WellFormed(policy), NEW c \in DOMAIN policy, NEW i \in DOMAIN policy[c], NEW id,
         NEW f, NEW g, \A b \in (c + 1) .. Len(policy) : f[b] = g[b]
  PROVE  ExecuteAt(c, i, id, f) = ExecuteAt(c, i, id, g)
<1> DEFINE br == policy[c][i].branches
           Fs(h) == [k \in DOMAIN br |->
                      IF ChainContainsBranch(br[k], id) THEN h[br[k]] ELSE <<>>]
<1>1. \A k \in DOMAIN br : f[br[k]] = g[br[k]]
  BY PolicyShape
<1>2. Fs(f) = Fs(g)
  BY <1>1
<1>3. \A h : ExecuteAt(c, i, id, h) = FlattenSeq(Fs(h)) \o ExecuteNode(c, i)
  BY DEF ExecuteAt
<1> HIDE DEF Fs
<1> QED BY <1>2, <1>3

(* So does a chain.                                                        *)
LEMMA BackwardsNeeds ==
  ASSUME WellFormed(policy), NEW c \in DOMAIN policy, NEW id,
         NEW f, NEW g, \A b \in (c + 1) .. Len(policy) : f[b] = g[b]
  PROVE  Backwards(c, id, f) = Backwards(c, id, g)
<1>1. ASSUME NEW j \in 1 .. Len(policy[c])
      PROVE  ExecuteAt(c, Len(policy[c]) + 1 - j, id, f)
               = ExecuteAt(c, Len(policy[c]) + 1 - j, id, g)
  <2>1. Len(policy[c]) + 1 - j \in DOMAIN policy[c]
    BY PolicyShape
  <2> QED BY <2>1, ExecuteAtNeeds
<1> QED BY <1>1 DEF Backwards

(* The equation for each chain.                                            *)
LEMMA RunsAt ==
  ASSUME NEW id, NEW m, NEW g, Runs(id, m, g)
  PROVE  \A c \in m .. Len(policy) : g[c] = FlattenSeq(Backwards(c, id, g))
<1>1. PICK f : f = [c \in m .. Len(policy) |-> FlattenSeq(Backwards(c, id, g))]
  OBVIOUS
<1>2. \A c \in m .. Len(policy) : f[c] = FlattenSeq(Backwards(c, id, g))
  BY <1>1
<1>3. g = f
  BY <1>1 DEF Runs
<1> QED BY <1>2, <1>3

(* The recursion of Execute is well-founded: it goes to chains of higher   *)
(* numbers.                                                                *)
LEMMA RunsExist ==
  ASSUME WellFormed(policy), NEW id
  PROVE  \E g : Runs(id, 1, g)
<1> DEFINE n == Len(policy)
           S == {k \in 0 .. n : \E g : Runs(id, n + 1 - k, g)}
<1>0. n \in Nat
  BY PolicyShape
<1>1. 0 \in S
  <2>1. PICK g : g = [c \in n + 1 .. n |-> 0]
    OBVIOUS
  <2>2. n + 1 .. n = {}
    BY <1>0
  <2>3. Runs(id, n + 1, g)
    BY <2>1, <2>2 DEF Runs
  <2>4. n + 1 - 0 = n + 1
    BY <1>0
  <2> QED BY <1>0, <2>3, <2>4
<1>2. ASSUME NEW k \in 0 .. n - 1, k \in S PROVE k + 1 \in S
  <2>0. PICK m \in Nat : m = n - k
    BY <1>0
  <2>1. m \in DOMAIN policy /\ n + 1 - k = m + 1 /\ n + 1 - (k + 1) = m /\ k + 1 \in 0 .. n
    <3>1. m \in 1 .. n /\ n + 1 - k = m + 1 /\ n + 1 - (k + 1) = m /\ k + 1 \in 0 .. n
      BY <1>0, <2>0
    <3> QED BY <3>1, PolicyShape
  <2>2. PICK g : Runs(id, m + 1, g)
    BY <1>2, <2>1
  <2>3. PICK h : h = [c \in m .. n |-> FlattenSeq(Backwards(c, id, g))]
    OBVIOUS
  <2>4. \A b \in m + 1 .. n : h[b] = g[b]
    BY <1>0, <2>0, <2>2, <2>3, RunsAt
  <2>5. ASSUME NEW c \in m .. n PROVE Backwards(c, id, g) = Backwards(c, id, h)
    <3>1. c \in DOMAIN policy /\ \A b \in c + 1 .. n : g[b] = h[b]
      BY <1>0, <2>0, <2>1, <2>4, PolicyShape
    <3> QED BY <3>1, BackwardsNeeds
  <2>6. Runs(id, m, h)
    BY <2>3, <2>5 DEF Runs
  <2> QED BY <2>1, <2>6
<1>3. \A k \in 0 .. n : k \in S
  <2> HIDE DEF S
  <2> QED BY <1>0, <1>1, <1>2, Reaches
<1>4. n \in S /\ n + 1 - n = 1
  BY <1>0, <1>3
<1> QED BY <1>4

(* ExecuteChain is what it is meant to be.                                 *)
LEMMA ExecuteChainRuns ==
  ASSUME WellFormed(policy), NEW id
  PROVE  \E run : /\ \A c \in DOMAIN policy : run[c] = FlattenSeq(Backwards(c, id, run))
                  /\ ExecuteChain(id) = run[1]
<1> DEFINE R == CHOOSE g : Runs(id, 1, g)
<1>1. Runs(id, 1, R)
  BY RunsExist
<1>2. DOMAIN policy = 1 .. Len(policy)
  BY PolicyShape
<1>3. ExecuteChain(id) = R[1]
  BY <1>2 DEF ExecuteChain, Runs, Backwards
<1> HIDE DEF R
<1> QED BY <1>1, <1>2, <1>3, RunsAt

(* The execution, when each part of it is in X.                            *)
ExecutionIn(X, id, run) ==
  /\ \A c \in DOMAIN policy :
       /\ run[c] \in X /\ run[c] = FlattenSeq(Backwards(c, id, run))
       /\ Backwards(c, id, run) \in Seq(X)
       /\ \A i \in DOMAIN policy[c] :
            \E b \in X : ExecuteAt(c, i, id, run) = b \o ExecuteNode(c, i)
  /\ ExecuteChain(id) = run[1]

(* Sets of sequences that contain what each assertion executes, and are    *)
(* closed under concatenation, contain what a chain executes.              *)
LEMMA ExecuteChainIn ==
  ASSUME WellFormed(policy), NEW id, NEW S, NEW X \in SUBSET Seq(S), <<>> \in X,
         \A a, b \in X : a \o b \in X,
         \A c \in DOMAIN policy : \A i \in DOMAIN policy[c] : ExecuteNode(c, i) \in X
  PROVE  \E run : ExecutionIn(X, id, run)
<1> DEFINE n == Len(policy)
<1>0. n \in Nat /\ DOMAIN policy = 1 .. n
  BY PolicyShape
<1>1. PICK run : /\ \A c \in DOMAIN policy : run[c] = FlattenSeq(Backwards(c, id, run))
                 /\ ExecuteChain(id) = run[1]
  BY ExecuteChainRuns
<1> DEFINE T == {k \in 0 .. n : \A c \in n + 1 - k .. n : run[c] \in X}
<1>2. ASSUME NEW c \in DOMAIN policy, \A b \in c + 1 .. n : run[b] \in X
      PROVE  /\ Backwards(c, id, run) \in Seq(X)
             /\ \A i \in DOMAIN policy[c] :
                  \E b \in X : ExecuteAt(c, i, id, run) = b \o ExecuteNode(c, i)
  <2>1. ASSUME NEW i \in DOMAIN policy[c]
        PROVE  \E b \in X : ExecuteAt(c, i, id, run) = b \o ExecuteNode(c, i)
    <3> DEFINE br == policy[c][i].branches
               Fs == [k \in DOMAIN br |->
                        IF ChainContainsBranch(br[k], id) THEN run[br[k]] ELSE <<>>]
    <3>1. br \in Seq(Nat)
      <4>1. policy[c][i] \in Nodes
        BY PolicyShape
      <4> QED BY <4>1 DEF Nodes
    <3>2. \A k \in DOMAIN br : br[k] \in c + 1 .. n
      BY PolicyShape
    <3>3. Fs \in Seq(X)
      <4>1. DOMAIN br = 1 .. Len(br) /\ Len(br) \in Nat
        BY <3>1
      <4>2. \A k \in 1 .. Len(br) : Fs[k] \in X
        <5> SUFFICES ASSUME NEW k \in 1 .. Len(br) PROVE Fs[k] \in X
          OBVIOUS
        <5>1. run[br[k]] \in X
          BY <1>2, <3>2, <4>1
        <5>2. Fs[k] = IF ChainContainsBranch(br[k], id) THEN run[br[k]] ELSE <<>>
          BY <4>1
        <5> QED BY <5>1, <5>2
      <4>3. Fs = [k \in 1 .. Len(br) |-> Fs[k]]
        BY <4>1
      <4> HIDE DEF Fs
      <4>4. [k \in 1 .. Len(br) |-> Fs[k]] \in Seq(X)
        BY <4>1, <4>2
      <4> QED BY <4>3, <4>4
    <3> HIDE DEF Fs
    <3>4. FlattenSeq(Fs) \in X
      BY <3>3, FlattenSeqIn
    <3>5. ExecuteAt(c, i, id, run) = FlattenSeq(Fs) \o ExecuteNode(c, i)
      BY DEF ExecuteAt, Fs
    <3> QED BY <3>4, <3>5
  <2>2. ASSUME NEW j \in 1 .. Len(policy[c])
        PROVE  Len(policy[c]) + 1 - j \in DOMAIN policy[c]
    BY PolicyShape
  <2>3. Len(policy[c]) \in Nat
    BY PolicyShape
  <2>4. \A i \in DOMAIN policy[c] : ExecuteAt(c, i, id, run) \in X
    BY <2>1
  <2>5. Backwards(c, id, run) \in Seq(X)
    BY <2>2, <2>3, <2>4 DEF Backwards
  <2> QED BY <2>1, <2>5
<1>3. 0 \in T
  BY <1>0
<1>4. ASSUME NEW k \in 0 .. n - 1, k \in T PROVE k + 1 \in T
  <2>1. n - k \in DOMAIN policy /\ \A b \in (n - k) + 1 .. n : run[b] \in X
    BY <1>0, <1>4
  <2>2. Backwards(n - k, id, run) \in Seq(X)
    BY <1>2, <2>1
  <2>3. run[n - k] \in X
    BY <1>1, <2>1, <2>2, FlattenSeqIn
  <2> QED BY <1>0, <2>1, <2>3
<1>5. \A c \in DOMAIN policy : run[c] \in X
  <2>1. \A k \in 0 .. n : k \in T
    <3> HIDE DEF T
    <3> QED BY <1>0, <1>3, <1>4, Reaches
  <2> QED BY <1>0, <2>1
<1>6. ASSUME NEW c \in DOMAIN policy
      PROVE  /\ Backwards(c, id, run) \in Seq(X)
             /\ \A i \in DOMAIN policy[c] :
                  \E b \in X : ExecuteAt(c, i, id, run) = b \o ExecuteNode(c, i)
  <2>1. \A b \in c + 1 .. n : run[b] \in X
    BY <1>0, <1>5
  <2> QED BY <1>2, <2>1
<1> QED BY <1>1, <1>5, <1>6 DEF ExecutionIn

-----------------------------------------------------------------------------
(* What is left to do                                                      *)

(* The commands of this policy.                                            *)
Cmds == UNION {UNION {Range(ExecuteNode(c, i)) : i \in DOMAIN policy[c]} : c \in DOMAIN policy}

(* A key is loaded before and after these commands.                        *)
Held(cmd) == cmd \in {"PolicySigned", "VerifySignature", "PolicyAuthorize", "FlushContext"}
Holding(cmd) == cmd \in {"LoadExternal", "PolicySigned", "VerifySignature", "PolicyAuthorize"}

(* The commands that use a key come between one that loads it and one that *)
(* flushes it.                                                             *)
Steps(s) ==
  /\ s # <<>> => ~Holding(s[Len(s)].cmd)
  /\ \A i \in 1 .. Len(s) - 1 : Holding(s[i].cmd) <=> Held(s[i + 1].cmd)

(* Sequences in which each key is loaded, used and flushed.                *)
Whole == {s \in Seq(Cmds) : Steps(s) /\ (s # <<>> => ~Held(s[1].cmd))}

(* The commands of an assertion are such a sequence, and not empty.        *)
LEMMA NodeCommands ==
  ASSUME WellFormed(policy), NEW c \in DOMAIN policy, NEW i \in DOMAIN policy[c]
  PROVE  ExecuteNode(c, i) \in Whole /\ ExecuteNode(c, i) # <<>>
<1> DEFINE node == policy[c][i]
           approved == IF node.arg = "approved" THEN DigestAfter(c, i) ELSE << <<"other", "">> >>
           C(cmd) == Command(cmd, node, approved)
<1>1. node.kind \in Kinds
  <2>1. node \in Nodes
    BY PolicyShape
  <2> QED BY <2>1 DEF Nodes
<1>2. \A cmd : C(cmd).cmd = cmd
  BY DEF Command
<1>3. Range(ExecuteNode(c, i)) \subseteq Cmds
  BY DEF Cmds
<1>4. CASE node.kind = "PolicySigned"
  <2>1. ExecuteNode(c, i) = <<C("LoadExternal"), C("PolicySigned"), C("FlushContext")>>
    BY <1>4 DEF ExecuteNode
  <2> HIDE DEF C
  <2>2. {C("LoadExternal"), C("PolicySigned"), C("FlushContext")} \subseteq Cmds
    BY <1>3, <2>1 DEF Range
  <2>3. ExecuteNode(c, i) \in Seq(Cmds)
    BY <2>1, <2>2
  <2>4. Steps(ExecuteNode(c, i)) /\ ~Held(ExecuteNode(c, i)[1].cmd)
    BY <1>2, <2>1 DEF Steps, Held, Holding
  <2> QED BY <2>1, <2>3, <2>4 DEF Whole
<1>5. CASE node.kind = "PolicyAuthorize"
  <2>1. ExecuteNode(c, i) = <<C("LoadExternal"), C("VerifySignature"), C("PolicyAuthorize"),
                              C("FlushContext")>>
    BY <1>5 DEF ExecuteNode
  <2> HIDE DEF C
  <2>2. {C("LoadExternal"), C("VerifySignature"), C("PolicyAuthorize"), C("FlushContext")}
          \subseteq Cmds
    BY <1>3, <2>1 DEF Range
  <2>3. ExecuteNode(c, i) \in Seq(Cmds)
    BY <2>1, <2>2
  <2>4. Steps(ExecuteNode(c, i)) /\ ~Held(ExecuteNode(c, i)[1].cmd)
    BY <1>2, <2>1 DEF Steps, Held, Holding
  <2> QED BY <2>1, <2>3, <2>4 DEF Whole
<1>6. CASE node.kind \notin {"PolicySigned", "PolicyAuthorize"}
  <2>1. ExecuteNode(c, i) = <<C(node.kind)>>
    BY <1>6 DEF ExecuteNode
  <2>2. ~Held(node.kind) /\ ~Holding(node.kind)
    BY <1>1, <1>6 DEF Held, Holding, Kinds
  <2> HIDE DEF C
  <2>3. C(node.kind) \in Cmds
    BY <1>3, <2>1 DEF Range
  <2>4. ExecuteNode(c, i) \in Seq(Cmds)
    BY <2>1, <2>3
  <2>5. Steps(ExecuteNode(c, i)) /\ ~Held(ExecuteNode(c, i)[1].cmd)
    BY <1>2, <2>1, <2>2 DEF Steps
  <2> QED BY <2>1, <2>4, <2>5 DEF Whole
<1> QED BY <1>4, <1>5, <1>6

(* A sequence of whole assertions followed by another is one.              *)
LEMMA WholeConcat ==
  ASSUME NEW a \in Whole, NEW b \in Whole
  PROVE  a \o b \in Whole
<1>1. a \in Seq(Cmds) /\ b \in Seq(Cmds)
  BY DEF Whole
<1>2. CASE a = <<>> \/ b = <<>>
  BY <1>1, <1>2, ConcatEmptySeq
<1>3. CASE a # <<>> /\ b # <<>>
  <2>1. PICK m \in Nat \ {0}, n \in Nat \ {0} : m = Len(a) /\ n = Len(b)
    BY <1>1, <1>3, EmptySeq
  <2>2. PICK s : s = a \o b
    OBVIOUS
  <2>3. /\ s \in Seq(Cmds) /\ Len(s) = m + n
        /\ \A i \in 1 .. m + n : s[i] = IF i <= m THEN a[i] ELSE b[i - m]
    BY <1>1, <2>1, <2>2, ConcatProperties
  <2>4. s # <<>> /\ s[1] = a[1] /\ s[Len(s)] = b[n]
    <3>1. s[1] = a[1]
      BY <2>1, <2>3
    <3>2. m + n \in 1 .. m + n /\ ~(m + n <= m) /\ (m + n) - m = n
      BY <2>1
    <3>3. s[m + n] = b[n]
      BY <2>3, <3>2
    <3> QED BY <2>1, <2>3, <3>1, <3>3
  <2>5. /\ \A i \in 1 .. m - 1 : Holding(a[i].cmd) <=> Held(a[i + 1].cmd)
        /\ \A i \in 1 .. n - 1 : Holding(b[i].cmd) <=> Held(b[i + 1].cmd)
        /\ ~Holding(a[m].cmd) /\ ~Holding(b[n].cmd) /\ ~Held(a[1].cmd) /\ ~Held(b[1].cmd)
    BY <1>3, <2>1 DEF Whole, Steps
  <2>6. ASSUME NEW i \in 1 .. m + n - 1 PROVE Holding(s[i].cmd) <=> Held(s[i + 1].cmd)
    <3>1. CASE i < m
      <4>1. s[i] = a[i] /\ s[i + 1] = a[i + 1] /\ i \in 1 .. m - 1
        BY <2>1, <2>3, <3>1
      <4> QED BY <2>5, <4>1
    <3>2. CASE i = m
      <4>1. s[i] = a[m] /\ s[i + 1] = b[1]
        BY <2>1, <2>3, <3>2
      <4> QED BY <2>5, <4>1
    <3>3. CASE i > m
      <4>1. PICK j \in 1 .. n - 1 : j = i - m
        BY <2>1, <3>3
      <4>2. s[i] = b[j] /\ s[i + 1] = b[j + 1]
        <5>1. ~(i <= m) /\ ~(i + 1 <= m) /\ (i + 1) - m = j + 1 /\ i + 1 \in 1 .. m + n
          BY <2>1, <3>3, <4>1
        <5> QED BY <2>3, <4>1, <5>1
      <4> QED BY <2>5, <4>1, <4>2
    <3> QED BY <2>1, <3>1, <3>2, <3>3
  <2>7. Steps(s)
    BY <2>3, <2>4, <2>5, <2>6 DEF Steps
  <2> QED BY <2>2, <2>3, <2>4, <2>5, <2>7 DEF Whole
<1> QED BY <1>2, <1>3

(* An execution consists of whole assertions, of at least one.             *)
LEMMA ExecutionIsWhole ==
  ASSUME WellFormed(policy), NEW id
  PROVE  ExecuteChain(id) \in Whole /\ ExecuteChain(id) # <<>>
<1>1. Whole \in SUBSET Seq(Cmds) /\ <<>> \in Whole
  BY DEF Whole, Steps
<1>2. PICK run : ExecutionIn(Whole, id, run)
  <2>1. \A c \in DOMAIN policy : \A i \in DOMAIN policy[c] : ExecuteNode(c, i) \in Whole
    BY NodeCommands
  <2>2. \A a, b \in Whole : a \o b \in Whole
    BY WholeConcat
  <2> QED BY <1>1, <2>1, <2>2, ExecuteChainIn
<1>3. 1 \in DOMAIN policy
  BY PolicyShape
<1>4. ExecuteChain(id) # <<>>
  <2> DEFINE ss == Backwards(1, id, run)
             n == Len(policy[1])
  <2>1. n \in Nat \ {0} /\ 1 \in DOMAIN policy[1] /\ (n + 1) - n = 1
    BY <1>3, PolicyShape
  <2>2. ss \in Seq(Whole) /\ ss \in Seq(Seq(Cmds)) /\ Len(ss) = n
    <3>1. ss \in Seq(Whole)
      BY <1>2, <1>3 DEF ExecutionIn
    <3>2. Len(ss) = n
      BY <2>1 DEF Backwards
    <3> QED BY <1>1, <3>1, <3>2, SeqMonotonic
  <2>3. PICK fl : IsFlattening(fl, ss) /\ \A i \in 0 .. n : fl[i] \in Whole
    BY <1>1, <2>2, WholeConcat, FlattenSeqIn
  <2>4. fl[n] = fl[n - 1] \o ss[n] /\ ExecuteChain(id) = fl[n]
    <3>1. ExecuteChain(id) = FlattenSeq(ss)
      BY <1>2, <1>3 DEF ExecutionIn
    <3>2. n \in 1 .. Len(ss) /\ n = Len(ss)
      BY <2>1, <2>2
    <3> HIDE DEF ss
    <3> QED BY <2>3, <3>1, <3>2 DEF IsFlattening
  <2>5. ss[n] = ExecuteAt(1, 1, id, run)
    BY <2>1 DEF Backwards
  <2>6. PICK b \in Whole : ss[n] = b \o ExecuteNode(1, 1)
    BY <1>2, <1>3, <2>1, <2>5 DEF ExecutionIn
  <2>7. ExecuteNode(1, 1) \in Seq(Cmds) /\ ExecuteNode(1, 1) # <<>> /\ b \in Seq(Cmds)
    BY <1>1, <1>3, <2>1, NodeCommands
  <2>8. ss[n] # <<>> /\ ss[n] \in Seq(Cmds)
    <3>1. b \o ExecuteNode(1, 1) # <<>> /\ b \o ExecuteNode(1, 1) \in Seq(Cmds)
      BY <2>7, ConcatProperties, ConcatEqualIffEmpty
    <3> QED BY <2>6, <3>1
  <2>9. fl[n - 1] \in Seq(Cmds)
    BY <1>1, <2>1, <2>3
  <2> QED BY <2>4, <2>8, <2>9, ConcatEqualIffEmpty
<1> QED BY <1>2, <1>3, <1>4 DEF ExecutionIn

-----------------------------------------------------------------------------
(* The inductive invariant                                                 *)

(* The next command needs the key that was loaded before.                  *)
InHand == todo # <<>> /\ Held(todo[1].cmd)

(* The fields that TypeOK does not speak of.                               *)
RecordsInv ==
  /\ session = [digest |-> session.digest, wants |-> session.wants]
  /\ exec \in [result : {"none", "running", "SUCCESS", "exception"}, fresh : BOOLEAN,
               first : BOOLEAN, left : Nat, count : 0 .. MaxExecutions]

(* What is left to do is the rest of an execution of this policy.          *)
StepsInv == todo \in Seq(Cmds) /\ Steps(todo)

(* The keys loaded are those that executions left, and where one is used   *)
(* or flushed that key.                                                    *)
KeysInv == keys = exec.left + (IF InHand THEN 1 ELSE 0)

IInv == TypeOK /\ RecordsInv /\ StepsInv /\ KeysInv

(* The invariant holds initially ...                                       *)
LEMMA InitIInv == Init => IInv
<1> SUFFICES ASSUME Init PROVE IInv
  OBVIOUS
<1>1. TypeOK
  BY PolicyAssumption DEF Init, TypeOK, NewSession
<1>2. RecordsInv
  BY PolicyAssumption DEF Init, RecordsInv, NewSession
<1>3. StepsInv
  BY DEF Init, StepsInv, Steps
<1>4. KeysInv
  BY DEF Init, KeysInv, InHand
<1> QED BY <1>1, <1>2, <1>3, <1>4 DEF IInv

(* After a command what is left is the rest ...                            *)
LEMMA AfterAdvance ==
  ASSUME IInv, todo # <<>>, Advance, UNCHANGED policy
  PROVE  /\ StepsInv' /\ (InHand' <=> Holding(todo[1].cmd))
         /\ exec' \in [result : {"running", "SUCCESS"}, fresh : BOOLEAN,
                       first : BOOLEAN, left : Nat, count : 0 .. MaxExecutions]
         /\ exec'.left = exec.left /\ exec'.first = exec.first
         /\ exec'.fresh = exec.fresh /\ exec'.count = exec.count
         /\ exec'.result = "running" <=> todo' # <<>>
<1>1. PICK n \in Nat \ {0} : n = Len(todo)
  BY EmptySeq DEF IInv, StepsInv
<1>2. PICK t : t = Tail(todo)
  OBVIOUS
<1>3. /\ t \in Seq(Cmds) /\ Len(t) = n - 1 /\ \A i \in 1 .. n - 1 : t[i] = todo[i + 1]
      /\ todo' = t
  BY <1>1, <1>2, HeadTailProperties DEF IInv, StepsInv, Advance
<1>4. t = <<>> <=> n = 1
  BY <1>1, <1>3, EmptySeq
<1>5. Steps(todo)
  BY DEF IInv, StepsInv
<1>6. Steps(t)
  <2>1. ASSUME t # <<>> PROVE ~Holding(t[Len(t)].cmd)
    <3>1. n - 1 \in 1 .. n - 1 /\ (n - 1) + 1 = n
      BY <1>1, <1>4, <2>1
    <3>2. t[n - 1] = todo[n]
      BY <1>3, <3>1
    <3> QED BY <1>1, <1>3, <1>5, <3>2 DEF Steps
  <2>2. ASSUME NEW i \in 1 .. Len(t) - 1 PROVE Holding(t[i].cmd) <=> Held(t[i + 1].cmd)
    <3>1. i \in 1 .. n - 1 /\ i + 1 \in 1 .. n - 1
      BY <1>1, <1>3
    <3>2. t[i] = todo[i + 1] /\ t[i + 1] = todo[(i + 1) + 1]
      BY <1>3, <3>1
    <3> QED BY <1>1, <1>5, <3>1, <3>2 DEF Steps
  <2> QED BY <2>1, <2>2 DEF Steps
<1>7. Cmds' = Cmds
  BY DEF Cmds, ExecuteNode, Command, BranchDigests, ChainDigests, DigestAfter, Accumulated
<1>8. StepsInv'
  BY <1>3, <1>6, <1>7 DEF StepsInv
<1>9. InHand' <=> Holding(todo[1].cmd)
  <2>1. CASE n = 1
    BY <1>1, <1>3, <1>4, <1>5, <2>1 DEF InHand, Steps
  <2>2. CASE n # 1
    <3>1. 1 \in 1 .. n - 1
      BY <1>1, <2>2
    <3>2. t[1] = todo[2] /\ (Holding(todo[1].cmd) <=> Held(todo[2].cmd))
      BY <1>1, <1>3, <1>5, <3>1 DEF Steps
    <3> QED BY <1>3, <1>4, <2>2, <3>2 DEF InHand
  <2> QED BY <2>1, <2>2
<1>10. exec.result = "running"
  BY DEF IInv, TypeOK
<1>11. exec' = IF n = 1 THEN [exec EXCEPT !.result = "SUCCESS"] ELSE exec
  BY <1>1 DEF Advance
<1> HIDE DEF Advance
<1>12. exec \in [result : {"none", "running", "SUCCESS", "exception"}, fresh : BOOLEAN,
                 first : BOOLEAN, left : Nat, count : 0 .. MaxExecutions]
  BY DEF IInv, RecordsInv
<1>13. /\ exec' \in [result : {"running", "SUCCESS"}, fresh : BOOLEAN,
                     first : BOOLEAN, left : Nat, count : 0 .. MaxExecutions]
       /\ exec'.left = exec.left /\ exec'.first = exec.first
       /\ exec'.fresh = exec.fresh /\ exec'.count = exec.count
  BY <1>10, <1>11, <1>12
<1>14. exec'.result = "running" <=> todo' # <<>>
  BY <1>3, <1>4, <1>10, <1>11, <1>12
<1> QED BY <1>8, <1>9, <1>13, <1>14

(* ... and after an exception nothing.                                     *)
LEMMA AfterThrow ==
  ASSUME IInv, todo' = <<>>,
         \/ exec' = [exec EXCEPT !.result = "exception"]
         \/ exec' = [exec EXCEPT !.result = "none"]
  PROVE  /\ StepsInv' /\ ~InHand'
         /\ exec' \in [result : {"none", "exception"}, fresh : BOOLEAN,
                       first : BOOLEAN, left : Nat, count : 0 .. MaxExecutions]
         /\ exec'.left = exec.left /\ exec'.count = exec.count
<1>1. StepsInv' /\ ~InHand'
  BY DEF StepsInv, Steps, InHand
<1>2. exec \in [result : {"none", "running", "SUCCESS", "exception"}, fresh : BOOLEAN,
                first : BOOLEAN, left : Nat, count : 0 .. MaxExecutions]
  BY DEF IInv, RecordsInv
<1>3. exec' \in [result : {"none", "exception"}, fresh : BOOLEAN,
                 first : BOOLEAN, left : Nat, count : 0 .. MaxExecutions]
  BY <1>2
<1>4. exec'.left = exec.left /\ exec'.count = exec.count
  BY <1>2
<1> QED BY <1>1, <1>3, <1>4

(* An exception that leaves a key counts it.                               *)
LEMMA AfterLeaveKey ==
  ASSUME IInv, LeaveKey
  PROVE  /\ StepsInv' /\ ~InHand' /\ todo' = <<>>
         /\ exec' \in [result : {"none", "running", "SUCCESS", "exception"}, fresh : BOOLEAN,
                       first : BOOLEAN, left : Nat, count : 0 .. MaxExecutions]
         /\ exec'.result = "exception"
         /\ exec'.left = exec.left + 1 /\ exec'.count = exec.count
<1>1. StepsInv' /\ ~InHand' /\ todo' = <<>>
  BY DEF LeaveKey, StepsInv, Steps, InHand
<1>2. exec \in [result : {"none", "running", "SUCCESS", "exception"}, fresh : BOOLEAN,
                first : BOOLEAN, left : Nat, count : 0 .. MaxExecutions]
  BY DEF IInv, RecordsInv
<1>3. exec' = [exec EXCEPT !.result = "exception", !.left = exec.left + 1]
  BY DEF LeaveKey
<1>4. exec.left + 1 \in Nat
  BY <1>2
<1>5. exec' \in [result : {"none", "running", "SUCCESS", "exception"}, fresh : BOOLEAN,
                 first : BOOLEAN, left : Nat, count : 0 .. MaxExecutions]
  BY <1>2, <1>3, <1>4
<1>6. exec'.result = "exception" /\ exec'.left = exec.left + 1 /\ exec'.count = exec.count
  BY <1>2, <1>3
<1> QED BY <1>1, <1>5, <1>6

(* The invariant is inductive: each command advances or throws, and does   *)
(* to the keys what InHand says before and after it.                       *)
LEMMA NextIInv == IInv /\ [Next]_vars => IInv'
<1> SUFFICES ASSUME IInv, [Next]_vars PROVE IInv'
  OBVIOUS
<1> DEFINE Execs == [result : {"none", "running", "SUCCESS", "exception"}, fresh : BOOLEAN,
                     first : BOOLEAN, left : Nat, count : 0 .. MaxExecutions]
<1>0. /\ policy \in Policies /\ WellFormed(policy) /\ MaxKeys \in Nat \ {0} /\ MaxExecutions \in Nat
      /\ keys \in 0 .. MaxKeys /\ flags \subseteq {"NeedsHmac", "NeedsPassword"}
      /\ session.wants \in {"nothing", "password", "hmac"}
      /\ session = [digest |-> session.digest, wants |-> session.wants]
      /\ exec \in Execs /\ (exec.result = "running" <=> todo # <<>>)
      /\ todo \in Seq(Cmds) /\ Steps(todo)
      /\ keys = exec.left + (IF InHand THEN 1 ELSE 0) /\ exec.left \in Nat
  BY PolicyAssumption DEF IInv, TypeOK, RecordsInv, StepsInv, KeysInv
<1>1. CASE UNCHANGED vars
  <2>1. Cmds' = Cmds
    BY <1>1 DEF vars, Cmds, ExecuteNode, Command, BranchDigests, ChainDigests, DigestAfter,
                Accumulated
  <2> QED BY <1>1, <2>1 DEF vars, IInv, TypeOK, RecordsInv, StepsInv, Steps, KeysInv, InHand
<1> DEFINE Sess(s) == /\ s = [digest |-> s.digest, wants |-> s.wants]
                      /\ s.wants \in {"nothing", "password", "hmac"}
(* What each action has to be shown to do.                                 *)
<1>2. ASSUME policy' = policy, Sess(session'), flags' \subseteq {"NeedsHmac", "NeedsPassword"},
             exec' \in Execs, exec'.result = "running" <=> todo' # <<>>,
             keys' \in 0 .. MaxKeys, StepsInv',
             keys' = exec'.left + (IF InHand' THEN 1 ELSE 0)
      PROVE  IInv'
  <2>1. TypeOK'
    BY <1>0, <1>2 DEF TypeOK
  <2>2. RecordsInv' /\ StepsInv' /\ KeysInv'
    BY <1>2 DEF RecordsInv, KeysInv
  <2> QED BY <2>1, <2>2 DEF IInv
<1>3. Sess(session)
  BY <1>0
<1> DEFINE Advanced ==
             /\ StepsInv' /\ (InHand' <=> Holding(todo[1].cmd)) /\ exec' \in Execs
             /\ exec'.left = exec.left /\ (exec'.result = "running" <=> todo' # <<>>)
           Thrown ==
             /\ StepsInv' /\ ~InHand' /\ exec' \in Execs
             /\ exec'.left = exec.left /\ (exec'.result = "running" <=> todo' # <<>>)
<1>4. ASSUME todo # <<>>, policy' = policy, Advance PROVE Advanced
  BY <1>4, AfterAdvance
<1>5. ASSUME todo' = <<>>, policy' = policy,
             \/ exec' = [exec EXCEPT !.result = "exception"]
             \/ exec' = [exec EXCEPT !.result = "none"]
      PROVE  Thrown
  BY <1>5, AfterThrow
<1>15. ASSUME LeaveKey, InHand, UNCHANGED <<policy, keys>>, Sess(session'),
              flags' \subseteq {"NeedsHmac", "NeedsPassword"}
       PROVE  IInv'
  <2>1. /\ StepsInv' /\ ~InHand' /\ todo' = <<>> /\ exec' \in Execs
        /\ exec'.result = "exception" /\ exec'.left = exec.left + 1
    BY <1>15, AfterLeaveKey
  <2>2. keys' = exec'.left + (IF InHand' THEN 1 ELSE 0)
    BY <1>0, <1>15, <2>1
  <2> QED BY <1>0, <1>2, <1>15, <2>1, <2>2
<1>6. CASE Execute
  <2>1. PICK id \in GetBranchIds : todo' = ExecuteChain(id)
    BY <1>6 DEF Execute
  <2>2. ExecuteChain(id) \in Whole /\ ExecuteChain(id) # <<>>
    BY <1>0, ExecutionIsWhole
  <2>3. policy' = policy /\ session' = session /\ flags' = flags /\ keys' = keys
        /\ todo = <<>> /\ exec.count < MaxExecutions
    BY <1>6 DEF Execute
  <2>4. Cmds' = Cmds
    BY <2>3 DEF Cmds, ExecuteNode, Command, BranchDigests, ChainDigests, DigestAfter,
                Accumulated
  <2>5. StepsInv' /\ ~InHand' /\ todo' # <<>>
    BY <2>1, <2>2, <2>4 DEF Whole, StepsInv, InHand
  <2>6. exec' = [exec EXCEPT !.result = "running", !.fresh = session = NewSession,
                             !.first = exec.count = 0, !.count = exec.count + 1]
    BY <1>6 DEF Execute
  <2>7. exec.count + 1 \in 0 .. MaxExecutions
    BY <1>0, <2>3
  <2>8. exec' \in Execs /\ exec'.result = "running" /\ exec'.left = exec.left
    BY <1>0, <2>6, <2>7
  <2>9. ~InHand
    BY <2>3 DEF InHand
  <2> QED BY <1>0, <1>2, <1>3, <2>3, <2>5, <2>8, <2>9
<1>7. CASE LoadKey
  <2>1. todo # <<>> /\ todo[1].cmd = "LoadExternal" /\ UNCHANGED <<policy, session, flags>>
    BY <1>7 DEF LoadKey, Running
  <2>2. ~InHand /\ Holding(todo[1].cmd)
    BY <2>1 DEF InHand, Held, Holding
  <2>3. CASE keys < MaxKeys /\ keys' = keys + 1 /\ Advance
    BY <1>0, <1>2, <1>3, <1>4, <2>1, <2>2, <2>3
  <2>4. CASE keys' = keys /\ Throw
    <3>1. Thrown
      BY <1>5, <2>1, <2>4 DEF Throw
    <3> QED BY <1>0, <1>2, <1>3, <2>1, <2>2, <2>4, <3>1
  <2> QED BY <1>7, <2>3, <2>4 DEF LoadKey
<1>8. CASE FlushKey
  <2>1. todo # <<>> /\ todo[1].cmd = "FlushContext" /\ UNCHANGED <<policy, session, flags>>
    BY <1>8 DEF FlushKey, Running
  <2>2. InHand /\ ~Holding(todo[1].cmd)
    BY <2>1 DEF InHand, Held, Holding
  <2>3. CASE keys' = keys - 1 /\ Advance
    <3>1. Advanced
      BY <1>4, <2>1, <2>3
    <3>2. keys' \in 0 .. MaxKeys /\ keys' = exec.left
      BY <1>0, <2>2, <2>3
    <3> QED BY <1>0, <1>2, <1>3, <2>1, <2>2, <3>1, <3>2
  <2>4. CASE FlushFails
    BY <1>0, <1>3, <1>15, <2>1, <2>2, <2>4 DEF FlushFails
  <2> QED BY <1>8, <2>3, <2>4 DEF FlushKey
<1>9. CASE VerifySignature
  <2>1. todo # <<>> /\ todo[1].cmd = "VerifySignature" /\ UNCHANGED <<policy, session, flags>>
    BY <1>9 DEF VerifySignature, Running
  <2>2. InHand /\ Holding(todo[1].cmd)
    BY <2>1 DEF InHand, Held, Holding
  <2>3. CASE keys' = keys /\ Advance
    BY <1>0, <1>2, <1>3, <1>4, <2>1, <2>2, <2>3
  <2>4. CASE keys' = keys - 1 /\ Throw
    <3>1. Thrown
      BY <1>5, <2>1, <2>4 DEF Throw
    <3>2. keys' \in 0 .. MaxKeys /\ keys' = exec.left
      BY <1>0, <2>2, <2>4
    <3> QED BY <1>0, <1>2, <1>3, <2>1, <2>2, <2>4, <3>1, <3>2
  <2>5. CASE FlushFails
    BY <1>0, <1>3, <1>15, <2>1, <2>2, <2>5 DEF FlushFails
  <2> QED BY <1>9, <2>3, <2>4, <2>5 DEF VerifySignature
<1>10. CASE ExecuteAuthorize
  <2>1. todo # <<>> /\ todo[1].cmd = "PolicyAuthorize" /\ UNCHANGED <<policy, flags, keys>>
        /\ Advance
    BY <1>10 DEF ExecuteAuthorize, Running
  <2>2. InHand /\ Holding(todo[1].cmd)
    BY <2>1 DEF InHand, Held, Holding
  <2>3. PICK d : session' = [session EXCEPT !.digest = d] \/ session' = session
    BY <1>10 DEF ExecuteAuthorize
  <2>4. Sess(session')
    BY <1>0, <2>3
  <2>5. Advanced
    BY <1>4, <2>1
  <2> QED BY <1>0, <1>2, <2>1, <2>2, <2>4, <2>5
<1>11. CASE ExecuteOr
  <2>1. todo # <<>> /\ todo[1].cmd = "PolicyOR" /\ UNCHANGED <<policy, flags, keys>>
    BY <1>11 DEF ExecuteOr, Running
  <2>2. ~InHand /\ ~Holding(todo[1].cmd)
    BY <2>1 DEF InHand, Held, Holding
  <2>3. PICK d : session' = [session EXCEPT !.digest = d] \/ session' = session
    BY <1>11 DEF ExecuteOr
  <2>4. Sess(session')
    BY <1>0, <2>3
  <2>5. CASE Advance
    BY <1>0, <1>2, <1>4, <2>1, <2>2, <2>4, <2>5
  <2>6. CASE Throw
    <3>1. Thrown
      BY <1>5, <2>1, <2>6 DEF Throw
    <3> QED BY <1>0, <1>2, <2>1, <2>2, <2>4, <3>1
  <2> QED BY <1>11, <2>5, <2>6 DEF ExecuteOr
<1>12. CASE ExecuteAssertion
  <2>1. todo # <<>> /\ UNCHANGED <<policy, keys>> /\ flags' = flags \cup Marks(todo[1].kind)
        /\ todo[1].cmd \notin {"LoadExternal", "FlushContext", "VerifySignature",
                               "PolicyAuthorize", "PolicyOR"}
    BY <1>12 DEF ExecuteAssertion, Running
  <2>2. flags' \subseteq {"NeedsHmac", "NeedsPassword"}
    BY <1>0, <2>1 DEF Marks
  <2>3. InHand <=> Holding(todo[1].cmd)
    BY <2>1 DEF InHand, Held, Holding
  <2>4. CASE /\ session' = [digest |-> UpdatePolicyDigest(todo[1], session.digest, <<>>),
                            wants |-> Wanted(todo[1].kind)]
             /\ Advance
    <3>1. Wanted(todo[1].kind) \in {"nothing", "password", "hmac"}
      BY <1>0 DEF Wanted
    <3>2. Sess(session')
      BY <2>4, <3>1
    <3>3. Advanced
      BY <1>4, <2>1, <2>4
    <3> QED BY <1>0, <1>2, <2>1, <2>2, <2>3, <3>2, <3>3
  <2>5. CASE UNCHANGED session /\ IF todo[1].cmd = "PolicySigned" THEN LeaveKey ELSE Throw
    <3>1. CASE todo[1].cmd = "PolicySigned" /\ LeaveKey
      <4>1. InHand
        BY <2>1, <3>1 DEF InHand, Held
      <4> QED BY <1>3, <1>15, <2>1, <2>2, <2>5, <3>1, <4>1
    <3>2. CASE todo[1].cmd # "PolicySigned" /\ Throw
      <4>1. Thrown
        BY <1>5, <2>1, <3>2 DEF Throw
      <4>2. ~InHand
        BY <2>1, <3>2 DEF InHand, Held
      <4> QED BY <1>0, <1>2, <1>3, <2>1, <2>2, <2>5, <4>1, <4>2
    <3> QED BY <2>5, <3>1, <3>2
  <2> QED BY <1>12, <2>4, <2>5 DEF ExecuteAssertion
<1>13. CASE UseSession
  <2>1. todo = <<>> /\ UNCHANGED <<policy, flags, todo, keys>>
        /\ exec' = [exec EXCEPT !.result = "none"]
        /\ (session' = NewSession \/ session' = session)
    BY <1>13 DEF UseSession
  <2>2. Sess(session') /\ ~InHand
    BY <1>3, <2>1 DEF NewSession, InHand
  <2>3. Thrown
    BY <1>5, <2>1
  <2> QED BY <1>0, <1>2, <2>1, <2>2, <2>3
<1>14. CASE PolicyRestart
  <2>1. todo = <<>> /\ UNCHANGED <<policy, flags, todo, keys>>
        /\ exec' = [exec EXCEPT !.result = "none"] /\ session' = NewSession
    BY <1>14 DEF PolicyRestart
  <2>2. Sess(session') /\ ~InHand
    BY <2>1 DEF NewSession, InHand
  <2>3. Thrown
    BY <1>5, <2>1
  <2> QED BY <1>0, <1>2, <2>1, <2>2, <2>3
<1> QED BY <1>1, <1>6, <1>7, <1>8, <1>9, <1>10, <1>11, <1>12, <1>13, <1>14 DEF Next

(* The inductive invariant: what is left to do loads, uses and flushes each*)
(* key in turn, and the keys loaded are those of the assertion under way,  *)
(* however executions fail and are repeated.                               *)
THEOREM Invariance == Spec => []IInv
<1> QED BY InitIInv, NextIInv, PTL DEF Spec

(* Type correctness: in particular keys are never flushed that are not     *)
(* loaded, and an execution is running as long as commands are left.       *)
THEOREM PolicyTypeCorrect == Spec => []TypeOK
<1>1. IInv => TypeOK
  BY DEF IInv
<1> QED BY <1>1, Invariance, PTL

(* PolicySigned and PolicyAuthorize flush the keys that they load, on every*)
(* path but those of a refused PolicySigned and of a FlushContext that     *)
(* fails, and each of these leaves one key: for any policy, any commands   *)
(* that fail and any number of executions.                                 *)
THEOREM KeysAreGivenBack == Spec => []KeysAreFlushed
<1>1. IInv => KeysAreFlushed
  <2> SUFFICES ASSUME IInv, todo = <<>> PROVE keys = exec.left
    BY DEF KeysAreFlushed
  <2>1. exec.left \in Nat
    BY DEF IInv, RecordsInv
  <2> QED BY <2>1 DEF IInv, KeysInv, InHand
<1> QED BY <1>1, Invariance, PTL

-----------------------------------------------------------------------------
(* What the session sends                                                  *)

Has(s, kind) == \E i \in 1 .. Len(s) : s[i].kind = kind

(* No branch of the policy asks for both an HMAC and a password.           *)
AsksOnce ==
  \A id \in GetBranchIds :
    ~ (Has(ExecuteChain(id), "PolicyAuthValue") /\ Has(ExecuteChain(id), "PolicyPassword"))

(* During the first execution the marks are those of what has been         *)
(* executed, and no assertion to come asks for something else.             *)
MarksInv ==
  /\ exec.count = 0 => session = NewSession /\ flags = {} /\ todo = <<>>
  /\ exec.first /\ exec.result \in {"running", "SUCCESS"} =>
       /\ Sends = session.wants
       /\ ~ (Has(todo, "PolicyAuthValue") /\ Has(todo, "PolicyPassword"))
       /\ "NeedsPassword" \in flags => ~Has(todo, "PolicyAuthValue")

(* The rest of a sequence has no command that the whole has not.           *)
LEMMA TailHas ==
  ASSUME NEW S, NEW s \in Seq(S), s # <<>>, NEW kind
  PROVE  /\ Has(Tail(s), kind) => Has(s, kind)
         /\ s[1].kind = kind => Has(s, kind)
<1>1. PICK n \in Nat \ {0} : n = Len(s)
  BY EmptySeq
<1>2. Len(Tail(s)) = n - 1 /\ \A i \in 1 .. n - 1 : Tail(s)[i] = s[i + 1]
  BY <1>1, HeadTailProperties
<1>3. ASSUME NEW i \in 1 .. n - 1, Tail(s)[i].kind = kind PROVE Has(s, kind)
  <2>1. i + 1 \in 1 .. n /\ s[i + 1].kind = kind
    BY <1>1, <1>2, <1>3
  <2> QED BY <1>1, <2>1 DEF Has
<1>4. 1 \in 1 .. n
  BY <1>1
<1> QED BY <1>1, <1>2, <1>3, <1>4 DEF Has

(* The invariant is inductive.                                             *)
LEMMA NextMarks == IInv /\ AsksOnce /\ MarksInv /\ [Next]_vars => MarksInv'
<1> SUFFICES ASSUME IInv, AsksOnce, MarksInv, [Next]_vars PROVE MarksInv'
  OBVIOUS
<1>0. /\ flags \subseteq {"NeedsHmac", "NeedsPassword"} /\ exec.count \in Nat
      /\ exec \in [result : {"none", "running", "SUCCESS", "exception"}, fresh : BOOLEAN,
                   first : BOOLEAN, left : Nat, count : 0 .. MaxExecutions]
      /\ (exec.result = "running" <=> todo # <<>>) /\ todo \in Seq(Cmds) /\ MaxExecutions \in Nat
      /\ session = [digest |-> session.digest, wants |-> session.wants]
  BY PolicyAssumption DEF IInv, TypeOK, RecordsInv, StepsInv
(* A command that sets no mark and leaves what the TPM wants.              *)
<1>1. ASSUME todo # <<>>, Advance, flags' = flags, session'.wants = session.wants,
             UNCHANGED policy
      PROVE  MarksInv'
  <2>1. exec'.first = exec.first /\ exec'.count = exec.count /\ exec.count # 0
    BY <1>0, <1>1, AfterAdvance DEF MarksInv
  <2>2. ASSUME exec.first
        PROVE  /\ Sends' = session'.wants
               /\ ~ (Has(todo', "PolicyAuthValue") /\ Has(todo', "PolicyPassword"))
               /\ "NeedsPassword" \in flags' => ~Has(todo', "PolicyAuthValue")
    <3>1. /\ Sends = session.wants
          /\ ~ (Has(todo, "PolicyAuthValue") /\ Has(todo, "PolicyPassword"))
          /\ "NeedsPassword" \in flags => ~Has(todo, "PolicyAuthValue")
      BY <1>0, <1>1, <2>2 DEF MarksInv
    <3>2. todo' = Tail(todo)
      BY <1>1 DEF Advance
    <3>3. Sends' = Sends
      BY <1>1 DEF Sends
    <3>4. /\ Has(Tail(todo), "PolicyAuthValue") => Has(todo, "PolicyAuthValue")
          /\ Has(Tail(todo), "PolicyPassword") => Has(todo, "PolicyPassword")
      BY <1>0, <1>1, TailHas
    <3> QED BY <1>1, <3>1, <3>2, <3>3, <3>4
  <2> QED BY <2>1, <2>2 DEF MarksInv
(* Nothing is claimed of an execution that is over.                        *)
<1>2. ASSUME exec'.count = exec.count, exec.count # 0, exec'.result \in {"none", "exception"}
      PROVE  MarksInv'
  BY <1>2 DEF MarksInv
<1>3. ASSUME todo # <<>>, todo' = <<>>, exec'.result = "exception", exec'.count = exec.count
      PROVE  MarksInv'
  <2>1. exec.count # 0
    BY <1>3 DEF MarksInv
  <2> QED BY <1>2, <1>3, <2>1
<1>4. ASSUME Throw, todo # <<>> PROVE MarksInv'
  <2>1. exec' = [exec EXCEPT !.result = "exception"] /\ todo' = <<>>
    BY <1>4 DEF Throw
  <2>2. exec'.result = "exception" /\ exec'.count = exec.count
    BY <1>0, <2>1
  <2> QED BY <1>3, <1>4, <2>1, <2>2
<1>5. CASE Execute
  <2>1. PICK id \in GetBranchIds : todo' = ExecuteChain(id)
    BY <1>5 DEF Execute
  <2>2. /\ exec' = [exec EXCEPT !.result = "running", !.fresh = session = NewSession,
                                !.first = exec.count = 0, !.count = exec.count + 1]
        /\ UNCHANGED <<session, flags>>
    BY <1>5 DEF Execute
  <2>3. exec'.first = (exec.count = 0) /\ exec'.count = exec.count + 1
    BY <1>0, <2>2
  <2>4. exec.count + 1 # 0
    BY <1>0
  <2>5. ASSUME exec.count = 0
        PROVE  Sends' = session'.wants /\ "NeedsPassword" \notin flags'
    BY <2>2, <2>5 DEF MarksInv, Sends, NewSession
  <2>6. ~ (Has(todo', "PolicyAuthValue") /\ Has(todo', "PolicyPassword"))
    BY <2>1 DEF AsksOnce
  <2> QED BY <2>3, <2>4, <2>5, <2>6 DEF MarksInv
<1>6. CASE LoadKey
  BY <1>1, <1>4, <1>6 DEF LoadKey, Running
<1>15. ASSUME LeaveKey, todo # <<>> PROVE MarksInv'
  BY <1>3, <1>15, AfterLeaveKey
<1>7. CASE FlushKey
  BY <1>1, <1>7, <1>15 DEF FlushKey, FlushFails, Running
<1>8. CASE VerifySignature
  BY <1>1, <1>4, <1>8, <1>15 DEF VerifySignature, FlushFails, Running
<1>9. CASE ExecuteAuthorize
  <2>1. PICK d : session' = [session EXCEPT !.digest = d] \/ session' = session
    BY <1>9 DEF ExecuteAuthorize
  <2>2. session'.wants = session.wants
    BY <1>0, <2>1
  <2> QED BY <1>1, <1>9, <2>2 DEF ExecuteAuthorize, Running
<1>10. CASE ExecuteOr
  <2>1. PICK d : session' = [session EXCEPT !.digest = d] \/ session' = session
    BY <1>10 DEF ExecuteOr
  <2>2. session'.wants = session.wants
    BY <1>0, <2>1
  <2> QED BY <1>1, <1>4, <1>10, <2>2 DEF ExecuteOr, Running
<1>11. CASE ExecuteAssertion
  <2>1. todo # <<>> /\ flags' = flags \cup Marks(todo[1].kind) /\ UNCHANGED policy
    BY <1>11 DEF ExecuteAssertion
  <2>2. CASE /\ session' = [digest |-> UpdatePolicyDigest(todo[1], session.digest, <<>>),
                            wants |-> Wanted(todo[1].kind)]
             /\ Advance
    <3>1. CASE todo[1].kind \notin {"PolicyAuthValue", "PolicyPassword"}
      <4>1. flags' = flags /\ session'.wants = session.wants
        BY <2>1, <2>2, <3>1 DEF Marks, Wanted
      <4> QED BY <1>1, <2>1, <2>2, <4>1
    <3>2. CASE todo[1].kind \in {"PolicyAuthValue", "PolicyPassword"}
      <4>1. exec'.first = exec.first /\ exec'.count = exec.count /\ exec.count # 0
        BY <1>0, <2>1, <2>2, AfterAdvance DEF MarksInv
      <4>2. ASSUME exec.first
            PROVE  /\ Sends' = session'.wants
                   /\ ~ (Has(todo', "PolicyAuthValue") /\ Has(todo', "PolicyPassword"))
                   /\ "NeedsPassword" \in flags' => ~Has(todo', "PolicyAuthValue")
        <5>1. /\ ~ (Has(todo, "PolicyAuthValue") /\ Has(todo, "PolicyPassword"))
              /\ "NeedsPassword" \in flags => ~Has(todo, "PolicyAuthValue")
          BY <1>0, <2>1, <4>2 DEF MarksInv
        <5>2. todo' = Tail(todo)
          BY <2>2 DEF Advance
        <5>3. /\ Has(Tail(todo), "PolicyAuthValue") => Has(todo, "PolicyAuthValue")
              /\ Has(Tail(todo), "PolicyPassword") => Has(todo, "PolicyPassword")
              /\ Has(todo, todo[1].kind)
          BY <1>0, <2>1, TailHas
        <5>4. CASE todo[1].kind = "PolicyAuthValue"
          <6>1. flags' = {"NeedsHmac"} /\ session'.wants = "hmac"
            BY <1>0, <2>1, <2>2, <5>1, <5>3, <5>4 DEF Marks, Wanted
          <6> QED BY <5>1, <5>2, <5>3, <6>1 DEF Sends
        <5>5. CASE todo[1].kind = "PolicyPassword"
          <6>1. "NeedsPassword" \in flags' /\ session'.wants = "password"
            BY <2>1, <2>2, <5>5 DEF Marks, Wanted
          <6> QED BY <5>1, <5>2, <5>3, <5>5, <6>1 DEF Sends
        <5> QED BY <3>2, <5>4, <5>5
      <4> QED BY <4>1, <4>2 DEF MarksInv
    <3> QED BY <3>1, <3>2
  <2>3. CASE IF todo[1].cmd = "PolicySigned" THEN LeaveKey ELSE Throw
    BY <1>4, <1>15, <2>1, <2>3
  <2> QED BY <1>11, <2>2, <2>3 DEF ExecuteAssertion
<1>12. CASE UseSession
  <2>1. exec' = [exec EXCEPT !.result = "none"] /\ exec.result = "SUCCESS"
        /\ UNCHANGED <<flags, todo>> /\ (session' = NewSession \/ session' = session)
    BY <1>12 DEF UseSession
  <2>2. exec'.result = "none" /\ exec'.count = exec.count
    BY <1>0, <2>1
  <2> QED BY <2>1, <2>2 DEF MarksInv
<1>13. CASE PolicyRestart
  <2>1. exec' = [exec EXCEPT !.result = "none"] /\ exec.count > 0
    BY <1>13 DEF PolicyRestart
  <2>2. exec'.result = "none" /\ exec'.count = exec.count /\ exec.count # 0
    BY <1>0, <2>1
  <2> QED BY <1>2, <2>2
<1>14. CASE UNCHANGED vars
  BY <1>14 DEF vars, MarksInv, Sends, Has
<1> QED BY <1>5, <1>6, <1>7, <1>8, <1>9, <1>10, <1>11, <1>12, <1>13, <1>14 DEF Next

(* After its first execution a session sends with the command what the TPM *)
(* wants, an HMAC, a password or nothing, if no branch of the policy asks  *)
(* for two of these: for all such policies, whatever fails.                *)
THEOREM MarksAreRight == Spec /\ []AsksOnce => []SendsWhatIsWanted
<1>1. Init => MarksInv
  BY DEF Init, MarksInv
<1>2. MarksInv => SendsWhatIsWanted
  BY DEF MarksInv, SendsWhatIsWanted
<1> QED BY <1>1, <1>2, Invariance, NextMarks, PTL DEF Spec

-----------------------------------------------------------------------------
(* The digest of the chain, assertion by assertion                         *)

(* The digest after an assertion.                                          *)
NodeDigest(node, digest) == UpdatePolicyDigest(node, digest, BranchDigests(node))

(* The recursion of GetPolicyDigest down to assertion m, as an equation.   *)
Accumulation(c, m, g) ==
  g = [i \in m .. Len(policy[c]) |->
        IF i = Len(policy[c]) THEN <<>> ELSE NodeDigest(policy[c][i + 1], g[i + 1])]

(* The equation for each assertion.                                        *)
LEMMA AccumulationAt ==
  ASSUME NEW c, NEW m, NEW g, Accumulation(c, m, g)
  PROVE  \A i \in m .. Len(policy[c]) :
           g[i] = IF i = Len(policy[c]) THEN <<>> ELSE NodeDigest(policy[c][i + 1], g[i + 1])
<1>1. PICK f : f = [i \in m .. Len(policy[c]) |->
                     IF i = Len(policy[c]) THEN <<>> ELSE NodeDigest(policy[c][i + 1], g[i + 1])]
  OBVIOUS
<1>2. \A i \in m .. Len(policy[c]) :
        f[i] = IF i = Len(policy[c]) THEN <<>> ELSE NodeDigest(policy[c][i + 1], g[i + 1])
  BY <1>1
<1>3. g = f
  BY <1>1 DEF Accumulation
<1> QED BY <1>2, <1>3

(* The equation has a solution.                                            *)
LEMMA AccumulationExists ==
  ASSUME NEW c, Len(policy[c]) \in Nat
  PROVE  \E g : Accumulation(c, 0, g)
<1> DEFINE n == Len(policy[c])
           S == {k \in 0 .. n : \E g : Accumulation(c, n - k, g)}
<1>1. 0 \in S
  <2>1. PICK g : g = [i \in n .. n |-> <<>>]
    OBVIOUS
  <2>2. \A i \in n .. n : i = n
    OBVIOUS
  <2>3. g = [i \in n .. n |-> IF i = n THEN <<>> ELSE NodeDigest(policy[c][i + 1], g[i + 1])]
    BY <2>1, <2>2
  <2>4. Accumulation(c, n, g) /\ n - 0 = n
    BY <2>3 DEF Accumulation
  <2> QED BY <2>4
<1>2. ASSUME NEW k \in 0 .. n - 1, k \in S PROVE k + 1 \in S
  <2>0. PICK m \in Nat : m = n - (k + 1) /\ m + 1 = n - k /\ m < n
    <3>1. n \in Nat /\ k \in Nat /\ k < n
      OBVIOUS
    <3> HIDE DEF n
    <3>2. n - (k + 1) \in Nat /\ (n - (k + 1)) + 1 = n - k /\ n - (k + 1) < n
      BY <3>1
    <3> QED BY <3>2
  <2>1. PICK g : Accumulation(c, m + 1, g)
    BY <1>2, <2>0
  <2>2. PICK h : h = [i \in m .. n |->
                       IF i = n THEN <<>> ELSE NodeDigest(policy[c][i + 1], g[i + 1])]
    OBVIOUS
  <2>3. \A i \in m + 1 .. n : h[i] = g[i]
    <3>1. \A i \in m + 1 .. n :
            g[i] = IF i = n THEN <<>> ELSE NodeDigest(policy[c][i + 1], g[i + 1])
      BY <2>1, AccumulationAt
    <3> QED BY <2>0, <2>2, <3>1
  <2>4. \A i \in m .. n : i # n => h[i + 1] = g[i + 1]
    BY <2>0, <2>3
  <2>5. Accumulation(c, m, h)
    BY <2>2, <2>4 DEF Accumulation
  <2> QED BY <2>0, <2>5
<1>3. \A k \in 0 .. n : k \in S
  <2> HIDE DEF S
  <2> QED BY <1>1, <1>2, Reaches
<1>4. n \in S /\ n - n = 0
  BY <1>3
<1> QED BY <1>4

(* Each assertion updates the digest of what precedes it.                  *)
LEMMA DigestSteps ==
  ASSUME WellFormed(policy), NEW c \in DOMAIN policy
  PROVE  /\ DigestAfter(c, Len(policy[c])) = <<>>
         /\ \A i \in DOMAIN policy[c] :
              DigestAfter(c, i - 1) = NodeDigest(policy[c][i], DigestAfter(c, i))
<1> DEFINE A == CHOOSE g : Accumulation(c, 0, g)
           n == Len(policy[c])
<1>1. n \in Nat \ {0} /\ DOMAIN policy[c] = 1 .. n
  BY PolicyShape
<1>2. Accumulation(c, 0, A)
  BY <1>1, AccumulationExists
<1>3. Accumulated(c, ChainDigests) = A
  BY DEF Accumulated, Accumulation, NodeDigest, BranchDigests
<1>4. \A i : DigestAfter(c, i) = A[i]
  BY <1>3 DEF DigestAfter
<1> HIDE DEF A
<1>5. \A i \in 0 .. n : A[i] = IF i = n THEN <<>> ELSE NodeDigest(policy[c][i + 1], A[i + 1])
  BY <1>2, AccumulationAt
<1>6. ASSUME NEW i \in DOMAIN policy[c]
      PROVE  A[i - 1] = NodeDigest(policy[c][i], A[i])
  <2>1. i - 1 \in 0 .. n /\ i - 1 # n /\ (i - 1) + 1 = i
    BY <1>1
  <2> QED BY <1>5, <2>1
<1>7. A[n] = <<>>
  <2>1. n \in 0 .. n
    BY <1>1
  <2> QED BY <1>5, <2>1
<1> QED BY <1>4, <1>6, <1>7

-----------------------------------------------------------------------------
(* Where a sequence of commands leads                                      *)

(* The session digest after a command that succeeds.                       *)
After(x, digest) ==
  CASE x.cmd \in {"LoadExternal", "FlushContext", "VerifySignature"} -> digest
    [] x.cmd = "PolicyAuthorize" ->
         IF digest = x.approved THEN UpdatePolicyDigest(x, digest, <<>>) ELSE digest
    [] x.cmd = "PolicyOR" -> UpdatePolicyDigest(x, digest, x.list)
    [] OTHER -> UpdatePolicyDigest(x, digest, <<>>)

(* The digests d that a session goes through, when nothing fails.          *)
Trace(s, d) == \A i \in 1 .. Len(s) : d[i] = After(s[i], d[i - 1])

(* Executed on a session with digest a, the sequence leads to digest b.    *)
Leads(s, a, b) == \A d : d[0] = a /\ Trace(s, d) => d[Len(s)] = b

(* No command changes nothing.                                             *)
LEMMA LeadsNowhere ==
  ASSUME NEW a, NEW b
  PROVE  Leads(<<>>, a, b) <=> a = b
<1>1. PICK d : d = [i \in {0} |-> a]
  OBVIOUS
<1>2. d[0] = a /\ Trace(<<>>, d)
  BY <1>1 DEF Trace
<1> QED BY <1>2 DEF Leads

(* After the first command, the rest leads where the whole does.           *)
LEMMA LeadsOn ==
  ASSUME NEW S, NEW s \in Seq(S), s # <<>>, NEW a, NEW b, Leads(s, a, b)
  PROVE  Leads(Tail(s), After(s[1], a), b)
<1>1. PICK n \in Nat \ {0} : n = Len(s)
  BY EmptySeq
<1>2. Len(Tail(s)) = n - 1 /\ \A i \in 1 .. n - 1 : Tail(s)[i] = s[i + 1]
  BY <1>1, HeadTailProperties
<1> SUFFICES ASSUME NEW d, d[0] = After(s[1], a), Trace(Tail(s), d) PROVE d[n - 1] = b
  BY <1>2 DEF Leads
<1>3. PICK e : e = [i \in 0 .. n |-> IF i = 0 THEN a ELSE d[i - 1]]
  OBVIOUS
<1>4. ASSUME NEW i \in 1 .. n PROVE e[i] = After(s[i], e[i - 1])
  <2>1. CASE i = 1
    BY <1>1, <1>3, <2>1
  <2>2. CASE i # 1
    <3>1. PICK j \in 1 .. n - 1 : j = i - 1
      BY <1>1, <2>2
    <3>2. d[j] = After(s[j + 1], d[j - 1])
      BY <1>2 DEF Trace
    <3>3. e[i] = d[j] /\ e[i - 1] = d[j - 1] /\ s[j + 1] = s[i]
      BY <1>1, <1>3, <3>1
    <3> QED BY <3>2, <3>3
  <2> QED BY <2>1, <2>2
<1>5. e[0] = a /\ Trace(s, e) /\ e[n] = d[n - 1]
  BY <1>1, <1>3, <1>4 DEF Trace
<1> QED BY <1>1, <1>5 DEF Leads

(* Sequences lead where one after the other does.                          *)
LEMMA LeadsConcat ==
  ASSUME NEW S, NEW s \in Seq(S), NEW t \in Seq(S), NEW a, NEW b, NEW c,
         Leads(s, a, b), Leads(t, b, c)
  PROVE  Leads(s \o t, a, c)
<1>1. PICK m \in Nat, n \in Nat : m = Len(s) /\ n = Len(t)
  BY LenProperties
<1>2. PICK u : u = s \o t
  OBVIOUS
<1>3. Len(u) = m + n /\ \A i \in 1 .. m + n : u[i] = IF i <= m THEN s[i] ELSE t[i - m]
  BY <1>1, <1>2, ConcatProperties
<1> SUFFICES ASSUME NEW d, d[0] = a, Trace(u, d) PROVE d[m + n] = c
  BY <1>2, <1>3 DEF Leads
<1>4. \A i \in 1 .. m + n : d[i] = After(u[i], d[i - 1])
  BY <1>3 DEF Trace
<1>5. d[m] = b
  <2>1. \A i \in 1 .. m : d[i] = After(s[i], d[i - 1])
    BY <1>3, <1>4
  <2> QED BY <1>1, <2>1 DEF Leads, Trace
<1>6. PICK e : e = [i \in 0 .. n |-> d[m + i]]
  OBVIOUS
<1>7. ASSUME NEW i \in 1 .. n PROVE e[i] = After(t[i], e[i - 1])
  <2>1. m + i \in 1 .. m + n /\ ~(m + i <= m) /\ (m + i) - m = i /\ (m + i) - 1 = m + (i - 1)
        /\ i \in 0 .. n /\ i - 1 \in 0 .. n
    OBVIOUS
  <2>2. d[m + i] = After(t[i], d[m + (i - 1)])
    BY <1>3, <1>4, <2>1
  <2>3. e[i] = d[m + i] /\ e[i - 1] = d[m + (i - 1)]
    BY <1>6, <2>1
  <2> QED BY <2>2, <2>3
<1>8. e[0] = b /\ e[n] = d[m + n]
  BY <1>5, <1>6
<1>9. e[n] = c
  BY <1>1, <1>7, <1>8 DEF Leads, Trace
<1> QED BY <1>8, <1>9

(* A PolicyOR does away with what was before.                              *)
LEMMA LeadsThroughOr ==
  ASSUME NEW S, NEW s \in Seq(S), NEW x \in S, x.cmd = "PolicyOR", x.kind = "PolicyOR",
         NEW a, NEW b
  PROVE  Leads(s \o <<x>>, a, UpdatePolicyDigest(x, b, x.list))
<1>1. PICK m \in Nat : m = Len(s)
  BY LenProperties
<1>2. PICK u : u = s \o <<x>>
  OBVIOUS
<1>3. Len(u) = m + 1 /\ u[m + 1] = x
  <2>1. <<x>> \in Seq(S) /\ Len(<<x>>) = 1
    OBVIOUS
  <2>2. Len(u) = m + 1 /\ \A i \in 1 .. m + 1 : u[i] = IF i <= m THEN s[i] ELSE <<x>>[i - m]
    BY <1>1, <1>2, <2>1, ConcatProperties
  <2>3. m + 1 \in 1 .. m + 1 /\ ~(m + 1 <= m) /\ (m + 1) - m = 1
    OBVIOUS
  <2> QED BY <2>2, <2>3
<1>4. \A g : After(x, g) = UpdatePolicyDigest(x, b, x.list)
  BY DEF After, UpdatePolicyDigest
<1> SUFFICES ASSUME NEW d, Trace(u, d) PROVE d[m + 1] = UpdatePolicyDigest(x, b, x.list)
  BY <1>2, <1>3 DEF Leads
<1> QED BY <1>3, <1>4 DEF Trace

-----------------------------------------------------------------------------
(* An execution leads to the digest of the policy                          *)

(* Authorized policies are approved by a signature on the digest of what   *)
(* precedes the authorization, and the TPM does not fail to accept it (the *)
(* library would not notice).                                              *)
ApprovedOnly ==
  /\ "PolicyAuthorize" \notin Failing
  /\ \A p \in Policies : \A c \in DOMAIN p : \A i \in DOMAIN p[c] :
       p[c][i].kind = "PolicyAuthorize" => p[c][i].arg = "approved"

(* The commands of an assertion other than PolicyOR.                       *)
LEMMA NodeLeads ==
  ASSUME WellFormed(policy), NEW c \in DOMAIN policy, NEW i \in DOMAIN policy[c],
         policy[c][i].kind = "PolicyAuthorize" => policy[c][i].arg = "approved",
         policy[c][i].kind # "PolicyOR"
  PROVE  Leads(ExecuteNode(c, i), DigestAfter(c, i), DigestAfter(c, i - 1))
<1> DEFINE node == policy[c][i]
           approved == IF node.arg = "approved" THEN DigestAfter(c, i) ELSE << <<"other", "">> >>
           C(cmd) == Command(cmd, node, approved)
           U(a) == UpdatePolicyDigest(node, a, <<>>)
<1>1. node.kind \in Kinds
  <2>1. node \in Nodes
    BY PolicyShape
  <2> QED BY <2>1 DEF Nodes
<1>2. \A cmd : C(cmd).cmd = cmd /\ C(cmd).kind = node.kind /\ C(cmd).arg = node.arg
               /\ C(cmd).approved = approved
  BY DEF Command
<1>3. DigestAfter(c, i - 1) = U(DigestAfter(c, i))
  BY DigestSteps DEF NodeDigest, UpdatePolicyDigest
<1>4. \A cmd, a : UpdatePolicyDigest(C(cmd), a, <<>>) = U(a)
  BY <1>2 DEF UpdatePolicyDigest
<1>5. /\ \A a : After(C("LoadExternal"), a) = a
      /\ \A a : After(C("FlushContext"), a) = a
      /\ \A a : After(C("VerifySignature"), a) = a
      /\ \A cmd, a : cmd \in Kinds \ {"PolicyAuthorize", "PolicyOR"} => After(C(cmd), a) = U(a)
  <2>1. ASSUME NEW cmd, NEW a, cmd \in {"LoadExternal", "FlushContext", "VerifySignature"}
        PROVE  After(C(cmd), a) = a
    <3> HIDE DEF C
    <3> QED BY <1>2, <2>1 DEF After
  <2>2. ASSUME NEW cmd, NEW a, cmd \in Kinds \ {"PolicyAuthorize", "PolicyOR"}
        PROVE  After(C(cmd), a) = U(a)
    <3>1. C(cmd).cmd \notin {"LoadExternal", "FlushContext", "VerifySignature",
                              "PolicyAuthorize", "PolicyOR"}
      BY <1>2, <2>2 DEF Kinds
    <3> HIDE DEF C
    <3>2. After(C(cmd), a) = UpdatePolicyDigest(C(cmd), a, <<>>)
      BY <3>1 DEF After
    <3> QED BY <1>4, <3>2
  <2> HIDE DEF C, U
  <2> QED BY <2>1, <2>2
<1> SUFFICES ASSUME NEW d, d[0] = DigestAfter(c, i), Trace(ExecuteNode(c, i), d)
             PROVE  d[Len(ExecuteNode(c, i))] = U(DigestAfter(c, i))
  BY <1>3 DEF Leads
<1> HIDE DEF U
<1>6. CASE node.kind = "PolicySigned"
  <2>1. ExecuteNode(c, i) = <<C("LoadExternal"), C("PolicySigned"), C("FlushContext")>>
    BY <1>6 DEF ExecuteNode
  <2> HIDE DEF C
  <2>2. d[1] = d[0] /\ d[2] = U(d[1]) /\ d[3] = d[2]
    <3>1. d[1] = After(C("LoadExternal"), d[0]) /\ d[2] = After(C("PolicySigned"), d[1])
          /\ d[3] = After(C("FlushContext"), d[2])
      BY <2>1 DEF Trace
    <3>2. "PolicySigned" \in Kinds \ {"PolicyAuthorize", "PolicyOR"}
      BY DEF Kinds
    <3> QED BY <1>5, <3>1, <3>2
  <2>3. Len(ExecuteNode(c, i)) = 3
    BY <2>1
  <2> QED BY <2>2, <2>3
<1>7. CASE node.kind = "PolicyAuthorize"
  <2>1. ExecuteNode(c, i) = <<C("LoadExternal"), C("VerifySignature"), C("PolicyAuthorize"),
                              C("FlushContext")>>
    BY <1>7 DEF ExecuteNode
  <2>2. approved = DigestAfter(c, i)
    BY <1>7
  <2> HIDE DEF C, approved
  <2>3. After(C("PolicyAuthorize"), DigestAfter(c, i)) = U(DigestAfter(c, i))
    BY <1>2, <1>4, <2>2 DEF After
  <2>4. d[1] = After(C("LoadExternal"), d[0]) /\ d[2] = After(C("VerifySignature"), d[1])
        /\ d[3] = After(C("PolicyAuthorize"), d[2]) /\ d[4] = After(C("FlushContext"), d[3])
    BY <2>1 DEF Trace
  <2>5. Len(ExecuteNode(c, i)) = 4
    BY <2>1
  <2> QED BY <1>5, <2>3, <2>4, <2>5
<1>8. CASE node.kind \notin {"PolicySigned", "PolicyAuthorize"}
  <2>1. ExecuteNode(c, i) = <<C(node.kind)>>
    BY <1>8 DEF ExecuteNode
  <2> HIDE DEF C
  <2>2. d[1] = After(C(node.kind), d[0])
    BY <2>1 DEF Trace
  <2>3. Len(ExecuteNode(c, i)) = 1
    BY <2>1
  <2> QED BY <1>1, <1>5, <1>8, <2>2, <2>3
<1> QED BY <1>6, <1>7, <1>8

(* An assertion with the branch that it descends to.                       *)
LEMMA AtLeads ==
  ASSUME WellFormed(policy), ApprovedOnly, policy \in Policies,
         NEW c \in DOMAIN policy, NEW i \in DOMAIN policy[c], NEW id, NEW run,
         NEW b \in Seq(Cmds), ExecuteAt(c, i, id, run) = b \o ExecuteNode(c, i)
  PROVE  Leads(ExecuteAt(c, i, id, run), DigestAfter(c, i), DigestAfter(c, i - 1))
<1> DEFINE node == policy[c][i]
<1>0. node.kind \in Kinds /\ (node.kind # "PolicyOR" => node.branches = <<>>)
  <2>1. node \in Nodes
    BY PolicyShape
  <2> QED BY <2>1 DEF Nodes, WellFormed
<1>1. ExecuteNode(c, i) \in Seq(Cmds)
  BY NodeCommands DEF Whole
<1>2. CASE node.kind = "PolicyOR"
  <2>1. PICK x, a : x = Command("PolicyOR", node, a) /\ ExecuteNode(c, i) = <<x>>
    BY <1>2 DEF ExecuteNode
  <2>2. x.cmd = "PolicyOR" /\ x.kind = "PolicyOR" /\ x.list = BranchDigests(node)
    BY <1>2, <2>1 DEF Command
  <2>3. x \in Cmds
    <3>1. Len(<<x>>) = 1 /\ <<x>>[1] = x
      OBVIOUS
    <3> QED BY <1>1, <2>1, <3>1, ElementOfSeq
  <2>4. UpdatePolicyDigest(x, DigestAfter(c, i), x.list) = DigestAfter(c, i - 1)
    BY <1>2, <2>2, DigestSteps DEF NodeDigest, UpdatePolicyDigest
  <2>5. Leads(b \o <<x>>, DigestAfter(c, i), UpdatePolicyDigest(x, DigestAfter(c, i), x.list))
    BY <2>2, <2>3, LeadsThroughOr
  <2> QED BY <2>1, <2>4, <2>5
<1>3. CASE node.kind # "PolicyOR"
  <2> DEFINE Fs == [k \in DOMAIN node.branches |->
                      IF ChainContainsBranch(node.branches[k], id)
                      THEN run[node.branches[k]] ELSE <<>>]
  <2>1. node.branches = <<>>
    BY <1>0, <1>3
  <2>2. Fs = <<>>
    BY <2>1
  <2>3. FlattenSeq(<<>>) = <<>>
    BY DEF FlattenSeq
  <2>4. ExecuteAt(c, i, id, run) = FlattenSeq(Fs) \o ExecuteNode(c, i)
    BY DEF ExecuteAt
  <2>5. ExecuteAt(c, i, id, run) = ExecuteNode(c, i)
    BY <1>1, <2>2, <2>3, <2>4, ConcatEmptySeq
  <2>6. node.kind = "PolicyAuthorize" => node.arg = "approved"
    BY DEF ApprovedOnly
  <2> QED BY <1>3, <2>5, <2>6, NodeLeads
<1> QED BY <1>2, <1>3

(* Executed on a new session, any branch leads to the digest of the policy.*)
LEMMA ExecutionLeads ==
  ASSUME WellFormed(policy), ApprovedOnly, policy \in Policies, NEW id
  PROVE  Leads(ExecuteChain(id), <<>>, GetPolicyDigest)
<1> DEFINE n == Len(policy[1])
<1>1. Whole \in SUBSET Seq(Cmds) /\ <<>> \in Whole
  BY DEF Whole, Steps
<1>2. PICK run : ExecutionIn(Whole, id, run)
  <2>1. \A c \in DOMAIN policy : \A i \in DOMAIN policy[c] : ExecuteNode(c, i) \in Whole
    BY NodeCommands
  <2>2. \A a, b \in Whole : a \o b \in Whole
    BY WholeConcat
  <2> QED BY <1>1, <2>1, <2>2, ExecuteChainIn
<1>3. 1 \in DOMAIN policy /\ n \in Nat \ {0} /\ DOMAIN policy[1] = 1 .. n
  BY PolicyShape
<1>4. PICK ss : ss = Backwards(1, id, run)
  OBVIOUS
<1>5. ss \in Seq(Whole) /\ Len(ss) = n /\ ExecuteChain(id) = FlattenSeq(ss)
  <2>1. ss \in Seq(Whole) /\ ExecuteChain(id) = FlattenSeq(ss)
    BY <1>2, <1>3, <1>4 DEF ExecutionIn
  <2>2. Len(ss) = n
    BY <1>3, <1>4 DEF Backwards
  <2> QED BY <2>1, <2>2
<1>6. PICK fl : IsFlattening(fl, ss) /\ \A i \in 0 .. n : fl[i] \in Whole
  BY <1>1, <1>5, WholeConcat, FlattenSeqIn
<1> DEFINE T == {j \in 0 .. n : Leads(fl[j], <<>>, DigestAfter(1, n - j))}
<1>7. 0 \in T
  <2>1. fl[0] = <<>> /\ n - 0 = n /\ DigestAfter(1, n) = <<>>
    BY <1>3, <1>6, DigestSteps DEF IsFlattening
  <2> QED BY <1>3, <2>1, LeadsNowhere
<1>8. ASSUME NEW k \in 0 .. n - 1, k \in T PROVE k + 1 \in T
  <2>1. PICK i \in DOMAIN policy[1] : i = n - k /\ i = n + 1 - (k + 1) /\ i - 1 = n - (k + 1)
    <3>1. n - k \in 1 .. n /\ n - k = n + 1 - (k + 1) /\ (n - k) - 1 = n - (k + 1)
      BY <1>3
    <3> QED BY <1>3, <3>1
  <2>2. k + 1 \in 1 .. n /\ (k + 1) - 1 = k
    BY <1>3
  <2>3. fl[k + 1] = fl[k] \o ss[k + 1]
    BY <1>5, <1>6, <2>2 DEF IsFlattening
  <2>4. ss[k + 1] = ExecuteAt(1, i, id, run)
    BY <1>4, <2>1, <2>2 DEF Backwards
  <2>5. PICK b \in Whole : ExecuteAt(1, i, id, run) = b \o ExecuteNode(1, i)
    BY <1>2, <1>3 DEF ExecutionIn
  <2>6. Leads(ss[k + 1], DigestAfter(1, i), DigestAfter(1, i - 1))
    BY <1>1, <1>3, <2>4, <2>5, AtLeads
  <2>7. Leads(fl[k], <<>>, DigestAfter(1, i))
    BY <1>8, <2>1
  <2>8. fl[k] \in Seq(Cmds) /\ ss[k + 1] \in Seq(Cmds)
    BY <1>1, <1>5, <1>6, <2>2
  <2>9. Leads(fl[k + 1], <<>>, DigestAfter(1, i - 1))
    BY <2>3, <2>6, <2>7, <2>8, LeadsConcat
  <2> QED BY <1>3, <2>1, <2>2, <2>9
<1>9. \A k \in 0 .. n : k \in T
  <2> HIDE DEF T
  <2> QED BY <1>3, <1>7, <1>8, Reaches
<1>10. n \in 0 .. n /\ n - n = 0 /\ fl[n] = ExecuteChain(id)
  BY <1>3, <1>5, <1>6 DEF IsFlattening
<1>11. Leads(fl[n], <<>>, DigestAfter(1, n - n))
  BY <1>9, <1>10
<1> QED BY <1>10, <1>11 DEF GetPolicyDigest

(* As long as an execution that began on a new session goes well, what is  *)
(* left of it leads from the session's digest to that of the policy.       *)
LeadsInv ==
  exec.fresh /\ exec.result \in {"running", "SUCCESS"} =>
    Leads(todo, session.digest, GetPolicyDigest)

(* The invariant is inductive.                                             *)
LEMMA NextLeads == ApprovedOnly /\ IInv /\ LeadsInv /\ [Next]_vars => LeadsInv'
<1> SUFFICES ASSUME ApprovedOnly, IInv, LeadsInv, [Next]_vars PROVE LeadsInv'
  OBVIOUS
<1>0. /\ policy \in Policies /\ WellFormed(policy)
      /\ exec \in [result : {"none", "running", "SUCCESS", "exception"}, fresh : BOOLEAN,
                   first : BOOLEAN, left : Nat, count : 0 .. MaxExecutions]
      /\ (exec.result = "running" <=> todo # <<>>) /\ todo \in Seq(Cmds)
      /\ session = [digest |-> session.digest, wants |-> session.wants]
  BY PolicyAssumption DEF IInv, TypeOK, RecordsInv, StepsInv
<1>1. policy' = policy => GetPolicyDigest' = GetPolicyDigest
  BY DEF GetPolicyDigest, DigestAfter, Accumulated, ChainDigests
(* A command that succeeds.                                                *)
<1>2. ASSUME todo # <<>>, Advance, policy' = policy,
             session'.digest = After(todo[1], session.digest)
      PROVE  LeadsInv'
  <2>1. exec'.fresh = exec.fresh
    BY <1>2, AfterAdvance
  <2>2. ASSUME exec.fresh PROVE Leads(todo', session'.digest, GetPolicyDigest')
    <3>1. Leads(todo, session.digest, GetPolicyDigest)
      BY <1>0, <1>2, <2>2 DEF LeadsInv
    <3>2. todo' = Tail(todo)
      BY <1>2 DEF Advance
    <3> QED BY <1>0, <1>1, <1>2, <3>1, <3>2, LeadsOn
  <2>3. (Leads(todo, session.digest, GetPolicyDigest))' <=>
          Leads(todo', session'.digest, GetPolicyDigest')
    BY DEF Leads, Trace, After, UpdatePolicyDigest
  <2> QED BY <2>1, <2>2, <2>3 DEF LeadsInv
(* Nothing is claimed of an execution that is over.                        *)
<1>3. ASSUME exec'.result \in {"none", "exception"} PROVE LeadsInv'
  BY <1>3 DEF LeadsInv
<1>4. ASSUME Throw PROVE LeadsInv'
  <2>1. exec' = [exec EXCEPT !.result = "exception"]
    BY <1>4 DEF Throw
  <2>2. exec'.result = "exception"
    BY <1>0, <2>1
  <2> QED BY <1>3, <2>2
<1>14. ASSUME LeaveKey PROVE LeadsInv'
  BY <1>3, <1>14, AfterLeaveKey
<1>5. CASE Execute
  <2>1. PICK id \in GetBranchIds : todo' = ExecuteChain(id)
    BY <1>5 DEF Execute
  <2>2. /\ exec' = [exec EXCEPT !.result = "running", !.fresh = session = NewSession,
                                !.first = exec.count = 0, !.count = exec.count + 1]
        /\ session' = session /\ policy' = policy
    BY <1>5 DEF Execute
  <2>3. exec'.fresh = (session = NewSession)
    BY <1>0, <2>2
  <2>4. Leads(ExecuteChain(id), <<>>, GetPolicyDigest)
    BY <1>0, ExecutionLeads
  <2>5. session = NewSession => session'.digest = <<>>
    BY <2>2 DEF NewSession
  <2>6. (Leads(todo, session.digest, GetPolicyDigest))' <=>
          Leads(todo', session'.digest, GetPolicyDigest')
    BY DEF Leads, Trace, After, UpdatePolicyDigest
  <2> QED BY <1>1, <2>1, <2>2, <2>3, <2>4, <2>5, <2>6 DEF LeadsInv
<1>6. CASE LoadKey
  <2>1. todo # <<>> /\ todo[1].cmd = "LoadExternal" /\ UNCHANGED <<policy, session>>
    BY <1>6 DEF LoadKey, Running
  <2>2. After(todo[1], session.digest) = session.digest
    BY <2>1 DEF After
  <2> QED BY <1>2, <1>4, <1>6, <2>1, <2>2 DEF LoadKey
<1>7. CASE FlushKey
  <2>1. todo # <<>> /\ todo[1].cmd = "FlushContext" /\ UNCHANGED <<policy, session>>
    BY <1>7 DEF FlushKey, Running
  <2>2. After(todo[1], session.digest) = session.digest
    BY <2>1 DEF After
  <2> QED BY <1>2, <1>7, <1>14, <2>1, <2>2 DEF FlushKey, FlushFails
<1>8. CASE VerifySignature
  <2>1. todo # <<>> /\ todo[1].cmd = "VerifySignature" /\ UNCHANGED <<policy, session>>
    BY <1>8 DEF VerifySignature, Running
  <2>2. After(todo[1], session.digest) = session.digest
    BY <2>1 DEF After
  <2> QED BY <1>2, <1>4, <1>8, <1>14, <2>1, <2>2 DEF VerifySignature, FlushFails
<1>9. CASE ExecuteAuthorize
  <2>1. todo # <<>> /\ todo[1].cmd = "PolicyAuthorize" /\ policy' = policy /\ Advance
    BY <1>9 DEF ExecuteAuthorize, Running
  <2>2. CASE /\ session.digest = todo[1].approved
             /\ session' = [session EXCEPT !.digest = UpdatePolicyDigest(todo[1], @, <<>>)]
    <3>1. session'.digest = UpdatePolicyDigest(todo[1], session.digest, <<>>)
      BY <1>0, <2>2
    <3>2. After(todo[1], session.digest) = UpdatePolicyDigest(todo[1], session.digest, <<>>)
      BY <2>1, <2>2 DEF After
    <3> QED BY <1>2, <2>1, <3>1, <3>2
  <2>3. CASE session.digest # todo[1].approved /\ UNCHANGED session
    <3>1. After(todo[1], session.digest) = session.digest
      BY <2>1, <2>3 DEF After
    <3> QED BY <1>2, <2>1, <2>3, <3>1
  <2> QED BY <1>9, <2>2, <2>3 DEF ExecuteAuthorize, ApprovedOnly
<1>10. CASE ExecuteOr
  <2>1. todo # <<>> /\ todo[1].cmd = "PolicyOR" /\ policy' = policy
    BY <1>10 DEF ExecuteOr, Running
  <2>2. CASE /\ session' = [session EXCEPT !.digest =
                              UpdatePolicyDigest(todo[1], @, todo[1].list)]
             /\ Advance
    <3>1. session'.digest = UpdatePolicyDigest(todo[1], session.digest, todo[1].list)
      BY <1>0, <2>2
    <3>2. After(todo[1], session.digest)
            = UpdatePolicyDigest(todo[1], session.digest, todo[1].list)
      BY <2>1 DEF After
    <3> QED BY <1>2, <2>1, <2>2, <3>1, <3>2
  <2> QED BY <1>4, <1>10, <2>2 DEF ExecuteOr
<1>11. CASE ExecuteAssertion
  <2>1. todo # <<>> /\ policy' = policy
        /\ todo[1].cmd \notin {"LoadExternal", "FlushContext", "VerifySignature",
                               "PolicyAuthorize", "PolicyOR"}
    BY <1>11 DEF ExecuteAssertion, Running
  <2>2. CASE /\ session' = [digest |-> UpdatePolicyDigest(todo[1], session.digest, <<>>),
                            wants |-> Wanted(todo[1].kind)]
             /\ Advance
    <3>1. session'.digest = UpdatePolicyDigest(todo[1], session.digest, <<>>)
      BY <2>2
    <3>2. After(todo[1], session.digest) = UpdatePolicyDigest(todo[1], session.digest, <<>>)
      BY <2>1 DEF After
    <3> QED BY <1>2, <2>1, <2>2, <3>1, <3>2
  <2>3. CASE IF todo[1].cmd = "PolicySigned" THEN LeaveKey ELSE Throw
    BY <1>4, <1>14, <2>3
  <2> QED BY <1>11, <2>2, <2>3 DEF ExecuteAssertion
<1>12. CASE UseSession \/ PolicyRestart
  <2>1. exec' = [exec EXCEPT !.result = "none"]
    BY <1>12 DEF UseSession, PolicyRestart
  <2>2. exec'.result = "none"
    BY <1>0, <2>1
  <2> QED BY <1>3, <2>2
<1>13. CASE UNCHANGED vars
  <2>1. (Leads(todo, session.digest, GetPolicyDigest))' <=>
          Leads(todo', session'.digest, GetPolicyDigest')
    BY DEF Leads, Trace, After, UpdatePolicyDigest
  <2> QED BY <1>1, <1>13, <2>1 DEF vars, LeadsInv
<1> QED BY <1>5, <1>6, <1>7, <1>8, <1>9, <1>10, <1>11, <1>12, <1>13 DEF Next

(* The two computations of a policy agree: an execution that begins on a   *)
(* new or restarted session and returns SUCCESS has brought the session to *)
(* the digest that GetPolicyDigest computes, for every policy and every    *)
(* branch of it, whatever happened in earlier executions.                  *)
THEOREM SuccessIsSatisfaction ==
  ASSUME ApprovedOnly
  PROVE  Spec => []SuccessMeansSatisfied
<1>1. Init => LeadsInv
  BY DEF Init, LeadsInv
<1>2. IInv /\ LeadsInv => SuccessMeansSatisfied
  <2> SUFFICES ASSUME IInv, LeadsInv, exec.result = "SUCCESS", exec.fresh
               PROVE  session.digest = GetPolicyDigest
    BY DEF SuccessMeansSatisfied
  <2>1. todo = <<>>
    BY DEF IInv, TypeOK
  <2> QED BY <2>1, LeadsNowhere DEF LeadsInv
<1>3. IInv /\ LeadsInv /\ [Next]_vars => LeadsInv'
  BY NextLeads
<1> QED BY <1>1, <1>2, <1>3, Invariance, PTL DEF Spec

=============================================================================
