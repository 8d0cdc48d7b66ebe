----------------------------- MODULE MCCppPolicy -----------------------------
EXTENDS CppPolicy

Node(kind, arg) == [kind |-> kind, arg |-> arg, branches |-> <<>>]
Or(branches) == [kind |-> "PolicyOR", arg |-> "", branches |-> branches]
Assertion == {Node("PolicyPCR", "p"), Node("PolicyPCR", "q"), Node("PolicyAuthValue", ""),
              Node("PolicyPassword", ""), Node("PolicySigned", "k"),
              Node("PolicyAuthorize", "approved")}
(* The TPM remembers the last of PolicyAuthValue and PolicyPassword only.  *)
Asks(chain) == {chain[i].kind : i \in DOMAIN chain} \cap {"PolicyAuthValue", "PolicyPassword"}
Chain(n) == {c \in SeqOf(Assertion, n) : c # <<>> /\ Cardinality(Asks(c)) <= 1}

(* Chains, and trees with one PolicyOR of two branches after at most one   *)
(* assertion.                                                              *)
Chains == {<<c>> : c \in Chain(3)}
Trees == {t \in {<<front \o <<Or(<<2, 3>>)>>, l, r>> :
                   front \in SeqOf(Assertion, 1), l \in Chain(2), r \in Chain(1)} :
            \A b \in {2, 3} : Cardinality(Asks(t[1]) \cup Asks(t[b])) <= 1}
(* A PolicyOR within a branch of another.                                  *)
Nested == << <<Node("PolicyPCR", "p"), Or(<<2, 3>>)>>,
            <<Node("PolicyPCR", "q")>>,
            <<Or(<<4, 5>>)>>,
            <<Node("PolicyAuthValue", "")>>,
            <<Node("PolicyPassword", "")>> >>
AllPolicies == Chains \cup Trees \cup {Nested}
=============================================================================
