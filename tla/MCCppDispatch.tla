---------------------------- MODULE MCCppDispatch ----------------------------
EXTENDS CppDispatch
CONSTANTS s1, s2, a0, a1, e1, e2

NoCrypt == [s \in HmacSessions |-> {}]
BothWays == [s \in HmacSessions |-> {"decrypt", "encrypt"}]
OneOrTwo == {<<s1>>, <<s1, s2>>, <<PW, s2>>}
OneList == {<<s1>>}
=============================================================================
