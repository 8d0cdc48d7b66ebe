SPECIFICATION Spec
CONSTANTS
  Policies <- AllPolicies
  Failing = {"LoadExternal", "FlushContext", "VerifySignature", "PolicyPCR", "PolicySigned", "PolicyAuthValue"}
  MaxKeys = 2
  MaxExecutions = 3
INVARIANTS TypeOK SuccessMeansSatisfied SendsWhatIsWanted KeysAreFlushed
