SPECIFICATION Spec
CONSTANTS
  Pcrs = {"pcr0", "pcr17"}
  Pcr0 = "pcr0"
  Resettable = {"pcr17"}
  Block <- BlockOf
  Blocks = 2
  Digests = {"d"}
  Localities = {"zero", "three"}
  Masks <- TwoMasks
  MaxEvents = 2
  MaxBoots = 2
  MaxNonces = 1
INVARIANT TypeOK
PROPERTIES AcceptedMeansTrue QuietPlatformValidates
CHECK_DEADLOCK FALSE
