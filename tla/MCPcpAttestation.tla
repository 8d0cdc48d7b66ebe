-------------------------- MODULE MCPcpAttestation --------------------------
EXTENDS PcpAttestation

(* PCR 0 and PCR 17 are in different blocks; PCR 17 starts at ff.          *)
BlockOf == [p \in Pcrs |-> IF p = "pcr0" THEN 1 ELSE 2]
TwoMasks == {{"pcr0", "pcr17"}, {"pcr17"}}
=============================================================================
