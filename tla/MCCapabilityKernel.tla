------------------------- MODULE MCCapabilityKernel -------------------------
(* Instances of CapabilityKernel for TLC: argument sets and batches.       *)
EXTENDS CapabilityKernel

(* One request that keeps everything, one for a capability that can be read *)
(* through and passed on but does not consent to receiving.                 *)
MCRightsArgs == {Rights, {"READ", "GRANT"}}

MCExpiryArgs == {0, Never}

Entry(op, r, off, len, b) ==
    [op |-> op, region |-> r, offset |-> off, len |-> len, byte |-> b]

(* Two overlapping writes whose order matters, a write past the end of the  *)
(* region between two good entries, and a read through a foreign slot.      *)
MCBatches == { <<Entry("MemWrite", 2, 0, 2, 1), Entry("MemWrite", 2, 1, 1, 0)>>,
               <<Entry("MemWrite", 2, 1, 2, 1), Entry("MemWrite", 2, 1, 1, 1)>>,
               <<Entry("MemRead", 0, 0, 1, 0)>> }
NoBatches == {}
=============================================================================
