---------------------------- MODULE MC_Bandwidth ----------------------------
(* Instances of RtBandwidth for TLC: values for its constants. *)
EXTENDS RtBandwidth

TwoCPUs == 1 .. 2
OneDomain == {"root"}
TwoDomains == {"root", "def"}
=============================================================================
