----------------------------- MODULE MCBtManage -----------------------------
(* Instances of BtManage for TLC. *)
EXTENDS BtManage

CONSTANTS p, q, r

MCPaired == <<p>>

\* What the records of a phone say that it offers.
SdpMusic == {{"A2DP", "AVRCP"}}
SdpAny   == {{"HFP"}, {"A2DP", "AVRCP"}, {"HFP", "A2DP", "AVRCP"}}
=============================================================================
