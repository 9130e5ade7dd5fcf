---------------------------- MODULE MCBrokerSync ----------------------------
(* An order placed first and filled last, one placed after it and filled,  *)
(* and one placed while they are pulled, all on the first of two days.     *)
EXTENDS BrokerSync, TLC

FirstDay   == [o \in Orders |-> 0]
EarlyFirst == <<2, 1>>
=============================================================================
