--------------------------- MODULE MCDltGateway ----------------------------
(* Instances of the event loop and the gateway: one passive node and two   *)
(* peers, or two nodes alone.                                              *)
EXTENDS DltGateway

MCMessages == <<[type |-> "BOTH", interval |-> 2], [type |-> "PERIODIC", interval |-> 3]>>
MCNoMessages == <<>>
=============================================================================
