--------------------------- MODULE MCRpcExchange ---------------------------
(* Instances of RpcExchange for TLC: its constants are numbers. *)
EXTENDS RpcExchange, TLC
=============================================================================
