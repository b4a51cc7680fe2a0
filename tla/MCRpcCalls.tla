----------------------------- MODULE MCRpcCalls -----------------------------
(* Small instances of RpcCalls.                                            *)
EXTENDS RpcCalls
=============================================================================
