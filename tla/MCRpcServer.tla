---------------------------- MODULE MCRpcServer -----------------------------
(* RpcServer with a limit for each peer, counted in messages, and one for  *)
(* each address prefix, counted in bytes.                                  *)
EXTENDS RpcServer

Limit(scope, protocol, unit) ==
  [class |-> Unknown, scope |-> scope, protocol |-> protocol, unit |-> unit]

MCRuleIds == {Limit("peer", AnyProtocol, "messages"), Limit("prefix", "topics", "bytes")}

MCRates == {[amount |-> 1, burst |-> 2], [amount |-> 1, burst |-> 1]}

MCRequestInputs ==
  [group : Groups, peer : Peers, prefix : Prefixes \cup {Relayed}, protocol : Protocols,
   bytes : {2}]
=============================================================================
