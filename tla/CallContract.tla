---------------------------- MODULE CallContract ----------------------------
(***************************************************************************)
(* What lp2p_rpc_request promises, without how: a call that was accepted   *)
(* asks one node after another, each at most once and only nodes it may    *)
(* ask, and ends with one outcome, which is a response only if a node was  *)
(* being asked.  RpcCalls implements it.                                   *)
(***************************************************************************)
CONSTANTS
  Calls,
  Peers,
  Local,    \* the node that makes the calls
  AnyNode   \* the target of a call that names no node

VARIABLE call  \* per call: its outcome, its target, whom it is asking, whom it tried

Outcome == {"response", "timeout", "refused", "unreachable"}

May(target) == IF target = AnyNode THEN Peers \ {Local} ELSE {target}

Init ==
  call = [c \in Calls |-> [outcome |-> "none", target |-> AnyNode, asking |-> {}, tried |-> {}]]

(* From old to new the call stops asking, or asks a node it did not try.   *)
Asks(old, new) ==
  \/ new.asking = {} /\ new.tried = old.tried
  \/ \E p \in May(new.target) \ old.tried :
       new.asking = {p} /\ new.tried = old.tried \cup {p}

Begins(old, new) ==
  /\ old.outcome = "none" /\ new.outcome = "pending"
  /\ Asks(old, new)

Proceeds(old, new) ==
  /\ old.outcome = "pending" /\ new.outcome = "pending"
  /\ new.target = old.target
  /\ Asks(old, new)

Ends(old, new) ==
  /\ old.outcome = "pending" /\ new.outcome \in Outcome
  /\ new.outcome = "response" => old.asking # {}
  /\ new.target = old.target
  /\ new.asking = {} /\ new.tried = old.tried

(* Several calls may take a step at once, as when one tick ends them.      *)
Next ==
  \A c \in Calls :
    \/ call'[c] = call[c]
    \/ Begins(call[c], call'[c])
    \/ Proceeds(call[c], call'[c])
    \/ Ends(call[c], call'[c])

Spec == Init /\ [][Next]_call
=============================================================================
