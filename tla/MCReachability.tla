---------------------------- MODULE MCReachability ----------------------------
(* Small instances of Reachability.  In SteadySpec reserve() goes through  *)
(* its candidates in one fixed order, as it does in the code while the     *)
(* HashMap of candidates does not change: relays are numbers, and it tries *)
(* the smallest eligible ones.                                             *)
EXTENDS Reachability

Tried ==
  {r \in Eligible(relay_candidates') : reservations'[r] # NoListener \/ relay_failed'[r] # 0}

Steady == \A r \in Tried, s \in Eligible(relay_candidates') : s < r => s \in Tried

SteadySpec ==
  /\ Init /\ [][Next /\ Steady]_vars
  /\ WF_vars(Tick /\ Steady)
  /\ \A l \in Listeners : WF_vars(Settles(l))
=============================================================================
