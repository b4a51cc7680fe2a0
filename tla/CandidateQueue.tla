--------------------------- MODULE CandidateQueue ---------------------------
(***************************************************************************)
(* The order in which a call tries the nodes of a group: fn enqueue of     *)
(* src/src/node.rs.                                                        *)
(*                                                                         *)
(* Enqueue is one call of the function.  EnqueueAll is the loop over a     *)
(* provider report, whose peers come out of a HashSet in any order: the    *)
(* set of queues the loop can end in, in closed form.  Looped is the loop  *)
(* itself, which RpcCalls compares with the closed form.                   *)
(***************************************************************************)
EXTENDS Integers, Sequences, FiniteSets

(* The peers in the queue q.                                               *)
Queued(q) == {q[i] : i \in 1 .. Len(q)}

(* No peer is queued twice.                                                *)
Distinct(q) == \A i, j \in 1 .. Len(q) : q[i] = q[j] => i = j

(* Every order of the finite set S.                                        *)
Orderings(S) ==
  {q \in [1 .. Cardinality(S) -> S] :
     /\ \A i, j \in 1 .. Cardinality(S) : q[i] = q[j] => i = j
     /\ \A x \in S : \E i \in 1 .. Cardinality(S) : q[i] = x}

(* k is the number of peers ahead of the first penalized one.              *)
IsAhead(q, penalized, k) ==
  /\ \A i \in 1 .. k : q[i] \notin penalized
  /\ k < Len(q) => q[k + 1] \in penalized

\* mutant: an ordinary peer goes behind the penalized ones
EnqueueBehind(q, peer, good, penalized) ==
  IF peer = good /\ peer \notin penalized THEN <<peer>> \o q ELSE Append(q, peer)

(* A peer that was not seen before joins the queue: the group's last good  *)
(* node in front, a penalized node at the back, any other ahead of the     *)
(* first penalized one.                                                    *)
Enqueue(q, peer, good, penalized) ==
  IF peer = good /\ peer \notin penalized THEN <<peer>> \o q
  ELSE IF peer \in penalized THEN Append(q, peer)
  ELSE LET k == CHOOSE k \in 0 .. Len(q) : IsAhead(q, penalized, k)
       IN  SubSeq(q, 1, k) \o <<peer>> \o SubSeq(q, k + 1, Len(q))

(* The queues that enqueuing every peer of new, in any order, can make.    *)
EnqueueAll(q, new, good, penalized) ==
  {w.front \o SubSeq(q, 1, w.ahead) \o w.ordinary \o SubSeq(q, w.ahead + 1, Len(q)) \o w.back :
     w \in [front    : Orderings((new \cap {good}) \ penalized),
            ahead    : {k \in 0 .. Len(q) : IsAhead(q, penalized, k)},
            ordinary : Orderings(new \ (penalized \cup {good})),
            back     : Orderings(new \cap penalized)]}

(* enqueue() for the peers of a report in this order, one after the other. *)
Looped(q, order, good, penalized) ==
  LET loop[n \in 0 .. Len(order)] ==
        IF n = 0 THEN q ELSE Enqueue(loop[n - 1], order[n], good, penalized)
  IN  loop[Len(order)]
=============================================================================
