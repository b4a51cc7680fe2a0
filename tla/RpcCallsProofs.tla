--------------------------- MODULE RpcCallsProofs ---------------------------
(***************************************************************************)
(* The safety properties of RpcCalls for every number of calls, nodes and  *)
(* groups.                                                                 *)
(*                                                                         *)
(* The inductive invariant is a statement about one call at a time: its    *)
(* record, what it has outstanding, whom it asked and what it reported.    *)
(* Core is what holds when a handler reaches advance(); advance() adds     *)
(* that a live call has something outstanding (CallOK).                    *)
(*                                                                         *)
(* RpcCalls also implements CallContract.  Moves(c) is what a step may do  *)
(* to call c: its status goes forward, it keeps its target, it sends at    *)
(* most one request and only while it is live, and once over it reports    *)
(* nothing.  Every action makes every call move so (the handlers through   *)
(* advance()), and a move between two states of the invariant is a step of *)
(* the contract.                                                           *)
(*                                                                         *)
(* Liveness is beyond the prover, but not the measure it rests on: Left(c) *)
(* holds the answers call c may still get; no step adds to it once the     *)
(* call has begun and every answer takes from it (FailoverIsFinite).       *)
(*                                                                         *)
(* The last part proves the closed form of the candidate queue equal to    *)
(* the loop it stands for.                                                 *)
(***************************************************************************)
EXTENDS RpcCalls, FiniteSetTheorems, SequenceTheorems, WellFoundedInduction, TLAPS

Outcomes == Failures \cup {"response"}

(* What call, with requests out, resolutions res, a provider lookup        *)
(* running or not, the nodes it asked and the events it emitted, satisfies *)
(* whenever advance() is about to look at it.                              *)
Typed(call, out, res, lookup, ask, ev) ==
  /\ call \in Call
  /\ out \in SUBSET Peers
  /\ res \in SUBSET Peers
  /\ lookup \in BOOLEAN
  /\ ask \in [Peers -> Nat]
  /\ ev \in Seq(Outcomes)

Tracked(call, out, res, ask) ==
  /\ Distinct(call.candidates)
  /\ Queued(call.candidates) \subseteq call.seen
  /\ IF call.target = AnyNode THEN Local \notin call.seen ELSE call.seen \subseteq {call.target}
  /\ \A p \in Peers : ask[p] <= 1
  /\ \A p \in Peers : ask[p] > 0 => p \in call.seen /\ p \notin Queued(call.candidates)
  /\ \A p \in call.seen :
       ask[p] = 1 \/ p \in call.resolved \/ p \in Queued(call.candidates)
  /\ \A p, q \in out \cup res : p = q

Phase(call, out, res, lookup, ask, ev) ==
  /\ call.status = "new" =>
       out = {} /\ res = {} /\ ~lookup /\ Len(ev) = 0 /\ \A p \in Peers : ask[p] = 0
  /\ call.status = "live" =>
       /\ call.in_flight <=> out # {}
       /\ call.resolving <=> res # {}
       /\ call.lookup_running <=> lookup
       /\ ~(call.in_flight /\ call.resolving)
       /\ Len(ev) = 0
  /\ call.status = "over" =>
       /\ Len(ev) = 1
       /\ (~call.overdue /\ ev # <<"response">>) =>
            out = {} /\ res = {} /\ ~lookup /\ Len(call.candidates) = 0

Pinned(call, lookup) == call.target # AnyNode => ~lookup

Core(call, out, res, lookup, ask, ev) ==
  /\ Typed(call, out, res, lookup, ask, ev)
  /\ Pinned(call, lookup)
  /\ Tracked(call, out, res, ask)
  /\ Phase(call, out, res, lookup, ask, ev)

Pending(call) ==
  call.status = "live" => call.in_flight \/ call.resolving \/ call.lookup_running

CallOK(call, out, res, lookup, ask, ev) ==
  Core(call, out, res, lookup, ask, ev) /\ Pending(call)

CallInv(c) ==
  CallOK(calls[c], outbound[c], resolutions[c], c \in provider_lookups, asked[c], events[c])

IInv == TypeOK /\ \A c \in Calls : CallInv(c)

-----------------------------------------------------------------------------
(* Queues.                                                                 *)

(* The tail of a queue from position i.                                    *)
LEMMA TailQueue ==
  ASSUME NEW S, NEW q \in Seq(S), Distinct(q), NEW i \in 1 .. Len(q) + 1
  PROVE  LET t == SubSeq(q, i, Len(q)) IN
         /\ t \in Seq(S)
         /\ Len(t) = Len(q) - i + 1
         /\ Distinct(t)
         /\ \A j \in 1 .. Len(t) : t[j] = q[j + i - 1] /\ j + i - 1 \in 1 .. Len(q)
         /\ Queued(t) = {q[j] : j \in i .. Len(q)}
<1> DEFINE t == SubSeq(q, i, Len(q))
<1>1. Len(q) \in Nat /\ i \in Nat /\ i >= 1 /\ i <= Len(q) + 1
  OBVIOUS
<1>2. t \in Seq(S) /\ Len(t) = Len(q) - i + 1
  BY <1>1
<1>3. \A j \in 1 .. Len(t) : t[j] = q[j + i - 1] /\ j + i - 1 \in 1 .. Len(q)
  BY <1>1, <1>2
<1> HIDE DEF t
<1>4. Distinct(t)
  <2>1. ASSUME NEW j \in 1 .. Len(t), NEW k \in 1 .. Len(t), t[j] = t[k] PROVE j = k
    <3>1. q[j + i - 1] = q[k + i - 1]
      BY <1>3, <2>1
    <3>2. j + i - 1 = k + i - 1
      BY <1>3, <3>1 DEF Distinct
    <3> QED
      BY <1>1, <1>2, <3>2
  <2> QED
    BY <2>1 DEF Distinct
<1>5. Queued(t) = {q[j] : j \in i .. Len(q)}
  <2>1. ASSUME NEW x \in Queued(t) PROVE x \in {q[j] : j \in i .. Len(q)}
    <3>1. PICK j \in 1 .. Len(t) : x = t[j]
      BY DEF Queued
    <3>2. j + i - 1 \in i .. Len(q) /\ x = q[j + i - 1]
      BY <1>1, <1>2, <1>3, <3>1
    <3> QED
      BY <3>2
  <2>2. ASSUME NEW j \in i .. Len(q) PROVE q[j] \in Queued(t)
    <3>1. j - i + 1 \in 1 .. Len(t)
      BY <1>1, <1>2
    <3>2. (j - i + 1) + i - 1 = j
      BY <1>1
    <3>3. t[j - i + 1] = q[j]
      BY <1>3, <3>1, <3>2
    <3> QED
      BY <3>1, <3>3 DEF Queued
  <2> QED
    BY <2>1, <2>2
<1> QED
  BY <1>2, <1>3, <1>4, <1>5 DEF t

(* The head of a queue up to position k.                                   *)
LEMMA HeadQueue ==
  ASSUME NEW S, NEW q \in Seq(S), Distinct(q), NEW k \in 0 .. Len(q)
  PROVE  LET t == SubSeq(q, 1, k) IN
         /\ t \in Seq(S)
         /\ Distinct(t)
         /\ Queued(t) = {q[j] : j \in 1 .. k}
<1> DEFINE t == SubSeq(q, 1, k)
<1>1. Len(q) \in Nat /\ k \in Nat /\ k <= Len(q)
  OBVIOUS
<1>2. t \in Seq(S) /\ Len(t) = k
  BY <1>1
<1>3. \A j \in 1 .. k : t[j] = q[j] /\ j \in 1 .. Len(q)
  BY <1>1
<1> HIDE DEF t
<1>4. Distinct(t)
  BY <1>2, <1>3 DEF Distinct
<1>5. Queued(t) = {q[j] : j \in 1 .. k}
  BY <1>2, <1>3 DEF Queued
<1> QED
  BY <1>2, <1>4, <1>5 DEF t

(* Two queues without a common peer, one behind the other.                 *)
LEMMA ConcatQueue ==
  ASSUME NEW S, NEW s \in Seq(S), NEW t \in Seq(S), Distinct(s), Distinct(t),
         Queued(s) \cap Queued(t) = {}
  PROVE  /\ s \o t \in Seq(S)
         /\ Distinct(s \o t)
         /\ Queued(s \o t) = Queued(s) \cup Queued(t)
<1> DEFINE u == s \o t
<1>1. Len(s) \in Nat /\ Len(t) \in Nat
  OBVIOUS
<1>2. u \in Seq(S) /\ Len(u) = Len(s) + Len(t)
  OBVIOUS
<1>3. \A j \in 1 .. Len(s) : u[j] = s[j] /\ j \in 1 .. Len(u)
  BY <1>1, <1>2
<1>4. \A j \in 1 .. Len(t) : u[j + Len(s)] = t[j] /\ j + Len(s) \in 1 .. Len(u)
  BY <1>1, <1>2
<1> HIDE DEF u
<1>5. \A j \in 1 .. Len(u) :
        \/ j \in 1 .. Len(s) /\ u[j] = s[j]
        \/ j - Len(s) \in 1 .. Len(t) /\ u[j] = t[j - Len(s)]
  <2>1. SUFFICES ASSUME NEW j \in 1 .. Len(u), ~(j \in 1 .. Len(s))
                 PROVE  j - Len(s) \in 1 .. Len(t) /\ u[j] = t[j - Len(s)]
    BY <1>3
  <2>2. j - Len(s) \in 1 .. Len(t) /\ (j - Len(s)) + Len(s) = j
    BY <1>1, <1>2, <2>1
  <2> QED
    BY <1>4, <2>2
<1>6. Queued(u) = Queued(s) \cup Queued(t)
  <2>1. Queued(u) \subseteq Queued(s) \cup Queued(t)
    BY <1>5 DEF Queued
  <2>2. Queued(s) \subseteq Queued(u)
    BY <1>3 DEF Queued
  <2>3. Queued(t) \subseteq Queued(u)
    BY <1>4 DEF Queued
  <2> QED
    BY <2>1, <2>2, <2>3
<1>7. Distinct(u)
  <2>1. ASSUME NEW j \in 1 .. Len(u), NEW k \in 1 .. Len(u), u[j] = u[k] PROVE j = k
    <3>1. CASE j \in 1 .. Len(s) /\ u[j] = s[j] /\ k \in 1 .. Len(s) /\ u[k] = s[k]
      BY <2>1, <3>1 DEF Distinct
    <3>2. CASE /\ j - Len(s) \in 1 .. Len(t) /\ u[j] = t[j - Len(s)]
               /\ k - Len(s) \in 1 .. Len(t) /\ u[k] = t[k - Len(s)]
      <4>1. j - Len(s) = k - Len(s)
        BY <2>1, <3>2 DEF Distinct
      <4> QED
        BY <1>1, <1>2, <4>1
    <3>3. CASE j \in 1 .. Len(s) /\ u[j] = s[j] /\ k - Len(s) \in 1 .. Len(t)
               /\ u[k] = t[k - Len(s)]
      BY <2>1, <3>3 DEF Queued
    <3>4. CASE k \in 1 .. Len(s) /\ u[k] = s[k] /\ j - Len(s) \in 1 .. Len(t)
               /\ u[j] = t[j - Len(s)]
      BY <2>1, <3>4 DEF Queued
    <3> QED
      BY <1>5, <3>1, <3>2, <3>3, <3>4
  <2> QED
    BY <2>1 DEF Distinct
<1> QED
  BY <1>2, <1>6, <1>7 DEF u

(* An order of a finite set is a queue of exactly its members.             *)
LEMMA OrderQueue ==
  ASSUME NEW S, IsFiniteSet(S), NEW T, T \subseteq S, NEW q \in Orderings(T)
  PROVE  q \in Seq(S) /\ Distinct(q) /\ Queued(q) = T
<1>1. IsFiniteSet(T)
  BY FS_Subset
<1>2. Cardinality(T) \in Nat
  BY <1>1, FS_CardinalityType
<1> DEFINE n == Cardinality(T)
<1>3. /\ q \in [1 .. n -> T]
      /\ \A i, j \in 1 .. n : q[i] = q[j] => i = j
      /\ \A x \in T : \E i \in 1 .. n : q[i] = x
  BY DEF Orderings
<1>4. n \in Nat
  BY <1>2
<1> HIDE DEF n
<1>5. q \in Seq(T) /\ Len(q) = n
  BY <1>3, <1>4
<1>6. q \in Seq(S)
  BY <1>3, <1>4
<1>7. Distinct(q)
  BY <1>3, <1>5 DEF Distinct
<1>8. Queued(q) = T
  BY <1>3, <1>5 DEF Queued
<1> QED
  BY <1>6, <1>7, <1>8

(* A provider report adds exactly its new peers to a queue.                *)
LEMMA EnqueueAllQueue ==
  ASSUME NEW S, IsFiniteSet(S), NEW q \in Seq(S), Distinct(q),
         NEW new, new \subseteq S, new \cap Queued(q) = {},
         NEW good, NEW penalized,
         NEW r \in EnqueueAll(q, new, good, penalized)
  PROVE  r \in Seq(S) /\ Distinct(r) /\ Queued(r) = Queued(q) \cup new
<1> DEFINE F == (new \cap {good}) \ penalized
           O == new \ (penalized \cup {good})
           B == new \cap penalized
<1>0. PICK w \in [front    : Orderings(F),
                  ahead    : {n \in 0 .. Len(q) : IsAhead(q, penalized, n)},
                  ordinary : Orderings(O),
                  back     : Orderings(B)] :
        r = w.front \o SubSeq(q, 1, w.ahead) \o w.ordinary \o SubSeq(q, w.ahead + 1, Len(q))
              \o w.back
  BY DEF EnqueueAll
<1> DEFINE front == w.front
           k == w.ahead
           ordinary == w.ordinary
           back == w.back
<1>1. /\ front \in Orderings(F) /\ k \in 0 .. Len(q) /\ ordinary \in Orderings(O)
      /\ back \in Orderings(B)
      /\ r = front \o SubSeq(q, 1, k) \o ordinary \o SubSeq(q, k + 1, Len(q)) \o back
  BY <1>0
<1> HIDE DEF front, k, ordinary, back
<1>2. k \in 0 .. Len(q) /\ Len(q) \in Nat
  BY <1>1
<1>3. F \subseteq new /\ O \subseteq new /\ B \subseteq new /\ F \cup O \cup B = new
      /\ F \cap O = {} /\ F \cap B = {} /\ O \cap B = {}
      /\ F \subseteq S /\ O \subseteq S /\ B \subseteq S
  OBVIOUS
<1> HIDE DEF F, O, B
<1>4. front \in Seq(S) /\ Distinct(front) /\ Queued(front) = F
  BY <1>1, <1>3, OrderQueue
<1>5. ordinary \in Seq(S) /\ Distinct(ordinary) /\ Queued(ordinary) = O
  BY <1>1, <1>3, OrderQueue
<1>6. back \in Seq(S) /\ Distinct(back) /\ Queued(back) = B
  BY <1>1, <1>3, OrderQueue
<1> DEFINE head == SubSeq(q, 1, k)
           rest == SubSeq(q, k + 1, Len(q))
<1>7. head \in Seq(S) /\ Distinct(head) /\ Queued(head) = {q[j] : j \in 1 .. k}
  BY <1>2, HeadQueue
<1>8. rest \in Seq(S) /\ Distinct(rest) /\ Queued(rest) = {q[j] : j \in k + 1 .. Len(q)}
  <2>1. k + 1 \in 1 .. Len(q) + 1
    BY <1>2
  <2> QED
    BY <2>1, TailQueue
<1>9. r = front \o head \o ordinary \o rest \o back
  BY <1>1
<1> HIDE DEF head, rest
<1>10. Queued(head) \cap Queued(rest) = {}
  <2>1. ASSUME NEW i \in 1 .. k, NEW j \in k + 1 .. Len(q), q[i] = q[j] PROVE FALSE
    <3>1. i \in 1 .. Len(q) /\ j \in 1 .. Len(q) /\ i # j
      BY <1>2
    <3> QED
      BY <2>1, <3>1 DEF Distinct
  <2> QED
    BY <1>7, <1>8, <2>1
<1>11. Queued(head) \cup Queued(rest) = Queued(q)
  <2>1. \A i \in 1 .. Len(q) : i \in 1 .. k \/ i \in k + 1 .. Len(q)
    BY <1>2
  <2>2. \A i \in 1 .. k : i \in 1 .. Len(q)
    BY <1>2
  <2>3. \A i \in k + 1 .. Len(q) : i \in 1 .. Len(q)
    BY <1>2
  <2> QED
    BY <1>7, <1>8, <2>1, <2>2, <2>3 DEF Queued
<1>12. Queued(head) \cap new = {} /\ Queued(rest) \cap new = {}
  BY <1>11
<1> DEFINE r1 == front \o head
           r2 == r1 \o ordinary
           r3 == r2 \o rest
<1>13. r1 \in Seq(S) /\ Distinct(r1) /\ Queued(r1) = F \cup Queued(head)
  <2>1. Queued(front) \cap Queued(head) = {}
    BY <1>3, <1>4, <1>12
  <2> QED
    BY <1>4, <1>7, <2>1, ConcatQueue
<1> HIDE DEF r1
<1>14. r2 \in Seq(S) /\ Distinct(r2) /\ Queued(r2) = F \cup Queued(head) \cup O
  <2>1. Queued(r1) \cap Queued(ordinary) = {}
    BY <1>3, <1>5, <1>12, <1>13
  <2>2. /\ r1 \o ordinary \in Seq(S) /\ Distinct(r1 \o ordinary)
        /\ Queued(r1 \o ordinary) = Queued(r1) \cup Queued(ordinary)
    BY <1>5, <1>13, <2>1, ConcatQueue
  <2> QED
    BY <1>5, <1>13, <2>2
<1> HIDE DEF r2
<1>15. r3 \in Seq(S) /\ Distinct(r3) /\ Queued(r3) = F \cup Queued(q) \cup O
  <2>1. Queued(r2) \cap Queued(rest) = {}
    BY <1>3, <1>10, <1>12, <1>14
  <2>2. /\ r2 \o rest \in Seq(S) /\ Distinct(r2 \o rest)
        /\ Queued(r2 \o rest) = Queued(r2) \cup Queued(rest)
    BY <1>8, <1>14, <2>1, ConcatQueue
  <2> QED
    BY <1>11, <1>14, <2>2
<1> HIDE DEF r3
<1>16. /\ r3 \o back \in Seq(S) /\ Distinct(r3 \o back)
       /\ Queued(r3 \o back) = Queued(r3) \cup Queued(back)
  <2>1. Queued(r3) \cap Queued(back) = {}
    BY <1>3, <1>6, <1>15
  <2> QED
    BY <1>6, <1>15, <2>1, ConcatQueue
<1>17. r = r3 \o back
  BY <1>9 DEF r1, r2, r3
<1>18. Queued(r3) \cup Queued(back) = Queued(q) \cup new
  BY <1>3, <1>6, <1>15
<1> QED
  BY <1>16, <1>17, <1>18

-----------------------------------------------------------------------------
(* advance().                                                              *)

(* Every candidate ahead of the one advance() stops at is spent: its       *)
(* addresses were looked up already.                                       *)
LEMMA AheadResolved ==
  ASSUME NEW call \in Call, NEW d, NEW i \in 1 .. Len(call.candidates), FirstStop(call, d, i)
  PROVE  \A j \in 1 .. Len(call.candidates) : j < i => call.candidates[j] \in call.resolved
<1>1. Len(call.candidates) \in Nat
  BY DEF Call
<1>2. \A j \in 1 .. Len(call.candidates) : Stops(call, d, j) => i <= j
  BY DEF FirstStop
<1>3. \A j \in 1 .. Len(call.candidates) : j < i => ~(i <= j)
  BY <1>1
<1> QED
  BY <1>2, <1>3 DEF Stops

(* Sending the request to the candidate advance() stops at.                *)
LEMMA AskOK ==
  ASSUME NEW call, NEW out, NEW res, NEW lookup, NEW ask, NEW ev, NEW d,
         Core(call, out, res, lookup, ask, ev),
         call.status = "live", ~call.in_flight, ~call.resolving,
         NEW i \in 1 .. Len(call.candidates), FirstStop(call, d, i)
  PROVE  CallOK([call EXCEPT !.candidates = SubSeq(call.candidates, i + 1, Len(call.candidates)),
                             !.in_flight = TRUE],
                out \cup {call.candidates[i]}, res, lookup,
                [ask EXCEPT ![call.candidates[i]] = ask[call.candidates[i]] + 1], ev)
<1> DEFINE q    == call.candidates
           peer == q[i]
           t    == SubSeq(q, i + 1, Len(q))
           new  == [call EXCEPT !.candidates = t, !.in_flight = TRUE]
           a    == [ask EXCEPT ![peer] = ask[peer] + 1]
<1>1. call \in Call /\ q \in Seq(Peers) /\ Distinct(q) /\ Len(q) \in Nat
  BY DEF Core, Typed, Tracked, Call
<1>2. i + 1 \in 1 .. Len(q) + 1
  BY <1>1
<1>3. /\ t \in Seq(Peers) /\ Distinct(t) /\ Queued(t) = {q[j] : j \in i + 1 .. Len(q)}
  BY <1>1, <1>2, TailQueue
<1>4. peer \in Peers /\ peer \in Queued(q)
  BY <1>1 DEF Queued
<1>5. \A j \in 1 .. Len(q) : j < i => q[j] \in call.resolved
  BY <1>1, AheadResolved
<1>6. Queued(t) \subseteq Queued(q) /\ peer \notin Queued(t)
  <2>1. \A j \in i + 1 .. Len(q) : j \in 1 .. Len(q) /\ j # i
    BY <1>1
  <2> QED
    BY <1>1, <1>3, <2>1 DEF Queued, Distinct
<1>7. \A p \in Queued(q) : p = peer \/ p \in call.resolved \/ p \in Queued(t)
  <2>1. ASSUME NEW j \in 1 .. Len(q) PROVE j = i \/ j < i \/ j \in i + 1 .. Len(q)
    BY <1>1
  <2> QED
    BY <1>3, <1>5, <2>1 DEF Queued
<1> HIDE DEF t
<1>8. /\ new \in Call
      /\ new.candidates = t /\ new.in_flight = TRUE /\ new.status = "live"
      /\ new.seen = call.seen /\ new.resolved = call.resolved /\ new.target = call.target
      /\ new.resolving = call.resolving /\ new.lookup_running = call.lookup_running
      /\ new.overdue = call.overdue
  BY <1>1, <1>3 DEF Call
<1> HIDE DEF new
<1>9. out = {} /\ res = {}
  BY DEF Core, Phase
<1>10. ask \in [Peers -> Nat]
  BY DEF Core, Typed
<1>11. ask[peer] = 0
  <2>1. ~(ask[peer] > 0)
    BY <1>4 DEF Core, Tracked
  <2> QED
    BY <1>4, <1>10, <2>1
<1>12. a \in [Peers -> Nat] /\ a[peer] = 1 /\ \A p \in Peers : p # peer => a[p] = ask[p]
  BY <1>4, <1>10, <1>11
<1> HIDE DEF a
<1>13. Typed(new, out \cup {peer}, res, lookup, a, ev)
  BY <1>4, <1>8, <1>12 DEF Core, Typed
<1>14. Tracked(new, out \cup {peer}, res, a)
  <2>1. Queued(new.candidates) \subseteq new.seen
    BY <1>6, <1>8 DEF Core, Tracked
  <2>2. IF new.target = AnyNode THEN Local \notin new.seen ELSE new.seen \subseteq {new.target}
    BY <1>8 DEF Core, Tracked
  <2>3. \A p \in Peers : a[p] <= 1
    BY <1>12 DEF Core, Tracked
  <2>4. \A p \in Peers : a[p] > 0 => p \in new.seen /\ p \notin Queued(new.candidates)
    BY <1>4, <1>6, <1>8, <1>12 DEF Core, Tracked
  <2>5. \A p \in new.seen :
          a[p] = 1 \/ p \in new.resolved \/ p \in Queued(new.candidates)
    <3>1. call.seen \subseteq Peers
      BY <1>1 DEF Call
    <3> QED
      BY <1>7, <1>8, <1>12, <3>1 DEF Core, Tracked
  <2>6. \A p1, p2 \in (out \cup {peer}) \cup res : p1 = p2
    BY <1>9
  <2> QED
    BY <1>3, <1>8, <2>1, <2>2, <2>3, <2>4, <2>5, <2>6 DEF Tracked
<1>15. Phase(new, out \cup {peer}, res, lookup, a, ev)
  <2>1. new.status = "live" /\ "live" # "new" /\ "live" # "over"
    BY <1>8
  <2>2. new.lookup_running <=> lookup
    BY <1>8 DEF Core, Phase
  <2>3. Len(ev) = 0
    BY DEF Core, Phase
  <2> QED
    BY <1>8, <1>9, <2>1, <2>2, <2>3 DEF Phase
<1>16. Pending(new)
  BY <1>8 DEF Pending
<1>17. Pinned(new, lookup)
  BY <1>8 DEF Core, Pinned
<1> QED
  BY <1>13, <1>14, <1>15, <1>16, <1>17 DEF CallOK, Core, new, a, t

(* Looking up the addresses of the candidate advance() stops at.           *)
LEMMA ResolveOK ==
  ASSUME NEW call, NEW out, NEW res, NEW lookup, NEW ask, NEW ev, NEW d,
         Core(call, out, res, lookup, ask, ev),
         call.status = "live", ~call.in_flight, ~call.resolving,
         NEW i \in 1 .. Len(call.candidates), FirstStop(call, d, i)
  PROVE  CallOK([call EXCEPT !.candidates = SubSeq(call.candidates, i, Len(call.candidates)),
                             !.resolving = TRUE,
                             !.resolved = call.resolved \cup {call.candidates[i]}],
                out, res \cup {call.candidates[i]}, lookup, ask, ev)
<1> DEFINE q    == call.candidates
           peer == q[i]
           t    == SubSeq(q, i, Len(q))
           new  == [call EXCEPT !.candidates = t, !.resolving = TRUE,
                                !.resolved = call.resolved \cup {peer}]
<1>1. call \in Call /\ q \in Seq(Peers) /\ Distinct(q) /\ Len(q) \in Nat
      /\ call.resolved \subseteq Peers
  BY DEF Core, Typed, Tracked, Call
<1>2. i \in 1 .. Len(q) + 1
  BY <1>1
<1>3. /\ t \in Seq(Peers) /\ Distinct(t) /\ Queued(t) = {q[j] : j \in i .. Len(q)}
  BY <1>1, <1>2, TailQueue
<1>4. peer \in Peers
  BY <1>1
<1>5. \A j \in 1 .. Len(q) : j < i => q[j] \in call.resolved
  BY <1>1, AheadResolved
<1>6. Queued(t) \subseteq Queued(q)
  <2>1. \A j \in i .. Len(q) : j \in 1 .. Len(q)
    BY <1>1
  <2> QED
    BY <1>3, <2>1 DEF Queued
<1>7. \A p \in Queued(q) : p \in call.resolved \/ p \in Queued(t)
  <2>1. ASSUME NEW j \in 1 .. Len(q) PROVE j < i \/ j \in i .. Len(q)
    BY <1>1
  <2> QED
    BY <1>3, <1>5, <2>1 DEF Queued
<1> HIDE DEF t
<1>8. /\ new \in Call
      /\ new.candidates = t /\ new.resolving = TRUE /\ new.status = "live"
      /\ new.seen = call.seen /\ new.resolved = call.resolved \cup {peer}
      /\ new.target = call.target /\ new.in_flight = call.in_flight
      /\ new.lookup_running = call.lookup_running /\ new.overdue = call.overdue
  BY <1>1, <1>3, <1>4 DEF Call
<1> HIDE DEF new
<1>9. out = {} /\ res = {}
  BY DEF Core, Phase
<1>10. Typed(new, out, res \cup {peer}, lookup, ask, ev)
  BY <1>4, <1>8 DEF Core, Typed
<1>11. Tracked(new, out, res \cup {peer}, ask)
  <2>1. Queued(new.candidates) \subseteq new.seen
    BY <1>6, <1>8 DEF Core, Tracked
  <2>2. IF new.target = AnyNode THEN Local \notin new.seen ELSE new.seen \subseteq {new.target}
    BY <1>8 DEF Core, Tracked
  <2>3. \A p \in Peers : ask[p] <= 1
    BY DEF Core, Tracked
  <2>4. \A p \in Peers : ask[p] > 0 => p \in new.seen /\ p \notin Queued(new.candidates)
    BY <1>6, <1>8 DEF Core, Tracked
  <2>5. \A p \in new.seen :
          ask[p] = 1 \/ p \in new.resolved \/ p \in Queued(new.candidates)
    BY <1>7, <1>8 DEF Core, Tracked
  <2>6. \A p1, p2 \in out \cup (res \cup {peer}) : p1 = p2
    BY <1>9
  <2> QED
    BY <1>3, <1>8, <2>1, <2>2, <2>3, <2>4, <2>5, <2>6 DEF Tracked
<1>12. Phase(new, out, res \cup {peer}, lookup, ask, ev)
  <2>1. new.lookup_running <=> lookup
    BY <1>8 DEF Core, Phase
  <2>2. Len(ev) = 0
    BY DEF Core, Phase
  <2> QED
    BY <1>8, <1>9, <2>1, <2>2 DEF Phase
<1>13. Pending(new)
  BY <1>8 DEF Pending
<1>14. Pinned(new, lookup)
  BY <1>8 DEF Core, Pinned
<1> QED
  BY <1>10, <1>11, <1>12, <1>13, <1>14 DEF CallOK, Core, new, t

(* With every candidate spent the queue may be emptied: nobody is lost.    *)
LEMMA SpentOK ==
  ASSUME NEW call, NEW out, NEW res, NEW lookup, NEW ask, NEW ev, NEW d, NEW new,
         Core(call, out, res, lookup, ask, ev),
         \A i \in 1 .. Len(call.candidates) : ~Stops(call, d, i),
         new.candidates = <<>>, new.seen = call.seen, new.resolved = call.resolved,
         new.target = call.target
  PROVE  Tracked(new, out, res, ask)
<1>1. call \in Call /\ call.candidates \in Seq(Peers)
  BY DEF Core, Typed, Call
<1>2. Queued(call.candidates) \subseteq call.resolved
  BY DEF Stops, Queued
<1>3. Len(new.candidates) = 0 /\ Queued(new.candidates) = {} /\ Distinct(new.candidates)
  BY DEF Queued, Distinct
<1>4. \A p \in new.seen : ask[p] = 1 \/ p \in new.resolved \/ p \in Queued(new.candidates)
  BY <1>2 DEF Core, Tracked
<1>5. /\ IF new.target = AnyNode THEN Local \notin new.seen ELSE new.seen \subseteq {new.target}
      /\ \A p \in Peers : ask[p] <= 1
      /\ \A p1, p2 \in out \cup res : p1 = p2
  BY DEF Core, Tracked
<1>6. \A p \in Peers : ask[p] > 0 => p \in new.seen
  BY DEF Core, Tracked
<1> QED
  BY <1>3, <1>4, <1>5, <1>6 DEF Tracked

(* The call waits for its provider lookup.                                 *)
LEMMA WaitOK ==
  ASSUME NEW call, NEW out, NEW res, NEW lookup, NEW ask, NEW ev, NEW d,
         Core(call, out, res, lookup, ask, ev),
         call.status = "live", ~call.in_flight, ~call.resolving,
         \A i \in 1 .. Len(call.candidates) : ~Stops(call, d, i),
         call.lookup_running
  PROVE  CallOK([call EXCEPT !.candidates = <<>>], out, res, lookup, ask, ev)
<1> DEFINE none == <<>>
           new  == [call EXCEPT !.candidates = none]
<1>1. call \in Call /\ none \in Seq(Peers)
  BY DEF Core, Typed
<1> HIDE DEF none
<1>2. /\ new \in Call
      /\ new.candidates = none /\ new.status = "live" /\ new.seen = call.seen
      /\ new.resolved = call.resolved /\ new.target = call.target
      /\ new.in_flight = call.in_flight /\ new.resolving = call.resolving
      /\ new.lookup_running = call.lookup_running
  BY <1>1 DEF Call
<1> HIDE DEF new
<1>3. Tracked(new, out, res, ask)
  BY <1>2, SpentOK DEF none
<1>4. Typed(new, out, res, lookup, ask, ev)
  BY <1>2 DEF Core, Typed
<1>5. Phase(new, out, res, lookup, ask, ev)
  BY <1>2 DEF Core, Phase
<1>6. Pending(new)
  BY <1>2 DEF Pending
<1>7. Pinned(new, lookup)
  BY <1>2 DEF Core, Pinned
<1> QED
  BY <1>3, <1>4, <1>5, <1>6, <1>7 DEF CallOK, Core, new, none

(* The call fails with its last failure.                                   *)
LEMMA FailOK ==
  ASSUME NEW call, NEW out, NEW res, NEW lookup, NEW ask, NEW ev, NEW d,
         Core(call, out, res, lookup, ask, ev),
         call.status = "live", ~call.in_flight, ~call.resolving,
         \A i \in 1 .. Len(call.candidates) : ~Stops(call, d, i),
         ~call.lookup_running
  PROVE  CallOK([call EXCEPT !.candidates = <<>>, !.status = "over"], out, res, lookup, ask,
                Append(ev, call.last_failure))
<1> DEFINE none == <<>>
           new  == [call EXCEPT !.candidates = none, !.status = "over"]
           e    == Append(ev, call.last_failure)
<1>1. call \in Call /\ call.last_failure \in Outcomes /\ ev \in Seq(Outcomes) /\ Len(ev) = 0
  BY DEF Core, Typed, Call, Outcomes, Phase
<1>0. none \in Seq(Peers)
  OBVIOUS
<1> HIDE DEF none
<1>2. /\ new \in Call
      /\ new.candidates = none /\ new.status = "over" /\ new.seen = call.seen
      /\ new.resolved = call.resolved /\ new.target = call.target
  BY <1>0, <1>1 DEF Call
<1> HIDE DEF new
<1>3. Tracked(new, out, res, ask)
  BY <1>2, SpentOK DEF none
<1>4. e \in Seq(Outcomes) /\ Len(e) = 1
  BY <1>1
<1> HIDE DEF e
<1>5. Typed(new, out, res, lookup, ask, e)
  BY <1>2, <1>4 DEF Core, Typed
<1>6. out = {} /\ res = {} /\ ~lookup
  BY DEF Core, Phase
<1>7. Phase(new, out, res, lookup, ask, e)
  BY <1>2, <1>4, <1>6 DEF Phase, none
<1>8. Pending(new)
  BY <1>2 DEF Pending
<1>9. Pinned(new, lookup)
  BY <1>2 DEF Core, Pinned
<1> QED
  BY <1>3, <1>5, <1>7, <1>8, <1>9 DEF CallOK, Core, new, e, none

(* advance() turns a call that is Core into one that is CallOK and touches *)
(* no other call.                                                          *)
LEMMA AdvanceOK ==
  ASSUME TypeOK, NEW c \in Calls, NEW call, NEW d, NEW out, NEW res, NEW lookup,
         Core(call, out, res, lookup, asked[c], events[c]),
         Advance(c, call, d, out, res)
  PROVE  /\ CallOK(calls'[c], outbound'[c], resolutions'[c], lookup, asked'[c], events'[c])
         /\ \A b \in Calls \ {c} :
              /\ calls'[b] = calls[b] /\ outbound'[b] = outbound[b]
              /\ resolutions'[b] = resolutions[b]
              /\ asked'[b] = asked[b] /\ events'[b] = events[b]
         /\ calls' \in [Calls -> Call] /\ outbound' \in [Calls -> SUBSET Peers]
         /\ resolutions' \in [Calls -> SUBSET Peers]
         /\ asked' \in [Calls -> [Peers -> Nat]] /\ events' \in [Calls -> Seq(Outcomes)]
<1>t. /\ calls \in [Calls -> Call] /\ outbound \in [Calls -> SUBSET Peers]
      /\ resolutions \in [Calls -> SUBSET Peers]
      /\ asked \in [Calls -> [Peers -> Nat]] /\ events \in [Calls -> Seq(Outcomes)]
  BY DEF TypeOK, Outcomes
<1>1. \E k, o, r, a, e :
        /\ Store(c, k, o, r)
        /\ asked' = [asked EXCEPT ![c] = a] /\ events' = [events EXCEPT ![c] = e]
        /\ CallOK(k, o, r, lookup, a, e)
  <2>1. CASE call.status # "live" \/ call.in_flight \/ call.resolving
    <3>1. Store(c, call, out, res) /\ asked' = asked /\ events' = events
      BY <2>1, Zenon DEF Advance
    <3>2. asked' = [asked EXCEPT ![c] = asked[c]] /\ events' = [events EXCEPT ![c] = events[c]]
      BY <1>t, <3>1
    <3>3. CallOK(call, out, res, lookup, asked[c], events[c])
      BY <2>1 DEF CallOK, Pending
    <3> QED
      BY <3>1, <3>2, <3>3
  <2>2. CASE ~(call.status # "live" \/ call.in_flight \/ call.resolving)
    <3>0. call.status = "live" /\ ~call.in_flight /\ ~call.resolving
      BY <2>2
    <3>1. CASE Ask(c, call, d, out, res)
      <4>1. PICK i \in 1 .. Len(call.candidates) :
              /\ FirstStop(call, d, i)
              /\ Store(c, [call EXCEPT !.candidates = SubSeq(call.candidates, i + 1, Len(call.candidates)),
                                       !.in_flight = TRUE],
                       out \cup {call.candidates[i]}, res)
              /\ asked' = [asked EXCEPT ![c][call.candidates[i]] = @ + 1]
              /\ events' = events
        BY <3>1, Zenon DEF Ask
      <4> DEFINE a == [asked[c] EXCEPT ![call.candidates[i]] = asked[c][call.candidates[i]] + 1]
      <4>2. asked' = [asked EXCEPT ![c] = a] /\ events' = [events EXCEPT ![c] = events[c]]
        BY <1>t, <4>1
      <4>3. CallOK([call EXCEPT !.candidates = SubSeq(call.candidates, i + 1, Len(call.candidates)),
                                !.in_flight = TRUE],
                   out \cup {call.candidates[i]}, res, lookup, a, events[c])
        BY <3>0, <4>1, AskOK
      <4> QED
        BY <4>1, <4>2, <4>3
    <3>2. CASE Resolve(c, call, d, out, res)
      <4>1. PICK i \in 1 .. Len(call.candidates) :
              /\ FirstStop(call, d, i)
              /\ Store(c, [call EXCEPT !.candidates = SubSeq(call.candidates, i, Len(call.candidates)),
                                       !.resolving = TRUE,
                                       !.resolved = call.resolved \cup {call.candidates[i]}],
                       out, res \cup {call.candidates[i]})
              /\ asked' = asked
              /\ events' = events
        BY <3>2, Zenon DEF Resolve
      <4>2. asked' = [asked EXCEPT ![c] = asked[c]] /\ events' = [events EXCEPT ![c] = events[c]]
        BY <1>t, <4>1
      <4>3. CallOK([call EXCEPT !.candidates = SubSeq(call.candidates, i, Len(call.candidates)),
                                !.resolving = TRUE,
                                !.resolved = call.resolved \cup {call.candidates[i]}],
                   out, res \cup {call.candidates[i]}, lookup, asked[c], events[c])
        BY <3>0, <4>1, ResolveOK
      <4> QED
        BY <4>1, <4>2, <4>3
    <3>3. CASE /\ \A i \in 1 .. Len(call.candidates) : ~Stops(call, d, i)
               /\ GiveUp(c, call, out, res)
      <4>1. CASE call.lookup_running
        <5>1. /\ Store(c, [call EXCEPT !.candidates = <<>>], out, res)
              /\ asked' = asked /\ events' = events
          BY <3>3, <4>1, Zenon DEF GiveUp
        <5>2. asked' = [asked EXCEPT ![c] = asked[c]] /\ events' = [events EXCEPT ![c] = events[c]]
          BY <1>t, <5>1
        <5>3. CallOK([call EXCEPT !.candidates = <<>>], out, res, lookup, asked[c], events[c])
          BY <3>0, <3>3, <4>1, WaitOK
        <5> QED
          BY <5>1, <5>2, <5>3
      <4>2. CASE ~call.lookup_running
        <5>1. /\ Store(c, [call EXCEPT !.candidates = <<>>, !.status = "over"], out, res)
              /\ asked' = asked
              /\ events' = [events EXCEPT ![c] = Append(events[c], call.last_failure)]
          BY <3>3, <4>2 DEF GiveUp, Emit
        <5>2. asked' = [asked EXCEPT ![c] = asked[c]]
          BY <1>t, <5>1
        <5>3. CallOK([call EXCEPT !.candidates = <<>>, !.status = "over"], out, res, lookup,
                     asked[c], Append(events[c], call.last_failure))
          BY <3>0, <3>3, <4>2, FailOK
        <5> QED
          BY <5>1, <5>2, <5>3
      <4> QED
        BY <4>1, <4>2
    <3> QED
      BY <2>2, <3>1, <3>2, <3>3, Zenon DEF Advance
  <2> QED
    BY <2>1, <2>2
<1>2. PICK k, o, r, a, e :
        /\ Store(c, k, o, r)
        /\ asked' = [asked EXCEPT ![c] = a] /\ events' = [events EXCEPT ![c] = e]
        /\ CallOK(k, o, r, lookup, a, e)
  BY <1>1
<1>3. /\ calls' = [calls EXCEPT ![c] = k] /\ outbound' = [outbound EXCEPT ![c] = o]
      /\ resolutions' = [resolutions EXCEPT ![c] = r]
  BY <1>2 DEF Store
<1>4. /\ k \in Call /\ o \in SUBSET Peers /\ r \in SUBSET Peers /\ a \in [Peers -> Nat]
      /\ e \in Seq(Outcomes)
  BY <1>2 DEF CallOK, Core, Typed
<1>5. /\ calls'[c] = k /\ outbound'[c] = o /\ resolutions'[c] = r /\ asked'[c] = a
      /\ events'[c] = e
  BY <1>t, <1>2, <1>3
<1>6. \A b \in Calls \ {c} :
        /\ calls'[b] = calls[b] /\ outbound'[b] = outbound[b]
        /\ resolutions'[b] = resolutions[b]
        /\ asked'[b] = asked[b] /\ events'[b] = events[b]
  BY <1>t, <1>2, <1>3
<1>7. /\ calls' \in [Calls -> Call] /\ outbound' \in [Calls -> SUBSET Peers]
      /\ resolutions' \in [Calls -> SUBSET Peers]
      /\ asked' \in [Calls -> [Peers -> Nat]] /\ events' \in [Calls -> Seq(Outcomes)]
  BY <1>t, <1>2, <1>3, <1>4
<1> QED
  BY <1>2, <1>5, <1>6, <1>7

-----------------------------------------------------------------------------
(* The handlers.                                                           *)

(* A handler that ends in advance() for call c keeps the invariant if it   *)
(* hands advance() a call that is Core.                                    *)
LEMMA HandlerOK ==
  ASSUME IInv, NEW c \in Calls, NEW call, NEW d, NEW out, NEW res,
         Core(call, out, res, c \in provider_lookups', asked[c], events[c]),
         Advance(c, call, d, out, res),
         provider_lookups' \in SUBSET Calls,
         \A b \in Calls \ {c} : b \in provider_lookups' <=> b \in provider_lookups,
         last_success' \in [Groups -> Peers \cup {Nobody}],
         failed' \in [Peers -> {"none", "fresh", "stale"}],
         dialable' \in SUBSET Peers
  PROVE  IInv'
<1>1. TypeOK
  BY DEF IInv
<1>2. /\ CallOK(calls'[c], outbound'[c], resolutions'[c], c \in provider_lookups', asked'[c],
                events'[c])
      /\ \A b \in Calls \ {c} :
           /\ calls'[b] = calls[b] /\ outbound'[b] = outbound[b]
           /\ resolutions'[b] = resolutions[b]
           /\ asked'[b] = asked[b] /\ events'[b] = events[b]
      /\ calls' \in [Calls -> Call] /\ outbound' \in [Calls -> SUBSET Peers]
      /\ resolutions' \in [Calls -> SUBSET Peers]
      /\ asked' \in [Calls -> [Peers -> Nat]] /\ events' \in [Calls -> Seq(Outcomes)]
  BY <1>1, AdvanceOK
<1>3. TypeOK'
  BY <1>2 DEF TypeOK, Outcomes
<1>4. CallInv(c)'
  BY <1>2 DEF CallInv
<1>5. ASSUME NEW b \in Calls \ {c} PROVE CallInv(b)'
  <2>1. CallInv(b)
    BY DEF IInv
  <2>2. (b \in provider_lookups') = (b \in provider_lookups)
    OBVIOUS
  <2> QED
    BY <1>2, <2>1, <2>2 DEF CallInv
<1> QED
  BY <1>3, <1>4, <1>5 DEF IInv

(* Answers that arrive for a call that is over only shrink what it has     *)
(* outstanding.                                                            *)
LEMMA ShrinkOK ==
  ASSUME NEW call, NEW out, NEW res, NEW lookup, NEW ask, NEW ev,
         NEW o, NEW r, NEW l \in BOOLEAN,
         CallOK(call, out, res, lookup, ask, ev), call.status # "live",
         o \subseteq out, r \subseteq res, l => lookup
  PROVE  Core(call, o, r, l, ask, ev)
<1>1. Typed(call, o, r, l, ask, ev)
  BY DEF CallOK, Core, Typed
<1>2. Tracked(call, o, r, ask)
  <2>1. \A p, q \in o \cup r : p = q
    BY DEF CallOK, Core, Tracked
  <2> QED
    BY <2>1 DEF CallOK, Core, Tracked
<1>3. Phase(call, o, r, l, ask, ev)
  <2>1. Phase(call, out, res, lookup, ask, ev) /\ lookup \in BOOLEAN
    BY DEF CallOK, Core, Typed
  <2>2. CASE call.status = "new"
    BY <2>1, <2>2 DEF Phase
  <2>3. CASE call.status = "over"
    BY <2>1, <2>3 DEF Phase
  <2>4. call.status \in {"new", "live", "over"}
    BY <1>1 DEF Typed, Call
  <2> QED
    BY <2>2, <2>3, <2>4
<1>4. Pinned(call, l)
  BY DEF CallOK, Core, Pinned
<1> QED
  BY <1>1, <1>2, <1>3, <1>4 DEF Core

(* The same for a call of the current state.                               *)
LEMMA LateOK ==
  ASSUME IInv, NEW c \in Calls, ~Live(c), NEW o, NEW r,
         o \subseteq outbound[c], r \subseteq resolutions[c],
         c \in provider_lookups' => c \in provider_lookups
  PROVE  Core(calls[c], o, r, c \in provider_lookups', asked[c], events[c])
<1> DEFINE l1 == c \in provider_lookups
           l2 == c \in provider_lookups'
<1>1. /\ l2 \in BOOLEAN /\ (l2 => l1)
      /\ CallOK(calls[c], outbound[c], resolutions[c], l1, asked[c], events[c])
  BY DEF IInv, CallInv
<1>2. calls[c].status # "live"
  BY DEF Live
<1> HIDE DEF l1, l2
<1>3. Core(calls[c], o, r, l2, asked[c], events[c])
  BY <1>1, <1>2, ShrinkOK
<1> QED
  BY <1>3 DEF l2

(* remember_failure keeps the type of failed.                              *)
LEMMA RememberFailureType ==
  ASSUME TypeOK, NEW peer \in Peers, RememberFailure(peer)
  PROVE  failed' \in [Peers -> {"none", "fresh", "stale"}]
  BY DEF TypeOK, RememberFailure

(* A new call to one node.                                                 *)
LEMMA RpcToNodeOK ==
  ASSUME IInv, NEW c \in Calls, NEW g \in Groups, NEW p \in Peers, RpcToNode(c, g, p)
  PROVE  IInv'
<1> DEFINE q   == <<p>>
           new == [NewCall(g, p) EXCEPT !.candidates = q, !.seen = {p}]
<1>1. q \in Seq(Peers) /\ Len(q) = 1 /\ q[1] = p
  OBVIOUS
<1>2. Distinct(q) /\ Queued(q) = {p}
  BY <1>1 DEF Distinct, Queued
<1>3. AnyNode # p
  BY CallsAssumption
<1> HIDE DEF q
<1>4. /\ new \in Call
      /\ new.status = "live" /\ new.target = p /\ new.candidates = q /\ new.seen = {p}
      /\ ~new.in_flight /\ ~new.resolving /\ ~new.lookup_running
  BY <1>1 DEF Call, NewCall, Failures
<1> HIDE DEF new
<1>5. CallInv(c) /\ calls[c].status = "new"
  BY DEF IInv, RpcToNode
<1>6. /\ outbound[c] = {} /\ resolutions[c] = {} /\ c \notin provider_lookups
      /\ Len(events[c]) = 0 /\ \A x \in Peers : asked[c][x] = 0
      /\ asked[c] \in [Peers -> Nat] /\ events[c] \in Seq(Outcomes)
  BY <1>5 DEF CallInv, CallOK, Core, Phase, Typed
<1>7. UNCHANGED <<provider_lookups, last_success, failed, dialable>>
  BY DEF RpcToNode, memory, swarm
<1>8. Core(new, outbound[c], resolutions[c], c \in provider_lookups', asked[c], events[c])
  <2>1. Typed(new, outbound[c], resolutions[c], c \in provider_lookups', asked[c], events[c])
    BY <1>4, <1>6, <1>7 DEF Typed
  <2>2. Tracked(new, outbound[c], resolutions[c], asked[c])
    BY <1>2, <1>3, <1>4, <1>6 DEF Tracked
  <2>3. Phase(new, outbound[c], resolutions[c], c \in provider_lookups', asked[c], events[c])
    BY <1>4, <1>6, <1>7 DEF Phase
  <2>4. Pinned(new, c \in provider_lookups')
    BY <1>6, <1>7 DEF Pinned
  <2> QED
    BY <2>1, <2>2, <2>3, <2>4 DEF Core
<1>9. Advance(c, new, dialable, outbound[c], resolutions[c])
  BY DEF RpcToNode, new, q
<1> QED
  BY <1>7, <1>8, <1>9, HandlerOK DEF IInv, TypeOK

(* A new call to any node of a group.                                      *)
LEMMA RpcToGroupOK ==
  ASSUME IInv, NEW c \in Calls, NEW g \in Groups, RpcToGroup(c, g)
  PROVE  IInv'
<1> DEFINE none == <<>>
           new  == [NewCall(g, AnyNode) EXCEPT !.lookup_running = TRUE]
<1>1. none \in Seq(Peers) /\ Distinct(none) /\ Queued(none) = {}
  BY DEF Distinct, Queued
<1>2. /\ new.status = "live" /\ new.target = AnyNode /\ new.candidates = none /\ new.seen = {}
      /\ ~new.in_flight /\ ~new.resolving /\ new.lookup_running
  BY DEF NewCall
<1> HIDE DEF none
<1>3. new \in Call
  BY <1>1 DEF Call, NewCall, Failures, none
<1> HIDE DEF new
<1>5. CallInv(c) /\ calls[c].status = "new"
  BY DEF IInv, RpcToGroup
<1>6. /\ outbound[c] = {} /\ resolutions[c] = {}
      /\ Len(events[c]) = 0 /\ \A x \in Peers : asked[c][x] = 0
      /\ asked[c] \in [Peers -> Nat] /\ events[c] \in Seq(Outcomes)
  BY <1>5 DEF CallInv, CallOK, Core, Phase, Typed
<1>7. /\ UNCHANGED <<last_success, failed, dialable>>
      /\ provider_lookups' = provider_lookups \cup {c}
  BY DEF RpcToGroup, memory, swarm
<1>8. Core(new, outbound[c], resolutions[c], c \in provider_lookups', asked[c], events[c])
  <2>1. Typed(new, outbound[c], resolutions[c], c \in provider_lookups', asked[c], events[c])
    BY <1>3, <1>6, <1>7 DEF Typed
  <2>2. Tracked(new, outbound[c], resolutions[c], asked[c])
    BY <1>1, <1>2, <1>6 DEF Tracked
  <2>3. Phase(new, outbound[c], resolutions[c], c \in provider_lookups', asked[c], events[c])
    BY <1>2, <1>6, <1>7 DEF Phase
  <2>4. Pinned(new, c \in provider_lookups')
    BY <1>2 DEF Pinned
  <2> QED
    BY <2>1, <2>2, <2>3, <2>4 DEF Core
<1>9. Advance(c, new, dialable, outbound[c], resolutions[c])
  BY DEF RpcToGroup, new
<1> QED
  BY <1>7, <1>8, <1>9, HandlerOK DEF IInv, TypeOK

(* A provider report.                                                      *)
LEMMA ProvidersFoundOK ==
  ASSUME IInv, NEW c \in Calls, NEW batch \in SUBSET Peers, NEW last \in BOOLEAN,
         ProvidersFound(c, batch, last)
  PROVE  IInv'
<1> DEFINE penalized == {p \in Peers : failed[p] = "fresh"}
           good == last_success[calls[c].group]
           added == NewProviders(calls[c], batch)
<1>1. /\ c \in provider_lookups
      /\ provider_lookups' = IF last THEN provider_lookups \ {c} ELSE provider_lookups
      /\ UNCHANGED <<last_success, failed, dialable>>
  BY DEF ProvidersFound, memory, swarm
<1>2. CallInv(c) /\ calls[c] \in Call
  BY DEF IInv, TypeOK
<1>3. /\ provider_lookups' \in SUBSET Calls
      /\ \A b \in Calls \ {c} : b \in provider_lookups' <=> b \in provider_lookups
      /\ c \in provider_lookups' <=> ~last
  BY <1>1 DEF IInv, TypeOK
<1>4. CASE Live(c)
  <2>1. PICK queue \in EnqueueAll(calls[c].candidates, added, good, penalized) :
          Advance(c, [calls[c] EXCEPT !.candidates = queue, !.seen = @ \cup added,
                                      !.lookup_running = @ /\ ~last],
                  dialable, outbound[c], resolutions[c])
    BY <1>4 DEF ProvidersFound
  <2> DEFINE call == calls[c]
             new  == [call EXCEPT !.candidates = queue, !.seen = call.seen \cup added,
                                  !.lookup_running = call.lookup_running /\ ~last]
  <2>2. /\ call.candidates \in Seq(Peers) /\ Distinct(call.candidates)
        /\ Queued(call.candidates) \subseteq call.seen /\ call.seen \subseteq Peers
        /\ call.lookup_running \in BOOLEAN
    BY <1>2 DEF CallInv, CallOK, Core, Tracked, Call
  <2>3. added \subseteq Peers /\ Local \notin added /\ added \cap call.seen = {}
    BY DEF NewProviders
  <2>4. queue \in Seq(Peers) /\ Distinct(queue) /\ Queued(queue) = Queued(call.candidates) \cup added
    <3>1. added \cap Queued(call.candidates) = {} /\ IsFiniteSet(Peers)
      BY <2>2, <2>3, CallsAssumption
    <3> HIDE DEF added, penalized, good, call
    <3>2. queue \in EnqueueAll(call.candidates, added, good, penalized)
      BY <2>1 DEF call
    <3> QED
      BY <2>2, <2>3, <3>1, <3>2, EnqueueAllQueue
  <2> HIDE DEF added, penalized, good
  <2>5. /\ new \in Call
        /\ new.candidates = queue /\ new.seen = call.seen \cup added /\ new.status = "live"
        /\ new.resolved = call.resolved /\ new.target = call.target
        /\ new.in_flight = call.in_flight /\ new.resolving = call.resolving
        /\ new.lookup_running = (call.lookup_running /\ ~last)
    <3>1. call.status = "live" /\ call \in Call /\ (call.lookup_running /\ ~last) \in BOOLEAN
      BY <1>2, <1>4 DEF Live
    <3>2. call.seen \cup added \in SUBSET Peers
      BY <2>2, <2>3
    <3> HIDE DEF call
    <3> DEFINE run == call.lookup_running /\ ~last
    <3>3. run \in BOOLEAN
      BY <3>1
    <3> HIDE DEF run
    <3>4. /\ [call EXCEPT !.candidates = queue, !.seen = call.seen \cup added,
                          !.lookup_running = run] \in Call
          /\ [call EXCEPT !.candidates = queue, !.seen = call.seen \cup added,
                          !.lookup_running = run].lookup_running = run
      BY <2>4, <3>1, <3>2, <3>3 DEF Call
    <3> QED
      BY <3>1, <3>4 DEF run, Call
  <2>6. Advance(c, new, dialable, outbound[c], resolutions[c])
    BY <2>1
  <2> HIDE DEF new
  <2>7. Core(call, outbound[c], resolutions[c], TRUE, asked[c], events[c])
    <3>1. (c \in provider_lookups) = TRUE
      BY <1>1
    <3> QED
      BY <1>2, <3>1 DEF CallInv, CallOK
  <2> HIDE DEF call
  <2>8. Typed(new, outbound[c], resolutions[c], c \in provider_lookups', asked[c], events[c])
    BY <2>5, <2>7 DEF Core, Typed
  <2>9. Tracked(new, outbound[c], resolutions[c], asked[c])
    <3>0. call.target = AnyNode
      BY <2>7 DEF Core, Pinned
    <3>1. \A p \in Peers : asked[c][p] > 0 => p \in new.seen /\ p \notin Queued(new.candidates)
      BY <2>3, <2>4, <2>5, <2>7 DEF Core, Tracked
    <3>2. \A p \in new.seen :
            asked[c][p] = 1 \/ p \in new.resolved \/ p \in Queued(new.candidates)
      BY <2>4, <2>5, <2>7 DEF Core, Tracked
    <3>3. Local \notin new.seen
      BY <2>3, <2>5, <2>7, <3>0 DEF Core, Tracked
    <3>4. Queued(new.candidates) \subseteq new.seen
      BY <2>2, <2>4, <2>5
    <3> QED
      BY <2>4, <2>5, <2>7, <3>0, <3>1, <3>2, <3>3, <3>4 DEF Core, Tracked
  <2>10. Phase(new, outbound[c], resolutions[c], c \in provider_lookups', asked[c], events[c])
    <3>1. call.status = "live"
      BY <1>4 DEF Live, call
    <3>2. call.lookup_running
      BY <2>7, <3>1 DEF Core, Phase
    <3>3. new.lookup_running <=> c \in provider_lookups'
      BY <1>3, <2>5, <3>2
    <3> QED
      BY <2>5, <2>7, <3>1, <3>3 DEF Core, Phase
  <2>11. Pinned(new, c \in provider_lookups')
    BY <2>5, <2>7 DEF Core, Pinned
  <2>12. Core(new, outbound[c], resolutions[c], c \in provider_lookups', asked[c], events[c])
    BY <2>8, <2>9, <2>10, <2>11 DEF Core
  <2> QED
    BY <1>1, <1>3, <2>6, <2>12, HandlerOK DEF IInv, TypeOK
<1>5. CASE ~Live(c)
  <2>1. UNCHANGED <<calls, outbound, resolutions, asked, events>>
    BY <1>5 DEF ProvidersFound
  <2>2. TypeOK'
    BY <1>1, <1>3, <2>1 DEF IInv, TypeOK
  <2>3. CallInv(c)'
    <3>1. Core(calls[c], outbound[c], resolutions[c], c \in provider_lookups', asked[c], events[c])
      BY <1>1, <1>5, LateOK
    <3>2. Pending(calls[c])
      BY <1>5 DEF Pending, Live
    <3> QED
      BY <2>1, <3>1, <3>2 DEF CallInv, CallOK
  <2>4. ASSUME NEW b \in Calls \ {c} PROVE CallInv(b)'
    <3>1. CallInv(b) /\ (b \in provider_lookups') = (b \in provider_lookups)
      BY <1>3 DEF IInv
    <3> QED
      BY <2>1, <3>1 DEF CallInv
  <2> QED
    BY <2>2, <2>3, <2>4 DEF IInv
<1> QED
  BY <1>4, <1>5

(* The end of an address lookup.                                           *)
LEMMA ClosestPeersOK ==
  ASSUME IInv, NEW c \in Calls, NEW peer \in Peers, NEW found \in SUBSET Peers,
         ClosestPeers(c, peer, found)
  PROVE  IInv'
<1>1. /\ peer \in resolutions[c] /\ dialable' = dialable \cup found
      /\ UNCHANGED <<provider_lookups, last_success, failed>>
      /\ Advance(c, IF Live(c) THEN [calls[c] EXCEPT !.resolving = FALSE] ELSE calls[c],
                 dialable \cup found, outbound[c], resolutions[c] \ {peer})
  BY DEF ClosestPeers, memory
<1>2. CallOK(calls[c], outbound[c], resolutions[c], c \in provider_lookups, asked[c], events[c])
  BY DEF IInv, CallInv
<1>3. provider_lookups' = provider_lookups /\ (c \in provider_lookups') = (c \in provider_lookups)
  BY <1>1
<1>4. CASE Live(c)
  <2> DEFINE call == calls[c]
             new  == [call EXCEPT !.resolving = FALSE]
  <2>1. call \in Call /\ call.status = "live"
    BY <1>2, <1>4 DEF CallOK, Core, Typed, Live
  <2>2. /\ new \in Call
        /\ new.resolving = FALSE /\ new.candidates = call.candidates /\ new.seen = call.seen
        /\ new.status = "live" /\ new.resolved = call.resolved /\ new.target = call.target
        /\ new.in_flight = call.in_flight /\ new.lookup_running = call.lookup_running
    BY <2>1 DEF Call
  <2>3. Advance(c, new, dialable \cup found, outbound[c], resolutions[c] \ {peer})
    BY <1>1, <1>4
  <2> HIDE DEF new
  <2>4. Core(call, outbound[c], resolutions[c], c \in provider_lookups, asked[c], events[c])
    BY <1>2 DEF CallOK
  <2> HIDE DEF call
  <2>5. resolutions[c] \ {peer} = {}
    BY <1>1, <2>4 DEF Core, Tracked
  <2>6. Typed(new, outbound[c], resolutions[c] \ {peer}, c \in provider_lookups, asked[c], events[c])
    BY <2>2, <2>4 DEF Core, Typed
  <2>7. Tracked(new, outbound[c], resolutions[c] \ {peer}, asked[c])
    <3>1. \A p, q \in outbound[c] \cup (resolutions[c] \ {peer}) : p = q
      BY <2>4 DEF Core, Tracked
    <3> QED
      BY <2>2, <2>4, <3>1 DEF Core, Tracked
  <2>8. Phase(new, outbound[c], resolutions[c] \ {peer}, c \in provider_lookups, asked[c], events[c])
    BY <2>1, <2>2, <2>4, <2>5 DEF Core, Phase
  <2>9. Pinned(new, c \in provider_lookups)
    BY <2>2, <2>4 DEF Core, Pinned
  <2>10. Core(new, outbound[c], resolutions[c] \ {peer}, c \in provider_lookups', asked[c],
              events[c])
    BY <1>3, <2>6, <2>7, <2>8, <2>9 DEF Core
  <2> QED
    BY <1>1, <2>3, <2>10, HandlerOK DEF IInv, TypeOK
<1>5. CASE ~Live(c)
  <2>1. Core(calls[c], outbound[c], resolutions[c] \ {peer}, c \in provider_lookups', asked[c],
             events[c])
    BY <1>3, <1>5, LateOK
  <2>2. Advance(c, calls[c], dialable \cup found, outbound[c], resolutions[c] \ {peer})
    BY <1>1, <1>5
  <2> QED
    BY <1>1, <2>1, <2>2, HandlerOK DEF IInv, TypeOK
<1> QED
  BY <1>4, <1>5

(* An attempt that failed leaves a call without a request.                 *)
LEMMA FailedAttemptOK ==
  ASSUME NEW call, NEW out, NEW res, NEW lookup, NEW ask, NEW ev, NEW peer \in out,
         NEW reason \in Failures,
         Core(call, out, res, lookup, ask, ev), call.status = "live"
  PROVE  Core(FailedAttempt(call, reason), out \ {peer}, res, lookup, ask, ev)
<1> DEFINE new == FailedAttempt(call, reason)
<1>1. call \in Call
  BY DEF Core, Typed
<1>2. /\ new \in Call
      /\ new.in_flight = FALSE /\ new.candidates = call.candidates /\ new.seen = call.seen
      /\ new.status = "live" /\ new.resolved = call.resolved /\ new.target = call.target
      /\ new.resolving = call.resolving /\ new.lookup_running = call.lookup_running
  BY <1>1 DEF Call, FailedAttempt
<1> HIDE DEF new
<1>3. out \ {peer} = {}
  BY DEF Core, Tracked
<1>4. Typed(new, out \ {peer}, res, lookup, ask, ev)
  BY <1>2 DEF Core, Typed
<1>5. Tracked(new, out \ {peer}, res, ask)
  <2>1. \A p, q \in (out \ {peer}) \cup res : p = q
    BY DEF Core, Tracked
  <2> QED
    BY <1>2, <2>1 DEF Core, Tracked
<1>6. Phase(new, out \ {peer}, res, lookup, ask, ev)
  BY <1>2, <1>3 DEF Core, Phase
<1>7. Pinned(new, lookup)
  BY <1>2 DEF Core, Pinned
<1> QED
  BY <1>4, <1>5, <1>6, <1>7 DEF Core, new

(* A request that failed.                                                  *)
LEMMA OutboundFailureOK ==
  ASSUME IInv, NEW c \in Calls, NEW peer \in Peers, NEW reason \in Failures,
         OutboundFailure(c, peer, reason)
  PROVE  IInv'
<1>1. /\ peer \in outbound[c] /\ RememberFailure(peer)
      /\ UNCHANGED <<provider_lookups, last_success, dialable>>
      /\ Advance(c, IF Live(c) THEN FailedAttempt(calls[c], reason) ELSE calls[c],
                 dialable, outbound[c] \ {peer}, resolutions[c])
  BY DEF OutboundFailure, swarm
<1>2. failed' \in [Peers -> {"none", "fresh", "stale"}]
  BY <1>1, RememberFailureType DEF IInv
<1>3. CASE Live(c)
  <2>1. Core(FailedAttempt(calls[c], reason), outbound[c] \ {peer}, resolutions[c],
             c \in provider_lookups', asked[c], events[c])
    <3>1. Core(calls[c], outbound[c], resolutions[c], c \in provider_lookups', asked[c], events[c])
      BY <1>1 DEF IInv, CallInv, CallOK
    <3>2. calls[c].status = "live"
      BY <1>3 DEF Live
    <3> QED
      BY <1>1, <3>1, <3>2, FailedAttemptOK
  <2>2. Advance(c, FailedAttempt(calls[c], reason), dialable, outbound[c] \ {peer}, resolutions[c])
    BY <1>1, <1>3
  <2> QED
    BY <1>1, <1>2, <2>1, <2>2, HandlerOK DEF IInv, TypeOK
<1>4. CASE ~Live(c)
  <2>1. Core(calls[c], outbound[c] \ {peer}, resolutions[c], c \in provider_lookups', asked[c],
             events[c])
    BY <1>1, <1>4, LateOK
  <2>2. Advance(c, calls[c], dialable, outbound[c] \ {peer}, resolutions[c])
    BY <1>1, <1>4
  <2> QED
    BY <1>1, <1>2, <2>1, <2>2, HandlerOK DEF IInv, TypeOK
<1> QED
  BY <1>3, <1>4

(* A response that does not prove the call's group.                        *)
LEMMA ResponseRefusedOK ==
  ASSUME IInv, NEW c \in Calls, NEW peer \in Peers, NEW proved, ResponseRefused(c, peer, proved)
  PROVE  IInv'
<1>1. /\ peer \in outbound[c] /\ RememberFailure(peer) /\ Live(c)
      /\ UNCHANGED <<provider_lookups, last_success, dialable>>
      /\ Advance(c, FailedAttempt(calls[c], "refused"),
                 dialable, outbound[c] \ {peer}, resolutions[c])
  BY DEF ResponseRefused, swarm
<1>2. failed' \in [Peers -> {"none", "fresh", "stale"}]
  BY <1>1, RememberFailureType DEF IInv
<1>3. Core(FailedAttempt(calls[c], "refused"), outbound[c] \ {peer}, resolutions[c],
           c \in provider_lookups', asked[c], events[c])
  <2>1. Core(calls[c], outbound[c], resolutions[c], c \in provider_lookups', asked[c], events[c])
    BY <1>1 DEF IInv, CallInv, CallOK
  <2>2. calls[c].status = "live" /\ "refused" \in Failures
    BY <1>1 DEF Live, Failures
  <2> QED
    BY <1>1, <2>1, <2>2, FailedAttemptOK
<1> QED
  BY <1>1, <1>2, <1>3, HandlerOK DEF IInv, TypeOK

(* A step that rewrites only what belongs to call c, without advance().    *)
LEMMA LocalOK ==
  ASSUME IInv, NEW c \in Calls, NEW call, NEW out, NEW res, NEW ev,
         CallOK(call, out, res, c \in provider_lookups, asked[c], ev),
         Store(c, call, out, res), events' = [events EXCEPT ![c] = ev],
         UNCHANGED <<provider_lookups, asked>>,
         last_success' \in [Groups -> Peers \cup {Nobody}],
         failed' \in [Peers -> {"none", "fresh", "stale"}],
         dialable' \in SUBSET Peers
  PROVE  IInv'
<1>1. /\ calls \in [Calls -> Call] /\ outbound \in [Calls -> SUBSET Peers]
      /\ resolutions \in [Calls -> SUBSET Peers] /\ events \in [Calls -> Seq(Outcomes)]
      /\ provider_lookups \in SUBSET Calls /\ asked \in [Calls -> [Peers -> Nat]]
  BY DEF IInv, TypeOK, Outcomes
<1>2. call \in Call /\ out \in SUBSET Peers /\ res \in SUBSET Peers /\ ev \in Seq(Outcomes)
  BY DEF CallOK, Core, Typed
<1>3. /\ calls'[c] = call /\ outbound'[c] = out /\ resolutions'[c] = res /\ events'[c] = ev
      /\ asked' = asked /\ provider_lookups' = provider_lookups
  BY <1>1 DEF Store
<1>4. \A b \in Calls \ {c} :
        /\ calls'[b] = calls[b] /\ outbound'[b] = outbound[b]
        /\ resolutions'[b] = resolutions[b] /\ events'[b] = events[b]
  BY <1>1 DEF Store
<1>5. /\ calls' \in [Calls -> Call] /\ outbound' \in [Calls -> SUBSET Peers]
      /\ resolutions' \in [Calls -> SUBSET Peers] /\ events' \in [Calls -> Seq(Outcomes)]
  BY <1>1, <1>2 DEF Store
<1>6. TypeOK'
  BY <1>1, <1>3, <1>5 DEF TypeOK, Outcomes
<1>7. CallInv(c)'
  BY <1>3 DEF CallInv
<1>8. ASSUME NEW b \in Calls \ {c} PROVE CallInv(b)'
  <2>1. CallInv(b)
    BY DEF IInv
  <2> QED
    BY <1>3, <1>4, <2>1 DEF CallInv
<1> QED
  BY <1>6, <1>7, <1>8 DEF IInv

(* A response that proves the call's group ends the call.                  *)
LEMMA ResponseTakenOK ==
  ASSUME IInv, NEW c \in Calls, NEW peer \in Peers, NEW proved, ResponseTaken(c, peer, proved)
  PROVE  IInv'
<1> DEFINE call == calls[c]
           new  == [call EXCEPT !.in_flight = FALSE, !.status = "over"]
           ev   == Append(events[c], "response")
           l    == c \in provider_lookups
           out  == outbound[c] \ {peer}
<1>1. /\ peer \in outbound[c] /\ call.status = "live"
      /\ Store(c, new, out, resolutions[c])
      /\ events' = [events EXCEPT ![c] = ev]
      /\ UNCHANGED <<provider_lookups, dialable, asked>>
  BY DEF ResponseTaken, swarm, Live, Emit
<1>2. /\ last_success' \in [Groups -> Peers \cup {Nobody}]
      /\ failed' \in [Peers -> {"none", "fresh", "stale"}]
  BY DEF ResponseTaken, RememberSuccess, IInv, TypeOK
<1>3. Core(call, outbound[c], resolutions[c], l, asked[c], events[c])
  BY DEF IInv, CallInv, CallOK
<1>4. call \in Call /\ events[c] \in Seq(Outcomes) /\ Len(events[c]) = 0
  BY <1>1, <1>3 DEF Core, Typed, Phase
<1>5. ev \in Seq(Outcomes) /\ Len(ev) = 1 /\ ev = <<"response">>
  <2>1. events[c] = <<>>
    BY <1>4
  <2> QED
    BY <1>4, <2>1 DEF Outcomes
<1>6. /\ new \in Call
      /\ new.status = "over" /\ new.candidates = call.candidates /\ new.seen = call.seen
      /\ new.resolved = call.resolved /\ new.target = call.target
  BY <1>4 DEF Call
<1> HIDE DEF new, ev, call, l
<1>7. Typed(new, out, resolutions[c], l, asked[c], ev)
  BY <1>3, <1>5, <1>6 DEF Core, Typed
<1>8. Tracked(new, out, resolutions[c], asked[c])
  <2>1. \A p, q \in out \cup resolutions[c] : p = q
    BY <1>3 DEF Core, Tracked
  <2> QED
    BY <1>3, <1>6, <2>1 DEF Core, Tracked
<1>9. Phase(new, out, resolutions[c], l, asked[c], ev)
  BY <1>5, <1>6 DEF Phase
<1>10. Pinned(new, l) /\ Pending(new)
  BY <1>3, <1>6 DEF Core, Pinned, Pending
<1>11. CallOK(new, out, resolutions[c], c \in provider_lookups, asked[c], ev)
  BY <1>7, <1>8, <1>9, <1>10 DEF CallOK, Core, l
<1>12. dialable' \in SUBSET Peers
  BY <1>1 DEF IInv, TypeOK
<1> QED
  BY <1>1, <1>2, <1>11, <1>12, LocalOK

(* A response for a call that is over.                                     *)
LEMMA ResponseLateOK ==
  ASSUME IInv, NEW c \in Calls, NEW peer \in Peers, ResponseLate(c, peer)
  PROVE  IInv'
<1>1. /\ peer \in outbound[c] /\ ~Live(c)
      /\ Store(c, calls[c], outbound[c] \ {peer}, resolutions[c])
      /\ UNCHANGED <<provider_lookups, last_success, failed, dialable, asked, events>>
  BY DEF ResponseLate, memory, swarm
<1>2. Core(calls[c], outbound[c] \ {peer}, resolutions[c], c \in provider_lookups', asked[c],
           events[c])
  BY <1>1, LateOK
<1>3. CallOK(calls[c], outbound[c] \ {peer}, resolutions[c], c \in provider_lookups, asked[c],
             events[c])
  BY <1>1, <1>2 DEF CallOK, Pending, Live
<1>4. events' = [events EXCEPT ![c] = events[c]]
  BY <1>1 DEF IInv, TypeOK
<1> QED
  BY <1>1, <1>3, <1>4, LocalOK DEF IInv, TypeOK

(* A deadline passes.                                                      *)
LEMMA DeadlinePassesOK ==
  ASSUME IInv, NEW c \in Calls, DeadlinePasses(c)
  PROVE  IInv'
<1> DEFINE call == calls[c]
           new  == [call EXCEPT !.overdue = TRUE]
           l    == c \in provider_lookups
<1>1. /\ call.status = "live"
      /\ calls' = [calls EXCEPT ![c].overdue = TRUE]
      /\ UNCHANGED <<outbound, resolutions, provider_lookups, last_success, failed, dialable,
                     asked, events>>
  BY DEF DeadlinePasses, Live, requests, memory, swarm
<1>2. CallOK(call, outbound[c], resolutions[c], l, asked[c], events[c])
  BY DEF IInv, CallInv
<1>3. call \in Call
  BY <1>2 DEF CallOK, Core, Typed
<1>4. /\ new \in Call
      /\ new.status = "live" /\ new.candidates = call.candidates /\ new.seen = call.seen
      /\ new.resolved = call.resolved /\ new.target = call.target
      /\ new.in_flight = call.in_flight /\ new.resolving = call.resolving
      /\ new.lookup_running = call.lookup_running
  BY <1>1, <1>3 DEF Call
<1>5. Store(c, new, outbound[c], resolutions[c]) /\ events' = [events EXCEPT ![c] = events[c]]
  <2>1. calls' = [calls EXCEPT ![c] = new]
    BY <1>1 DEF IInv, TypeOK
  <2>2. /\ outbound' = [outbound EXCEPT ![c] = outbound[c]]
        /\ resolutions' = [resolutions EXCEPT ![c] = resolutions[c]]
        /\ events' = [events EXCEPT ![c] = events[c]]
    BY <1>1 DEF IInv, TypeOK
  <2> QED
    BY <2>1, <2>2 DEF Store
<1> HIDE DEF new, call, l
<1>6. Typed(new, outbound[c], resolutions[c], l, asked[c], events[c])
  BY <1>2, <1>4 DEF CallOK, Core, Typed
<1>7. Tracked(new, outbound[c], resolutions[c], asked[c])
  BY <1>2, <1>4 DEF CallOK, Core, Tracked
<1>8. Phase(new, outbound[c], resolutions[c], l, asked[c], events[c])
  BY <1>1, <1>2, <1>4 DEF CallOK, Core, Phase
<1>9. Pinned(new, l) /\ Pending(new)
  BY <1>1, <1>2, <1>4 DEF CallOK, Core, Pinned, Pending
<1>10. CallOK(new, outbound[c], resolutions[c], c \in provider_lookups, asked[c], events[c])
  BY <1>6, <1>7, <1>8, <1>9 DEF CallOK, Core, l
<1> QED
  BY <1>1, <1>5, <1>10, LocalOK DEF IInv, TypeOK

(* tick() ends every call whose deadline has passed and no other.          *)
LEMMA TickOK ==
  ASSUME IInv, Tick
  PROVE  IInv'
<1>1. /\ calls' = [c \in Calls |-> IF c \in Expired THEN [calls[c] EXCEPT !.status = "over"]
                                   ELSE calls[c]]
      /\ events' = [c \in Calls |-> IF c \in Expired THEN Append(events[c], "timeout")
                                    ELSE events[c]]
      /\ UNCHANGED <<outbound, resolutions, provider_lookups, last_success, failed, dialable,
                     asked>>
  BY DEF Tick, requests, memory, swarm
<1>2. ASSUME NEW c \in Calls
      PROVE  CallOK(calls'[c], outbound[c], resolutions[c], c \in provider_lookups, asked[c],
                    events'[c])
  <2> DEFINE call == calls[c]
             new  == [call EXCEPT !.status = "over"]
             ev   == Append(events[c], "timeout")
             l    == c \in provider_lookups
  <2>1. CallOK(call, outbound[c], resolutions[c], l, asked[c], events[c])
    BY DEF IInv, CallInv
  <2>2. CASE c \notin Expired
    <3>1. calls'[c] = call /\ events'[c] = events[c]
      BY <1>1, <2>2
    <3> QED
      BY <2>1, <3>1
  <2>3. CASE c \in Expired
    <3>1. call.status = "live" /\ call.overdue
      BY <2>3 DEF Expired, Live
    <3>2. call \in Call /\ events[c] \in Seq(Outcomes) /\ Len(events[c]) = 0
      BY <2>1, <3>1 DEF CallOK, Core, Typed, Phase
    <3>3. ev \in Seq(Outcomes) /\ Len(ev) = 1
      BY <3>2 DEF Outcomes, Failures
    <3>4. /\ new \in Call
          /\ new.status = "over" /\ new.candidates = call.candidates /\ new.seen = call.seen
          /\ new.resolved = call.resolved /\ new.target = call.target
          /\ new.overdue = call.overdue
      BY <3>2 DEF Call
    <3>5. calls'[c] = new /\ events'[c] = ev
      BY <1>1, <2>3
    <3> HIDE DEF new, ev, call, l
    <3>6. Typed(new, outbound[c], resolutions[c], l, asked[c], ev)
      BY <2>1, <3>3, <3>4 DEF CallOK, Core, Typed
    <3>7. Tracked(new, outbound[c], resolutions[c], asked[c])
      BY <2>1, <3>4 DEF CallOK, Core, Tracked
    <3>8. Phase(new, outbound[c], resolutions[c], l, asked[c], ev)
      BY <3>1, <3>3, <3>4 DEF Phase
    <3>9. Pinned(new, l) /\ Pending(new)
      BY <2>1, <3>4 DEF CallOK, Core, Pinned, Pending
    <3> QED
      BY <3>5, <3>6, <3>7, <3>8, <3>9 DEF CallOK, Core, l
  <2> QED
    BY <2>2, <2>3
<1>3. ASSUME NEW c \in Calls PROVE calls'[c] \in Call /\ events'[c] \in Seq(Outcomes)
  BY <1>2 DEF CallOK, Core, Typed
<1>4. calls' \in [Calls -> Call]
  <2>1. calls' = [c \in Calls |-> calls'[c]]
    BY <1>1
  <2> QED
    BY <1>3, <2>1
<1>5. events' \in [Calls -> Seq(Outcomes)]
  <2>1. events' = [c \in Calls |-> events'[c]]
    BY <1>1
  <2> QED
    BY <1>3, <2>1
<1>6. TypeOK'
  BY <1>1, <1>4, <1>5 DEF IInv, TypeOK, Outcomes
<1>7. \A c \in Calls : CallInv(c)'
  BY <1>1, <1>2 DEF CallInv
<1> QED
  BY <1>6, <1>7 DEF IInv

(* A step that changes no call and nothing a call has outstanding.         *)
LEMMA QuietOK ==
  ASSUME IInv, UNCHANGED <<calls, outbound, resolutions, provider_lookups, asked, events>>,
         last_success' \in [Groups -> Peers \cup {Nobody}],
         failed' \in [Peers -> {"none", "fresh", "stale"}],
         dialable' \in SUBSET Peers
  PROVE  IInv'
<1>1. TypeOK'
  BY DEF IInv, TypeOK
<1>2. \A c \in Calls : CallInv(c)'
  BY DEF IInv, CallInv
<1> QED
  BY <1>1, <1>2 DEF IInv

-----------------------------------------------------------------------------
(* Before the first call nothing is outstanding.                           *)
LEMMA InitIInv == Init => IInv
<1> SUFFICES ASSUME Init PROVE IInv
  OBVIOUS
<1> DEFINE g == CHOOSE x \in Groups : TRUE
           call == [NewCall(g, AnyNode) EXCEPT !.status = "new"]
           none == [p \in Peers |-> 0]
<1>1. g \in Groups
  BY CallsAssumption
<1>2. /\ calls = [c \in Calls |-> call] /\ outbound = [c \in Calls |-> {}]
      /\ resolutions = [c \in Calls |-> {}] /\ provider_lookups = {}
      /\ asked = [c \in Calls |-> none] /\ events = [c \in Calls |-> <<>>]
      /\ last_success = [x \in Groups |-> Nobody] /\ failed = [p \in Peers |-> "none"]
      /\ dialable \in SUBSET Peers
  BY DEF Init
<1> HIDE DEF g
<1>3. /\ call \in Call /\ call.status = "new" /\ call.candidates = <<>> /\ call.seen = {}
      /\ call.target = AnyNode
  <2> DEFINE base == NewCall(g, AnyNode)
  <2>1. /\ base \in Call /\ base.candidates = <<>> /\ base.seen = {} /\ base.target = AnyNode
    BY <1>1 DEF NewCall, Call, Failures
  <2> HIDE DEF base
  <2>2. call = [base EXCEPT !.status = "new"]
    BY DEF base
  <2> HIDE DEF call
  <2> QED
    BY <2>1, <2>2 DEF Call
<1> HIDE DEF call
<1>4. none \in [Peers -> Nat] /\ \A p \in Peers : none[p] = 0
  OBVIOUS
<1> HIDE DEF none
<1>5. TypeOK
  <2>1. calls \in [Calls -> Call] /\ asked \in [Calls -> [Peers -> Nat]]
    BY <1>2, <1>3, <1>4
  <2>2. events \in [Calls -> Seq(Failures \cup {"response"})]
    BY <1>2
  <2>3. /\ outbound \in [Calls -> SUBSET Peers] /\ resolutions \in [Calls -> SUBSET Peers]
        /\ provider_lookups \in SUBSET Calls /\ dialable \in SUBSET Peers
    BY <1>2
  <2>4. last_success \in [Groups -> Peers \cup {Nobody}]
        /\ failed \in [Peers -> {"none", "fresh", "stale"}]
    BY <1>2
  <2> QED
    BY <2>1, <2>2, <2>3, <2>4 DEF TypeOK
<1>6. ASSUME NEW c \in Calls PROVE CallInv(c)
  <2>1. /\ calls[c] = call /\ outbound[c] = {} /\ resolutions[c] = {} /\ asked[c] = none
        /\ events[c] = <<>> /\ (c \in provider_lookups) = FALSE
    BY <1>2
  <2>2. Len(events[c]) = 0 /\ events[c] \in Seq(Outcomes)
    BY <2>1
  <2>3. Distinct(call.candidates) /\ Queued(call.candidates) = {}
    BY <1>3 DEF Distinct, Queued
  <2>4. Typed(call, {}, {}, FALSE, none, events[c])
    BY <1>3, <1>4, <2>2 DEF Typed
  <2>5. Tracked(call, {}, {}, none)
    BY <1>3, <1>4, <2>3 DEF Tracked
  <2>6. Phase(call, {}, {}, FALSE, none, events[c])
    BY <1>3, <1>4, <2>2 DEF Phase
  <2>7. Pinned(call, FALSE) /\ Pending(call)
    BY <1>3 DEF Pinned, Pending
  <2> QED
    BY <2>1, <2>4, <2>5, <2>6, <2>7 DEF CallInv, CallOK, Core
<1> QED
  BY <1>5, <1>6 DEF IInv

(* Every step of the calls keeps the invariant.                            *)
LEMMA NextIInv == IInv /\ [Next]_vars => IInv'
<1> SUFFICES ASSUME IInv, [Next]_vars PROVE IInv'
  OBVIOUS
<1>1. ASSUME NEW c \in Calls, NEW g \in Groups, NEW p \in Peers, RpcToNode(c, g, p) PROVE IInv'
  BY <1>1, RpcToNodeOK
<1>2. ASSUME NEW c \in Calls, NEW g \in Groups, RpcToGroup(c, g) PROVE IInv'
  BY <1>2, RpcToGroupOK
<1>3. ASSUME NEW c \in Calls, LookupStep(c) PROVE IInv'
  BY <1>3, ProvidersFoundOK DEF LookupStep
<1>4. ASSUME NEW c \in Calls, ResolutionEnds(c) PROVE IInv'
  <2>1. PICK peer \in Peers : \E found \in SUBSET {peer} : ClosestPeers(c, peer, found)
    BY <1>4 DEF ResolutionEnds
  <2>2. PICK found \in SUBSET {peer} : ClosestPeers(c, peer, found)
    BY <2>1
  <2> QED
    BY <2>2, ClosestPeersOK
<1>5. ASSUME NEW c \in Calls, RequestEnds(c) PROVE IInv'
  BY <1>5, OutboundFailureOK, ResponseTakenOK, ResponseRefusedOK, ResponseLateOK DEF RequestEnds
<1>6. ASSUME NEW c \in Calls, DeadlinePasses(c) PROVE IInv'
  BY <1>6, DeadlinePassesOK
<1>7. ASSUME NEW p \in Peers, PenaltyOver(p) PROVE IInv'
  <2>1. failed' \in [Peers -> {"none", "fresh", "stale"}]
    BY <1>7 DEF PenaltyOver, IInv, TypeOK
  <2>2. UNCHANGED <<calls, outbound, resolutions, provider_lookups, asked, events, last_success,
                    dialable>>
    BY <1>7 DEF PenaltyOver, requests, swarm
  <2> QED
    BY <2>1, <2>2, QuietOK DEF IInv, TypeOK
<1>8. ASSUME NEW p \in Peers, LinkChange(p) PROVE IInv'
  <2>1. dialable' \in SUBSET Peers
    BY <1>8 DEF LinkChange, IInv, TypeOK
  <2>2. UNCHANGED <<calls, outbound, resolutions, provider_lookups, asked, events, last_success,
                    failed>>
    BY <1>8 DEF LinkChange, requests, memory
  <2> QED
    BY <2>1, <2>2, QuietOK DEF IInv, TypeOK
<1>9. CASE Tick
  BY <1>9, TickOK
<1>10. CASE UNCHANGED vars
  BY <1>10, QuietOK DEF vars, requests, memory, swarm, IInv, TypeOK
<1> QED
  BY <1>1, <1>2, <1>3, <1>4, <1>5, <1>6, <1>7, <1>8, <1>9, <1>10 DEF Next

(* The invariant holds in every reachable state.                           *)
THEOREM Invariance == Spec => []IInv
  BY InitIInv, NextIInv, PTL DEF Spec

(* Every variable of State::calls and its index maps keeps its type.       *)
THEOREM TypeCorrect == Spec => []TypeOK
<1>1. IInv => TypeOK
  BY DEF IInv
<1> QED
  BY <1>1, Invariance, PTL

(* A call emits exactly one of LP2P_EV_RPC_RESPONSE and LP2P_EV_RPC_FAILED *)
(* when it leaves State::calls, and nothing before.                        *)
THEOREM CallsAnsweredOnce == Spec => []OneOutcome
<1>1. IInv => OneOutcome
  <2> SUFFICES ASSUME IInv, NEW c \in Calls
               PROVE  Len(events[c]) = IF calls[c].status = "over" THEN 1 ELSE 0
    BY DEF OneOutcome
  <2>1. Core(calls[c], outbound[c], resolutions[c], c \in provider_lookups, asked[c], events[c])
    BY DEF IInv, CallInv, CallOK
  <2>2. calls[c].status \in {"new", "live", "over"}
    BY <2>1 DEF Core, Typed, Call
  <2> QED
    BY <2>1, <2>2 DEF Core, Phase
<1> QED
  BY <1>1, Invariance, PTL

(* advance() sends a call's request to no node twice.                      *)
THEOREM NodesAskedOnce == Spec => []AskedOnce
<1>1. IInv => AskedOnce
  BY DEF IInv, CallInv, CallOK, Core, Tracked, AskedOnce
<1> QED
  BY <1>1, Invariance, PTL

(* A call in State::calls has a request, an address lookup or a provider   *)
(* lookup outstanding, and its flags say which.                            *)
THEOREM CallsNeverStuck == Spec => []NoStuckCall
<1>1. IInv => NoStuckCall
  <2> SUFFICES ASSUME IInv, NEW c \in Calls, Live(c)
               PROVE  /\ calls[c].in_flight \/ calls[c].resolving \/ calls[c].lookup_running
                      /\ calls[c].in_flight <=> outbound[c] # {}
                      /\ calls[c].resolving <=> resolutions[c] # {}
                      /\ calls[c].lookup_running <=> c \in provider_lookups
                      /\ ~(calls[c].in_flight /\ calls[c].resolving)
    BY DEF NoStuckCall
  <2> QED
    BY DEF IInv, CallInv, CallOK, Core, Phase, Pending, Live
<1> QED
  BY <1>1, Invariance, PTL

(* Failover is sequential: one request or one address lookup at a time.    *)
THEOREM FailoverSequential == Spec => []OneAtATime
<1>1. IInv => OneAtATime
  BY DEF IInv, CallInv, CallOK, Core, Tracked, OneAtATime
<1> QED
  BY <1>1, Invariance, PTL

(* A call asks the node it names, or any node but this one.                *)
THEOREM TargetKept == Spec => []KeepsToTarget
<1>1. IInv => KeepsToTarget
  BY DEF IInv, CallInv, CallOK, Core, Tracked, KeepsToTarget
<1> QED
  BY <1>1, Invariance, PTL

(* A call that fails before its deadline has tried every node it knew.     *)
THEOREM FailsExhausted == Spec => []ExhaustsBeforeFailing
<1>1. IInv => ExhaustsBeforeFailing
  <2> SUFFICES ASSUME IInv, NEW c \in Calls, calls[c].status = "over", ~calls[c].overdue,
                      events[c] # <<"response">>
               PROVE  /\ c \notin provider_lookups
                      /\ outbound[c] = {} /\ resolutions[c] = {}
                      /\ \A p \in calls[c].seen : asked[c][p] = 1 \/ p \in calls[c].resolved
    BY DEF ExhaustsBeforeFailing
  <2>1. Core(calls[c], outbound[c], resolutions[c], c \in provider_lookups, asked[c], events[c])
    BY DEF IInv, CallInv, CallOK
  <2>2. /\ c \notin provider_lookups /\ outbound[c] = {} /\ resolutions[c] = {}
        /\ Len(calls[c].candidates) = 0
    BY <2>1 DEF Core, Phase
  <2>3. Queued(calls[c].candidates) = {}
    BY <2>2 DEF Queued
  <2> QED
    BY <2>1, <2>2, <2>3 DEF Core, Tracked
<1> QED
  BY <1>1, Invariance, PTL

-----------------------------------------------------------------------------
(* The contract of a call.                                                 *)

(* From one status to the next, or none.                                   *)
Forward(c) ==
  \/ calls'[c].status = calls[c].status
  \/ calls[c].status = "new" /\ calls'[c].status = "live"
  \/ calls[c].status = "live" /\ calls'[c].status = "over"

(* The request is sent to p.                                               *)
Sends(c, p) ==
  /\ p \in outbound'[c]
  /\ asked'[c] = [asked[c] EXCEPT ![p] = asked[c][p] + 1]

Silent(c) == asked'[c] = asked[c] /\ outbound'[c] \subseteq outbound[c]

Moves(c) ==
  /\ Forward(c)
  /\ \/ calls[c].status = "new" /\ calls'[c].status = "live"
     \/ calls'[c].target = calls[c].target
  /\ \/ Silent(c)
     \/ calls'[c].status = "live" /\ \E p \in Peers : Sends(c, p)
  /\ calls[c].status = "over" => events'[c] = events[c]
  /\ calls[c].status = "live" /\ calls'[c].status = "over" =>
       events'[c] # <<"response">> \/ outbound[c] # {}

Untouched(c) ==
  /\ calls'[c] = calls[c] /\ outbound'[c] = outbound[c]
  /\ asked'[c] = asked[c] /\ events'[c] = events[c]

-----------------------------------------------------------------------------
(* A call that a step does not touch moves.                                *)
LEMMA UntouchedMoves == ASSUME NEW c, Untouched(c) PROVE Moves(c)
  BY DEF Untouched, Moves, Forward, Silent

(* advance() waits, sends one request, or fails the call it was given      *)
(* because no candidate is left and no lookup runs.                        *)
LEMMA AdvanceMoves ==
  ASSUME TypeOK, NEW c \in Calls, NEW call \in Call, NEW d, NEW out, NEW res,
         Advance(c, call, d, out, res)
  PROVE  /\ calls'[c].target = call.target
         /\ \/ /\ calls'[c].status = call.status /\ events'[c] = events[c]
               /\ asked'[c] = asked[c] /\ outbound'[c] = out
            \/ /\ call.status = "live" /\ calls'[c].status = "live"
               /\ \E p \in Peers : Sends(c, p)
            \/ /\ call.status = "live" /\ calls'[c].status = "over"
               /\ ~call.lookup_running
               /\ \A i \in 1 .. Len(call.candidates) : ~Stops(call, d, i)
               /\ events'[c] = Append(events[c], call.last_failure)
               /\ asked'[c] = asked[c] /\ outbound'[c] = out
         /\ \A b \in Calls \ {c} : Untouched(b)
<1>t. /\ calls \in [Calls -> Call] /\ outbound \in [Calls -> SUBSET Peers]
      /\ asked \in [Calls -> [Peers -> Nat]] /\ events \in [Calls -> Seq(Outcomes)]
      /\ call.candidates \in Seq(Peers)
  BY DEF TypeOK, Outcomes, Call
<1>1. CASE call.status # "live" \/ call.in_flight \/ call.resolving
  <2>1. Store(c, call, out, res) /\ asked' = asked /\ events' = events
    BY <1>1, Zenon DEF Advance
  <2> QED
    BY <1>t, <2>1 DEF Store, Untouched
<1>2. CASE Ask(c, call, d, out, res) /\ call.status = "live"
  <2>1. PICK i \in 1 .. Len(call.candidates) :
          /\ Store(c, [call EXCEPT !.candidates = SubSeq(call.candidates, i + 1, Len(call.candidates)),
                                   !.in_flight = TRUE],
                   out \cup {call.candidates[i]}, res)
          /\ asked' = [asked EXCEPT ![c][call.candidates[i]] = @ + 1]
          /\ events' = events
    BY <1>2, Zenon DEF Ask
  <2> DEFINE new == [call EXCEPT !.candidates = SubSeq(call.candidates, i + 1, Len(call.candidates)),
                                 !.in_flight = TRUE]
             p   == call.candidates[i]
  <2>2. new.status = "live" /\ new.target = call.target
    BY <1>2 DEF Call
  <2>3. p \in Peers
    BY <1>t
  <2>4. /\ calls' = [calls EXCEPT ![c] = new] /\ outbound' = [outbound EXCEPT ![c] = out \cup {p}]
        /\ asked' = [asked EXCEPT ![c] = [asked[c] EXCEPT ![p] = asked[c][p] + 1]]
    BY <1>t, <2>1 DEF Store
  <2> HIDE DEF new, p
  <2>5. Sends(c, p)
    BY <1>t, <2>4 DEF Sends
  <2>6. calls'[c] = new
    BY <1>t, <2>4
  <2>7. \A b \in Calls \ {c} : Untouched(b)
    BY <1>t, <2>1, <2>4 DEF Untouched
  <2> QED
    BY <1>2, <2>2, <2>3, <2>5, <2>6, <2>7
<1>3. CASE Resolve(c, call, d, out, res) /\ call.status = "live"
  <2>1. PICK i \in 1 .. Len(call.candidates) :
          /\ Store(c, [call EXCEPT !.candidates = SubSeq(call.candidates, i, Len(call.candidates)),
                                   !.resolving = TRUE,
                                   !.resolved = call.resolved \cup {call.candidates[i]}],
                   out, res \cup {call.candidates[i]})
          /\ asked' = asked
          /\ events' = events
    BY <1>3, Zenon DEF Resolve
  <2> DEFINE new == [call EXCEPT !.candidates = SubSeq(call.candidates, i, Len(call.candidates)),
                                 !.resolving = TRUE,
                                 !.resolved = call.resolved \cup {call.candidates[i]}]
  <2>2. new.status = "live" /\ new.target = call.target
    BY <1>3 DEF Call
  <2>3. calls' = [calls EXCEPT ![c] = new] /\ outbound' = [outbound EXCEPT ![c] = out]
    BY <2>1 DEF Store
  <2> HIDE DEF new
  <2> QED
    BY <1>3, <1>t, <2>1, <2>2, <2>3 DEF Untouched
<1>4. CASE /\ \A i \in 1 .. Len(call.candidates) : ~Stops(call, d, i)
           /\ GiveUp(c, call, out, res) /\ call.status = "live"
  <2>1. CASE call.lookup_running
    <3>1. /\ Store(c, [call EXCEPT !.candidates = <<>>], out, res)
          /\ asked' = asked /\ events' = events
      BY <1>4, <2>1, Zenon DEF GiveUp
    <3> DEFINE new == [call EXCEPT !.candidates = <<>>]
    <3>2. new.status = "live" /\ new.target = call.target
      BY <1>4 DEF Call
    <3>3. calls' = [calls EXCEPT ![c] = new] /\ outbound' = [outbound EXCEPT ![c] = out]
      BY <3>1 DEF Store
    <3> HIDE DEF new
    <3> QED
      BY <1>4, <1>t, <3>1, <3>2, <3>3 DEF Untouched
  <2>2. CASE ~call.lookup_running
    <3>1. /\ Store(c, [call EXCEPT !.candidates = <<>>, !.status = "over"], out, res)
          /\ asked' = asked
          /\ events' = [events EXCEPT ![c] = Append(events[c], call.last_failure)]
      BY <1>4, <2>2 DEF GiveUp, Emit
    <3> DEFINE new == [call EXCEPT !.candidates = <<>>, !.status = "over"]
    <3>2. new.status = "over" /\ new.target = call.target
      BY DEF Call
    <3>3. calls' = [calls EXCEPT ![c] = new] /\ outbound' = [outbound EXCEPT ![c] = out]
      BY <3>1 DEF Store
    <3> HIDE DEF new
    <3>4. calls'[c] = new /\ outbound'[c] = out /\ asked'[c] = asked[c]
          /\ events'[c] = Append(events[c], call.last_failure)
      BY <1>t, <3>1, <3>3
    <3>5. \A b \in Calls \ {c} : Untouched(b)
      BY <1>t, <3>1, <3>3 DEF Untouched
    <3> QED
      BY <1>4, <2>2, <3>2, <3>4, <3>5
  <2> QED
    BY <2>1, <2>2
<1> QED
  BY <1>1, <1>2, <1>3, <1>4, Zenon DEF Advance

(* A handler that hands advance() the record of call c, changed in its     *)
(* flags only, and what is left of its requests, makes every call move.    *)
LEMMA HandlerMoves ==
  ASSUME IInv, NEW c \in Calls, NEW call \in Call, NEW d, NEW out, NEW res,
         Advance(c, call, d, out, res),
         call.status = calls[c].status, call.target = calls[c].target,
         out \subseteq outbound[c]
  PROVE  \A b \in Calls : Moves(b)
<1>1. TypeOK /\ CallInv(c)
  BY DEF IInv
<1>2. ASSUME NEW b \in Calls \ {c} PROVE Moves(b)
  BY <1>1, AdvanceMoves, UntouchedMoves
<1>3. Moves(c)
  <2>1. CASE /\ calls'[c].status = call.status /\ events'[c] = events[c]
             /\ asked'[c] = asked[c] /\ outbound'[c] = out /\ calls'[c].target = call.target
    BY <2>1 DEF Moves, Forward, Silent
  <2>2. CASE /\ call.status = "live" /\ calls'[c].status = "live"
             /\ \E p \in Peers : Sends(c, p)
             /\ calls'[c].target = call.target
    BY <2>2 DEF Moves, Forward
  <2>3. CASE /\ call.status = "live" /\ calls'[c].status = "over"
             /\ events'[c] = Append(events[c], call.last_failure)
             /\ asked'[c] = asked[c] /\ outbound'[c] = out /\ calls'[c].target = call.target
    <3>1. events[c] \in Seq(Outcomes) /\ Len(events[c]) = 0
      BY <1>1, <2>3 DEF CallInv, CallOK, Core, Typed, Phase
    <3>2. events'[c] = <<call.last_failure>> /\ call.last_failure # "response"
      <4>1. events[c] = <<>>
        BY <3>1
      <4>2. call.last_failure \in Failures
        BY DEF Call
      <4> QED
        BY <2>3, <4>1, <4>2 DEF Failures
    <3>3. events'[c] # <<"response">>
      BY <3>2
    <3> QED
      BY <2>3, <3>3 DEF Moves, Forward, Silent
  <2> QED
    BY <1>1, <2>1, <2>2, <2>3, AdvanceMoves
<1> QED
  BY <1>2, <1>3

(* A new call starts: its first request is sent, or something is looked    *)
(* up; it cannot fail at once.                                             *)
LEMMA StartMoves ==
  ASSUME IInv, NEW c \in Calls, NEW call \in Call, NEW d,
         calls[c].status = "new", call.status = "live",
         Advance(c, call, d, outbound[c], resolutions[c]),
         call.lookup_running \/ \E i \in 1 .. Len(call.candidates) : Stops(call, d, i)
  PROVE  \A b \in Calls : Moves(b)
<1>1. TypeOK
  BY DEF IInv
<1>2. ASSUME NEW b \in Calls \ {c} PROVE Moves(b)
  BY <1>1, AdvanceMoves, UntouchedMoves
<1>3. /\ calls'[c].status = "live"
      /\ \/ asked'[c] = asked[c] /\ outbound'[c] = outbound[c]
         \/ \E p \in Peers : Sends(c, p)
  BY <1>1, AdvanceMoves
<1>4. Moves(c)
  BY <1>3 DEF Moves, Forward, Silent
<1> QED
  BY <1>2, <1>4

(* A call to one node.                                                     *)
LEMMA RpcToNodeMoves ==
  ASSUME IInv, NEW c \in Calls, NEW g \in Groups, NEW p \in Peers, RpcToNode(c, g, p)
  PROVE  \A b \in Calls : Moves(b)
<1> DEFINE q   == <<p>>
           new == [NewCall(g, p) EXCEPT !.candidates = q, !.seen = {p}]
<1>1. q \in Seq(Peers) /\ Len(q) = 1 /\ q[1] = p
  OBVIOUS
<1>2. Advance(c, new, dialable, outbound[c], resolutions[c]) /\ calls[c].status = "new"
  BY DEF RpcToNode
<1> HIDE DEF q
<1>3. new \in Call /\ new.status = "live" /\ new.candidates = q /\ new.resolved = {}
  BY <1>1 DEF Call, NewCall, Failures
<1> HIDE DEF new
<1>4. \E i \in 1 .. Len(new.candidates) : Stops(new, dialable, i)
  <2>1. 1 \in 1 .. Len(new.candidates) /\ new.candidates[1] \notin new.resolved
    BY <1>1, <1>3
  <2> QED
    BY <2>1 DEF Stops
<1> QED
  BY <1>2, <1>3, <1>4, StartMoves

(* A call to any node of a group.                                          *)
LEMMA RpcToGroupMoves ==
  ASSUME IInv, NEW c \in Calls, NEW g \in Groups, RpcToGroup(c, g)
  PROVE  \A b \in Calls : Moves(b)
<1> DEFINE none == <<>>
           new  == [NewCall(g, AnyNode) EXCEPT !.lookup_running = TRUE]
<1>1. none \in Seq(Peers)
  OBVIOUS
<1>2. new.status = "live" /\ new.lookup_running
  BY DEF NewCall
<1>3. Advance(c, new, dialable, outbound[c], resolutions[c]) /\ calls[c].status = "new"
  BY DEF RpcToGroup
<1> HIDE DEF none
<1>4. new \in Call
  BY <1>1 DEF Call, NewCall, Failures, none
<1> HIDE DEF new
<1> QED
  BY <1>2, <1>3, <1>4, StartMoves

(* A provider report.                                                      *)
LEMMA ProvidersFoundMoves ==
  ASSUME IInv, NEW c \in Calls, NEW batch \in SUBSET Peers, NEW last \in BOOLEAN,
         ProvidersFound(c, batch, last)
  PROVE  \A b \in Calls : Moves(b)
<1> DEFINE penalized == {p \in Peers : failed[p] = "fresh"}
           good  == last_success[calls[c].group]
           added == NewProviders(calls[c], batch)
           call  == calls[c]
<1>1. call \in Call /\ CallInv(c)
  BY DEF IInv, TypeOK
<1>2. CASE Live(c)
  <2>1. PICK queue \in EnqueueAll(calls[c].candidates, added, good, penalized) :
          Advance(c, [calls[c] EXCEPT !.candidates = queue, !.seen = @ \cup added,
                                      !.lookup_running = @ /\ ~last],
                  dialable, outbound[c], resolutions[c])
    BY <1>2 DEF ProvidersFound
  <2> DEFINE run == call.lookup_running /\ ~last
             new == [call EXCEPT !.candidates = queue, !.seen = call.seen \cup added,
                                 !.lookup_running = run]
  <2>2. /\ call.candidates \in Seq(Peers) /\ Distinct(call.candidates)
        /\ Queued(call.candidates) \subseteq call.seen /\ call.seen \subseteq Peers
    BY <1>1 DEF CallInv, CallOK, Core, Tracked, Call
  <2>3. added \subseteq Peers /\ added \cap call.seen = {}
    BY DEF NewProviders
  <2>4. queue \in Seq(Peers)
    <3>1. added \cap Queued(call.candidates) = {} /\ IsFiniteSet(Peers)
      BY <2>2, <2>3, CallsAssumption
    <3> HIDE DEF added, penalized, good, call
    <3>2. queue \in EnqueueAll(call.candidates, added, good, penalized)
      BY <2>1 DEF call
    <3> QED
      BY <2>2, <2>3, <3>1, <3>2, EnqueueAllQueue
  <2>5. Advance(c, new, dialable, outbound[c], resolutions[c])
    BY <2>1
  <2>6. run \in BOOLEAN /\ call.seen \cup added \in SUBSET Peers
    BY <1>1, <2>2, <2>3 DEF Call
  <2> HIDE DEF added, run, call
  <2>7. new \in Call /\ new.status = call.status /\ new.target = call.target
    BY <1>1, <2>4, <2>6 DEF Call
  <2> HIDE DEF new
  <2> QED
    BY <2>5, <2>7, HandlerMoves DEF call
<1>3. CASE ~Live(c)
  <2>1. \A b \in Calls : Untouched(b)
    BY <1>3 DEF ProvidersFound, Untouched
  <2> QED
    BY <2>1, UntouchedMoves
<1> QED
  BY <1>2, <1>3

(* The end of an address lookup.                                           *)
LEMMA ClosestPeersMoves ==
  ASSUME IInv, NEW c \in Calls, NEW peer \in Peers, NEW found, ClosestPeers(c, peer, found)
  PROVE  \A b \in Calls : Moves(b)
<1> DEFINE call == calls[c]
           new  == IF Live(c) THEN [call EXCEPT !.resolving = FALSE] ELSE call
<1>1. call \in Call
  BY DEF IInv, TypeOK
<1>2. Advance(c, new, dialable \cup found, outbound[c], resolutions[c] \ {peer})
  BY DEF ClosestPeers
<1>3. new \in Call /\ new.status = call.status /\ new.target = call.target
  BY <1>1 DEF Call
<1> HIDE DEF new
<1> QED
  BY <1>2, <1>3, HandlerMoves

(* The end of a request that failed, or whose response was refused.        *)
LEMMA FailedAttemptMoves ==
  ASSUME IInv, NEW c \in Calls, NEW peer \in Peers, NEW reason \in Failures,
         Advance(c, IF Live(c) THEN FailedAttempt(calls[c], reason) ELSE calls[c],
                 dialable, outbound[c] \ {peer}, resolutions[c])
  PROVE  \A b \in Calls : Moves(b)
<1> DEFINE call == calls[c]
           new  == IF Live(c) THEN FailedAttempt(call, reason) ELSE call
<1>1. call \in Call
  BY DEF IInv, TypeOK
<1>2. new \in Call /\ new.status = call.status /\ new.target = call.target
  BY <1>1 DEF Call, FailedAttempt
<1>3. Advance(c, new, dialable, outbound[c] \ {peer}, resolutions[c])
  OBVIOUS
<1> HIDE DEF new
<1> QED
  BY <1>2, <1>3, HandlerMoves

(* A response that is reported ends the call that was asking.              *)
LEMMA ResponseTakenMoves ==
  ASSUME IInv, NEW c \in Calls, NEW peer \in Peers, NEW proved, ResponseTaken(c, peer, proved)
  PROVE  \A b \in Calls : Moves(b)
<1> DEFINE call == calls[c]
           new  == [call EXCEPT !.in_flight = FALSE, !.status = "over"]
           out  == outbound[c] \ {peer}
<1>1. /\ peer \in outbound[c] /\ call.status = "live"
      /\ calls' = [calls EXCEPT ![c] = new] /\ outbound' = [outbound EXCEPT ![c] = out]
      /\ events' = [events EXCEPT ![c] = Append(events[c], "response")]
      /\ asked' = asked
  BY DEF ResponseTaken, Live, Emit, Store
<1>2. /\ calls \in [Calls -> Call] /\ outbound \in [Calls -> SUBSET Peers]
      /\ events \in [Calls -> Seq(Outcomes)]
  BY DEF IInv, TypeOK, Outcomes
<1>3. new.status = "over" /\ new.target = call.target
  BY <1>2 DEF Call
<1> HIDE DEF new
<1>4. ASSUME NEW b \in Calls \ {c} PROVE Moves(b)
  <2>1. Untouched(b)
    BY <1>1, <1>2 DEF Untouched
  <2> QED
    BY <2>1, UntouchedMoves
<1>5. Moves(c)
  BY <1>1, <1>2, <1>3 DEF Moves, Forward, Silent
<1> QED
  BY <1>4, <1>5

(* A response that comes too late only leaves State::outbound.             *)
LEMMA ResponseLateMoves ==
  ASSUME IInv, NEW c \in Calls, NEW peer \in Peers, ResponseLate(c, peer)
  PROVE  \A b \in Calls : Moves(b)
<1>1. /\ calls' = [calls EXCEPT ![c] = calls[c]]
      /\ outbound' = [outbound EXCEPT ![c] = outbound[c] \ {peer}]
      /\ events' = events /\ asked' = asked
  BY DEF ResponseLate, Store
<1>2. calls \in [Calls -> Call] /\ outbound \in [Calls -> SUBSET Peers]
  BY DEF IInv, TypeOK
<1>3. ASSUME NEW b \in Calls \ {c} PROVE Moves(b)
  <2>1. Untouched(b)
    BY <1>1, <1>2 DEF Untouched
  <2> QED
    BY <2>1, UntouchedMoves
<1>4. Moves(c)
  BY <1>1, <1>2 DEF Moves, Forward, Silent
<1> QED
  BY <1>3, <1>4

(* A deadline passes: the call is marked.                                  *)
LEMMA DeadlinePassesMoves ==
  ASSUME IInv, NEW c \in Calls, DeadlinePasses(c)
  PROVE  \A b \in Calls : Moves(b)
<1> DEFINE new == [calls[c] EXCEPT !.overdue = TRUE]
<1>1. calls \in [Calls -> Call]
  BY DEF IInv, TypeOK
<1>2. /\ calls' = [calls EXCEPT ![c] = new]
      /\ outbound' = outbound /\ events' = events /\ asked' = asked
  BY <1>1 DEF DeadlinePasses, requests
<1>3. new.status = calls[c].status /\ new.target = calls[c].target
  BY <1>1 DEF Call
<1> HIDE DEF new
<1>4. ASSUME NEW b \in Calls \ {c} PROVE Moves(b)
  <2>1. Untouched(b)
    BY <1>1, <1>2 DEF Untouched
  <2> QED
    BY <2>1, UntouchedMoves
<1>5. Moves(c)
  BY <1>1, <1>2, <1>3 DEF Moves, Forward, Silent
<1> QED
  BY <1>4, <1>5

(* tick() ends the calls that are overdue and leaves the others alone.     *)
LEMMA TickMoves ==
  ASSUME IInv, Tick, NEW c \in Calls
  PROVE  Moves(c)
<1> DEFINE new == [calls[c] EXCEPT !.status = "over"]
<1>1. /\ calls[c] \in Call /\ CallInv(c)
  BY DEF IInv, TypeOK
<1>2. outbound' = outbound /\ asked' = asked
  BY DEF Tick, requests
<1>3. CASE c \notin Expired
  <2>1. Untouched(c)
    BY <1>2, <1>3 DEF Tick, Untouched
  <2> QED
    BY <2>1, UntouchedMoves
<1>4. CASE c \in Expired
  <2>1. calls'[c] = new /\ events'[c] = Append(events[c], "timeout")
    BY <1>4 DEF Tick
  <2>2. calls[c].status = "live"
    BY <1>4 DEF Expired, Live
  <2>3. new.status = "over" /\ new.target = calls[c].target
    BY <1>1 DEF Call
  <2>4. events[c] \in Seq(Outcomes) /\ Len(events[c]) = 0
    BY <1>1, <2>2 DEF CallInv, CallOK, Core, Typed, Phase
  <2>5. events'[c] # <<"response">>
    <3>1. events[c] = <<>>
      BY <2>4
    <3>2. events'[c] = <<"timeout">>
      BY <2>1, <3>1
    <3> QED
      BY <3>2
  <2> HIDE DEF new
  <2> QED
    BY <1>2, <2>1, <2>2, <2>3, <2>5 DEF Moves, Forward, Silent
<1> QED
  BY <1>3, <1>4

(* Every step makes every call move.                                       *)
LEMMA StepMoves == IInv /\ [Next]_vars => \A b \in Calls : Moves(b)
<1> SUFFICES ASSUME IInv, [Next]_vars PROVE \A b \in Calls : Moves(b)
  OBVIOUS
<1> DEFINE All == \A b \in Calls : Moves(b)
<1>1. ASSUME NEW c \in Calls, NEW g \in Groups, NEW p \in Peers, RpcToNode(c, g, p) PROVE All
  BY <1>1, RpcToNodeMoves
<1>2. ASSUME NEW c \in Calls, NEW g \in Groups, RpcToGroup(c, g) PROVE All
  BY <1>2, RpcToGroupMoves
<1>3. ASSUME NEW c \in Calls, LookupStep(c) PROVE All
  BY <1>3, ProvidersFoundMoves DEF LookupStep
<1>4. ASSUME NEW c \in Calls, ResolutionEnds(c) PROVE All
  BY <1>4, ClosestPeersMoves DEF ResolutionEnds
<1>5. ASSUME NEW c \in Calls, RequestEnds(c) PROVE All
  <2>1. ASSUME NEW peer \in Peers, NEW reason \in Failures, OutboundFailure(c, peer, reason)
        PROVE  All
    BY <2>1, FailedAttemptMoves DEF OutboundFailure
  <2>2. ASSUME NEW peer \in Peers, NEW proved, ResponseRefused(c, peer, proved)
        PROVE  All
    <3>1. "refused" \in Failures
      BY DEF Failures
    <3>2. Advance(c, IF Live(c) THEN FailedAttempt(calls[c], "refused") ELSE calls[c],
                  dialable, outbound[c] \ {peer}, resolutions[c])
      BY <2>2 DEF ResponseRefused
    <3> QED
      BY <3>1, <3>2, FailedAttemptMoves
  <2> QED
    BY <1>5, <2>1, <2>2, ResponseTakenMoves, ResponseLateMoves DEF RequestEnds
<1>6. ASSUME NEW c \in Calls, DeadlinePasses(c) PROVE All
  BY <1>6, DeadlinePassesMoves
<1>7. ASSUME NEW p \in Peers, PenaltyOver(p) \/ LinkChange(p) PROVE All
  <2>1. \A b \in Calls : Untouched(b)
    BY <1>7 DEF PenaltyOver, LinkChange, requests, Untouched
  <2> QED
    BY <2>1, UntouchedMoves
<1>8. CASE Tick
  BY <1>8, TickMoves
<1>9. CASE UNCHANGED vars
  <2>1. \A b \in Calls : Untouched(b)
    BY <1>9 DEF vars, requests, Untouched
  <2> QED
    BY <2>1, UntouchedMoves
<1> QED
  BY <1>1, <1>2, <1>3, <1>4, <1>5, <1>6, <1>7, <1>8, <1>9 DEF Next

-----------------------------------------------------------------------------
(* The refinement mapping.                                                 *)

(* What the contract sees of a call in a state of the invariant.           *)
Seen(c) ==
  /\ calls[c].status \in {"new", "live", "over"}
  /\ calls[c].status = "new"  => Promised(c).outcome = "none"
  /\ calls[c].status = "live" => Promised(c).outcome = "pending"
  /\ calls[c].status = "over" =>
       /\ Promised(c).outcome = events[c][1] /\ events[c][1] \in Outcomes
       /\ events[c][1] = "response" => events[c] = <<"response">>
  /\ Promised(c).target = calls[c].target
  /\ Promised(c).asking = IF calls[c].status = "live" THEN outbound[c] ELSE {}
  /\ Promised(c).tried = {p \in Peers : asked[c][p] > 0}
  /\ Promised(c) = [outcome |-> Promised(c).outcome, target |-> Promised(c).target,
                    asking |-> Promised(c).asking, tried |-> Promised(c).tried]

AllSeen == \A c \in Calls : Seen(c)

(* The mapping in a state of the invariant.                                *)
LEMMA PromisedIs == IInv => AllSeen
<1> SUFFICES ASSUME IInv, NEW c \in Calls PROVE Seen(c)
  BY DEF AllSeen
<1>1. Core(calls[c], outbound[c], resolutions[c], c \in provider_lookups, asked[c], events[c])
  BY DEF IInv, CallInv, CallOK
<1>2. calls[c].status \in {"new", "live", "over"} /\ events[c] \in Seq(Outcomes)
  BY <1>1 DEF Core, Typed, Call
<1>3. /\ calls[c].status = "new" => Len(events[c]) = 0
      /\ calls[c].status = "live" => Len(events[c]) = 0
      /\ calls[c].status = "over" => Len(events[c]) = 1
  BY <1>1 DEF Core, Phase
<1>4. Len(events[c]) = 1 => events[c][1] \in Outcomes /\ events[c] = <<events[c][1]>>
  BY <1>2
<1> QED
  BY <1>2, <1>3, <1>4 DEF Seen, Promised, Live

(* The same after a step.                                                  *)
LEMMA PromisedNext == IInv' => AllSeen'
  BY PromisedIs, PTL

(* A move between two states of the invariant is a step of the contract.   *)
LEMMA MoveIsStep ==
  ASSUME IInv, IInv', NEW c \in Calls, Moves(c)
  PROVE  \/ Promised(c)' = Promised(c)
         \/ Contract!Begins(Promised(c), Promised(c)')
         \/ Contract!Proceeds(Promised(c), Promised(c)')
         \/ Contract!Ends(Promised(c), Promised(c)')
<1> DEFINE old == Promised(c)
           new == Promised(c)'
<1> SUFFICES \/ new = old
             \/ Contract!Begins(old, new)
             \/ Contract!Proceeds(old, new)
             \/ Contract!Ends(old, new)
  OBVIOUS
<1>0. Seen(c) /\ Seen(c)'
  BY PromisedIs, PromisedNext DEF AllSeen
<1>1. /\ calls[c].status \in {"new", "live", "over"}
      /\ calls[c].status = "new"  => old.outcome = "none"
      /\ calls[c].status = "live" => old.outcome = "pending"
      /\ calls[c].status = "over" => old.outcome = events[c][1]
      /\ old.target = calls[c].target
      /\ old.asking = IF calls[c].status = "live" THEN outbound[c] ELSE {}
      /\ old.tried = {p \in Peers : asked[c][p] > 0}
      /\ old = [outcome |-> old.outcome, target |-> old.target, asking |-> old.asking,
                tried |-> old.tried]
  BY <1>0 DEF Seen
<1>2. /\ calls'[c].status \in {"new", "live", "over"}
      /\ calls'[c].status = "new"  => new.outcome = "none"
      /\ calls'[c].status = "live" => new.outcome = "pending"
      /\ calls'[c].status = "over" =>
           /\ new.outcome = events'[c][1] /\ events'[c][1] \in Outcomes
           /\ events'[c][1] = "response" => events'[c] = <<"response">>
      /\ new.target = calls'[c].target
      /\ new.asking = IF calls'[c].status = "live" THEN outbound'[c] ELSE {}
      /\ new.tried = {p \in Peers : asked'[c][p] > 0}
      /\ new = [outcome |-> new.outcome, target |-> new.target, asking |-> new.asking,
                tried |-> new.tried]
  BY <1>0 DEF Seen
<1> HIDE DEF old, new
<1>3. Core(calls[c], outbound[c], resolutions[c], c \in provider_lookups, asked[c], events[c])
  BY DEF IInv, CallInv, CallOK
<1>4. Core(calls'[c], outbound'[c], resolutions'[c], c \in provider_lookups', asked'[c],
           events'[c])
  BY DEF IInv, CallInv, CallOK
<1>5. /\ asked[c] \in [Peers -> Nat] /\ outbound[c] \subseteq Peers
      /\ \A p, q \in outbound[c] : p = q
  BY <1>3 DEF Core, Typed, Tracked
<1>6. /\ asked'[c] \in [Peers -> Nat] /\ outbound'[c] \subseteq Peers
      /\ \A p, q \in outbound'[c] : p = q
      /\ \A p \in Peers : asked'[c][p] <= 1
      /\ \A p \in Peers : asked'[c][p] > 0 =>
           IF calls'[c].target = AnyNode THEN p # Local ELSE p = calls'[c].target
  BY <1>4 DEF Core, Typed, Tracked
<1>7. CASE Silent(c)
  <2>1. new.tried = old.tried /\ (outbound'[c] = outbound[c] \/ outbound'[c] = {})
    BY <1>1, <1>2, <1>5, <1>7 DEF Silent
  <2>2. CASE calls[c].status = "new" /\ calls'[c].status = "live"
    <3>1. outbound[c] = {}
      BY <1>3, <2>2 DEF Core, Phase
    <3> QED
      BY <1>1, <1>2, <2>1, <2>2, <3>1 DEF Contract!Begins, Contract!Asks
  <2>3. CASE calls[c].status = "live" /\ calls'[c].status = "over"
    <3>1. new.target = old.target /\ new.asking = {} /\ old.asking = outbound[c]
      BY <1>1, <1>2, <2>3 DEF Moves
    <3>2. new.outcome \in Contract!Outcome
      BY <1>2, <2>3 DEF Contract!Outcome, Outcomes, Failures
    <3>3. new.outcome = "response" => old.asking # {}
      BY <1>2, <2>3, <3>1 DEF Moves
    <3> QED
      BY <1>1, <2>1, <2>3, <3>1, <3>2, <3>3 DEF Contract!Ends
  <2>4. CASE calls'[c].status = calls[c].status
    <3>1. new.target = old.target
      BY <1>1, <1>2, <2>4 DEF Moves
    <3>2. CASE calls[c].status = "live" /\ outbound'[c] = {}
      BY <1>1, <1>2, <2>1, <2>4, <3>1, <3>2 DEF Contract!Proceeds, Contract!Asks
    <3>3. CASE calls[c].status # "live" \/ outbound'[c] = outbound[c]
      <4>1. new.asking = old.asking
        BY <1>1, <1>2, <2>4, <3>3
      <4>2. new.outcome = old.outcome
        BY <1>1, <1>2, <2>4 DEF Moves
      <4>3. new = old
        BY <1>1, <1>2, <2>1, <3>1, <4>1, <4>2
      <4> QED
        BY <4>3
    <3> QED
      BY <2>1, <3>2, <3>3
  <2> QED
    BY <2>2, <2>3, <2>4 DEF Moves, Forward
<1>8. ASSUME NEW p \in Peers, Sends(c, p), calls'[c].status = "live"
      PROVE  Contract!Begins(old, new) \/ Contract!Proceeds(old, new)
  <2>1. outbound'[c] = {p}
    BY <1>6, <1>8 DEF Sends
  <2>2. asked'[c][p] = asked[c][p] + 1 /\ \A q \in Peers \ {p} : asked'[c][q] = asked[c][q]
    BY <1>5, <1>8 DEF Sends
  <2>3. asked[c][p] \in Nat /\ asked'[c][p] <= 1
    BY <1>5, <1>6
  <2>4. asked[c][p] = 0 /\ asked'[c][p] = 1
    BY <2>2, <2>3
  <2>5. new.tried = old.tried \cup {p} /\ p \notin old.tried
    BY <1>1, <1>2, <1>8, <2>2, <2>4
  <2>6. p \in Contract!May(new.target)
    BY <1>2, <1>6, <1>8, <2>4 DEF Contract!May
  <2>7. Contract!Asks(old, new)
    BY <1>2, <1>8, <2>1, <2>5, <2>6 DEF Contract!Asks
  <2>8. CASE calls[c].status = "new"
    BY <1>1, <1>2, <1>8, <2>7, <2>8 DEF Contract!Begins
  <2>9. CASE calls[c].status = "live"
    <3>1. new.target = old.target
      BY <1>1, <1>2, <2>9 DEF Moves
    <3> QED
      BY <1>1, <1>2, <1>8, <2>7, <2>9, <3>1 DEF Contract!Proceeds
  <2> QED
    BY <1>1, <1>8, <2>8, <2>9 DEF Moves, Forward
<1> QED
  BY <1>7, <1>8 DEF Moves

(* Before the first call nothing was promised.                             *)
LEMMA InitContract == Init => Contract!Init
<1> SUFFICES ASSUME Init PROVE Contract!Init
  OBVIOUS
<1>1. IInv
  BY InitIInv
<1>2. ASSUME NEW c \in Calls
      PROVE  Promised(c) = [outcome |-> "none", target |-> AnyNode, asking |-> {}, tried |-> {}]
  <2>1. calls[c].status = "new" /\ calls[c].target = AnyNode
    BY DEF Init, NewCall
  <2>2. asked[c] = [p \in Peers |-> 0]
    BY DEF Init
  <2>3. {p \in Peers : asked[c][p] > 0} = {}
    BY <2>2
  <2> HIDE DEF Init
  <2> QED
    BY <1>1, <2>1, <2>3, PromisedIs DEF AllSeen, Seen
<1> QED
  BY <1>2 DEF Contract!Init

(* Every step of the calls is a step of the contract or leaves it alone.   *)
LEMMA NextContract ==
  IInv /\ IInv' /\ [Next]_vars => [Contract!Next]_([c \in Calls |-> Promised(c)])
<1> SUFFICES ASSUME IInv, IInv', [Next]_vars PROVE Contract!Next
  OBVIOUS
<1>1. ASSUME NEW c \in Calls
      PROVE  \/ Promised(c)' = Promised(c)
             \/ Contract!Begins(Promised(c), Promised(c)')
             \/ Contract!Proceeds(Promised(c), Promised(c)')
             \/ Contract!Ends(Promised(c), Promised(c)')
  BY StepMoves, MoveIsStep
<1> QED
  BY <1>1 DEF Contract!Next

(* RpcCalls implements CallContract: whatever responses, failures, lookups *)
(* and ticks race each other, a call in State::calls asks one node at a    *)
(* time, none twice, none it may not ask, and ends with one outcome.       *)
THEOREM CallsKeepContract == Spec => ImplementsContract
  BY Invariance, InitContract, NextContract, PTL DEF Spec, ImplementsContract, Contract!Spec

-----------------------------------------------------------------------------
(* The end of failover.                                                    *)

(* Whom the call may still ask or waits for; whose addresses it may still  *)
(* look up or waits for.                                                   *)
Requests(c) == {p \in Peers : asked[c][p] = 0 \/ p \in outbound[c]}
Searches(c) == {p \in Peers : p \notin calls[c].resolved \/ p \in resolutions[c]}

(* The answers of libp2p a call may still get.                             *)
Left(c) ==
  (Requests(c) \X {"response"}) \cup (Searches(c) \X {"addresses"})
    \cup ((provider_lookups \cap {c}) \X {"providers"})

Owed(c) ==
  /\ \A p \in outbound[c] : asked[c][p] > 0
  /\ resolutions[c] \subseteq calls[c].resolved

AllOwed == \A c \in Calls : Owed(c)

Same(c) == Untouched(c) /\ resolutions'[c] = resolutions[c]

(* What advance() adds to what a call has outstanding.                     *)
Adds(c, call, out, res, P, R) ==
  /\ outbound'[c] = out \cup P /\ resolutions'[c] = res \cup R
  /\ calls'[c].resolved = call.resolved \cup R
  /\ asked'[c] = [p \in Peers |-> IF p \in P THEN asked[c][p] + 1 ELSE asked[c][p]]

Pursues(c, call, out, res) ==
  \/ Adds(c, call, out, res, {}, {})
  \/ \E p \in Queued(call.candidates) : Adds(c, call, out, res, {p}, {})
  \/ \E p \in Queued(call.candidates) \ call.resolved : Adds(c, call, out, res, {}, {p})

(* advance() asks one candidate, looks the addresses up of one it did not  *)
(* look up before, or adds nothing.                                        *)
LEMMA AdvancePursues ==
  ASSUME TypeOK, NEW c \in Calls, NEW call \in Call, NEW d,
         NEW out \in SUBSET Peers, NEW res \in SUBSET Peers,
         Advance(c, call, d, out, res)
  PROVE  Pursues(c, call, out, res) /\ \A b \in Calls \ {c} : Same(b)
<1>t. /\ calls \in [Calls -> Call] /\ outbound \in [Calls -> SUBSET Peers]
      /\ resolutions \in [Calls -> SUBSET Peers]
      /\ asked \in [Calls -> [Peers -> Nat]]
      /\ call.candidates \in Seq(Peers)
  BY DEF TypeOK, Call
<1>s. ASSUME NEW new, NEW o, NEW r, Store(c, new, o, r)
      PROVE  /\ calls'[c] = new /\ outbound'[c] = o /\ resolutions'[c] = r
             /\ \A b \in Calls \ {c} : resolutions'[b] = resolutions[b]
  BY <1>t, <1>s DEF Store
<1>u. \A b \in Calls \ {c} : Untouched(b)
  BY AdvanceMoves
<1>n. ASSUME asked' = asked
      PROVE asked'[c] = [p \in Peers |-> IF p \in {} THEN asked[c][p] + 1 ELSE asked[c][p]]
  BY <1>t, <1>n
<1>w. ASSUME NEW new, Store(c, new, out, res), new.resolved = call.resolved, asked' = asked
      PROVE  Pursues(c, call, out, res) /\ \A b \in Calls \ {c} : Same(b)
  BY <1>w, <1>s, <1>n, <1>u DEF Pursues, Adds, Same
<1>1. CASE call.status # "live" \/ call.in_flight \/ call.resolving
  <2>1. Store(c, call, out, res) /\ asked' = asked
    BY <1>1, Zenon DEF Advance
  <2> QED
    BY <1>w, <2>1
<1>2. CASE Ask(c, call, d, out, res)
  <2>1. PICK i \in 1 .. Len(call.candidates) :
          /\ Store(c, [call EXCEPT !.candidates = SubSeq(call.candidates, i + 1, Len(call.candidates)),
                                   !.in_flight = TRUE],
                   out \cup {call.candidates[i]}, res)
          /\ asked' = [asked EXCEPT ![c][call.candidates[i]] = @ + 1]
    BY <1>2, Zenon DEF Ask
  <2> DEFINE new == [call EXCEPT !.candidates = SubSeq(call.candidates, i + 1, Len(call.candidates)),
                                 !.in_flight = TRUE]
             p   == call.candidates[i]
  <2>2. new.resolved = call.resolved
    BY DEF Call
  <2>3. p \in Peers /\ p \in Queued(call.candidates)
    BY <1>t DEF Queued
  <2>4. Store(c, new, out \cup {p}, res)
    BY <2>1
  <2>5. asked'[c] = [asked[c] EXCEPT ![p] = asked[c][p] + 1]
    BY <1>t, <2>1
  <2> HIDE DEF new, p
  <2>6. asked'[c] = [x \in Peers |-> IF x \in {p} THEN asked[c][x] + 1 ELSE asked[c][x]]
    BY <1>t, <2>3, <2>5
  <2>7. Adds(c, call, out, res, {p}, {})
    BY <1>s, <2>2, <2>4, <2>6 DEF Adds
  <2> QED
    BY <1>s, <1>u, <2>3, <2>4, <2>7 DEF Pursues, Same
<1>3. CASE Resolve(c, call, d, out, res)
  <2>1. PICK i \in 1 .. Len(call.candidates) :
          /\ FirstStop(call, d, i)
          /\ call.candidates[i] \notin d
          /\ Store(c, [call EXCEPT !.candidates = SubSeq(call.candidates, i, Len(call.candidates)),
                                   !.resolving = TRUE,
                                   !.resolved = call.resolved \cup {call.candidates[i]}],
                   out, res \cup {call.candidates[i]})
          /\ asked' = asked
    BY <1>3, Zenon DEF Resolve
  <2> DEFINE p   == call.candidates[i]
             new == [call EXCEPT !.candidates = SubSeq(call.candidates, i, Len(call.candidates)),
                                 !.resolving = TRUE,
                                 !.resolved = call.resolved \cup {p}]
  <2>2. p \in Queued(call.candidates) \ call.resolved
    BY <1>t, <2>1 DEF Queued, FirstStop, Stops
  <2>3. new.resolved = call.resolved \cup {p}
    BY DEF Call
  <2>4. Store(c, new, out, res \cup {p})
    BY <2>1
  <2> HIDE DEF new, p
  <2>5. Adds(c, call, out, res, {}, {p})
    BY <1>s, <1>n, <2>1, <2>3, <2>4 DEF Adds
  <2> QED
    BY <1>s, <1>u, <2>2, <2>4, <2>5 DEF Pursues, Same
<1>4. CASE GiveUp(c, call, out, res)
  <2> DEFINE wait == [call EXCEPT !.candidates = <<>>]
             fail == [call EXCEPT !.candidates = <<>>, !.status = "over"]
  <2>1. wait.resolved = call.resolved /\ fail.resolved = call.resolved
    BY DEF Call
  <2>2. (Store(c, wait, out, res) \/ Store(c, fail, out, res)) /\ asked' = asked
    BY <1>4 DEF GiveUp
  <2> HIDE DEF wait, fail
  <2> QED
    BY <1>w, <2>1, <2>2
<1> QED
  BY <1>1, <1>2, <1>3, <1>4, Zenon DEF Advance

(* A handler that ends in advance() opens nothing it had closed before.    *)
LEMMA HandlerOwes ==
  ASSUME TypeOK, NEW c \in Calls, NEW call \in Call, NEW d,
         NEW out \in SUBSET Peers, NEW res \in SUBSET Peers,
         Advance(c, call, d, out, res),
         \A p \in out : asked[c][p] > 0,
         res \subseteq call.resolved,
         \A p \in Queued(call.candidates) : asked[c][p] = 0
  PROVE  /\ Owed(c)'
         /\ Requests(c)' \subseteq {p \in Peers : asked[c][p] = 0 \/ p \in out}
         /\ Searches(c)' \subseteq {p \in Peers : p \notin call.resolved \/ p \in res}
         /\ \A b \in Calls \ {c} : Same(b)
<1>1. Pursues(c, call, out, res) /\ \A b \in Calls \ {c} : Same(b)
  BY AdvancePursues
<1>2. /\ asked[c] \in [Peers -> Nat] /\ call.candidates \in Seq(Peers)
      /\ call.resolved \subseteq Peers
  BY DEF TypeOK, Call
<1>3. Queued(call.candidates) \subseteq Peers
  BY <1>2 DEF Queued
<1> DEFINE Goal == /\ Owed(c)'
                   /\ Requests(c)' \subseteq {p \in Peers : asked[c][p] = 0 \/ p \in out}
                   /\ Searches(c)' \subseteq {p \in Peers : p \notin call.resolved \/ p \in res}
<1>4. ASSUME NEW P \in SUBSET Queued(call.candidates),
             NEW R \in SUBSET (Queued(call.candidates) \ call.resolved),
             Adds(c, call, out, res, P, R)
      PROVE  Goal
  <2>1. \A p \in Peers : asked'[c][p] = IF p \in P THEN asked[c][p] + 1 ELSE asked[c][p]
    BY <1>4 DEF Adds
  <2>2. \A p \in P : asked[c][p] = 0 /\ asked'[c][p] = 1
    BY <1>2, <1>3, <2>1
  <2>3. Owed(c)'
    BY <1>2, <1>4, <2>1, <2>2 DEF Owed, Adds
  <2>4. Requests(c)' \subseteq {p \in Peers : asked[c][p] = 0 \/ p \in out}
    BY <1>2, <1>4, <2>1, <2>2 DEF Requests, Adds
  <2>5. Searches(c)' \subseteq {p \in Peers : p \notin call.resolved \/ p \in res}
    BY <1>4 DEF Searches, Adds
  <2> QED
    BY <2>3, <2>4, <2>5
<1>5. Goal
  <2> HIDE DEF Goal
  <2>1. CASE Adds(c, call, out, res, {}, {})
    BY <1>4, <2>1
  <2>2. ASSUME NEW p \in Queued(call.candidates), Adds(c, call, out, res, {p}, {}) PROVE Goal
    BY <1>4, <2>2
  <2>3. ASSUME NEW p \in Queued(call.candidates) \ call.resolved, Adds(c, call, out, res, {}, {p})
        PROVE  Goal
    BY <1>4, <2>3
  <2> QED
    BY <1>1, <2>1, <2>2, <2>3 DEF Pursues
<1> QED
  BY <1>1, <1>5

(* What a step does to the answers a call may still get: none comes back.  *)
Keeps(c) ==
  /\ Owed(c)'
  /\ calls[c].status # "new" =>
       /\ Requests(c)' \subseteq Requests(c)
       /\ Searches(c)' \subseteq Searches(c)
       /\ c \in provider_lookups' => c \in provider_lookups

AllKeep == \A c \in Calls : Keeps(c)

(* One of them was received.                                               *)
Pays(c) ==
  \/ \E p \in Requests(c) : p \notin Requests(c)'
  \/ \E p \in Searches(c) : p \notin Searches(c)'
  \/ c \in provider_lookups /\ c \notin provider_lookups'

(* A call that a step does not touch.                                      *)
LEMMA SameKeeps ==
  ASSUME NEW c, Owed(c), Same(c), c \in provider_lookups' => c \in provider_lookups
  PROVE  Keeps(c)
  BY DEF Keeps, Owed, Same, Untouched, Requests, Searches

(* No candidate of a call was asked before.                                *)
LEMMA CandidatesFresh ==
  ASSUME IInv, NEW c \in Calls
  PROVE  \A p \in Queued(calls[c].candidates) : asked[c][p] = 0
<1>1. /\ calls[c].candidates \in Seq(Peers) /\ asked[c] \in [Peers -> Nat]
      /\ Tracked(calls[c], outbound[c], resolutions[c], asked[c])
  BY DEF IInv, TypeOK, CallInv, CallOK, Core, Call
<1>2. Queued(calls[c].candidates) \subseteq Peers
  BY <1>1 DEF Queued
<1> QED
  BY <1>1, <1>2 DEF Tracked

(* A handler that takes answers away from what a call waits for and goes   *)
(* on with advance().                                                      *)
LEMMA HandlerKeeps ==
  ASSUME IInv, AllOwed, NEW c \in Calls, NEW call \in Call, NEW d, NEW out, NEW res,
         Advance(c, call, d, out, res),
         call.resolved = calls[c].resolved,
         out \subseteq outbound[c], res \subseteq resolutions[c],
         \A p \in Queued(call.candidates) : asked[c][p] = 0,
         provider_lookups' \subseteq provider_lookups
  PROVE  /\ AllKeep
         /\ \A p \in outbound[c] \ out : p \in Requests(c) /\ p \notin Requests(c)'
         /\ \A p \in resolutions[c] \ res : p \in Searches(c) /\ p \notin Searches(c)'
<1>1. TypeOK /\ Owed(c) /\ outbound[c] \subseteq Peers /\ resolutions[c] \subseteq Peers
  BY DEF IInv, TypeOK, AllOwed
<1>2. /\ \A p \in out : asked[c][p] > 0
      /\ res \subseteq call.resolved
      /\ out \in SUBSET Peers /\ res \in SUBSET Peers
  BY <1>1 DEF Owed
<1>3. /\ Owed(c)'
      /\ Requests(c)' \subseteq {p \in Peers : asked[c][p] = 0 \/ p \in out}
      /\ Searches(c)' \subseteq {p \in Peers : p \notin call.resolved \/ p \in res}
      /\ \A b \in Calls \ {c} : Same(b)
  BY <1>1, <1>2, HandlerOwes
<1>4. Keeps(c)
  BY <1>3 DEF Keeps, Requests, Searches
<1>5. ASSUME NEW b \in Calls \ {c} PROVE Keeps(b)
  BY <1>3, SameKeeps DEF AllOwed
<1>6. \A p \in outbound[c] \ out : p \in Requests(c) /\ p \notin Requests(c)'
  BY <1>1, <1>3 DEF Owed, Requests
<1>7. \A p \in resolutions[c] \ res : p \in Searches(c) /\ p \notin Searches(c)'
  BY <1>1, <1>3 DEF Owed, Searches
<1> QED
  BY <1>4, <1>5, <1>6, <1>7 DEF AllKeep

(* A new call.                                                             *)
LEMMA StartKeeps ==
  ASSUME IInv, AllOwed, NEW c \in Calls, NEW call \in Call, NEW d,
         calls[c].status = "new",
         Advance(c, call, d, outbound[c], resolutions[c]),
         \A b \in Calls \ {c} : b \in provider_lookups' => b \in provider_lookups
  PROVE  AllKeep
<1>1. /\ TypeOK /\ outbound[c] = {} /\ resolutions[c] = {}
      /\ \A p \in Peers : asked[c][p] = 0
  BY DEF IInv, CallInv, CallOK, Core, Phase
<1>2. \A p \in Queued(call.candidates) : asked[c][p] = 0
  <2>1. call.candidates \in Seq(Peers)
    BY DEF Call
  <2> QED
    BY <1>1, <2>1 DEF Queued
<1>3. Owed(c)' /\ \A b \in Calls \ {c} : Same(b)
  <2>1. /\ outbound[c] \in SUBSET Peers /\ resolutions[c] \in SUBSET Peers
        /\ \A p \in outbound[c] : asked[c][p] > 0
        /\ resolutions[c] \subseteq call.resolved
    BY <1>1
  <2> QED
    BY <1>1, <1>2, <2>1, HandlerOwes
<1>4. Keeps(c)
  BY <1>3 DEF Keeps
<1>5. ASSUME NEW b \in Calls \ {c} PROVE Keeps(b)
  BY <1>3, SameKeeps DEF AllOwed
<1> QED
  BY <1>4, <1>5 DEF AllKeep

(* A call to one node.                                                     *)
LEMMA RpcToNodeKeeps ==
  ASSUME IInv, AllOwed, NEW c \in Calls, NEW g \in Groups, NEW p \in Peers, RpcToNode(c, g, p)
  PROVE  AllKeep
<1> DEFINE q   == <<p>>
           new == [NewCall(g, p) EXCEPT !.candidates = q, !.seen = {p}]
<1>1. q \in Seq(Peers)
  OBVIOUS
<1>2. /\ Advance(c, new, dialable, outbound[c], resolutions[c]) /\ calls[c].status = "new"
      /\ provider_lookups' = provider_lookups
  BY DEF RpcToNode
<1> HIDE DEF q
<1>3. new \in Call
  BY <1>1 DEF Call, NewCall, Failures
<1> HIDE DEF new
<1> QED
  BY <1>2, <1>3, StartKeeps

(* A call to any node of a group.                                          *)
LEMMA RpcToGroupKeeps ==
  ASSUME IInv, AllOwed, NEW c \in Calls, NEW g \in Groups, RpcToGroup(c, g)
  PROVE  AllKeep
<1> DEFINE none == <<>>
           new  == [NewCall(g, AnyNode) EXCEPT !.lookup_running = TRUE]
<1>1. none \in Seq(Peers)
  OBVIOUS
<1>2. /\ Advance(c, new, dialable, outbound[c], resolutions[c]) /\ calls[c].status = "new"
      /\ provider_lookups' = provider_lookups \cup {c}
  BY DEF RpcToGroup
<1> HIDE DEF none
<1>3. new \in Call
  BY <1>1 DEF Call, NewCall, Failures, none
<1> HIDE DEF new
<1> QED
  BY <1>2, <1>3, StartKeeps

(* A provider report; the last one is the answer to the lookup.            *)
LEMMA ProvidersFoundKeeps ==
  ASSUME IInv, AllOwed, NEW c \in Calls, NEW batch \in SUBSET Peers, NEW last \in BOOLEAN,
         ProvidersFound(c, batch, last)
  PROVE  AllKeep /\ (last => Pays(c))
<1> DEFINE penalized == {p \in Peers : failed[p] = "fresh"}
           good  == last_success[calls[c].group]
           added == NewProviders(calls[c], batch)
           call  == calls[c]
<1>1. /\ call \in Call
      /\ Tracked(call, outbound[c], resolutions[c], asked[c])
      /\ asked[c] \in [Peers -> Nat]
  BY DEF IInv, TypeOK, CallInv, CallOK, Core
<1>p. /\ provider_lookups' \subseteq provider_lookups
      /\ last => Pays(c)
  BY DEF ProvidersFound, Pays
<1>2. CASE Live(c)
  <2>1. PICK queue \in EnqueueAll(calls[c].candidates, added, good, penalized) :
          Advance(c, [calls[c] EXCEPT !.candidates = queue, !.seen = @ \cup added,
                                      !.lookup_running = @ /\ ~last],
                  dialable, outbound[c], resolutions[c])
    BY <1>2 DEF ProvidersFound
  <2> DEFINE run == call.lookup_running /\ ~last
             new == [call EXCEPT !.candidates = queue, !.seen = call.seen \cup added,
                                 !.lookup_running = run]
  <2>2. /\ call.candidates \in Seq(Peers) /\ Distinct(call.candidates)
        /\ Queued(call.candidates) \subseteq call.seen /\ call.seen \subseteq Peers
    BY <1>1 DEF Tracked, Call
  <2>3. added \subseteq Peers /\ added \cap call.seen = {}
    BY DEF NewProviders
  <2>4. queue \in Seq(Peers) /\ Queued(queue) = Queued(call.candidates) \cup added
    <3>1. added \cap Queued(call.candidates) = {} /\ IsFiniteSet(Peers)
      BY <2>2, <2>3, CallsAssumption
    <3> HIDE DEF added, penalized, good, call
    <3>2. queue \in EnqueueAll(call.candidates, added, good, penalized)
      BY <2>1 DEF call
    <3> QED
      BY <2>2, <2>3, <3>1, <3>2, EnqueueAllQueue
  <2>5. Advance(c, new, dialable, outbound[c], resolutions[c])
    BY <2>1
  <2>6. run \in BOOLEAN /\ call.seen \cup added \in SUBSET Peers
    BY <1>1, <2>2, <2>3 DEF Call
  <2>7. \A p \in added : asked[c][p] = 0
    BY <1>1, <2>3 DEF Tracked
  <2>8. \A p \in Queued(queue) : asked[c][p] = 0
    BY <2>4, <2>7, CandidatesFresh
  <2> HIDE DEF added, run, call
  <2>9. new \in Call /\ new.candidates = queue /\ new.resolved = call.resolved
    BY <1>1, <2>4, <2>6 DEF Call
  <2> HIDE DEF new
  <2>10. AllKeep
    BY <1>p, <2>5, <2>8, <2>9, HandlerKeeps DEF call
  <2> QED
    BY <1>p, <2>10
<1>3. CASE ~Live(c)
  <2>1. \A b \in Calls : Same(b)
    BY <1>3 DEF ProvidersFound, Same, Untouched
  <2> QED
    BY <1>p, <2>1, SameKeeps DEF AllKeep, AllOwed
<1> QED
  BY <1>2, <1>3

(* The end of an address lookup.                                           *)
LEMMA ClosestPeersKeeps ==
  ASSUME IInv, AllOwed, NEW c \in Calls, NEW peer \in Peers, NEW found, ClosestPeers(c, peer, found)
  PROVE  AllKeep /\ Pays(c)
<1> DEFINE call == calls[c]
           new  == IF Live(c) THEN [call EXCEPT !.resolving = FALSE] ELSE call
           res  == resolutions[c] \ {peer}
<1>1. call \in Call
  BY DEF IInv, TypeOK
<1>2. /\ Advance(c, new, dialable \cup found, outbound[c], res)
      /\ provider_lookups' = provider_lookups /\ peer \in resolutions[c] \ res
  BY DEF ClosestPeers
<1>3. new \in Call /\ new.candidates = call.candidates /\ new.resolved = call.resolved
  BY <1>1 DEF Call
<1>4. \A p \in Queued(new.candidates) : asked[c][p] = 0
  BY <1>3, CandidatesFresh
<1>5. res \subseteq resolutions[c]
  OBVIOUS
<1> HIDE DEF new, res
<1>6. AllKeep /\ \A p \in resolutions[c] \ res : p \in Searches(c) /\ p \notin Searches(c)'
  BY <1>2, <1>3, <1>4, <1>5, HandlerKeeps
<1> QED
  BY <1>2, <1>6 DEF Pays

(* The end of a request that failed, or whose response was refused.        *)
LEMMA FailedAttemptKeeps ==
  ASSUME IInv, AllOwed, NEW c \in Calls, NEW peer \in outbound[c], NEW reason \in Failures,
         Advance(c, IF Live(c) THEN FailedAttempt(calls[c], reason) ELSE calls[c],
                 dialable, outbound[c] \ {peer}, resolutions[c]),
         provider_lookups' = provider_lookups
  PROVE  AllKeep /\ Pays(c)
<1> DEFINE call == calls[c]
           new  == IF Live(c) THEN FailedAttempt(call, reason) ELSE call
           out  == outbound[c] \ {peer}
<1>1. call \in Call
  BY DEF IInv, TypeOK
<1>2. new \in Call /\ new.candidates = call.candidates /\ new.resolved = call.resolved
  BY <1>1 DEF Call, FailedAttempt
<1>3. Advance(c, new, dialable, out, resolutions[c]) /\ peer \in outbound[c] \ out
  OBVIOUS
<1>4. \A p \in Queued(new.candidates) : asked[c][p] = 0
  BY <1>2, CandidatesFresh
<1>5. out \subseteq outbound[c]
  OBVIOUS
<1> HIDE DEF new, out
<1>6. AllKeep /\ \A p \in outbound[c] \ out : p \in Requests(c) /\ p \notin Requests(c)'
  BY <1>2, <1>3, <1>4, <1>5, HandlerKeeps
<1> QED
  BY <1>3, <1>6 DEF Pays

(* A response that is reported, or that comes too late, only leaves        *)
(* State::outbound.                                                        *)
LEMMA ResponseKeeps ==
  ASSUME IInv, AllOwed, NEW c \in Calls, NEW peer \in Peers, NEW proved,
         ResponseTaken(c, peer, proved) \/ ResponseLate(c, peer)
  PROVE  AllKeep /\ Pays(c)
<1> DEFINE call == calls[c]
           over == [call EXCEPT !.in_flight = FALSE, !.status = "over"]
<1>1. /\ calls \in [Calls -> Call] /\ outbound \in [Calls -> SUBSET Peers]
      /\ resolutions \in [Calls -> SUBSET Peers] /\ events \in [Calls -> Seq(Outcomes)]
  BY DEF IInv, TypeOK, Outcomes
<1>2. PICK new \in {call, over} :
        /\ calls' = [calls EXCEPT ![c] = new]
        /\ outbound' = [outbound EXCEPT ![c] = outbound[c] \ {peer}]
        /\ resolutions' = [resolutions EXCEPT ![c] = resolutions[c]]
  BY DEF ResponseTaken, ResponseLate, Store
<1>3. /\ peer \in outbound[c] /\ asked' = asked /\ provider_lookups' = provider_lookups
      /\ \A b \in Calls \ {c} : events'[b] = events[b]
  BY <1>1 DEF ResponseTaken, ResponseLate, Emit
<1>4. new.resolved = call.resolved
  BY <1>1, <1>2 DEF Call
<1> HIDE DEF over
<1>5. /\ calls'[c].resolved = calls[c].resolved
      /\ outbound'[c] = outbound[c] \ {peer} /\ resolutions'[c] = resolutions[c]
  BY <1>1, <1>2, <1>4
<1>6. ASSUME NEW b \in Calls \ {c} PROVE Keeps(b)
  <2>1. Same(b)
    BY <1>1, <1>2, <1>3 DEF Same, Untouched
  <2> QED
    BY <1>3, <2>1, SameKeeps DEF AllOwed
<1>7. Owed(c)
  BY DEF AllOwed
<1>8. Keeps(c)
  BY <1>3, <1>5, <1>7 DEF Keeps, Owed, Requests, Searches
<1>9. peer \in Requests(c) /\ peer \notin Requests(c)'
  BY <1>3, <1>5, <1>7 DEF Owed, Requests
<1> QED
  BY <1>6, <1>8, <1>9 DEF AllKeep, Pays

(* Every way a request ends.                                               *)
LEMMA RequestKeeps ==
  ASSUME IInv, AllOwed, NEW c \in Calls, RequestEnds(c)
  PROVE  AllKeep /\ Pays(c)
<1>1. ASSUME NEW peer \in Peers, NEW reason \in Failures, OutboundFailure(c, peer, reason)
      PROVE  AllKeep /\ Pays(c)
  BY <1>1, FailedAttemptKeeps DEF OutboundFailure
<1>2. ASSUME NEW peer \in Peers, NEW proved, ResponseRefused(c, peer, proved)
      PROVE  AllKeep /\ Pays(c)
  <2>1. "refused" \in Failures
    BY DEF Failures
  <2>2. /\ Advance(c, IF Live(c) THEN FailedAttempt(calls[c], "refused") ELSE calls[c],
                   dialable, outbound[c] \ {peer}, resolutions[c])
        /\ peer \in outbound[c] /\ provider_lookups' = provider_lookups
    BY <1>2 DEF ResponseRefused
  <2> QED
    BY <2>1, <2>2, FailedAttemptKeeps
<1> QED
  BY <1>1, <1>2, ResponseKeeps DEF RequestEnds

(* A step that leaves alone what a call has asked for and looked up.       *)
LEMMA QuietKeeps ==
  ASSUME NEW c, Owed(c), calls'[c].resolved = calls[c].resolved,
         asked' = asked, UNCHANGED requests
  PROVE  Keeps(c)
  BY DEF Keeps, Owed, Requests, Searches, requests

(* Every step of the node.                                                 *)
LEMMA StepKeeps == IInv /\ AllOwed /\ [Next]_vars => AllKeep
<1> SUFFICES ASSUME IInv, AllOwed, [Next]_vars PROVE AllKeep
  OBVIOUS
<1>t. calls \in [Calls -> Call]
  BY DEF IInv, TypeOK
<1>q. ASSUME asked' = asked, UNCHANGED requests,
             \A c \in Calls : calls'[c].resolved = calls[c].resolved
      PROVE  AllKeep
  BY <1>q, QuietKeeps DEF AllKeep, AllOwed
<1>1. ASSUME NEW c \in Calls, NEW g \in Groups, NEW p \in Peers, RpcToNode(c, g, p)
      PROVE  AllKeep
  BY <1>1, RpcToNodeKeeps
<1>2. ASSUME NEW c \in Calls, NEW g \in Groups, RpcToGroup(c, g) PROVE AllKeep
  BY <1>2, RpcToGroupKeeps
<1>3. ASSUME NEW c \in Calls, LookupStep(c) PROVE AllKeep
  BY <1>3, ProvidersFoundKeeps DEF LookupStep
<1>4. ASSUME NEW c \in Calls, ResolutionEnds(c) PROVE AllKeep
  BY <1>4, ClosestPeersKeeps DEF ResolutionEnds
<1>5. ASSUME NEW c \in Calls, RequestEnds(c) PROVE AllKeep
  BY <1>5, RequestKeeps
<1>6. ASSUME NEW c \in Calls, DeadlinePasses(c) PROVE AllKeep
  <2>1. calls' = [calls EXCEPT ![c] = [calls[c] EXCEPT !.overdue = TRUE]]
    BY <1>t, <1>6 DEF DeadlinePasses
  <2>2. [calls[c] EXCEPT !.overdue = TRUE].resolved = calls[c].resolved
    BY <1>t DEF Call
  <2>3. \A b \in Calls : calls'[b].resolved = calls[b].resolved
    BY <1>t, <2>1, <2>2
  <2> QED
    BY <1>6, <1>q, <2>3 DEF DeadlinePasses
<1>7. ASSUME NEW p \in Peers, PenaltyOver(p) \/ LinkChange(p) PROVE AllKeep
  BY <1>7, <1>q DEF PenaltyOver, LinkChange
<1>8. CASE Tick
  <2>1. ASSUME NEW c \in Calls PROVE calls'[c].resolved = calls[c].resolved
    <3>1. calls'[c] \in {calls[c], [calls[c] EXCEPT !.status = "over"]}
      BY <1>8 DEF Tick
    <3>2. [calls[c] EXCEPT !.status = "over"].resolved = calls[c].resolved
      BY <1>t DEF Call
    <3> QED
      BY <3>1, <3>2
  <2> QED
    BY <1>8, <1>q, <2>1 DEF Tick
<1>9. CASE UNCHANGED vars
  BY <1>9, <1>q DEF vars
<1> QED
  BY <1>1, <1>2, <1>3, <1>4, <1>5, <1>6, <1>7, <1>8, <1>9 DEF Next

(* Everything a call waits for it asked for: an invariant.                 *)
LEMMA OwedInvariant == Spec => []AllOwed
<1>1. Init => AllOwed
  BY DEF Init, AllOwed, Owed
<1>2. IInv /\ AllOwed /\ [Next]_vars => AllOwed'
  BY StepKeeps DEF AllKeep, Keeps, AllOwed
<1> QED
  BY <1>1, <1>2, Invariance, PTL DEF Spec

-----------------------------------------------------------------------------
(* Finitely many answers, and every one of them counts.                    *)
LEMMA LeftBound ==
  ASSUME NEW c
  PROVE  /\ IsFiniteSet(Left(c))
         /\ Cardinality(Left(c)) \in Nat
         /\ Cardinality(Left(c)) <= 2 * Cardinality(Peers) + 1
<1> DEFINE A == Peers \X {"response"}
           B == Peers \X {"addresses"}
           C == {c} \X {"providers"}
<1>1. IsFiniteSet(Peers) /\ Cardinality(Peers) \in Nat
  BY CallsAssumption, FS_CardinalityType
<1>2. \A x : IsFiniteSet({x}) /\ Cardinality({x}) = 1
  BY FS_Singleton
<1>3. /\ IsFiniteSet(A) /\ Cardinality(A) = Cardinality(Peers)
      /\ IsFiniteSet(B) /\ Cardinality(B) = Cardinality(Peers)
      /\ IsFiniteSet(C) /\ Cardinality(C) = 1
  <2>1. IsFiniteSet(A) /\ Cardinality(A) = Cardinality(Peers) * Cardinality({"response"})
    BY <1>1, <1>2, FS_Product, Zenon
  <2>2. IsFiniteSet(B) /\ Cardinality(B) = Cardinality(Peers) * Cardinality({"addresses"})
    BY <1>1, <1>2, FS_Product, Zenon
  <2>3. IsFiniteSet(C) /\ Cardinality(C) = Cardinality({c}) * Cardinality({"providers"})
    BY <1>2, FS_Product, Zenon
  <2>4. /\ Cardinality({"response"}) = 1 /\ Cardinality({"addresses"}) = 1
        /\ Cardinality({"providers"}) = 1 /\ Cardinality({c}) = 1
    BY <1>2, Zenon
  <2>5. \A n \in Nat : n * 1 = n
    OBVIOUS
  <2> HIDE DEF A, B, C
  <2>6. Cardinality(A) = Cardinality(Peers) /\ Cardinality(B) = Cardinality(Peers)
    BY <1>1, <2>1, <2>2, <2>4, <2>5
  <2>7. Cardinality(C) = 1
    BY <2>3, <2>4
  <2> QED
    BY <2>1, <2>2, <2>3, <2>6, <2>7
<1>4. Left(c) \subseteq A \cup B \cup C
  BY DEF Left, Requests, Searches
<1> HIDE DEF A, B, C
<1>5. IsFiniteSet(A \cup B) /\ Cardinality(A \cup B) <= 2 * Cardinality(Peers)
  <2>1. IsFiniteSet(A \cap B) /\ Cardinality(A \cap B) \in Nat
    BY <1>3, FS_Subset, FS_CardinalityType
  <2>2. /\ IsFiniteSet(A \cup B)
        /\ Cardinality(A \cup B) = Cardinality(A) + Cardinality(B) - Cardinality(A \cap B)
    BY <1>3, FS_Union, Zenon
  <2> QED
    BY <1>1, <1>3, <2>1, <2>2
<1>6. /\ IsFiniteSet(A \cup B \cup C)
      /\ Cardinality(A \cup B \cup C) <= 2 * Cardinality(Peers) + 1
  <2>1. IsFiniteSet((A \cup B) \cap C) /\ Cardinality((A \cup B) \cap C) \in Nat
    BY <1>3, FS_Subset, FS_CardinalityType
  <2>2. Cardinality(A \cup B) \in Nat
    BY <1>5, FS_CardinalityType
  <2>3. /\ IsFiniteSet((A \cup B) \cup C)
        /\ Cardinality((A \cup B) \cup C)
             = Cardinality(A \cup B) + Cardinality(C) - Cardinality((A \cup B) \cap C)
    BY <1>3, <1>5, FS_Union, Zenon
  <2> QED
    BY <1>1, <1>3, <1>5, <2>1, <2>2, <2>3
<1>7. /\ IsFiniteSet(Left(c))
      /\ Cardinality(Left(c)) <= Cardinality(A \cup B \cup C)
  BY <1>4, <1>6, FS_Subset
<1>8. Cardinality(Left(c)) \in Nat /\ Cardinality(A \cup B \cup C) \in Nat
  BY <1>6, <1>7, FS_CardinalityType
<1> QED
  BY <1>1, <1>6, <1>7, <1>8

(* One step: fewer answers are left after every one that is received, and  *)
(* never more.                                                             *)
LEMMA FewerLeft ==
  ASSUME NEW c, Keeps(c), calls[c].status # "new"
  PROVE  /\ Cardinality(Left(c)') <= Cardinality(Left(c))
         /\ Pays(c) => Cardinality(Left(c)') < Cardinality(Left(c))
<1>1. Left(c)' \in SUBSET Left(c)
  BY DEF Keeps, Left
<1>2. IsFiniteSet(Left(c)) /\ Cardinality(Left(c)) \in Nat
  BY LeftBound
<1>3. /\ IsFiniteSet(Left(c)') /\ Cardinality(Left(c)') <= Cardinality(Left(c))
      /\ Cardinality(Left(c)) = Cardinality(Left(c)') => Left(c) = Left(c)'
  BY <1>1, <1>2, FS_Subset, Zenon
<1>4. Cardinality(Left(c)') \in Nat
  BY <1>3, FS_CardinalityType
<1>5. ASSUME Pays(c) PROVE Left(c)' # Left(c)
  <2>1. ASSUME NEW p \in Requests(c), p \notin Requests(c)' PROVE Left(c)' # Left(c)
    <3>1. <<p, "response">> \in Left(c) /\ <<p, "response">> \notin Left(c)'
      BY <2>1 DEF Left
    <3> QED
      BY <3>1
  <2>2. ASSUME NEW p \in Searches(c), p \notin Searches(c)' PROVE Left(c)' # Left(c)
    <3>1. <<p, "addresses">> \in Left(c) /\ <<p, "addresses">> \notin Left(c)'
      BY <2>2 DEF Left
    <3> QED
      BY <3>1
  <2>3. CASE c \in provider_lookups /\ c \notin provider_lookups'
    <3>1. <<c, "providers">> \in Left(c) /\ <<c, "providers">> \notin Left(c)'
      BY <2>3 DEF Left
    <3> QED
      BY <3>1
  <2> QED
    BY <1>5, <2>1, <2>2, <2>3 DEF Pays
<1> QED
  BY <1>2, <1>3, <1>4, <1>5

(* libp2p ends something the call waits for: the steps NetworkFairness is  *)
(* about.                                                                  *)
NetworkEnds(c) == LookupEnds(c) \/ ResolutionEnds(c) \/ RequestEnds(c)

(* No call waits for more than two answers per node and one for its        *)
(* lookup, and each answer brings its end closer, whatever is reported,    *)
(* however connections flap and whenever its deadline passes: what is left *)
(* never grows once the call has begun, and shrinks with every answer,     *)
(* also with those that come after the call is over.                       *)
FailoverEnds ==
  [][\A c \in Calls : calls[c].status # "new" =>
       /\ Cardinality(Left(c)) <= 2 * Cardinality(Peers) + 1
       /\ Cardinality(Left(c)') <= Cardinality(Left(c))
       /\ NetworkEnds(c) => Cardinality(Left(c)') < Cardinality(Left(c))]_vars

(* The measure behind AnsweredByNetwork: with CallsNeverStuck, which says  *)
(* that a call in progress waits for one of these answers, a call over n   *)
(* nodes is answered after at most 2n + 1 of them.                         *)
THEOREM FailoverIsFinite == Spec => FailoverEnds
<1> DEFINE Step == \A c \in Calls : calls[c].status # "new" =>
             /\ Cardinality(Left(c)) <= 2 * Cardinality(Peers) + 1
             /\ Cardinality(Left(c)') <= Cardinality(Left(c))
             /\ NetworkEnds(c) => Cardinality(Left(c)') < Cardinality(Left(c))
<1>1. IInv /\ AllOwed /\ [Next]_vars => [Step]_vars
  <2> SUFFICES ASSUME IInv, AllOwed, [Next]_vars, NEW c \in Calls, calls[c].status # "new"
               PROVE  /\ Cardinality(Left(c)) <= 2 * Cardinality(Peers) + 1
                      /\ Cardinality(Left(c)') <= Cardinality(Left(c))
                      /\ NetworkEnds(c) => Cardinality(Left(c)') < Cardinality(Left(c))
    OBVIOUS
  <2>1. Keeps(c)
    BY StepKeeps DEF AllKeep
  <2>2. ASSUME NetworkEnds(c) PROVE Pays(c)
    <3>1. CASE LookupEnds(c)
      <4>1. PICK batch \in SUBSET Peers : ProvidersFound(c, batch, TRUE)
        BY <3>1 DEF LookupEnds
      <4> QED
        BY <4>1, ProvidersFoundKeeps
    <3>2. CASE ResolutionEnds(c)
      BY <3>2, ClosestPeersKeeps DEF ResolutionEnds
    <3>3. CASE RequestEnds(c)
      BY <3>3, RequestKeeps
    <3> QED
      BY <2>2, <3>1, <3>2, <3>3 DEF NetworkEnds
  <2> QED
    BY <2>1, <2>2, FewerLeft, LeftBound
<1>2. Spec => [][Step]_vars
  BY <1>1, Invariance, OwedInvariant, PTL DEF Spec
<1> QED
  BY <1>2 DEF FailoverEnds

-----------------------------------------------------------------------------
(* What the node remembers.                                                *)

Known(f) == {g \in Groups : f[g] # Nobody}

(* The bound, and that there are finitely many groups to count.            *)
MemoryInv == IsFiniteSet(Known(last_success)) /\ MemoryBounded

(* A set that is dropped when it is full, or cut below the limit, and then *)
(* gets one more member stays within the limit.                            *)
LEMMA OneMoreFits ==
  ASSUME NEW S, IsFiniteSet(S), NEW x, NEW n \in Nat \ {0}, Cardinality(S) < n \/ S = {}
  PROVE  IsFiniteSet(S \cup {x}) /\ Cardinality(S \cup {x}) <= n
<1>1. Cardinality(S) \in Nat /\ Cardinality(S) < n
  BY FS_CardinalityType, FS_EmptySet
<1>2. IsFiniteSet(S \cup {x}) /\ Cardinality(S \cup {x}) <= Cardinality(S) + 1
  BY <1>1, FS_AddElement
<1>3. Cardinality(S \cup {x}) \in Nat
  BY <1>2, FS_CardinalityType
<1> QED
  BY <1>1, <1>2, <1>3

(* remember_failure() keeps to MAX_REMEMBERED.                             *)
LEMMA RememberFailureBounded ==
  ASSUME TypeOK, NEW peer \in Peers, RememberFailure(peer),
         Cardinality(Remembered(failed)) <= MaxRemembered
  PROVE  Cardinality(Remembered(failed')) <= MaxRemembered
<1> DEFINE all   == Remembered(failed)
           fresh == {p \in Peers : failed[p] = "fresh"}
           keep  == IF ~(Cardinality(all) >= MaxRemembered) THEN all
                    ELSE IF Cardinality(fresh) >= MaxRemembered THEN {} ELSE fresh
<1>1. IsFiniteSet(Peers) /\ MaxRemembered \in Nat \ {0}
  BY CallsAssumption
<1>2. all \subseteq Peers /\ fresh \subseteq all
  BY DEF Remembered
<1>3. failed' = [p \in Peers |-> IF p = peer THEN "fresh"
                                 ELSE IF p \in keep THEN failed[p]
                                 ELSE "none"]
  BY DEF RememberFailure
<1> HIDE DEF all, fresh
<1>4. IsFiniteSet(all) /\ IsFiniteSet(fresh)
  BY <1>1, <1>2, FS_Subset
<1>5. Cardinality(all) \in Nat /\ Cardinality(fresh) \in Nat
  BY <1>4, FS_CardinalityType
<1>6. IsFiniteSet(keep) /\ (Cardinality(keep) < MaxRemembered \/ keep = {}) /\ keep \subseteq all
  BY <1>1, <1>2, <1>4, <1>5, FS_EmptySet
<1> HIDE DEF keep
<1>7. Remembered(failed') = keep \cup {peer}
  <2>1. \A p \in keep : p \in Peers /\ failed[p] # "none"
    BY <1>6 DEF all, Remembered
  <2> QED
    BY <1>3, <2>1 DEF Remembered
<1> QED
  BY <1>1, <1>6, <1>7, OneMoreFits

(* So does what a reported response leaves behind.                         *)
LEMMA ResponseTakenBounded ==
  ASSUME TypeOK, MemoryInv, NEW c \in Calls, NEW peer \in Peers, NEW proved,
         ResponseTaken(c, peer, proved)
  PROVE  MemoryInv'
<1> DEFINE known == Known(last_success)
           group == calls[c].group
           keep  == IF Cardinality(known) >= MaxRemembered THEN {} ELSE known \ {group}
<1>1. IsFiniteSet(Peers) /\ MaxRemembered \in Nat \ {0} /\ Nobody \notin Peers
  BY CallsAssumption
<1>2. group \in Groups
  BY DEF TypeOK, Call
<1>3. /\ failed' = [failed EXCEPT ![peer] = "none"]
      /\ last_success' = [g \in Groups |-> IF g = group THEN peer
                                           ELSE IF Cardinality(known) >= MaxRemembered THEN Nobody
                                           ELSE last_success[g]]
  BY DEF ResponseTaken, RememberSuccess, Known
<1> HIDE DEF group
<1>4. Cardinality(Remembered(failed')) <= MaxRemembered
  <2>1. Remembered(failed') \subseteq Remembered(failed) /\ Remembered(failed) \subseteq Peers
    BY <1>3 DEF TypeOK, Remembered
  <2>2. IsFiniteSet(Remembered(failed))
    BY <1>1, <2>1, FS_Subset
  <2>3. /\ Cardinality(Remembered(failed')) <= Cardinality(Remembered(failed))
        /\ IsFiniteSet(Remembered(failed'))
    BY <2>1, <2>2, FS_Subset
  <2>4. Cardinality(Remembered(failed)) \in Nat /\ Cardinality(Remembered(failed')) \in Nat
    BY <2>2, <2>3, FS_CardinalityType
  <2>5. Cardinality(Remembered(failed)) <= MaxRemembered
    BY DEF MemoryInv, MemoryBounded
  <2> QED
    BY <1>1, <2>3, <2>4, <2>5
<1>5. Known(last_success') = keep \cup {group}
  BY <1>1, <1>2, <1>3 DEF Known
<1>6. IsFiniteSet(keep) /\ (Cardinality(keep) < MaxRemembered \/ keep = {})
  <2>1. IsFiniteSet(known) /\ Cardinality(known) \in Nat
    BY FS_CardinalityType DEF MemoryInv
  <2> HIDE DEF known
  <2>2. IsFiniteSet(known \ {group}) /\ Cardinality(known \ {group}) <= Cardinality(known)
    BY <2>1, FS_Subset
  <2>3. Cardinality(known \ {group}) \in Nat
    BY <2>2, FS_CardinalityType
  <2> QED
    BY <1>1, <2>1, <2>2, <2>3, FS_EmptySet
<1> HIDE DEF keep
<1>7. IsFiniteSet(Known(last_success')) /\ Cardinality(Known(last_success')) <= MaxRemembered
  BY <1>1, <1>5, <1>6, OneMoreFits
<1> QED
  BY <1>4, <1>7 DEF MemoryInv, MemoryBounded, Known

(* A step that leaves both maps with the same members.                     *)
LEMMA SameMemory ==
  ASSUME MemoryInv, last_success' = last_success, Remembered(failed') = Remembered(failed)
  PROVE  MemoryInv'
  BY DEF MemoryInv, MemoryBounded, Known, Remembered

(* Nothing is remembered at first.                                         *)
LEMMA InitMemory == Init => MemoryInv
<1> SUFFICES ASSUME Init PROVE MemoryInv
  OBVIOUS
<1>1. Known(last_success) = {} /\ Remembered(failed) = {}
  BY DEF Init, Known, Remembered
<1>2. MaxRemembered \in Nat
  BY CallsAssumption
<1> QED
  BY <1>1, <1>2, FS_EmptySet DEF MemoryInv, MemoryBounded, Known

(* Every step keeps to MAX_REMEMBERED.                                     *)
LEMMA NextMemory == IInv /\ MemoryInv /\ [Next]_vars => MemoryInv'
<1> SUFFICES ASSUME IInv, MemoryInv, [Next]_vars PROVE MemoryInv'
  OBVIOUS
<1>0. TypeOK
  BY DEF IInv
<1>1. ASSUME UNCHANGED memory PROVE MemoryInv'
  <2>1. last_success' = last_success /\ failed' = failed
    BY <1>1 DEF memory
  <2> QED
    BY <2>1, SameMemory DEF Remembered
<1>2. ASSUME NEW peer \in Peers, RememberFailure(peer), last_success' = last_success
      PROVE  MemoryInv'
  BY <1>0, <1>2, RememberFailureBounded DEF MemoryInv, MemoryBounded, Known
<1>3. ASSUME NEW c \in Calls, NEW g \in Groups,
             (\E p \in Peers : RpcToNode(c, g, p)) \/ RpcToGroup(c, g)
      PROVE  MemoryInv'
  BY <1>1, <1>3 DEF RpcToNode, RpcToGroup
<1>4. ASSUME NEW c \in Calls, LookupStep(c) \/ ResolutionEnds(c) \/ DeadlinePasses(c)
      PROVE  MemoryInv'
  BY <1>1, <1>4 DEF LookupStep, ProvidersFound, ResolutionEnds, ClosestPeers, DeadlinePasses
<1>5. ASSUME NEW c \in Calls, RequestEnds(c) PROVE MemoryInv'
  <2>1. ASSUME NEW peer \in Peers, NEW reason, OutboundFailure(c, peer, reason)
        PROVE  MemoryInv'
    BY <1>2, <2>1 DEF OutboundFailure
  <2>2. ASSUME NEW peer \in Peers, NEW proved, ResponseRefused(c, peer, proved)
        PROVE  MemoryInv'
    BY <1>2, <2>2 DEF ResponseRefused
  <2>3. ASSUME NEW peer \in Peers, ResponseLate(c, peer) PROVE MemoryInv'
    BY <1>1, <2>3 DEF ResponseLate
  <2> QED
    BY <1>0, <1>5, <2>1, <2>2, <2>3, ResponseTakenBounded DEF RequestEnds
<1>6. ASSUME NEW p \in Peers, PenaltyOver(p) PROVE MemoryInv'
  <2>1. last_success' = last_success /\ failed' = [failed EXCEPT ![p] = "stale"]
        /\ failed[p] = "fresh"
    BY <1>6 DEF PenaltyOver
  <2>2. Remembered(failed') = Remembered(failed)
    BY <1>0, <2>1 DEF Remembered, TypeOK
  <2> QED
    BY <2>1, <2>2, SameMemory
<1>7. ASSUME NEW p \in Peers, LinkChange(p) PROVE MemoryInv'
  BY <1>1, <1>7 DEF LinkChange
<1>8. CASE Tick
  BY <1>1, <1>8 DEF Tick
<1>9. CASE UNCHANGED vars
  BY <1>1, <1>9 DEF vars
<1> QED
  BY <1>3, <1>4, <1>5, <1>6, <1>7, <1>8, <1>9 DEF Next

(* However many groups are called and however many nodes fail, neither     *)
(* last_success nor failed ever holds more than MAX_REMEMBERED entries.    *)
THEOREM RemembersBounded == Spec => []MemoryBounded
<1>1. MemoryInv => MemoryBounded
  BY DEF MemoryInv
<1> QED
  BY <1>1, Invariance, InitMemory, NextMemory, PTL DEF Spec

-----------------------------------------------------------------------------
(* The loop over a provider report and its closed form.  At every turn the *)
(* queue is front, head, ordinary, rest, back: head and rest are the queue *)
(* the loop began with, cut ahead of its first penalized peer, and the     *)
(* others hold the peers enqueued so far (Form).  One inclusion follows    *)
(* every order of the report to its end, the other enqueues front,         *)
(* ordinary and back in turn; both are inductions over the turns of the    *)
(* loop, by the least turn that fails.                                     *)

Form(F, H, O, R, B) == F \o H \o O \o R \o B
Behind(H, O, R, B) == H \o O \o R \o B

(* None of the peers of s, or all of them, are in set.                     *)
Clear(s, set) == \A i \in 1 .. Len(s) : s[i] \notin set
All(s, set) == \A i \in 1 .. Len(s) : s[i] \in set

(* The part of a queue ahead of its first penalized peer is A.             *)
LEMMA AheadLength ==
  ASSUME NEW S, NEW A \in Seq(S), NEW Z \in Seq(S), NEW penalized,
         Clear(A, penalized), Len(Z) > 0 => Z[1] \in penalized
  PROVE  \A k \in 0 .. Len(A \o Z) : IsAhead(A \o Z, penalized, k) <=> k = Len(A)
<1> DEFINE q == A \o Z
<1>1. Len(A) \in Nat /\ Len(Z) \in Nat /\ q \in Seq(S) /\ Len(q) = Len(A) + Len(Z)
  BY LenProperties, ConcatProperties
<1>2. \A i \in 1 .. Len(A) : q[i] = A[i]
  BY <1>1, ConcatProperties
<1>3. Len(Z) > 0 => q[Len(A) + 1] = Z[1]
  BY <1>1, ConcatProperties
<1> HIDE DEF q
<1>4. IsAhead(q, penalized, Len(A))
  BY <1>1, <1>2, <1>3 DEF IsAhead, Clear
<1>5. ASSUME NEW k \in 0 .. Len(q), IsAhead(q, penalized, k), k # Len(A) PROVE FALSE
  <2>1. CASE k < Len(A)
    <3>1. k < Len(q) /\ k + 1 \in 1 .. Len(A)
      BY <1>1, <2>1
    <3> QED BY <3>1, <1>2, <1>5 DEF IsAhead, Clear
  <2>2. CASE k > Len(A)
    <3>1. Len(Z) > 0 /\ Len(A) + 1 \in 1 .. k
      BY <1>1, <2>2
    <3> QED BY <3>1, <1>3, <1>5 DEF IsAhead
  <2> QED BY <1>1, <1>5, <2>1, <2>2
<1> QED BY <1>4, <1>5 DEF q

(* A queue of two parts, cut where they meet.                              *)
LEMMA CutConcat ==
  ASSUME NEW S, NEW A \in Seq(S), NEW Z \in Seq(S)
  PROVE  /\ SubSeq(A \o Z, 1, Len(A)) = A
         /\ SubSeq(A \o Z, Len(A) + 1, Len(A \o Z)) = Z
<1> DEFINE q == A \o Z
<1>1. Len(A) \in Nat /\ Len(Z) \in Nat /\ q \in Seq(S) /\ Len(q) = Len(A) + Len(Z)
  BY LenProperties, ConcatProperties
<1>2. \A i \in 1 .. Len(q) : q[i] = IF i <= Len(A) THEN A[i] ELSE Z[i - Len(A)]
  BY <1>1, ConcatProperties
<1>3. \A i \in 1 .. Len(q) : q[i] \in S
  BY <1>1
<1> HIDE DEF q
<1> DEFINE a == SubSeq(q, 1, Len(A))
           z == SubSeq(q, Len(A) + 1, Len(q))
<1>4. a \in Seq(S) /\ Len(a) = Len(A) /\ \A i \in 1 .. Len(A) : a[i] = q[i]
  BY <1>1, <1>3
<1>5. z \in Seq(S) /\ Len(z) = Len(Z) /\ \A i \in 1 .. Len(Z) : z[i] = q[Len(A) + i]
  BY <1>1, <1>3
<1> HIDE DEF a, z
<1>6. \A i \in 1 .. Len(A) : a[i] = A[i]
  BY <1>1, <1>2, <1>4
<1>7. \A i \in 1 .. Len(Z) : z[i] = Z[i]
  <2> TAKE i \in 1 .. Len(Z)
  <2>1. Len(A) + i \in 1 .. Len(q) /\ ~(Len(A) + i <= Len(A)) /\ (Len(A) + i) - Len(A) = i
    BY <1>1
  <2> QED BY <1>2, <1>5, <2>1
<1>8. a = A
  BY <1>4, <1>6, SeqEqual
<1>9. z = Z
  BY <1>5, <1>7, SeqEqual
<1> QED BY <1>8, <1>9 DEF a, z, q

(* enqueue() of an ordinary peer.                                          *)
LEMMA EnqueueOrdinary ==
  ASSUME NEW S, NEW A \in Seq(S), NEW Z \in Seq(S), NEW good, NEW penalized, NEW p \in S,
         Clear(A, penalized), Len(Z) > 0 => Z[1] \in penalized,
         p \notin penalized, p # good
  PROVE  Enqueue(A \o Z, p, good, penalized) = A \o <<p>> \o Z
<1> DEFINE q == A \o Z
           k == CHOOSE n \in 0 .. Len(q) : IsAhead(q, penalized, n)
<1>1. Len(A) \in 0 .. Len(q)
  BY LenProperties, ConcatProperties
<1>2. k = Len(A)
  BY <1>1, AheadLength
<1>3. Enqueue(q, p, good, penalized) = SubSeq(q, 1, k) \o <<p>> \o SubSeq(q, k + 1, Len(q))
  BY DEF Enqueue
<1>4. SubSeq(q, 1, Len(A)) = A /\ SubSeq(q, Len(A) + 1, Len(q)) = Z
  BY CutConcat
<1> QED BY <1>2, <1>3, <1>4

-----------------------------------------------------------------------------
(* enqueue() on a queue of five parts.                                     *)

(* The parts are split so that head and what joined it are not penalized   *)
(* and what is behind them begins with a penalized peer.                   *)
Parts(S, F, H, O, R, B) ==
  F \in Seq(S) /\ H \in Seq(S) /\ O \in Seq(S) /\ R \in Seq(S) /\ B \in Seq(S)

Split(S, F, H, O, R, B, penalized) ==
  /\ Parts(S, F, H, O, R, B)
  /\ Clear(F, penalized) /\ Clear(H, penalized) /\ Clear(O, penalized) /\ All(B, penalized)
  /\ Len(R) > 0 => R[1] \in penalized

(* Two parts without penalized peers, one behind the other.                *)
LEMMA ClearConcat ==
  ASSUME NEW S, NEW s \in Seq(S), NEW t \in Seq(S), NEW set, Clear(s, set), Clear(t, set)
  PROVE  Clear(s \o t, set)
<1>1. Len(s) \in Nat /\ Len(t) \in Nat /\ Len(s \o t) = Len(s) + Len(t)
  BY LenProperties, ConcatProperties
<1>2. ASSUME NEW i \in 1 .. Len(s \o t) PROVE (s \o t)[i] \notin set
  <2>1. (s \o t)[i] = IF i <= Len(s) THEN s[i] ELSE t[i - Len(s)]
    BY <1>1, <1>2, ConcatProperties
  <2>2. CASE i <= Len(s)
    BY <1>1, <2>1, <2>2 DEF Clear
  <2>3. CASE ~(i <= Len(s))
    <3>1. i - Len(s) \in 1 .. Len(t)
      BY <1>1, <1>2, <2>3
    <3> QED BY <2>1, <2>3, <3>1 DEF Clear
  <2> QED BY <2>2, <2>3
<1> QED BY <1>2 DEF Clear

(* What is behind the ordinary peers begins with a penalized one, if any.  *)
LEMMA BeginsPenalized ==
  ASSUME NEW S, NEW R \in Seq(S), NEW B \in Seq(S), NEW penalized,
         Len(R) > 0 => R[1] \in penalized, All(B, penalized)
  PROVE  Len(R \o B) > 0 => (R \o B)[1] \in penalized
<1>1. Len(R) \in Nat /\ Len(B) \in Nat /\ Len(R \o B) = Len(R) + Len(B)
  BY LenProperties, ConcatProperties
<1>2. SUFFICES ASSUME Len(R \o B) > 0 PROVE (R \o B)[1] \in penalized
  OBVIOUS
<1>3. 1 \in 1 .. Len(R) + Len(B)
  BY <1>1, <1>2
<1>4. (R \o B)[1] = IF 1 <= Len(R) THEN R[1] ELSE B[1 - Len(R)]
  BY <1>3, ConcatProperties
<1>5. CASE Len(R) > 0
  BY <1>1, <1>4, <1>5
<1>6. CASE Len(R) = 0
  <2>1. 1 - Len(R) = 1 /\ 1 \in 1 .. Len(B) /\ ~(1 <= Len(R))
    BY <1>1, <1>2, <1>6
  <2> QED BY <1>4, <2>1 DEF All
<1>7. Len(R) > 0 \/ Len(R) = 0
  BY <1>1
<1> QED BY <1>5, <1>6, <1>7

(* The part in front, apart from the others.                               *)
LEMMA InFront ==
  ASSUME NEW S, NEW F, NEW H, NEW O, NEW R, NEW B, Parts(S, F, H, O, R, B)
  PROVE  Form(F, H, O, R, B) = F \o Behind(H, O, R, B)
<1>0. F \in Seq(S) /\ H \in Seq(S) /\ O \in Seq(S) /\ R \in Seq(S) /\ B \in Seq(S)
  BY DEF Parts
<1> DEFINE HO == H \o O
           HOR == HO \o R
<1>1. HO \in Seq(S)
  BY <1>0, ConcatProperties
<1>2. HOR \in Seq(S)
  BY <1>0, <1>1, ConcatProperties
<1>3. (F \o H) \o O = F \o HO
  BY <1>0, ConcatAssociative
<1> HIDE DEF HO
<1>4. (F \o HO) \o R = F \o HOR
  BY <1>0, <1>1, ConcatAssociative
<1> HIDE DEF HOR
<1>5. (F \o HOR) \o B = F \o (HOR \o B)
  BY <1>0, <1>2, ConcatAssociative
<1> QED BY <1>3, <1>4, <1>5 DEF Form, Behind, HO, HOR

(* enqueue() of the last good node, on a queue nobody was put in front of. *)
LEMMA EnqueueGood ==
  ASSUME NEW S, NEW H, NEW O, NEW R, NEW B, NEW penalized, NEW p \in S, p \notin penalized,
         Split(S, <<>>, H, O, R, B, penalized)
  PROVE  Enqueue(Form(<<>>, H, O, R, B), p, p, penalized) = Form(<<p>>, H, O, R, B)
<1>1. H \in Seq(S) /\ O \in Seq(S) /\ R \in Seq(S) /\ B \in Seq(S) /\ <<p>> \in Seq(S)
  BY DEF Split, Parts
<1>2. Enqueue(Form(<<>>, H, O, R, B), p, p, penalized) = <<p>> \o Form(<<>>, H, O, R, B)
  BY DEF Enqueue
<1>3. <<>> \o H = H
  BY <1>1, ConcatEmptySeq
<1>4. Form(<<>>, H, O, R, B) = Behind(H, O, R, B)
  BY <1>3 DEF Form, Behind
<1>5. Form(<<p>>, H, O, R, B) = <<p>> \o Behind(H, O, R, B)
  <2> DEFINE s == <<p>>
  <2>1. Parts(S, s, H, O, R, B)
    BY <1>1 DEF Parts
  <2> HIDE DEF s
  <2>2. Form(s, H, O, R, B) = s \o Behind(H, O, R, B)
    BY <2>1, InFront
  <2> QED BY <2>2 DEF s
<1> QED BY <1>2, <1>4, <1>5

(* s with p behind it.                                                     *)
Added(s, p) == Append(s, p)

(* enqueue() of a penalized or of an ordinary peer.                        *)
LEMMA EnqueueForm ==
  ASSUME NEW S, NEW F, NEW H, NEW O, NEW R, NEW B, NEW good, NEW penalized, NEW p \in S,
         Split(S, F, H, O, R, B, penalized)
  PROVE  LET q == Enqueue(Form(F, H, O, R, B), p, good, penalized) IN
         /\ p \in penalized => q = Form(F, H, O, R, Added(B, p))
         /\ (p # good /\ p \notin penalized) => q = Form(F, H, Added(O, p), R, B)
<1> DEFINE q == Form(F, H, O, R, B)
<1>1. F \in Seq(S) /\ H \in Seq(S) /\ O \in Seq(S) /\ R \in Seq(S) /\ B \in Seq(S)
      /\ <<p>> \in Seq(S)
  BY DEF Split, Parts
<1> DEFINE FH == F \o H
           FHO == FH \o O
           FHOR == FHO \o R
           RB == R \o B
<1>2. FH \in Seq(S)
  BY <1>1, ConcatProperties
<1>3. FHO \in Seq(S)
  BY <1>1, <1>2, ConcatProperties
<1>4. FHOR \in Seq(S)
  BY <1>1, <1>3, ConcatProperties
<1>5. RB \in Seq(S)
  BY <1>1, ConcatProperties
<1>6. q = FHOR \o B
  BY DEF Form
<1>7. FHOR \o B = FHO \o RB
  <2> HIDE DEF FHO
  <2> QED BY <1>1, <1>3, ConcatAssociative
<1>8. ASSUME p \in penalized
      PROVE  Enqueue(q, p, good, penalized) = Form(F, H, O, R, Added(B, p))
  <2>1. Enqueue(q, p, good, penalized) = Append(q, p)
    BY <1>8 DEF Enqueue
  <2>2. q \in Seq(S)
    BY <1>1, <1>4, <1>6, ConcatProperties
  <2>3. Append(q, p) = q \o <<p>>
    BY <2>2, AppendIsConcat
  <2>4. (FHOR \o B) \o <<p>> = FHOR \o (B \o <<p>>)
    BY <1>1, <1>4, ConcatAssociative
  <2>5. B \o <<p>> = Added(B, p)
    BY <1>1, AppendIsConcat DEF Added
  <2>6. Form(F, H, O, R, Added(B, p)) = FHOR \o Added(B, p)
    BY DEF Form
  <2> HIDE DEF q, FHOR
  <2> QED BY <1>6, <2>1, <2>3, <2>4, <2>5, <2>6
<1>9. ASSUME p # good, p \notin penalized
       PROVE  Enqueue(q, p, good, penalized) = Form(F, H, Added(O, p), R, B)
  <2>1. Clear(FHO, penalized)
    <3>1. Clear(FH, penalized)
      BY <1>1, ClearConcat DEF Split
    <3> HIDE DEF FH
    <3>2. Clear(O, penalized)
      BY DEF Split
    <3> QED BY <1>1, <1>2, <3>1, <3>2, ClearConcat
  <2>2. Len(RB) > 0 => RB[1] \in penalized
    BY <1>1, BeginsPenalized DEF Split
  <2> HIDE DEF FHO, RB
  <2>3. Enqueue(FHO \o RB, p, good, penalized) = FHO \o <<p>> \o RB
    BY <1>3, <1>5, <1>9, <2>1, <2>2, EnqueueOrdinary
  <2> DEFINE FHOp == FHO \o <<p>>
  <2>4. FHOp = FH \o Added(O, p)
    <3>1. (FH \o O) \o <<p>> = FH \o (O \o <<p>>)
      BY <1>1, <1>2, ConcatAssociative
    <3>2. O \o <<p>> = Added(O, p)
      BY <1>1, AppendIsConcat DEF Added
    <3> QED BY <3>1, <3>2 DEF FHO
  <2>5. FHOp \in Seq(S)
    BY <1>1, <1>3, ConcatProperties
  <2> HIDE DEF FHOp
  <2>6. FHOp \o (R \o B) = (FHOp \o R) \o B
    <3>1. R \in Seq(S) /\ B \in Seq(S)
      BY <1>1
    <3> QED BY <3>1, <2>5, ConcatAssociative
  <2>7. Form(F, H, Added(O, p), R, B) = (FHOp \o R) \o B
    BY <2>4 DEF Form
  <2> QED BY <1>6, <1>7, <2>3, <2>6, <2>7 DEF FHOp, RB
<1> QED BY <1>8, <1>9

-----------------------------------------------------------------------------
(* Queues as orders.                                                       *)

(* A queue is an order of its peers.                                       *)
LEMMA QueueOrder ==
  ASSUME NEW S, NEW q \in Seq(S), Distinct(q)
  PROVE  q \in Orderings(Queued(q))
<1> DEFINE T == Queued(q)
           n == Len(q)
<1>1. n \in Nat
  BY LenProperties
<1>2. /\ q \in [1 .. n -> T]
      /\ \A i, j \in 1 .. n : q[i] = q[j] => i = j
      /\ \A x \in T : \E i \in 1 .. n : q[i] = x
  <2>1. q \in [1 .. n -> S]
    BY LenProperties
  <2>2. \A i \in 1 .. n : q[i] \in T
    BY DEF Queued
  <2> QED BY <2>1, <2>2 DEF Distinct, Queued
<1> HIDE DEF T, n
<1>3. ExistsBijection(1 .. n, T)
  BY <1>2 DEF ExistsBijection, Bijection, Injection, Surjection, IsInjective
<1>4. Cardinality(T) = n
  BY <1>1, <1>3, FS_CountingElements
<1>5. q \in Orderings(T)
  BY <1>2, <1>4 DEF Orderings
<1> QED BY <1>5 DEF T

(* One more peer at the end of a queue.                                    *)
LEMMA AppendQueue ==
  ASSUME NEW S, NEW q \in Seq(S), Distinct(q), NEW p \in S, p \notin Queued(q)
  PROVE  /\ Append(q, p) \in Seq(S)
         /\ Distinct(Append(q, p))
         /\ Queued(Append(q, p)) = Queued(q) \cup {p}
<1> DEFINE r == Append(q, p)
<1>1. Len(q) \in Nat /\ r \in Seq(S) /\ Len(r) = Len(q) + 1 /\ r[Len(q) + 1] = p
      /\ \A i \in 1 .. Len(q) : r[i] = q[i]
  BY LenProperties, AppendProperties
<1> HIDE DEF r
<1>2. \A i \in 1 .. Len(q) : q[i] # p
  BY DEF Queued
<1>3. \A i \in 1 .. Len(r) : i \in 1 .. Len(q) \/ i = Len(q) + 1
  BY <1>1
<1>4. Distinct(r)
  BY <1>1, <1>2, <1>3 DEF Distinct
<1>5. \A i \in 1 .. Len(q) + 1 : i \in 1 .. Len(r)
  BY <1>1
<1>6. Queued(r) \subseteq Queued(q) \cup {p}
  BY <1>1, <1>3 DEF Queued
<1>7. p \in Queued(r)
  <2>1. Len(q) + 1 \in 1 .. Len(r)
    BY <1>1
  <2> QED BY <1>1, <2>1 DEF Queued
<1>8. Queued(q) \subseteq Queued(r)
  <2>1. \A i \in 1 .. Len(q) : i \in 1 .. Len(r)
    BY <1>1
  <2> QED BY <1>1, <2>1 DEF Queued
<1> QED BY <1>1, <1>4, <1>6, <1>7, <1>8 DEF r

(* What is not queued is nowhere in the queue, and what is queued is.      *)
LEMMA QueuedIn ==
  ASSUME NEW q, NEW set
  PROVE  /\ Clear(q, set) <=> Queued(q) \cap set = {}
         /\ All(q, set) <=> Queued(q) \subseteq set
  BY DEF Clear, All, Queued

(* The empty queue.                                                        *)
LEMMA EmptyQueue ==
  ASSUME NEW S
  PROVE  <<>> \in Seq(S) /\ Distinct(<<>>) /\ Queued(<<>>) = {}
<1>1. Len(<<>>) = 0 /\ <<>> \in Seq(S)
  BY EmptySeq
<1>2. 1 .. 0 = {}
  OBVIOUS
<1> QED BY <1>1, <1>2 DEF Distinct, Queued

(* It is the only one without a peer.                                      *)
LEMMA NothingQueued ==
  ASSUME NEW S, NEW q \in Seq(S), Queued(q) = {}
  PROVE  q = <<>>
<1>1. Len(q) \in Nat
  BY LenProperties
<1>2. 1 \notin 1 .. Len(q)
  BY DEF Queued
<1>3. Len(q) = 0
  BY <1>1, <1>2
<1> QED BY <1>3, EmptySeq

(* The queue of one peer.                                                  *)
LEMMA SingleQueue ==
  ASSUME NEW S, NEW p \in S
  PROVE  <<p>> \in Seq(S) /\ Distinct(<<p>>) /\ Queued(<<p>>) = {p}
<1> DEFINE s == <<p>>
<1>1. s \in Seq(S) /\ Len(s) = 1 /\ s[1] = p
  OBVIOUS
<1> HIDE DEF s
<1>2. 1 .. 1 = {1}
  OBVIOUS
<1>3. Distinct(s)
  BY <1>1, <1>2 DEF Distinct
<1>4. Queued(s) = {p}
  BY <1>1, <1>2 DEF Queued
<1> QED BY <1>1, <1>3, <1>4 DEF s

-----------------------------------------------------------------------------
(* The queue the loop begins with, cut ahead of its first penalized peer.  *)

(* A nonempty set of numbers has a least one.                              *)
LEMMA LeastNumber ==
  ASSUME NEW T \in SUBSET Nat, T # {}
  PROVE  \E n \in T : \A m \in T : n <= m
<1>1. PICK n \in T : \A m \in T : ~(<<m, n>> \in OpToRel(<, Nat))
  BY NatLessThanWellFounded, WFMin
<1>2. \A m \in T : ~(m < n)
  BY <1>1 DEF OpToRel
<1> QED BY <1>2

(* Every queue has a place ahead of its first penalized peer.              *)
LEMMA AheadExists ==
  ASSUME NEW S, NEW q \in Seq(S), NEW penalized
  PROVE  \E k \in 0 .. Len(q) : IsAhead(q, penalized, k)
<1>1. Len(q) \in Nat
  BY LenProperties
<1> DEFINE T == {i \in 1 .. Len(q) : q[i] \in penalized}
<1>2. CASE T = {}
  <2>1. IsAhead(q, penalized, Len(q))
    BY <1>1, <1>2 DEF IsAhead
  <2> QED BY <1>1, <2>1
<1>3. CASE T # {}
  <2>1. T \in SUBSET Nat
    BY <1>1
  <2>2. PICK n \in T : \A m \in T : n <= m
    BY <1>3, <2>1, LeastNumber
  <2>3. n \in 1 .. Len(q) /\ q[n] \in penalized
        /\ \A m \in 1 .. Len(q) : q[m] \in penalized => n <= m
    BY <2>2
  <2>4. n - 1 \in 0 .. Len(q) /\ (n - 1) + 1 = n
    BY <1>1, <2>3
  <2>5. \A i \in 1 .. n - 1 : i \in 1 .. Len(q) /\ ~(n <= i)
    BY <1>1, <2>3
  <2>6. IsAhead(q, penalized, n - 1)
    BY <2>3, <2>4, <2>5 DEF IsAhead
  <2> QED BY <2>4, <2>6
<1> QED BY <1>2, <1>3

(* Cut there, a queue is its own Form.                                     *)
LEMMA CutQueue ==
  ASSUME NEW S, NEW q \in Seq(S), NEW penalized, NEW k \in 0 .. Len(q),
         IsAhead(q, penalized, k)
  PROVE  LET H == SubSeq(q, 1, k)
             R == SubSeq(q, k + 1, Len(q))
         IN  /\ Split(S, <<>>, H, <<>>, R, <<>>, penalized)
             /\ Form(<<>>, H, <<>>, R, <<>>) = q
<1> DEFINE H == SubSeq(q, 1, k)
           R == SubSeq(q, k + 1, Len(q))
<1>1. Len(q) \in Nat /\ k \in Nat /\ k <= Len(q)
  BY LenProperties
<1>2. H \in Seq(S) /\ Len(H) = k /\ \A i \in 1 .. k : H[i] = q[i]
  BY <1>1
<1>3. R \in Seq(S) /\ Len(R) = Len(q) - k /\ \A i \in 1 .. Len(q) - k : R[i] = q[k + i]
  BY <1>1
<1> HIDE DEF H, R
<1>4. Clear(H, penalized)
  BY <1>2 DEF Clear, IsAhead
<1>5. Len(R) > 0 => R[1] \in penalized
  <2>1. SUFFICES ASSUME Len(R) > 0 PROVE R[1] \in penalized
    OBVIOUS
  <2>2. 1 \in 1 .. Len(q) - k /\ k < Len(q)
    BY <1>1, <1>3, <2>1
  <2> QED BY <1>3, <2>2 DEF IsAhead
<1>6. H \o R = q
  <2> DEFINE u == H \o R
  <2>1. u \in Seq(S) /\ Len(u) = Len(q)
        /\ \A i \in 1 .. Len(q) : u[i] = IF i <= k THEN H[i] ELSE R[i - k]
    <3>1. Len(H) + Len(R) = Len(q)
      BY <1>1, <1>2, <1>3
    <3> QED BY <1>2, <1>3, <3>1, ConcatProperties
  <2> HIDE DEF u
  <2>2. ASSUME NEW i \in 1 .. Len(q) PROVE u[i] = q[i]
    <3>1. CASE i <= k
      BY <1>1, <1>2, <2>1, <3>1
    <3>2. CASE ~(i <= k)
      <4>1. i - k \in 1 .. Len(q) - k /\ k + (i - k) = i
        BY <1>1, <3>2
      <4> QED BY <1>3, <2>1, <3>2, <4>1
    <3> QED BY <3>1, <3>2
  <2>3. u = q
    BY <2>1, <2>2, SeqEqual
  <2> QED BY <2>3 DEF u
<1>7. Parts(S, <<>>, H, <<>>, R, <<>>)
  BY <1>2, <1>3, EmptySeq DEF Parts
<1>8. Clear(<<>>, penalized) /\ All(<<>>, penalized)
  BY EmptyQueue, QueuedIn
<1>9. Split(S, <<>>, H, <<>>, R, <<>>, penalized)
  BY <1>4, <1>5, <1>7, <1>8 DEF Split
<1>10. Form(<<>>, H, <<>>, R, <<>>) = q
  <2>1. <<>> \o H = H /\ H \o <<>> = H
    BY <1>2, ConcatEmptySeq
  <2>2. q \o <<>> = q
    BY ConcatEmptySeq
  <2> QED BY <1>6, <2>1, <2>2 DEF Form
<1> QED BY <1>9, <1>10 DEF H, R

-----------------------------------------------------------------------------
(* The turns of the loop.                                                  *)

Turns(g, q, order, good, penalized, m) ==
  g = [n \in 0 .. m |-> IF n = 0 THEN q ELSE Enqueue(g[n - 1], order[n], good, penalized)]

(* The recursive function Looped is defined by exists.                     *)
LEMMA TurnsExist ==
  ASSUME NEW q, NEW order, NEW good, NEW penalized, NEW N \in Nat
  PROVE  \E g : Turns(g, q, order, good, penalized, N)
<1> DEFINE T == {m \in Nat : ~\E g : Turns(g, q, order, good, penalized, m)}
<1>1. SUFFICES ASSUME T # {} PROVE FALSE
  OBVIOUS
<1>2. PICK m \in T : \A k \in T : m <= k
  BY <1>1, LeastNumber
<1>3. m # 0
  <2> DEFINE g == [n \in 0 .. 0 |-> q]
  <2>1. Turns(g, q, order, good, penalized, 0)
    BY DEF Turns
  <2> QED BY <2>1
<1>4. m - 1 \in Nat /\ m - 1 \notin T
  BY <1>2, <1>3
<1>5. PICK g : Turns(g, q, order, good, penalized, m - 1)
  BY <1>4
<1> DEFINE h == [n \in 0 .. m |-> IF n = m THEN Enqueue(g[m - 1], order[m], good, penalized)
                                  ELSE g[n]]
<1>6. \A n \in 0 .. m :
        h[n] = IF n = 0 THEN q ELSE Enqueue(h[n - 1], order[n], good, penalized)
  <2> TAKE n \in 0 .. m
  <2>1. \A k \in 0 .. m - 1 :
          g[k] = IF k = 0 THEN q ELSE Enqueue(g[k - 1], order[k], good, penalized)
    BY <1>5 DEF Turns
  <2>2. CASE n = m
    <3>1. n - 1 \in 0 .. m /\ n - 1 # m /\ n # 0
      BY <2>2, <1>3
    <3>2. h[n - 1] = g[m - 1]
      BY <3>1, <2>2
    <3>3. h[n] = Enqueue(g[m - 1], order[m], good, penalized)
      BY <2>2
    <3> QED BY <3>1, <3>2, <3>3, <2>2
  <2>3. CASE n # m
    <3>1. n \in 0 .. m - 1 /\ h[n] = g[n]
      BY <2>3
    <3>2. CASE n = 0
      BY <2>1, <3>1, <3>2
    <3>3. CASE n # 0
      <4>1. n - 1 \in 0 .. m /\ n - 1 # m
        BY <3>1, <3>3
      <4>2. h[n - 1] = g[n - 1]
        BY <4>1
      <4> HIDE DEF h
      <4> QED BY <4>2, <3>1, <3>3, <2>1
    <3> QED BY <3>2, <3>3
  <2> QED BY <2>2, <2>3
<1>7. h = [n \in 0 .. m |-> h[n]]
  OBVIOUS
<1> HIDE DEF h
<1>8. Turns(h, q, order, good, penalized, m)
  BY <1>6, <1>7 DEF Turns
<1> QED BY <1>8, <1>2

(* g are the queues after each turn of the loop over order.                *)
Runs(g, q, order, good, penalized) ==
  /\ g[0] = q
  /\ \A n \in 1 .. Len(order) : g[n] = Enqueue(g[n - 1], order[n], good, penalized)

(* Looped is the last of the queues its turns make, each from the one before. *)
LEMMA LoopedRuns ==
  ASSUME NEW S, NEW q, NEW order \in Seq(S), NEW good, NEW penalized
  PROVE  \E g : /\ Runs(g, q, order, good, penalized)
                /\ Looped(q, order, good, penalized) = g[Len(order)]
<1> DEFINE L == Len(order)
           g == CHOOSE g : Turns(g, q, order, good, penalized, L)
<1>1. L \in Nat
  BY LenProperties
<1>2. Looped(q, order, good, penalized) = g[L]
  BY DEF Looped, Turns
<1>3. Turns(g, q, order, good, penalized, L)
  BY <1>1, TurnsExist
<1> HIDE DEF g
<1>4. \A n \in 0 .. L :
        g[n] = IF n = 0 THEN q ELSE Enqueue(g[n - 1], order[n], good, penalized)
  BY <1>3 DEF Turns
<1> HIDE DEF L
<1>5. g[0] = q
  BY <1>1, <1>4
<1>6. \A n \in 1 .. L : n \in 0 .. L /\ n # 0
  BY <1>1
<1>7. \A n \in 1 .. L : g[n] = Enqueue(g[n - 1], order[n], good, penalized)
  BY <1>4, <1>6
<1>8. Runs(g, q, order, good, penalized)
  BY <1>5, <1>7 DEF Runs, L
<1> QED BY <1>2, <1>8 DEF L

-----------------------------------------------------------------------------
(* Every loop ends in a queue of the closed form.                          *)

(* r is a queue that the peers P can have made of head and rest.           *)
Joined(S, H, R, P, good, penalized, r) ==
  \E F, O, B :
    /\ Split(S, F, H, O, R, B, penalized)
    /\ Distinct(F) /\ Queued(F) = (P \cap {good}) \ penalized
    /\ Distinct(O) /\ Queued(O) = P \ (penalized \cup {good})
    /\ Distinct(B) /\ Queued(B) = P \cap penalized
    /\ r = Form(F, H, O, R, B)

(* One more turn joins one more peer.                                      *)
LEMMA JoinedTurn ==
  ASSUME NEW S, NEW H, NEW R, NEW P, NEW good, NEW penalized, NEW r,
         Joined(S, H, R, P, good, penalized, r), NEW p \in S, p \notin P
  PROVE  Joined(S, H, R, P \cup {p}, good, penalized, Enqueue(r, p, good, penalized))
<1> DEFINE P2 == P \cup {p}
           r2 == Enqueue(r, p, good, penalized)
<1>1. PICK F, O, B :
        /\ Split(S, F, H, O, R, B, penalized)
        /\ Distinct(F) /\ Queued(F) = (P \cap {good}) \ penalized
        /\ Distinct(O) /\ Queued(O) = P \ (penalized \cup {good})
        /\ Distinct(B) /\ Queued(B) = P \cap penalized
        /\ r = Form(F, H, O, R, B)
  BY DEF Joined
<1>2. F \in Seq(S) /\ H \in Seq(S) /\ O \in Seq(S) /\ R \in Seq(S) /\ B \in Seq(S)
  BY <1>1 DEF Split, Parts
<1>3. /\ Clear(F, penalized) /\ Clear(H, penalized) /\ Clear(O, penalized) /\ All(B, penalized)
      /\ Len(R) > 0 => R[1] \in penalized
  BY <1>1 DEF Split
<1>4. Split(S, F, H, O, R, B, penalized) /\ r = Form(F, H, O, R, B)
  BY <1>1
<1>5. CASE p = good /\ p \notin penalized
  <2>1. Queued(F) = {}
    BY <1>1, <1>5
  <2>2. F = <<>>
    BY <1>2, <2>1, NothingQueued
  <2>3. r2 = Form(<<p>>, H, O, R, B)
    BY <1>4, <1>5, <2>2, EnqueueGood
  <2>4. <<p>> \in Seq(S) /\ Distinct(<<p>>) /\ Queued(<<p>>) = {p}
    BY SingleQueue
  <2>5. Queued(<<p>>) = (P2 \cap {good}) \ penalized
    BY <1>5, <2>4
  <2>6. Queued(O) = P2 \ (penalized \cup {good}) /\ Queued(B) = P2 \cap penalized
    BY <1>1, <1>5
  <2>7. Clear(<<p>>, penalized)
    BY <1>5, <2>4, QueuedIn
  <2>8. Split(S, <<p>>, H, O, R, B, penalized)
    BY <1>2, <1>3, <2>4, <2>7 DEF Split, Parts
  <2> HIDE DEF P2, r2
  <2>9. Joined(S, H, R, P2, good, penalized, r2)
    BY <1>1, <2>3, <2>4, <2>5, <2>6, <2>8 DEF Joined
  <2> QED BY <2>9 DEF P2, r2
<1>6. CASE p \in penalized
  <2>1. p \notin Queued(B)
    BY <1>1
  <2> DEFINE B2 == Added(B, p)
  <2>2. B2 \in Seq(S) /\ Distinct(B2) /\ Queued(B2) = Queued(B) \cup {p}
    BY <1>1, <1>2, <2>1, AppendQueue DEF Added
  <2>3. r2 = Form(F, H, O, R, B2)
    BY <1>4, <1>6, EnqueueForm
  <2> HIDE DEF B2
  <2>4. Queued(B2) = P2 \cap penalized
    BY <1>1, <1>6, <2>2
  <2>5. Queued(F) = (P2 \cap {good}) \ penalized /\ Queued(O) = P2 \ (penalized \cup {good})
    BY <1>1, <1>6
  <2>6. All(B2, penalized)
    BY <2>4, QueuedIn
  <2>7. Split(S, F, H, O, R, B2, penalized)
    BY <1>2, <1>3, <2>2, <2>6 DEF Split, Parts
  <2> HIDE DEF P2, r2
  <2>8. Joined(S, H, R, P2, good, penalized, r2)
    BY <1>1, <2>2, <2>4, <2>5, <2>7, <2>3 DEF Joined
  <2> QED BY <2>8 DEF P2, r2
<1>7. CASE p # good /\ p \notin penalized
  <2>1. p \notin Queued(O)
    BY <1>1
  <2> DEFINE O2 == Added(O, p)
  <2>2. O2 \in Seq(S) /\ Distinct(O2) /\ Queued(O2) = Queued(O) \cup {p}
    BY <1>1, <1>2, <2>1, AppendQueue DEF Added
  <2>3. r2 = Form(F, H, O2, R, B)
    BY <1>4, <1>7, EnqueueForm
  <2> HIDE DEF O2
  <2>4. Queued(O2) = P2 \ (penalized \cup {good})
    BY <1>1, <1>7, <2>2
  <2>5. Queued(F) = (P2 \cap {good}) \ penalized /\ Queued(B) = P2 \cap penalized
    BY <1>1, <1>7
  <2>6. Clear(O2, penalized)
    BY <2>4, QueuedIn
  <2>7. Split(S, F, H, O2, R, B, penalized)
    BY <1>2, <1>3, <2>2, <2>6 DEF Split, Parts
  <2> HIDE DEF P2, r2
  <2>8. Joined(S, H, R, P2, good, penalized, r2)
    BY <1>1, <2>2, <2>4, <2>5, <2>7, <2>3 DEF Joined
  <2> QED BY <2>8 DEF P2, r2
<1> QED BY <1>5, <1>6, <1>7

(* The peers of an order up to its n-th.                                   *)
Upto(order, n) == {order[i] : i \in 1 .. n}

(* The queue any order of the report ends in is one of the closed form.    *)
LEMMA LoopInClosedForm ==
  ASSUME NEW S, IsFiniteSet(S), NEW q \in Seq(S), NEW new, new \subseteq S,
         NEW good, NEW penalized, NEW order \in Orderings(new)
  PROVE  Looped(q, order, good, penalized) \in EnqueueAll(q, new, good, penalized)
<1>1. order \in Seq(S) /\ Distinct(order) /\ Queued(order) = new
  BY OrderQueue
<1>2. PICK k \in 0 .. Len(q) : IsAhead(q, penalized, k)
  BY AheadExists
<1> DEFINE H == SubSeq(q, 1, k)
           R == SubSeq(q, k + 1, Len(q))
<1>3. Split(S, <<>>, H, <<>>, R, <<>>, penalized) /\ Form(<<>>, H, <<>>, R, <<>>) = q
  BY <1>2, CutQueue
<1> HIDE DEF H, R
<1>4. PICK g : /\ Runs(g, q, order, good, penalized)
               /\ Looped(q, order, good, penalized) = g[Len(order)]
  BY <1>1, LoopedRuns
<1> DEFINE L == Len(order)
           Good(n) == Joined(S, H, R, Upto(order, n), good, penalized, g[n])
<1>5. L \in Nat
  BY <1>1, LenProperties
<1>6. Good(0)
  <2>1. Upto(order, 0) = {}
    BY DEF Upto
  <2>2. g[0] = Form(<<>>, H, <<>>, R, <<>>)
    BY <1>3, <1>4 DEF Runs
  <2>3. Distinct(<<>>) /\ Queued(<<>>) = {}
    BY EmptyQueue
  <2> QED BY <1>3, <2>1, <2>2, <2>3 DEF Joined
<1>7. ASSUME NEW n \in 1 .. L, Good(n - 1) PROVE Good(n)
  <2>1. n \in 1 .. Len(order) /\ \A i \in 1 .. n - 1 : i \in 1 .. Len(order) /\ i # n
    BY <1>5
  <2>2. order[n] \in S
    BY <1>1, <2>1
  <2>3. order[n] \notin Upto(order, n - 1)
    BY <1>1, <2>1 DEF Distinct, Upto
  <2>4. \A i \in 1 .. n : i \in 1 .. n - 1 \/ i = n
    BY <1>5
  <2>5. \A i \in 1 .. n - 1 : i \in 1 .. n
    BY <1>5
  <2>6. n \in 1 .. n
    BY <1>5
  <2>7. Upto(order, n) = Upto(order, n - 1) \cup {order[n]}
    BY <2>4, <2>5, <2>6 DEF Upto
  <2>8. g[n] = Enqueue(g[n - 1], order[n], good, penalized)
    BY <1>4, <2>1 DEF Runs
  <2> QED BY <1>7, <2>2, <2>3, <2>7, <2>8, JoinedTurn
<1> HIDE DEF Good, L
<1>8. Good(L)
  <2> DEFINE T == {n \in 0 .. L : ~Good(n)}
  <2>1. SUFFICES ASSUME T # {} PROVE FALSE
    BY <1>5
  <2>2. T \in SUBSET Nat
    BY <1>5
  <2>3. PICK n \in T : \A m \in T : n <= m
    BY <2>1, <2>2, LeastNumber
  <2>4. n # 0
    BY <1>6, <2>3
  <2>5. n \in 1 .. L /\ n - 1 \in 0 .. L /\ ~(n <= n - 1)
    BY <1>5, <2>3, <2>4
  <2>6. Good(n - 1)
    BY <2>3, <2>5
  <2> QED BY <1>7, <2>3, <2>5, <2>6
<1>9. Upto(order, Len(order)) = new
  BY <1>1 DEF Upto, Queued
<1>10. Joined(S, H, R, new, good, penalized, g[L])
  BY <1>8, <1>9 DEF Good, L
<1>11. PICK F, O, B :
         /\ Split(S, F, H, O, R, B, penalized)
         /\ Distinct(F) /\ Queued(F) = (new \cap {good}) \ penalized
         /\ Distinct(O) /\ Queued(O) = new \ (penalized \cup {good})
         /\ Distinct(B) /\ Queued(B) = new \cap penalized
         /\ g[L] = Form(F, H, O, R, B)
  BY <1>10 DEF Joined
<1>12. F \in Seq(S) /\ O \in Seq(S) /\ B \in Seq(S)
  BY <1>11 DEF Split, Parts
<1>13. F \in Orderings((new \cap {good}) \ penalized)
  BY <1>11, <1>12, QueueOrder
<1>14. O \in Orderings(new \ (penalized \cup {good}))
  BY <1>11, <1>12, QueueOrder
<1>15. B \in Orderings(new \cap penalized)
  BY <1>11, <1>12, QueueOrder
<1> DEFINE w == [front |-> F, ahead |-> k, ordinary |-> O, back |-> B]
<1>16. w \in [front    : Orderings((new \cap {good}) \ penalized),
              ahead    : {n \in 0 .. Len(q) : IsAhead(q, penalized, n)},
              ordinary : Orderings(new \ (penalized \cup {good})),
              back     : Orderings(new \cap penalized)]
  BY <1>2, <1>13, <1>14, <1>15
<1>17. g[L] = w.front \o SubSeq(q, 1, w.ahead) \o w.ordinary
                \o SubSeq(q, w.ahead + 1, Len(q)) \o w.back
  BY <1>11 DEF Form, H, R
<1> HIDE DEF w
<1>18. g[L] \in EnqueueAll(q, new, good, penalized)
  BY <1>16, <1>17 DEF EnqueueAll
<1> QED BY <1>4, <1>18 DEF L

-----------------------------------------------------------------------------
(* Every queue of the closed form is the end of a loop.                    *)

(* The first m peers of s, and one more.                                   *)
LEMMA TakeOneMore ==
  ASSUME NEW S, NEW s \in Seq(S), NEW m \in 1 .. Len(s)
  PROVE  Added(SubSeq(s, 1, m - 1), s[m]) = SubSeq(s, 1, m)
<1>1. Len(s) \in Nat /\ m \in Nat /\ m >= 1 /\ m <= Len(s) /\ m - 1 \in Nat
  BY LenProperties
<1> DEFINE a == SubSeq(s, 1, m - 1)
           b == SubSeq(s, 1, m)
<1>2. a \in Seq(S) /\ Len(a) = m - 1 /\ \A i \in 1 .. m - 1 : a[i] = s[i]
  BY <1>1
<1>3. b \in Seq(S) /\ Len(b) = m /\ \A i \in 1 .. m : b[i] = s[i]
  BY <1>1
<1> HIDE DEF a, b
<1>4. s[m] \in S
  BY <1>1
<1> DEFINE c == Append(a, s[m])
<1>5. c \in Seq(S) /\ Len(c) = Len(a) + 1 /\ c[Len(a) + 1] = s[m]
      /\ \A i \in 1 .. Len(a) : c[i] = a[i]
  BY <1>2, <1>4, AppendProperties
<1> HIDE DEF c
<1>6. Len(c) = Len(b)
  BY <1>1, <1>2, <1>3, <1>5
<1>7. \A i \in 1 .. Len(c) : c[i] = b[i]
  BY <1>1, <1>2, <1>3, <1>5, <1>6
<1>8. c = b
  BY <1>3, <1>5, <1>6, <1>7, SeqEqual
<1> QED BY <1>8 DEF a, b, c, Added

(* All the peers of s, and none.                                           *)
LEMMA TakeAll ==
  ASSUME NEW S, NEW s \in Seq(S)
  PROVE  SubSeq(s, 1, Len(s)) = s /\ SubSeq(s, 1, 0) = <<>>
<1>1. Len(s) \in Nat
  BY LenProperties
<1> DEFINE b == SubSeq(s, 1, Len(s))
<1>2. b \in Seq(S) /\ Len(b) = Len(s) /\ \A i \in 1 .. Len(s) : b[i] = s[i]
  BY <1>1
<1> HIDE DEF b
<1>3. b = s
  BY <1>2, SeqEqual
<1> QED BY <1>3 DEF b

(* The turns after the m-th enqueue the peers of s.                        *)
Serves(g, m, s, good, penalized) ==
  \A i \in 1 .. Len(s) : g[m + i] = Enqueue(g[m + (i - 1)], s[i], good, penalized)

(* The turns of the ordinary peers.                                        *)
LEMMA OrdinaryTurns ==
  ASSUME NEW S, NEW F, NEW H, NEW R, NEW good, NEW penalized,
         Split(S, F, H, <<>>, R, <<>>, penalized),
         NEW s \in Seq(S), Clear(s, penalized \cup {good}),
         NEW g, NEW m \in Nat, g[m] = Form(F, H, <<>>, R, <<>>),
         Serves(g, m, s, good, penalized)
  PROVE  g[m + Len(s)] = Form(F, H, s, R, <<>>) /\ Split(S, F, H, s, R, <<>>, penalized)
<1> DEFINE L == Len(s)
           Good(i) == g[m + i] = Form(F, H, SubSeq(s, 1, i), R, <<>>)
<1>1. L \in Nat
  BY LenProperties
<1>2. SubSeq(s, 1, Len(s)) = s /\ SubSeq(s, 1, 0) = <<>>
  BY TakeAll
<1>3. Good(0)
  <2>1. m + 0 = m
    OBVIOUS
  <2> QED BY <1>2, <2>1
<1>4. ASSUME NEW i \in 0 .. L PROVE Split(S, F, H, SubSeq(s, 1, i), R, <<>>, penalized)
  <2> DEFINE t == SubSeq(s, 1, i)
  <2>1. t \in Seq(S) /\ Len(t) = i /\ \A j \in 1 .. i : t[j] = s[j] /\ j \in 1 .. Len(s)
    BY <1>1
  <2> HIDE DEF t
  <2>2. Clear(t, penalized)
    BY <2>1 DEF Clear
  <2>3. Split(S, F, H, t, R, <<>>, penalized)
    BY <2>1, <2>2 DEF Split, Parts
  <2> QED BY <2>3 DEF t
<1>5. ASSUME NEW i \in 1 .. L, Good(i - 1) PROVE Good(i)
  <2>1. i - 1 \in 0 .. L /\ i \in 1 .. Len(s)
    BY <1>1
  <2> DEFINE t == SubSeq(s, 1, i - 1)
  <2>2. Split(S, F, H, t, R, <<>>, penalized)
    BY <1>4, <2>1
  <2>3. g[m + i] = Enqueue(g[m + (i - 1)], s[i], good, penalized)
    BY <2>1 DEF Serves
  <2>4. s[i] \in S /\ s[i] \notin penalized /\ s[i] # good
    BY <2>1 DEF Clear
  <2>5. Added(t, s[i]) = SubSeq(s, 1, i)
    BY <2>1, TakeOneMore
  <2>6. g[m + (i - 1)] = Form(F, H, t, R, <<>>)
    BY <1>5
  <2> HIDE DEF t
  <2>7. Enqueue(Form(F, H, t, R, <<>>), s[i], good, penalized)
          = Form(F, H, Added(t, s[i]), R, <<>>)
    BY <2>2, <2>4, EnqueueForm
  <2> QED BY <2>3, <2>5, <2>6, <2>7
<1> HIDE DEF Good, L
<1>6. Good(L)
  <2> DEFINE T == {n \in 0 .. L : ~Good(n)}
  <2>1. SUFFICES ASSUME T # {} PROVE FALSE
    BY <1>1
  <2>2. T \in SUBSET Nat
    BY <1>1
  <2>3. PICK n \in T : \A j \in T : n <= j
    BY <2>1, <2>2, LeastNumber
  <2>4. n # 0
    BY <1>3, <2>3
  <2>5. n \in 1 .. L /\ n - 1 \in 0 .. L /\ ~(n <= n - 1)
    BY <1>1, <2>3, <2>4
  <2>6. Good(n - 1)
    BY <2>3, <2>5
  <2> QED BY <1>5, <2>3, <2>5, <2>6
<1>7. L \in 0 .. L
  BY <1>1
<1> QED BY <1>2, <1>4, <1>6, <1>7 DEF Good, L

(* The turns of the penalized peers.                                       *)
LEMMA PenalizedTurns ==
  ASSUME NEW S, NEW F, NEW H, NEW O, NEW R, NEW good, NEW penalized,
         Split(S, F, H, O, R, <<>>, penalized),
         NEW s \in Seq(S), All(s, penalized),
         NEW g, NEW m \in Nat, g[m] = Form(F, H, O, R, <<>>),
         Serves(g, m, s, good, penalized)
  PROVE  g[m + Len(s)] = Form(F, H, O, R, s)
<1> DEFINE L == Len(s)
           Good(i) == g[m + i] = Form(F, H, O, R, SubSeq(s, 1, i))
<1>1. L \in Nat
  BY LenProperties
<1>2. SubSeq(s, 1, Len(s)) = s /\ SubSeq(s, 1, 0) = <<>>
  BY TakeAll
<1>3. Good(0)
  <2>1. m + 0 = m
    OBVIOUS
  <2> QED BY <1>2, <2>1
<1>4. ASSUME NEW i \in 0 .. L PROVE Split(S, F, H, O, R, SubSeq(s, 1, i), penalized)
  <2> DEFINE t == SubSeq(s, 1, i)
  <2>1. t \in Seq(S) /\ Len(t) = i /\ \A j \in 1 .. i : t[j] = s[j] /\ j \in 1 .. Len(s)
    BY <1>1
  <2> HIDE DEF t
  <2>2. All(t, penalized)
    BY <2>1 DEF All
  <2>3. Split(S, F, H, O, R, t, penalized)
    BY <2>1, <2>2 DEF Split, Parts
  <2> QED BY <2>3 DEF t
<1>5. ASSUME NEW i \in 1 .. L, Good(i - 1) PROVE Good(i)
  <2>1. i - 1 \in 0 .. L /\ i \in 1 .. Len(s)
    BY <1>1
  <2> DEFINE t == SubSeq(s, 1, i - 1)
  <2>2. Split(S, F, H, O, R, t, penalized)
    BY <1>4, <2>1
  <2>3. g[m + i] = Enqueue(g[m + (i - 1)], s[i], good, penalized)
    BY <2>1 DEF Serves
  <2>4. s[i] \in S /\ s[i] \in penalized
    BY <2>1 DEF All
  <2>5. Added(t, s[i]) = SubSeq(s, 1, i)
    BY <2>1, TakeOneMore
  <2>6. g[m + (i - 1)] = Form(F, H, O, R, t)
    BY <1>5
  <2> HIDE DEF t
  <2>7. Enqueue(Form(F, H, O, R, t), s[i], good, penalized) = Form(F, H, O, R, Added(t, s[i]))
    BY <2>2, <2>4, EnqueueForm
  <2> QED BY <2>3, <2>5, <2>6, <2>7
<1> HIDE DEF Good, L
<1>6. Good(L)
  <2> DEFINE T == {n \in 0 .. L : ~Good(n)}
  <2>1. SUFFICES ASSUME T # {} PROVE FALSE
    BY <1>1
  <2>2. T \in SUBSET Nat
    BY <1>1
  <2>3. PICK n \in T : \A j \in T : n <= j
    BY <2>1, <2>2, LeastNumber
  <2>4. n # 0
    BY <1>3, <2>3
  <2>5. n \in 1 .. L /\ n - 1 \in 0 .. L /\ ~(n <= n - 1)
    BY <1>1, <2>3, <2>4
  <2>6. Good(n - 1)
    BY <2>3, <2>5
  <2> QED BY <1>5, <2>3, <2>5, <2>6
<1> QED BY <1>2, <1>6 DEF Good, L

(* A queue whose only peer is p.                                           *)
LEMMA OneQueued ==
  ASSUME NEW S, NEW q \in Seq(S), Distinct(q), NEW p \in S, Queued(q) = {p}
  PROVE  q = <<p>>
<1>1. Len(q) \in Nat /\ \A i \in 1 .. Len(q) : q[i] = p
  BY LenProperties DEF Queued
<1>2. Len(q) # 0
  <2>1. SUFFICES ASSUME Len(q) = 0 PROVE FALSE
    OBVIOUS
  <2>2. 1 .. Len(q) = {}
    BY <2>1
  <2> QED BY <2>2 DEF Queued
<1>3. ASSUME Len(q) >= 2 PROVE FALSE
  <2>1. 1 \in 1 .. Len(q) /\ 2 \in 1 .. Len(q)
    BY <1>1, <1>3
  <2>2. q[1] = q[2]
    BY <1>1, <2>1
  <2> QED BY <2>1, <2>2 DEF Distinct
<1>4. Len(q) = 1
  <2>1. \A n \in Nat : n # 0 /\ ~(n >= 2) => n = 1
    OBVIOUS
  <2> QED BY <1>1, <1>2, <1>3, <2>1
<1> DEFINE s == <<p>>
<1>5. s \in Seq(S) /\ Len(s) = 1 /\ s[1] = p
  OBVIOUS
<1> HIDE DEF s
<1>6. \A i \in 1 .. Len(q) : q[i] = s[i]
  BY <1>1, <1>4, <1>5
<1>7. q = s
  BY <1>4, <1>5, <1>6, SeqEqual
<1> QED BY <1>7 DEF s

Composed(S, order, a, b, c) ==
  a \in Seq(S) /\ b \in Seq(S) /\ c \in Seq(S) /\ order = a \o b \o c

(* The turns of a report, part by part.                                    *)
LEMMA PartTurns ==
  ASSUME NEW S, NEW q, NEW order, NEW a, NEW b, NEW c, Composed(S, order, a, b, c),
         NEW good, NEW penalized, NEW g, Runs(g, q, order, good, penalized)
  PROVE  /\ g[0] = q
         /\ Serves(g, 0, a, good, penalized)
         /\ Serves(g, Len(a), b, good, penalized)
         /\ Serves(g, Len(a) + Len(b), c, good, penalized)
         /\ Len(order) = Len(a) + Len(b) + Len(c)
<1> DEFINE ab == a \o b
           u == ab \o c
           la == Len(a)
           lb == Len(b)
           lc == Len(c)
<1>0. a \in Seq(S) /\ b \in Seq(S) /\ c \in Seq(S) /\ order = u
  BY DEF Composed
<1>1. la \in Nat /\ lb \in Nat /\ lc \in Nat
  BY <1>0, LenProperties
<1>2. ab \in Seq(S) /\ Len(ab) = la + lb
      /\ \A i \in 1 .. la + lb : ab[i] = IF i <= la THEN a[i] ELSE b[i - la]
  BY <1>0, ConcatProperties
<1> HIDE DEF ab
<1>3. Len(u) = Len(ab) + lc
      /\ \A i \in 1 .. Len(ab) + lc : u[i] = IF i <= Len(ab) THEN ab[i] ELSE c[i - Len(ab)]
  <2>1. ab \in Seq(S)
    BY <1>2
  <2> QED BY <1>0, <2>1, ConcatProperties
<1> HIDE DEF u, la, lb, lc
<1>4. \A n \in 1 .. Len(u) : g[n] = Enqueue(g[n - 1], u[n], good, penalized)
  BY <1>0 DEF Runs
<1>5. ASSUME NEW i \in 1 .. la PROVE g[i] = Enqueue(g[i - 1], a[i], good, penalized)
  <2>1. i \in 1 .. Len(u) /\ i \in 1 .. Len(ab) + lc /\ i <= Len(ab)
        /\ i \in 1 .. la + lb /\ i <= la
    BY <1>1, <1>2, <1>3
  <2>2. u[i] = a[i]
    BY <1>2, <1>3, <2>1
  <2> QED BY <1>4, <2>1, <2>2
<1>6. ASSUME NEW i \in 1 .. lb
      PROVE  g[la + i] = Enqueue(g[la + (i - 1)], b[i], good, penalized)
  <2> DEFINE n == la + i
  <2>1. n \in 1 .. Len(u) /\ n \in 1 .. Len(ab) + lc /\ n <= Len(ab) /\ n \in 1 .. la + lb
        /\ ~(n <= la) /\ n - la = i /\ n - 1 = la + (i - 1)
    BY <1>1, <1>2, <1>3
  <2> HIDE DEF n
  <2>2. u[n] = b[i]
    BY <1>2, <1>3, <2>1
  <2>3. g[n] = Enqueue(g[la + (i - 1)], b[i], good, penalized)
    BY <1>4, <2>1, <2>2
  <2> QED BY <2>3 DEF n
<1>7. ASSUME NEW i \in 1 .. lc
      PROVE  g[la + lb + i] = Enqueue(g[la + lb + (i - 1)], c[i], good, penalized)
  <2> DEFINE n == la + lb + i
  <2>1. n \in 1 .. Len(u) /\ n \in 1 .. Len(ab) + lc /\ ~(n <= Len(ab)) /\ n - Len(ab) = i
        /\ n - 1 = la + lb + (i - 1)
    BY <1>1, <1>2, <1>3
  <2> HIDE DEF n
  <2>2. u[n] = c[i]
    BY <1>3, <2>1
  <2>3. g[n] = Enqueue(g[la + lb + (i - 1)], c[i], good, penalized)
    BY <1>4, <2>1, <2>2
  <2> QED BY <2>3 DEF n
<1>8. g[0] = q
  BY DEF Runs
<1>9. Len(u) = la + lb + lc
  BY <1>1, <1>2, <1>3
<1>10. Serves(g, 0, a, good, penalized)
  <2>1. \A i \in 1 .. la : 0 + i = i /\ 0 + (i - 1) = i - 1
    BY <1>1
  <2> QED BY <1>5, <2>1 DEF Serves, la
<1>11. Serves(g, la, b, good, penalized) /\ Serves(g, la + lb, c, good, penalized)
  BY <1>6, <1>7 DEF Serves, lb, lc
<1> QED BY <1>0, <1>8, <1>9, <1>10, <1>11 DEF la, lb, lc

(* Enqueuing front, ordinary and back in turn ends in their closed form.   *)
LEMMA ClosedFormInLoop ==
  ASSUME NEW S, IsFiniteSet(S), NEW q \in Seq(S), NEW new, new \subseteq S,
         NEW good, NEW penalized
  PROVE  EnqueueAll(q, new, good, penalized)
           \subseteq {Looped(q, order, good, penalized) : order \in Orderings(new)}
<1> SUFFICES ASSUME NEW r \in EnqueueAll(q, new, good, penalized)
             PROVE  r \in {Looped(q, order, good, penalized) : order \in Orderings(new)}
  OBVIOUS
<1> DEFINE FS == (new \cap {good}) \ penalized
           OS == new \ (penalized \cup {good})
           BS == new \cap penalized
<1>1. PICK w \in [front    : Orderings(FS),
                  ahead    : {n \in 0 .. Len(q) : IsAhead(q, penalized, n)},
                  ordinary : Orderings(OS),
                  back     : Orderings(BS)] :
        r = w.front \o SubSeq(q, 1, w.ahead) \o w.ordinary \o SubSeq(q, w.ahead + 1, Len(q))
              \o w.back
  BY DEF EnqueueAll
<1> DEFINE F == w.front
           k == w.ahead
           O == w.ordinary
           B == w.back
           H == SubSeq(q, 1, k)
           R == SubSeq(q, k + 1, Len(q))
<1>2. /\ F \in Orderings(FS) /\ O \in Orderings(OS) /\ B \in Orderings(BS)
      /\ k \in 0 .. Len(q) /\ IsAhead(q, penalized, k)
  BY <1>1
<1>3. r = Form(F, H, O, R, B)
  BY <1>1 DEF Form
<1> HIDE DEF F, k, O, B
<1>4. Split(S, <<>>, H, <<>>, R, <<>>, penalized) /\ Form(<<>>, H, <<>>, R, <<>>) = q
  BY <1>2, CutQueue
<1> HIDE DEF H, R
<1>5. FS \subseteq S /\ OS \subseteq S /\ BS \subseteq S /\ FS \cup OS \cup BS = new
      /\ FS \cap OS = {} /\ (FS \cup OS) \cap BS = {}
  OBVIOUS
<1>6. FS = {} \/ (FS = {good} /\ good \in S /\ good \notin penalized)
  OBVIOUS
<1>7. OS \cap (penalized \cup {good}) = {} /\ BS \subseteq penalized
  OBVIOUS
<1> HIDE DEF FS, OS, BS
<1>8. F \in Seq(S) /\ Distinct(F) /\ Queued(F) = FS
  BY <1>2, <1>5, OrderQueue
<1>9. O \in Seq(S) /\ Distinct(O) /\ Queued(O) = OS
  BY <1>2, <1>5, OrderQueue
<1>10. B \in Seq(S) /\ Distinct(B) /\ Queued(B) = BS
  BY <1>2, <1>5, OrderQueue
<1> DEFINE FO == F \o O
           order == FO \o B
<1>11. FO \in Seq(S) /\ Distinct(FO) /\ Queued(FO) = FS \cup OS
  BY <1>5, <1>8, <1>9, ConcatQueue
<1> HIDE DEF FO
<1>12. order \in Seq(S) /\ Distinct(order) /\ Queued(order) = new
  <2>1. Queued(FO) \cap Queued(B) = {}
    BY <1>5, <1>10, <1>11
  <2>2. /\ FO \o B \in Seq(S) /\ Distinct(FO \o B)
        /\ Queued(FO \o B) = Queued(FO) \cup Queued(B)
    BY <1>10, <1>11, <2>1, ConcatQueue
  <2> QED BY <1>5, <1>10, <1>11, <2>2
<1> HIDE DEF order
<1>13. order \in Orderings(new)
  BY <1>12, QueueOrder
<1>14. PICK g : /\ Runs(g, q, order, good, penalized)
                /\ Looped(q, order, good, penalized) = g[Len(order)]
  BY <1>12, LoopedRuns
<1>15. Composed(S, order, F, O, B)
  BY <1>8, <1>9, <1>10 DEF Composed, order, FO
<1>16. /\ g[0] = q
       /\ Serves(g, 0, F, good, penalized)
       /\ Serves(g, Len(F), O, good, penalized)
       /\ Serves(g, Len(F) + Len(O), B, good, penalized)
       /\ Len(order) = Len(F) + Len(O) + Len(B)
  BY <1>14, <1>15, PartTurns
<1>17. Len(F) \in Nat /\ Len(O) \in Nat /\ Len(B) \in Nat
  BY <1>8, <1>9, <1>10, LenProperties
<1>18. g[Len(F)] = Form(F, H, <<>>, R, <<>>) /\ Split(S, F, H, <<>>, R, <<>>, penalized)
  <2>1. CASE FS = {}
    <3>1. F = <<>>
      BY <1>8, <2>1, NothingQueued
    <3>2. Len(F) = 0
      BY <3>1, EmptySeq
    <3> QED BY <1>4, <1>16, <3>1, <3>2
  <2>2. CASE FS = {good} /\ good \in S /\ good \notin penalized
    <3>1. F = <<good>>
      BY <1>8, <2>2, OneQueued
    <3>2. Len(F) = 1 /\ F[1] = good /\ 1 \in 1 .. Len(F) /\ 0 + 1 = 1 /\ 0 + (1 - 1) = 0
      BY <3>1
    <3>3. g[1] = Enqueue(q, good, good, penalized)
      BY <1>16, <3>2 DEF Serves
    <3>4. Enqueue(Form(<<>>, H, <<>>, R, <<>>), good, good, penalized)
            = Form(<<good>>, H, <<>>, R, <<>>)
      BY <1>4, <2>2, EnqueueGood
    <3>5. Clear(F, penalized)
      BY <1>8, <2>2, QueuedIn
    <3>6. Split(S, F, H, <<>>, R, <<>>, penalized)
      BY <1>4, <1>8, <3>5 DEF Split, Parts
    <3> QED BY <1>4, <3>1, <3>2, <3>3, <3>4, <3>6
  <2> QED BY <1>6, <2>1, <2>2
<1>19. g[Len(F) + Len(O)] = Form(F, H, O, R, <<>>) /\ Split(S, F, H, O, R, <<>>, penalized)
  <2>1. Clear(O, penalized \cup {good})
    BY <1>7, <1>9, QueuedIn
  <2> QED BY <1>9, <1>16, <1>17, <1>18, <2>1, OrdinaryTurns
<1>20. g[Len(F) + Len(O) + Len(B)] = Form(F, H, O, R, B)
  <2>1. All(B, penalized)
    BY <1>7, <1>10, QueuedIn
  <2> DEFINE m == Len(F) + Len(O)
  <2>2. m \in Nat
    BY <1>17
  <2>3. g[m] = Form(F, H, O, R, <<>>) /\ Serves(g, m, B, good, penalized)
    BY <1>16, <1>19
  <2> HIDE DEF m
  <2>4. g[m + Len(B)] = Form(F, H, O, R, B)
    BY <1>10, <1>19, <2>1, <2>2, <2>3, PenalizedTurns
  <2> QED BY <2>4 DEF m
<1>21. Looped(q, order, good, penalized) = r
  BY <1>3, <1>14, <1>16, <1>20
<1> QED BY <1>13, <1>21

-----------------------------------------------------------------------------
(* A provider report handled peer by peer ends in exactly the queues of    *)
(* EnqueueAll, for any queue, last good node and set of penalized nodes.   *)
THEOREM LoopIsClosedForm ==
  ASSUME NEW S, IsFiniteSet(S), NEW q \in Seq(S), NEW new, new \subseteq S,
         NEW good, NEW penalized
  PROVE  EnqueueAll(q, new, good, penalized)
           = {Looped(q, order, good, penalized) : order \in Orderings(new)}
<1>1. EnqueueAll(q, new, good, penalized)
        \subseteq {Looped(q, order, good, penalized) : order \in Orderings(new)}
  BY ClosedFormInLoop
<1>2. ASSUME NEW order \in Orderings(new)
      PROVE  Looped(q, order, good, penalized) \in EnqueueAll(q, new, good, penalized)
  BY <1>2, LoopInClosedForm
<1> QED BY <1>1, <1>2

(* ClosedFormIsLoop: the closed form RpcCalls uses for a provider report   *)
(* is the loop over enqueue() of kad_event, whatever the queue.            *)
THEOREM EnqueueLoop == Spec => []ClosedFormIsLoop
<1>1. ASSUME NEW queued \in SUBSET Peers, NEW queue \in Orderings(queued),
             NEW new \in SUBSET (Peers \ (queued \cup {Local})),
             NEW good \in Peers \cup {Nobody}, NEW fresh \in SUBSET Peers
      PROVE  EnqueueAll(queue, new, good, fresh)
               = {Looped(queue, order, good, fresh) : order \in Orderings(new)}
  <2>1. IsFiniteSet(Peers) /\ new \subseteq Peers /\ queued \subseteq Peers
    BY CallsAssumption
  <2>2. queue \in Seq(Peers)
    BY <2>1, OrderQueue
  <2> QED BY <2>1, <2>2, LoopIsClosedForm
<1>2. ClosedFormIsLoop
  BY <1>1 DEF ClosedFormIsLoop
<1> QED BY <1>2, PTL
=============================================================================
