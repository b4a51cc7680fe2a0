------------------------------ MODULE RpcCalls ------------------------------
(***************************************************************************)
(* The caller's side of an RPC: State::calls of src/src/node.rs, from      *)
(* Command::Rpc to LP2P_EV_RPC_RESPONSE or LP2P_EV_RPC_FAILED.             *)
(*                                                                         *)
(* A call to a group looks the group's nodes up in the DHT (a provider     *)
(* lookup that reports them in batches), looks up the addresses of a node  *)
(* it cannot dial (a resolution), asks one node at a time and fails over   *)
(* to the next.  The swarm's answers arrive in any order, also after the   *)
(* call is over.  Every handler ends in advance(), which is therefore part *)
(* of each action.                                                         *)
(*                                                                         *)
(* A call that is over keeps its last record here (status "over"), so that *)
(* properties can speak of it; in the code it has left the map.            *)
(***************************************************************************)
EXTENDS CandidateQueue

CONSTANTS
  Calls,         \* request ids
  Peers,         \* nodes, this one included
  Local,         \* this node
  Groups,        \* group keys
  AnyNode,       \* the target of a call that names no node
  Nobody,        \* "no last good node", "no group proved"
  MaxRemembered  \* MAX_REMEMBERED

ASSUME CallsAssumption ==
  /\ Local \in Peers
  /\ IsFiniteSet(Peers)
  /\ Groups # {}
  /\ AnyNode \notin Peers
  /\ Nobody \notin Peers \cup Groups
  /\ MaxRemembered \in Nat \ {0}

VARIABLES
  calls,             \* State::calls: Call records
  outbound,          \* State::outbound: per call, the peers a request to is outstanding
  resolutions,       \* State::resolutions: per call, the peers being resolved
  provider_lookups,  \* State::provider_lookups: calls whose provider lookup is running
  last_success,      \* State::last_success
  failed,            \* State::failed: "none", "fresh" (penalized) or "stale"
  dialable,          \* peers that are connected or in the address book
  asked,             \* history: per call, how often each peer was sent the request
  events             \* history: per call, the events emitted with its id

swarm == <<dialable>>
memory == <<last_success, failed>>
requests == <<outbound, resolutions, provider_lookups>>
vars == <<calls, requests, memory, swarm, asked, events>>

Failures == {"timeout", "refused", "unreachable"}

Call ==
  [status         : {"new", "live", "over"},
   group          : Groups,
   target         : Peers \cup {AnyNode},
   candidates     : Seq(Peers),
   seen           : SUBSET Peers,
   resolved       : SUBSET Peers,
   in_flight      : BOOLEAN,
   resolving      : BOOLEAN,
   lookup_running : BOOLEAN,
   overdue        : BOOLEAN,
   last_failure   : Failures]

NewCall(group, target) ==
  [status |-> "live", group |-> group, target |-> target,
   candidates |-> <<>>, seen |-> {}, resolved |-> {},
   in_flight |-> FALSE, resolving |-> FALSE, lookup_running |-> FALSE,
   overdue |-> FALSE, last_failure |-> "unreachable"]

Live(c) == calls[c].status = "live"

Init ==
  /\ calls = [c \in Calls |-> [NewCall(CHOOSE g \in Groups : TRUE, AnyNode)
                                 EXCEPT !.status = "new"]]
  /\ outbound = [c \in Calls |-> {}]
  /\ resolutions = [c \in Calls |-> {}]
  /\ provider_lookups = {}
  /\ last_success = [g \in Groups |-> Nobody]
  /\ failed = [p \in Peers |-> "none"]
  /\ dialable \in SUBSET Peers
  /\ asked = [c \in Calls |-> [p \in Peers |-> 0]]
  /\ events = [c \in Calls |-> <<>>]

-----------------------------------------------------------------------------
(* advance(): the first candidate that is dialable, or whose addresses     *)
(* were not looked up yet, decides; the candidates ahead of it are spent.  *)

Emit(c, event) == events' = [events EXCEPT ![c] = Append(@, event)]

Store(c, call, out, res) ==
  /\ calls' = [calls EXCEPT ![c] = call]
  /\ outbound' = [outbound EXCEPT ![c] = out]
  /\ resolutions' = [resolutions EXCEPT ![c] = res]

(* Candidate i is one the loop stops at.                                   *)
Stops(call, d, i) ==
  /\ i \in 1 .. Len(call.candidates)
  /\ call.candidates[i] \in d \/ call.candidates[i] \notin call.resolved

FirstStop(call, d, i) ==
  Stops(call, d, i) /\ \A j \in 1 .. Len(call.candidates) : Stops(call, d, j) => i <= j

(* send_request to candidate i.                                            *)
Ask(c, call, d, out, res) ==
  \E i \in 1 .. Len(call.candidates) :
    LET peer == call.candidates[i] IN
    /\ FirstStop(call, d, i)
    /\ peer \in d
    /\ Store(c, [call EXCEPT !.candidates = SubSeq(@, i + 1, Len(@)), !.in_flight = TRUE],
             out \cup {peer}, res)
    /\ asked' = [asked EXCEPT ![c][peer] = @ + 1]
    /\ UNCHANGED events

(* get_closest_peers for candidate i, which stays in front.                *)
Resolve(c, call, d, out, res) ==
  \E i \in 1 .. Len(call.candidates) :
    LET peer == call.candidates[i] IN
    /\ FirstStop(call, d, i)
    /\ peer \notin d
    /\ Store(c, [call EXCEPT !.candidates = SubSeq(@, i, Len(@)), !.resolving = TRUE,
                             !.resolved = @ \cup {peer}],
             out, res \cup {peer})
    /\ UNCHANGED <<asked, events>>

\* mutant: the call fails although its provider lookup still runs
GiveUpEarly(c, call, out, res) ==
  /\ Store(c, [call EXCEPT !.candidates = <<>>, !.status = "over"], out, res)
  /\ Emit(c, call.last_failure)
  /\ UNCHANGED asked

\* mutant: the call waits although nothing can wake it
GiveUpNever(c, call, out, res) ==
  /\ Store(c, [call EXCEPT !.candidates = <<>>], out, res)
  /\ UNCHANGED <<asked, events>>

(* Nobody is left: wait for the lookup to report more, or fail the call.   *)
GiveUp(c, call, out, res) ==
  /\ IF call.lookup_running
     THEN /\ Store(c, [call EXCEPT !.candidates = <<>>], out, res)
          /\ UNCHANGED events
     ELSE /\ Store(c, [call EXCEPT !.candidates = <<>>, !.status = "over"], out, res)
          /\ Emit(c, call.last_failure)
  /\ UNCHANGED asked

Advance(c, call, d, out, res) ==
  \/ /\ call.status # "live" \/ call.in_flight \/ call.resolving
     /\ Store(c, call, out, res)
     /\ UNCHANGED <<asked, events>>
  \/ /\ call.status = "live" /\ ~call.in_flight /\ ~call.resolving
     /\ \/ Ask(c, call, d, out, res)
        \/ Resolve(c, call, d, out, res)
        \/ /\ \A i \in 1 .. Len(call.candidates) : ~Stops(call, d, i)
           /\ GiveUp(c, call, out, res)

-----------------------------------------------------------------------------
(* remember_failure(): at the limit the entries whose penalty is over go   *)
(* first, then all of them.                                                *)
Remembered(f) == {p \in Peers : f[p] # "none"}

\* mutant: only the entries whose penalty is over are ever dropped
RememberFailureUnbounded(peer) ==
  failed' = [p \in Peers |-> IF p = peer THEN "fresh"
                             ELSE IF failed[p] = "fresh" THEN "fresh"
                             ELSE "none"]

RememberFailure(peer) ==
  LET full  == Cardinality(Remembered(failed)) >= MaxRemembered
      fresh == {p \in Peers : failed[p] = "fresh"}
      keep  == IF ~full THEN Remembered(failed)
               ELSE IF Cardinality(fresh) >= MaxRemembered THEN {} ELSE fresh
  IN  failed' = [p \in Peers |-> IF p = peer THEN "fresh"
                                 ELSE IF p \in keep THEN failed[p]
                                 ELSE "none"]

(* The last good node of a group, in a map that is cleared at its limit.   *)
RememberSuccess(group, peer) ==
  LET full == Cardinality({g \in Groups : last_success[g] # Nobody}) >= MaxRemembered
  IN  last_success' = [g \in Groups |-> IF g = group THEN peer
                                        ELSE IF full THEN Nobody
                                        ELSE last_success[g]]

-----------------------------------------------------------------------------
(* Command::Rpc: to one node, or to any node of the group, whose nodes are *)
(* looked up first.                                                        *)
RpcToNode(c, group, peer) ==
  /\ calls[c].status = "new"
  /\ Advance(c, [NewCall(group, peer) EXCEPT !.candidates = <<peer>>, !.seen = {peer}],
             dialable, outbound[c], resolutions[c])
  /\ UNCHANGED <<provider_lookups, memory, swarm>>

RpcToGroup(c, group) ==
  /\ calls[c].status = "new"
  /\ provider_lookups' = provider_lookups \cup {c}
  /\ Advance(c, [NewCall(group, AnyNode) EXCEPT !.lookup_running = TRUE],
             dialable, outbound[c], resolutions[c])
  /\ UNCHANGED <<memory, swarm>>

\* mutant: a provider reported twice is queued twice
NewProvidersAgain(call, batch) == batch \ {Local}

(* The providers of a report that the call has not seen, this node never.  *)
NewProviders(call, batch) == batch \ (call.seen \cup {Local})

(* A provider lookup reports a batch; last ends it (kad_event,             *)
(* GetProviders).  An error or a timeout reports nothing.                  *)
ProvidersFound(c, batch, last) ==
  /\ c \in provider_lookups
  /\ provider_lookups' = IF last THEN provider_lookups \ {c} ELSE provider_lookups
  /\ \/ /\ Live(c)
        /\ LET new == NewProviders(calls[c], batch) IN
           \E queue \in EnqueueAll(calls[c].candidates, new, last_success[calls[c].group],
                                   {p \in Peers : failed[p] = "fresh"}) :
             Advance(c, [calls[c] EXCEPT !.candidates = queue, !.seen = @ \cup new,
                                         !.lookup_running = @ /\ ~last],
                     dialable, outbound[c], resolutions[c])
     \/ /\ ~Live(c)
        /\ UNCHANGED <<calls, outbound, resolutions, asked, events>>
  /\ UNCHANGED <<memory, swarm>>

(* A resolution ends (kad_event, GetClosestPeers): the addresses it found  *)
(* go into the address book.  A timeout brings what was found until then.  *)
ClosestPeers(c, peer, found) ==
  /\ peer \in resolutions[c]
  /\ dialable' = dialable \cup found
  /\ Advance(c, IF Live(c) THEN [calls[c] EXCEPT !.resolving = FALSE] ELSE calls[c],
             dialable \cup found, outbound[c], resolutions[c] \ {peer})
  /\ UNCHANGED <<provider_lookups, memory>>

\* mutant: the failure leaves the call waiting for the answer
FailedStillFlying(call, reason) == [call EXCEPT !.last_failure = reason]

FailedAttempt(call, reason) == [call EXCEPT !.in_flight = FALSE, !.last_failure = reason]

(* request_response::Event::OutboundFailure.  The peer is penalized even   *)
(* when the call is over.                                                  *)
OutboundFailure(c, peer, reason) ==
  /\ peer \in outbound[c]
  /\ RememberFailure(peer)
  /\ Advance(c, IF Live(c) THEN FailedAttempt(calls[c], reason) ELSE calls[c],
             dialable, outbound[c] \ {peer}, resolutions[c])
  /\ UNCHANGED <<provider_lookups, last_success, swarm>>

(* response(): proved is the group whose delegation the frame carries for  *)
(* the peer that sent it, or Nobody when the frame does not decode, the    *)
(* delegation does not verify for that peer, or it has expired.            *)
ResponseTaken(c, peer, proved) ==
  /\ peer \in outbound[c]
  /\ Live(c)
  /\ proved = calls[c].group
  /\ Store(c, [calls[c] EXCEPT !.in_flight = FALSE, !.status = "over"],
           outbound[c] \ {peer}, resolutions[c])
  /\ failed' = [failed EXCEPT ![peer] = "none"]
  /\ RememberSuccess(calls[c].group, peer)
  /\ Emit(c, "response")
  /\ UNCHANGED <<provider_lookups, swarm, asked>>

ResponseRefused(c, peer, proved) ==
  /\ peer \in outbound[c]
  /\ Live(c)
  /\ proved # calls[c].group
  /\ RememberFailure(peer)
  /\ Advance(c, FailedAttempt(calls[c], "refused"),
             dialable, outbound[c] \ {peer}, resolutions[c])
  /\ UNCHANGED <<provider_lookups, last_success, swarm>>

(* "A response that still arrives finds no call and is dropped."           *)
ResponseLate(c, peer) ==
  /\ peer \in outbound[c]
  /\ ~Live(c)
  /\ Store(c, calls[c], outbound[c] \ {peer}, resolutions[c])
  /\ UNCHANGED <<provider_lookups, memory, swarm, asked, events>>

(* Time: a call's deadline passes, a penalty runs out.                     *)
DeadlinePasses(c) ==
  /\ Live(c)
  /\ ~calls[c].overdue
  /\ calls' = [calls EXCEPT ![c].overdue = TRUE]
  /\ UNCHANGED <<requests, memory, swarm, asked, events>>

PenaltyOver(peer) ==
  /\ failed[peer] = "fresh"
  /\ failed' = [failed EXCEPT ![peer] = "stale"]
  /\ UNCHANGED <<calls, requests, last_success, swarm, asked, events>>

Expired == {c \in Calls : Live(c) /\ calls[c].overdue}

(* tick(): every expired call fails; what it has outstanding stays.        *)
Tick ==
  /\ Expired # {}
  /\ calls' = [c \in Calls |-> IF c \in Expired THEN [calls[c] EXCEPT !.status = "over"]
                               ELSE calls[c]]
  /\ events' = [c \in Calls |-> IF c \in Expired THEN Append(events[c], "timeout") ELSE events[c]]
  /\ UNCHANGED <<requests, memory, swarm, asked>>

(* Connections come and go, the address book learns and evicts.            *)
LinkChange(peer) ==
  /\ dialable' = IF peer \in dialable THEN dialable \ {peer} ELSE dialable \cup {peer}
  /\ UNCHANGED <<calls, requests, memory, asked, events>>

-----------------------------------------------------------------------------
LookupStep(c) == \E batch \in SUBSET Peers, last \in BOOLEAN : ProvidersFound(c, batch, last)
LookupEnds(c) == \E batch \in SUBSET Peers : ProvidersFound(c, batch, TRUE)

ResolutionEnds(c) ==
  \E peer \in Peers : \E found \in SUBSET {peer} : ClosestPeers(c, peer, found)

RequestEnds(c) ==
  \E peer \in Peers :
    \/ \E reason \in Failures : OutboundFailure(c, peer, reason)
    \/ \E proved \in Groups \cup {Nobody} :
         ResponseTaken(c, peer, proved) \/ ResponseRefused(c, peer, proved)
    \/ ResponseLate(c, peer)

Next ==
  \/ \E c \in Calls :
       \/ \E g \in Groups : (\E p \in Peers : RpcToNode(c, g, p)) \/ RpcToGroup(c, g)
       \/ LookupStep(c)
       \/ ResolutionEnds(c)
       \/ RequestEnds(c)
       \/ DeadlinePasses(c)
  \/ \E p \in Peers : PenaltyOver(p) \/ LinkChange(p)
  \/ Tick

Spec == Init /\ [][Next]_vars

(* The ticker of run() fires every 250 ms and deadlines are finite; the    *)
(* network may stay silent forever.                                        *)
ClockFairness == WF_vars(Tick) /\ \A c \in Calls : WF_vars(DeadlinePasses(c))

(* libp2p ends every query and answers or fails every request (each has a  *)
(* timeout of its own); no deadline of a call has to pass.                 *)
NetworkFairness ==
  \A c \in Calls :
    WF_vars(LookupEnds(c)) /\ WF_vars(ResolutionEnds(c)) /\ WF_vars(RequestEnds(c))

-----------------------------------------------------------------------------
TypeOK ==
  /\ calls \in [Calls -> Call]
  /\ outbound \in [Calls -> SUBSET Peers]
  /\ resolutions \in [Calls -> SUBSET Peers]
  /\ provider_lookups \in SUBSET Calls
  /\ last_success \in [Groups -> Peers \cup {Nobody}]
  /\ failed \in [Peers -> {"none", "fresh", "stale"}]
  /\ dialable \in SUBSET Peers
  /\ asked \in [Calls -> [Peers -> Nat]]
  /\ events \in [Calls -> Seq(Failures \cup {"response"})]

(* "The answer arrives as LP2P_EV_RPC_RESPONSE or LP2P_EV_RPC_FAILED":     *)
(* exactly one such event per call that is over and none before, although  *)
(* responses, failures and lookups race the deadline in tick().            *)
OneOutcome == \A c \in Calls : Len(events[c]) = IF calls[c].status = "over" THEN 1 ELSE 0

(* Every operation "must be idempotent: failover repeats calls", but no    *)
(* node is asked twice in one call, however often the DHT reports it       *)
(* (Call::seen) and however its addresses are looked up.                   *)
AskedOnce == \A c \in Calls, p \in Peers : asked[c][p] <= 1

(* A call in the map always has something that will call advance() for it  *)
(* again, and its three flags say exactly what is outstanding: otherwise   *)
(* it would sit there until its deadline.                                  *)
NoStuckCall ==
  \A c \in Calls : Live(c) =>
    /\ calls[c].in_flight \/ calls[c].resolving \/ calls[c].lookup_running
    /\ calls[c].in_flight <=> outbound[c] # {}
    /\ calls[c].resolving <=> resolutions[c] # {}
    /\ calls[c].lookup_running <=> c \in provider_lookups
    /\ ~(calls[c].in_flight /\ calls[c].resolving)

(* Failover is sequential: a call never has requests to two nodes, nor two *)
(* address lookups, outstanding at once, not even after it is over.        *)
OneAtATime ==
  \A c \in Calls : \A p, q \in outbound[c] \cup resolutions[c] : p = q

(* A call that names a node asks nobody else, and a call to a group never  *)
(* asks the node that makes it.                                            *)
KeepsToTarget ==
  \A c \in Calls, p \in Peers :
    asked[c][p] > 0 => IF calls[c].target = AnyNode THEN p # Local ELSE p = calls[c].target

(* A call that failed before its deadline had nobody left: every node it   *)
(* learned of was asked, or could not be reached after an address lookup,  *)
(* and its provider lookup was over.                                       *)
ExhaustsBeforeFailing ==
  \A c \in Calls :
    (calls[c].status = "over" /\ ~calls[c].overdue /\ events[c] # <<"response">>) =>
      /\ c \notin provider_lookups
      /\ outbound[c] = {} /\ resolutions[c] = {}
      /\ \A p \in calls[c].seen : asked[c][p] = 1 \/ p \in calls[c].resolved

(* MAX_REMEMBERED bounds what the node remembers of groups and of peers.   *)
MemoryBounded ==
  /\ Cardinality(Remembered(failed)) <= MaxRemembered
  /\ Cardinality({g \in Groups : last_success[g] # Nobody}) <= MaxRemembered

(* The closed form the model uses for a provider report allows exactly the *)
(* queues that enqueue() makes peer by peer, in some order of the report:  *)
(* for every queue, last good node and set of penalized nodes, also when   *)
(* penalties came and went since the queue was built.  It depends on no    *)
(* variable and is evaluated where no call has begun.                      *)
ClosedFormIsLoop ==
  (\A c \in Calls : calls[c].status = "new") =>
    \A queued \in SUBSET Peers : \A queue \in Orderings(queued) :
      \A new \in SUBSET (Peers \ (queued \cup {Local})) :
        \A good \in Peers \cup {Nobody}, fresh \in SUBSET Peers :
          EnqueueAll(queue, new, good, fresh)
            = {Looped(queue, order, good, fresh) : order \in Orderings(new)}

(* Every call is answered by its deadline even if the network is silent.   *)
AnsweredByClock == ClockFairness => \A c \in Calls : Live(c) ~> ~Live(c)

(* Failover ends by itself: once libp2p ends what it was asked for, every  *)
(* call is answered without its deadline, whatever is found and however    *)
(* connections flap.                                                       *)
AnsweredByNetwork == NetworkFairness => \A c \in Calls : Live(c) ~> ~Live(c)

(* Both ways.                                                              *)
Answered == AnsweredByClock /\ AnsweredByNetwork

(* What the variables say of the promise of a call (CallContract).  An     *)
(* event too many, too early or missing is none of its outcomes.           *)
Promised(c) ==
  [outcome |-> IF calls[c].status = "new" /\ Len(events[c]) = 0 THEN "none"
               ELSE IF Live(c) /\ Len(events[c]) = 0 THEN "pending"
               ELSE IF calls[c].status = "over" /\ Len(events[c]) = 1 THEN events[c][1]
               ELSE "broken",
   target  |-> calls[c].target,
   asking  |-> IF Live(c) THEN outbound[c] ELSE {},
   tried   |-> {p \in Peers : asked[c][p] > 0}]

Contract == INSTANCE CallContract WITH call <- [c \in Calls |-> Promised(c)]

(* Every call keeps to the contract: one node at a time, none twice, none  *)
(* it may not ask, one outcome, and nothing after it, whatever responses,  *)
(* failures, lookups and ticks race each other.                            *)
ImplementsContract == Contract!Spec
=============================================================================
