----------------------------- MODULE Reachability -----------------------------
(***************************************************************************)
(* How a node is reached: State::reachability and AutoNAT's verdicts, the  *)
(* addresses the node announces, and the relay reservations of a private   *)
(* node (src/src/node.rs).                                                 *)
(*                                                                         *)
(* A reservation is a listener on a circuit address.  Its id is all the    *)
(* node keeps of it: the swarm reports later, by id, that the listener has *)
(* an address, failed or closed, also when the node has released it and    *)
(* reserved on the same relay again.  The re-publication that a change     *)
(* asks for (provide_due) is modelled in Topics, the events of the change  *)
(* in EventQueue.                                                          *)
(***************************************************************************)
EXTENDS Naturals, FiniteSets

CONSTANTS
  Relays,           \* peers that relay; the address of this node through r is r too
  Addrs,            \* direct listen addresses
  Loopback,         \* the one of them that is_loopback
  Unspecified,      \* the one of them that is_unspecified
  Listeners,        \* ids of circuit listeners; one the swarm is done with is used again
  NoListener,
  MaxReservations,  \* MAX_RESERVATIONS
  MaxCandidates,    \* MAX_RELAY_CANDIDATES
  RetryTicks        \* RELAY_RETRY, in ticks of run()

ASSUME ReachabilityAssumption ==
  /\ Relays \cap Addrs = {}
  /\ IsFiniteSet(Relays) /\ IsFiniteSet(Listeners)
  /\ NoListener \notin Listeners
  /\ MaxReservations \in Nat \ {0} /\ MaxCandidates \in Nat
  /\ RetryTicks \in Nat \ {0}

VARIABLES
  config,            \* what the node was started with
  reachability,      \* State::reachability
  listening,         \* State::listening
  external,          \* the swarm's external addresses, as this code sets them
  relay_candidates,  \* State::relay_candidates, without the addresses
  reservations,      \* State::reservations: relay -> listener
  relay_failed,      \* State::relay_failed: ticks until the relay is tried again
  circuits,          \* the swarm's circuit listeners
  willing,           \* relays that accept a reservation and keep it
  late               \* history: relays whose listener reported an address to a node that
                     \* had released it

addresses == <<listening, external>>
relaying == <<reservations, relay_failed, circuits>>
vars == <<config, reachability, addresses, relay_candidates, relaying, willing, late>>

Reach == {"unknown", "public", "private"}

Configs ==
  [reachability : Reach, relay_client : BOOLEAN, listens_on_wildcard : BOOLEAN]

Circuit ==
  [state : {"requested", "open", "closing"}, relay : Relays] \cup {[state |-> "free"]}

Init ==
  /\ config \in Configs
  /\ reachability = config.reachability
  /\ listening = {} /\ external = {} /\ late = {}
  /\ relay_candidates = {}
  /\ reservations = [r \in Relays |-> NoListener]
  /\ relay_failed = [r \in Relays |-> 0]
  /\ circuits = [l \in Listeners |-> [state |-> "free"]]
  /\ willing \in SUBSET Relays

is_private == reachability = "private"
Reserved == {r \in Relays : reservations[r] # NoListener}

(* Neither unspecified nor the loopback address of a wildcard listener.    *)
Announceable(address) ==
  /\ address # Unspecified
  /\ ~(config.listens_on_wildcard /\ address = Loopback)

-----------------------------------------------------------------------------
(* reserve(): listen_on a circuit through every eligible candidate, in the *)
(* order of a HashMap, until MAX_RESERVATIONS are held.  ok are the relays *)
(* listen_on took, err the ones it refused; penalties is what is left of   *)
(* each relay's penalty after this step.                                   *)
Eligible(candidates) == {r \in candidates \ Reserved : relay_failed[r] = 0}

(* A fresh listener id for every relay in ok.                              *)
\* bound: reserve() waits until enough ids of Listeners are free
FreshIds(ok) ==
  {ids \in [ok -> {l \in Listeners : circuits[l].state = "free"}] :
     \A r, s \in ok : ids[r] = ids[s] => r = s}

Penalized(lost, penalties) ==
  [r \in Relays |-> IF r \in lost THEN RetryTicks ELSE penalties[r]]

ListenOn(ids, err, penalties) ==
  /\ reservations' = [r \in Relays |-> IF r \in DOMAIN ids THEN ids[r] ELSE reservations[r]]
  /\ circuits' = [l \in Listeners |->
                    IF \E r \in DOMAIN ids : ids[r] = l
                    THEN [state |-> "requested", relay |-> CHOOSE r \in DOMAIN ids : ids[r] = l]
                    ELSE circuits[l]]
  /\ relay_failed' = Penalized(err, penalties)

Reserve(private, candidates, penalties) ==
  LET room == /\ private /\ config.relay_client
              /\ Cardinality(Reserved) < MaxReservations
  IN  \/ ~room /\ relay_failed' = penalties /\ UNCHANGED <<reservations, circuits>>
      \/ /\ room
         /\ \E ok \in SUBSET Eligible(candidates) :
            \E err \in SUBSET (Eligible(candidates) \ (ok \cup willing)) :
              /\ Cardinality(Reserved \cup ok) <= MaxReservations
              /\ \/ ok \cup err = Eligible(candidates)
                 \/ Cardinality(Reserved \cup ok) = MaxReservations
              /\ \E ids \in FreshIds(ok) : ListenOn(ids, err, penalties)


(* tick(): a quarter of a second of every penalty has passed.              *)
Tick ==
  /\ Reserve(is_private, relay_candidates,
             [r \in Relays |-> IF relay_failed[r] = 0 THEN 0 ELSE relay_failed[r] - 1])
  /\ UNCHANGED <<config, reachability, addresses, relay_candidates, willing, late>>

\* mutant: the table of candidates is not bounded
IdentifiedUnbounded(peer) ==
  /\ relay_candidates' = relay_candidates \cup {peer}
  /\ Reserve(is_private, relay_candidates', relay_failed)
  /\ UNCHANGED <<config, reachability, addresses, willing, late>>

(* identified(): a peer that offers HOP under a usable address becomes a   *)
(* candidate while the table has room; reserve() runs in any case.         *)
Identified(peer) ==
  /\ relay_candidates' = IF Cardinality(relay_candidates) < MaxCandidates
                         THEN relay_candidates \cup {peer} ELSE relay_candidates
  /\ Reserve(is_private, relay_candidates', relay_failed)
  /\ UNCHANGED <<config, reachability, addresses, willing, late>>

-----------------------------------------------------------------------------
(* nat_status(): AutoNAT's verdict, for a node configured UNKNOWN.         *)

\* mutant: the direct addresses stay announced
NatPrivateKeeping ==
  /\ config.reachability = "unknown" /\ ~is_private
  /\ reachability' = "private"
  /\ UNCHANGED external
  /\ Reserve(TRUE, relay_candidates, relay_failed)
  /\ late' = {}
  /\ UNCHANGED <<config, listening, relay_candidates, willing>>

NatPrivate ==
  /\ config.reachability = "unknown" /\ ~is_private
  /\ reachability' = "private"
  /\ external' = external \ Addrs
  /\ Reserve(TRUE, relay_candidates, relay_failed)
  /\ late' = {}
  /\ UNCHANGED <<config, listening, relay_candidates, willing>>

NatPublic ==
  /\ config.reachability = "unknown" /\ is_private
  /\ reachability' = "public"
  /\ external' = (external \ Relays) \cup {a \in listening : Announceable(a)}
  /\ reservations' = [r \in Relays |-> NoListener]
  /\ circuits' = [l \in Listeners |->
                    IF \E r \in Relays : reservations[r] = l
                    THEN [circuits[l] EXCEPT !.state = "closing"] ELSE circuits[l]]
  /\ late' = {}
  /\ UNCHANGED <<config, listening, relay_candidates, relay_failed, willing>>

(* The first verdict of a node that was not private changes only the name. *)
NatFirstPublic ==
  /\ config.reachability = "unknown" /\ reachability = "unknown"
  /\ reachability' = "public"
  /\ UNCHANGED <<config, addresses, relay_candidates, relaying, willing, late>>

-----------------------------------------------------------------------------
(* swarm_event(), the listener events.                                     *)

NewListenAddr(address) ==
  /\ listening' = IF address = Unspecified THEN listening ELSE listening \cup {address}
  /\ external' = IF ~is_private /\ Announceable(address)
                 THEN external \cup {address} ELSE external
  /\ UNCHANGED <<config, reachability, relay_candidates, relaying, willing, late>>

(* The address leaves listening; what is announced does not change.        *)
ExpiredListenAddr(address) ==
  /\ address \in listening
  /\ listening' = listening \ {address}
  /\ UNCHANGED <<config, reachability, external, relay_candidates, relaying, willing, late>>

(* A circuit listener has an address: the reservation was accepted.  The   *)
(* swarm may still have one to report of a listener that was released.     *)
NewCircuitAddr(l) ==
  /\ circuits[l].state # "free"
  /\ external' = external \cup {circuits[l].relay}
  /\ circuits' = [circuits EXCEPT ![l].state = IF @ = "requested" THEN "open" ELSE @]
  /\ late' = IF circuits[l].state = "closing" /\ ~is_private
             THEN late \cup {circuits[l].relay} ELSE late
  /\ UNCHANGED <<config, reachability, listening, relay_candidates, reservations,
                 relay_failed, willing>>

\* mutant: the reservation is looked up by the relay of the listener
RelayLostByRelay(l) ==
  LET lost == {circuits[l].relay} \cap Reserved IN
  /\ reservations' = [r \in Relays |-> IF r \in lost THEN NoListener ELSE reservations[r]]
  /\ relay_failed' = Penalized(lost, relay_failed)

(* relay_lost(): whatever reservation holds this listener id.              *)
RelayLost(l) ==
  LET lost == {r \in Relays : reservations[r] = l} IN
  /\ reservations' = [r \in Relays |-> IF r \in lost THEN NoListener ELSE reservations[r]]
  /\ relay_failed' = Penalized(lost, relay_failed)

(* The listener fails, and closes later.                                   *)
ListenerError(l) ==
  /\ circuits[l].state \in {"requested", "open"}
  /\ circuits[l].relay \notin willing
  /\ circuits' = [circuits EXCEPT ![l].state = "closing"]
  /\ RelayLost(l)
  /\ UNCHANGED <<config, reachability, addresses, relay_candidates, willing, late>>

(* It closes; libp2p may or may not expire the address it had.             *)
ListenerClosed(l) ==
  /\ circuits[l].state # "free"
  /\ circuits[l].state = "closing" \/ circuits[l].relay \notin willing
  /\ circuits' = [circuits EXCEPT ![l] = [state |-> "free"]]
  /\ external' \in {external, external \ {circuits[l].relay}}
  /\ RelayLost(l)
  /\ UNCHANGED <<config, reachability, listening, relay_candidates, willing, late>>

(* A relay starts or stops accepting; environment.                         *)
WillingChange(relay) ==
  /\ willing' = IF relay \in willing THEN willing \ {relay} ELSE willing \cup {relay}
  /\ UNCHANGED <<config, reachability, addresses, relay_candidates, relaying, late>>

-----------------------------------------------------------------------------
(* The swarm settles what was asked of it: a requested circuit is accepted *)
(* or fails, one that was released or failed closes.                       *)
Settles(l) ==
  \/ circuits[l].state = "requested" /\ (NewCircuitAddr(l) \/ ListenerError(l))
  \/ circuits[l].state = "closing" /\ ListenerClosed(l)

Next ==
  \/ Tick \/ NatPrivate \/ NatPublic \/ NatFirstPublic
  \/ \E r \in Relays : Identified(r) \/ WillingChange(r)
  \/ \E a \in Addrs : NewListenAddr(a) \/ ExpiredListenAddr(a)
  \/ \E l \in Listeners : NewCircuitAddr(l) \/ ListenerError(l) \/ ListenerClosed(l)

(* The ticker of run() fires every 250 ms, and libp2p gives every request  *)
(* for a reservation an end.  No relay has to accept.                      *)
Spec ==
  /\ Init /\ [][Next]_vars
  /\ WF_vars(Tick)
  /\ \A l \in Listeners : WF_vars(Settles(l))

-----------------------------------------------------------------------------
TypeOK ==
  /\ config \in Configs
  /\ reachability \in Reach
  /\ config.reachability # "unknown" => reachability = config.reachability
  /\ listening \subseteq Addrs \ {Unspecified}
  /\ external \subseteq (Addrs \ {Unspecified}) \cup Relays
  /\ relay_candidates \subseteq Relays /\ Cardinality(relay_candidates) <= MaxCandidates
  /\ reservations \in [Relays -> Listeners \cup {NoListener}]
  /\ relay_failed \in [Relays -> 0 .. RetryTicks]
  /\ circuits \in [Listeners -> Circuit]
  /\ willing \subseteq Relays /\ late \subseteq Relays

(* Every reservation is backed by its own listener at that relay, every    *)
(* listener that was not released is one the node still knows, and only a  *)
(* private relay client holds any, at most MAX_RESERVATIONS: however late  *)
(* the swarm reports the end of a listener that AutoNAT's verdict released *)
(* (relay_lost, nat_status).                                               *)
ReservationsBacked ==
  /\ \A r \in Reserved :
       /\ circuits[reservations[r]].state \in {"requested", "open"}
       /\ circuits[reservations[r]].relay = r
  /\ \A l \in Listeners :
       circuits[l].state \in {"requested", "open"} => reservations[circuits[l].relay] = l
  /\ Cardinality(Reserved) <= MaxReservations
  /\ Reserved # {} => is_private /\ config.relay_client

(* "A private node announces only relayed addresses"; a node that is not   *)
(* private announces every direct address it listens on, and no relayed    *)
(* one but what a listener still reported after its release: through every *)
(* order of verdicts, new and expired addresses and accepted reservations. *)
AnnouncesMatch ==
  /\ is_private => external \subseteq Relays
  /\ ~is_private =>
       /\ {a \in listening : Announceable(a)} \subseteq external
       /\ external \cap Relays \subseteq late


(* "Keeps a private node reachable: a reservation on up to                 *)
(* MAX_RESERVATIONS relays among the peers that offered": while a relay    *)
(* that accepts is among the candidates of a private node, the node is     *)
(* reachable again and again.                                              *)
StaysReachable ==
  \A r \in Relays :
    <>[](is_private /\ config.relay_client /\ r \in relay_candidates \cap willing)
      => []<>(\E l \in Listeners : circuits[l].state = "open")
===============================================================================
