------------------------------ MODULE Discovery ------------------------------
(***************************************************************************)
(* The DHT operations of the caller: lp2p_dht_bootstrap,                   *)
(* lp2p_dht_random_walk, lp2p_dht_find_providers, lp2p_add_address and     *)
(* lp2p_routing_sample (src/src/ffi.rs), their commands and kad_event() in *)
(* src/src/node.rs, and the address book every report feeds.               *)
(*                                                                         *)
(* A query's id stands for the QueryId libp2p gives it as well.  What the  *)
(* reports ask to re-publish (provide_due) is modelled in Topics.          *)
(***************************************************************************)
EXTENDS AddressBook

CONSTANTS
  Peers,
  Addrs,       \* addresses of peers
  Queries,     \* query ids handed to callers
  MaxSample,   \* bound on max_peers of lp2p_routing_sample()
  MaxReported  \* bound on the addresses in one report

ASSUME DiscoveryAssumption ==
  /\ IsFiniteSet(Peers)
  /\ MaxSample \in Nat \ {0} /\ MaxReported \in Nat

VARIABLES
  book,              \* the AddressBook
  asked,             \* what callers asked for under an id
  channel,           \* ids whose command is in the channel
  bootstraps,        \* State::bootstraps
  walks,             \* State::walks
  provider_queries,  \* State::provider_queries
  running,           \* queries libp2p has not ended
  events,            \* history: per id, "peer" for a run of PEER_DISCOVERED, and "last"
  routing,           \* Kademlia's routing table, near to far
  sample_offset,     \* State::sample_offset
  samples,           \* history: samples since the routing table changed
  handed             \* history: the peers they handed out

pending == <<asked, channel, bootstraps, walks, provider_queries, running, events>>
sampling == <<sample_offset, samples, handed>>
vars == <<book, pending, routing, sampling>>

Kinds == {"bootstrap", "walk", "providers"}
Pairs == UNION {[1 .. n -> Peers \X Addrs] : n \in 0 .. MaxReported}

Init ==
  /\ book = EmptyBook
  /\ asked = [q \in Queries |-> "nothing"]
  /\ channel = {} /\ bootstraps = {} /\ walks = {} /\ provider_queries = {} /\ running = {}
  /\ events = [q \in Queries |-> <<>>]
  /\ routing = <<>>
  /\ sample_offset = 0 /\ samples = 0 /\ handed = {}

-----------------------------------------------------------------------------
(* query() of ffi.rs: an id and a command.                                 *)
Ask(q, kind) ==
  /\ asked[q] = "nothing"
  /\ asked' = [asked EXCEPT ![q] = kind]
  /\ channel' = channel \cup {q}
  /\ UNCHANGED <<book, bootstraps, walks, provider_queries, running, events, routing, sampling>>

Take(q, kind) == q \in channel /\ asked[q] = kind /\ channel' = channel \ {q}

(* Records of discovered peers, if any, and the last record, if it is.     *)
Emit(q, some, last) ==
  LET peers == IF some /\ (events[q] = <<>> \/ Last(events[q]) # "peer")
               THEN Append(events[q], "peer") ELSE events[q]
  IN  events' = [events EXCEPT ![q] = IF last THEN Append(peers, "last") ELSE peers]

(* Command::Bootstrap; without a known peer it fails at once.              *)
Bootstrap(q) ==
  /\ Take(q, "bootstrap")
  /\ \/ /\ routing # <<>>
        /\ bootstraps' = bootstraps \cup {q} /\ running' = running \cup {q}
        /\ UNCHANGED events
     \/ /\ routing = <<>>
        /\ Emit(q, FALSE, TRUE)
        /\ UNCHANGED <<bootstraps, running>>
  /\ UNCHANGED <<book, asked, walks, provider_queries, routing, sampling>>

RandomWalk(q) ==
  /\ Take(q, "walk")
  /\ walks' = walks \cup {q} /\ running' = running \cup {q}
  /\ UNCHANGED <<book, asked, bootstraps, provider_queries, events, routing, sampling>>

FindProviders(q) ==
  /\ Take(q, "providers")
  /\ provider_queries' = provider_queries \cup {q} /\ running' = running \cup {q}
  /\ UNCHANGED <<book, asked, bootstraps, walks, events, routing, sampling>>

-----------------------------------------------------------------------------
(* kad_event().  libp2p reports the progress of a query in any number of   *)
(* steps and marks the last one.                                           *)
Progress(q, last) ==
  /\ q \in running
  /\ running' = IF last THEN running \ {q} ELSE running

(* GetProviders; an error or a timeout finds nobody.                       *)
ProvidersReported(q, found, last) ==
  /\ asked[q] = "providers" /\ Progress(q, last)
  /\ q \in provider_queries
  /\ Emit(q, found # {}, last)
  /\ provider_queries' = IF last THEN provider_queries \ {q} ELSE provider_queries
  /\ UNCHANGED <<book, asked, channel, bootstraps, walks, routing, sampling>>

\* mutant: the walk stays in the map until the last report
ClosestReportedKeeping(q, pairs, last) ==
  /\ asked[q] = "walk" /\ Progress(q, last)
  /\ book' = Learn(book, pairs)
  /\ Emit(q, pairs # <<>>, TRUE)
  /\ walks' = IF last THEN walks \ {q} ELSE walks
  /\ UNCHANGED <<asked, channel, bootstraps, provider_queries, routing, sampling>>

(* GetClosestPeers: every report feeds the address book, the first one     *)
(* ends the walk.                                                          *)
ClosestReported(q, pairs, last) ==
  /\ asked[q] = "walk" /\ Progress(q, last)
  /\ book' = Learn(book, pairs)
  /\ walks' = walks \ {q}
  /\ IF q \in walks THEN Emit(q, pairs # <<>>, TRUE) ELSE UNCHANGED events
  /\ UNCHANGED <<asked, channel, bootstraps, provider_queries, routing, sampling>>

\* mutant: a bootstrap that times out is not reported
BootstrapReportedOk(q, last) ==
  /\ asked[q] = "bootstrap" /\ Progress(q, last)
  /\ \/ last /\ bootstraps' = bootstraps \ {q} /\ Emit(q, FALSE, TRUE)
     \/ UNCHANGED <<bootstraps, events>>
  /\ UNCHANGED <<book, asked, channel, walks, provider_queries, routing, sampling>>

(* Bootstrap: only the last report matters, whether it failed or not.  One *)
(* that libp2p started by itself has no id and is not reported.            *)
BootstrapReported(q, last) ==
  /\ asked[q] = "bootstrap" /\ Progress(q, last)
  /\ IF last /\ q \in bootstraps THEN bootstraps' = bootstraps \ {q} /\ Emit(q, FALSE, TRUE)
     ELSE UNCHANGED <<bootstraps, events>>
  /\ UNCHANGED <<book, asked, channel, walks, provider_queries, routing, sampling>>

-----------------------------------------------------------------------------
(* Addresses learned: Command::AddAddress, identified(), the addresses of  *)
(* peers libp2p hears of (NewExternalAddrOfPeer).                          *)
Learned(pairs) ==
  /\ book' = Learn(book, pairs)
  /\ UNCHANGED <<pending, routing, sampling>>

NewTable(table) ==
  /\ routing' = table
  /\ samples' = 0 /\ handed' = {}
  /\ UNCHANGED <<sample_offset, pending>>

(* RoutingUpdated: a peer is in the table, with these addresses.           *)
RoutingUpdated(peer, pairs, at) ==
  /\ \A i \in DOMAIN pairs : pairs[i][1] = peer
  /\ book' = Learn(book, pairs)
  /\ IF Contains(routing, peer) THEN UNCHANGED <<routing, sampling, pending>>
     ELSE NewTable(InsertAt(routing, at, peer))

(* Kademlia drops a peer.                                                  *)
RoutingDropped(at) ==
  /\ NewTable(RemoveAt(routing, at))
  /\ UNCHANGED book

(* cycle().skip(offset).take(max).                                         *)
Sample(table, offset, max) ==
  [i \in 1 .. (IF max <= Len(table) THEN max ELSE Len(table)) |->
     table[((offset + i - 1) % Len(table)) + 1]]

\* mutant: the offset follows the number of peers asked for
NextOffsetByMax(table, max) == (sample_offset + max) % Len(table)

\* mutant: the offset is not wrapped
NextOffsetUnwrapped(table, max) == sample_offset + 1

NextOffset(table, max) == (sample_offset + 1) % Len(table)

(* routing_sample().  max is what the caller asks for and its buffer       *)
(* holds.                                                                  *)
RoutingSample(max) ==
  /\ routing # <<>>
  /\ sample_offset' = NextOffset(routing, max)
  /\ samples' = IF samples < Cardinality(Peers) THEN samples + 1 ELSE samples
  /\ handed' = handed \cup ToSet(Sample(routing, sample_offset', max))
  /\ UNCHANGED <<book, pending, routing>>

-----------------------------------------------------------------------------
Handled(q) == Bootstrap(q) \/ RandomWalk(q) \/ FindProviders(q)

Reported(q, last) ==
  \/ \E found \in SUBSET Peers : ProvidersReported(q, found, last)
  \/ \E pairs \in Pairs : ClosestReported(q, pairs, last)
  \/ BootstrapReported(q, last)

Next ==
  \/ \E q \in Queries :
       \/ \E kind \in Kinds : Ask(q, kind)
       \/ Handled(q)
       \/ \E last \in BOOLEAN : Reported(q, last)
  \/ \E pairs \in Pairs : Learned(pairs)
  \/ \E peer \in Peers, pairs \in Pairs, at \in 1 .. Len(routing) + 1 :
       RoutingUpdated(peer, pairs, at)
  \/ \E at \in 1 .. Len(routing) : RoutingDropped(at)
  \/ \E max \in 1 .. MaxSample : RoutingSample(max)

(* run() takes every command; libp2p ends every query (each has a timeout  *)
(* of its own).                                                            *)
Spec ==
  /\ Init /\ [][Next]_vars
  /\ \A q \in Queries : WF_vars(Handled(q)) /\ WF_vars(Reported(q, TRUE))

-----------------------------------------------------------------------------
TypeOK ==
  /\ asked \in [Queries -> Kinds \cup {"nothing"}]
  /\ channel \subseteq Queries /\ running \subseteq Queries
  /\ bootstraps \subseteq Queries /\ walks \subseteq Queries /\ provider_queries \subseteq Queries
  /\ events \in [Queries -> Seq({"peer", "last"})]
  /\ ToSet(routing) \subseteq Peers /\ IsInjective(routing)
  /\ sample_offset \in 0 .. Cardinality(Peers) /\ samples \in 0 .. Cardinality(Peers)
  /\ handed \subseteq ToSet(routing)
  /\ Known(book) \subseteq Peers

(* "It is bounded: when full, the oldest peer is forgotten": the map and   *)
(* the order of AddressBook name the same peers, each once, so that add()  *)
(* always finds one to forget, and no peer has more addresses than its     *)
(* list holds, or one twice.                                               *)
BookAgrees ==
  /\ IsInjective(book.order)
  /\ ToSet(book.order) = Known(book)
  /\ Cardinality(Known(book)) <= MaxPeers
  /\ \A p \in Known(book) :
       /\ Len(book.addresses[p]) \in 1 .. MaxAddresses
       /\ IsInjective(book.addresses[p])

(* Every query the caller was given an id for is in the channel, in one of *)
(* the node's maps, or answered with exactly one LP2P_EVF_LAST record      *)
(* after which its id is never used again, however many reports libp2p     *)
(* makes and wherever the query fails.                                     *)
EndsOnce ==
  \A q \in Queries :
    LET waiting == q \in channel \cup bootstraps \cup walks \cup provider_queries
    IN  events[q] \in IF asked[q] = "nothing" \/ waiting THEN {<<>>, <<"peer">>}
                      ELSE {<<"last">>, <<"peer", "last">>}

(* Every query ends.                                                       *)
QueriesAnswered ==
  \A q \in Queries : asked[q] # "nothing" ~> (events[q] # <<>> /\ Last(events[q]) = "last")

(* "Starting somewhere else on every call hands out different entry points *)
(* instead of the same nearest few": as many samples as the table has      *)
(* entries hand out all of them, however small each is and wherever the    *)
(* offset stood when the table last changed.                               *)
SampleRotates == samples >= Len(routing) => handed = ToSet(routing)
=============================================================================
