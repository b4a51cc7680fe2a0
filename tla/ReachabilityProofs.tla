------------------------- MODULE ReachabilityProofs -------------------------
(***************************************************************************)
(* The safety of Reachability for every number of relays, addresses and    *)
(* listeners and every limit.                                              *)
(*                                                                         *)
(* TypeOK, ReservationsBacked and AnnouncesMatch are inductive together:   *)
(* that a node which is not private has no reservation, and so no listener *)
(* that was not released, is what keeps its relayed addresses within late. *)
(***************************************************************************)
EXTENDS Reachability, FiniteSetTheorems, TLAPS

IInv == TypeOK /\ ReservationsBacked /\ AnnouncesMatch

Penalties == [Relays -> 0 .. RetryTicks]

(* What a listener is.                                                     *)
LEMMA CircuitStates ==
  ASSUME TypeOK, NEW l \in Listeners
  PROVE  /\ circuits[l].state \in {"requested", "open", "closing", "free"}
         /\ circuits[l].state # "free" =>
              /\ circuits[l].relay \in Relays
              /\ circuits[l] = [state |-> circuits[l].state, relay |-> circuits[l].relay]
         /\ circuits[l].state = "free" => circuits[l] = [state |-> "free"]
  BY DEF TypeOK, Circuit

(* A node starts without reservations and addresses.                       *)
LEMMA InitIInv == Init => IInv
<1> SUFFICES ASSUME Init PROVE IInv
  OBVIOUS
<1>1. Cardinality({}) = 0
  BY FS_EmptySet
<1>2. Reserved = {}
  BY DEF Init, Reserved
<1>3. TypeOK
  BY <1>1, ReachabilityAssumption DEF Init, TypeOK, Configs, Reach, Circuit
<1>4. ReservationsBacked
  BY <1>1, <1>2, ReachabilityAssumption DEF Init, ReservationsBacked
<1>5. AnnouncesMatch
  BY DEF Init, AnnouncesMatch
<1> QED
  BY <1>3, <1>4, <1>5 DEF IInv

-----------------------------------------------------------------------------
(* reserve() takes fresh listeners for relays without one.                 *)
LEMMA ListenOnType ==
  ASSUME TypeOK, NEW ok \in SUBSET Relays, NEW err \in SUBSET Relays,
         NEW ids \in FreshIds(ok), NEW penalties \in Penalties, ListenOn(ids, err, penalties)
  PROVE  /\ reservations' \in [Relays -> Listeners \cup {NoListener}]
         /\ relay_failed' \in [Relays -> 0 .. RetryTicks]
         /\ circuits' \in [Listeners -> Circuit]
<1>1. ids \in [ok -> {l \in Listeners : circuits[l].state = "free"}]
  BY DEF FreshIds
<1>2. reservations' \in [Relays -> Listeners \cup {NoListener}]
  BY <1>1 DEF ListenOn, TypeOK
<1>3. relay_failed' \in [Relays -> 0 .. RetryTicks]
  BY ReachabilityAssumption DEF ListenOn, Penalized, Penalties
<1>4. ASSUME NEW l \in Listeners
      PROVE  (IF \E r \in DOMAIN ids : ids[r] = l
              THEN [state |-> "requested", relay |-> CHOOSE r \in DOMAIN ids : ids[r] = l]
              ELSE circuits[l]) \in Circuit
  <2>1. CASE \E r \in DOMAIN ids : ids[r] = l
    <3>1. (CHOOSE r \in DOMAIN ids : ids[r] = l) \in Relays
      BY <1>1, <2>1
    <3> QED
      BY <2>1, <3>1 DEF Circuit
  <2>2. CASE ~\E r \in DOMAIN ids : ids[r] = l
    BY <2>2 DEF TypeOK
  <2> QED
    BY <2>1, <2>2
<1>5. circuits' \in [Listeners -> Circuit]
  BY <1>4 DEF ListenOn
<1> QED
  BY <1>2, <1>3, <1>5

(* The new reservations are backed by the listeners just asked for, the    *)
(* old ones keep theirs.                                                   *)
LEMMA ListenOnBacked ==
  ASSUME TypeOK, ReservationsBacked, NEW ok \in SUBSET (Relays \ Reserved), NEW err,
         NEW ids \in FreshIds(ok), NEW penalties, ListenOn(ids, err, penalties)
  PROVE  /\ Reserved' = Reserved \cup ok
         /\ \A r \in Reserved' :
              /\ circuits'[reservations'[r]].state \in {"requested", "open"}
              /\ circuits'[reservations'[r]].relay = r
         /\ \A l \in Listeners :
              circuits'[l].state \in {"requested", "open"} =>
                reservations'[circuits'[l].relay] = l
<1>1. /\ ids \in [ok -> {l \in Listeners : circuits[l].state = "free"}]
      /\ \A r, s \in ok : ids[r] = ids[s] => r = s
  BY DEF FreshIds
<1>2. \A r \in Relays : reservations'[r] = IF r \in ok THEN ids[r] ELSE reservations[r]
  BY <1>1 DEF ListenOn
<1>3. Reserved' = Reserved \cup ok
  BY <1>1, <1>2, ReachabilityAssumption DEF Reserved
<1>4. ASSUME NEW r \in ok
      PROVE  circuits'[ids[r]].state = "requested" /\ circuits'[ids[r]].relay = r
  <2>1. ids[r] \in Listeners /\ r \in DOMAIN ids /\ \A s \in DOMAIN ids : ids[s] = ids[r] => s = r
    BY <1>1
  <2>2. (CHOOSE s \in DOMAIN ids : ids[s] = ids[r]) = r
    BY <2>1
  <2>3. circuits'[ids[r]] = [state |-> "requested", relay |-> r]
    BY <2>1, <2>2 DEF ListenOn
  <2> QED
    BY <2>3
<1>5. ASSUME NEW l \in Listeners, \A r \in ok : ids[r] # l
      PROVE  circuits'[l] = circuits[l]
  BY <1>1, <1>5 DEF ListenOn
<1>6. ASSUME NEW r \in Reserved'
      PROVE  /\ circuits'[reservations'[r]].state \in {"requested", "open"}
             /\ circuits'[reservations'[r]].relay = r
  <2>1. CASE r \in ok
    <3>1. reservations'[r] = ids[r]
      BY <2>1, <1>2
    <3> QED
      BY <2>1, <3>1, <1>4
  <2>2. CASE r \in Reserved
    <3>1. /\ reservations'[r] = reservations[r] /\ reservations[r] \in Listeners
          /\ circuits[reservations[r]].state \in {"requested", "open"}
          /\ circuits[reservations[r]].relay = r
      BY <2>2, <1>2 DEF Reserved, ReservationsBacked, TypeOK
    <3>2. \A s \in ok : ids[s] # reservations[r]
      BY <3>1, <1>1
    <3> QED
      BY <3>1, <3>2, <1>5
  <2> QED
    BY <2>1, <2>2, <1>3
<1>7. ASSUME NEW l \in Listeners, circuits'[l].state \in {"requested", "open"}
      PROVE  reservations'[circuits'[l].relay] = l
  <2>1. CASE \E r \in ok : ids[r] = l
    <3>1. PICK r \in ok : ids[r] = l
      BY <2>1
    <3>2. circuits'[l].relay = r
      BY <3>1, <1>4
    <3> QED
      BY <3>1, <3>2, <1>2
  <2>2. CASE \A r \in ok : ids[r] # l
    <3>1. circuits'[l] = circuits[l] /\ reservations[circuits[l].relay] = l
      BY <2>2, <1>5, <1>7 DEF ReservationsBacked
    <3>2. circuits[l].relay \in Relays
      BY <3>1, <1>7, CircuitStates
    <3>3. circuits[l].relay \in Reserved
      BY <3>1, <3>2, ReachabilityAssumption DEF Reserved
    <3> QED
      BY <3>1, <3>2, <3>3, <1>2
  <2> QED
    BY <2>1, <2>2
<1> QED
  BY <1>3, <1>6, <1>7

(* The part of the invariant that reserve() can disturb.                   *)
Backed ==
  /\ reservations \in [Relays -> Listeners \cup {NoListener}]
  /\ relay_failed \in [Relays -> 0 .. RetryTicks]
  /\ circuits \in [Listeners -> Circuit]
  /\ ReservationsBacked

(* reserve() keeps every reservation backed, and within the limit, when    *)
(* the node is private afterwards or nothing was reserved.                 *)
LEMMA ReserveBacked ==
  ASSUME TypeOK, ReservationsBacked, NEW private \in BOOLEAN, NEW candidates \in SUBSET Relays,
         NEW penalties \in Penalties, Reserve(private, candidates, penalties),
         private => reachability' = "private",
         ~private => reachability' = reachability,
         config' = config
  PROVE  Backed'
<1>1. CASE relay_failed' = penalties /\ UNCHANGED <<reservations, circuits>>
  <2>1. Reserved' = Reserved
    BY <1>1 DEF Reserved
  <2>2. is_private => is_private'
    BY DEF is_private
  <2> QED
    BY <1>1, <2>1, <2>2 DEF Backed, ReservationsBacked, TypeOK, Penalties
<1>2. ASSUME private, config.relay_client,
             NEW ok \in SUBSET Eligible(candidates),
             NEW err \in SUBSET (Eligible(candidates) \ (ok \cup willing)),
             Cardinality(Reserved \cup ok) <= MaxReservations,
             NEW ids \in FreshIds(ok), ListenOn(ids, err, penalties)
      PROVE  Backed'
  <2>1. ok \in SUBSET (Relays \ Reserved) /\ ok \in SUBSET Relays /\ err \in SUBSET Relays
    BY DEF Eligible
  <2>2. /\ reservations' \in [Relays -> Listeners \cup {NoListener}]
        /\ relay_failed' \in [Relays -> 0 .. RetryTicks]
        /\ circuits' \in [Listeners -> Circuit]
    BY <1>2, <2>1, ListenOnType
  <2>3. /\ Reserved' = Reserved \cup ok
        /\ \A r \in Reserved' :
             /\ circuits'[reservations'[r]].state \in {"requested", "open"}
             /\ circuits'[reservations'[r]].relay = r
        /\ \A l \in Listeners :
             circuits'[l].state \in {"requested", "open"} =>
               reservations'[circuits'[l].relay] = l
    BY <1>2, <2>1, ListenOnBacked
  <2>4. Cardinality(Reserved') <= MaxReservations
    BY <2>3, <1>2
  <2>5. is_private' /\ config'.relay_client
    BY <1>2 DEF is_private
  <2> QED
    BY <2>2, <2>3, <2>4, <2>5 DEF Backed, ReservationsBacked
<1> QED
  BY <1>1, <1>2 DEF Reserve

-----------------------------------------------------------------------------
(* The steps of reserve(): the ticker, identify and AutoNAT's private.     *)
LEMMA TickStep == ASSUME IInv, Tick PROVE IInv'
<1> DEFINE left == [r \in Relays |-> IF relay_failed[r] = 0 THEN 0 ELSE relay_failed[r] - 1]
<1>1. left \in Penalties
  BY ReachabilityAssumption DEF IInv, TypeOK, Penalties
<1>2. Reserve(is_private, relay_candidates, left)
  BY DEF Tick
<1>3. /\ is_private \in BOOLEAN /\ relay_candidates \in SUBSET Relays
      /\ is_private => reachability' = "private"
      /\ ~is_private => reachability' = reachability
      /\ config' = config
  BY DEF Tick, IInv, TypeOK, is_private
<1> HIDE DEF left
<1>4. Backed'
  BY <1>1, <1>2, <1>3, ReserveBacked DEF IInv
<1>5. TypeOK'
  BY <1>4 DEF Tick, Backed, IInv, TypeOK, addresses
<1>6. AnnouncesMatch'
  BY DEF Tick, IInv, AnnouncesMatch, is_private, addresses, Announceable
<1> QED
  BY <1>4, <1>5, <1>6 DEF IInv, Backed

LEMMA IdentifiedStep == ASSUME IInv, NEW peer \in Relays, Identified(peer) PROVE IInv'
<1>1. relay_failed \in Penalties
  BY DEF IInv, TypeOK, Penalties
<1>2. Reserve(is_private, relay_candidates', relay_failed)
  BY DEF Identified
<1>3. /\ is_private \in BOOLEAN /\ relay_candidates' \in SUBSET Relays
      /\ is_private => reachability' = "private"
      /\ ~is_private => reachability' = reachability
      /\ config' = config
  BY DEF Identified, IInv, TypeOK, is_private
<1>4. Backed'
  BY <1>1, <1>2, <1>3, ReserveBacked DEF IInv
<1>5. Cardinality(relay_candidates') <= MaxCandidates
  <2>1. IsFiniteSet(relay_candidates)
    BY FS_Subset, ReachabilityAssumption DEF IInv, TypeOK
  <2>2. /\ Cardinality(relay_candidates) \in Nat
        /\ \/ Cardinality(relay_candidates \cup {peer}) = Cardinality(relay_candidates)
           \/ Cardinality(relay_candidates \cup {peer}) = Cardinality(relay_candidates) + 1
    BY <2>1, FS_AddElement, FS_CardinalityType
  <2> QED
    BY <2>2, ReachabilityAssumption DEF Identified, IInv, TypeOK
<1>6. TypeOK'
  BY <1>3, <1>4, <1>5 DEF Identified, Backed, IInv, TypeOK, addresses
<1>7. AnnouncesMatch'
  BY DEF Identified, IInv, AnnouncesMatch, is_private, addresses, Announceable
<1> QED
  BY <1>4, <1>6, <1>7 DEF IInv, Backed

LEMMA NatPrivateStep == ASSUME IInv, NatPrivate PROVE IInv'
<1>1. relay_failed \in Penalties /\ relay_candidates \in SUBSET Relays
  BY DEF IInv, TypeOK, Penalties
<1>2. Reserve(TRUE, relay_candidates, relay_failed) /\ reachability' = "private" /\ config' = config
  BY DEF NatPrivate
<1>3. Backed'
  BY <1>1, <1>2, ReserveBacked DEF IInv
<1>4. external' \subseteq Relays
  BY DEF NatPrivate, IInv, TypeOK
<1>5. TypeOK'
  BY <1>3, <1>4 DEF NatPrivate, Backed, IInv, TypeOK, Reach
<1>6. AnnouncesMatch'
  BY <1>2, <1>4 DEF AnnouncesMatch, is_private
<1> QED
  BY <1>3, <1>5, <1>6 DEF IInv, Backed

-----------------------------------------------------------------------------
(* AutoNAT's public: every listener that was not released is released.     *)
LEMMA NatPublicStep == ASSUME IInv, NatPublic PROVE IInv'
<1>1. Reserved' = {}
  BY DEF NatPublic, Reserved
<1>2. \A l \in Listeners :
        /\ circuits'[l] \in Circuit
        /\ circuits'[l].state \notin {"requested", "open"}
  <2> TAKE l \in Listeners
  <2>1. CASE \E r \in Relays : reservations[r] = l
    <3>1. PICK r \in Relays : reservations[r] = l
      BY <2>1
    <3>2. circuits[l].state \in {"requested", "open"}
      BY <3>1, ReachabilityAssumption DEF IInv, ReservationsBacked, Reserved
    <3>3. /\ circuits[l] = [state |-> circuits[l].state, relay |-> circuits[l].relay]
          /\ circuits[l].relay \in Relays
      BY <3>2, CircuitStates DEF IInv
    <3>4. [circuits[l] EXCEPT !.state = "closing"] = [state |-> "closing", relay |-> circuits[l].relay]
      BY <3>3
    <3>5. circuits'[l] = [state |-> "closing", relay |-> circuits[l].relay]
      BY <3>1, <3>4 DEF NatPublic
    <3> QED
      BY <3>3, <3>5 DEF Circuit
  <2>2. CASE ~\E r \in Relays : reservations[r] = l
    <3>1. circuits'[l] = circuits[l]
      BY <2>2 DEF NatPublic
    <3>2. circuits[l].state \notin {"requested", "open"}
      BY <2>2, CircuitStates DEF IInv, ReservationsBacked
    <3> QED
      BY <3>1, <3>2 DEF IInv, TypeOK
  <2> QED
    BY <2>1, <2>2
<1>3. circuits' \in [Listeners -> Circuit]
  BY <1>2 DEF NatPublic
<1>4. TypeOK'
  BY <1>3, ReachabilityAssumption DEF NatPublic, IInv, TypeOK, Reach, Announceable
<1>5. ReservationsBacked'
  <2>1. Cardinality({}) = 0
    BY FS_EmptySet
  <2> QED
    BY <1>1, <1>2, <2>1, ReachabilityAssumption DEF ReservationsBacked
<1>6. AnnouncesMatch'
  <2>1. \A a \in listening : a \notin Relays
    BY ReachabilityAssumption DEF IInv, TypeOK
  <2> QED
    BY <2>1 DEF NatPublic, AnnouncesMatch, is_private, Announceable
<1> QED
  BY <1>4, <1>5, <1>6 DEF IInv

LEMMA NatFirstPublicStep == ASSUME IInv, NatFirstPublic PROVE IInv'
<1>1. Reserved' = Reserved /\ ~is_private /\ ~is_private'
  BY DEF NatFirstPublic, Reserved, relaying, is_private
<1>2. TypeOK'
  BY DEF NatFirstPublic, IInv, TypeOK, Reach, relaying, addresses
<1>3. ReservationsBacked'
  BY <1>1 DEF NatFirstPublic, IInv, ReservationsBacked, relaying
<1>4. AnnouncesMatch'
  BY <1>1 DEF NatFirstPublic, IInv, AnnouncesMatch, addresses, Announceable
<1> QED
  BY <1>2, <1>3, <1>4 DEF IInv

-----------------------------------------------------------------------------
(* The listener events.                                                    *)
LEMMA NewListenAddrStep == ASSUME IInv, NEW a \in Addrs, NewListenAddr(a) PROVE IInv'
<1>1. /\ Reserved' = Reserved /\ is_private' = is_private /\ a \notin Relays
      /\ \A b : Announceable(b)' = Announceable(b)
  BY ReachabilityAssumption DEF NewListenAddr, Reserved, relaying, is_private, Announceable
<1>2. TypeOK'
  BY DEF NewListenAddr, IInv, TypeOK, relaying, Announceable
<1>3. ReservationsBacked'
  BY <1>1 DEF NewListenAddr, IInv, ReservationsBacked, relaying
<1>4. AnnouncesMatch'
  BY <1>1 DEF NewListenAddr, IInv, AnnouncesMatch, Announceable
<1> QED
  BY <1>2, <1>3, <1>4 DEF IInv

LEMMA ExpiredListenAddrStep == ASSUME IInv, NEW a \in Addrs, ExpiredListenAddr(a) PROVE IInv'
<1>1. Reserved' = Reserved /\ is_private' = is_private
  BY DEF ExpiredListenAddr, Reserved, relaying, is_private
<1>2. TypeOK'
  BY DEF ExpiredListenAddr, IInv, TypeOK, relaying
<1>3. ReservationsBacked'
  BY <1>1 DEF ExpiredListenAddr, IInv, ReservationsBacked, relaying
<1>4. AnnouncesMatch'
  BY <1>1 DEF ExpiredListenAddr, IInv, AnnouncesMatch, Announceable
<1> QED
  BY <1>2, <1>3, <1>4 DEF IInv

(* A node that is not private has no reservation, so what still reports an *)
(* address to it is a released listener, and its relay is late.            *)
LEMMA NewCircuitAddrStep == ASSUME IInv, NEW l \in Listeners, NewCircuitAddr(l) PROVE IInv'
<1> DEFINE relay == circuits[l].relay
           state == IF circuits[l].state = "requested" THEN "open" ELSE circuits[l].state
<1>1. /\ circuits[l].state \in {"requested", "open", "closing"}
      /\ relay \in Relays
      /\ circuits[l] = [state |-> circuits[l].state, relay |-> relay]
  BY CircuitStates DEF NewCircuitAddr, IInv
<1>2. circuits' = [circuits EXCEPT ![l] = [state |-> state, relay |-> relay]]
  <2>1. [circuits[l] EXCEPT !.state = state] = [state |-> state, relay |-> relay]
    BY <1>1
  <2> QED
    BY <2>1 DEF NewCircuitAddr, IInv, TypeOK
<1>3. /\ [state |-> state, relay |-> relay] \in Circuit
      /\ state \in {"requested", "open"} <=> circuits[l].state \in {"requested", "open"}
  BY <1>1 DEF Circuit
<1>4. \A m \in Listeners :
        /\ circuits'[m].relay = circuits[m].relay
        /\ circuits'[m].state \in {"requested", "open"}
              <=> circuits[m].state \in {"requested", "open"}
  BY <1>2, <1>3 DEF IInv, TypeOK
<1>5. Reserved' = Reserved /\ is_private' = is_private
  BY DEF NewCircuitAddr, Reserved, is_private
<1>6. TypeOK'
  <2>1. circuits' \in [Listeners -> Circuit]
    BY <1>2, <1>3 DEF IInv, TypeOK
  <2> QED
    BY <2>1, <1>1 DEF NewCircuitAddr, IInv, TypeOK
<1>7. ReservationsBacked'
  <2>1. \A r \in Reserved : reservations[r] \in Listeners
    BY DEF Reserved, IInv, TypeOK
  <2> HIDE DEF state, relay
  <2> QED
    BY <1>4, <1>5, <2>1 DEF NewCircuitAddr, IInv, ReservationsBacked
<1>8. AnnouncesMatch'
  <2>1. ~is_private => circuits[l].state = "closing"
    <3>1. circuits[l].state \in {"requested", "open"} => relay \in Reserved
      BY <1>1, ReachabilityAssumption DEF IInv, ReservationsBacked, Reserved
    <3> QED
      BY <1>1, <3>1 DEF IInv, ReservationsBacked
  <2> QED
    BY <1>1, <1>5, <2>1 DEF NewCircuitAddr, IInv, AnnouncesMatch, Announceable
<1> QED
  BY <1>6, <1>7, <1>8 DEF IInv

-----------------------------------------------------------------------------
(* relay_lost(): when the listener leaves "requested" and "open", the one  *)
(* reservation that held it is dropped and no other is disturbed.          *)
LEMMA RelayLostBacked ==
  ASSUME IInv, NEW l \in Listeners, RelayLost(l), NEW c \in Circuit,
         c.state \notin {"requested", "open"}, circuits' = [circuits EXCEPT ![l] = c],
         reachability' = reachability, config' = config
  PROVE  Backed'
<1> DEFINE lost == {r \in Relays : reservations[r] = l}
<1>1. /\ reservations' = [r \in Relays |-> IF r \in lost THEN NoListener ELSE reservations[r]]
      /\ relay_failed' = [r \in Relays |-> IF r \in lost THEN RetryTicks ELSE relay_failed[r]]
  BY DEF RelayLost, Penalized
<1>2. /\ reservations' \in [Relays -> Listeners \cup {NoListener}]
      /\ relay_failed' \in [Relays -> 0 .. RetryTicks]
      /\ circuits' \in [Listeners -> Circuit]
  BY <1>1, ReachabilityAssumption DEF IInv, TypeOK
<1>3. Reserved' = Reserved \ lost
  BY <1>1, ReachabilityAssumption DEF Reserved, IInv, TypeOK
<1>4. Cardinality(Reserved') <= MaxReservations
  <2>1. IsFiniteSet(Reserved)
    BY FS_Subset, ReachabilityAssumption DEF Reserved
  <2>2. IsFiniteSet(Reserved') /\ Cardinality(Reserved') <= Cardinality(Reserved)
    BY <1>3, <2>1, FS_Subset
  <2>3. Cardinality(Reserved) \in Nat /\ Cardinality(Reserved') \in Nat
    BY <2>1, <2>2, FS_CardinalityType
  <2> QED
    BY <2>2, <2>3, ReachabilityAssumption DEF IInv, ReservationsBacked
<1>5. ASSUME NEW r \in Reserved'
      PROVE  /\ circuits'[reservations'[r]].state \in {"requested", "open"}
             /\ circuits'[reservations'[r]].relay = r
  <2>1. r \in Reserved /\ reservations[r] # l /\ reservations[r] \in Listeners
    BY <1>3 DEF Reserved, IInv, TypeOK
  <2>2. reservations'[r] = reservations[r] /\ circuits'[reservations[r]] = circuits[reservations[r]]
    BY <1>1, <2>1 DEF Reserved, IInv, TypeOK
  <2> QED
    BY <2>1, <2>2 DEF IInv, ReservationsBacked
<1>6. ASSUME NEW m \in Listeners, circuits'[m].state \in {"requested", "open"}
      PROVE  reservations'[circuits'[m].relay] = m
  <2>1. m # l /\ circuits'[m] = circuits[m]
    BY <1>6 DEF IInv, TypeOK
  <2>2. circuits[m].relay \in Relays /\ reservations[circuits[m].relay] = m
    BY <1>6, <2>1, CircuitStates DEF IInv, ReservationsBacked
  <2> QED
    BY <1>1, <2>1, <2>2
<1>7. Reserved' # {} => is_private' /\ config'.relay_client
  BY <1>3 DEF IInv, ReservationsBacked, is_private
<1> QED
  BY <1>2, <1>4, <1>5, <1>6, <1>7 DEF Backed, ReservationsBacked

LEMMA ListenerErrorStep == ASSUME IInv, NEW l \in Listeners, ListenerError(l) PROVE IInv'
<1> DEFINE c == [state |-> "closing", relay |-> circuits[l].relay]
<1>1. /\ circuits[l].relay \in Relays
      /\ circuits[l] = [state |-> circuits[l].state, relay |-> circuits[l].relay]
  BY CircuitStates DEF ListenerError, IInv
<1>2. [circuits[l] EXCEPT !.state = "closing"] = c
  BY <1>1
<1>3. c \in Circuit /\ c.state \notin {"requested", "open"}
  BY <1>1 DEF Circuit
<1>4. circuits' = [circuits EXCEPT ![l] = c] /\ RelayLost(l)
  BY <1>2 DEF ListenerError, IInv, TypeOK
<1>5. reachability' = reachability /\ config' = config
  BY DEF ListenerError
<1> HIDE DEF c
<1>6. Backed'
  BY <1>3, <1>4, <1>5, RelayLostBacked
<1>7. TypeOK'
  BY <1>6 DEF ListenerError, Backed, IInv, TypeOK, addresses
<1>8. AnnouncesMatch'
  BY DEF ListenerError, IInv, AnnouncesMatch, addresses, is_private, Announceable
<1> QED
  BY <1>6, <1>7, <1>8 DEF IInv, Backed

LEMMA ListenerClosedStep == ASSUME IInv, NEW l \in Listeners, ListenerClosed(l) PROVE IInv'
<1> DEFINE c == [state |-> "free"]
<1>1. circuits[l].relay \in Relays
  BY CircuitStates DEF ListenerClosed, IInv
<1>2. c \in Circuit /\ c.state \notin {"requested", "open"}
  BY DEF Circuit
<1>3. circuits' = [circuits EXCEPT ![l] = c] /\ RelayLost(l)
  BY DEF ListenerClosed
<1>4. reachability' = reachability /\ config' = config
  BY DEF ListenerClosed
<1> HIDE DEF c
<1>5. Backed'
  BY <1>2, <1>3, <1>4, RelayLostBacked
<1>6. TypeOK'
  BY <1>5 DEF ListenerClosed, Backed, IInv, TypeOK
<1>7. AnnouncesMatch'
  <2>1. \A a \in listening : a # circuits[l].relay
    BY <1>1, ReachabilityAssumption DEF IInv, TypeOK
  <2> QED
    BY <2>1 DEF ListenerClosed, IInv, AnnouncesMatch, is_private, Announceable
<1> QED
  BY <1>5, <1>6, <1>7 DEF IInv, Backed

-----------------------------------------------------------------------------
LEMMA NextIInv == IInv /\ [Next]_vars => IInv'
<1> SUFFICES ASSUME IInv, [Next]_vars PROVE IInv'
  OBVIOUS
<1>1. CASE Tick
  BY <1>1, TickStep
<1>2. CASE NatPrivate
  BY <1>2, NatPrivateStep
<1>3. CASE NatPublic
  BY <1>3, NatPublicStep
<1>4. CASE NatFirstPublic
  BY <1>4, NatFirstPublicStep
<1>5. ASSUME NEW r \in Relays, Identified(r) PROVE IInv'
  BY <1>5, IdentifiedStep
<1>6. ASSUME NEW r \in Relays, WillingChange(r) PROVE IInv'
  <2>1. Reserved' = Reserved
    BY <1>6 DEF WillingChange, Reserved, relaying
  <2> QED
    BY <1>6, <2>1 DEF WillingChange, IInv, TypeOK, ReservationsBacked, AnnouncesMatch,
                      relaying, addresses, is_private, Announceable
<1>7. ASSUME NEW a \in Addrs, NewListenAddr(a) PROVE IInv'
  BY <1>7, NewListenAddrStep
<1>8. ASSUME NEW a \in Addrs, ExpiredListenAddr(a) PROVE IInv'
  BY <1>8, ExpiredListenAddrStep
<1>9. ASSUME NEW l \in Listeners, NewCircuitAddr(l) PROVE IInv'
  BY <1>9, NewCircuitAddrStep
<1>10. ASSUME NEW l \in Listeners, ListenerError(l) PROVE IInv'
  BY <1>10, ListenerErrorStep
<1>11. ASSUME NEW l \in Listeners, ListenerClosed(l) PROVE IInv'
  BY <1>11, ListenerClosedStep
<1>12. CASE UNCHANGED vars
  <2>1. Reserved' = Reserved
    BY <1>12 DEF vars, Reserved, relaying
  <2> QED
    BY <1>12, <2>1 DEF vars, IInv, TypeOK, ReservationsBacked, AnnouncesMatch,
                       relaying, addresses, is_private, Announceable
<1> QED
  BY <1>1, <1>2, <1>3, <1>4, <1>5, <1>6, <1>7, <1>8, <1>9, <1>10, <1>11, <1>12 DEF Next

(* The three invariants hold in every reachable state.                     *)
THEOREM ReachabilityInvariant == Spec => []IInv
  BY InitIInv, NextIInv, PTL DEF Spec

(* Every variable of the reachability machine keeps its type, and the      *)
(* table of candidates its limit (identified).                             *)
THEOREM ReachabilityTypeCorrect == Spec => []TypeOK
<1>1. IInv => TypeOK
  BY DEF IInv
<1> QED
  BY <1>1, ReachabilityInvariant, PTL

(* However late the swarm reports the end of a listener, each reservation  *)
(* has its own live listener and the other way round, at most              *)
(* MAX_RESERVATIONS of them, and only a private relay client holds any     *)
(* (reserve, relay_lost, nat_status).                                      *)
THEOREM ReservationsAreBacked == Spec => []ReservationsBacked
<1>1. IInv => ReservationsBacked
  BY DEF IInv
<1> QED
  BY <1>1, ReachabilityInvariant, PTL

(* A private node announces only relayed addresses; any other announces    *)
(* every direct address it listens on and no relayed one but what a        *)
(* released listener still reported (nat_status, swarm_event).             *)
THEOREM AnnouncementsMatch == Spec => []AnnouncesMatch
<1>1. IInv => AnnouncesMatch
  BY DEF IInv
<1> QED
  BY <1>1, ReachabilityInvariant, PTL
=============================================================================
