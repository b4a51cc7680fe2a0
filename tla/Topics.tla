------------------------------- MODULE Topics -------------------------------
(***************************************************************************)
(* Topics and provider records: the lp2p_topic_* and lp2p_dht_provide      *)
(* calls of src/src/ffi.rs, the command channel, and the node thread's     *)
(* topic and provider state in src/src/node.rs.                            *)
(*                                                                         *)
(* Caller threads check a shared counter and send a command; the node      *)
(* thread handles commands in order, between DHT results and ticks.        *)
(* State::topic_keys and gossipsub's own subscriptions change in the same  *)
(* handlers as State::topics and are the same set of keys (topic_name is   *)
(* injective), so topics stands for all three.                             *)
(*                                                                         *)
(* kad keeps the provider records in a MemoryStore of limited size that    *)
(* also holds records of other nodes.  It may refuse a new one; the code   *)
(* discards that error everywhere.                                         *)
(*                                                                         *)
(* Bound: MaxCommands commands in the channel or about to be sent by a     *)
(* caller that passed the check; unbounded in the code.                    *)
(***************************************************************************)
EXTENDS Naturals, Sequences, FiniteSets

CONSTANTS
  Callers,           \* threads that call the interface
  Keys,              \* 32-byte keys: topics, provider records
  OwnGroup,          \* this node's group key
  Idle,              \* a caller between calls
  MaxSubscriptions,  \* topic_max_subscriptions
  MaxCommands

ASSUME TopicsAssumption ==
  /\ OwnGroup \in Keys
  /\ Idle \notin Keys
  /\ IsFiniteSet(Keys)
  /\ MaxSubscriptions \in Nat
  /\ MaxCommands \in Nat \ {0}

VARIABLES
  checked,            \* per caller, the key it passed the subscription check for
  commands,           \* the command channel
  topics,             \* State::topics
  topics_subscribed,  \* Shared::topics_subscribed
  last_lookup,        \* TopicState::last_lookup: "none", "recent" or "due"
  topic_lookups,      \* State::topic_lookups: keys some lookup of which runs
  providing,          \* keys kad provides
  provide_due,        \* State::provide_due
  debounced,          \* last_provide is younger than PROVIDE_DEBOUNCE
  mesh,               \* keys gossipsub has mesh peers for
  follow,             \* history: keys the last accepted call for which subscribes
  ignored,            \* history: keys the last subscription of which was not taken
  record              \* history: what became of a provider record: "wanted" by the caller or
                      \* the node itself, "stopped" by the caller, "refused" by kad

caller == <<checked, follow>>
lookups == <<last_lookup, topic_lookups>>
records == <<providing, record>>
group == <<provide_due, debounced>>
vars == <<caller, commands, topics, topics_subscribed, ignored, lookups, records, group, mesh>>

Command == [kind : {"subscribe", "unsubscribe", "provide", "stop"}, key : Keys]

(* run_thread() provides the group before it takes commands, into a store  *)
(* that is empty.                                                          *)
Init ==
  /\ checked = [c \in Callers |-> Idle]
  /\ commands = <<>>
  /\ topics = {} /\ topics_subscribed = 0
  /\ last_lookup = [k \in Keys |-> "none"]
  /\ topic_lookups = {}
  /\ providing = {OwnGroup}
  /\ record = [k \in Keys |-> IF k = OwnGroup THEN "wanted" ELSE "none"]
  /\ provide_due = FALSE /\ debounced = TRUE
  /\ mesh = {}
  /\ follow = {} /\ ignored = {}

-----------------------------------------------------------------------------
(* Caller threads.                                                         *)

Room == Len(commands) + Cardinality({c \in Callers : checked[c] # Idle}) < MaxCommands

(* lp2p_topic_subscribe(): the counter is read, then the command is sent;  *)
(* at the limit the call answers LP2P_ERR_LIMITED and does nothing else.   *)
SubscribeCheck(c, k) ==
  /\ checked[c] = Idle
  /\ topics_subscribed < MaxSubscriptions
  /\ Room
  /\ checked' = [checked EXCEPT ![c] = k]
  /\ UNCHANGED <<follow, commands, topics, topics_subscribed, ignored, lookups, records, group,
                 mesh>>

Send(kind, k) ==
  /\ commands' = Append(commands, [kind |-> kind, key |-> k])
  /\ UNCHANGED <<topics, topics_subscribed, ignored, lookups, records, group, mesh>>

SubscribeSend(c) ==
  /\ checked[c] # Idle
  /\ Send("subscribe", checked[c])
  /\ follow' = follow \cup {checked[c]}
  /\ checked' = [checked EXCEPT ![c] = Idle]

(* lp2p_topic_unsubscribe()                                                *)
Unsubscribe(c, k) ==
  /\ checked[c] = Idle /\ Room
  /\ Send("unsubscribe", k)
  /\ follow' = follow \ {k}
  /\ UNCHANGED checked

(* lp2p_dht_provide() and lp2p_dht_stop_providing()                        *)
DhtProvide(c, k) == checked[c] = Idle /\ Room /\ Send("provide", k) /\ UNCHANGED caller
DhtStopProviding(c, k) == checked[c] = Idle /\ Room /\ Send("stop", k) /\ UNCHANGED caller

-----------------------------------------------------------------------------
(* The node thread: State::command().                                      *)

(* kad.start_providing: a record that is there is renewed; a new one is    *)
(* not kept when the store is full, which is the outcome stored = FALSE.   *)
StartProviding(k, stored) ==
  /\ k \in providing => stored
  /\ providing' = IF stored THEN providing \cup {k} ELSE providing

(* kad.stop_providing                                                      *)
StopProviding(k) == providing' = providing \ {k}

(* topic_lookup()                                                          *)
Lookup(ks) ==
  /\ topic_lookups' = topic_lookups \cup ks
  /\ last_lookup' = [k \in Keys |-> IF k \in ks THEN "recent" ELSE last_lookup[k]]

\* mutant: the limit is left to the caller's check
RefusedNever(k) == k \in topics

(* The early return of topic_subscribe().                                  *)
Refused(k) == k \in topics \/ Cardinality(topics) >= MaxSubscriptions

\* mutant: a followed topic is not provided
TopicSubscribeUnprovided(k, stored) ==
  /\ ~Refused(k)
  /\ topics' = topics \cup {k}
  /\ topics_subscribed' = Cardinality(topics')
  /\ ignored' = ignored \ {k}
  /\ Lookup({k})
  /\ UNCHANGED records

TopicSubscribe(k, stored) ==
  /\ ~Refused(k)
  /\ topics' = topics \cup {k}
  /\ topics_subscribed' = Cardinality(topics')
  /\ ignored' = ignored \ {k}
  /\ StartProviding(k, stored)
  /\ record' = [record EXCEPT ![k] = IF ~stored THEN "refused"
                                     ELSE IF @ = "wanted" THEN @ ELSE "none"]
  /\ Lookup({k})

(* Followed already, too many, or refused by gossipsub.                    *)
TopicSubscribeReturns(k, refused) ==
  /\ Refused(k) \/ refused
  /\ ignored' = IF k \in topics THEN ignored ELSE ignored \cup {k}
  /\ UNCHANGED <<topics, topics_subscribed, lookups, records>>

\* mutant: the topic stays in the map
TopicUnsubscribeKeeping(k) ==
  /\ ignored' = ignored \ {k}
  /\ IF k \in topics THEN StopProviding(k) ELSE UNCHANGED providing
  /\ last_lookup' = [last_lookup EXCEPT ![k] = "none"]
  /\ UNCHANGED <<topic_lookups, record, topics, topics_subscribed>>

\* mutant: the counter counts down, also for a topic that is not followed
TopicUnsubscribeUncounted(k) ==
  /\ topics' = topics \ {k}
  /\ topics_subscribed' = topics_subscribed - 1
  /\ ignored' = ignored \ {k}
  /\ IF k \in topics THEN StopProviding(k) ELSE UNCHANGED providing
  /\ last_lookup' = [last_lookup EXCEPT ![k] = "none"]
  /\ UNCHANGED <<topic_lookups, record>>

(* A lookup of the topic keeps running.                                    *)
TopicUnsubscribe(k) ==
  /\ topics' = topics \ {k}
  /\ topics_subscribed' = IF k \in topics THEN Cardinality(topics') ELSE topics_subscribed
  /\ ignored' = ignored \ {k}
  /\ IF k \in topics THEN StopProviding(k) ELSE UNCHANGED providing
  /\ last_lookup' = [last_lookup EXCEPT ![k] = "none"]
  /\ UNCHANGED <<topic_lookups, record>>

Provide(k, stored) ==
  /\ StartProviding(k, stored)
  /\ record' = [record EXCEPT ![k] = IF stored THEN "wanted" ELSE "refused"]
  /\ UNCHANGED <<topics, topics_subscribed, ignored, lookups>>

ProvideStop(k) ==
  /\ StopProviding(k)
  /\ record' = [record EXCEPT ![k] = "stopped"]
  /\ UNCHANGED <<topics, topics_subscribed, ignored, lookups>>

Handle ==
  /\ commands # <<>>
  /\ commands' = Tail(commands)
  /\ LET kind == Head(commands).kind
         k    == Head(commands).key
     IN
     \/ /\ kind = "subscribe"
        /\ \/ \E stored \in BOOLEAN : TopicSubscribe(k, stored)
           \/ \E refused \in BOOLEAN : TopicSubscribeReturns(k, refused)
     \/ kind = "unsubscribe" /\ TopicUnsubscribe(k)
     \/ kind = "provide" /\ \E stored \in BOOLEAN : Provide(k, stored)
     \/ kind = "stop" /\ ProvideStop(k)
  /\ mesh' = mesh \cap topics'
  /\ UNCHANGED <<caller, group>>

-----------------------------------------------------------------------------
(* The node thread: DHT results and time.                                  *)

(* dial_topic_members(): with one of them reached, gossipsub has a mesh    *)
(* peer for the topic if it still is subscribed.                           *)
Dialed(k, reached) == IF reached THEN mesh \cup ({k} \cap topics) ELSE mesh

(* A provider lookup of a topic reports members, which are dialed; last    *)
(* ends the last lookup of the topic that runs.                            *)
LookupReports(k, reached, last) ==
  /\ k \in topic_lookups
  /\ topic_lookups' = IF last THEN topic_lookups \ {k} ELSE topic_lookups
  /\ mesh' = Dialed(k, reached)
  /\ UNCHANGED <<caller, commands, topics, topics_subscribed, ignored, last_lookup, records, group>>

(* Other peers join and leave a topic.                                     *)
MeshChange(k) ==
  /\ k \in topics
  /\ mesh' = IF k \in mesh THEN mesh \ {k} ELSE mesh \cup {k}
  /\ UNCHANGED <<caller, commands, topics, topics_subscribed, ignored, lookups, records, group>>

(* A new routing-table peer or the end of a bootstrap.                     *)
ProvideDue ==
  /\ ~provide_due
  /\ provide_due' = TRUE
  /\ UNCHANGED <<caller, commands, topics, topics_subscribed, ignored, lookups, records, debounced,
                 mesh>>

(* TOPIC_LOOKUP_INTERVAL and PROVIDE_DEBOUNCE pass.                        *)
LookupAges(k) ==
  /\ last_lookup[k] = "recent"
  /\ last_lookup' = [last_lookup EXCEPT ![k] = "due"]
  /\ UNCHANGED <<caller, commands, topics, topics_subscribed, ignored, topic_lookups, records,
                 group, mesh>>

ProvideAges ==
  /\ debounced
  /\ debounced' = FALSE
  /\ UNCHANGED <<caller, commands, topics, topics_subscribed, ignored, lookups, records,
                 provide_due, mesh>>

(* The topics tick() looks up again.                                       *)
Lonely == {k \in topics : last_lookup[k] \in {"none", "due"} /\ k \notin mesh}

(* provide(): it counts as done whatever kad answers.                      *)
ProvideGroup(stored) ==
  /\ StartProviding(OwnGroup, stored)
  /\ record' = [record EXCEPT ![OwnGroup] = IF stored THEN "wanted" ELSE "refused"]
  /\ provide_due' = FALSE /\ debounced' = TRUE

\* mutant: a provide that comes too soon after the last one is forgotten
TickForgets ==
  /\ Lookup(Lonely)
  /\ IF provide_due /\ ~debounced THEN \E stored \in BOOLEAN : ProvideGroup(stored)
     ELSE provide_due' = FALSE /\ UNCHANGED <<debounced, records>>
  /\ UNCHANGED <<caller, commands, topics, topics_subscribed, ignored, mesh>>

(* tick(), as far as topics and providing go.                              *)
Tick ==
  /\ Lookup(Lonely)
  /\ IF provide_due /\ ~debounced THEN \E stored \in BOOLEAN : ProvideGroup(stored)
     ELSE UNCHANGED <<group, records>>
  /\ UNCHANGED <<caller, commands, topics, topics_subscribed, ignored, mesh>>

-----------------------------------------------------------------------------
CallerStep(c) ==
  \/ \E k \in Keys : SubscribeCheck(c, k) \/ Unsubscribe(c, k)
  \/ SubscribeSend(c)
  \/ \E k \in Keys : DhtProvide(c, k) \/ DhtStopProviding(c, k)

LookupEnds(k) == \E reached \in BOOLEAN : LookupReports(k, reached, TRUE)

Next ==
  \/ \E c \in Callers : CallerStep(c)
  \/ Handle
  \/ \E k \in Keys : \/ \E reached, last \in BOOLEAN : LookupReports(k, reached, last)
                     \/ MeshChange(k)
                     \/ LookupAges(k)
  \/ ProvideDue \/ ProvideAges \/ Tick

Spec == Init /\ [][Next]_vars

(* The ticker fires every 250 ms, the intervals pass, and kad ends every   *)
(* query.                                                                  *)
Fairness ==
  /\ WF_vars(Tick) /\ WF_vars(ProvideAges)
  /\ \A k \in Keys : WF_vars(LookupAges(k)) /\ WF_vars(LookupEnds(k))

FairSpec == Spec /\ Fairness

-----------------------------------------------------------------------------
TypeOK ==
  /\ checked \in [Callers -> Keys \cup {Idle}]
  /\ commands \in Seq(Command)
  /\ topics \in SUBSET Keys /\ mesh \in SUBSET topics
  /\ topics_subscribed \in Nat
  /\ last_lookup \in [Keys -> {"none", "recent", "due"}]
  /\ topic_lookups \in SUBSET Keys
  /\ providing \in SUBSET Keys
  /\ record \in [Keys -> {"none", "wanted", "stopped", "refused"}]
  /\ provide_due \in BOOLEAN /\ debounced \in BOOLEAN
  /\ follow \in SUBSET Keys /\ ignored \in SUBSET Keys

(* topic_max_subscriptions holds although callers check a counter that is  *)
(* stale by the commands still queued, and that counter, which also is     *)
(* lp2p_stats.topics_subscribed, is exact whenever the node thread is      *)
(* between two handlers.                                                   *)
LimitKept ==
  /\ Cardinality(topics) <= MaxSubscriptions
  /\ topics_subscribed = Cardinality(topics)

(* A topic is followed exactly as the last accepted call for it says, once *)
(* the node thread has handled the commands for it, whatever the order of  *)
(* callers, unless its subscription was not taken.                         *)
LastCallHolds ==
  \A k \in Keys :
    (\A i \in 1 .. Len(commands) :
       ~(commands[i].key = k /\ commands[i].kind \in {"subscribe", "unsubscribe"})) =>
      (k \in topics <=> k \in follow /\ k \notin ignored)

(* "while the node follows it, provides it in the DHT": a followed topic   *)
(* has its provider record, through subscriptions, leaving, the caller's   *)
(* own records under the same key and re-publications, unless the caller   *)
(* stopped that record or kad refused it when it was last asked to keep    *)
(* it, an error topic_subscribe() discards.                                *)
FollowedIsProvided ==
  \A k \in topics : k \in providing \/ record[k] \in {"stopped", "refused"}

(* "While a topic has no peer, the lookup is repeated": there is no end to *)
(* the lookups of a topic that is followed and has no mesh peer.  And a    *)
(* new peer or a finished bootstrap makes the node ask kad for the group's *)
(* record again, also within PROVIDE_DEBOUNCE of the last time: it is      *)
(* there in the end, or kad refused it.                                    *)
KeepsFindable ==
  /\ \A k \in Keys : []<>(k \in topic_lookups \/ k \notin topics \/ k \in mesh)
  /\ provide_due ~> /\ ~provide_due
                    /\ OwnGroup \in providing \/ record[OwnGroup] = "refused"

(* "lp2p_topic_subscribe answers LP2P_ERR_LIMITED above it": a             *)
(* subscription the call accepted is not lost to the limit.                *)
LimitAnswered == [][\A k \in Keys : (k \in ignored' /\ k \notin ignored) =>
                      Cardinality(topics) < MaxSubscriptions]_vars

(* "every node provides under its group key", and a record the caller      *)
(* asked for stays: unsubscribing a topic of the same key does not end it. *)
RecordKept == \A k \in Keys : record[k] = "wanted" => k \in providing
=============================================================================
