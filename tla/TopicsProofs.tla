---------------------------- MODULE TopicsProofs ----------------------------
(***************************************************************************)
(* The safety of Topics for any callers, keys, limits and bounds.          *)
(*                                                                         *)
(* LastCallHolds speaks of keys without a command in the channel; LastWord *)
(* says what the last command for any other key will make of it, and       *)
(* Apart that a topic followed is not one whose subscription was ignored.  *)
(* LimitKept and FollowedIsProvided are inductive with the types.          *)
(***************************************************************************)
EXTENDS Topics, FiniteSetTheorems, SequenceTheorems, TLAPS

(* A command that changes whether key k is followed.                       *)
Decides(command, k) ==
  command.key = k /\ command.kind \in {"subscribe", "unsubscribe"}

LastWord ==
  \A k \in Keys : \A i \in 1 .. Len(commands) :
    /\ Decides(commands[i], k)
    /\ \A j \in 1 .. Len(commands) : j > i => ~Decides(commands[j], k)
    => (k \in follow <=> commands[i].kind = "subscribe")

Apart == topics \cap ignored = {}

IInv == TypeOK /\ LimitKept /\ FollowedIsProvided /\ LastWord /\ Apart /\ LastCallHolds

-----------------------------------------------------------------------------
(* The parts of the invariant, by what can disturb them.  CallInv is about *)
(* the channel and the topics, RecordInv about the provider records.       *)
CallTypeOK ==
  /\ checked \in [Callers -> Keys \cup {Idle}]
  /\ commands \in Seq(Command)
  /\ topics \in SUBSET Keys
  /\ follow \in SUBSET Keys /\ ignored \in SUBSET Keys

CallInv == CallTypeOK /\ LastWord /\ Apart /\ LastCallHolds

LimitInv == topics \in SUBSET Keys /\ topics_subscribed \in Nat /\ LimitKept

RecordInv ==
  /\ providing \in SUBSET Keys
  /\ record \in [Keys -> {"none", "wanted", "stopped", "refused"}]
  /\ topics \in SUBSET Keys
  /\ FollowedIsProvided

RestTypeOK ==
  /\ topics \in SUBSET Keys /\ mesh \in SUBSET topics
  /\ last_lookup \in [Keys -> {"none", "recent", "due"}]
  /\ topic_lookups \in SUBSET Keys
  /\ provide_due \in BOOLEAN /\ debounced \in BOOLEAN

LEMMA Parts == IInv <=> CallInv /\ LimitInv /\ RecordInv /\ RestTypeOK
  BY DEF IInv, CallInv, LimitInv, RecordInv, RestTypeOK, CallTypeOK, TypeOK

LEMMA CommandType ==
  ASSUME NEW c \in Command
  PROVE  c.key \in Keys /\ c.kind \in {"subscribe", "unsubscribe", "provide", "stop"}
  BY DEF Command

LEMMA CallUnchanged ==
  ASSUME CallInv, UNCHANGED <<commands, topics, follow, ignored>>,
         checked' \in [Callers -> Keys \cup {Idle}]
  PROVE  CallInv'
  BY DEF CallInv, CallTypeOK, LastWord, Apart, LastCallHolds

LEMMA LimitUnchanged ==
  ASSUME LimitInv, UNCHANGED <<topics, topics_subscribed>> PROVE LimitInv'
  BY DEF LimitInv, LimitKept

LEMMA RecordUnchanged == ASSUME RecordInv, UNCHANGED <<topics, records>> PROVE RecordInv'
  BY DEF RecordInv, FollowedIsProvided, records

-----------------------------------------------------------------------------
(* A call appends its command, which then is the last word for its key.    *)
LEMMA SendStep ==
  ASSUME CallInv, NEW kind \in {"subscribe", "unsubscribe", "provide", "stop"}, NEW k \in Keys,
         Send(kind, k), checked' \in [Callers -> Keys \cup {Idle}],
         follow' = IF kind = "subscribe" THEN follow \cup {k}
                   ELSE IF kind = "unsubscribe" THEN follow \ {k} ELSE follow
  PROVE  CallInv'
<1> DEFINE command == [kind |-> kind, key |-> k]
<1>1. command \in Command /\ command.kind = kind /\ command.key = k
  BY DEF Command
<1>2. commands' = Append(commands, command) /\ UNCHANGED <<topics, ignored>>
  BY DEF Send
<1> HIDE DEF command
<1>3. /\ commands \in Seq(Command) /\ Len(commands) \in Nat
      /\ commands' \in Seq(Command) /\ Len(commands') = Len(commands) + 1
      /\ \A i \in 1 .. Len(commands) : commands'[i] = commands[i]
      /\ commands'[Len(commands) + 1] = command
  BY <1>1, <1>2, AppendProperties, LenProperties DEF CallInv, CallTypeOK
<1>4. \A j \in Keys : Decides(command, j) <=> j = k /\ kind \in {"subscribe", "unsubscribe"}
  BY <1>1 DEF Decides
<1>5. \A j \in Keys : ~Decides(command, j) => (j \in follow' <=> j \in follow)
  BY <1>4
<1>6. Decides(command, k) => (k \in follow' <=> kind = "subscribe")
  BY <1>4
<1>7. CallTypeOK'
  BY <1>2, <1>3 DEF CallInv, CallTypeOK
<1>8. LastWord'
  <2> SUFFICES ASSUME NEW j \in Keys, NEW i \in 1 .. Len(commands'), Decides(commands'[i], j),
                      \A m \in 1 .. Len(commands') : m > i => ~Decides(commands'[m], j)
               PROVE  j \in follow' <=> commands'[i].kind = "subscribe"
    BY DEF LastWord, Decides
  <2>1. CASE i = Len(commands) + 1
    BY <1>1, <1>3, <1>4, <1>6, <2>1
  <2>2. CASE i # Len(commands) + 1
    <3>1. i \in 1 .. Len(commands) /\ Len(commands) + 1 > i
          /\ Len(commands) + 1 \in 1 .. Len(commands')
      BY <1>3, <2>2
    <3>2. ~Decides(command, j)
      BY <1>3, <3>1
    <3>3. \A m \in 1 .. Len(commands) : m > i => ~Decides(commands[m], j)
      BY <1>3
    <3>4. j \in follow <=> commands[i].kind = "subscribe"
      BY <1>3, <3>1, <3>3 DEF CallInv, LastWord
    <3> QED
      BY <1>3, <1>5, <3>1, <3>2, <3>4
  <2> QED
    BY <2>1, <2>2
<1>9. LastCallHolds'
  <2> SUFFICES ASSUME NEW j \in Keys, \A i \in 1 .. Len(commands') : ~Decides(commands'[i], j)
               PROVE  j \in topics' <=> j \in follow' /\ j \notin ignored'
    BY DEF LastCallHolds, Decides
  <2>1. ~Decides(command, j) /\ \A i \in 1 .. Len(commands) : ~Decides(commands[i], j)
    BY <1>3
  <2>2. j \in topics <=> j \in follow /\ j \notin ignored
    BY <2>1 DEF CallInv, LastCallHolds, Decides
  <2> QED
    BY <1>2, <1>5, <2>1, <2>2
<1>10. Apart'
  BY <1>2 DEF CallInv, Apart
<1> QED
  BY <1>7, <1>8, <1>9, <1>10 DEF CallInv

(* The command at the head is handled: it decides its key unless another   *)
(* one for the key is queued, and leaves every other key alone.            *)
LEMMA HandleCalls ==
  ASSUME CallInv, commands # <<>>, commands' = Tail(commands), UNCHANGED caller,
         topics' \in SUBSET Keys, ignored' \in SUBSET Keys, topics' \cap ignored' = {},
         \A k \in Keys : ~Decides(Head(commands), k) =>
           (k \in topics' <=> k \in topics) /\ (k \in ignored' <=> k \in ignored),
         \A k \in Keys : Decides(Head(commands), k) =>
           (k \in topics' <=> Head(commands).kind = "subscribe" /\ k \notin ignored')
  PROVE  CallInv'
<1>1. /\ commands \in Seq(Command) /\ Len(commands) \in Nat \ {0} /\ Head(commands) = commands[1]
      /\ commands' \in Seq(Command) /\ Len(commands') = Len(commands) - 1
      /\ \A i \in 1 .. Len(commands') : commands'[i] = commands[i + 1]
  BY EmptySeq, HeadTailProperties DEF CallInv, CallTypeOK
<1>2. follow' = follow /\ checked' = checked
  BY DEF caller
<1>3. \A i \in 1 .. Len(commands') : i + 1 \in 1 .. Len(commands)
  BY <1>1
<1>4. \A i \in 1 .. Len(commands) : i = 1 \/ (i - 1 \in 1 .. Len(commands') /\ (i - 1) + 1 = i)
  BY <1>1
<1>5. CallTypeOK'
  BY <1>1, <1>2 DEF CallInv, CallTypeOK
<1>6. LastWord'
  <2> SUFFICES ASSUME NEW k \in Keys, NEW i \in 1 .. Len(commands'), Decides(commands'[i], k),
                      \A m \in 1 .. Len(commands') : m > i => ~Decides(commands'[m], k)
               PROVE  k \in follow' <=> commands'[i].kind = "subscribe"
    BY DEF LastWord, Decides
  <2>1. i + 1 \in 1 .. Len(commands) /\ Decides(commands[i + 1], k)
    BY <1>1, <1>3
  <2>2. ASSUME NEW m \in 1 .. Len(commands), m > i + 1 PROVE ~Decides(commands[m], k)
    <3>1. m - 1 \in 1 .. Len(commands') /\ (m - 1) + 1 = m /\ m - 1 > i
      BY <1>4, <2>2, <1>1
    <3> QED
      BY <1>1, <3>1
  <2>3. k \in follow <=> commands[i + 1].kind = "subscribe"
    BY <2>1, <2>2 DEF CallInv, LastWord
  <2> QED
    BY <1>1, <1>2, <2>3
<1>7. LastCallHolds'
  <2> SUFFICES ASSUME NEW k \in Keys, \A i \in 1 .. Len(commands') : ~Decides(commands'[i], k)
               PROVE  k \in topics' <=> k \in follow' /\ k \notin ignored'
    BY DEF LastCallHolds, Decides
  <2>1. \A i \in 1 .. Len(commands) : i > 1 => ~Decides(commands[i], k)
    BY <1>1, <1>4
  <2>2. 1 \in 1 .. Len(commands)
    BY <1>1
  <2>3. CASE Decides(Head(commands), k)
    <3>1. k \in follow <=> Head(commands).kind = "subscribe"
      BY <1>1, <2>1, <2>2, <2>3 DEF CallInv, LastWord
    <3> QED
      BY <1>2, <2>3, <3>1
  <2>4. CASE ~Decides(Head(commands), k)
    <3>1. \A i \in 1 .. Len(commands) : ~Decides(commands[i], k)
      BY <1>1, <2>1, <2>4
    <3>2. k \in topics <=> k \in follow /\ k \notin ignored
      BY <3>1 DEF CallInv, LastCallHolds, Decides
    <3> QED
      BY <1>2, <2>4, <3>2
  <2> QED
    BY <2>3, <2>4
<1>8. Apart'
  BY DEF Apart
<1> QED
  BY <1>5, <1>6, <1>7, <1>8 DEF CallInv

-----------------------------------------------------------------------------
(* The number of topics, counted.                                          *)
LEMMA TopicsCounted ==
  ASSUME LimitInv, NEW k \in Keys
  PROVE  /\ Cardinality(topics) \in Nat
         /\ k \notin topics => Cardinality(topics \cup {k}) = Cardinality(topics) + 1
         /\ k \in topics => /\ Cardinality(topics \ {k}) \in Nat
                            /\ Cardinality(topics \ {k}) <= Cardinality(topics)
<1>1. IsFiniteSet(topics)
  BY FS_Subset, TopicsAssumption DEF LimitInv
<1>2. Cardinality(topics) \in Nat
  BY <1>1, FS_CardinalityType
<1>3. k \notin topics => Cardinality(topics \cup {k}) = Cardinality(topics) + 1
  BY <1>1, FS_AddElement
<1>4. /\ IsFiniteSet(topics \ {k}) /\ Cardinality(topics \ {k}) \in Nat
      /\ Cardinality(topics \ {k}) <= Cardinality(topics)
  BY <1>1, FS_Subset, FS_CardinalityType
<1> QED
  BY <1>2, <1>3, <1>4

(* A record that is started is there or refused.                           *)
LEMMA StartProvidingRecord ==
  ASSUME RecordInv, NEW k \in Keys, NEW stored \in BOOLEAN, StartProviding(k, stored),
         topics' \in SUBSET (topics \cup {k}), NEW what \in {"none", "wanted"},
         record' = [record EXCEPT ![k] = IF stored THEN what ELSE "refused"]
  PROVE  RecordInv'
<1>1. providing' \in SUBSET Keys /\ record' \in [Keys -> {"none", "wanted", "stopped", "refused"}]
  BY DEF RecordInv, StartProviding
<1>2. k \in providing' \/ record'[k] = "refused"
  BY DEF RecordInv, StartProviding
<1>3. \A j \in Keys : j # k => record'[j] = record[j] /\ (j \in providing' <=> j \in providing)
  BY DEF RecordInv, StartProviding
<1> QED
  BY <1>1, <1>2, <1>3 DEF RecordInv, FollowedIsProvided

LEMMA SubscribeStep ==
  ASSUME LimitInv, RecordInv, NEW k \in Keys, NEW stored \in BOOLEAN, TopicSubscribe(k, stored)
  PROVE  LimitInv' /\ RecordInv'
<1> DEFINE what == IF record[k] = "wanted" THEN "wanted" ELSE "none"
<1>1. /\ k \notin topics /\ Cardinality(topics) < MaxSubscriptions
      /\ topics' = topics \cup {k} /\ topics_subscribed' = Cardinality(topics')
      /\ StartProviding(k, stored)
  BY TopicsCounted, TopicsAssumption DEF TopicSubscribe, Refused
<1>2. record' = [record EXCEPT ![k] = IF stored THEN what ELSE "refused"]
  BY DEF TopicSubscribe, RecordInv
<1>3. Cardinality(topics') = Cardinality(topics) + 1
  BY <1>1, TopicsCounted
<1>4. LimitInv'
  BY <1>1, <1>3, TopicsCounted, TopicsAssumption DEF LimitInv, LimitKept
<1>5. RecordInv'
  BY <1>1, <1>2, StartProvidingRecord
<1> QED
  BY <1>4, <1>5

LEMMA UnsubscribeStep ==
  ASSUME LimitInv, RecordInv, NEW k \in Keys, TopicUnsubscribe(k) PROVE LimitInv' /\ RecordInv'
<1>1. topics' = topics \ {k} /\ record' = record
  BY DEF TopicUnsubscribe
<1>2. LimitInv'
  <2>1. CASE k \in topics
    <3>1. topics_subscribed' = Cardinality(topics')
      BY <2>1 DEF TopicUnsubscribe
    <3> QED
      BY <1>1, <2>1, <3>1, TopicsCounted, TopicsAssumption DEF LimitInv, LimitKept
  <2>2. CASE k \notin topics
    <3>1. topics' = topics /\ topics_subscribed' = topics_subscribed
      BY <2>2 DEF TopicUnsubscribe
    <3> QED
      BY <3>1, LimitUnchanged
  <2> QED
    BY <2>1, <2>2
<1>3. RecordInv'
  BY <1>1 DEF RecordInv, FollowedIsProvided, TopicUnsubscribe, StopProviding
<1> QED
  BY <1>2, <1>3

LEMMA ProvideStep ==
  ASSUME RecordInv, NEW k \in Keys, NEW stored \in BOOLEAN, Provide(k, stored) PROVE RecordInv'
  BY StartProvidingRecord DEF Provide, RecordInv

LEMMA ProvideStopStep == ASSUME RecordInv, NEW k \in Keys, ProvideStop(k) PROVE RecordInv'
<1>1. providing' \in SUBSET Keys /\ record' \in [Keys -> {"none", "wanted", "stopped", "refused"}]
  BY DEF RecordInv, ProvideStop, StopProviding
<1> QED
  BY <1>1 DEF RecordInv, FollowedIsProvided, ProvideStop, StopProviding

LEMMA LookupType ==
  ASSUME RestTypeOK, NEW ks \in SUBSET Keys, Lookup(ks)
  PROVE  /\ topic_lookups' \in SUBSET Keys
         /\ last_lookup' \in [Keys -> {"none", "recent", "due"}]
  BY DEF RestTypeOK, Lookup

(* State::command(), one case per command.                                 *)
LEMMA HandleStep == ASSUME IInv, Handle PROVE IInv'
<1> DEFINE kind == Head(commands).kind
           k == Head(commands).key
<1>1. CallInv /\ LimitInv /\ RecordInv /\ RestTypeOK
  BY Parts
<1>2. /\ commands # <<>> /\ commands' = Tail(commands) /\ mesh' = mesh \cap topics'
      /\ UNCHANGED <<caller, group>>
  BY DEF Handle
<1>3. k \in Keys /\ kind \in {"subscribe", "unsubscribe", "provide", "stop"}
  BY <1>1, <1>2, HeadTailProperties, CommandType DEF CallInv, CallTypeOK
<1>4. \A j \in Keys : Decides(Head(commands), j) <=> j = k /\ kind \in {"subscribe", "unsubscribe"}
  BY DEF Decides
<1>5. ASSUME topics' \in SUBSET Keys, topic_lookups' \in SUBSET Keys,
             last_lookup' \in [Keys -> {"none", "recent", "due"}]
      PROVE  RestTypeOK'
  BY <1>1, <1>2, <1>5 DEF RestTypeOK, group
<1> HIDE DEF kind, k
<1>6. ASSUME kind = "subscribe", NEW stored \in BOOLEAN, TopicSubscribe(k, stored)
      PROVE  IInv'
  <2>1. /\ topics' = topics \cup {k} /\ ignored' = ignored \ {k} /\ k \notin topics
        /\ Lookup({k})
    BY <1>6 DEF TopicSubscribe, Refused
  <2>2. CallInv'
    BY <1>1, <1>2, <1>3, <1>4, <1>6, <2>1, HandleCalls DEF CallInv, CallTypeOK, Apart, kind
  <2>3. LimitInv' /\ RecordInv'
    BY <1>1, <1>3, <1>6, SubscribeStep
  <2>4. RestTypeOK'
    BY <1>1, <1>3, <1>5, <2>1, LookupType DEF RestTypeOK
  <2> QED
    BY <2>2, <2>3, <2>4, Parts, PTL
<1>7. ASSUME kind = "subscribe", NEW refused \in BOOLEAN, TopicSubscribeReturns(k, refused)
      PROVE  IInv'
  <2>1. /\ ignored' = IF k \in topics THEN ignored ELSE ignored \cup {k}
        /\ UNCHANGED <<topics, topics_subscribed, lookups, records>>
    BY <1>7 DEF TopicSubscribeReturns
  <2>2. CallInv'
    BY <1>1, <1>2, <1>3, <1>4, <1>7, <2>1, HandleCalls DEF CallInv, CallTypeOK, Apart, kind
  <2>3. LimitInv' /\ RecordInv'
    BY <1>1, <2>1, LimitUnchanged, RecordUnchanged
  <2>4. RestTypeOK'
    BY <1>1, <1>5, <2>1 DEF RestTypeOK, lookups
  <2> QED
    BY <2>2, <2>3, <2>4, Parts, PTL
<1>8. CASE kind = "unsubscribe" /\ TopicUnsubscribe(k)
  <2>1. /\ topics' = topics \ {k} /\ ignored' = ignored \ {k}
        /\ topic_lookups' = topic_lookups /\ last_lookup' = [last_lookup EXCEPT ![k] = "none"]
    BY <1>8 DEF TopicUnsubscribe
  <2>2. CallInv'
    BY <1>1, <1>2, <1>3, <1>4, <1>8, <2>1, HandleCalls DEF CallInv, CallTypeOK, Apart, kind
  <2>3. LimitInv' /\ RecordInv'
    BY <1>1, <1>3, <1>8, UnsubscribeStep
  <2>4. RestTypeOK'
    BY <1>1, <1>5, <2>1 DEF RestTypeOK
  <2> QED
    BY <2>2, <2>3, <2>4, Parts, PTL
<1>9. CASE kind \in {"provide", "stop"} 
           /\ ((\E stored \in BOOLEAN : Provide(k, stored)) \/ ProvideStop(k))
  <2>1. UNCHANGED <<topics, topics_subscribed, ignored, lookups>>
    BY <1>9 DEF Provide, ProvideStop
  <2>2. CallInv'
    BY <1>1, <1>2, <1>3, <1>4, <1>9, <2>1, HandleCalls DEF CallInv, CallTypeOK, Apart
  <2>3. LimitInv' /\ RecordInv'
    BY <1>1, <1>3, <1>9, <2>1, LimitUnchanged, ProvideStep, ProvideStopStep
  <2>4. RestTypeOK'
    BY <1>1, <1>5, <2>1 DEF RestTypeOK, lookups
  <2> QED
    BY <2>2, <2>3, <2>4, Parts, PTL
<1> QED
  BY <1>6, <1>7, <1>8, <1>9 DEF Handle, kind, k

-----------------------------------------------------------------------------
(* The calls.                                                              *)
LEMMA SubscribeCheckStep ==
  ASSUME IInv, NEW c \in Callers, NEW k \in Keys, SubscribeCheck(c, k) PROVE IInv'
<1>1. CallInv /\ LimitInv /\ RecordInv /\ RestTypeOK
  BY Parts
<1>2. /\ checked' \in [Callers -> Keys \cup {Idle}]
      /\ UNCHANGED <<follow, commands, topics, topics_subscribed, ignored, lookups, records, group,
                     mesh>>
  BY <1>1 DEF SubscribeCheck, CallInv, CallTypeOK
<1>3. CallInv' /\ LimitInv' /\ RecordInv'
  BY <1>1, <1>2, CallUnchanged, LimitUnchanged, RecordUnchanged
<1>4. RestTypeOK'
  BY <1>1, <1>2 DEF RestTypeOK, lookups, group
<1> QED
  BY <1>3, <1>4, Parts, PTL

(* Sending changes nothing but the channel and what the caller asked for.  *)
LEMMA SendRest ==
  ASSUME IInv, NEW kind, NEW k, Send(kind, k) PROVE LimitInv' /\ RecordInv' /\ RestTypeOK'
<1>1. LimitInv /\ RecordInv /\ RestTypeOK
  BY Parts
<1>2. UNCHANGED <<topics, topics_subscribed, ignored, lookups, records, group, mesh>>
  BY DEF Send
<1>3. LimitInv' /\ RecordInv'
  BY <1>1, <1>2, LimitUnchanged, RecordUnchanged
<1>4. RestTypeOK'
  BY <1>1, <1>2 DEF RestTypeOK, lookups, group
<1> QED
  BY <1>3, <1>4

LEMMA CallStep == ASSUME IInv, NEW c \in Callers, CallerStep(c) PROVE IInv'
<1>1. CallInv /\ checked \in [Callers -> Keys \cup {Idle}]
  BY Parts DEF CallInv, CallTypeOK
<1>2. CASE SubscribeSend(c)
  <2>1. checked[c] \in Keys /\ Send("subscribe", checked[c])
    BY <1>1, <1>2 DEF SubscribeSend
  <2>2. checked' \in [Callers -> Keys \cup {Idle}] /\ follow' = follow \cup {checked[c]}
    BY <1>1, <1>2 DEF SubscribeSend
  <2>3. CallInv'
    BY <1>1, <2>1, <2>2, SendStep
  <2>4. LimitInv' /\ RecordInv' /\ RestTypeOK'
    BY <2>1, SendRest
  <2> QED
    BY <2>3, <2>4, Parts, PTL
<1>3. ASSUME NEW k \in Keys, Unsubscribe(c, k) PROVE IInv'
  <2>1. Send("unsubscribe", k) /\ follow' = follow \ {k} /\ checked' = checked
    BY <1>3 DEF Unsubscribe
  <2>2. CallInv'
    BY <1>1, <2>1, SendStep
  <2>3. LimitInv' /\ RecordInv' /\ RestTypeOK'
    BY <2>1, SendRest
  <2> QED
    BY <2>2, <2>3, Parts, PTL
<1>4. ASSUME NEW k \in Keys, DhtProvide(c, k) PROVE IInv'
  <2>1. Send("provide", k) /\ follow' = follow /\ checked' = checked
    BY <1>4 DEF DhtProvide, caller
  <2>2. CallInv'
    BY <1>1, <2>1, SendStep
  <2>3. LimitInv' /\ RecordInv' /\ RestTypeOK'
    BY <2>1, SendRest
  <2> QED
    BY <2>2, <2>3, Parts, PTL
<1>5. ASSUME NEW k \in Keys, DhtStopProviding(c, k) PROVE IInv'
  <2>1. Send("stop", k) /\ follow' = follow /\ checked' = checked
    BY <1>5 DEF DhtStopProviding, caller
  <2>2. CallInv'
    BY <1>1, <2>1, SendStep
  <2>3. LimitInv' /\ RecordInv' /\ RestTypeOK'
    BY <2>1, SendRest
  <2> QED
    BY <2>2, <2>3, Parts, PTL
<1> QED
  BY <1>2, <1>3, <1>4, <1>5, SubscribeCheckStep DEF CallerStep

-----------------------------------------------------------------------------
(* DHT results and time change neither topics nor records, but for the     *)
(* group's record.                                                         *)
LEMMA QuietStep ==
  ASSUME IInv, RestTypeOK',
         UNCHANGED <<caller, commands, topics, topics_subscribed, ignored, records>>
  PROVE  IInv'
<1>1. CallInv /\ LimitInv /\ RecordInv
  BY Parts
<1>2. checked' \in [Callers -> Keys \cup {Idle}] /\ UNCHANGED <<commands, topics, follow, ignored>>
  BY <1>1 DEF caller, CallInv, CallTypeOK
<1>3. CallInv' /\ LimitInv' /\ RecordInv'
  BY <1>1, <1>2, CallUnchanged, LimitUnchanged, RecordUnchanged
<1> QED
  BY <1>3, Parts, PTL

LEMMA TickStep == ASSUME IInv, Tick PROVE IInv'
<1>1. CallInv /\ LimitInv /\ RecordInv /\ RestTypeOK
  BY Parts
<1>2. Lonely \in SUBSET Keys /\ Lookup(Lonely)
  BY <1>1 DEF Lonely, RestTypeOK, Tick
<1>3. /\ UNCHANGED <<caller, commands, topics, topics_subscribed, ignored, mesh>>
      /\ provide_due' \in BOOLEAN /\ debounced' \in BOOLEAN
  BY <1>1 DEF Tick, ProvideGroup, RestTypeOK, group
<1>4. RestTypeOK'
  BY <1>1, <1>2, <1>3, LookupType DEF RestTypeOK
<1>5. CASE UNCHANGED records
  BY <1>3, <1>4, <1>5, QuietStep
<1>6. ASSUME NEW stored \in BOOLEAN, ProvideGroup(stored) PROVE IInv'
  <2>1. RecordInv'
    BY <1>1, <1>3, <1>6, StartProvidingRecord, TopicsAssumption DEF RecordInv, ProvideGroup
  <2>2. checked' \in [Callers -> Keys \cup {Idle}] /\ UNCHANGED <<commands, topics, follow, ignored>>
    BY <1>1, <1>3 DEF caller, CallInv, CallTypeOK
  <2>3. CallInv' /\ LimitInv'
    BY <1>1, <1>3, <2>2, CallUnchanged, LimitUnchanged
  <2> QED
    BY <1>4, <2>1, <2>3, Parts, PTL
<1> QED
  BY <1>5, <1>6 DEF Tick

LEMMA LookupReportsStep ==
  ASSUME IInv, NEW k \in Keys, NEW reached \in BOOLEAN, NEW last \in BOOLEAN,
         LookupReports(k, reached, last)
  PROVE  IInv'
<1>1. RestTypeOK
  BY Parts
<1>2. RestTypeOK'
  BY <1>1 DEF LookupReports, Dialed, RestTypeOK, group
<1> QED
  BY <1>2, QuietStep DEF LookupReports

-----------------------------------------------------------------------------
LEMMA InitIInv == Init => IInv
<1> SUFFICES ASSUME Init PROVE CallInv /\ LimitInv /\ RecordInv /\ RestTypeOK
  BY Parts
<1>1. commands \in Seq(Command) /\ Len(commands) = 0
  BY EmptySeq DEF Init
<1>2. Cardinality(topics) = 0
  BY FS_EmptySet DEF Init
<1>3. CallInv
  BY <1>1 DEF Init, CallInv, CallTypeOK, LastWord, Apart, LastCallHolds
<1>4. LimitInv
  BY <1>2, TopicsAssumption DEF Init, LimitInv, LimitKept
<1>5. RecordInv /\ RestTypeOK
  BY <1>1, TopicsAssumption DEF Init, RecordInv, FollowedIsProvided, RestTypeOK
<1> QED
  BY <1>3, <1>4, <1>5

LEMMA NextIInv == IInv /\ [Next]_vars => IInv'
<1> SUFFICES ASSUME IInv, [Next]_vars PROVE IInv'
  OBVIOUS
<1>1. RestTypeOK
  BY Parts
<1>2. ASSUME NEW c \in Callers, CallerStep(c) PROVE IInv'
  BY <1>2, CallStep
<1>3. CASE Handle
  BY <1>3, HandleStep
<1>4. ASSUME NEW k \in Keys, NEW reached \in BOOLEAN, NEW last \in BOOLEAN,
             LookupReports(k, reached, last)
      PROVE  IInv'
  BY <1>4, LookupReportsStep
<1>5. ASSUME NEW k \in Keys, MeshChange(k) PROVE IInv'
  <2>1. RestTypeOK'
    BY <1>1, <1>5 DEF MeshChange, RestTypeOK, lookups, group
  <2> QED
    BY <1>5, <2>1, QuietStep DEF MeshChange
<1>6. ASSUME NEW k \in Keys, LookupAges(k) PROVE IInv'
  <2>1. RestTypeOK'
    BY <1>1, <1>6 DEF LookupAges, RestTypeOK, group
  <2> QED
    BY <1>6, <2>1, QuietStep DEF LookupAges
<1>7. CASE ProvideDue
  <2>1. RestTypeOK'
    BY <1>1, <1>7 DEF ProvideDue, RestTypeOK, lookups
  <2> QED
    BY <1>7, <2>1, QuietStep DEF ProvideDue
<1>8. CASE ProvideAges
  <2>1. RestTypeOK'
    BY <1>1, <1>8 DEF ProvideAges, RestTypeOK, lookups
  <2> QED
    BY <1>8, <2>1, QuietStep DEF ProvideAges
<1>9. CASE Tick
  BY <1>9, TickStep
<1>10. CASE UNCHANGED vars
  <2>1. RestTypeOK'
    BY <1>1, <1>10 DEF vars, RestTypeOK, lookups, group
  <2> QED
    BY <1>10, <2>1, QuietStep DEF vars
<1> QED
  BY <1>2, <1>3, <1>4, <1>5, <1>6, <1>7, <1>8, <1>9, <1>10 DEF Next

(* The inductive invariant holds in every reachable state.                 *)
THEOREM TopicsInvariant == Spec => []IInv
  BY InitIInv, NextIInv, PTL DEF Spec

(* Every variable of topics and records keeps its type, and gossipsub has  *)
(* mesh peers only for topics the node follows.                            *)
THEOREM TopicsTypeCorrect == Spec => []TypeOK
<1>1. IInv => TypeOK
  BY DEF IInv
<1> QED
  BY <1>1, TopicsInvariant, PTL

(* topic_max_subscriptions holds however many callers passed a check that  *)
(* was stale, and the shared counter is exact (topic_subscribe,            *)
(* topic_unsubscribe).                                                     *)
THEOREM LimitIsKept == Spec => []LimitKept
<1>1. IInv => LimitKept
  BY DEF IInv
<1> QED
  BY <1>1, TopicsInvariant, PTL

(* With its commands handled a topic is followed as the last accepted call *)
(* says, unless its subscription was not taken (State::command).           *)
THEOREM LastCallDecides == Spec => []LastCallHolds
<1>1. IInv => LastCallHolds
  BY DEF IInv
<1> QED
  BY <1>1, TopicsInvariant, PTL

(* A followed topic lacks its provider record only when the caller stopped *)
(* that record or kad refused it the last time it was asked: no order of   *)
(* subscriptions, calls for the same key and re-publications loses it      *)
(* otherwise (topic_subscribe, topic_unsubscribe, Command::Provide, tick). *)
THEOREM FollowedAreProvided == Spec => []FollowedIsProvided
<1>1. IInv => FollowedIsProvided
  BY DEF IInv
<1> QED
  BY <1>1, TopicsInvariant, PTL
=============================================================================
