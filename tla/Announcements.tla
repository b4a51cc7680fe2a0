---------------------------- MODULE Announcements ----------------------------
(***************************************************************************)
(* Announcements over gossipsub, on a node that has them on.               *)
(*                                                                         *)
(* Outgoing: lp2p_announce_set_payload() hands the node's thread what to   *)
(* announce; announce() of src/src/node.rs publishes it when it differs    *)
(* from what was published last, and tries again on every tick and         *)
(* subscription while gossipsub has nobody to send it to.                  *)
(*                                                                         *)
(* Incoming: gossipsub_event() reports what valid sources announce, at the *)
(* rate SourceRate of src/src/limits.rs allows each.  A token is Interval  *)
(* units of time.                                                          *)
(***************************************************************************)
EXTENDS Integers, FiniteSets, SequencesExt

CONSTANTS
  Payloads,    \* what a caller announces
  Unsendable,  \* the payloads gossipsub cannot sign or transmit
  NoPayload,
  Sources,     \* nodes whose announcements arrive
  Interval,    \* ANNOUNCE_INTERVAL
  Burst,       \* ANNOUNCE_BURST
  MaxBuckets,  \* MAX_BUCKETS
  MaxCalls     \* bound on the calls of lp2p_announce_set_payload()

ASSUME AnnouncementsAssumption ==
  /\ Unsendable \subseteq Payloads
  /\ NoPayload \notin Payloads
  /\ IsFiniteSet(Sources)
  /\ Interval \in Nat \ {0} /\ Burst \in Nat \ {0}
  /\ MaxBuckets \in Nat /\ MaxCalls \in Nat

VARIABLES
  calls,               \* history: the payloads callers set, in order
  channel,             \* Command::AnnounceSetPayload in the channel
  announce_payload,    \* State::announce_payload
  announce_published,  \* State::announce_published
  room,                \* what gossipsub can do: "ok", "nobody" subscribed, queues "full"
  sent,                \* history: the payloads gossipsub took, in order
  blocked,             \* sources whose group is LP2P_CLASS_BLOCKED
  announce_rate,       \* State::announce_rate: SourceRate::buckets
  ideal                \* history: the tokens of buckets that are never forgotten

outgoing == <<calls, channel, announce_payload, announce_published, room, sent>>
incoming == <<blocked, announce_rate, ideal>>
vars == <<outgoing, incoming>>

Full == Burst * Interval
NoBucket == [held |-> FALSE, tokens |-> 0, age |-> 0]
Bucket == [held : BOOLEAN, tokens : 0 .. Full, age : 0 .. Full]

Init ==
  /\ calls = <<>> /\ channel = <<>> /\ sent = <<>>
  /\ announce_payload = NoPayload /\ announce_published = NoPayload
  /\ room = "nobody"
  /\ blocked = {}
  /\ announce_rate = [s \in Sources |-> NoBucket]
  /\ ideal = [s \in Sources |-> Full]

-----------------------------------------------------------------------------
(* lp2p_announce_set_payload(), with a payload within max_payload_bytes.   *)
SetPayload(payload) ==
  /\ Len(calls) < MaxCalls
  /\ calls' = Append(calls, payload)
  /\ channel' = Append(channel, payload)
  /\ UNCHANGED <<announce_payload, announce_published, room, sent, incoming>>

(* A payload gossipsub can never take is not tried again.                  *)
Publish(payload) ==
  \/ /\ payload \in Unsendable
     /\ announce_published' = payload
     /\ UNCHANGED sent
  \/ /\ payload \notin Unsendable /\ room = "ok"
     /\ announce_published' = payload
     /\ sent' = Append(sent, payload)
  \/ /\ payload \notin Unsendable /\ room # "ok"
     /\ UNCHANGED <<announce_published, sent>>

\* mutant: what was published last is not looked at
AnnounceAgain(payload) ==
  \/ payload = NoPayload /\ UNCHANGED <<announce_published, sent>>
  \/ payload # NoPayload /\ Len(sent) <= MaxCalls /\ Publish(payload)

(* announce().  Every publication has a sequence number of its own, so     *)
(* gossipsub takes none for a duplicate.                                   *)
Announce(payload) ==
  \/ /\ payload \in {NoPayload, announce_published}
     /\ UNCHANGED <<announce_published, sent>>
  \/ /\ payload \notin {NoPayload, announce_published}
     /\ Publish(payload)

(* Command::AnnounceSetPayload.                                            *)
AnnounceSetPayload ==
  /\ channel # <<>>
  /\ channel' = Tail(channel)
  /\ announce_payload' = Head(channel)
  /\ Announce(Head(channel))
  /\ UNCHANGED <<calls, room, incoming>>

\* mutant: tick does not try again
TickSilent == UNCHANGED vars

(* tick().                                                                 *)
Tick ==
  /\ Announce(announce_payload)
  /\ UNCHANGED <<calls, channel, announce_payload, room, incoming>>

(* gossipsub_event(), Subscribed: there is somebody to send to.            *)
Subscribed ==
  /\ room \in {"ok", "full"}
  /\ Announce(announce_payload)
  /\ UNCHANGED <<calls, channel, announce_payload, room, incoming>>

(* Peers subscribe and leave, their queues fill and drain.                 *)
PeersChange(next) ==
  /\ room # next
  /\ room' = next
  /\ UNCHANGED <<calls, channel, announce_payload, announce_published, sent, incoming>>

-----------------------------------------------------------------------------
Least(a, b) == IF a <= b THEN a ELSE b

(* The tokens of a source now; a new bucket is full.                       *)
Tokens(source) ==
  LET b == announce_rate[source]
  IN  IF b.held THEN Least(b.tokens + b.age, Full) ELSE Full

\* mutant: above the limit every bucket goes
KeptNone == {}

(* Above the limit the buckets that are full again go.                     *)
Kept ==
  LET held == {s \in Sources : announce_rate[s].held}
  IN  IF Cardinality(held) > MaxBuckets THEN {s \in held : Tokens(s) < Full} ELSE held

\* mutant: the bucket is never found empty
AllowAlways(source, take) ==
  /\ take
  /\ announce_rate' = [announce_rate EXCEPT ![source] =
                         [held |-> TRUE, age |-> 0, tokens |-> Tokens(source) - Interval]]

(* SourceRate::allow(): a token is taken when there is a whole one.        *)
Allow(source, take) ==
  /\ take <=> Tokens(source) >= Interval
  /\ announce_rate' = [s \in Sources |->
       IF s = source
       THEN [held |-> TRUE, age |-> 0, tokens |-> Tokens(s) - IF take THEN Interval ELSE 0]
       ELSE IF s \in Kept THEN announce_rate[s] ELSE NoBucket]

(* gossipsub_event(), Message: rejected, without a look at its rate, when  *)
(* it does not verify for its source or the group is blocked.              *)
MessageRejected(source, valid) ==
  /\ ~valid \/ source \in blocked
  /\ UNCHANGED vars

(* Reported and accepted.                                                  *)
MessageReported(source) ==
  /\ source \notin blocked
  /\ Allow(source, TRUE)
  /\ ideal' = [ideal EXCEPT ![source] = @ - Interval]
  /\ UNCHANGED <<outgoing, blocked>>

(* Over the rate: neither reported nor held against the source.            *)
MessageIgnored(source) ==
  /\ source \notin blocked
  /\ Allow(source, FALSE)
  /\ UNCHANGED <<outgoing, blocked, ideal>>

(* Command::SetClass for the group of a source.                            *)
SetClass(source) ==
  /\ blocked' = IF source \in blocked THEN blocked \ {source} ELSE blocked \cup {source}
  /\ UNCHANGED <<outgoing, announce_rate, ideal>>

TimePasses ==
  /\ announce_rate' = [s \in Sources |->
       LET b == announce_rate[s]
       IN  IF b.held THEN [b EXCEPT !.age = Least(@ + 1, Full)] ELSE b]
  /\ ideal' = [s \in Sources |-> Least(ideal[s] + 1, Full)]
  /\ UNCHANGED <<outgoing, blocked>>

-----------------------------------------------------------------------------
Next ==
  \/ \E p \in Payloads : SetPayload(p)
  \/ AnnounceSetPayload \/ Tick \/ Subscribed
  \/ \E next \in {"ok", "nobody", "full"} : PeersChange(next)
  \/ \E s \in Sources :
       \/ \E valid \in BOOLEAN : MessageRejected(s, valid)
       \/ MessageReported(s) \/ MessageIgnored(s) \/ SetClass(s)
  \/ TimePasses

(* run() takes every command and ticks every 250 ms; peers need not come.  *)
Spec == Init /\ [][Next]_vars /\ WF_vars(AnnounceSetPayload) /\ WF_vars(Tick)

-----------------------------------------------------------------------------
TypeOK ==
  /\ calls \in Seq(Payloads) /\ channel \in Seq(Payloads) /\ sent \in Seq(Payloads)
  /\ announce_payload \in Payloads \cup {NoPayload}
  /\ announce_published \in Payloads \cup {NoPayload}
  /\ room \in {"ok", "nobody", "full"}
  /\ blocked \subseteq Sources
  /\ announce_rate \in [Sources -> Bucket]
  /\ ideal \in [Sources -> 0 .. Full]

(* What goes out is what callers set, in the order they set it, each at    *)
(* most once and none again right after itself, whatever ticks,            *)
(* subscriptions and full queues come between: "announces it when it       *)
(* differs from what was announced last".  (After a payload gossipsub      *)
(* cannot take, the one before it may go out once more.)                   *)
SentAsSet ==
  /\ \E at \in [DOMAIN sent -> DOMAIN calls] :
       /\ \A i \in DOMAIN sent : sent[i] = calls[at[i]]
       /\ \A i, j \in DOMAIN sent : i < j => at[i] < at[j]
  /\ \A i \in 1 .. Len(sent) - 1 :
       sent[i] = sent[i + 1] => \E p \in Unsendable : Contains(calls, p)

(* "the announcement waits and goes out as soon as one appears": when      *)
(* gossipsub has somebody to send to from some point on, the last thing    *)
(* sent is for good the last payload set.                                  *)
LatestGoesOut ==
  <>[](room = "ok") =>
    <>[](calls # <<>> /\ Last(calls) \notin Unsendable => sent # <<>> /\ Last(sent) = Last(calls))

(* "at most one per ten seconds per node (three in reserve)": although     *)
(* full buckets are forgotten and the others refilled lazily, each source  *)
(* has exactly the tokens of a bucket that never is, and what is rejected  *)
(* or ignored costs none.                                                  *)
RateKept == \A s \in Sources : Tokens(s) = ideal[s]
=============================================================================
