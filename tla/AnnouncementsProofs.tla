------------------------ MODULE AnnouncementsProofs -------------------------
(***************************************************************************)
(* The safety of Announcements for any payloads, sources, rate and number  *)
(* of calls.                                                               *)
(*                                                                         *)
(* SentAsSet follows what is sent back to the calls.  Queue says which     *)
(* calls are still in the channel; Placed, that everything sent has its    *)
(* own place among the calls handled so far, before the payload that still *)
(* waits if one does; Repeats, that what was published last is what was    *)
(* sent last unless gossipsub could not take it.  RateKept is inductive    *)
(* with the types.                                                         *)
(***************************************************************************)
EXTENDS Announcements, SequenceTheorems, TLAPS

(* How many of the calls the node's thread has handled.                    *)
Handled == Len(calls) - Len(channel)

Queue ==
  /\ Handled \in Nat
  /\ \A i \in 1 .. Len(channel) : channel[i] = calls[Handled + i]
  /\ announce_payload = IF Handled = 0 THEN NoPayload ELSE calls[Handled]

(* The ways to place the elements of what, in order, among the first n of  *)
(* the elements of where.                                                  *)
Places(what, where, n) ==
  {at \in [1 .. Len(what) -> 1 .. n] :
     /\ \A i \in 1 .. Len(what) : what[i] = where[at[i]]
     /\ \A i, j \in 1 .. Len(what) : i < j => at[i] < at[j]}

Placed ==
  Places(sent, calls,
         IF announce_published = announce_payload THEN Handled ELSE Handled - 1) # {}

Spoilt == \E p \in Unsendable : Contains(calls, p)

Repeats ==
  /\ sent # <<>> => sent[Len(sent)] = announce_published \/ Spoilt
  /\ \A i \in 1 .. Len(sent) - 1 : sent[i] = sent[i + 1] => Spoilt

IInv == TypeOK /\ Queue /\ Placed /\ Repeats /\ RateKept

-----------------------------------------------------------------------------
(* Places among the calls.                                                 *)
LEMMA PlacesGrow ==
  ASSUME NEW what, NEW where, NEW n \in Int, NEW m \in Int, n <= m, Places(what, where, n) # {}
  PROVE  Places(what, where, m) # {}
<1>1. 1 .. n \subseteq 1 .. m
  OBVIOUS
<1>2. PICK at \in Places(what, where, n) : TRUE
  OBVIOUS
<1>3. at \in Places(what, where, m)
  BY <1>1, <1>2 DEF Places
<1> QED
  BY <1>3

(* One more call leaves the places of what was sent before.                *)
LEMMA PlacesCalled ==
  ASSUME NEW what \in Seq(Payloads), NEW where \in Seq(Payloads), NEW p \in Payloads,
         NEW n \in Int, n <= Len(where), Places(what, where, n) # {}
  PROVE  Places(what, Append(where, p), n) # {}
<1>1. \A i \in 1 .. Len(where) : Append(where, p)[i] = where[i]
  BY AppendProperties
<1>2. PICK at \in Places(what, where, n) : TRUE
  OBVIOUS
<1>3. \A i \in 1 .. Len(what) : at[i] \in 1 .. n /\ at[i] \in 1 .. Len(where)
  BY <1>2, LenProperties DEF Places
<1>4. at \in Places(what, Append(where, p), n)
  BY <1>1, <1>2, <1>3 DEF Places
<1> QED
  BY <1>4

(* The next call in order is sent: its place comes after the others.       *)
LEMMA PlacesSent ==
  ASSUME NEW what \in Seq(Payloads), NEW where, NEW n \in Nat, where[n + 1] \in Payloads,
         Places(what, where, n) # {}
  PROVE  Places(Append(what, where[n + 1]), where, n + 1) # {}
<1> DEFINE len == Len(what)
           new == Append(what, where[n + 1])
<1>1. PICK at \in Places(what, where, n) : TRUE
  OBVIOUS
<1>2. /\ at \in [1 .. len -> 1 .. n]
      /\ \A i \in 1 .. len : what[i] = where[at[i]]
      /\ \A i, j \in 1 .. len : i < j => at[i] < at[j]
  BY <1>1 DEF Places
<1>3. /\ len \in Nat /\ Len(new) = len + 1
      /\ \A i \in 1 .. len : new[i] = what[i]
      /\ new[len + 1] = where[n + 1]
  BY AppendProperties, LenProperties
<1> DEFINE to == [i \in 1 .. len + 1 |-> IF i = len + 1 THEN n + 1 ELSE at[i]]
<1> HIDE DEF len, new
<1>4. \A i \in 1 .. len + 1 : i = len + 1 \/ i \in 1 .. len
  BY <1>3
<1>5. \A i \in 1 .. len : i # len + 1 /\ i \in 1 .. len + 1 /\ to[i] = at[i] /\ to[i] \in 1 .. n
  BY <1>2, <1>3
<1>6. to[len + 1] = n + 1 /\ len + 1 \in 1 .. len + 1
  BY <1>3
<1>7. to \in [1 .. len + 1 -> 1 .. n + 1]
  BY <1>2, <1>3
<1> HIDE DEF to
<1>8. \A i \in 1 .. len + 1 : new[i] = where[to[i]]
  BY <1>2, <1>3, <1>4, <1>5, <1>6
<1>9. ASSUME NEW i \in 1 .. len + 1, NEW j \in 1 .. len + 1, i < j PROVE to[i] < to[j]
  <2>1. i \in 1 .. len
    BY <1>3, <1>9
  <2>2. CASE j = len + 1
    BY <1>5, <1>6, <2>1, <2>2
  <2>3. CASE j \in 1 .. len
    BY <1>2, <1>5, <1>9, <2>1, <2>3
  <2> QED
    BY <1>4, <2>2, <2>3
<1>10. to \in Places(new, where, n + 1)
  BY <1>3, <1>7, <1>8, <1>9 DEF Places
<1> QED
  BY <1>10 DEF new

(* announce() of the call that is next in order.                           *)
LEMMA AnnouncePlaces ==
  ASSUME TypeOK, Repeats, NEW n \in Nat, n + 1 <= Len(calls), NEW payload,
         payload = calls[n + 1], Places(sent, calls, n) # {}, calls' = calls, Announce(payload)
  PROVE  /\ announce_published' \in Payloads \cup {NoPayload}
         /\ sent' \in Seq(Payloads)
         /\ Places(sent', calls, IF announce_published' = payload THEN n + 1 ELSE n) # {}
         /\ Repeats'
<1>1. payload \in Payloads /\ payload # NoPayload /\ Contains(calls, payload)
  <2>1. calls \in Seq(Payloads) /\ Len(calls) \in Nat /\ n + 1 \in 1 .. Len(calls)
    BY LenProperties DEF TypeOK
  <2> QED
    BY <2>1, AnnouncementsAssumption DEF Contains
<1>2. Places(sent, calls, n + 1) # {}
  BY PlacesGrow
<1>3. Spoilt' = Spoilt
  BY DEF Spoilt
<1>4. CASE announce_published = payload /\ UNCHANGED <<announce_published, sent>>
  BY <1>2, <1>3, <1>4 DEF TypeOK, Repeats
<1>5. CASE payload \in Unsendable /\ announce_published' = payload /\ UNCHANGED sent
  <2>1. Spoilt
    BY <1>1, <1>5 DEF Spoilt
  <2> QED
    BY <1>1, <1>2, <1>3, <1>5, <2>1 DEF TypeOK, Repeats
<1>6. CASE payload # announce_published /\ announce_published' = payload /\ sent' = Append(sent, payload)
  <2>1. sent \in Seq(Payloads) /\ Len(sent) \in Nat
    BY LenProperties DEF TypeOK
  <2>2. /\ sent' \in Seq(Payloads) /\ Len(sent') = Len(sent) + 1
        /\ \A i \in 1 .. Len(sent) : sent'[i] = sent[i]
        /\ sent'[Len(sent) + 1] = payload
    BY <1>1, <1>6, <2>1, AppendProperties
  <2>3. Places(sent', calls, n + 1) # {}
    BY <1>1, <1>6, <2>1, PlacesSent
  <2>4. ASSUME NEW i \in 1 .. Len(sent') - 1, sent'[i] = sent'[i + 1] PROVE Spoilt
    <3>1. CASE i = Len(sent)
      <4>1. sent # <<>> /\ i \in 1 .. Len(sent)
        BY <2>1, <2>2, <2>4, <3>1, EmptySeq
      <4>2. sent[Len(sent)] = payload
        BY <2>2, <2>4, <3>1, <4>1
      <4> QED
        BY <1>6, <4>1, <4>2 DEF Repeats
    <3>2. CASE i # Len(sent)
      <4>1. i \in 1 .. Len(sent) - 1 /\ i \in 1 .. Len(sent) /\ i + 1 \in 1 .. Len(sent)
        BY <2>1, <2>2, <3>2
      <4> QED
        BY <2>2, <2>4, <4>1 DEF Repeats
    <3> QED
      BY <3>1, <3>2
  <2>5. Repeats'
    BY <1>3, <1>6, <2>2, <2>4 DEF Repeats
  <2> QED
    BY <1>1, <1>6, <2>2, <2>3, <2>5
<1>7. CASE payload # announce_published /\ UNCHANGED <<announce_published, sent>>
  BY <1>3, <1>7 DEF TypeOK, Repeats
<1> QED
  BY <1>1, <1>4, <1>5, <1>6, <1>7 DEF Announce, Publish

-----------------------------------------------------------------------------
(* What a step that sends or receives nothing leaves as it is.             *)
OutInv ==
  /\ calls \in Seq(Payloads) /\ channel \in Seq(Payloads) /\ sent \in Seq(Payloads)
  /\ announce_payload \in Payloads \cup {NoPayload}
  /\ announce_published \in Payloads \cup {NoPayload}
  /\ room \in {"ok", "nobody", "full"}
  /\ Queue /\ Placed /\ Repeats

InInv ==
  /\ blocked \subseteq Sources
  /\ announce_rate \in [Sources -> Bucket]
  /\ ideal \in [Sources -> 0 .. Full]
  /\ RateKept

LEMMA Parts == IInv <=> OutInv /\ InInv
  BY DEF IInv, OutInv, InInv, TypeOK

LEMMA OutUnchanged == ASSUME OutInv, UNCHANGED outgoing PROVE OutInv'
<1>1. UNCHANGED <<calls, channel, announce_payload, announce_published, room, sent>>
  BY DEF outgoing
<1>2. Handled' = Handled /\ Spoilt' = Spoilt
  BY <1>1 DEF Handled, Spoilt
<1> QED
  BY <1>1, <1>2 DEF OutInv, Queue, Placed, Repeats

LEMMA InUnchanged == ASSUME InInv, UNCHANGED incoming PROVE InInv'
  BY DEF incoming, InInv, RateKept, Tokens

LEMMA LengthTypes ==
  ASSUME OutInv
  PROVE  /\ Len(calls) \in Nat /\ Len(channel) \in Nat /\ Len(sent) \in Nat
         /\ Handled \in Nat /\ Handled <= Len(calls)
  BY LenProperties DEF OutInv, Queue, Handled

LEMMA SetPayloadStep ==
  ASSUME OutInv, NEW payload \in Payloads, SetPayload(payload) PROVE OutInv'
<1>1. /\ calls' = Append(calls, payload) /\ channel' = Append(channel, payload)
      /\ UNCHANGED <<announce_payload, announce_published, room, sent>>
  BY DEF SetPayload
<1>2. /\ calls' \in Seq(Payloads) /\ Len(calls') = Len(calls) + 1
      /\ \A i \in 1 .. Len(calls) : calls'[i] = calls[i]
      /\ calls'[Len(calls) + 1] = payload
  BY <1>1, AppendProperties DEF OutInv
<1>3. /\ channel' \in Seq(Payloads) /\ Len(channel') = Len(channel) + 1
      /\ \A i \in 1 .. Len(channel) : channel'[i] = channel[i]
      /\ channel'[Len(channel) + 1] = payload
  BY <1>1, AppendProperties DEF OutInv
<1>4. Handled' = Handled
  BY <1>2, <1>3, LengthTypes DEF Handled
<1>5. Queue'
  <2>1. \A i \in 1 .. Len(channel') : channel'[i] = calls'[Handled + i]
    <3> TAKE i \in 1 .. Len(channel')
    <3>1. CASE i = Len(channel) + 1
      <4>1. Handled + i = Len(calls) + 1
        BY <3>1, LengthTypes DEF Handled
      <4> QED
        BY <1>2, <1>3, <3>1, <4>1
    <3>2. CASE i # Len(channel) + 1
      <4>1. i \in 1 .. Len(channel) /\ Handled + i \in 1 .. Len(calls)
        BY <1>3, <3>2, LengthTypes DEF Handled
      <4> QED
        BY <1>2, <1>3, <4>1 DEF OutInv, Queue
    <3> QED
      BY <3>1, <3>2
  <2>2. Handled # 0 => calls'[Handled] = calls[Handled]
    BY <1>2, LengthTypes
  <2> QED
    BY <1>1, <1>4, <2>1, <2>2 DEF OutInv, Queue
<1>6. Placed'
  <2> DEFINE n == IF announce_published = announce_payload THEN Handled ELSE Handled - 1
  <2>1. n \in Int /\ n <= Len(calls)
    BY LengthTypes
  <2>2. Places(sent, calls, n) # {} /\ n' = n
    BY <1>1, <1>4 DEF OutInv, Placed
  <2>3. sent \in Seq(Payloads) /\ calls \in Seq(Payloads)
    BY DEF OutInv
  <2> HIDE DEF n
  <2>4. Places(sent, Append(calls, payload), n) # {}
    BY <2>1, <2>2, <2>3, PlacesCalled
  <2> QED
    BY <1>1, <2>2, <2>4 DEF Placed, n
<1>7. Spoilt => Spoilt'
  <2>1. \A p : Contains(calls, p) => Contains(calls, p)'
    BY <1>2, LengthTypes DEF Contains
  <2> QED
    BY <2>1 DEF Spoilt
<1>8. Repeats'
  BY <1>1, <1>7 DEF OutInv, Repeats
<1> QED
  BY <1>1, <1>2, <1>3, <1>5, <1>6, <1>8 DEF OutInv

LEMMA AnnounceSetPayloadStep == ASSUME OutInv, TypeOK, AnnounceSetPayload PROVE OutInv'
<1>1. /\ channel # <<>> /\ channel' = Tail(channel) /\ announce_payload' = Head(channel)
      /\ Announce(Head(channel)) /\ UNCHANGED <<calls, room>>
  BY DEF AnnounceSetPayload
<1>2. /\ channel \in Seq(Payloads) /\ Len(channel) \in Nat \ {0} /\ Head(channel) = channel[1]
      /\ channel' \in Seq(Payloads) /\ Len(channel') = Len(channel) - 1
      /\ \A i \in 1 .. Len(channel') : channel'[i] = channel[i + 1]
  BY <1>1, EmptySeq, HeadTailProperties DEF OutInv
<1>3. Handled' = Handled + 1 /\ Handled + 1 <= Len(calls)
  BY <1>1, <1>2, LengthTypes DEF Handled
<1>4. Head(channel) = calls[Handled + 1]
  BY <1>2, LengthTypes DEF OutInv, Queue
<1>5. Places(sent, calls, Handled) # {}
  <2>1. CASE announce_published = announce_payload
    BY <2>1 DEF OutInv, Placed
  <2>2. CASE announce_published # announce_payload
    <3>1. Places(sent, calls, Handled - 1) # {}
      BY <2>2 DEF OutInv, Placed
    <3>2. Handled \in Int /\ Handled - 1 \in Int /\ Handled - 1 <= Handled
      BY LengthTypes
    <3> QED
      BY <3>1, <3>2, PlacesGrow
  <2> QED
    BY <2>1, <2>2
<1>6. /\ announce_published' \in Payloads \cup {NoPayload} /\ sent' \in Seq(Payloads)
      /\ Places(sent', calls, IF announce_published' = Head(channel)
                              THEN Handled + 1 ELSE Handled) # {}
      /\ Repeats'
  <2>1. Handled \in Nat /\ calls' = calls /\ Repeats
    BY <1>1, LengthTypes DEF OutInv
  <2> QED
    BY <1>1, <1>3, <1>4, <1>5, <2>1, AnnouncePlaces
<1>7. Queue'
  <2>1. \A i \in 1 .. Len(channel') : channel'[i] = calls[Handled + 1 + i]
    <3> TAKE i \in 1 .. Len(channel')
    <3>1. i + 1 \in 1 .. Len(channel) /\ Handled + (i + 1) = Handled + 1 + i
      BY <1>2, LengthTypes
    <3> QED
      BY <1>2, <3>1 DEF OutInv, Queue
  <2>2. Handled' \in Nat /\ Handled' # 0
    BY <1>3, LengthTypes
  <2> QED
    BY <1>1, <1>3, <1>4, <2>1, <2>2 DEF Queue
<1>8. Placed'
  <2>1. Handled' - 1 = Handled
    BY <1>3, LengthTypes
  <2>2. CASE announce_published' = Head(channel)
    BY <1>1, <1>3, <1>6, <2>2 DEF Placed
  <2>3. CASE announce_published' # Head(channel)
    BY <1>1, <1>6, <2>1, <2>3 DEF Placed
  <2> QED
    BY <2>2, <2>3
<1>9. Head(channel) \in Payloads
  BY <1>1, <1>2, HeadTailProperties
<1> QED
  BY <1>1, <1>2, <1>6, <1>7, <1>8, <1>9 DEF OutInv

(* announce() from tick() and for a new subscriber.                        *)
LEMMA AnnounceStep ==
  ASSUME OutInv, TypeOK, Announce(announce_payload),
         UNCHANGED <<calls, channel, announce_payload, room>>
  PROVE  OutInv'
<1>1. CASE announce_payload \in {NoPayload, announce_published}
  <2>1. UNCHANGED outgoing
    BY <1>1 DEF Announce, outgoing
  <2> QED
    BY <2>1, OutUnchanged
<1>2. CASE announce_payload \notin {NoPayload, announce_published}
  <2>1. Handled' = Handled
    BY DEF Handled
  <2>2. Handled # 0 /\ announce_payload = calls[Handled]
    BY <1>2 DEF OutInv, Queue
  <2> DEFINE n == Handled - 1
  <2>3. n \in Nat /\ n + 1 = Handled /\ n + 1 <= Len(calls)
    BY <2>2, LengthTypes
  <2>4. Places(sent, calls, n) # {}
    BY <1>2 DEF OutInv, Placed
  <2>5. announce_payload = calls[n + 1] /\ Repeats
    BY <2>2, <2>3 DEF OutInv
  <2> HIDE DEF n
  <2>6. /\ announce_published' \in Payloads \cup {NoPayload} /\ sent' \in Seq(Payloads)
        /\ Places(sent', calls, IF announce_published' = announce_payload THEN n + 1 ELSE n) # {}
        /\ Repeats'
    BY <2>3, <2>4, <2>5, AnnouncePlaces
  <2>7. Placed'
    BY <2>1, <2>3, <2>6 DEF Placed, n
  <2>8. Queue'
    BY <2>1 DEF OutInv, Queue
  <2> QED
    BY <2>6, <2>7, <2>8 DEF OutInv
<1> QED
  BY <1>1, <1>2

LEMMA PeersChangeStep ==
  ASSUME OutInv, NEW next \in {"ok", "nobody", "full"}, PeersChange(next) PROVE OutInv'
<1>1. Handled' = Handled /\ Spoilt' = Spoilt
  BY DEF PeersChange, Handled, Spoilt
<1> QED
  BY <1>1 DEF PeersChange, OutInv, Queue, Placed, Repeats

-----------------------------------------------------------------------------
(* SourceRate: every operation changes the tokens of a source as it        *)
(* changes those of a bucket that is never forgotten.                      *)
LEMMA FullType == Full \in Nat /\ Interval \in Nat
  BY AnnouncementsAssumption DEF Full

LEMMA TokensType ==
  ASSUME InInv, NEW s \in Sources
  PROVE  /\ announce_rate[s] \in Bucket
         /\ Tokens(s) \in Nat /\ Tokens(s) <= Full /\ ideal[s] = Tokens(s)
<1>1. announce_rate[s] \in Bucket
  BY DEF InInv
<1>2. ideal[s] = Tokens(s) /\ ideal[s] \in 0 .. Full
  BY DEF InInv, RateKept
<1> QED
  BY <1>1, <1>2, FullType

(* The tokens of each source after allow().                                *)
LEMMA AllowTokens ==
  ASSUME InInv, NEW source \in Sources, NEW take \in BOOLEAN, Allow(source, take)
  PROVE  /\ announce_rate' \in [Sources -> Bucket]
         /\ take => Tokens(source) >= Interval
         /\ Tokens(source)' = IF take THEN Tokens(source) - Interval ELSE Tokens(source)
         /\ \A s \in Sources : s # source => Tokens(s)' = Tokens(s)
<1> DEFINE rest == Tokens(source) - IF take THEN Interval ELSE 0
<1>1. take => Tokens(source) >= Interval
  BY DEF Allow
<1>2. /\ rest \in 0 .. Full /\ rest \in Nat
      /\ rest = IF take THEN Tokens(source) - Interval ELSE Tokens(source)
  BY <1>1, FullType, TokensType
<1>3. announce_rate'[source] = [held |-> TRUE, age |-> 0, tokens |-> rest]
  BY DEF Allow
<1> HIDE DEF rest
<1>4. announce_rate'[source] \in Bucket
  BY <1>2, <1>3, FullType DEF Bucket
<1>5. Tokens(source)' = rest
  BY <1>2, <1>3, FullType DEF Tokens, Least
<1>6. NoBucket \in Bucket /\ NoBucket.held = FALSE
  BY FullType DEF NoBucket, Bucket
<1>7. ASSUME NEW s \in Sources, s # source
      PROVE  announce_rate'[s] \in Bucket /\ Tokens(s)' = Tokens(s)
  <2>1. announce_rate'[s] = IF s \in Kept THEN announce_rate[s] ELSE NoBucket
    BY <1>7 DEF Allow
  <2>2. CASE s \in Kept
    BY <2>1, <2>2, TokensType DEF Tokens
  <2>3. CASE s \notin Kept
    <3>1. Tokens(s)' = Full
      BY <1>6, <2>1, <2>3 DEF Tokens
    <3>2. announce_rate[s].held => Tokens(s) = Full
      BY <2>3, TokensType, FullType DEF Kept
    <3>3. ~announce_rate[s].held => Tokens(s) = Full
      BY DEF Tokens
    <3> QED
      BY <1>6, <2>1, <2>3, <3>1, <3>2, <3>3
  <2> QED
    BY <2>2, <2>3
<1>8. announce_rate' \in [Sources -> Bucket]
  <2>1. announce_rate' = [s \in Sources |-> announce_rate'[s]]
    BY DEF Allow
  <2> QED
    BY <1>4, <1>7, <2>1
<1> QED
  BY <1>1, <1>2, <1>5, <1>7, <1>8

LEMMA MessageReportedStep ==
  ASSUME InInv, NEW source \in Sources, MessageReported(source) PROVE InInv'
<1>1. Allow(source, TRUE) /\ ideal' = [ideal EXCEPT ![source] = @ - Interval] /\ blocked' = blocked
  BY DEF MessageReported
<1>2. /\ announce_rate' \in [Sources -> Bucket]
      /\ Tokens(source) >= Interval /\ Tokens(source)' = Tokens(source) - Interval
      /\ \A s \in Sources : s # source => Tokens(s)' = Tokens(s)
  BY <1>1, AllowTokens
<1>3. ideal'[source] = Tokens(source) - Interval /\ ideal'[source] \in 0 .. Full
  BY <1>1, <1>2, TokensType, FullType DEF InInv
<1>4. \A s \in Sources : s # source => ideal'[s] = Tokens(s)
  BY <1>1, TokensType DEF InInv
<1>5. ideal' \in [Sources -> 0 .. Full]
  BY <1>1, <1>3 DEF InInv
<1> QED
  BY <1>1, <1>2, <1>3, <1>4, <1>5 DEF InInv, RateKept

LEMMA MessageIgnoredStep ==
  ASSUME InInv, NEW source \in Sources, MessageIgnored(source) PROVE InInv'
<1>1. Allow(source, FALSE) /\ ideal' = ideal /\ blocked' = blocked
  BY DEF MessageIgnored
<1>2. announce_rate' \in [Sources -> Bucket] /\ \A s \in Sources : Tokens(s)' = Tokens(s)
  BY <1>1, AllowTokens
<1> QED
  BY <1>1, <1>2 DEF InInv, RateKept

LEMMA SetClassStep == ASSUME InInv, NEW source \in Sources, SetClass(source) PROVE InInv'
  BY DEF InInv, RateKept, Tokens, SetClass

LEMMA TimePassesStep == ASSUME InInv, TimePasses PROVE InInv'
<1>1. ASSUME NEW s \in Sources
      PROVE  /\ announce_rate'[s] \in Bucket
             /\ ideal'[s] \in 0 .. Full
             /\ Tokens(s)' = ideal'[s]
  <2> DEFINE b == announce_rate[s]
             aged == [b EXCEPT !.age = Least(@ + 1, Full)]
  <2>1. /\ b \in Bucket /\ b.tokens \in 0 .. Full /\ b.age \in 0 .. Full /\ Full \in Nat
        /\ ideal[s] = Tokens(s) /\ ideal[s] \in Nat /\ ideal[s] <= Full
    BY TokensType, FullType DEF Bucket
  <2>2. ideal'[s] = Least(ideal[s] + 1, Full)
    BY DEF TimePasses
  <2>3. CASE b.held
    <3>1. announce_rate'[s] = aged
      BY <2>3 DEF TimePasses
    <3>2. aged.held = b.held /\ aged.tokens = b.tokens /\ aged.age = Least(b.age + 1, Full)
      BY <2>1 DEF Bucket
    <3>3. Least(b.age + 1, Full) \in 0 .. Full
      BY <2>1 DEF Least
    <3>4. aged \in Bucket
      BY <2>1, <3>3 DEF Bucket
    <3>5. Tokens(s)' = Least(b.tokens + Least(b.age + 1, Full), Full)
      BY <2>3, <3>1, <3>2 DEF Tokens
    <3>6. Tokens(s) = Least(b.tokens + b.age, Full)
      BY <2>3 DEF Tokens
    <3>7. ideal'[s] \in 0 .. Full /\ Tokens(s)' = ideal'[s]
      BY <2>1, <2>2, <3>5, <3>6 DEF Least
    <3> QED
      BY <3>1, <3>4, <3>7
  <2>4. CASE ~b.held
    <3>1. announce_rate'[s] = b
      BY <2>4 DEF TimePasses
    <3>2. Tokens(s) = Full /\ Tokens(s)' = Full
      BY <2>4, <3>1 DEF Tokens
    <3> QED
      BY <2>1, <2>2, <3>1, <3>2 DEF Least
  <2> QED
    BY <2>3, <2>4
<1>2. /\ announce_rate' = [s \in Sources |-> announce_rate'[s]]
      /\ ideal' = [s \in Sources |-> ideal'[s]]
  BY DEF TimePasses
<1>3. announce_rate' \in [Sources -> Bucket] /\ ideal' \in [Sources -> 0 .. Full]
  BY <1>1, <1>2
<1> QED
  BY <1>1, <1>3 DEF InInv, RateKept, TimePasses

-----------------------------------------------------------------------------
LEMMA InitIInv == Init => IInv
<1> SUFFICES ASSUME Init PROVE OutInv /\ InInv
  BY Parts
<1>1. /\ calls \in Seq(Payloads) /\ channel \in Seq(Payloads) /\ sent \in Seq(Payloads)
      /\ Len(calls) = 0 /\ Len(channel) = 0 /\ Len(sent) = 0
  BY EmptySeq DEF Init
<1>2. Handled = 0
  BY <1>1 DEF Handled
<1>3. Queue
  BY <1>1, <1>2 DEF Init, Queue
<1>4. Placed
  <2>1. [i \in 1 .. Len(sent) |-> i] \in Places(sent, calls, 0)
    BY <1>1 DEF Places
  <2> QED
    BY <1>2, <2>1 DEF Init, Placed
<1>5. Repeats
  BY <1>1 DEF Init, Repeats
<1>6. NoBucket \in Bucket /\ NoBucket.held = FALSE
  BY FullType DEF NoBucket, Bucket
<1>7. InInv
  BY <1>6, FullType DEF Init, InInv, RateKept, Tokens
<1> QED
  BY <1>1, <1>3, <1>4, <1>5, <1>7 DEF Init, OutInv

LEMMA NextIInv == IInv /\ [Next]_vars => IInv'
<1> SUFFICES ASSUME IInv, [Next]_vars PROVE OutInv' /\ InInv'
  BY Parts, PTL
<1>1. OutInv /\ InInv /\ TypeOK
  BY Parts DEF IInv
<1>2. ASSUME NEW p \in Payloads, SetPayload(p) PROVE OutInv' /\ InInv'
  BY <1>1, <1>2, SetPayloadStep, InUnchanged DEF SetPayload
<1>3. CASE AnnounceSetPayload
  BY <1>1, <1>3, AnnounceSetPayloadStep, InUnchanged DEF AnnounceSetPayload
<1>4. CASE Tick
  BY <1>1, <1>4, AnnounceStep, InUnchanged DEF Tick
<1>5. CASE Subscribed
  BY <1>1, <1>5, AnnounceStep, InUnchanged DEF Subscribed
<1>6. ASSUME NEW next \in {"ok", "nobody", "full"}, PeersChange(next) PROVE OutInv' /\ InInv'
  BY <1>1, <1>6, PeersChangeStep, InUnchanged DEF PeersChange
<1>7. ASSUME NEW s \in Sources, MessageReported(s) PROVE OutInv' /\ InInv'
  BY <1>1, <1>7, MessageReportedStep, OutUnchanged DEF MessageReported
<1>8. ASSUME NEW s \in Sources, MessageIgnored(s) PROVE OutInv' /\ InInv'
  BY <1>1, <1>8, MessageIgnoredStep, OutUnchanged DEF MessageIgnored
<1>9. ASSUME NEW s \in Sources, SetClass(s) PROVE OutInv' /\ InInv'
  BY <1>1, <1>9, SetClassStep, OutUnchanged DEF SetClass
<1>10. CASE TimePasses
  BY <1>1, <1>10, TimePassesStep, OutUnchanged DEF TimePasses
<1>11. CASE UNCHANGED vars
  BY <1>1, <1>11, OutUnchanged, InUnchanged DEF vars
<1>12. ASSUME NEW s \in Sources, NEW valid \in BOOLEAN, MessageRejected(s, valid)
       PROVE  OutInv' /\ InInv'
  BY <1>11, <1>12 DEF MessageRejected
<1> QED
  BY <1>2, <1>3, <1>4, <1>5, <1>6, <1>7, <1>8, <1>9, <1>10, <1>11, <1>12 DEF Next

(* The inductive invariant holds in every reachable state.                 *)
THEOREM AnnouncementsInvariant == Spec => []IInv
  BY InitIInv, NextIInv, PTL DEF Spec

(* Every variable keeps its type; no bucket of SourceRate holds less than  *)
(* nothing or more than the burst.                                         *)
THEOREM AnnouncementsTypeCorrect == Spec => []TypeOK
<1>1. IInv => TypeOK
  BY DEF IInv
<1> QED
  BY <1>1, AnnouncementsInvariant, PTL

(* What goes out is a subsequence of what callers set, and repeats itself  *)
(* only after a payload gossipsub could not take, whatever ticks,          *)
(* subscriptions and full queues come between (announce).                  *)
THEOREM SentAsItWasSet == Spec => []SentAsSet
<1>1. ASSUME IInv PROVE SentAsSet
  <2>1. OutInv /\ TypeOK /\ Repeats /\ Placed
    BY <1>1, Parts DEF IInv
  <2>2. /\ DOMAIN sent = 1 .. Len(sent) /\ DOMAIN calls = 1 .. Len(calls)
        /\ Handled \in Nat /\ Handled <= Len(calls) /\ Len(calls) \in Nat
    BY <2>1, LenProperties, LengthTypes DEF TypeOK
  <2>3. Places(sent, calls, Len(calls)) # {}
    <3> DEFINE n == IF announce_published = announce_payload THEN Handled ELSE Handled - 1
    <3>1. n \in Int /\ n <= Len(calls) /\ Len(calls) \in Int
      BY <2>2
    <3>2. Places(sent, calls, n) # {}
      BY <2>1 DEF Placed
    <3> HIDE DEF n
    <3> QED
      BY <3>1, <3>2, PlacesGrow
  <2>4. PICK at \in Places(sent, calls, Len(calls)) : TRUE
    BY <2>3
  <2>5. /\ at \in [DOMAIN sent -> DOMAIN calls]
        /\ \A i \in DOMAIN sent : sent[i] = calls[at[i]]
        /\ \A i, j \in DOMAIN sent : i < j => at[i] < at[j]
    BY <2>2, <2>4 DEF Places
  <2> QED
    BY <2>1, <2>5 DEF SentAsSet, Repeats, Spoilt
<1> QED
  BY <1>1, AnnouncementsInvariant, PTL

(* Every source has exactly the tokens of a bucket that is never           *)
(* forgotten: it is reported at most at the rate, with the burst in        *)
(* reserve, and never at less (SourceRate::allow).                         *)
THEOREM RateIsKept == Spec => []RateKept
<1>1. IInv => RateKept
  BY DEF IInv
<1> QED
  BY <1>1, AnnouncementsInvariant, PTL
=============================================================================
