------------------------------- MODULE Limits -------------------------------
(***************************************************************************)
(* Peer classes and token buckets: src/src/limits.rs.                      *)
(*                                                                         *)
(* A bucket holds whole tokens and the time since it was last refilled,    *)
(* in units in which every rate is a whole number of tokens; its age stops *)
(* at MaxAge, when any bucket is full again.  Rules are tried in the order *)
(* they were set; which of several rules that have no token left refuses a *)
(* request, and so which buckets it touches, is left open here.            *)
(***************************************************************************)
EXTENDS Integers, FiniteSets

CONSTANTS
  Groups, Peers, Prefixes,
  Classes,      \* peer classes
  Unknown,      \* LP2P_CLASS_UNKNOWN
  Blocked,      \* LP2P_CLASS_BLOCKED
  Relayed,      \* the prefix of a relayed connection: none
  Global,       \* the key of a global bucket
  Protocols,    \* protocol indices, topics included
  AnyProtocol,  \* LP2P_PROTOCOL_ANY
  RuleIds,      \* the limits callers set
  Rates,        \* the rates they set them to
  MaxBuckets,   \* MAX_BUCKETS
  MaxAge        \* bound on the age of a bucket

Rate == [amount : Nat \ {0}, burst : Nat \ {0}]
RuleId == [class : Classes \ {Blocked}, scope : {"peer", "prefix", "global"},
           protocol : Protocols \cup {AnyProtocol}, unit : {"messages", "bytes"}]
Request == [group : Groups, peer : Peers, prefix : Prefixes \cup {Relayed},
            protocol : Protocols, bytes : Nat]
Keys == Peers \cup Prefixes \cup {Relayed, Global}

ASSUME LimitsAssumption ==
  /\ Unknown \in Classes /\ Blocked \in Classes /\ Unknown # Blocked
  /\ RuleIds \subseteq RuleId
  /\ Rates \subseteq Rate
  /\ MaxBuckets \in Nat
  /\ MaxAge \in Nat /\ \A rate \in Rates : rate.burst <= MaxAge * rate.amount

VARIABLES
  classes,  \* Limits::classes, LP2P_CLASS_UNKNOWN when a group has no entry
  rules,    \* Limits::rules
  buckets,  \* Limits::buckets
  steady,   \* history: rules with the rate they were first set to
  ideal     \* history: the tokens of buckets that are never forgotten

limits == <<classes, rules, buckets, steady, ideal>>

NoRate == [amount |-> 0, burst |-> 0]
NoBucket == [held |-> FALSE, tokens |-> 0, age |-> 0]
Bucket == [held : BOOLEAN, tokens : Nat, age : 0 .. MaxAge]

InitLimits ==
  /\ classes = [g \in Groups |-> Unknown]
  /\ rules = [id \in RuleIds |-> NoRate]
  /\ buckets = [id \in RuleIds |-> [key \in Keys |-> NoBucket]]
  /\ steady = [id \in RuleIds |-> TRUE]
  /\ ideal = [id \in RuleIds |-> [key \in Keys |-> 0]]

-----------------------------------------------------------------------------
Least(a, b) == IF a <= b THEN a ELSE b

(* refill(): the tokens of a bucket now; a new bucket is full.             *)
Refilled(id, key) ==
  LET b == buckets[id][key]
  IN  IF b.held THEN Least(b.tokens + b.age * rules[id].amount, rules[id].burst)
      ELSE rules[id].burst

Set(id) == rules[id] # NoRate

(* The bucket of a limit that a request is counted in.                     *)
KeyOf(id, request) ==
  [peer |-> request.peer, prefix |-> request.prefix, global |-> Global][id.scope]

Matching(request) ==
  {id \in RuleIds :
     /\ Set(id)
     /\ id.class = classes[request.group]
     /\ id.protocol \in {AnyProtocol, request.protocol}
     /\ id.scope = "prefix" => request.prefix # Relayed}

Cost(id, request) == IF id.unit = "messages" THEN 1 ELSE request.bytes

\* mutant: one token is enough for any number of bytes
ShortOfOne(request) ==
  {id \in Matching(request) : Refilled(id, KeyOf(id, request)) < 1}

Short(request) ==
  {id \in Matching(request) : Refilled(id, KeyOf(id, request)) < Cost(id, request)}

(* The buckets after those of the limits ids are refilled and, when take,  *)
(* paid from.                                                              *)
Touched(ids, request, take) ==
  [id \in RuleIds |-> [key \in Keys |->
     IF id \in ids /\ key = KeyOf(id, request)
     THEN [held |-> TRUE, age |-> 0,
           tokens |-> Refilled(id, key) - IF take THEN Cost(id, request) ELSE 0]
     ELSE buckets[id][key]]]

\* mutant: a bucket is forgotten as soon as it has a token
FullLoose(id, b) == Least(b.tokens + b.age * rules[id].amount, rules[id].burst) > 0

Full(id, b) == Least(b.tokens + b.age * rules[id].amount, rules[id].burst) >= rules[id].burst

(* sweep(): the buckets of limits that are gone and the full ones go, the  *)
(* others are refilled.                                                    *)
Swept(bs) ==
  [id \in RuleIds |-> [key \in Keys |->
     LET b == bs[id][key] IN
     IF ~b.held \/ ~Set(id) \/ Full(id, b) THEN NoBucket
     ELSE [held |-> TRUE, age |-> 0,
           tokens |-> Least(b.tokens + b.age * rules[id].amount, rules[id].burst)]]]

Count(bs) == Cardinality({k \in RuleIds \X Keys : bs[k[1]][k[2]].held})

(* check(): every matching limit has room and pays.                        *)
Admitted(request) ==
  /\ classes[request.group] # Blocked
  /\ Short(request) = {}
  /\ LET paid == Touched(Matching(request), request, TRUE)
     IN  buckets' = IF Count(paid) > MaxBuckets THEN Swept(paid) ELSE paid
  /\ ideal' = [id \in RuleIds |-> [key \in Keys |->
                 IF steady[id] /\ id \in Matching(request) /\ key = KeyOf(id, request)
                 THEN ideal[id][key] - Cost(id, request) ELSE ideal[id][key]]]
  /\ UNCHANGED <<classes, rules, steady>>

(* check(): a limit has no room, or the group is blocked.                  *)
Refused(request) ==
  /\ \/ classes[request.group] = Blocked /\ UNCHANGED buckets
     \/ /\ classes[request.group] # Blocked
        /\ \E id \in Short(request), ahead \in SUBSET (Matching(request) \ Short(request)) :
             buckets' = Touched(ahead \cup {id}, request, FALSE)
  /\ UNCHANGED <<classes, rules, steady, ideal>>

(* sweep() from tick().                                                    *)
Sweep ==
  /\ buckets' = Swept(buckets)
  /\ UNCHANGED <<classes, rules, steady, ideal>>

SetClass(group, class) ==
  /\ classes' = [classes EXCEPT ![group] = class]
  /\ UNCHANGED <<rules, buckets, steady, ideal>>

(* "A changed rate keeps the buckets: what a peer has used stays used."    *)
SetLimit(id, rate) ==
  /\ rules' = [rules EXCEPT ![id] = rate]
  /\ steady' = [steady EXCEPT ![id] = ~Set(id) \/ (@ /\ rules[id] = rate)]
  /\ ideal' = [ideal EXCEPT ![id] = IF ~Set(id) THEN [key \in Keys |-> rate.burst]
                                    ELSE IF steady'[id] THEN @
                                    ELSE [key \in Keys |-> 0]]
  /\ UNCHANGED <<classes, buckets>>

RemoveLimit(id) ==
  /\ rules' = [rules EXCEPT ![id] = NoRate]
  /\ buckets' = [buckets EXCEPT ![id] = [key \in Keys |-> NoBucket]]
  /\ steady' = [steady EXCEPT ![id] = TRUE]
  /\ ideal' = [ideal EXCEPT ![id] = [key \in Keys |-> 0]]
  /\ UNCHANGED classes

TimePasses ==
  /\ buckets' = [id \in RuleIds |-> [key \in Keys |->
                   LET b == buckets[id][key]
                   IN  IF b.held THEN [b EXCEPT !.age = Least(@ + 1, MaxAge)] ELSE b]]
  /\ ideal' = [id \in RuleIds |-> [key \in Keys |->
                 IF Set(id) /\ steady[id]
                 THEN Least(ideal[id][key] + rules[id].amount, rules[id].burst)
                 ELSE ideal[id][key]]]
  /\ UNCHANGED <<classes, rules, steady>>

-----------------------------------------------------------------------------
LimitsTypeOK ==
  /\ classes \in [Groups -> Classes]
  /\ rules \in [RuleIds -> Rates \cup {NoRate}]
  /\ buckets \in [RuleIds -> [Keys -> Bucket]]
  /\ steady \in [RuleIds -> BOOLEAN]
  /\ ideal \in [RuleIds -> [Keys -> Nat]]

(* sweep() forgets buckets, refill() is lazy and a refused request touches *)
(* buckets, yet at every moment each limit has exactly the tokens of a     *)
(* bucket that starts full, gains its rate with every unit of time and is  *)
(* never forgotten: so no peer gets more than the burst and the rate, and  *)
(* none gets less.  For limits whose rate did not change.                  *)
LikeUnswept ==
  \A id \in RuleIds, key \in Keys : Set(id) /\ steady[id] => Refilled(id, key) = ideal[id][key]
=============================================================================
