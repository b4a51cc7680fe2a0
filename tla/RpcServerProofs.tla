-------------------------- MODULE RpcServerProofs ---------------------------
(***************************************************************************)
(* The safety of RpcServer and of the limits it uses, for any number of    *)
(* requests, groups, peers, rules and rates.                               *)
(*                                                                         *)
(* LikeUnswept is inductive once a limit that is not set is known to have  *)
(* no bucket (Unset): the argument is that every operation of limits.rs    *)
(* changes what a bucket holds now (Level) as it changes a bucket that is  *)
(* never forgotten, and sweep() does not change it at all.                 *)
(*                                                                         *)
(* AnsweredOnce and ChannelsMatch need where the stream of a request is    *)
(* that was never asked, told of or answered (Streams).                    *)
(***************************************************************************)
EXTENDS RpcServer, TLAPS

(* A limit that is not set has no bucket.                                  *)
Unset == \A id \in RuleIds, key \in Keys : ~Set(id) => ~buckets[id][key].held

LimitsInv == LimitsTypeOK /\ Unset /\ LikeUnswept

ServerTypeOK ==
  /\ inbound \in SUBSET Requests /\ inbound_ids \in SUBSET Requests
  /\ told \in SUBSET Requests
  /\ stream \in [Requests -> {"new", "open", "ended", "over"}]
  /\ commands \in SUBSET ({"respond", "reject"} \X Requests)
  /\ answered \in [Requests -> Nat]

(* A request that has not come is in no map and was not answered, only one *)
(* the caller was told of is answered, and an answered one has ended.      *)
Streams ==
  \A r \in Requests :
    /\ stream[r] = "new" => r \notin inbound_ids
    /\ \A kind \in {"respond", "reject"} : <<kind, r>> \in commands => r \in told
    /\ answered[r] # 0 => stream[r] \in {"ended", "over"}

ServerInv == ServerTypeOK /\ Streams /\ AnsweredOnce /\ ChannelsMatch

IInv == LimitsInv /\ ServerInv

-----------------------------------------------------------------------------
(* What a bucket of a limit holds now.                                     *)
Level(id, b) ==
  IF b.held THEN Least(b.tokens + b.age * rules[id].amount, rules[id].burst)
  ELSE rules[id].burst

LEMMA RateType ==
  ASSUME LimitsTypeOK, NEW id \in RuleIds
  PROVE  /\ rules[id].amount \in Nat /\ rules[id].burst \in Nat
         /\ Set(id) => rules[id].burst <= MaxAge * rules[id].amount
<1>1. rules[id] \in Rates \cup {NoRate}
  BY DEF LimitsTypeOK
<1>2. CASE rules[id] \in Rates
  BY <1>2, LimitsAssumption DEF Rate
<1>3. CASE rules[id] = NoRate
  BY <1>3 DEF Set, NoRate
<1> QED
  BY <1>1, <1>2, <1>3

LEMMA BucketType ==
  ASSUME NEW b \in Bucket
  PROVE  b.held \in BOOLEAN /\ b.tokens \in Nat /\ b.age \in 0 .. MaxAge /\ b.age \in Nat
  BY LimitsAssumption DEF Bucket

LEMMA Product ==
  ASSUME NEW m \in Nat, NEW n \in Nat
  PROVE  m * n \in Nat /\ (m + 1) * n = m * n + n /\ 0 * n = 0
  OBVIOUS

LEMMA LevelType ==
  ASSUME LimitsTypeOK, NEW id \in RuleIds, NEW b \in Bucket
  PROVE  Level(id, b) \in Nat /\ Level(id, b) <= rules[id].burst
<1>1. b.tokens \in Nat /\ b.age * rules[id].amount \in Nat /\ rules[id].burst \in Nat
  BY BucketType, RateType, Product
<1> QED
  BY <1>1 DEF Level, Least

LEMMA RefilledIsLevel ==
  ASSUME NEW id \in RuleIds, NEW key \in Keys
  PROVE  Refilled(id, key) = Level(id, buckets[id][key])
  BY DEF Refilled, Level

(* A bucket that was just refilled holds its tokens.                       *)
LEMMA FreshLevel ==
  ASSUME LimitsTypeOK, NEW id \in RuleIds, NEW n \in Nat, n <= rules[id].burst
  PROVE  /\ [held |-> TRUE, age |-> 0, tokens |-> n] \in Bucket
         /\ Level(id, [held |-> TRUE, age |-> 0, tokens |-> n]) = n
<1>1. rules[id].amount \in Nat /\ rules[id].burst \in Nat
  BY RateType
<1>2. n + 0 * rules[id].amount = n
  BY <1>1
<1>3. 0 \in 0 .. MaxAge
  BY LimitsAssumption
<1> QED
  BY <1>1, <1>2, <1>3 DEF Level, Least, Bucket

(* sweep() leaves every limit with what it has.                            *)
LEMMA SweptLevel ==
  ASSUME LimitsTypeOK, NEW bs \in [RuleIds -> [Keys -> Bucket]],
         NEW id \in RuleIds, NEW key \in Keys
  PROVE  /\ Swept(bs)[id][key] \in Bucket
         /\ ~Set(id) => ~Swept(bs)[id][key].held
         /\ Set(id) => Level(id, Swept(bs)[id][key]) = Level(id, bs[id][key])
<1> DEFINE b == bs[id][key]
           now == Least(b.tokens + b.age * rules[id].amount, rules[id].burst)
<1>1. b \in Bucket /\ rules[id].burst \in Nat
  BY RateType
<1>2. Swept(bs)[id][key] = IF ~b.held \/ ~Set(id) \/ Full(id, b) THEN NoBucket
                           ELSE [held |-> TRUE, age |-> 0, tokens |-> now]
  BY DEF Swept
<1>3. NoBucket \in Bucket /\ NoBucket.held = FALSE
  BY LimitsAssumption DEF NoBucket, Bucket
<1>4. b.held => Level(id, b) = now
  BY DEF Level
<1>5. Level(id, b) \in Nat /\ Level(id, b) <= rules[id].burst
  BY <1>1, LevelType
<1>6. CASE ~b.held \/ ~Set(id) \/ Full(id, b)
  <2>1. Swept(bs)[id][key] = NoBucket
    BY <1>2, <1>6
  <2>2. Level(id, NoBucket) = rules[id].burst
    BY <1>3 DEF Level
  <2>3. b.held /\ Full(id, b) => Level(id, b) = rules[id].burst
    BY <1>1, <1>4, <1>5 DEF Full
  <2>4. ~b.held => Level(id, b) = rules[id].burst
    BY DEF Level
  <2> QED
    BY <1>3, <1>6, <2>1, <2>2, <2>3, <2>4
<1>7. CASE b.held /\ Set(id) /\ ~Full(id, b)
  <2>1. Swept(bs)[id][key] = [held |-> TRUE, age |-> 0, tokens |-> now]
    BY <1>2, <1>7
  <2>2. now \in Nat /\ now <= rules[id].burst
    BY <1>4, <1>5, <1>7
  <2> HIDE DEF now
  <2> QED
    BY <1>4, <1>7, <2>1, <2>2, FreshLevel
<1> QED
  BY <1>1, <1>6, <1>7, BucketType

LEMMA SweptType ==
  ASSUME LimitsTypeOK, NEW bs \in [RuleIds -> [Keys -> Bucket]]
  PROVE  Swept(bs) \in [RuleIds -> [Keys -> Bucket]]
<1>1. \A id \in RuleIds, key \in Keys : Swept(bs)[id][key] \in Bucket
  BY SweptLevel
<1>2. Swept(bs) = [id \in RuleIds |-> [key \in Keys |-> Swept(bs)[id][key]]]
  BY DEF Swept
<1> QED
  BY <1>1, <1>2

LEMMA CostType ==
  ASSUME NEW request \in RequestInputs, NEW id \in RuleIds
  PROVE  Cost(id, request) \in Nat
  BY ServerAssumption DEF Cost, Request

(* A request takes its cost from the buckets it is counted in, and nothing *)
(* when it is refused.                                                     *)
LEMMA TouchedLevel ==
  ASSUME LimitsTypeOK, Unset, NEW request \in RequestInputs, NEW ids \in SUBSET Matching(request),
         NEW take \in BOOLEAN, take => Short(request) = {}, NEW id \in RuleIds, NEW key \in Keys
  PROVE  /\ Touched(ids, request, take)[id][key] \in Bucket
         /\ ~Set(id) => ~Touched(ids, request, take)[id][key].held
         /\ take /\ id \in ids /\ key = KeyOf(id, request) =>
              /\ Level(id, Touched(ids, request, take)[id][key]) =
                   Refilled(id, key) - Cost(id, request)
              /\ Refilled(id, key) >= Cost(id, request)
         /\ ~(take /\ id \in ids /\ key = KeyOf(id, request)) =>
              Level(id, Touched(ids, request, take)[id][key]) = Refilled(id, key)
<1> DEFINE paid == Touched(ids, request, take)
           hit == id \in ids /\ key = KeyOf(id, request)
           level == Refilled(id, key)
           rest == level - IF take THEN Cost(id, request) ELSE 0
<1>1. buckets[id][key] \in Bucket
  BY DEF LimitsTypeOK
<1>2. level = Level(id, buckets[id][key])
  BY RefilledIsLevel
<1>3. level \in Nat /\ level <= rules[id].burst /\ rules[id].burst \in Nat
  BY <1>1, <1>2, LevelType, RateType
<1>4. Cost(id, request) \in Nat
  BY CostType
<1>5. paid[id][key] = IF hit THEN [held |-> TRUE, age |-> 0, tokens |-> rest]
                      ELSE buckets[id][key]
  BY DEF Touched
<1>6. CASE hit
  <2>1. id \in Matching(request)
    BY <1>6
  <2>2. Set(id)
    BY <2>1 DEF Matching
  <2>3. take => level >= Cost(id, request)
    <3>1. take => ~(Refilled(id, KeyOf(id, request)) < Cost(id, request))
      BY <2>1 DEF Short
    <3> QED
      BY <1>3, <1>4, <1>6, <3>1
  <2>4. rest \in Nat /\ rest <= rules[id].burst
    BY <1>3, <1>4, <2>3
  <2>5. rest = IF take THEN level - Cost(id, request) ELSE level
    BY <1>3
  <2>6. paid[id][key] = [held |-> TRUE, age |-> 0, tokens |-> rest]
    BY <1>5, <1>6
  <2> HIDE DEF rest, paid, level
  <2>7. paid[id][key] \in Bucket /\ Level(id, paid[id][key]) = rest
    BY <2>4, <2>6, FreshLevel
  <2> QED
    BY <1>6, <2>2, <2>3, <2>5, <2>7 DEF level, paid
<1>7. CASE ~hit
  <2>1. paid[id][key] = buckets[id][key]
    BY <1>5, <1>7
  <2> QED
    BY <1>1, <1>2, <1>7, <2>1 DEF Unset
<1> QED
  BY <1>6, <1>7

LEMMA TouchedType ==
  ASSUME LimitsTypeOK, Unset, NEW request \in RequestInputs, NEW ids \in SUBSET Matching(request),
         NEW take \in BOOLEAN, take => Short(request) = {}
  PROVE  Touched(ids, request, take) \in [RuleIds -> [Keys -> Bucket]]
<1> DEFINE paid == Touched(ids, request, take)
<1>1. \A id \in RuleIds, key \in Keys : paid[id][key] \in Bucket
  BY TouchedLevel
<1>2. paid = [id \in RuleIds |-> [key \in Keys |-> paid[id][key]]]
  BY DEF Touched
<1> HIDE DEF paid
<1>3. paid \in [RuleIds -> [Keys -> Bucket]]
  BY <1>1, <1>2
<1> QED
  BY <1>3 DEF paid

LEMMA NewLevel ==
  ASSUME rules' = rules, NEW id \in RuleIds, NEW key \in Keys
  PROVE  /\ Refilled(id, key)' = Level(id, buckets'[id][key])
         /\ Set(id)' = Set(id)
  BY DEF Refilled, Level, Set

-----------------------------------------------------------------------------
(* check(), sweep() and the calls that change the limits.                  *)
LEMMA AdmittedStep ==
  ASSUME LimitsInv, NEW request \in RequestInputs, Admitted(request) PROVE LimitsInv'
<1> DEFINE paid == Touched(Matching(request), request, TRUE)
<1>1. LimitsTypeOK /\ Unset /\ Short(request) = {} /\ rules' = rules /\ steady' = steady
  BY DEF LimitsInv, Admitted
<1>2. paid \in [RuleIds -> [Keys -> Bucket]]
  BY <1>1, TouchedType
<1>3. buckets' \in {paid, Swept(paid)}
  BY DEF Admitted
<1>4. \A id \in RuleIds, key \in Keys :
        /\ ~Set(id) => ~paid[id][key].held
        /\ id \in Matching(request) /\ key = KeyOf(id, request) =>
             /\ Level(id, paid[id][key]) = Refilled(id, key) - Cost(id, request)
             /\ Refilled(id, key) >= Cost(id, request)
        /\ ~(id \in Matching(request) /\ key = KeyOf(id, request)) =>
             Level(id, paid[id][key]) = Refilled(id, key)
  BY <1>1, TouchedLevel
<1> HIDE DEF paid
<1>5. buckets' \in [RuleIds -> [Keys -> Bucket]]
  BY <1>1, <1>2, <1>3, SweptType
<1>6. \A id \in RuleIds, key \in Keys :
        /\ ~Set(id) => ~buckets'[id][key].held
        /\ Set(id) => Level(id, buckets'[id][key]) = Level(id, paid[id][key])
  BY <1>1, <1>2, <1>3, <1>4, SweptLevel
<1>7. ASSUME NEW id \in RuleIds, NEW key \in Keys
      PROVE  /\ ideal'[id][key] \in Nat
             /\ Set(id) /\ steady[id] => Level(id, paid[id][key]) = ideal'[id][key]
  <2>1. ideal[id][key] \in Nat /\ (Set(id) /\ steady[id] => Refilled(id, key) = ideal[id][key])
    BY DEF LimitsInv, LimitsTypeOK, LikeUnswept
  <2>2. id \in Matching(request) => Set(id)
    BY DEF Matching
  <2>3. ideal'[id][key] = IF steady[id] /\ id \in Matching(request) /\ key = KeyOf(id, request)
                          THEN ideal[id][key] - Cost(id, request) ELSE ideal[id][key]
    BY DEF Admitted
  <2>4. Cost(id, request) \in Nat
    BY CostType
  <2> QED
    BY <1>4, <2>1, <2>2, <2>3, <2>4
<1>8. ideal' \in [RuleIds -> [Keys -> Nat]]
  <2>1. ideal' = [id \in RuleIds |-> [key \in Keys |-> ideal'[id][key]]]
    BY DEF Admitted
  <2> QED
    BY <1>7, <2>1
<1>9. LimitsTypeOK'
  BY <1>5, <1>8 DEF LimitsInv, LimitsTypeOK, Admitted
<1>10. Unset'
  BY <1>1, <1>6, NewLevel DEF Unset
<1>11. LikeUnswept'
  BY <1>1, <1>6, <1>7, NewLevel DEF LikeUnswept
<1> QED
  BY <1>9, <1>10, <1>11 DEF LimitsInv

(* A step that leaves every limit with what it has.                        *)
LEMMA SameLevel ==
  ASSUME LimitsInv, UNCHANGED <<classes, rules, steady, ideal>>,
         buckets' \in [RuleIds -> [Keys -> Bucket]],
         \A id \in RuleIds, key \in Keys :
           /\ ~Set(id) => ~buckets'[id][key].held
           /\ Set(id) => Level(id, buckets'[id][key]) = Refilled(id, key)
  PROVE  LimitsInv'
<1>1. LimitsTypeOK'
  BY DEF LimitsInv, LimitsTypeOK
<1>2. Unset'
  BY NewLevel DEF Unset
<1>3. LikeUnswept'
  BY NewLevel DEF LimitsInv, LikeUnswept
<1> QED
  BY <1>1, <1>2, <1>3 DEF LimitsInv

LEMMA RefusedStep ==
  ASSUME LimitsInv, NEW request \in RequestInputs, Refused(request) PROVE LimitsInv'
<1>1. LimitsTypeOK /\ Unset /\ UNCHANGED <<classes, rules, steady, ideal>>
  BY DEF LimitsInv, Refused
<1>2. CASE UNCHANGED buckets
  BY <1>1, <1>2, RefilledIsLevel, SameLevel DEF LimitsTypeOK, Unset
<1>3. ASSUME NEW id \in Short(request), NEW ahead \in SUBSET (Matching(request) \ Short(request)),
             buckets' = Touched(ahead \cup {id}, request, FALSE)
      PROVE  LimitsInv'
  <2>1. ahead \cup {id} \in SUBSET Matching(request)
    BY DEF Short
  <2>2. buckets' \in [RuleIds -> [Keys -> Bucket]]
    BY <1>1, <1>3, <2>1, TouchedType
  <2>3. \A i \in RuleIds, key \in Keys :
          /\ ~Set(i) => ~buckets'[i][key].held
          /\ Level(i, buckets'[i][key]) = Refilled(i, key)
    BY <1>1, <1>3, <2>1, TouchedLevel
  <2> QED
    BY <1>1, <2>2, <2>3, SameLevel
<1> QED
  BY <1>2, <1>3 DEF Refused

LEMMA SweepStep == ASSUME LimitsInv, Sweep PROVE LimitsInv'
<1>1. LimitsTypeOK /\ buckets \in [RuleIds -> [Keys -> Bucket]] /\ buckets' = Swept(buckets)
  BY DEF LimitsInv, LimitsTypeOK, Sweep
<1>2. buckets' \in [RuleIds -> [Keys -> Bucket]]
  BY <1>1, SweptType
<1>3. \A id \in RuleIds, key \in Keys :
        /\ ~Set(id) => ~buckets'[id][key].held
        /\ Set(id) => Level(id, buckets'[id][key]) = Refilled(id, key)
  BY <1>1, SweptLevel, RefilledIsLevel
<1> QED
  BY <1>2, <1>3, SameLevel DEF Sweep

LEMMA SetClassStep ==
  ASSUME LimitsInv, NEW g \in Groups, NEW class \in Classes, SetClass(g, class) PROVE LimitsInv'
  BY DEF LimitsInv, LimitsTypeOK, Unset, LikeUnswept, SetClass, Set, Refilled

(* A limit set anew finds no bucket and so is full; one whose rate changes *)
(* is no longer steady.                                                    *)
LEMMA SetLimitStep ==
  ASSUME LimitsInv, NEW id \in RuleIds, NEW rate \in Rates, SetLimit(id, rate) PROVE LimitsInv'
<1>1. rate \in Rate /\ rate.burst \in Nat /\ rate # NoRate
  BY LimitsAssumption DEF Rate, NoRate
<1>2. rules' = [rules EXCEPT ![id] = rate] /\ buckets' = buckets /\ Set(id)'
  BY <1>1 DEF SetLimit, Set, LimitsInv, LimitsTypeOK
<1>3. LimitsTypeOK'
  <2>1. rules' \in [RuleIds -> Rates \cup {NoRate}]
    BY <1>2 DEF LimitsInv, LimitsTypeOK
  <2>2. ideal' \in [RuleIds -> [Keys -> Nat]]
    BY <1>1 DEF LimitsInv, LimitsTypeOK, SetLimit
  <2>3. steady' \in [RuleIds -> BOOLEAN]
    BY DEF LimitsInv, LimitsTypeOK, SetLimit
  <2> QED
    BY <2>1, <2>2, <2>3 DEF LimitsInv, LimitsTypeOK, SetLimit
<1>4. ASSUME NEW i \in RuleIds, NEW key \in Keys, i # id
      PROVE  /\ Set(i)' = Set(i) /\ steady'[i] = steady[i] /\ ideal'[i] = ideal[i]
             /\ Refilled(i, key)' = Refilled(i, key)
  BY <1>2, <1>4 DEF SetLimit, Set, Refilled, LimitsInv, LimitsTypeOK
<1>5. Unset'
  BY <1>2, <1>4 DEF LimitsInv, Unset
<1>6. ASSUME NEW key \in Keys, steady'[id] PROVE Refilled(id, key)' = ideal'[id][key]
  <2>1. CASE ~Set(id)
    <3>1. ideal'[id][key] = rate.burst
      BY <2>1 DEF SetLimit, LimitsInv, LimitsTypeOK
    <3>2. ~buckets[id][key].held
      BY <2>1 DEF LimitsInv, Unset
    <3>3. rules'[id] = rate
      BY <1>2 DEF LimitsInv, LimitsTypeOK
    <3> QED
      BY <1>2, <3>1, <3>2, <3>3 DEF Refilled
  <2>2. CASE Set(id)
    <3>1. steady[id] /\ rules[id] = rate /\ ideal'[id] = ideal[id]
      BY <1>6, <2>2 DEF SetLimit, LimitsInv, LimitsTypeOK
    <3>2. Refilled(id, key)' = Refilled(id, key)
      BY <1>2, <3>1 DEF Refilled, LimitsInv, LimitsTypeOK
    <3> QED
      BY <2>2, <3>1, <3>2 DEF LimitsInv, LikeUnswept
  <2> QED
    BY <2>1, <2>2
<1>7. LikeUnswept'
  BY <1>4, <1>6 DEF LimitsInv, LikeUnswept
<1> QED
  BY <1>3, <1>5, <1>7 DEF LimitsInv

LEMMA RemoveLimitStep ==
  ASSUME LimitsInv, NEW id \in RuleIds, RemoveLimit(id) PROVE LimitsInv'
<1>1. NoBucket \in Bucket /\ NoBucket.held = FALSE
  BY LimitsAssumption DEF NoBucket, Bucket
<1>2. ~Set(id)' /\ \A key \in Keys : ~buckets'[id][key].held
  BY <1>1 DEF RemoveLimit, Set, LimitsInv, LimitsTypeOK
<1>3. LimitsTypeOK'
  <2>1. buckets' \in [RuleIds -> [Keys -> Bucket]]
    BY <1>1 DEF LimitsInv, LimitsTypeOK, RemoveLimit
  <2>2. ideal' \in [RuleIds -> [Keys -> Nat]]
    BY DEF LimitsInv, LimitsTypeOK, RemoveLimit
  <2> QED
    BY <2>1, <2>2 DEF LimitsInv, LimitsTypeOK, RemoveLimit
<1>4. ASSUME NEW i \in RuleIds, NEW key \in Keys, i # id
      PROVE  /\ Set(i)' = Set(i) /\ steady'[i] = steady[i] /\ ideal'[i] = ideal[i]
             /\ Refilled(i, key)' = Refilled(i, key) /\ buckets'[i] = buckets[i]
  BY <1>4 DEF RemoveLimit, Set, Refilled, LimitsInv, LimitsTypeOK
<1>5. Unset'
  BY <1>2, <1>4 DEF LimitsInv, Unset
<1>6. LikeUnswept'
  BY <1>2, <1>4 DEF LimitsInv, LikeUnswept
<1> QED
  BY <1>3, <1>5, <1>6 DEF LimitsInv

LEMMA LeastSum ==
  ASSUME NEW t \in Nat, NEW p \in Nat, NEW n \in Nat, NEW most \in Nat
  PROVE  Least(t + (p + n), most) = Least(Least(t + p, most) + n, most)
  BY DEF Least

(* A unit of time brings every limit its rate, up to its burst; an age     *)
(* that stops at MaxAge is that of a full bucket.                          *)
LEMMA AgedLevel ==
  ASSUME LimitsTypeOK, NEW id \in RuleIds, Set(id), NEW b \in Bucket, b.held
  PROVE  Level(id, [b EXCEPT !.age = Least(@ + 1, MaxAge)]) =
           Least(Level(id, b) + rules[id].amount, rules[id].burst)
<1> DEFINE amount == rules[id].amount
           burst == rules[id].burst
           aged == [b EXCEPT !.age = Least(@ + 1, MaxAge)]
<1>1. /\ amount \in Nat /\ burst \in Nat /\ burst <= MaxAge * amount
      /\ b.tokens \in Nat /\ b.age \in Nat /\ b.age <= MaxAge /\ MaxAge \in Nat
  BY RateType, BucketType, LimitsAssumption
<1>2. aged.held /\ aged.tokens = b.tokens /\ aged.age = Least(b.age + 1, MaxAge)
  BY DEF Bucket
<1>3. Level(id, b) = Least(b.tokens + b.age * amount, burst)
  BY DEF Level
<1>4. Level(id, aged) = Least(b.tokens + aged.age * amount, burst)
  BY <1>2 DEF Level
<1>5. CASE b.age < MaxAge
  <2>1. aged.age = b.age + 1
    BY <1>1, <1>2, <1>5 DEF Least
  <2>2. aged.age * amount = b.age * amount + amount /\ b.age * amount \in Nat
    BY <1>1, <2>1, Product
  <2> HIDE DEF aged, amount, burst
  <2>3. Level(id, aged) = Least(Level(id, b) + amount, burst)
    BY <1>1, <1>3, <1>4, <2>2, LeastSum
  <2> QED
    BY <2>3 DEF aged, amount, burst
<1>6. CASE b.age = MaxAge
  <2>1. aged.age = MaxAge
    BY <1>1, <1>2, <1>6 DEF Least
  <2> HIDE DEF aged, amount, burst
  <2>2. MaxAge * amount \in Nat
    BY <1>1, Product
  <2>3. Level(id, aged) = burst /\ Level(id, b) = burst
    BY <1>1, <1>3, <1>4, <1>6, <2>1, <2>2 DEF Least
  <2>4. Level(id, aged) = Least(Level(id, b) + amount, burst)
    BY <1>1, <2>3 DEF Least
  <2> QED
    BY <2>4 DEF aged, amount, burst
<1> QED
  BY <1>1, <1>5, <1>6

LEMMA TimePassesStep == ASSUME LimitsInv, TimePasses PROVE LimitsInv'
<1>1. rules' = rules /\ steady' = steady /\ LimitsTypeOK
  BY DEF TimePasses, LimitsInv
<1>2. ASSUME NEW id \in RuleIds, NEW key \in Keys
      PROVE  /\ buckets'[id][key] \in Bucket
             /\ buckets'[id][key].held = buckets[id][key].held
             /\ Set(id) => Level(id, buckets'[id][key]) =
                             Least(Refilled(id, key) + rules[id].amount, rules[id].burst)
  <2> DEFINE b == buckets[id][key]
  <2>1. b \in Bucket /\ Refilled(id, key) = Level(id, b)
    BY <1>1, RefilledIsLevel DEF LimitsTypeOK
  <2>2. buckets'[id][key] = IF b.held THEN [b EXCEPT !.age = Least(@ + 1, MaxAge)] ELSE b
    BY DEF TimePasses
  <2>3. CASE b.held
    <3>1. b.age \in Nat /\ b.age <= MaxAge /\ MaxAge \in Nat
      BY <2>1, BucketType, LimitsAssumption
    <3>2. Least(b.age + 1, MaxAge) \in 0 .. MaxAge
      BY <3>1 DEF Least
    <3>3. /\ [b EXCEPT !.age = Least(@ + 1, MaxAge)] \in Bucket
          /\ [b EXCEPT !.age = Least(@ + 1, MaxAge)].held = b.held
      BY <2>1, <3>2 DEF Bucket
    <3> QED
      BY <1>1, <2>1, <2>2, <2>3, <3>3, AgedLevel
  <2>4. CASE ~b.held
    <3>1. Level(id, b) = rules[id].burst
      BY <2>4 DEF Level
    <3>2. rules[id].amount \in Nat /\ rules[id].burst \in Nat
      BY <1>1, RateType
    <3>3. Least(rules[id].burst + rules[id].amount, rules[id].burst) = rules[id].burst
      BY <3>2 DEF Least
    <3> QED
      BY <2>1, <2>2, <2>4, <3>1, <3>3
  <2> QED
    BY <2>1, <2>3, <2>4, BucketType
<1>3. buckets' \in [RuleIds -> [Keys -> Bucket]]
  <2>1. buckets' = [id \in RuleIds |-> [key \in Keys |-> buckets'[id][key]]]
    BY DEF TimePasses
  <2> QED
    BY <1>2, <2>1
<1>4. ASSUME NEW id \in RuleIds, NEW key \in Keys
      PROVE  /\ ideal'[id][key] \in Nat
             /\ Set(id) /\ steady[id] => ideal'[id][key] =
                             Least(Refilled(id, key) + rules[id].amount, rules[id].burst)
  <2>1. ideal[id][key] \in Nat /\ rules[id].amount \in Nat /\ rules[id].burst \in Nat
    BY <1>1, RateType DEF LimitsTypeOK
  <2>2. ideal'[id][key] = IF Set(id) /\ steady[id]
                          THEN Least(ideal[id][key] + rules[id].amount, rules[id].burst)
                          ELSE ideal[id][key]
    BY DEF TimePasses
  <2>3. Least(ideal[id][key] + rules[id].amount, rules[id].burst) \in Nat
    BY <2>1 DEF Least
  <2> QED
    BY <2>1, <2>2, <2>3 DEF LimitsInv, LikeUnswept
<1>5. ideal' \in [RuleIds -> [Keys -> Nat]]
  <2>1. ideal' = [id \in RuleIds |-> [key \in Keys |-> ideal'[id][key]]]
    BY DEF TimePasses
  <2> QED
    BY <1>4, <2>1
<1>6. LimitsTypeOK'
  BY <1>1, <1>3, <1>5 DEF LimitsTypeOK, TimePasses
<1>7. Unset'
  BY <1>1, <1>2, NewLevel DEF LimitsInv, Unset
<1>8. LikeUnswept'
  BY <1>1, <1>2, <1>4, NewLevel DEF LikeUnswept
<1> QED
  BY <1>6, <1>7, <1>8 DEF LimitsInv

-----------------------------------------------------------------------------
(* The stream of a request and the two maps.                               *)
LEMMA DropChannelStep ==
  ASSUME ServerInv, NEW r \in Requests, stream[r] = "new", DropChannel(r) PROVE ServerInv'
<1>1. ServerTypeOK'
  BY DEF ServerInv, ServerTypeOK, DropChannel
<1>2. r \notin inbound_ids
  BY DEF ServerInv, Streams
<1>3. Streams' /\ AnsweredOnce'
  BY DEF ServerInv, ServerTypeOK, Streams, AnsweredOnce, DropChannel
<1>4. ChannelsMatch'
  BY <1>2 DEF ServerInv, ServerTypeOK, ChannelsMatch, DropChannel
<1> QED
  BY <1>1, <1>3, <1>4 DEF ServerInv

LEMMA InboundRequestStep ==
  ASSUME ServerInv, NEW r \in Requests, NEW request, NEW queued, InboundRequest(r, request, queued)
  PROVE  ServerInv'
<1>1. told \subseteq told' /\ told' \in SUBSET Requests
  BY DEF ServerInv, ServerTypeOK, InboundRequest
<1>2. ServerTypeOK'
  BY <1>1 DEF ServerInv, ServerTypeOK, InboundRequest
<1>3. Streams'
  BY <1>1 DEF ServerInv, ServerTypeOK, Streams, InboundRequest
<1>4. AnsweredOnce'
  BY <1>1 DEF ServerInv, ServerTypeOK, AnsweredOnce, InboundRequest
<1>5. ChannelsMatch'
  BY DEF ServerInv, ServerTypeOK, ChannelsMatch, InboundRequest
<1> QED
  BY <1>2, <1>3, <1>4, <1>5 DEF ServerInv

LEMMA SendStep ==
  ASSUME ServerInv, NEW r \in Requests, NEW kind \in {"respond", "reject"}, Send(kind, r)
  PROVE  ServerInv'
<1>1. ServerTypeOK'
  BY DEF ServerInv, ServerTypeOK, Send
<1>2. Streams'
  BY DEF ServerInv, Streams, Send
<1>3. AnsweredOnce' /\ ChannelsMatch'
  BY DEF ServerInv, AnsweredOnce, ChannelsMatch, Send
<1> QED
  BY <1>1, <1>2, <1>3 DEF ServerInv

(* The caller was told of what it answers, and an open stream was not      *)
(* answered yet.                                                           *)
LEMMA RespondStep == ASSUME ServerInv, NEW r \in Requests, Respond(r) PROVE ServerInv'
<1>1. r \in told
  BY DEF ServerInv, Streams, Respond
<1>2. CASE r \in inbound /\ stream[r] = "open"
  <2>1. answered[r] = 0
    BY <1>2 DEF ServerInv, Streams
  <2>2. /\ answered' = [answered EXCEPT ![r] = @ + 1]
        /\ stream' = [stream EXCEPT ![r] = "ended"]
        /\ inbound' = inbound \ {r} /\ commands' = commands \ {<<"respond", r>>}
        /\ UNCHANGED <<inbound_ids, told>>
    BY <1>2 DEF Respond
  <2>3. ServerTypeOK'
    BY <2>2 DEF ServerInv, ServerTypeOK
  <2>4. Streams'
    BY <1>2, <2>2 DEF ServerInv, ServerTypeOK, Streams
  <2>5. AnsweredOnce'
    BY <1>1, <2>1, <2>2 DEF ServerInv, ServerTypeOK, AnsweredOnce
  <2>6. ChannelsMatch'
    BY <2>2 DEF ServerInv, ServerTypeOK, ChannelsMatch
  <2> QED
    BY <2>3, <2>4, <2>5, <2>6 DEF ServerInv
<1>3. CASE ~(r \in inbound /\ stream[r] = "open")
  <2>1. /\ inbound' = inbound \ {r} /\ commands' = commands \ {<<"respond", r>>}
        /\ UNCHANGED <<answered, stream, inbound_ids, told>>
    BY <1>3 DEF Respond
  <2>2. ServerTypeOK' /\ Streams' /\ AnsweredOnce'
    BY <2>1 DEF ServerInv, ServerTypeOK, Streams, AnsweredOnce
  <2>3. ChannelsMatch'
    BY <1>3, <2>1 DEF ServerInv, ServerTypeOK, ChannelsMatch
  <2> QED
    BY <2>2, <2>3 DEF ServerInv
<1> QED
  BY <1>2, <1>3

LEMMA RejectStep == ASSUME ServerInv, NEW r \in Requests, Reject(r) PROVE ServerInv'
<1>1. ServerTypeOK'
  BY DEF ServerInv, ServerTypeOK, Reject
<1>2. Streams' /\ AnsweredOnce'
  BY DEF ServerInv, ServerTypeOK, Streams, AnsweredOnce, Reject
<1>3. ChannelsMatch'
  BY DEF ServerInv, ServerTypeOK, ChannelsMatch, Reject
<1> QED
  BY <1>1, <1>2, <1>3 DEF ServerInv

LEMMA StreamEndsStep == ASSUME ServerInv, NEW r \in Requests, StreamEnds(r) PROVE ServerInv'
  BY DEF ServerInv, ServerTypeOK, Streams, AnsweredOnce, ChannelsMatch, StreamEnds

LEMMA StreamOverStep == ASSUME ServerInv, NEW r \in Requests, StreamOver(r) PROVE ServerInv'
<1>1. inbound' = inbound \ {r}
  BY DEF ServerInv, ChannelsMatch, StreamOver
<1>2. ServerTypeOK' /\ Streams' /\ AnsweredOnce'
  BY <1>1 DEF ServerInv, ServerTypeOK, Streams, AnsweredOnce, StreamOver
<1>3. ChannelsMatch'
  BY <1>1 DEF ServerInv, ServerTypeOK, ChannelsMatch, StreamOver
<1> QED
  BY <1>2, <1>3 DEF ServerInv

-----------------------------------------------------------------------------
LEMMA InitIInv == Init => IInv
<1> SUFFICES ASSUME Init PROVE IInv
  OBVIOUS
<1>1. NoBucket \in Bucket /\ NoBucket.held = FALSE
  BY LimitsAssumption DEF NoBucket, Bucket
<1>2. LimitsTypeOK
  BY <1>1, LimitsAssumption DEF Init, InitLimits, LimitsTypeOK
<1>3. Unset /\ LikeUnswept
  BY <1>1 DEF Init, InitLimits, Unset, LikeUnswept, Set
<1>4. ServerInv
  BY DEF Init, ServerInv, ServerTypeOK, Streams, AnsweredOnce, ChannelsMatch
<1> QED
  BY <1>2, <1>3, <1>4 DEF IInv, LimitsInv

LEMMA LimitsUnchanged == ASSUME LimitsInv, UNCHANGED limits PROVE LimitsInv'
  BY DEF limits, LimitsInv, LimitsTypeOK, Unset, LikeUnswept, Set, Refilled

LEMMA ServerUnchanged == ASSUME ServerInv, UNCHANGED server PROVE ServerInv'
  BY DEF server, ServerInv, ServerTypeOK, Streams, AnsweredOnce, ChannelsMatch

(* A step of a request is a step of the server and leaves the limits alone *)
(* or checks the request.                                                  *)
LEMMA RequestIInv == ASSUME IInv, NEW r \in Requests, RequestStep(r) PROVE IInv'
<1>1. CASE InboundInvalid(r)
  BY <1>1, DropChannelStep, LimitsUnchanged DEF InboundInvalid, IInv
<1>2. ASSUME NEW request \in RequestInputs, InboundRefused(r, request) PROVE IInv'
  BY <1>2, DropChannelStep, RefusedStep DEF InboundRefused, IInv
<1>3. ASSUME NEW request \in RequestInputs, NEW queued \in BOOLEAN,
             InboundRequest(r, request, queued)
      PROVE  IInv'
  <2>1. ServerInv'
    BY <1>3, InboundRequestStep DEF IInv
  <2>2. LimitsInv'
    BY <1>3, AdmittedStep DEF InboundRequest, IInv
  <2> QED
    BY <2>1, <2>2 DEF IInv
<1>4. ASSUME NEW kind \in {"respond", "reject"}, Send(kind, r) PROVE IInv'
  <2>1. UNCHANGED limits
    BY <1>4 DEF Send
  <2> QED
    BY <1>4, <2>1, SendStep, LimitsUnchanged DEF IInv
<1>5. CASE Respond(r)
  <2>1. UNCHANGED limits
    BY <1>5 DEF Respond
  <2> QED
    BY <1>5, <2>1, RespondStep, LimitsUnchanged DEF IInv
<1>6. CASE Reject(r)
  <2>1. UNCHANGED limits
    BY <1>6 DEF Reject
  <2> QED
    BY <1>6, <2>1, RejectStep, LimitsUnchanged DEF IInv
<1>7. CASE StreamEnds(r)
  <2>1. UNCHANGED limits
    BY <1>7 DEF StreamEnds
  <2> QED
    BY <1>7, <2>1, StreamEndsStep, LimitsUnchanged DEF IInv
<1>8. CASE StreamOver(r)
  <2>1. UNCHANGED limits
    BY <1>8 DEF StreamOver
  <2> QED
    BY <1>8, <2>1, StreamOverStep, LimitsUnchanged DEF IInv
<1> QED
  BY <1>1, <1>2, <1>3, <1>4, <1>5, <1>6, <1>7, <1>8 DEF RequestStep

LEMMA LimitsStepInv == ASSUME LimitsInv, LimitsStep PROVE LimitsInv'
  BY SweepStep, TimePassesStep, SetClassStep, SetLimitStep, RemoveLimitStep DEF LimitsStep

LEMMA NextIInv == IInv /\ [Next]_vars => IInv'
<1> SUFFICES ASSUME IInv, [Next]_vars PROVE IInv'
  OBVIOUS
<1>1. ASSUME NEW r \in Requests, RequestStep(r) PROVE IInv'
  BY <1>1, RequestIInv
<1>2. ASSUME NEW request \in RequestInputs, TopicMessage(request) PROVE IInv'
  BY <1>2, AdmittedStep, RefusedStep, ServerUnchanged DEF TopicMessage, IInv
<1>3. CASE LimitsStep /\ UNCHANGED server
  BY <1>3, LimitsStepInv, ServerUnchanged DEF IInv
<1>4. CASE UNCHANGED vars
  BY <1>4, LimitsUnchanged, ServerUnchanged DEF vars, IInv
<1> QED
  BY <1>1, <1>2, <1>3, <1>4 DEF Next

(* The inductive invariant holds in every reachable state.                 *)
THEOREM ServerInvariant == Spec => []IInv
  BY InitIInv, NextIInv, PTL DEF Spec

(* Every variable of the limits and of the answering side keeps its type;  *)
(* no bucket ever holds less than nothing (check, refill).                 *)
THEOREM ServerTypeCorrect == Spec => []TypeOK
<1>1. IInv => TypeOK
  BY DEF IInv, LimitsInv, ServerInv, ServerTypeOK, TypeOK
<1> QED
  BY <1>1, ServerInvariant, PTL

(* Lazy refills, sweeps at MAX_BUCKETS and refused requests never change   *)
(* what a limit whose rate stays the same lets through: it has the tokens  *)
(* of a bucket that is never forgotten (check, refill, sweep).             *)
THEOREM LimitsLikeUnswept == Spec => []LikeUnswept
<1>1. IInv => LikeUnswept
  BY DEF IInv, LimitsInv
<1> QED
  BY <1>1, ServerInvariant, PTL

(* A request is answered at most once, and only when the caller was told   *)
(* of it, however calls race the end of its stream (Command::Respond).     *)
THEOREM RequestsAnsweredOnce == Spec => []AnsweredOnce
<1>1. IInv => AnsweredOnce
  BY DEF IInv, ServerInv
<1> QED
  BY <1>1, ServerInvariant, PTL

(* A requester waits only while the node can answer it, and no channel and *)
(* no id outlives its stream (inbound_request, rpc_event).                 *)
THEOREM ChannelsFollowStreams == Spec => []ChannelsMatch
<1>1. IInv => ChannelsMatch
  BY DEF IInv, ServerInv
<1> QED
  BY <1>1, ServerInvariant, PTL
=============================================================================
