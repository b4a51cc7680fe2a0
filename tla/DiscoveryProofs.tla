-------------------------- MODULE DiscoveryProofs --------------------------
(***************************************************************************)
(* The safety of Discovery and of the address book for any peers,          *)
(* addresses, queries, sizes of the book and bounds.                       *)
(*                                                                         *)
(* EndsOnce needs Maps: which of the node's maps a query can be in.        *)
(* SampleRotates needs Recent: which part of the table the samples since   *)
(* its last change have handed out.  BookAgrees is kept by Add() with the  *)
(* types of the book, and by Learn() because it is a sequence of Add()s;   *)
(* what a recursive function computes is proved by the least number it     *)
(* would fail for.                                                         *)
(***************************************************************************)
EXTENDS Discovery, FiniteSetTheorems, SequenceTheorems, WellFoundedInduction, TLAPS

(* A query waits in at most one place, the one its kind belongs to.        *)
Maps ==
  \A q \in Queries :
    /\ q \in channel => asked[q] # "nothing"
    /\ q \in bootstraps => asked[q] = "bootstrap" /\ q \notin channel
    /\ q \in walks => asked[q] = "walk" /\ q \notin channel
    /\ q \in provider_queries => asked[q] = "providers" /\ q \notin channel

(* The positions, from 0, at which the last samples started.               *)
Started(p) ==
  \/ p <= sample_offset /\ p > sample_offset - samples
  \/ p > sample_offset + Len(routing) - samples

Recent ==
  samples > 0 =>
    /\ sample_offset < Len(routing)
    /\ \A p \in 0 .. Len(routing) - 1 : Started(p) => routing[p + 1] \in handed

(* The books there are, and what BookAgrees says of one.                   *)
Books == [addresses : UNION {[S -> Seq(Addrs)] : S \in SUBSET Peers}, order : Seq(Peers)]

Agrees(b) ==
  /\ IsInjective(b.order)
  /\ ToSet(b.order) = Known(b)
  /\ Cardinality(Known(b)) <= MaxPeers
  /\ \A p \in Known(b) :
       /\ Len(b.addresses[p]) \in 1 .. MaxAddresses
       /\ IsInjective(b.addresses[p])

BookInv == book \in Books /\ Agrees(book)

QueryTypeOK ==
  /\ asked \in [Queries -> Kinds \cup {"nothing"}]
  /\ channel \in SUBSET Queries /\ running \in SUBSET Queries
  /\ bootstraps \in SUBSET Queries /\ walks \in SUBSET Queries
  /\ provider_queries \in SUBSET Queries
  /\ events \in [Queries -> Seq({"peer", "last"})]

QueryInv == QueryTypeOK /\ Maps /\ EndsOnce

TableTypeOK ==
  /\ routing \in Seq(Peers) /\ IsInjective(routing)
  /\ sample_offset \in 0 .. Cardinality(Peers) /\ samples \in 0 .. Cardinality(Peers)
  /\ handed \in SUBSET ToSet(routing)

TableInv == TableTypeOK /\ Recent

IInv == QueryInv /\ TableInv /\ BookInv

-----------------------------------------------------------------------------
(* Sequences without repetition.                                           *)
LEMMA InjectiveSeq ==
  ASSUME NEW S, NEW s \in Seq(S)
  PROVE  IsInjective(s) <=> \A i, j \in 1 .. Len(s) : s[i] = s[j] => i = j
  BY LenProperties DEF IsInjective

LEMMA ElementsOf ==
  ASSUME NEW S, NEW s \in Seq(S)
  PROVE  \A e : e \in ToSet(s) <=> \E i \in 1 .. Len(s) : s[i] = e
  BY LenProperties DEF ToSet

LEMMA AppendKeeps ==
  ASSUME NEW S, NEW s \in Seq(S), NEW e \in S, IsInjective(s), e \notin ToSet(s)
  PROVE  /\ IsInjective(Append(s, e))
         /\ ToSet(Append(s, e)) = ToSet(s) \cup {e}
<1> DEFINE t == Append(s, e)
<1>1. Len(s) \in Nat /\ t \in Seq(S) /\ Len(t) = Len(s) + 1 /\ t[Len(s) + 1] = e
      /\ \A i \in 1 .. Len(s) : t[i] = s[i]
  BY LenProperties, AppendProperties
<1>2. \A i \in 1 .. Len(s) : s[i] # e
  BY ElementsOf
<1> HIDE DEF t
<1>3. IsInjective(t)
  <2>1. \A i, j \in 1 .. Len(s) : s[i] = s[j] => i = j
    BY InjectiveSeq
  <2>2. \A i, j \in 1 .. Len(s) + 1 : t[i] = t[j] => i = j
    <3>1. \A i \in 1 .. Len(s) + 1 : i \in 1 .. Len(s) \/ i = Len(s) + 1
      BY <1>1
    <3> QED BY <3>1, <2>1, <1>1, <1>2
  <2> QED BY <2>2, <1>1, InjectiveSeq
<1>4. ToSet(t) = ToSet(s) \cup {e}
  <2>1. ASSUME NEW x PROVE (\E i \in 1 .. Len(s) + 1 : t[i] = x) <=> (x = e \/ \E i \in 1 .. Len(s) : s[i] = x)
    <3>1. \A i \in 1 .. Len(s) + 1 : i \in 1 .. Len(s) \/ i = Len(s) + 1
      BY <1>1
    <3>2. Len(s) + 1 \in 1 .. Len(s) + 1 /\ \A i \in 1 .. Len(s) : i \in 1 .. Len(s) + 1
      BY <1>1
    <3> QED BY <3>1, <3>2, <1>1
  <2>2. \A x : x \in ToSet(t) <=> \E i \in 1 .. Len(s) + 1 : t[i] = x
    BY <1>1, ElementsOf
  <2>3. \A x : x \in ToSet(s) <=> \E i \in 1 .. Len(s) : s[i] = x
    BY ElementsOf
  <2> QED BY <2>1, <2>2, <2>3
<1> QED BY <1>3, <1>4 DEF t

LEMMA TailKeeps ==
  ASSUME NEW S, NEW s \in Seq(S), s # <<>>, IsInjective(s)
  PROVE  /\ Tail(s) \in Seq(S) /\ Head(s) \in ToSet(s)
         /\ IsInjective(Tail(s))
         /\ ToSet(Tail(s)) = ToSet(s) \ {Head(s)}
<1> DEFINE t == Tail(s)
<1>1. Len(s) \in Nat /\ Len(s) > 0 /\ t \in Seq(S) /\ Len(t) = Len(s) - 1
      /\ \A i \in 1 .. Len(t) : t[i] = s[i + 1]
  BY LenProperties, EmptySeq, HeadTailProperties
<1>2. Head(s) = s[1]
  BY <1>1
<1> HIDE DEF t
<1>3. \A i, j \in 1 .. Len(s) : s[i] = s[j] => i = j
  BY InjectiveSeq
<1>4. \A i \in 1 .. Len(t) : i + 1 \in 1 .. Len(s) /\ i + 1 # 1 /\ t[i] = s[i + 1]
  BY <1>1
<1>5. IsInjective(t)
  <2>1. ASSUME NEW i \in 1 .. Len(t), NEW j \in 1 .. Len(t), t[i] = t[j] PROVE i = j
    <3>1. i + 1 = j + 1
      BY <2>1, <1>4, <1>3
    <3> QED BY <3>1
  <2> QED BY <2>1, <1>1, InjectiveSeq
<1>6. ToSet(t) = ToSet(s) \ {s[1]}
  <2>1. ASSUME NEW x PROVE (\E i \in 1 .. Len(t) : t[i] = x) <=> (x # s[1] /\ \E i \in 1 .. Len(s) : s[i] = x)
    <3>1. ASSUME NEW i \in 1 .. Len(t), t[i] = x PROVE x # s[1] /\ \E k \in 1 .. Len(s) : s[k] = x
      <4>1. 1 \in 1 .. Len(s)
        BY <1>1
      <4> QED BY <3>1, <4>1, <1>4, <1>3
    <3>2. ASSUME x # s[1], NEW k \in 1 .. Len(s), s[k] = x PROVE \E i \in 1 .. Len(t) : t[i] = x
      <4>1. k # 1
        BY <3>2
      <4>2. k - 1 \in 1 .. Len(t) /\ (k - 1) + 1 = k
        BY <4>1, <1>1
      <4> QED BY <3>2, <4>2, <1>1
    <3> QED BY <3>1, <3>2
  <2>2. \A x : x \in ToSet(t) <=> \E i \in 1 .. Len(t) : t[i] = x
    BY <1>1, ElementsOf
  <2>3. \A x : x \in ToSet(s) <=> \E i \in 1 .. Len(s) : s[i] = x
    BY ElementsOf
  <2> QED BY <2>1, <2>2, <2>3
<1>7. s[1] \in ToSet(s)
  <2>1. 1 \in 1 .. Len(s)
    BY <1>1
  <2> QED BY <2>1, ElementsOf
<1> QED BY <1>1, <1>2, <1>5, <1>6, <1>7 DEF t

(* AddTo(): an address once, and no more than the list holds.              *)
LEMMA AddToKeeps ==
  ASSUME NEW list \in Seq(Addrs), NEW a \in Addrs,
         Len(list) \in 1 .. MaxAddresses, IsInjective(list)
  PROVE  /\ AddTo(list, a) \in Seq(Addrs)
         /\ Len(AddTo(list, a)) \in 1 .. MaxAddresses
         /\ IsInjective(AddTo(list, a))
<1> USE BookAssumption
<1>1. CASE Contains(list, a)
  BY <1>1 DEF AddTo
<1>2. CASE ~Contains(list, a)
  <2>1. a \notin ToSet(list)
    BY <1>2, ElementsOf DEF Contains
  <2>2. list # <<>> /\ Len(list) \in Nat
    BY EmptySeq, LenProperties
  <2>3. CASE Len(list) = MaxAddresses
    <3>1. AddTo(list, a) = Append(Tail(list), a)
      BY <1>2, <2>3 DEF AddTo
    <3>2. /\ Tail(list) \in Seq(Addrs) /\ Len(Tail(list)) = Len(list) - 1
          /\ IsInjective(Tail(list)) /\ a \notin ToSet(Tail(list))
      BY <2>1, <2>2, TailKeeps, HeadTailProperties
    <3>3. /\ Append(Tail(list), a) \in Seq(Addrs)
          /\ Len(Append(Tail(list), a)) = Len(Tail(list)) + 1
      BY <3>2, AppendProperties
    <3>4. IsInjective(Append(Tail(list), a))
      BY <3>2, AppendKeeps
    <3> QED BY <3>1, <3>2, <3>3, <3>4, <2>2
  <2>4. CASE Len(list) # MaxAddresses
    <3>1. AddTo(list, a) = Append(list, a)
      BY <1>2, <2>4 DEF AddTo
    <3>2. Append(list, a) \in Seq(Addrs) /\ Len(Append(list, a)) = Len(list) + 1
      BY AppendProperties
    <3>3. IsInjective(Append(list, a))
      BY <2>1, AppendKeeps
    <3> QED BY <3>1, <3>2, <3>3, <2>2, <2>4
  <2> QED BY <2>3, <2>4
<1> QED BY <1>1, <1>2

-----------------------------------------------------------------------------
(* Add() keeps what BookAgrees says of a book.                             *)
Good(b) == b \in Books /\ Agrees(b)

LEMMA BookTypes ==
  ASSUME NEW b \in Books
  PROVE  /\ b.order \in Seq(Peers)
         /\ b = [addresses |-> b.addresses, order |-> b.order]
         /\ Known(b) \in SUBSET Peers
         /\ b.addresses \in [Known(b) -> Seq(Addrs)]
  BY DEF Books, Known

LEMMA BookMade ==
  ASSUME NEW S \in SUBSET Peers, NEW f \in [S -> Seq(Addrs)], NEW o \in Seq(Peers)
  PROVE  /\ [addresses |-> f, order |-> o] \in Books
         /\ Known([addresses |-> f, order |-> o]) = S
  BY DEF Books, Known

LEMMA EmptyBookGood == Good(EmptyBook)
<1>1. [p \in {} |-> <<>>] \in [{} -> Seq(Addrs)] /\ <<>> \in Seq(Peers)
  BY EmptySeq
<1>2. EmptyBook \in Books /\ Known(EmptyBook) = {}
  BY <1>1, BookMade DEF EmptyBook
<1>3. EmptyBook.order = <<>>
  BY DEF EmptyBook
<1>4. IsInjective(EmptyBook.order) /\ ToSet(EmptyBook.order) = {}
  BY <1>3 DEF IsInjective, ToSet
<1>5. Cardinality({}) = 0
  BY FS_EmptySet
<1> QED BY <1>2, <1>4, <1>5, BookAssumption DEF Good, Agrees

LEMMA AddKeepsKnown ==
  ASSUME NEW b, Good(b), NEW peer \in Known(b), NEW a \in Addrs
  PROVE  Good(Add(b, peer, a))
<1> DEFINE f == [b.addresses EXCEPT ![peer] = AddTo(b.addresses[peer], a)]
<1>1. /\ b \in Books /\ Agrees(b)
      /\ b.order \in Seq(Peers) /\ Known(b) \in SUBSET Peers
      /\ b.addresses \in [Known(b) -> Seq(Addrs)]
      /\ b = [addresses |-> b.addresses, order |-> b.order]
  BY BookTypes DEF Good
<1>2. Add(b, peer, a) = [addresses |-> f, order |-> b.order]
  BY <1>1 DEF Add
<1>3. /\ AddTo(b.addresses[peer], a) \in Seq(Addrs)
      /\ Len(AddTo(b.addresses[peer], a)) \in 1 .. MaxAddresses
      /\ IsInjective(AddTo(b.addresses[peer], a))
  BY <1>1, AddToKeeps DEF Agrees
<1>4. f \in [Known(b) -> Seq(Addrs)] /\ f[peer] = AddTo(b.addresses[peer], a)
      /\ \A p \in Known(b) : p # peer => f[p] = b.addresses[p]
  BY <1>1, <1>3
<1> HIDE DEF f
<1>5. Add(b, peer, a) \in Books /\ Known(Add(b, peer, a)) = Known(b)
  <2>1. /\ [addresses |-> f, order |-> b.order] \in Books
        /\ Known([addresses |-> f, order |-> b.order]) = Known(b)
    BY <1>1, <1>4, BookMade
  <2> QED BY <2>1, <1>2
<1>6. Add(b, peer, a).order = b.order /\ Add(b, peer, a).addresses = f
  BY <1>2
<1>7. \A p \in Known(b) : Len(f[p]) \in 1 .. MaxAddresses /\ IsInjective(f[p])
  BY <1>1, <1>3, <1>4 DEF Agrees
<1> QED BY <1>1, <1>5, <1>6, <1>7 DEF Good, Agrees

LEMMA AddKeepsNew ==
  ASSUME NEW b, Good(b), NEW peer \in Peers, peer \notin Known(b), NEW a \in Addrs
  PROVE  Good(Add(b, peer, a))
<1> USE DiscoveryAssumption, BookAssumption
<1> DEFINE full == Cardinality(Known(b)) = MaxPeers
           kept == IF full THEN Known(b) \ {Head(b.order)} ELSE Known(b)
           rest == IF full THEN Tail(b.order) ELSE b.order
           f == [p \in kept \cup {peer} |-> IF p = peer THEN <<a>> ELSE b.addresses[p]]
<1>1. /\ b \in Books /\ Agrees(b)
      /\ b.order \in Seq(Peers) /\ Known(b) \in SUBSET Peers
      /\ b.addresses \in [Known(b) -> Seq(Addrs)]
  BY BookTypes DEF Good
<1>2. Add(b, peer, a) = [addresses |-> f, order |-> Append(rest, peer)]
  BY DEF Add
<1>3. IsFiniteSet(Known(b)) /\ Cardinality(Known(b)) \in Nat
  BY <1>1, FS_Subset, FS_CardinalityType
<1>4. /\ rest \in Seq(Peers) /\ IsInjective(rest) /\ ToSet(rest) = kept
      /\ kept \in SUBSET Known(b) /\ IsFiniteSet(kept)
      /\ Cardinality(kept) \in Nat /\ Cardinality(kept) < MaxPeers
  <2>1. CASE full
    <3>1. b.order # <<>>
      <4>1. SUFFICES ASSUME b.order = <<>> PROVE FALSE
        OBVIOUS
      <4>2. ToSet(b.order) = {}
        BY <4>1 DEF ToSet
      <4>3. Known(b) = {} /\ Cardinality({}) = 0
        BY <4>2, <1>1, FS_EmptySet DEF Agrees
      <4> QED BY <4>3, <2>1
    <3>2. /\ rest \in Seq(Peers) /\ IsInjective(rest)
          /\ ToSet(rest) = Known(b) \ {Head(b.order)} /\ Head(b.order) \in Known(b)
      BY <3>1, <2>1, <1>1, TailKeeps DEF Agrees
    <3>3. IsFiniteSet(kept) /\ Cardinality(kept) = Cardinality(Known(b)) - 1
      BY <3>2, <2>1, <1>3, FS_RemoveElement
    <3>4. Cardinality(kept) \in Nat
      BY <3>3, FS_CardinalityType
    <3> QED BY <3>2, <3>3, <3>4, <2>1
  <2>2. CASE ~full
    BY <2>2, <1>1, <1>3 DEF Agrees
  <2> QED BY <2>1, <2>2
<1>5. peer \notin kept /\ kept \cup {peer} \in SUBSET Peers
  BY <1>1, <1>4
<1>6. <<a>> \in Seq(Addrs) /\ Len(<<a>>) = 1 /\ IsInjective(<<a>>)
  BY DEF IsInjective
<1>7. f \in [kept \cup {peer} -> Seq(Addrs)] /\ f[peer] = <<a>>
      /\ \A p \in kept : f[p] = b.addresses[p]
  BY <1>1, <1>4, <1>5, <1>6
<1> HIDE DEF kept, rest, f, full
<1>8. Cardinality(kept \cup {peer}) <= MaxPeers
  <2>1. Cardinality(kept \cup {peer}) = Cardinality(kept) + 1
    BY <1>4, <1>5, FS_AddElement
  <2> QED BY <2>1, <1>4
<1>9. Append(rest, peer) \in Seq(Peers) /\ IsInjective(Append(rest, peer))
      /\ ToSet(Append(rest, peer)) = kept \cup {peer}
  BY <1>4, <1>5, AppendKeeps, AppendProperties
<1>10. Add(b, peer, a) \in Books /\ Known(Add(b, peer, a)) = kept \cup {peer}
  <2>1. /\ [addresses |-> f, order |-> Append(rest, peer)] \in Books
        /\ Known([addresses |-> f, order |-> Append(rest, peer)]) = kept \cup {peer}
    BY <1>5, <1>7, <1>9, BookMade
  <2> QED BY <2>1, <1>2
<1>11. Add(b, peer, a).order = Append(rest, peer) /\ Add(b, peer, a).addresses = f
  BY <1>2
<1>12. \A p \in kept \cup {peer} : Len(f[p]) \in 1 .. MaxAddresses /\ IsInjective(f[p])
  <2>1. Len(f[peer]) \in 1 .. MaxAddresses /\ IsInjective(f[peer])
    BY <1>6, <1>7
  <2>2. \A p \in kept : Len(f[p]) \in 1 .. MaxAddresses /\ IsInjective(f[p])
    BY <1>1, <1>4, <1>7 DEF Agrees
  <2> QED BY <2>1, <2>2
<1> QED BY <1>8, <1>9, <1>10, <1>11, <1>12 DEF Good, Agrees

LEMMA AddKeeps ==
  ASSUME NEW b, Good(b), NEW peer \in Peers, NEW a \in Addrs
  PROVE  Good(Add(b, peer, a))
  BY AddKeepsKnown, AddKeepsNew

-----------------------------------------------------------------------------
(* Learn() is its Add()s one after the other: the function it is defined   *)
(* by exists, and each of its values is a good book.  Both by the least    *)
(* number of reports they would fail for.                                  *)
Learning(g, b, pairs, m) ==
  g = [n \in 0 .. m |-> IF n = 0 THEN b ELSE Add(g[n - 1], pairs[n][1], pairs[n][2])]

LEMMA LeastNumber ==
  ASSUME NEW T \in SUBSET Nat, T # {}
  PROVE  \E n \in T : \A m \in T : n <= m
<1>1. PICK n \in T : \A m \in T : ~(<<m, n>> \in OpToRel(<, Nat))
  BY NatLessThanWellFounded, WFMin
<1>2. \A m \in T : ~(m < n)
  BY <1>1 DEF OpToRel
<1> QED BY <1>2

LEMMA LearningExists ==
  ASSUME NEW b, NEW pairs, NEW N \in Nat
  PROVE  \E g : Learning(g, b, pairs, N)
<1> DEFINE T == {m \in Nat : ~\E g : Learning(g, b, pairs, m)}
<1>1. SUFFICES ASSUME T # {} PROVE FALSE
  OBVIOUS
<1>2. PICK m \in T : \A k \in T : m <= k
  BY <1>1, LeastNumber
<1>3. m # 0
  <2> DEFINE g == [n \in 0 .. 0 |-> b]
  <2>1. Learning(g, b, pairs, 0)
    BY DEF Learning
  <2> QED BY <2>1
<1>4. m - 1 \in Nat /\ m - 1 \notin T
  BY <1>2, <1>3
<1>5. PICK g : Learning(g, b, pairs, m - 1)
  BY <1>4
<1> DEFINE h == [n \in 0 .. m |-> IF n = m THEN Add(g[m - 1], pairs[m][1], pairs[m][2]) ELSE g[n]]
<1>6. \A n \in 0 .. m :
        h[n] = IF n = 0 THEN b ELSE Add(h[n - 1], pairs[n][1], pairs[n][2])
  <2> TAKE n \in 0 .. m
  <2>1. \A k \in 0 .. m - 1 :
          g[k] = IF k = 0 THEN b ELSE Add(g[k - 1], pairs[k][1], pairs[k][2])
    BY <1>5 DEF Learning
  <2>2. CASE n = m
    <3>1. n - 1 \in 0 .. m /\ n - 1 # m /\ n # 0
      BY <2>2, <1>3
    <3>2. h[n - 1] = g[m - 1]
      BY <3>1, <2>2
    <3>3. h[n] = Add(g[m - 1], pairs[m][1], pairs[m][2])
      BY <2>2
    <3> QED BY <3>1, <3>2, <3>3, <2>2
  <2>3. CASE n # m
    <3>1. n \in 0 .. m - 1 /\ h[n] = g[n]
      BY <2>3
    <3>2. CASE n = 0
      BY <2>1, <3>1, <3>2
    <3>3. CASE n # 0
      <4>1. n - 1 \in 0 .. m /\ n - 1 # m
        BY <3>1, <3>3
      <4>2. h[n - 1] = g[n - 1]
        BY <4>1
      <4> HIDE DEF h
      <4> QED BY <4>2, <3>1, <3>3, <2>1
    <3> QED BY <3>2, <3>3
  <2> QED BY <2>2, <2>3
<1>7. h = [n \in 0 .. m |-> h[n]]
  OBVIOUS
<1> HIDE DEF h
<1>8. Learning(h, b, pairs, m)
  BY <1>6, <1>7 DEF Learning
<1> QED BY <1>8, <1>2

LEMMA LearnKeeps ==
  ASSUME NEW b, Good(b), NEW pairs \in Pairs
  PROVE  Good(Learn(b, pairs))
<1> DEFINE L == Len(pairs)
<1>1. L \in Nat /\ \A n \in 1 .. L : pairs[n][1] \in Peers /\ pairs[n][2] \in Addrs
  <2>1. PICK k \in 0 .. MaxReported : pairs \in [1 .. k -> Peers \X Addrs]
    BY DEF Pairs
  <2>2. k \in Nat
    BY <2>1, DiscoveryAssumption
  <2>3. Len(pairs) = k
    BY <2>1, <2>2
  <2> QED BY <2>1, <2>2, <2>3
<1> DEFINE g == CHOOSE f : Learning(f, b, pairs, L)
<1>2. Learn(b, pairs) = g[L]
  BY DEF Learn, Learning
<1>3. Learning(g, b, pairs, L)
  BY <1>1, LearningExists
<1> HIDE DEF g, L
<1>4. \A n \in 0 .. L : g[n] = IF n = 0 THEN b ELSE Add(g[n - 1], pairs[n][1], pairs[n][2])
  BY <1>3 DEF Learning
<1> DEFINE T == {n \in 0 .. L : ~Good(g[n])}
<1>5. T = {}
  <2>1. SUFFICES ASSUME T # {} PROVE FALSE
    OBVIOUS
  <2>2. PICK n \in T : \A k \in T : n <= k
    <3>1. T \in SUBSET Nat
      BY <1>1
    <3> QED BY <3>1, <2>1, LeastNumber
  <2>3. n \in 0 .. L /\ ~Good(g[n]) /\ \A k \in 0 .. L : ~Good(g[k]) => n <= k
    BY <2>2
  <2>4. n # 0
    BY <2>3, <1>4
  <2>5. n - 1 \in 0 .. L /\ n \in 1 .. L /\ ~(n <= n - 1)
    BY <2>3, <2>4, <1>1
  <2>6. Good(g[n - 1])
    BY <2>3, <2>5
  <2>7. g[n] = Add(g[n - 1], pairs[n][1], pairs[n][2])
    BY <1>4, <2>3, <2>4
  <2>8. Good(g[n])
    BY <2>5, <2>6, <2>7, <1>1, AddKeeps
  <2> QED BY <2>8, <2>3
<1>6. L \in 0 .. L
  BY <1>1
<1> QED BY <1>2, <1>5, <1>6

-----------------------------------------------------------------------------
(* The events of a query.  Emit() adds to a query that has not ended.      *)
Open == {<<>>, <<"peer">>}
Ended == {<<"last">>, <<"peer", "last">>}

Waiting(q) == q \in channel \cup bootstraps \cup walks \cup provider_queries

LEMMA EndsOnceIs ==
  EndsOnce <=> \A q \in Queries :
                 /\ asked[q] = "nothing" \/ Waiting(q) => events[q] \in Open
                 /\ ~(asked[q] = "nothing" \/ Waiting(q)) => events[q] \in Ended
  BY DEF EndsOnce, Waiting, Open, Ended

LEMMA AppendIs ==
  ASSUME NEW S, NEW s \in Seq(S), NEW y \in S, NEW t \in Seq(S),
         Len(t) = Len(s) + 1, t[Len(s) + 1] = y, \A i \in 1 .. Len(s) : t[i] = s[i]
  PROVE  Append(s, y) = t
<1> DEFINE u == Append(s, y)
<1>1. Len(s) \in Nat /\ u \in Seq(S) /\ Len(u) = Len(s) + 1 /\ u[Len(s) + 1] = y
      /\ \A i \in 1 .. Len(s) : u[i] = s[i]
  BY AppendProperties, LenProperties
<1> HIDE DEF u
<1>2. \A i \in 1 .. Len(s) + 1 : i \in 1 .. Len(s) \/ i = Len(s) + 1
  BY <1>1
<1>3. Len(u) = Len(t) /\ \A i \in 1 .. Len(u) : u[i] = t[i]
  BY <1>1, <1>2
<1>4. u = t
  BY <1>1, <1>3, SeqEqual
<1> QED BY <1>4 DEF u

LEMMA AppendToOne ==
  ASSUME NEW x, NEW y
  PROVE  Append(<<x>>, y) = <<x, y>>
<1> DEFINE s == <<x>>
           t == <<x, y>>
<1>1. s \in Seq({x, y}) /\ Len(s) = 1 /\ s[1] = x /\ y \in {x, y}
  OBVIOUS
<1>2. t \in Seq({x, y}) /\ Len(t) = 2 /\ t[1] = x /\ t[2] = y
  OBVIOUS
<1> HIDE DEF s, t
<1>3. Len(t) = Len(s) + 1 /\ t[Len(s) + 1] = y /\ \A i \in 1 .. Len(s) : t[i] = s[i]
  BY <1>1, <1>2
<1>4. s \in Seq({x, y}) /\ t \in Seq({x, y}) /\ y \in {x, y}
  BY <1>1, <1>2
<1>5. Append(s, y) = t
  BY <1>3, <1>4, AppendIs
<1> QED BY <1>5 DEF s, t

LEMMA EmitGives ==
  ASSUME QueryTypeOK, NEW q \in Queries, events[q] \in Open,
         NEW some \in BOOLEAN, NEW last \in BOOLEAN, Emit(q, some, last)
  PROVE  /\ events' \in [Queries -> Seq({"peer", "last"})]
         /\ last => events'[q] \in Ended
         /\ ~last => events'[q] \in Open
         /\ \A r \in Queries : r # q => events'[r] = events[r]
<1> DEFINE peers == IF some /\ (events[q] = <<>> \/ Last(events[q]) # "peer")
                    THEN Append(events[q], "peer") ELSE events[q]
           now == IF last THEN Append(peers, "last") ELSE peers
<1>1. events' = [events EXCEPT ![q] = now] /\ events \in [Queries -> Seq({"peer", "last"})]
  BY DEF Emit, QueryTypeOK
<1>2. peers \in Open
  <2>1. CASE events[q] = <<>>
    BY <2>1 DEF Open
  <2>2. CASE events[q] = <<"peer">>
    BY <2>2 DEF Open, Last
  <2> QED BY <2>1, <2>2 DEF Open
<1> HIDE DEF peers
<1>3. (last => now \in Ended) /\ (~last => now \in Open)
  <2>1. CASE peers = <<>>
    <3>1. Append(<<>>, "last") = <<"last">>
      OBVIOUS
    <3> QED BY <2>1, <3>1 DEF Open, Ended
  <2>2. CASE peers = <<"peer">>
    <3>1. Append(<<"peer">>, "last") = <<"peer", "last">>
      BY AppendToOne
    <3> QED BY <2>2, <3>1 DEF Open, Ended
  <2> QED BY <1>2, <2>1, <2>2 DEF Open
<1>4. Open \subseteq Seq({"peer", "last"}) /\ Ended \subseteq Seq({"peer", "last"})
  BY DEF Open, Ended
<1>5. now \in Seq({"peer", "last"})
  BY <1>3, <1>4
<1> HIDE DEF now
<1> QED BY <1>1, <1>3, <1>5

(* A step that leaves queries alone.                                       *)
LEMMA QueryUnchanged ==
  ASSUME QueryInv, UNCHANGED pending
  PROVE  QueryInv'
  BY DEF QueryInv, QueryTypeOK, Maps, EndsOnce, pending

LEMMA AskQuery ==
  ASSUME QueryInv, NEW q \in Queries, NEW kind \in Kinds, Ask(q, kind)
  PROVE  QueryInv'
<1> USE DEF QueryInv
<1>1. QueryTypeOK'
  BY DEF QueryTypeOK, Ask
<1>2. Maps'
  BY DEF QueryTypeOK, Maps, Ask, Kinds
<1>3. EndsOnce'
  BY EndsOnceIs DEF QueryTypeOK, EndsOnce, Ask, Kinds
<1> QED BY <1>1, <1>2, <1>3

LEMMA HandledQuery ==
  ASSUME QueryInv, NEW q \in Queries, Handled(q)
  PROVE  QueryInv'
<1> USE DEF QueryInv
<1>1. /\ q \in channel /\ channel' = channel \ {q} /\ UNCHANGED asked
      /\ events[q] \in Open
  BY EndsOnceIs DEF Handled, Bootstrap, RandomWalk, FindProviders, Take, Waiting
<1>2. CASE Bootstrap(q)
  <2>1. CASE routing # <<>>
    <3>1. QueryTypeOK' /\ Maps'
      BY <1>1, <1>2, <2>1 DEF QueryTypeOK, Maps, Bootstrap, Take
    <3>2. EndsOnce'
      BY <1>1, <1>2, <2>1 DEF QueryTypeOK, EndsOnce, Bootstrap, Take
    <3> QED BY <3>1, <3>2
  <2>2. CASE routing = <<>>
    <3>1. /\ events' \in [Queries -> Seq({"peer", "last"})]
          /\ events'[q] \in Ended
          /\ \A r \in Queries : r # q => events'[r] = events[r]
      BY <1>1, <1>2, <2>2, EmitGives DEF Bootstrap
    <3>2. QueryTypeOK' /\ Maps'
      BY <1>1, <1>2, <2>2, <3>1 DEF QueryTypeOK, Maps, Bootstrap, Take
    <3>3. EndsOnce'
      BY <1>1, <1>2, <2>2, <3>1 DEF QueryTypeOK, Maps, EndsOnce, Bootstrap, Take, Ended
    <3> QED BY <3>2, <3>3
  <2> QED BY <2>1, <2>2
<1>3. CASE RandomWalk(q)
  <2>1. QueryTypeOK' /\ Maps'
    BY <1>1, <1>3 DEF QueryTypeOK, Maps, RandomWalk, Take
  <2>2. EndsOnce'
    BY <1>1, <1>3 DEF QueryTypeOK, EndsOnce, RandomWalk, Take
  <2> QED BY <2>1, <2>2
<1>4. CASE FindProviders(q)
  <2>1. QueryTypeOK' /\ Maps'
    BY <1>1, <1>4 DEF QueryTypeOK, Maps, FindProviders, Take
  <2>2. EndsOnce'
    BY <1>1, <1>4 DEF QueryTypeOK, EndsOnce, FindProviders, Take
  <2> QED BY <2>1, <2>2
<1> QED BY <1>2, <1>3, <1>4 DEF Handled

LEMMA ProvidersQuery ==
  ASSUME QueryInv, NEW q \in Queries, NEW last \in BOOLEAN, NEW found \in SUBSET Peers,
         ProvidersReported(q, found, last)
  PROVE  QueryInv'
<1> USE DEF QueryInv
<1>1. q \in provider_queries /\ events[q] \in Open /\ q \notin channel
      /\ asked[q] = "providers" /\ q \notin walks /\ q \notin bootstraps
  BY EndsOnceIs DEF ProvidersReported, Waiting, Maps
<1>2. (found # {}) \in BOOLEAN /\ Emit(q, found # {}, last)
  BY DEF ProvidersReported
<1>3. /\ events' \in [Queries -> Seq({"peer", "last"})]
      /\ last => events'[q] \in Ended
      /\ ~last => events'[q] \in Open
      /\ \A r \in Queries : r # q => events'[r] = events[r]
  BY <1>1, <1>2, EmitGives
<1>4. QueryTypeOK' /\ Maps'
  BY <1>1, <1>3 DEF QueryTypeOK, Maps, ProvidersReported, Progress
<1>5. EndsOnce'
  BY <1>1, <1>3 DEF QueryTypeOK, EndsOnce, ProvidersReported, Progress, Ended, Open
<1> QED BY <1>4, <1>5

LEMMA ClosestQuery ==
  ASSUME QueryInv, NEW q \in Queries, NEW last \in BOOLEAN, NEW pairs \in Pairs,
         ClosestReported(q, pairs, last)
  PROVE  QueryInv'
<1> USE DEF QueryInv
<1>1. CASE q \notin walks
  <2>1. walks' = walks /\ UNCHANGED events
    BY <1>1 DEF ClosestReported
  <2>2. QueryTypeOK' /\ Maps'
    BY <2>1 DEF QueryTypeOK, Maps, ClosestReported, Progress
  <2>3. EndsOnce'
    BY <2>1 DEF QueryTypeOK, EndsOnce, ClosestReported
  <2> QED BY <2>2, <2>3
<1>2. CASE q \in walks
  <2>1. events[q] \in Open /\ q \notin channel
        /\ asked[q] = "walk" /\ q \notin provider_queries /\ q \notin bootstraps
    BY <1>2, EndsOnceIs DEF ClosestReported, Waiting, Maps
  <2>2. (pairs # <<>>) \in BOOLEAN /\ Emit(q, pairs # <<>>, TRUE)
    BY <1>2 DEF ClosestReported
  <2>3. /\ events' \in [Queries -> Seq({"peer", "last"})]
        /\ events'[q] \in Ended
        /\ \A r \in Queries : r # q => events'[r] = events[r]
    BY <2>1, <2>2, EmitGives
  <2>4. QueryTypeOK' /\ Maps'
    BY <2>1, <2>3 DEF QueryTypeOK, Maps, ClosestReported, Progress
  <2>5. EndsOnce'
    BY <2>1, <2>3 DEF QueryTypeOK, EndsOnce, ClosestReported, Ended, Open
  <2> QED BY <2>4, <2>5
<1> QED BY <1>1, <1>2

LEMMA BootstrapQuery ==
  ASSUME QueryInv, NEW q \in Queries, NEW last \in BOOLEAN, BootstrapReported(q, last)
  PROVE  QueryInv'
<1> USE DEF QueryInv
<1>1. CASE ~(last /\ q \in bootstraps)
  <2>1. UNCHANGED <<bootstraps, events>>
    BY <1>1 DEF BootstrapReported
  <2>2. QueryTypeOK' /\ Maps'
    BY <2>1 DEF QueryTypeOK, Maps, BootstrapReported, Progress
  <2>3. EndsOnce'
    BY <2>1 DEF QueryTypeOK, EndsOnce, BootstrapReported
  <2> QED BY <2>2, <2>3
<1>2. CASE last /\ q \in bootstraps
  <2>1. events[q] \in Open /\ q \notin channel
        /\ asked[q] = "bootstrap" /\ q \notin provider_queries /\ q \notin walks
    BY <1>2, EndsOnceIs DEF BootstrapReported, Waiting, Maps
  <2>2. Emit(q, FALSE, TRUE) /\ bootstraps' = bootstraps \ {q}
    BY <1>2 DEF BootstrapReported
  <2>3. /\ events' \in [Queries -> Seq({"peer", "last"})]
        /\ events'[q] \in Ended
        /\ \A r \in Queries : r # q => events'[r] = events[r]
    BY <2>1, <2>2, EmitGives
  <2>4. QueryTypeOK' /\ Maps'
    BY <2>1, <2>2, <2>3 DEF QueryTypeOK, Maps, BootstrapReported, Progress
  <2>5. EndsOnce'
    BY <2>1, <2>2, <2>3 DEF QueryTypeOK, EndsOnce, BootstrapReported, Ended, Open
  <2> QED BY <2>4, <2>5
<1> QED BY <1>1, <1>2

LEMMA ReportedQuery ==
  ASSUME QueryInv, NEW q \in Queries, NEW last \in BOOLEAN, Reported(q, last)
  PROVE  QueryInv'
  BY ProvidersQuery, ClosestQuery, BootstrapQuery DEF Reported

-----------------------------------------------------------------------------
(* The routing table.                                                      *)
LEMMA TableLength ==
  ASSUME NEW s \in Seq(Peers), IsInjective(s)
  PROVE  Len(s) \in Nat /\ Len(s) <= Cardinality(Peers) /\ Cardinality(Peers) \in Nat
<1>1. Len(s) \in Nat /\ s \in [1 .. Len(s) -> Peers]
  BY LenProperties
<1>2. s \in Injection(1 .. Len(s), Peers)
  BY <1>1 DEF Injection
<1>3. Cardinality(1 .. Len(s)) <= Cardinality(Peers)
  BY <1>2, FS_Injection, DiscoveryAssumption
<1>4. Cardinality(1 .. Len(s)) = Len(s)
  BY <1>1, FS_Interval
<1> QED BY <1>1, <1>3, <1>4, FS_CardinalityType, DiscoveryAssumption

LEMMA InsertKeeps ==
  ASSUME NEW s \in Seq(Peers), IsInjective(s), NEW e \in Peers, ~Contains(s, e),
         NEW at \in 1 .. Len(s) + 1
  PROVE  InsertAt(s, at, e) \in Seq(Peers) /\ IsInjective(InsertAt(s, at, e))
<1> DEFINE a == SubSeq(s, 1, at - 1)
           c == SubSeq(s, at, Len(s))
           t == InsertAt(s, at, e)
<1>1. Len(s) \in Nat /\ at \in Nat /\ at >= 1 /\ at <= Len(s) + 1
      /\ \A i \in 1 .. Len(s) : s[i] \in Peers
  BY LenProperties, ElementOfSeq
<1>2. a \in Seq(Peers) /\ Len(a) = at - 1 /\ \A i \in 1 .. at - 1 : a[i] = s[i]
  <2>1. \A i \in 1 .. at - 1 : s[i] \in Peers
    BY <1>1
  <2>2. /\ a \in Seq(Peers) /\ Len(a) = IF 1 <= at - 1 THEN (at - 1) - 1 + 1 ELSE 0
        /\ \A i \in 1 .. (at - 1) - 1 + 1 : a[i] = s[1 + i - 1]
    BY <1>1, <2>1, SubSeqProperties
  <2> QED BY <1>1, <2>2
<1>3. /\ c \in Seq(Peers) /\ Len(c) = Len(s) - at + 1
      /\ \A i \in 1 .. Len(s) - at + 1 : c[i] = s[at + i - 1]
  <2>1. \A i \in at .. Len(s) : s[i] \in Peers
    BY <1>1
  <2>2. /\ c \in Seq(Peers) /\ Len(c) = IF at <= Len(s) THEN Len(s) - at + 1 ELSE 0
        /\ \A i \in 1 .. Len(s) - at + 1 : c[i] = s[at + i - 1]
    BY <1>1, <2>1, SubSeqProperties
  <2> QED BY <1>1, <2>2
<1> DEFINE b == <<e>>
           ab == a \o b
<1>4. b \in Seq(Peers) /\ Len(b) = 1 /\ b[1] = e
  OBVIOUS
<1>5. t = ab \o c
  BY DEF InsertAt
<1> HIDE DEF a, b, c, t
<1>6. /\ ab \in Seq(Peers) /\ Len(ab) = at
      /\ \A i \in 1 .. at : ab[i] = IF i = at THEN e ELSE s[i]
  <2>1. /\ ab \in Seq(Peers) /\ Len(ab) = Len(a) + Len(b)
        /\ \A i \in 1 .. Len(a) + Len(b) : ab[i] = IF i <= Len(a) THEN a[i] ELSE b[i - Len(a)]
    BY <1>2, <1>4, ConcatProperties
  <2> HIDE DEF ab
  <2>2. Len(a) + Len(b) = at
    BY <1>1, <1>2, <1>4
  <2>3. ASSUME NEW i \in 1 .. at PROVE ab[i] = IF i = at THEN e ELSE s[i]
    <3>1. ab[i] = IF i <= at - 1 THEN a[i] ELSE b[i - (at - 1)]
      BY <2>1, <2>2, <1>2
    <3>2. CASE i = at
      <4>1. i - (at - 1) = 1 /\ ~(i <= at - 1)
        BY <3>2, <1>1
      <4> QED BY <4>1, <3>1, <3>2, <1>4
    <3>3. CASE i # at
      <4>1. i <= at - 1 /\ i \in 1 .. at - 1
        BY <3>3, <1>1
      <4> QED BY <4>1, <3>1, <3>3, <1>2
    <3> QED BY <3>2, <3>3
  <2> QED BY <2>1, <2>2, <2>3
<1> HIDE DEF ab
<1>7. /\ t \in Seq(Peers) /\ Len(t) = Len(s) + 1
      /\ \A i \in 1 .. Len(s) + 1 :
           t[i] = IF i = at THEN e ELSE IF i < at THEN s[i] ELSE s[i - 1]
  <2>1. /\ t \in Seq(Peers) /\ Len(t) = Len(ab) + Len(c)
        /\ \A i \in 1 .. Len(ab) + Len(c) : t[i] = IF i <= Len(ab) THEN ab[i] ELSE c[i - Len(ab)]
    BY <1>3, <1>5, <1>6, ConcatProperties
  <2>2. Len(ab) + Len(c) = Len(s) + 1
    BY <1>1, <1>3, <1>6
  <2>3. \A i \in 1 .. Len(s) + 1 : t[i] = IF i <= at THEN ab[i] ELSE c[i - at]
    BY <2>1, <2>2, <1>6
  <2>4. ASSUME NEW i \in 1 .. Len(s) + 1, i > at PROVE c[i - at] = s[i - 1]
    <3>1. i - at \in 1 .. Len(s) - at + 1 /\ at + (i - at) - 1 = i - 1
      BY <1>1, <2>4
    <3> QED BY <3>1, <1>3
  <2>5. ASSUME NEW i \in 1 .. Len(s) + 1
        PROVE  t[i] = IF i = at THEN e ELSE IF i < at THEN s[i] ELSE s[i - 1]
    <3>1. CASE i > at
      <4>1. ~(i <= at) /\ i # at /\ ~(i < at)
        BY <3>1, <1>1
      <4> QED BY <4>1, <3>1, <2>3, <2>4
    <3>2. CASE i <= at
      <4>1. i \in 1 .. at /\ (i # at => i < at)
        BY <3>2, <1>1
      <4> QED BY <4>1, <3>2, <2>3, <1>6
    <3>3. i > at \/ i <= at
      BY <1>1
    <3> QED BY <3>1, <3>2, <3>3
  <2> QED BY <2>1, <2>2, <2>5
<1>8. \A i \in 1 .. Len(s) : s[i] # e
  BY DEF Contains
<1>9. \A i, j \in 1 .. Len(s) : s[i] = s[j] => i = j
  BY InjectiveSeq
<1>10. ASSUME NEW i \in 1 .. Len(s) + 1, NEW j \in 1 .. Len(s) + 1, t[i] = t[j] PROVE i = j
  <2> DEFINE from(k) == IF k < at THEN k ELSE k - 1
  <2>1. ASSUME NEW k \in 1 .. Len(s) + 1, k # at
        PROVE  from(k) \in 1 .. Len(s) /\ t[k] = s[from(k)]
    <3>1. from(k) \in 1 .. Len(s)
      BY <2>1, <1>1
    <3>2. t[k] = s[from(k)]
      BY <2>1, <1>1, <1>7
    <3> QED BY <3>1, <3>2
  <2>2. t[at] = e
    BY <1>1, <1>7
  <2>3. CASE i = at \/ j = at
    BY <2>1, <2>2, <2>3, <1>8, <1>10
  <2>4. CASE i # at /\ j # at
    <3>1. from(i) \in 1 .. Len(s) /\ from(j) \in 1 .. Len(s) /\ s[from(i)] = s[from(j)]
      BY <2>1, <2>4, <1>10
    <3>2. from(i) = from(j)
      BY <3>1, <1>9
    <3> QED BY <3>2, <2>4, <1>1
  <2> QED BY <2>3, <2>4
<1> QED BY <1>7, <1>10, InjectiveSeq DEF t

LEMMA RemoveKeeps ==
  ASSUME NEW s \in Seq(Peers), IsInjective(s), NEW at \in 1 .. Len(s)
  PROVE  RemoveAt(s, at) \in Seq(Peers) /\ IsInjective(RemoveAt(s, at))
<1> DEFINE a == SubSeq(s, 1, at - 1)
           c == SubSeq(s, at + 1, Len(s))
           t == RemoveAt(s, at)
<1>1. Len(s) \in Nat /\ at \in Nat /\ at >= 1 /\ at <= Len(s)
      /\ \A i \in 1 .. Len(s) : s[i] \in Peers
  BY LenProperties, ElementOfSeq
<1>2. a \in Seq(Peers) /\ Len(a) = at - 1 /\ \A i \in 1 .. at - 1 : a[i] = s[i]
  <2>1. \A i \in 1 .. at - 1 : s[i] \in Peers
    BY <1>1
  <2>2. /\ a \in Seq(Peers) /\ Len(a) = IF 1 <= at - 1 THEN (at - 1) - 1 + 1 ELSE 0
        /\ \A i \in 1 .. (at - 1) - 1 + 1 : a[i] = s[1 + i - 1]
    BY <1>1, <2>1, SubSeqProperties
  <2> QED BY <1>1, <2>2
<1>3. /\ c \in Seq(Peers) /\ Len(c) = Len(s) - at
      /\ \A i \in 1 .. Len(s) - at : c[i] = s[at + i]
  <2>1. \A i \in at + 1 .. Len(s) : s[i] \in Peers
    BY <1>1
  <2>2. /\ c \in Seq(Peers)
        /\ Len(c) = IF at + 1 <= Len(s) THEN Len(s) - (at + 1) + 1 ELSE 0
        /\ \A i \in 1 .. Len(s) - (at + 1) + 1 : c[i] = s[(at + 1) + i - 1]
    BY <1>1, <2>1, SubSeqProperties
  <2> HIDE DEF c
  <2>3. Len(s) - (at + 1) + 1 = Len(s) - at
    BY <1>1
  <2>4. Len(c) = Len(s) - at
    <3>1. Len(c) = IF at + 1 <= Len(s) THEN Len(s) - (at + 1) + 1 ELSE 0
      BY <2>2
    <3>2. CASE at + 1 <= Len(s)
      BY <3>1, <3>2, <2>3
    <3>3. CASE ~(at + 1 <= Len(s))
      <4>1. Len(s) - at = 0
        BY <3>3, <1>1
      <4> QED BY <4>1, <3>1, <3>3
    <3> QED BY <3>2, <3>3
  <2>5. ASSUME NEW i \in 1 .. Len(s) - at PROVE c[i] = s[at + i]
    <3>1. (at + 1) + i - 1 = at + i
      BY <1>1
    <3> QED BY <3>1, <2>2, <2>3
  <2> QED BY <2>2, <2>4, <2>5
<1>4. t = a \o c
  BY DEF RemoveAt
<1> HIDE DEF a, c, t
<1>5. /\ t \in Seq(Peers) /\ Len(t) = Len(s) - 1
      /\ \A i \in 1 .. Len(s) - 1 : t[i] = IF i < at THEN s[i] ELSE s[i + 1]
  <2>1. /\ a \o c \in Seq(Peers) /\ Len(a \o c) = Len(a) + Len(c)
        /\ \A i \in 1 .. Len(a) + Len(c) :
             (a \o c)[i] = IF i <= Len(a) THEN a[i] ELSE c[i - Len(a)]
    BY <1>2, <1>3, ConcatProperties
  <2>2. Len(a) + Len(c) = Len(s) - 1
    BY <1>1, <1>2, <1>3
  <2>3. \A i \in 1 .. Len(s) - 1 : t[i] = IF i <= at - 1 THEN a[i] ELSE c[i - (at - 1)]
    BY <2>1, <2>2, <1>2, <1>4
  <2>4. ASSUME NEW i \in 1 .. Len(s) - 1, i >= at PROVE c[i - (at - 1)] = s[i + 1]
    <3>1. i - (at - 1) \in 1 .. Len(s) - at /\ at + (i - (at - 1)) = i + 1
      BY <1>1, <2>4
    <3> QED BY <3>1, <1>3
  <2>5. \A i \in 1 .. Len(s) - 1 : t[i] = IF i < at THEN s[i] ELSE s[i + 1]
    BY <2>3, <2>4, <1>1, <1>2
  <2> QED BY <2>1, <2>2, <2>5, <1>4
<1>6. \A i, j \in 1 .. Len(s) : s[i] = s[j] => i = j
  BY InjectiveSeq
<1>7. ASSUME NEW i \in 1 .. Len(s) - 1, NEW j \in 1 .. Len(s) - 1, t[i] = t[j] PROVE i = j
  <2> DEFINE from(k) == IF k < at THEN k ELSE k + 1
  <2>1. \A k \in 1 .. Len(s) - 1 : from(k) \in 1 .. Len(s) /\ t[k] = s[from(k)]
    BY <1>1, <1>5
  <2>2. from(i) = from(j)
    BY <2>1, <1>6, <1>7
  <2> QED BY <2>2, <1>1
<1> QED BY <1>5, <1>7, InjectiveSeq DEF t

LEMMA TableUnchanged ==
  ASSUME TableInv, UNCHANGED <<routing, sampling>>
  PROVE  TableInv'
  BY DEF TableInv, TableTypeOK, Recent, Started, sampling

(* A table that changes starts the rotation anew.                          *)
LEMMA NewTableKeeps ==
  ASSUME TableInv, NEW table \in Seq(Peers), IsInjective(table), NewTable(table)
  PROVE  TableInv'
<1>1. Cardinality(Peers) \in Nat
  BY FS_CardinalityType, DiscoveryAssumption
<1>2. TableTypeOK'
  BY <1>1 DEF TableInv, TableTypeOK, NewTable
<1>3. Recent'
  BY DEF NewTable, Recent
<1> QED BY <1>2, <1>3 DEF TableInv

LEMMA OffsetWraps ==
  ASSUME NEW o \in Nat, NEW n \in Nat, n > 0
  PROVE  /\ (o + 1) % n \in Nat /\ (o + 1) % n < n
         /\ o < n => (o + 1) % n = IF o + 1 = n THEN 0 ELSE o + 1
<1>1. (o + 1) % n \in Nat /\ (o + 1) % n < n
  OBVIOUS
<1>2. ASSUME o + 1 = n PROVE (o + 1) % n = 0
  <2>1. n % n = 0
    OBVIOUS
  <2> QED BY <2>1, <1>2
<1>3. ASSUME o + 1 < n PROVE (o + 1) % n = o + 1
  BY <1>3
<1> QED BY <1>1, <1>2, <1>3

(* A sample hands out the entry it starts at, and only entries of the      *)
(* table.                                                                  *)
LEMMA SampleHands ==
  ASSUME NEW table \in Seq(Peers), table # <<>>, NEW o \in 0 .. Len(table) - 1,
         NEW max \in Nat \ {0}
  PROVE  /\ table[o + 1] \in ToSet(Sample(table, o, max))
         /\ ToSet(Sample(table, o, max)) \subseteq ToSet(table)
<1> DEFINE n == Len(table)
           size == IF max <= n THEN max ELSE n
           handing == Sample(table, o, max)
<1>1. n \in Nat /\ n > 0 /\ o \in Nat /\ o < n
  BY LenProperties, EmptySeq
<1>2. size \in Nat /\ size > 0
  BY <1>1
<1>3. handing = [i \in 1 .. size |-> table[((o + i - 1) % n) + 1]]
  BY DEF Sample
<1> HIDE DEF size, handing
<1>4. DOMAIN handing = 1 .. size /\ \A i \in 1 .. size : handing[i] = table[((o + i - 1) % n) + 1]
  BY <1>3
<1>5. handing[1] = table[o + 1]
  <2>1. 1 \in 1 .. size /\ o + 1 - 1 = o
    BY <1>1, <1>2
  <2>2. o % n = o
    BY <1>1
  <2> QED BY <1>4, <2>1, <2>2
<1>6. ASSUME NEW i \in 1 .. size PROVE handing[i] \in ToSet(table)
  <2>1. o + i - 1 \in Nat
    BY <1>1, <1>2
  <2>2. (o + i - 1) % n \in 0 .. n - 1
    BY <1>1, <2>1
  <2>3. ((o + i - 1) % n) + 1 \in 1 .. n
    BY <1>1, <2>2
  <2> QED BY <2>3, <1>4, ElementsOf
<1>7. 1 \in DOMAIN handing
  BY <1>2, <1>4
<1> QED BY <1>4, <1>5, <1>6, <1>7 DEF ToSet, handing

(* The starts of the last t samples, but for the new one, are among those  *)
(* of the s samples before it.                                             *)
LEMMA WindowMoves ==
  ASSUME NEW L \in Nat, NEW o \in Nat, NEW k \in Nat, NEW p \in Nat, NEW s \in Nat, NEW t \in Nat,
         o < L, p < L, t <= s + 1, k = IF o + 1 = L THEN 0 ELSE o + 1, p # k,
         (p <= k /\ p > k - t) \/ p > k + L - t
  PROVE  (p <= o /\ p > o - s) \/ p > o + L - s
<1>1. CASE o + 1 = L
  BY <1>1
<1>2. CASE o + 1 # L
  BY <1>2
<1> QED BY <1>1, <1>2

LEMMA RoutingSampleTable ==
  ASSUME TableInv, NEW max \in 1 .. MaxSample, RoutingSample(max)
  PROVE  TableInv'
<1> DEFINE L == Len(routing)
           o == sample_offset
           k == sample_offset'
<1>1. /\ routing \in Seq(Peers) /\ IsInjective(routing) /\ routing # <<>>
      /\ o \in 0 .. Cardinality(Peers) /\ samples \in 0 .. Cardinality(Peers)
      /\ handed \in SUBSET ToSet(routing) /\ routing' = routing
      /\ k = (o + 1) % L
  BY DEF TableInv, TableTypeOK, RoutingSample, NextOffset
<1>2. L \in Nat /\ L > 0 /\ L <= Cardinality(Peers) /\ Cardinality(Peers) \in Nat
      /\ o \in Nat /\ samples \in Nat
  BY <1>1, TableLength, EmptySeq
<1>3. k \in Nat /\ k < L /\ (o < L => k = IF o + 1 = L THEN 0 ELSE o + 1)
  BY <1>1, <1>2, OffsetWraps
<1>4. /\ samples' \in Nat /\ samples' > 0 /\ samples' <= samples + 1
      /\ samples' <= Cardinality(Peers)
  BY <1>1, <1>2 DEF RoutingSample
<1>5. /\ handed' = handed \cup ToSet(Sample(routing, k, max))
      /\ routing[k + 1] \in ToSet(Sample(routing, k, max))
      /\ ToSet(Sample(routing, k, max)) \subseteq ToSet(routing)
  <2>1. k \in 0 .. Len(routing) - 1 /\ max \in Nat \ {0}
    BY <1>2, <1>3, DiscoveryAssumption
  <2>2. handed' = handed \cup ToSet(Sample(routing, k, max))
    BY DEF RoutingSample
  <2> HIDE DEF k
  <2> QED BY <2>1, <2>2, <1>1, SampleHands
<1>6. TableTypeOK'
  <2>1. sample_offset' \in 0 .. Cardinality(Peers) /\ samples' \in 0 .. Cardinality(Peers)
    BY <1>2, <1>3, <1>4
  <2>2. handed' \in SUBSET ToSet(routing)
    BY <1>1, <1>5
  <2> QED BY <2>1, <2>2, <1>1 DEF TableTypeOK
<1>7. Recent'
  <2>1. SUFFICES ASSUME NEW p \in 0 .. L - 1, Started(p)' PROVE routing[p + 1] \in handed'
    BY <1>1, <1>3 DEF Recent
  <2>2. (p <= k /\ p > k - samples') \/ p > k + L - samples'
    BY <2>1, <1>1 DEF Started
  <2>p. p \in Int /\ 0 <= p /\ p < L
    BY <1>2
  <2>3. CASE p = k
    BY <2>3, <1>5
  <2>4. CASE p # k
    <3>1. samples > 0
      <4>1. SUFFICES ASSUME samples = 0 PROVE FALSE
        BY <1>2
      <4>2. samples' = 1
        BY <4>1, <1>4
      <4> HIDE DEF L, k
      <4> QED BY <4>2, <2>2, <2>4, <2>p, <1>2, <1>3
    <3>2. o < L /\ (Started(p) => routing[p + 1] \in handed)
      BY <3>1 DEF TableInv, Recent
    <3>3. Started(p)
      <4>1. k = IF o + 1 = L THEN 0 ELSE o + 1
        BY <3>2, <1>3
      <4>2. (p <= o /\ p > o - samples) \/ p > o + L - samples
        <5>1. o < L /\ p < L /\ p \in Nat /\ k \in Nat
          BY <3>2, <2>p, <1>3
        <5> HIDE DEF L, k, o
        <5> QED BY <5>1, <4>1, <2>2, <2>4, <1>2, <1>4, WindowMoves
      <4> QED BY <4>2 DEF Started
    <3> QED BY <3>2, <3>3, <1>5
  <2> QED BY <2>3, <2>4
<1> QED BY <1>6, <1>7 DEF TableInv

-----------------------------------------------------------------------------
LEMMA DiscoveryInit ==
  ASSUME Init
  PROVE  IInv
<1>1. Cardinality(Peers) \in Nat
  BY FS_CardinalityType, DiscoveryAssumption
<1>2. QueryInv
  <2>1. <<>> \in Seq({"peer", "last"})
    BY EmptySeq
  <2>2. QueryTypeOK
    BY <2>1 DEF Init, QueryTypeOK
  <2>3. Maps /\ EndsOnce
    BY DEF Init, Maps, EndsOnce
  <2> QED BY <2>2, <2>3 DEF QueryInv
<1>3. TableInv
  <2>1. routing \in Seq(Peers) /\ IsInjective(routing)
    BY EmptySeq DEF Init, IsInjective
  <2>2. TableTypeOK
    BY <1>1, <2>1 DEF Init, TableTypeOK
  <2>3. Recent
    BY DEF Init, Recent
  <2> QED BY <2>2, <2>3 DEF TableInv
<1>4. BookInv
  BY EmptyBookGood DEF Init, BookInv, Good
<1> QED BY <1>2, <1>3, <1>4 DEF IInv

LEMMA DiscoveryStep ==
  ASSUME IInv, [Next]_vars
  PROVE  IInv'
<1> USE DEF IInv
<1>0. BookInv => Good(book)
  BY DEF BookInv, Good
<1>b. ASSUME NEW pairs \in Pairs, book' = Learn(book, pairs) PROVE BookInv'
  <2>1. Good(Learn(book, pairs))
    BY <1>0, <1>b, LearnKeeps
  <2> QED BY <2>1, <1>b DEF BookInv, Good
<1>c. ASSUME UNCHANGED book PROVE BookInv'
  BY <1>c DEF BookInv
<1>1. ASSUME NEW q \in Queries, NEW kind \in Kinds, Ask(q, kind) PROVE IInv'
  <2>1. QueryInv'
    BY <1>1, AskQuery
  <2>2. TableInv'
    BY <1>1, TableUnchanged DEF Ask
  <2>3. BookInv'
    BY <1>1, <1>c DEF Ask
  <2> QED BY <2>1, <2>2, <2>3
<1>2. ASSUME NEW q \in Queries, Handled(q) PROVE IInv'
  <2>1. QueryInv'
    BY <1>2, HandledQuery
  <2>2. UNCHANGED <<book, routing, sampling>>
    BY <1>2 DEF Handled, Bootstrap, RandomWalk, FindProviders
  <2>3. TableInv'
    BY <2>2, TableUnchanged
  <2>4. BookInv'
    BY <2>2, <1>c
  <2> QED BY <2>1, <2>3, <2>4
<1>3. ASSUME NEW q \in Queries, NEW last \in BOOLEAN, Reported(q, last) PROVE IInv'
  <2>1. QueryInv'
    BY <1>3, ReportedQuery
  <2>2. UNCHANGED <<routing, sampling>>
    BY <1>3 DEF Reported, ProvidersReported, ClosestReported, BootstrapReported
  <2>3. TableInv'
    BY <2>2, TableUnchanged
  <2>4. BookInv'
    BY <1>3, <1>b, <1>c DEF Reported, ProvidersReported, ClosestReported, BootstrapReported
  <2> QED BY <2>1, <2>3, <2>4
<1>4. ASSUME NEW pairs \in Pairs, Learned(pairs) PROVE IInv'
  <2>1. QueryInv'
    BY <1>4, QueryUnchanged DEF Learned
  <2>2. TableInv'
    BY <1>4, TableUnchanged DEF Learned
  <2>3. BookInv'
    BY <1>4, <1>b DEF Learned
  <2> QED BY <2>1, <2>2, <2>3
<1>5. ASSUME NEW peer \in Peers, NEW pairs \in Pairs, NEW at \in 1 .. Len(routing) + 1,
             RoutingUpdated(peer, pairs, at)
      PROVE  IInv'
  <2>1. BookInv'
    BY <1>5, <1>b DEF RoutingUpdated
  <2>2. QueryInv'
    <3>1. UNCHANGED pending
      BY <1>5 DEF RoutingUpdated, NewTable
    <3> QED BY <3>1, QueryUnchanged
  <2>3. CASE Contains(routing, peer)
    <3>1. TableInv'
      BY <1>5, <2>3, TableUnchanged DEF RoutingUpdated
    <3> QED BY <3>1, <2>1, <2>2
  <2>4. CASE ~Contains(routing, peer)
    <3>1. InsertAt(routing, at, peer) \in Seq(Peers) /\ IsInjective(InsertAt(routing, at, peer))
      BY <2>4, InsertKeeps DEF TableInv, TableTypeOK
    <3>2. NewTable(InsertAt(routing, at, peer))
      BY <1>5, <2>4 DEF RoutingUpdated
    <3>3. TableInv'
      BY <3>1, <3>2, NewTableKeeps
    <3> QED BY <3>3, <2>1, <2>2
  <2> QED BY <2>3, <2>4
<1>6. ASSUME NEW at \in 1 .. Len(routing), RoutingDropped(at) PROVE IInv'
  <2>1. RemoveAt(routing, at) \in Seq(Peers) /\ IsInjective(RemoveAt(routing, at))
    BY RemoveKeeps DEF TableInv, TableTypeOK
  <2>2. NewTable(RemoveAt(routing, at)) /\ UNCHANGED <<book, pending>>
    BY <1>6 DEF RoutingDropped, NewTable
  <2>3. TableInv'
    BY <2>1, <2>2, NewTableKeeps
  <2>4. QueryInv'
    BY <2>2, QueryUnchanged
  <2>5. BookInv'
    BY <2>2, <1>c
  <2> QED BY <2>3, <2>4, <2>5
<1>7. ASSUME NEW max \in 1 .. MaxSample, RoutingSample(max) PROVE IInv'
  <2>1. TableInv'
    BY <1>7, RoutingSampleTable
  <2>2. UNCHANGED <<book, pending>>
    BY <1>7 DEF RoutingSample
  <2>3. QueryInv'
    BY <2>2, QueryUnchanged
  <2>4. BookInv'
    BY <2>2, <1>c
  <2> QED BY <2>1, <2>3, <2>4
<1>8. CASE UNCHANGED vars
  <2>1. UNCHANGED <<routing, sampling>> /\ UNCHANGED pending /\ UNCHANGED book
    BY <1>8 DEF vars
  <2> QED BY <2>1, <1>c, TableUnchanged, QueryUnchanged
<1> QED BY <1>1, <1>2, <1>3, <1>4, <1>5, <1>6, <1>7, <1>8 DEF Next

(* The inductive invariant holds in every state: node.rs, kad_event() and  *)
(* the commands it answers, address_book.rs.                               *)
THEOREM DiscoveryInvariant == Spec => []IInv
<1>1. Init => IInv
  BY DiscoveryInit
<1>2. IInv /\ [Next]_vars => IInv'
  BY DiscoveryStep
<1> QED BY <1>1, <1>2, PTL DEF Spec

(* The state has its types: the routing table names a peer once, and what  *)
(* a sample hands out comes from it.                                       *)
THEOREM DiscoveryTypeCorrect == Spec => []TypeOK
<1>1. IInv => TypeOK
  <2>1. SUFFICES ASSUME IInv PROVE TypeOK
    OBVIOUS
  <2>2. Known(book) \in SUBSET Peers
    BY <2>1, BookTypes DEF IInv, BookInv
  <2>3. ToSet(routing) \subseteq Peers
    BY <2>1, ElementsOf, ElementOfSeq DEF IInv, TableInv, TableTypeOK
  <2> QED BY <2>1, <2>2, <2>3 DEF IInv, QueryInv, TableInv, QueryTypeOK, TableTypeOK, TypeOK
<1> QED BY <1>1, DiscoveryInvariant, PTL

(* The address book never forgets a peer in the map and keeps it in the    *)
(* order, or the other way round: AddressBook::add() on a full book always *)
(* finds the oldest peer, for any capacities and any reports.              *)
THEOREM BookIsConsistent == Spec => []BookAgrees
<1>1. IInv => BookAgrees
  BY DEF IInv, BookInv, Agrees, BookAgrees
<1> QED BY <1>1, DiscoveryInvariant, PTL

(* A query of the caller ends with one LP2P_EVF_LAST record, and nothing   *)
(* is reported under its id afterwards: kad_event() takes the id out of    *)
(* the map with the record that ends it.                                   *)
THEOREM QueriesEndOnce == Spec => []EndsOnce
<1>1. IInv => EndsOnce
  BY DEF IInv, QueryInv
<1> QED BY <1>1, DiscoveryInvariant, PTL

(* As many routing_sample()s as the table has entries hand out all of      *)
(* them, for any table and any sizes asked for.                            *)
THEOREM SamplesRotate == Spec => []SampleRotates
<1>1. IInv => SampleRotates
  <2>1. SUFFICES ASSUME IInv, samples >= Len(routing) PROVE handed = ToSet(routing)
    BY DEF SampleRotates
  <2>2. /\ routing \in Seq(Peers) /\ handed \subseteq ToSet(routing) /\ Recent
        /\ Len(routing) \in Nat /\ Cardinality(Peers) \in Nat
        /\ sample_offset \in 0 .. Cardinality(Peers) /\ samples \in 0 .. Cardinality(Peers)
    BY <2>1, TableLength DEF IInv, TableInv, TableTypeOK
  <2>3. ASSUME NEW i \in 1 .. Len(routing) PROVE routing[i] \in handed
    <3>1. samples > 0 /\ i - 1 \in 0 .. Len(routing) - 1 /\ (i - 1) + 1 = i
      BY <2>1, <2>2
    <3>2. Started(i - 1)
      <4> DEFINE L == Len(routing)
      <4>1. /\ i \in Int /\ 1 <= i /\ i <= L /\ L \in Int
            /\ samples \in Int /\ sample_offset \in Int /\ samples >= L
            /\ sample_offset < L
        BY <2>1, <2>2, <3>1 DEF Recent
      <4> HIDE DEF L
      <4>2. \/ i - 1 <= sample_offset /\ i - 1 > sample_offset - samples
            \/ i - 1 > sample_offset + L - samples
        BY <4>1
      <4> QED BY <4>2 DEF Started, L
    <3> QED BY <2>2, <3>1, <3>2 DEF Recent
  <2>4. ToSet(routing) \subseteq handed
    BY <2>2, <2>3, ElementsOf
  <2> QED BY <2>2, <2>4
<1> QED BY <1>1, DiscoveryInvariant, PTL
=============================================================================
