----------------------------- MODULE AddressBook -----------------------------
(***************************************************************************)
(* The address book of src/src/address_book.rs: for at most MaxPeers peers *)
(* the addresses learned last, at most MaxAddresses of each.  A book is a  *)
(* function from the peers it knows to their addresses, and the peers in   *)
(* the order they came.                                                    *)
(***************************************************************************)
EXTENDS Naturals, FiniteSets, SequencesExt

CONSTANTS
  MaxPeers,     \* MAX_PEERS
  MaxAddresses  \* MAX_ADDRESSES_PER_PEER

ASSUME BookAssumption == MaxPeers \in Nat \ {0} /\ MaxAddresses \in Nat \ {0}

EmptyBook == [addresses |-> [p \in {} |-> <<>>], order |-> <<>>]

Known(book) == DOMAIN book.addresses

(* One more address of a peer: the oldest of a full list goes.             *)
AddTo(list, address) ==
  IF Contains(list, address) THEN list
  ELSE Append(IF Len(list) = MaxAddresses THEN Tail(list) ELSE list, address)

\* mutant: the forgotten peer keeps its place in the order
AddForgetful(book, peer, address) ==
  IF peer \in Known(book)
  THEN [book EXCEPT !.addresses[peer] = AddTo(@, address)]
  ELSE LET kept == IF Cardinality(Known(book)) = MaxPeers
                   THEN Known(book) \ {Head(book.order)} ELSE Known(book)
       IN  [addresses |-> [p \in kept \cup {peer} |->
                             IF p = peer THEN <<address>> ELSE book.addresses[p]],
            order |-> Append(book.order, peer)]

(* add(): a new peer takes the place of the oldest one when the book is    *)
(* full.                                                                   *)
Add(book, peer, address) ==
  LET full  == Cardinality(Known(book)) = MaxPeers
      kept  == IF full THEN Known(book) \ {Head(book.order)} ELSE Known(book)
      order == IF full THEN Tail(book.order) ELSE book.order
  IN  IF peer \in Known(book)
      THEN [book EXCEPT !.addresses[peer] = AddTo(@, address)]
      ELSE [addresses |-> [p \in kept \cup {peer} |->
                             IF p = peer THEN <<address>> ELSE book.addresses[p]],
            order |-> Append(order, peer)]

(* The addresses of several peers, one after the other.                    *)
Learn(book, pairs) ==
  LET learned[n \in 0 .. Len(pairs)] ==
        IF n = 0 THEN book ELSE Add(learned[n - 1], pairs[n][1], pairs[n][2])
  IN  learned[Len(pairs)]
=============================================================================
