---------------------------- MODULE EventStream ----------------------------
(***************************************************************************)
(* What lp2p_poll promises of the node's events, without how: the callers  *)
(* together get them in order and none twice, are told of every loss before*)
(* they get an event from after it, and read the status of a closed queue  *)
(* only when they have got or were told of everything.  EventQueue         *)
(* implements it.                                                          *)
(***************************************************************************)
EXTENDS Integers

VARIABLES
  made,  \* events the node has made
  got,   \* events the callers got
  last,  \* which event they got last
  told,  \* losses they were told of
  phase  \* "open", "closed" by the node, "ended" once a caller was told so

stream == <<made, got, last, told, phase>>

Init == made = 0 /\ got = 0 /\ last = 0 /\ told = 0 /\ phase = "open"

Make ==
  /\ phase = "open"
  /\ made' = made + 1
  /\ UNCHANGED <<got, last, told, phase>>

Close ==
  /\ phase = "open"
  /\ phase' = "closed"
  /\ UNCHANGED <<made, got, last, told>>

(* A poll hands out events, the report of losses, or both.                 *)
Give ==
  /\ got' + told' \in got + told + 1 .. made
  /\ got' >= got /\ told' >= told
  /\ IF got' = got THEN last' = last ELSE last' \in last + (got' - got) .. made
  /\ last' - got' <= told'
  /\ UNCHANGED <<made, phase>>

End ==
  /\ phase = "closed"
  /\ got + told = made
  /\ phase' = "ended"
  /\ UNCHANGED <<made, got, last, told>>

Next == Make \/ Close \/ Give \/ End

Spec == Init /\ [][Next]_stream
=============================================================================
