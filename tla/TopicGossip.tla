----------------------------- MODULE TopicGossip ----------------------------
(***************************************************************************)
(* Topics, with the messages gossipsub hands to the node thread.  Between  *)
(* the moment gossipsub accepts a message of a topic and the moment        *)
(* gossipsub_event() of src/src/node.rs takes it, commands are handled.    *)
(*                                                                         *)
(* Bound: MaxGossip messages queued for the node thread.                   *)
(***************************************************************************)
EXTENDS Topics

CONSTANTS
  AnnounceTopic,  \* the gossipsub topic of announcements
  MaxGossip

VARIABLE
  gossip  \* topics of the messages gossipsub queued for the node thread

(* gossipsub receives a message of a topic it is subscribed to and queues  *)
(* it for the node thread.                                                 *)
GossipArrives(t) ==
  /\ t \in topics \cup {AnnounceTopic}
  /\ Len(gossip) < MaxGossip
  /\ gossip' = Append(gossip, t)
  /\ UNCHANGED vars

(* The event gossipsub_event() reports a valid message of topic t as; an   *)
(* invalid, oversized or limited message is not reported.                  *)
Reported(t) == IF t \in topics THEN "topic_message" ELSE "announcement"

GossipHandled ==
  /\ gossip # <<>>
  /\ gossip' = Tail(gossip)
  /\ UNCHANGED vars

GossipNext ==
  \/ Next /\ UNCHANGED gossip
  \/ \E t \in Keys \cup {AnnounceTopic} : GossipArrives(t)
  \/ GossipHandled

GossipSpec == Init /\ gossip = <<>> /\ [][GossipNext]_<<vars, gossip>>

-----------------------------------------------------------------------------
(* LP2P_EV_ANNOUNCEMENT reports what a node announces and nothing else: no *)
(* message the node thread handles next is reported as one unless it came  *)
(* by the announcements' topic.                                            *)
AnnouncementsOnly ==
  (gossip # <<>> /\ Reported(Head(gossip)) = "announcement") => Head(gossip) = AnnounceTopic
=============================================================================
