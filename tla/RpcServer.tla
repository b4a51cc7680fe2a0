----------------------------- MODULE RpcServer ------------------------------
(***************************************************************************)
(* The answering side of an RPC: inbound_request() of src/src/node.rs, the *)
(* commands Respond and Reject, and what libp2p reports of the request's   *)
(* stream; with the limits every request and every published message       *)
(* passes first.                                                           *)
(*                                                                         *)
(* A request stands for its libp2p request id and for the id the node      *)
(* gives it.  Commands are taken in any order here, which includes the     *)
(* order of the channel.                                                   *)
(***************************************************************************)
EXTENDS Limits

CONSTANTS
  Requests,      \* inbound requests
  RequestInputs  \* what requests and published messages look like

ASSUME ServerAssumption == RequestInputs \subseteq Request

VARIABLES
  inbound,      \* State::inbound: requests whose response channel is held
  inbound_ids,  \* State::inbound_ids
  stream,       \* libp2p's side: "new", "open", "ended" (event queued), "over"
  told,         \* requests whose LP2P_EV_RPC_REQUEST reached the caller
  commands,     \* Respond and Reject commands in the channel
  answered      \* history: how many responses libp2p was given to send

server == <<inbound, inbound_ids, stream, told, commands, answered>>
vars == <<limits, server>>

Init ==
  /\ InitLimits
  /\ inbound = {} /\ inbound_ids = {} /\ told = {} /\ commands = {}
  /\ stream = [r \in Requests |-> "new"]
  /\ answered = [r \in Requests |-> 0]

-----------------------------------------------------------------------------
\* mutant: the channel is stored before the request is validated
DropChannelStored(r) ==
  /\ stream' = [stream EXCEPT ![r] = "open"]
  /\ inbound' = inbound \cup {r}
  /\ UNCHANGED <<inbound_ids, told, commands, answered>>

(* Every early return drops the channel, which ends the stream.            *)
DropChannel(r) ==
  /\ stream' = [stream EXCEPT ![r] = "ended"]
  /\ UNCHANGED <<inbound, inbound_ids, told, commands, answered>>

(* The frame, the delegation or the protocol is not valid.                 *)
InboundInvalid(r) ==
  /\ stream[r] = "new"
  /\ DropChannel(r)
  /\ UNCHANGED limits

InboundRefused(r, request) ==
  /\ stream[r] = "new"
  /\ Refused(request)
  /\ DropChannel(r)

(* The event may be dropped by a full event queue; the channel is kept     *)
(* all the same.                                                           *)
InboundRequest(r, request, queued) ==
  /\ stream[r] = "new"
  /\ Admitted(request)
  /\ told' = IF queued THEN told \cup {r} ELSE told
  /\ inbound' = inbound \cup {r}
  /\ inbound_ids' = inbound_ids \cup {r}
  /\ stream' = [stream EXCEPT ![r] = "open"]
  /\ UNCHANGED <<commands, answered>>

(* lp2p_rpc_respond() and lp2p_rpc_reject(): a caller answers a request it *)
(* was told of, any number of times.                                       *)
Send(kind, r) ==
  /\ r \in told
  /\ commands' = commands \cup {<<kind, r>>}
  /\ UNCHANGED <<limits, inbound, inbound_ids, stream, told, answered>>

(* Command::Respond.  When the stream has ended already send_response      *)
(* fails, "there is nobody left to tell".                                  *)
Respond(r) ==
  /\ <<"respond", r>> \in commands
  /\ commands' = commands \ {<<"respond", r>>}
  /\ inbound' = inbound \ {r}
  /\ IF r \in inbound /\ stream[r] = "open"
     THEN /\ answered' = [answered EXCEPT ![r] = @ + 1]
          /\ stream' = [stream EXCEPT ![r] = "ended"]
     ELSE UNCHANGED <<answered, stream>>
  /\ UNCHANGED <<limits, inbound_ids, told>>

(* Command::Reject drops the channel.                                      *)
Reject(r) ==
  /\ <<"reject", r>> \in commands
  /\ commands' = commands \ {<<"reject", r>>}
  /\ inbound' = inbound \ {r}
  /\ stream' = IF r \in inbound /\ stream[r] = "open" THEN [stream EXCEPT ![r] = "ended"]
               ELSE stream
  /\ UNCHANGED <<limits, inbound_ids, told, answered>>

(* The requester goes away or libp2p's request timeout passes.             *)
StreamEnds(r) ==
  /\ stream[r] = "open"
  /\ stream' = [stream EXCEPT ![r] = "ended"]
  /\ UNCHANGED <<limits, inbound, inbound_ids, told, commands, answered>>

\* mutant: only the id is forgotten, the channel stays
StreamOverKeeping(r) ==
  /\ stream[r] = "ended"
  /\ stream' = [stream EXCEPT ![r] = "over"]
  /\ inbound_ids' = inbound_ids \ {r}
  /\ UNCHANGED <<limits, inbound, told, commands, answered>>

(* rpc_event(): InboundFailure or ResponseSent.                            *)
StreamOver(r) ==
  /\ stream[r] = "ended"
  /\ stream' = [stream EXCEPT ![r] = "over"]
  /\ inbound_ids' = inbound_ids \ {r}
  /\ inbound' = IF r \in inbound_ids THEN inbound \ {r} ELSE inbound
  /\ UNCHANGED <<limits, told, commands, answered>>

(* topic_message(): a published message passes the same limits.            *)
TopicMessage(request) ==
  /\ Admitted(request) \/ Refused(request)
  /\ UNCHANGED server

-----------------------------------------------------------------------------
LimitsStep ==
  \/ Sweep \/ TimePasses
  \/ \E g \in Groups, class \in Classes : SetClass(g, class)
  \/ \E id \in RuleIds : (\E rate \in Rates : SetLimit(id, rate)) \/ RemoveLimit(id)

RequestStep(r) ==
  \/ InboundInvalid(r)
  \/ \E request \in RequestInputs : InboundRefused(r, request)
  \/ \E request \in RequestInputs, queued \in BOOLEAN : InboundRequest(r, request, queued)
  \/ \E kind \in {"respond", "reject"} : Send(kind, r)
  \/ Respond(r) \/ Reject(r)
  \/ StreamEnds(r) \/ StreamOver(r)

Next ==
  \/ \E r \in Requests : RequestStep(r)
  \/ \E request \in RequestInputs : TopicMessage(request)
  \/ LimitsStep /\ UNCHANGED server

Spec == Init /\ [][Next]_vars

(* libp2p ends every inbound stream (its request timeout) and reports it.  *)
Fairness == \A r \in Requests : WF_vars(StreamEnds(r)) /\ WF_vars(StreamOver(r))

FairSpec == Spec /\ Fairness

-----------------------------------------------------------------------------
TypeOK ==
  /\ LimitsTypeOK
  /\ inbound \in SUBSET Requests /\ inbound_ids \in SUBSET Requests
  /\ told \in SUBSET Requests
  /\ stream \in [Requests -> {"new", "open", "ended", "over"}]
  /\ commands \in SUBSET ({"respond", "reject"} \X Requests)
  /\ answered \in [Requests -> Nat]

(* "an id that is unknown or already answered is dropped": however often   *)
(* respond and reject are called, and however they race the end of the     *)
(* stream, libp2p is given at most one response, and only for a request    *)
(* the caller was told of.                                                 *)
AnsweredOnce == \A r \in Requests : answered[r] <= IF r \in told THEN 1 ELSE 0

(* The two maps follow the streams.  A requester is kept waiting only      *)
(* while the node can still answer it ("Every early return drops the       *)
(* channel, which is a rejection"), and no channel and no id outlives its  *)
(* stream, also when the request was answered, rejected or its event was   *)
(* dropped.                                                                *)
ChannelsMatch ==
  /\ inbound \subseteq inbound_ids
  /\ \A r \in Requests :
       /\ stream[r] = "open" => r \in inbound
       /\ stream[r] = "over" => r \notin inbound_ids

(* A request whose event the caller never saw is not held forever.         *)
RequestsEnd == \A r \in Requests : r \in inbound ~> (r \notin inbound /\ r \notin inbound_ids)
=============================================================================
