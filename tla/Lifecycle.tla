----------------------------- MODULE Lifecycle ------------------------------
(***************************************************************************)
(* A node from lp2p_start to lp2p_shutdown: Node of src/src/node.rs, the   *)
(* thread that runs run_thread(), the command channel between them and the *)
(* calls that wait for an answer (lp2p_topic_peers, lp2p_routing_sample).  *)
(*                                                                         *)
(* Callers keep the contract of the header: the handle is used after       *)
(* lp2p_start answered it, and nobody is in a call when lp2p_shutdown      *)
(* begins.                                                                 *)
(*                                                                         *)
(* Bound: MaxCommands commands in the channel, unbounded in the code.      *)
(***************************************************************************)
EXTENDS Naturals, Sequences

CONSTANTS
  Callers,     \* threads that call the interface
  MaxCommands

ASSUME LifecycleAssumption == MaxCommands \in Nat \ {0}

VARIABLES
  starter,    \* lp2p_start: "idle", "waiting" (ready_rx.recv), "joining", "returned"
  started,    \* what it answers
  ready,      \* the ready channel
  thread,     \* run_thread: where it is
  addressed,  \* every listener reported an address await_listeners takes
  waited,     \* LISTEN_READY_TIMEOUT has passed
  receiver,   \* the command channel's receiver exists
  commands,   \* the command channel
  poisoned,   \* Shared::poisoned
  closed,     \* the status Shared::events is closed with, or "open"
  pc,         \* callers: "idle", "sending" (past the poisoned check), "waiting"
  answer,     \* callers: what the last call answered
  reply,      \* callers: the reply channel: "none", "pending", "sent", "dropped"
  stopper,    \* lp2p_shutdown: "idle", "joining", "returned"
  lost        \* history: commands that were accepted and dropped unhandled

starting == <<starter, started, ready>>
listening == <<addressed, waited>>
channel == <<receiver, commands, lost>>
shared == <<poisoned, closed>>
calling == <<pc, answer, reply>>
vars == <<starting, thread, listening, channel, shared, calling, stopper>>

Failures == {"no_memory", "network", "invalid_argument"}
Statuses == Failures \cup {"ok", "panic"}
Answers == {"none", "ok", "panic", "shut_down"}
Kinds == {"command", "query"}

Init ==
  /\ starter = "idle" /\ started = "ok" /\ ready = <<>>
  /\ thread = "none"
  /\ addressed = FALSE /\ waited = FALSE
  /\ receiver = TRUE /\ commands = <<>> /\ lost = {}
  /\ poisoned = FALSE /\ closed = "open"
  /\ pc = [c \in Callers |-> "idle"]
  /\ answer = [c \in Callers |-> "none"]
  /\ reply = [c \in Callers |-> "none"]
  /\ stopper = "idle"

-----------------------------------------------------------------------------
(* lp2p_start                                                              *)

(* The options, the key or the delegation is refused, or no thread can be  *)
(* spawned.                                                                *)
StartRefused(status) ==
  /\ starter = "idle"
  /\ starter' = "returned"
  /\ started' = status
  /\ UNCHANGED <<ready, thread, listening, channel, shared, calling, stopper>>

Start ==
  /\ starter = "idle"
  /\ starter' = "waiting"
  /\ thread' = "building"
  /\ UNCHANGED <<started, ready, listening, channel, shared, calling, stopper>>

\* mutant: start answers what the event queue was closed with
StartStatusOfQueue == IF ready # <<>> THEN closed ELSE "panic"

(* What recv() brings; a thread that ends without a word has panicked.     *)
StartStatus == IF ready # <<>> THEN Head(ready) ELSE "panic"

StartHears ==
  /\ starter = "waiting"
  /\ ready # <<>> \/ thread = "exited"
  /\ started' = StartStatus
  /\ starter' = IF StartStatus = "ok" THEN "returned" ELSE "joining"
  /\ UNCHANGED <<ready, thread, listening, channel, shared, calling, stopper>>

StartJoins ==
  /\ starter = "joining"
  /\ thread = "exited"
  /\ starter' = "returned"
  /\ UNCHANGED <<started, ready, thread, listening, channel, shared, calling, stopper>>

-----------------------------------------------------------------------------
(* The node thread: run_thread().                                          *)

\* mutant: the queued commands, and the replies they hold, outlive the receiver
DropReceiverKeeping(left) ==
  /\ receiver' = FALSE
  /\ UNCHANGED <<commands, lost, reply>>

(* The receiver goes and takes the queued commands with it: whoever waits  *)
(* for a reply of one sees it hang up.                                     *)
DropReceiver(left) ==
  /\ receiver' = FALSE
  /\ commands' = <<>>
  /\ lost' = lost \cup {left[i].kind : i \in 1 .. Len(left)}
  /\ reply' = [c \in Callers |->
                 IF \E i \in 1 .. Len(left) : left[i] = [kind |-> "query", caller |-> c]
                 THEN "dropped" ELSE reply[c]]

\* mutant: a failed start returns without a word
ThreadFailsSilently(status) ==
  /\ thread = "building"
  /\ thread' = "ended"
  /\ DropReceiver(commands)
  /\ UNCHANGED <<starting, listening, shared, pc, answer, stopper>>

(* No runtime, no swarm, or an address it cannot listen on.                *)
ThreadFails(status) ==
  /\ thread = "building"
  /\ ready' = Append(ready, status)
  /\ thread' = "ended"
  /\ DropReceiver(commands)
  /\ UNCHANGED <<starter, started, listening, shared, pc, answer, stopper>>

Listen ==
  /\ thread = "building"
  /\ thread' = "listening"
  /\ UNCHANGED <<starting, listening, channel, shared, calling, stopper>>

(* await_listeners(): every listener is heard of, or the timeout passes.   *)
ListenersReport ==
  /\ thread = "listening"
  /\ ~addressed
  /\ addressed' = TRUE
  /\ UNCHANGED <<starting, thread, waited, channel, shared, calling, stopper>>

ListenTimeout ==
  /\ thread = "listening"
  /\ ~waited
  /\ waited' = TRUE
  /\ UNCHANGED <<starting, thread, addressed, channel, shared, calling, stopper>>

Listened == addressed \/ waited

ThreadReady ==
  /\ thread = "listening"
  /\ Listened
  /\ ready' = Append(ready, "ok")
  /\ thread' = "running"
  /\ UNCHANGED <<starter, started, listening, channel, shared, calling, stopper>>

(* run(): the next command; a query is answered on its reply channel.      *)
Handle ==
  /\ thread = "running"
  /\ commands # <<>>
  /\ Head(commands).kind \in Kinds
  /\ commands' = Tail(commands)
  /\ reply' = IF Head(commands).kind = "query"
              THEN [reply EXCEPT ![Head(commands).caller] = "sent"] ELSE reply
  /\ UNCHANGED <<starting, thread, listening, receiver, lost, shared, pc, answer, stopper>>

\* mutant: a queued shutdown is taken ahead of the commands before it
RunEndsEarly ==
  /\ thread = "running"
  /\ \E i \in 1 .. Len(commands) :
       /\ commands[i].kind = "shutdown"
       /\ DropReceiver(SubSeq(commands, 1, i - 1))
  /\ thread' = "ended"
  /\ UNCHANGED <<starting, listening, shared, pc, answer, stopper>>

RunEnds ==
  /\ thread = "running"
  /\ commands # <<>>
  /\ Head(commands).kind = "shutdown"
  /\ DropReceiver(Tail(commands))
  /\ thread' = "ended"
  /\ UNCHANGED <<starting, listening, shared, pc, answer, stopper>>

(* A panic anywhere unwinds to catch_unwind and drops the receiver.        *)
Panic ==
  /\ thread \in {"building", "listening", "running"}
  /\ DropReceiver(commands)
  /\ thread' = "panicked"
  /\ UNCHANGED <<starting, listening, shared, pc, answer, stopper>>

EndsWell ==
  /\ thread = "ended"
  /\ closed' = "shut_down"
  /\ thread' = "exited"
  /\ UNCHANGED <<starting, listening, channel, poisoned, calling, stopper>>

(* After a panic the handle is poisoned, then the queue closed, then start *)
(* told if it still waits.                                                 *)
Poison ==
  /\ thread = "panicked"
  /\ poisoned' = TRUE
  /\ thread' = "poisoned"
  /\ UNCHANGED <<starting, listening, channel, closed, calling, stopper>>

ClosePoisoned ==
  /\ thread = "poisoned"
  /\ closed' = "panic"
  /\ thread' = "telling"
  /\ UNCHANGED <<starting, listening, channel, poisoned, calling, stopper>>

TellPanic ==
  /\ thread = "telling"
  /\ ready' = Append(ready, "panic")
  /\ thread' = "exited"
  /\ UNCHANGED <<starter, started, listening, channel, shared, calling, stopper>>

-----------------------------------------------------------------------------
(* Callers: Node::send() first reads poisoned, then sends.                 *)

Usable == starter = "returned" /\ started = "ok" /\ stopper = "idle"

SendChecks(c) ==
  /\ Usable
  /\ pc[c] = "idle"
  /\ IF poisoned
     THEN answer' = [answer EXCEPT ![c] = "panic"] /\ UNCHANGED pc
     ELSE pc' = [pc EXCEPT ![c] = "sending"] /\ UNCHANGED answer
  /\ UNCHANGED <<starting, thread, listening, channel, shared, reply, stopper>>

Send(c, kind) ==
  /\ pc[c] = "sending"
  /\ receiver
  /\ Len(commands) < MaxCommands
  /\ commands' = Append(commands, [kind |-> kind, caller |-> c])
  /\ IF kind = "query"
     THEN /\ pc' = [pc EXCEPT ![c] = "waiting"]
          /\ reply' = [reply EXCEPT ![c] = "pending"]
          /\ UNCHANGED answer
     ELSE /\ pc' = [pc EXCEPT ![c] = "idle"]
          /\ answer' = [answer EXCEPT ![c] = "ok"]
          /\ UNCHANGED reply
  /\ UNCHANGED <<starting, thread, listening, receiver, lost, shared, stopper>>

SendFails(c) ==
  /\ pc[c] = "sending"
  /\ ~receiver
  /\ pc' = [pc EXCEPT ![c] = "idle"]
  /\ answer' = [answer EXCEPT ![c] = "shut_down"]
  /\ UNCHANGED <<starting, thread, listening, channel, shared, reply, stopper>>

(* recv_timeout(): a reply, the end of the reply channel, or five seconds. *)
(* After those the command stays queued and answers nobody.                *)
QueryReturns(c) ==
  /\ pc[c] = "waiting"
  /\ reply[c] \in {"sent", "dropped"}
  /\ pc' = [pc EXCEPT ![c] = "idle"]
  /\ answer' = [answer EXCEPT ![c] = IF reply[c] = "sent" THEN "ok" ELSE "shut_down"]
  /\ reply' = [reply EXCEPT ![c] = "none"]
  /\ UNCHANGED <<starting, thread, listening, channel, shared, stopper>>

QueryTimesOut(c) ==
  /\ pc[c] = "waiting"
  /\ reply[c] = "pending"
  /\ pc' = [pc EXCEPT ![c] = "idle"]
  /\ answer' = [answer EXCEPT ![c] = "shut_down"]
  /\ reply' = [reply EXCEPT ![c] = "none"]
  /\ commands' = [i \in 1 .. Len(commands) |->
                    IF commands[i] = [kind |-> "query", caller |-> c]
                    THEN [commands[i] EXCEPT !.kind = "command"] ELSE commands[i]]
  /\ UNCHANGED <<starting, thread, listening, receiver, lost, shared, stopper>>

(* lp2p_shutdown: Node::drop sends Shutdown, if anyone still listens, and  *)
(* joins the thread.                                                       *)
Shutdown ==
  /\ Usable
  /\ \A c \in Callers : pc[c] = "idle"
  /\ stopper' = "joining"
  /\ commands' = IF receiver THEN Append(commands, [kind |-> "shutdown"]) ELSE commands
  /\ UNCHANGED <<starting, thread, listening, receiver, lost, shared, calling>>

ShutdownJoins ==
  /\ stopper = "joining"
  /\ thread = "exited"
  /\ stopper' = "returned"
  /\ UNCHANGED <<starting, thread, listening, channel, shared, calling>>

-----------------------------------------------------------------------------
ThreadStep ==
  \/ \E status \in Failures : ThreadFails(status)
  \/ Listen \/ ThreadReady
  \/ Handle \/ RunEnds
  \/ EndsWell
  \/ Poison \/ ClosePoisoned \/ TellPanic

CallerStep(c) ==
  \/ SendChecks(c)
  \/ (\E kind \in Kinds : Send(c, kind)) \/ SendFails(c)
  \/ QueryReturns(c) \/ QueryTimesOut(c)

Next ==
  \/ \E status \in Failures : StartRefused(status)
  \/ Start \/ StartHears \/ StartJoins
  \/ ThreadStep
  \/ ListenersReport \/ ListenTimeout
  \/ Panic
  \/ \E c \in Callers : CallerStep(c)
  \/ Shutdown \/ ShutdownJoins

Spec == Init /\ [][Next]_vars

(* The node thread makes progress while it has something to do, time       *)
(* passes, and a thread blocked in recv() or join() goes on when it can.   *)
(* No listener has to report, no query has to time out.                    *)
Fairness ==
  /\ WF_vars(ThreadStep) /\ WF_vars(ListenTimeout)
  /\ WF_vars(StartHears) /\ WF_vars(StartJoins) /\ WF_vars(ShutdownJoins)
  /\ \A c \in Callers : WF_vars(QueryReturns(c))

FairSpec == Spec /\ Fairness

-----------------------------------------------------------------------------
TypeOK ==
  /\ starter \in {"idle", "waiting", "joining", "returned"}
  /\ started \in Statuses
  /\ ready \in Seq(Statuses)
  /\ thread \in {"none", "building", "listening", "running", "ended", "panicked", "poisoned",
                 "telling", "exited"}
  /\ addressed \in BOOLEAN /\ waited \in BOOLEAN /\ receiver \in BOOLEAN
  /\ commands \in Seq([kind : Kinds, caller : Callers] \cup [kind : {"shutdown"}])
  /\ lost \subseteq Kinds \cup {"shutdown"}
  /\ poisoned \in BOOLEAN /\ closed \in {"open", "shut_down", "panic"}
  /\ pc \in [Callers -> {"idle", "sending", "waiting"}]
  /\ answer \in [Callers -> Answers]
  /\ reply \in [Callers -> {"none", "pending", "sent", "dropped"}]
  /\ stopper \in {"idle", "joining", "returned"}

(* A start that fails says why: it answers LP2P_ERR_PANIC only when the    *)
(* thread panicked, although recv() cannot tell a panic from a thread that *)
(* ended without a word, and it leaves no thread behind.                   *)
StartSaysWhy ==
  starter = "returned" /\ started # "ok" =>
    /\ started = "panic" <=> poisoned
    /\ thread \in {"none", "exited"}

(* Shutting down handles every command that was accepted before: only a    *)
(* panic drops commands lp2p_* answered LP2P_OK for.                       *)
AcceptedIsHandled == lost # {} => thread = "panicked" \/ poisoned

(* No blocking call waits for ever.  lp2p_start returns although its       *)
(* listeners never report an address and although the thread fails or      *)
(* panics on the way; lp2p_topic_peers and lp2p_routing_sample return      *)
(* without their timeout of five seconds, also when the thread panics with *)
(* their command queued; lp2p_shutdown returns, whatever is queued and     *)
(* also after a panic.                                                     *)
CallsReturn ==
  /\ starter = "waiting" ~> starter = "returned"
  /\ \A c \in Callers : pc[c] = "waiting" ~> pc[c] = "idle"
  /\ stopper = "joining" ~> stopper = "returned"
=============================================================================
