-------------------------- MODULE LifecycleProofs ---------------------------
(***************************************************************************)
(* The safety of Lifecycle for every number of callers and commands.       *)
(*                                                                         *)
(* What lp2p_start answers is settled by the first word on the ready       *)
(* channel, so Told says which word that can be at each point of the       *)
(* thread, and Heard that the starter answers it.  That shutting down      *)
(* drops nothing rests on Calls: the channel is empty until the node was   *)
(* returned, and Shutdown is the last command in it.                       *)
(***************************************************************************)
EXTENDS Lifecycle, SequenceTheorems, TLAPS

Command == [kind : Kinds, caller : Callers] \cup [kind : {"shutdown"}]

(* The first word on the ready channel, and when the handle is poisoned.   *)
Told ==
  /\ thread \in {"none", "building", "listening"} => ready = <<>>
  /\ thread = "running" => ready # <<>> /\ Head(ready) = "ok"
  /\ thread = "ended" => ready # <<>> /\ Head(ready) # "panic"
  /\ thread \in {"panicked", "poisoned", "telling"} => ready = <<>> \/ Head(ready) = "ok"
  /\ thread = "exited" =>
       /\ ready # <<>>
       /\ poisoned => Head(ready) \in {"ok", "panic"}
       /\ ~poisoned => Head(ready) # "panic"
  /\ thread \in {"poisoned", "telling"} => poisoned
  /\ poisoned => thread \in {"poisoned", "telling", "exited"}

(* How far the starter is, and that it answers the first word.             *)
Heard ==
  /\ starter = "idle" => thread = "none"
  /\ starter \in {"waiting", "joining"} => thread # "none"
  /\ starter = "returned" /\ thread = "none" => started \in Failures
  /\ starter \in {"joining", "returned"} /\ thread # "none" =>
       ready # <<>> /\ started = Head(ready)
  /\ starter = "returned" /\ started # "ok" => thread \in {"none", "exited"}

(* Calls and commands come after a good start, and Shutdown comes last.    *)
Calls ==
  /\ \A c \in Callers : pc[c] # "idle" =>
       starter = "returned" /\ started = "ok" /\ stopper = "idle"
  /\ stopper # "idle" => starter = "returned" /\ started = "ok"
  /\ commands # <<>> => starter = "returned" /\ started = "ok"
  /\ \A i \in 1 .. Len(commands) :
       commands[i].kind = "shutdown" => stopper # "idle" /\ i = Len(commands)

IInv == TypeOK /\ Told /\ Heard /\ Calls /\ AcceptedIsHandled

LEMMA InitIInv == Init => IInv
<1> SUFFICES ASSUME Init PROVE IInv
  OBVIOUS
<1>1. ready \in Seq(Statuses) /\ commands \in Seq(Command) /\ Len(commands) = 0
  BY EmptySeq DEF Init
<1>2. TypeOK
  BY <1>1 DEF Init, TypeOK, Command, Statuses, Answers
<1>3. Told /\ Heard /\ AcceptedIsHandled
  BY DEF Init, Told, Heard, AcceptedIsHandled
<1>4. Calls
  BY <1>1 DEF Init, Calls
<1> QED
  BY <1>2, <1>3, <1>4 DEF IInv

(* A word sent on the ready channel is the first one only if there was     *)
(* none.                                                                   *)
LEMMA FirstWord ==
  ASSUME NEW q \in Seq(Statuses), NEW w \in Statuses
  PROVE  /\ Append(q, w) \in Seq(Statuses)
         /\ Append(q, w) # <<>>
         /\ Head(Append(q, w)) = IF q = <<>> THEN w ELSE Head(q)
<1>1. /\ Append(q, w) \in Seq(Statuses) /\ Append(q, w) # <<>>
      /\ Len(Append(q, w)) = Len(q) + 1
      /\ \A i \in 1 .. Len(q) : Append(q, w)[i] = q[i]
      /\ Append(q, w)[Len(q) + 1] = w
  BY AppendProperties
<1>2. Head(Append(q, w)) = Append(q, w)[1]
  BY <1>1
<1>3. CASE q = <<>>
  BY <1>1, <1>2, <1>3, EmptySeq
<1>4. CASE q # <<>>
  <2>1. Len(q) \in Nat \ {0} /\ Head(q) = q[1]
    BY <1>4, EmptySeq
  <2> QED
    BY <1>1, <1>2, <1>4, <2>1
<1> QED
  BY <1>3, <1>4

(* What the receiver takes with it are the commands left in the channel.   *)
LEMMA DropReceiverType ==
  ASSUME TypeOK, NEW left \in Seq(Command), DropReceiver(left)
  PROVE  /\ receiver' = FALSE /\ commands' = <<>> /\ commands' \in Seq(Command)
         /\ lost' \subseteq Kinds \cup {"shutdown"}
         /\ reply' \in [Callers -> {"none", "pending", "sent", "dropped"}]
         /\ left = <<>> => lost' = lost
<1>1. \A i \in 1 .. Len(left) : left[i].kind \in Kinds \cup {"shutdown"}
  <2> TAKE i \in 1 .. Len(left)
  <2>1. left[i] \in Command
    OBVIOUS
  <2> QED
    BY <2>1 DEF Command
<1>2. lost' \subseteq Kinds \cup {"shutdown"}
  BY <1>1 DEF DropReceiver, TypeOK
<1>3. reply' \in [Callers -> {"none", "pending", "sent", "dropped"}]
  BY DEF DropReceiver, TypeOK
<1>4. ASSUME left = <<>> PROVE lost' = lost
  <2>1. 1 .. Len(left) = {}
    BY <1>4, EmptySeq
  <2> QED
    BY <2>1 DEF DropReceiver
<1>5. commands' = <<>> /\ commands' \in Seq(Command)
  BY EmptySeq DEF DropReceiver
<1> QED
  BY <1>2, <1>3, <1>4, <1>5 DEF DropReceiver

-----------------------------------------------------------------------------
(* lp2p_start                                                              *)

LEMMA StartRefusedStep == ASSUME IInv, NEW status \in Failures, StartRefused(status) PROVE IInv'
<1>1. TypeOK'
  BY DEF IInv, TypeOK, StartRefused, Statuses, starting, listening, channel, shared, calling
<1>2. Told'
  BY DEF IInv, Told, StartRefused, Statuses, starting, shared
<1>3. Heard'
  BY DEF IInv, Heard, StartRefused, Statuses, starting
<1>4. Calls'
  BY DEF IInv, Calls, StartRefused, Statuses, starting, channel, calling
<1>5. AcceptedIsHandled'
  BY DEF IInv, AcceptedIsHandled, StartRefused, Statuses, channel, shared
<1> QED
  BY <1>1, <1>2, <1>3, <1>4, <1>5 DEF IInv

LEMMA StartStep == ASSUME IInv, Start PROVE IInv'
<1>1. TypeOK'
  BY DEF IInv, TypeOK, Start, starting, listening, channel, shared, calling
<1>2. Told'
  BY DEF IInv, Told, Heard, Start, starting, shared
<1>3. Heard'
  BY DEF IInv, Heard, Start, starting
<1>4. Calls'
  BY DEF IInv, Calls, Start, starting, channel, calling
<1>5. AcceptedIsHandled'
  BY DEF IInv, Told, Heard, AcceptedIsHandled, Start, channel, shared
<1> QED
  BY <1>1, <1>2, <1>3, <1>4, <1>5 DEF IInv

LEMMA StartHearsStep == ASSUME IInv, StartHears PROVE IInv'
<1>0. ready # <<>> /\ StartStatus = Head(ready) /\ StartStatus \in Statuses
  BY DEF IInv, TypeOK, Told, StartHears, StartStatus
<1>1. TypeOK'
  BY <1>0 DEF IInv, TypeOK, StartHears, starting, listening, channel, shared, calling
<1>2. Told'
  BY DEF IInv, Told, StartHears, StartStatus, starting, shared
<1>3. Heard'
  BY <1>0 DEF IInv, Heard, StartHears, starting
<1>4. Calls'
  BY DEF IInv, Calls, StartHears, StartStatus, starting, channel, calling
<1>5. AcceptedIsHandled'
  BY DEF IInv, AcceptedIsHandled, StartHears, StartStatus, channel, shared
<1> QED
  BY <1>1, <1>2, <1>3, <1>4, <1>5 DEF IInv

LEMMA StartJoinsStep == ASSUME IInv, StartJoins PROVE IInv'
<1>1. TypeOK'
  BY DEF IInv, TypeOK, StartJoins, starting, listening, channel, shared, calling
<1>2. Told'
  BY DEF IInv, Told, StartJoins, starting, shared
<1>3. Heard'
  BY DEF IInv, Heard, StartJoins, starting
<1>4. Calls'
  BY DEF IInv, Calls, StartJoins, starting, channel, calling
<1>5. AcceptedIsHandled'
  BY DEF IInv, AcceptedIsHandled, StartJoins, channel, shared
<1> QED
  BY <1>1, <1>2, <1>3, <1>4, <1>5 DEF IInv

-----------------------------------------------------------------------------
(* The node thread.  Nothing is in the channel before the node runs, and   *)
(* nothing behind Shutdown: only a panic drops commands.                   *)

LEMMA ThreadFailsStep ==
  ASSUME IInv, NEW status \in Failures, ThreadFails(status) PROVE IInv'
<1>a. ready = <<>> /\ starter = "waiting" /\ commands = <<>> /\ commands \in Seq(Command)
  BY DEF IInv, TypeOK, Told, Heard, Calls, ThreadFails, Command
<1>b. /\ commands' = <<>> /\ commands' \in Seq(Command) /\ receiver' = FALSE
      /\ lost' = lost
      /\ reply' \in [Callers -> {"none", "pending", "sent", "dropped"}]
  BY <1>a, DropReceiverType DEF IInv, ThreadFails
<1>c. ready' \in Seq(Statuses) /\ ready' # <<>> /\ Head(ready') = status
  BY <1>a, FirstWord DEF ThreadFails, Statuses, IInv, TypeOK
<1>1. TypeOK'
  BY <1>b, <1>c DEF IInv, TypeOK, Command, ThreadFails, listening, shared
<1>2. Told'
  BY <1>c DEF IInv, Told, ThreadFails, shared, Failures
<1>3. Heard'
  BY <1>a DEF Heard, ThreadFails
<1>4. Calls'
  BY <1>a, <1>b DEF IInv, Calls, ThreadFails
<1>5. AcceptedIsHandled'
  BY <1>b DEF IInv, Told, AcceptedIsHandled, ThreadFails, shared
<1> QED
  BY <1>1, <1>2, <1>3, <1>4, <1>5 DEF IInv

LEMMA ListenStep == ASSUME IInv, Listen PROVE IInv'
<1>1. TypeOK'
  BY DEF IInv, TypeOK, Listen, starting, listening, channel, shared, calling
<1>2. Told'
  BY DEF IInv, Told, Listen, starting, shared
<1>3. Heard'
  BY DEF IInv, Heard, Listen, starting
<1>4. Calls'
  BY DEF IInv, Calls, Listen, starting, channel, calling
<1>5. AcceptedIsHandled'
  BY DEF IInv, AcceptedIsHandled, Listen, channel, shared
<1> QED
  BY <1>1, <1>2, <1>3, <1>4, <1>5 DEF IInv

LEMMA ListenersReportStep == ASSUME IInv, ListenersReport PROVE IInv'
<1>1. TypeOK'
  BY DEF IInv, TypeOK, ListenersReport, starting, listening, channel, shared, calling
<1>2. Told'
  BY DEF IInv, Told, ListenersReport, starting, shared
<1>3. Heard'
  BY DEF IInv, Heard, ListenersReport, starting
<1>4. Calls'
  BY DEF IInv, Calls, ListenersReport, starting, channel, calling
<1>5. AcceptedIsHandled'
  BY DEF IInv, AcceptedIsHandled, ListenersReport, channel, shared
<1> QED
  BY <1>1, <1>2, <1>3, <1>4, <1>5 DEF IInv

LEMMA ListenTimeoutStep == ASSUME IInv, ListenTimeout PROVE IInv'
<1>1. TypeOK'
  BY DEF IInv, TypeOK, ListenTimeout, starting, listening, channel, shared, calling
<1>2. Told'
  BY DEF IInv, Told, ListenTimeout, starting, shared
<1>3. Heard'
  BY DEF IInv, Heard, ListenTimeout, starting
<1>4. Calls'
  BY DEF IInv, Calls, ListenTimeout, starting, channel, calling
<1>5. AcceptedIsHandled'
  BY DEF IInv, AcceptedIsHandled, ListenTimeout, channel, shared
<1> QED
  BY <1>1, <1>2, <1>3, <1>4, <1>5 DEF IInv

LEMMA ThreadReadyStep == ASSUME IInv, ThreadReady PROVE IInv'
<1>a. /\ ready' \in Seq(Statuses) /\ ready' # <<>>
      /\ Head(ready') = IF ready = <<>> THEN "ok" ELSE Head(ready)
  BY FirstWord DEF ThreadReady, Statuses, IInv, TypeOK
<1>1. TypeOK'
  BY <1>a DEF IInv, TypeOK, ThreadReady, listening, channel, shared, calling
<1>2. Told'
  BY <1>a DEF IInv, Told, ThreadReady, shared
<1>3. Heard'
  BY <1>a DEF IInv, Heard, ThreadReady
<1>4. Calls'
  BY DEF IInv, Calls, ThreadReady, channel, calling
<1>5. AcceptedIsHandled'
  BY DEF IInv, Told, AcceptedIsHandled, ThreadReady, channel, shared
<1> QED
  BY <1>1, <1>2, <1>3, <1>4, <1>5 DEF IInv

LEMMA HandleStep == ASSUME IInv, Handle PROVE IInv'
<1>a. commands \in Seq(Command) /\ commands # <<>>
  BY DEF IInv, TypeOK, Command, Handle
<1>b. /\ commands' \in Seq(Command) /\ Len(commands') = Len(commands) - 1
      /\ \A i \in 1 .. Len(commands') : commands'[i] = commands[i + 1]
  BY <1>a DEF Handle
<1>c. Head(commands) \in Command /\ Head(commands).kind \in Kinds
  BY <1>a DEF Handle
<1>d. Head(commands).caller \in Callers
  BY <1>c DEF Command, Kinds
<1>1. TypeOK'
  BY <1>b, <1>d DEF IInv, TypeOK, Handle, Command, starting, listening, shared
<1>2. Told'
  BY DEF IInv, Told, Handle, starting, shared
<1>3. Heard'
  BY DEF IInv, Heard, Handle, starting
<1>4. Calls'
  <2>1. Len(commands) \in Nat \ {0} /\ Len(commands') \in Nat
    BY <1>a, <1>b, EmptySeq
  <2>2. \A i \in 1 .. Len(commands') :
          commands'[i].kind = "shutdown" => stopper # "idle" /\ i = Len(commands')
    <3> TAKE i \in 1 .. Len(commands')
    <3>1. i + 1 \in 1 .. Len(commands) /\ commands'[i] = commands[i + 1]
      BY <1>b, <2>1
    <3>2. commands[i + 1].kind = "shutdown" => stopper # "idle" /\ i + 1 = Len(commands)
      BY <3>1 DEF IInv, Calls
    <3> QED
      BY <1>b, <2>1, <3>1, <3>2
  <2> QED
    BY <1>a, <2>2 DEF IInv, Calls, Handle, starting
<1>5. AcceptedIsHandled'
  BY DEF IInv, AcceptedIsHandled, Handle, shared
<1> QED
  BY <1>1, <1>2, <1>3, <1>4, <1>5 DEF IInv

LEMMA RunEndsStep == ASSUME IInv, RunEnds PROVE IInv'
<1>a. commands \in Seq(Command) /\ commands # <<>> /\ commands[1].kind = "shutdown"
  BY DEF IInv, TypeOK, Command, RunEnds
<1>b. Len(commands) = 1
  <2>1. Len(commands) \in Nat \ {0}
    BY <1>a, EmptySeq
  <2>2. 1 \in 1 .. Len(commands)
    BY <2>1
  <2> QED
    BY <1>a, <2>2 DEF IInv, Calls
<1>c. Tail(commands) \in Seq(Command) /\ Tail(commands) = <<>>
  <2>1. Tail(commands) \in Seq(Command) /\ Len(Tail(commands)) = 0
    BY <1>a, <1>b, HeadTailProperties
  <2>2. Tail(commands) # <<>> => Len(Tail(commands)) # 0
    BY <2>1, EmptySeq
  <2> QED
    BY <2>1, <2>2
<1>d. /\ commands' = <<>> /\ commands' \in Seq(Command) /\ receiver' = FALSE
      /\ lost' = lost
      /\ reply' \in [Callers -> {"none", "pending", "sent", "dropped"}]
  BY <1>c, DropReceiverType DEF IInv, RunEnds
<1>1. TypeOK'
  BY <1>d DEF IInv, TypeOK, Command, RunEnds, starting, listening, shared
<1>2. Told'
  BY DEF IInv, Told, RunEnds, starting, shared
<1>3. Heard'
  BY DEF IInv, Told, Heard, RunEnds, starting
<1>4. Calls'
  BY <1>d DEF IInv, Calls, RunEnds, starting
<1>5. AcceptedIsHandled'
  BY <1>d DEF IInv, AcceptedIsHandled, RunEnds, shared
<1> QED
  BY <1>1, <1>2, <1>3, <1>4, <1>5 DEF IInv

LEMMA PanicStep == ASSUME IInv, Panic PROVE IInv'
<1>a. commands \in Seq(Command)
  BY DEF IInv, TypeOK, Command
<1>b. /\ commands' = <<>> /\ commands' \in Seq(Command) /\ receiver' = FALSE
      /\ lost' \subseteq Kinds \cup {"shutdown"}
      /\ reply' \in [Callers -> {"none", "pending", "sent", "dropped"}]
  BY <1>a, DropReceiverType DEF IInv, Panic
<1>1. TypeOK'
  BY <1>b DEF IInv, TypeOK, Command, Panic, starting, listening, shared
<1>2. Told'
  BY DEF IInv, Told, Panic, starting, shared
<1>3. Heard'
  BY DEF IInv, Heard, Panic, starting
<1>4. Calls'
  BY <1>b DEF IInv, Calls, Panic, starting
<1>5. AcceptedIsHandled'
  BY DEF AcceptedIsHandled, Panic
<1> QED
  BY <1>1, <1>2, <1>3, <1>4, <1>5 DEF IInv

LEMMA EndsWellStep == ASSUME IInv, EndsWell PROVE IInv'
<1>1. TypeOK'
  BY DEF IInv, TypeOK, EndsWell, starting, listening, channel, shared, calling
<1>2. Told'
  BY DEF IInv, Told, EndsWell, starting, shared
<1>3. Heard'
  BY DEF IInv, Heard, EndsWell, starting
<1>4. Calls'
  BY DEF IInv, Calls, EndsWell, starting, channel, calling
<1>5. AcceptedIsHandled'
  BY DEF IInv, AcceptedIsHandled, EndsWell, channel, shared
<1> QED
  BY <1>1, <1>2, <1>3, <1>4, <1>5 DEF IInv

LEMMA PoisonStep == ASSUME IInv, Poison PROVE IInv'
<1>1. TypeOK'
  BY DEF IInv, TypeOK, Poison, starting, listening, channel, shared, calling
<1>2. Told'
  BY DEF IInv, Told, Poison, starting, shared
<1>3. Heard'
  BY DEF IInv, Heard, Poison, starting
<1>4. Calls'
  BY DEF IInv, Calls, Poison, starting, channel, calling
<1>5. AcceptedIsHandled'
  BY DEF IInv, AcceptedIsHandled, Poison, channel, shared
<1> QED
  BY <1>1, <1>2, <1>3, <1>4, <1>5 DEF IInv

LEMMA ClosePoisonedStep == ASSUME IInv, ClosePoisoned PROVE IInv'
<1>1. TypeOK'
  BY DEF IInv, TypeOK, ClosePoisoned, starting, listening, channel, shared, calling
<1>2. Told'
  BY DEF IInv, Told, ClosePoisoned, starting, shared
<1>3. Heard'
  BY DEF IInv, Heard, ClosePoisoned, starting
<1>4. Calls'
  BY DEF IInv, Calls, ClosePoisoned, starting, channel, calling
<1>5. AcceptedIsHandled'
  BY DEF IInv, AcceptedIsHandled, ClosePoisoned, channel, shared
<1> QED
  BY <1>1, <1>2, <1>3, <1>4, <1>5 DEF IInv

LEMMA TellPanicStep == ASSUME IInv, TellPanic PROVE IInv'
<1>a. /\ ready' \in Seq(Statuses) /\ ready' # <<>>
      /\ Head(ready') = IF ready = <<>> THEN "panic" ELSE Head(ready)
  BY FirstWord DEF TellPanic, Statuses, IInv, TypeOK
<1>1. TypeOK'
  BY <1>a DEF IInv, TypeOK, TellPanic, listening, channel, shared, calling
<1>2. Told'
  BY <1>a DEF IInv, Told, TellPanic, shared
<1>3. Heard'
  BY <1>a DEF IInv, Heard, TellPanic
<1>4. Calls'
  BY DEF IInv, Calls, TellPanic, channel, calling
<1>5. AcceptedIsHandled'
  BY DEF IInv, Told, AcceptedIsHandled, TellPanic, channel, shared
<1> QED
  BY <1>1, <1>2, <1>3, <1>4, <1>5 DEF IInv

-----------------------------------------------------------------------------
(* Callers and lp2p_shutdown.                                              *)

LEMMA SendChecksStep == ASSUME IInv, NEW c \in Callers, SendChecks(c) PROVE IInv'
<1>1. TypeOK'
  BY DEF IInv, TypeOK, SendChecks, Usable, Answers, starting, listening, channel, shared, calling
<1>2. Told'
  BY DEF IInv, Told, SendChecks, Usable, Answers, starting, shared
<1>3. Heard'
  BY DEF IInv, Heard, SendChecks, Usable, Answers, starting
<1>4. Calls'
  BY DEF IInv, Calls, SendChecks, Usable, Answers, starting, channel, calling
<1>5. AcceptedIsHandled'
  BY DEF IInv, AcceptedIsHandled, SendChecks, Usable, Answers, channel, shared
<1> QED
  BY <1>1, <1>2, <1>3, <1>4, <1>5 DEF IInv

LEMMA SendStep ==
  ASSUME IInv, NEW c \in Callers, NEW kind \in Kinds, Send(c, kind) PROVE IInv'
<1> DEFINE cmd == [kind |-> kind, caller |-> c]
<1>a. commands \in Seq(Command) /\ cmd \in Command /\ cmd.kind # "shutdown"
  BY DEF IInv, TypeOK, Command, Kinds
<1>b. commands' = Append(commands, cmd)
  BY DEF Send
<1> HIDE DEF cmd
<1>c. /\ commands' \in Seq(Command) /\ Len(commands') = Len(commands) + 1
      /\ \A i \in 1 .. Len(commands) : commands'[i] = commands[i]
      /\ commands'[Len(commands')] = cmd
  BY <1>a, <1>b
<1>d. starter = "returned" /\ started = "ok" /\ stopper = "idle"
  BY DEF IInv, Calls, Send
<1>1. TypeOK'
  BY <1>c DEF IInv, TypeOK, Send, Command, Answers, starting, listening, shared
<1>2. Told'
  BY DEF IInv, Told, Send, starting, shared
<1>3. Heard'
  BY DEF IInv, Heard, Send, starting
<1>4. Calls'
  <2>1. \A i \in 1 .. Len(commands') : commands'[i].kind # "shutdown"
    BY <1>a, <1>c, <1>d DEF IInv, Calls
  <2> QED
    BY <1>d, <2>1 DEF Calls, Send, starting
<1>5. AcceptedIsHandled'
  BY DEF IInv, AcceptedIsHandled, Send, shared
<1> QED
  BY <1>1, <1>2, <1>3, <1>4, <1>5 DEF IInv

LEMMA SendFailsStep == ASSUME IInv, NEW c \in Callers, SendFails(c) PROVE IInv'
<1>1. TypeOK'
  BY DEF IInv, TypeOK, SendFails, Answers, starting, listening, channel, shared, calling
<1>2. Told'
  BY DEF IInv, Told, SendFails, Answers, starting, shared
<1>3. Heard'
  BY DEF IInv, Heard, SendFails, Answers, starting
<1>4. Calls'
  BY DEF IInv, Calls, SendFails, Answers, starting, channel, calling
<1>5. AcceptedIsHandled'
  BY DEF IInv, AcceptedIsHandled, SendFails, Answers, channel, shared
<1> QED
  BY <1>1, <1>2, <1>3, <1>4, <1>5 DEF IInv

LEMMA QueryReturnsStep == ASSUME IInv, NEW c \in Callers, QueryReturns(c) PROVE IInv'
<1>1. TypeOK'
  BY DEF IInv, TypeOK, QueryReturns, Answers, starting, listening, channel, shared, calling
<1>2. Told'
  BY DEF IInv, Told, QueryReturns, Answers, starting, shared
<1>3. Heard'
  BY DEF IInv, Heard, QueryReturns, Answers, starting
<1>4. Calls'
  BY DEF IInv, Calls, QueryReturns, Answers, starting, channel, calling
<1>5. AcceptedIsHandled'
  BY DEF IInv, AcceptedIsHandled, QueryReturns, Answers, channel, shared
<1> QED
  BY <1>1, <1>2, <1>3, <1>4, <1>5 DEF IInv

LEMMA QueryTimesOutStep == ASSUME IInv, NEW c \in Callers, QueryTimesOut(c) PROVE IInv'
<1>a. commands \in Seq(Command)
  BY DEF IInv, TypeOK, Command
<1>b. \A i \in 1 .. Len(commands) :
        /\ commands'[i] \in Command
        /\ commands'[i].kind = "shutdown" => commands[i].kind = "shutdown"
  <2> TAKE i \in 1 .. Len(commands)
  <2>1. CASE commands[i] = [kind |-> "query", caller |-> c]
    <3>1. [commands[i] EXCEPT !.kind = "command"] = [kind |-> "command", caller |-> c]
      BY <2>1
    <3>2. commands'[i] = [kind |-> "command", caller |-> c]
      BY <2>1, <3>1 DEF QueryTimesOut
    <3> QED
      BY <3>2 DEF Command, Kinds
  <2>2. CASE commands[i] # [kind |-> "query", caller |-> c]
    <3>1. commands'[i] = commands[i]
      BY <2>2 DEF QueryTimesOut
    <3> QED
      BY <1>a, <3>1
  <2> QED
    BY <2>1, <2>2
<1>c. Len(commands) \in Nat /\ DOMAIN commands' = 1 .. Len(commands)
  BY <1>a DEF QueryTimesOut
<1>d. commands' \in [1 .. Len(commands) -> Command]
  BY <1>b DEF QueryTimesOut
<1>e. commands' \in Seq(Command) /\ Len(commands') = Len(commands)
  BY <1>c, <1>d
<1>1. TypeOK'
  BY <1>e DEF IInv, TypeOK, QueryTimesOut, Command, Answers, starting, listening, shared
<1>2. Told'
  BY DEF IInv, Told, QueryTimesOut, starting, shared
<1>3. Heard'
  BY DEF IInv, Heard, QueryTimesOut, starting
<1>4. Calls'
  <2>1. starter = "returned" /\ started = "ok" /\ stopper = "idle"
    BY DEF IInv, Calls, QueryTimesOut
  <2>2. \A i \in 1 .. Len(commands') : commands'[i].kind # "shutdown"
    BY <1>b, <1>e, <2>1 DEF IInv, Calls
  <2> QED
    BY <2>1, <2>2 DEF Calls, QueryTimesOut, starting
<1>5. AcceptedIsHandled'
  BY DEF IInv, AcceptedIsHandled, QueryTimesOut, shared
<1> QED
  BY <1>1, <1>2, <1>3, <1>4, <1>5 DEF IInv

LEMMA ShutdownStep == ASSUME IInv, Shutdown PROVE IInv'
<1> DEFINE cmd == [kind |-> "shutdown"]
<1>a. commands \in Seq(Command) /\ cmd \in Command
  BY DEF IInv, TypeOK, Command
<1>b. commands' = IF receiver THEN Append(commands, cmd) ELSE commands
  BY DEF Shutdown
<1> HIDE DEF cmd
<1>c. /\ commands' \in Seq(Command)
      /\ \A i \in 1 .. Len(commands') :
           i < Len(commands') \/ ~receiver => i \in 1 .. Len(commands) /\ commands'[i] = commands[i]
  BY <1>a, <1>b
<1>1. TypeOK'
  BY <1>c DEF IInv, TypeOK, Shutdown, Command, starting, listening, shared, calling
<1>2. Told'
  BY DEF IInv, Told, Shutdown, starting, shared
<1>3. Heard'
  BY DEF IInv, Heard, Shutdown, starting
<1>4. Calls'
  <2>1. \A i \in 1 .. Len(commands) : commands[i].kind # "shutdown"
    BY DEF IInv, Calls, Shutdown, Usable
  <2>2. \A i \in 1 .. Len(commands') : commands'[i].kind = "shutdown" => i = Len(commands')
    BY <1>a, <1>c, <2>1
  <2> QED
    BY <2>2 DEF Calls, Shutdown, Usable, starting, calling
<1>5. AcceptedIsHandled'
  BY DEF IInv, AcceptedIsHandled, Shutdown, shared
<1> QED
  BY <1>1, <1>2, <1>3, <1>4, <1>5 DEF IInv

LEMMA ShutdownJoinsStep == ASSUME IInv, ShutdownJoins PROVE IInv'
<1>1. TypeOK'
  BY DEF IInv, TypeOK, ShutdownJoins, starting, listening, channel, shared, calling
<1>2. Told'
  BY DEF IInv, Told, ShutdownJoins, starting, shared
<1>3. Heard'
  BY DEF IInv, Heard, ShutdownJoins, starting
<1>4. Calls'
  BY DEF IInv, Calls, ShutdownJoins, starting, channel, calling
<1>5. AcceptedIsHandled'
  BY DEF IInv, AcceptedIsHandled, ShutdownJoins, channel, shared
<1> QED
  BY <1>1, <1>2, <1>3, <1>4, <1>5 DEF IInv

-----------------------------------------------------------------------------
LEMMA NextIInv == IInv /\ [Next]_vars => IInv'
<1> SUFFICES ASSUME IInv, [Next]_vars PROVE IInv'
  OBVIOUS
<1>1. ASSUME NEW status \in Failures, StartRefused(status) PROVE IInv'
  BY <1>1, StartRefusedStep
<1>2. CASE Start
  BY <1>2, StartStep
<1>3. CASE StartHears
  BY <1>3, StartHearsStep
<1>4. CASE StartJoins
  BY <1>4, StartJoinsStep
<1>5. ASSUME NEW status \in Failures, ThreadFails(status) PROVE IInv'
  BY <1>5, ThreadFailsStep
<1>6. CASE Listen
  BY <1>6, ListenStep
<1>7. CASE ListenersReport
  BY <1>7, ListenersReportStep
<1>8. CASE ListenTimeout
  BY <1>8, ListenTimeoutStep
<1>9. CASE ThreadReady
  BY <1>9, ThreadReadyStep
<1>10. CASE Handle
  BY <1>10, HandleStep
<1>11. CASE RunEnds
  BY <1>11, RunEndsStep
<1>12. CASE Panic
  BY <1>12, PanicStep
<1>13. CASE EndsWell
  BY <1>13, EndsWellStep
<1>14. CASE Poison
  BY <1>14, PoisonStep
<1>15. CASE ClosePoisoned
  BY <1>15, ClosePoisonedStep
<1>16. CASE TellPanic
  BY <1>16, TellPanicStep
<1>17. ASSUME NEW c \in Callers, SendChecks(c) PROVE IInv'
  BY <1>17, SendChecksStep
<1>18. ASSUME NEW c \in Callers, NEW kind \in Kinds, Send(c, kind) PROVE IInv'
  BY <1>18, SendStep
<1>19. ASSUME NEW c \in Callers, SendFails(c) PROVE IInv'
  BY <1>19, SendFailsStep
<1>20. ASSUME NEW c \in Callers, QueryReturns(c) PROVE IInv'
  BY <1>20, QueryReturnsStep
<1>21. ASSUME NEW c \in Callers, QueryTimesOut(c) PROVE IInv'
  BY <1>21, QueryTimesOutStep
<1>22. CASE Shutdown
  BY <1>22, ShutdownStep
<1>23. CASE ShutdownJoins
  BY <1>23, ShutdownJoinsStep
<1>24. CASE UNCHANGED vars
  BY <1>24 DEF vars, starting, listening, channel, shared, calling, IInv, TypeOK, Told, Heard,
               Calls, AcceptedIsHandled
<1> QED
  BY <1>1, <1>2, <1>3, <1>4, <1>5, <1>6, <1>7, <1>8, <1>9, <1>10, <1>11, <1>12,
     <1>13, <1>14, <1>15, <1>16, <1>17, <1>18, <1>19, <1>20, <1>21, <1>22, <1>23, <1>24
     DEF Next, ThreadStep, CallerStep

(* The inductive invariant holds in every reachable state.                 *)
THEOREM LifecycleInvariant == Spec => []IInv
  BY InitIInv, NextIInv, PTL DEF Spec

(* Every variable of a node's life keeps its type.                         *)
THEOREM LifecycleTypeCorrect == Spec => []TypeOK
<1>1. IInv => TypeOK
  BY DEF IInv
<1> QED
  BY <1>1, LifecycleInvariant, PTL

(* A start that fails answers LP2P_ERR_PANIC exactly when the thread       *)
(* panicked, and leaves no thread behind, wherever in run_thread the       *)
(* failure or the panic happens (Node::start).                             *)
THEOREM FailedStartSaysWhy == Spec => []StartSaysWhy
<1>1. IInv => StartSaysWhy
  BY DEF IInv, Told, Heard, StartSaysWhy, Failures
<1> QED
  BY <1>1, LifecycleInvariant, PTL

(* Without a panic no accepted command is dropped, however many callers    *)
(* send at the same time and however late lp2p_shutdown comes (run,        *)
(* Node::drop).                                                            *)
THEOREM AcceptedAreHandled == Spec => []AcceptedIsHandled
<1>1. IInv => AcceptedIsHandled
  BY DEF IInv
<1> QED
  BY <1>1, LifecycleInvariant, PTL
=============================================================================
