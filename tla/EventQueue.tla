----------------------------- MODULE EventQueue -----------------------------
(***************************************************************************)
(* The event queue of src/src/events.rs: the node thread pushes records,   *)
(* any number of caller threads drain them with lp2p_poll.  Inner is       *)
(* guarded by a mutex, so each critical section is one action.  push and   *)
(* close release the mutex BEFORE they call notify_all, so the             *)
(* notification is an action of its own (pc of the producer).              *)
(*                                                                         *)
(* A record is its ordinal among everything ever pushed (id), its length   *)
(* (size) and the number of bytes accepted before it (at).  The offsets    *)
(* stand for the lengths of prefixes: PrefixBytes(n) is the length of the  *)
(* n oldest records.                                                       *)
(***************************************************************************)
EXTENDS Integers, Sequences

CONSTANTS
  Pollers,       \* caller threads inside lp2p_poll
  MaxBytes,      \* EventQueue.max_bytes
  RecordSizes,   \* lengths of the records the node builds
  OverflowSize,  \* length of the LP2P_EV_OVERFLOW record (a bare header)
  Caps,          \* lengths of the buffers the callers bring
  MaxPushes      \* bound on the history: how many records are pushed

ASSUME QueueAssumption ==
  /\ MaxBytes \in Nat
  /\ RecordSizes \subseteq Nat \ {0}
  /\ OverflowSize \in Nat \ {0}
  /\ Caps \subseteq Nat
  /\ MaxPushes \in Nat

VARIABLES
  records,    \* Inner.records
  bytes,      \* Inner.bytes
  dropped,    \* Inner.dropped: drops not reported yet
  closed,     \* Inner.closed: "open" or the status
  producer,   \* the node thread: "run", or "notify" between unlock and notify_all
  pc,         \* pollers: "idle", "locking" (wants the mutex), "waiting" (in wait_timeout)
  cap,        \* pollers: length of the buffer of the current poll
  expired,    \* pollers: the deadline has passed
  answer,     \* pollers: what the last poll returned
  pushed,     \* history: records ever pushed
  inBytes,    \* history: bytes ever accepted
  taken,      \* history: records ever copied to a caller
  lastTaken,  \* history: id of the last record copied to a caller
  reported    \* history: drops ever reported in an overflow record

inner  == <<records, bytes, dropped, closed>>
polls  == <<pc, cap, expired, answer>>
ghosts == <<pushed, inBytes, taken, lastTaken, reported>>
vars   == <<inner, producer, polls, ghosts>>

Record   == [id : Nat, size : RecordSizes, at : Nat]
Statuses == {"shut_down", "panic"}
Answers  == {"none", "timeout", "too_small", "records"} \cup Statuses

-----------------------------------------------------------------------------
Init ==
  /\ records = <<>>
  /\ bytes = 0
  /\ dropped = 0
  /\ closed = "open"
  /\ producer = "run"
  /\ pc = [p \in Pollers |-> "idle"]
  /\ cap = [p \in Pollers |-> 0]
  /\ expired = [p \in Pollers |-> FALSE]
  /\ answer = [p \in Pollers |-> "none"]
  /\ pushed = 0
  /\ inBytes = 0
  /\ taken = 0
  /\ lastTaken = 0
  /\ reported = 0

(* Bytes accepted before the i-th queued record, and the length of the n   *)
(* oldest records.                                                         *)
Offset(i) == IF i <= Len(records) THEN records[i].at ELSE inBytes

PrefixBytes(n) == Offset(n + 1) - Offset(1)

(* The condition poll's wait loop ends on.                                 *)
Ready == records # <<>> \/ dropped > 0 \/ closed # "open"

(* A record is accepted when the queue stays within its bound.             *)
Fits(size) == bytes + size <= MaxBytes

\* mutant: a record that does not fit is dropped without being counted
DropSilently == UNCHANGED <<records, bytes, dropped, inBytes>>

Drop ==
  /\ dropped' = dropped + 1
  /\ UNCHANGED <<records, bytes, inBytes>>

Accept(size) ==
  /\ bytes' = bytes + size
  /\ records' = Append(records, [id |-> pushed + 1, size |-> size, at |-> inBytes])
  /\ inBytes' = inBytes + size
  /\ UNCHANGED dropped

(* EventQueue::push up to the unlock.  Only the node thread pushes, and    *)
(* it closes the queue as the last thing it does.                          *)
Push(size) ==
  /\ producer = "run"
  /\ closed = "open"
  /\ pushed < MaxPushes
  /\ pushed' = pushed + 1
  /\ IF Fits(size) THEN Accept(size) ELSE Drop
  /\ producer' = "notify"
  /\ UNCHANGED <<closed, polls, taken, lastTaken, reported>>

\* mutant: close forgets notify_all
CloseSilently(status) ==
  /\ producer = "run"
  /\ closed = "open"
  /\ closed' = status
  /\ UNCHANGED <<records, bytes, dropped, producer, polls, ghosts>>

(* EventQueue::close up to the unlock: the end of run_thread, normal or    *)
(* after a panic.                                                          *)
Close(status) ==
  /\ producer = "run"
  /\ closed = "open"
  /\ closed' = status
  /\ producer' = "notify"
  /\ UNCHANGED <<records, bytes, dropped, polls, ghosts>>

\* mutant: notify_one
NotifyOne ==
  /\ producer = "notify"
  /\ producer' = "run"
  /\ \/ \E p \in Pollers : pc[p] = "waiting" /\ pc' = [pc EXCEPT ![p] = "locking"]
     \/ (\A p \in Pollers : pc[p] # "waiting") /\ UNCHANGED pc
  /\ UNCHANGED <<inner, cap, expired, answer, ghosts>>

(* notify_all: every waiting poll asks for the mutex again.                *)
NotifyAll ==
  /\ producer = "notify"
  /\ producer' = "run"
  /\ pc' = [p \in Pollers |-> IF pc[p] = "waiting" THEN "locking" ELSE pc[p]]
  /\ UNCHANGED <<inner, cap, expired, answer, ghosts>>

-----------------------------------------------------------------------------
(* lp2p_poll is called with a buffer of length c; the deadline is set.     *)
Enter(p, c) ==
  /\ pc[p] = "idle"
  /\ pc' = [pc EXCEPT ![p] = "locking"]
  /\ cap' = [cap EXCEPT ![p] = c]
  /\ expired' = [expired EXCEPT ![p] = FALSE]
  /\ UNCHANGED <<inner, producer, answer, ghosts>>

(* The deadline of a poll passes; a waiting one leaves wait_timeout.       *)
DeadlinePasses(p) ==
  /\ pc[p] # "idle"
  /\ ~expired[p]
  /\ expired' = [expired EXCEPT ![p] = TRUE]
  /\ pc' = [pc EXCEPT ![p] = "locking"]
  /\ UNCHANGED <<inner, producer, cap, answer, ghosts>>

(* A condition variable may wake a thread without a notification.          *)
SpuriousWakeup(p) ==
  /\ pc[p] = "waiting"
  /\ pc' = [pc EXCEPT ![p] = "locking"]
  /\ UNCHANGED <<inner, producer, cap, expired, answer, ghosts>>

Return(p, a) ==
  /\ pc' = [pc EXCEPT ![p] = "idle"]
  /\ answer' = [answer EXCEPT ![p] = a]
  /\ UNCHANGED <<producer, cap, expired>>

(* Nothing is there and the deadline has not passed: release and sleep.    *)
Wait(p) ==
  /\ pc[p] = "locking"
  /\ ~Ready
  /\ ~expired[p]
  /\ pc' = [pc EXCEPT ![p] = "waiting"]
  /\ UNCHANGED <<inner, producer, cap, expired, answer, ghosts>>

TimeOut(p) ==
  /\ pc[p] = "locking"
  /\ ~Ready
  /\ expired[p]
  /\ Return(p, "timeout")
  /\ UNCHANGED <<inner, ghosts>>

\* mutant: the drops are reported only when no record is waiting
OverflowBytesLast == IF dropped > 0 /\ records = <<>> THEN OverflowSize ELSE 0

(* What the overflow record, if one is due, takes of the buffer.           *)
OverflowBytes == IF dropped > 0 THEN OverflowSize ELSE 0

(* The first thing to copy does not fit; it stays queued.                  *)
TooSmall(p) ==
  /\ pc[p] = "locking"
  /\ \/ OverflowBytes > cap[p]
     \/ OverflowBytes = 0 /\ records # <<>> /\ PrefixBytes(1) > cap[p]
  /\ Return(p, "too_small")
  /\ UNCHANGED <<inner, ghosts>>

\* mutant: the length of what was popped is not given back
PopUncounted(n) ==
  /\ records' = SubSeq(records, n + 1, Len(records))
  /\ UNCHANGED bytes

\* mutant: pop_back instead of pop_front
PopBack(n) ==
  /\ records' = SubSeq(records, 1, Len(records) - n)
  /\ bytes' = bytes - PrefixBytes(n)

(* The n oldest records leave the queue.                                   *)
Pop(n) ==
  /\ records' = SubSeq(records, n + 1, Len(records))
  /\ bytes' = bytes - PrefixBytes(n)

(* The overflow record first, then whole records while they fit.           *)
Copy(p) ==
  /\ pc[p] = "locking"
  /\ \E n \in 0 .. Len(records) :
       /\ OverflowBytes + PrefixBytes(n) \in 1 .. cap[p]
       /\ n < Len(records) => OverflowBytes + PrefixBytes(n + 1) > cap[p]
       /\ Pop(n)
       /\ taken' = taken + n
       /\ lastTaken' = IF n > 0 THEN records[n].id ELSE lastTaken
  /\ IF OverflowBytes > 0
     THEN dropped' = 0 /\ reported' = reported + dropped
     ELSE UNCHANGED <<dropped, reported>>
  /\ Return(p, "records")
  /\ UNCHANGED <<closed, pushed, inBytes>>

\* mutant: a closed queue answers its status at once
IsClosed == closed # "open"

(* Nothing was written and the queue is closed.                            *)
Drained == closed # "open" /\ dropped = 0 /\ records = <<>>

AnswerStatus(p) ==
  /\ pc[p] = "locking"
  /\ Drained
  /\ Return(p, closed)
  /\ UNCHANGED <<inner, ghosts>>

PollStep(p) == Wait(p) \/ TimeOut(p) \/ TooSmall(p) \/ Copy(p) \/ AnswerStatus(p)

Next ==
  \/ \E size \in RecordSizes : Push(size)
  \/ \E status \in Statuses : Close(status)
  \/ NotifyAll
  \/ \E p \in Pollers :
       \/ \E c \in Caps : Enter(p, c)
       \/ DeadlinePasses(p)
       \/ SpuriousWakeup(p)
       \/ PollStep(p)

Spec == Init /\ [][Next]_vars

(* The node thread finishes push and close, and a poll that can have the   *)
(* mutex gets it.  No poll has to reach its deadline and no event has to   *)
(* come.                                                                   *)
Fairness == WF_vars(NotifyAll) /\ \A p \in Pollers : WF_vars(PollStep(p))

FairSpec == Spec /\ Fairness

-----------------------------------------------------------------------------
(* Every variable has its type; in particular bytes never exceeds the      *)
(* bound of push and its subtraction in poll never underflows.             *)
TypeOK ==
  /\ records \in Seq(Record)
  /\ bytes \in 0 .. MaxBytes
  /\ dropped \in Nat
  /\ closed \in Statuses \cup {"open"}
  /\ producer \in {"run", "notify"}
  /\ pc \in [Pollers -> {"idle", "locking", "waiting"}]
  /\ cap \in [Pollers -> Nat]
  /\ expired \in [Pollers -> BOOLEAN]
  /\ answer \in [Pollers -> Answers]
  /\ pushed \in Nat
  /\ inBytes \in Nat
  /\ taken \in Nat
  /\ lastTaken \in Nat
  /\ reported \in Nat

(* The lengths of the records of a sequence together.                      *)
TotalSize(s) ==
  LET total[n \in 0 .. Len(s)] == IF n = 0 THEN 0 ELSE total[n - 1] + s[n].size
  IN  total[Len(s)]

(* Inner.bytes is the total length of the queued records, and within the   *)
(* bound of push, after any mix of accepted, dropped and partly drained    *)
(* records (push adds, poll subtracts).                                    *)
BytesExact == bytes = TotalSize(records) /\ bytes <= MaxBytes

(* Every event the node pushed is queued, was copied to a caller exactly   *)
(* once, or is counted as dropped and not yet or already reported:         *)
(* "dropped and reported as LP2P_EV_OVERFLOW, never silently".             *)
Conservation == pushed = taken + Len(records) + dropped + reported

(* A caller never holds an event while a drop from before it is            *)
(* unreported: of the events up to the last one copied, those not copied   *)
(* have been reported, however pushes, drops and short polls interleave.   *)
NoSilentGap == lastTaken - taken <= reported

(* Callers get the events in the order they were pushed.                   *)
InOrder ==
  /\ \A i \in 1 .. Len(records) : lastTaken < records[i].id
  /\ \A i, j \in 1 .. Len(records) : i < j => records[i].id < records[j].id

(* A poll sleeps while there is something for it only when the node thread *)
(* is between its unlock and its notify_all: no wakeup is lost although    *)
(* push and close notify without the mutex.                                *)
NoLostWakeup == \A p \in Pollers : pc[p] = "waiting" /\ Ready => producer = "notify"

(* A poll answers the closing status only once every event ever pushed has *)
(* been copied or reported: shutting down loses nothing that was queued.   *)
NothingLostAtClose ==
  \A p \in Pollers : answer[p] \in Statuses => pushed = taken + reported

(* What the callers of lp2p_poll see of the queue.                         *)
Stream == INSTANCE EventStream WITH
  made <- pushed, got <- taken, last <- lastTaken, told <- reported,
  phase <- IF \E p \in Pollers : answer[p] \in Statuses THEN "ended"
           ELSE IF closed = "open" THEN "open" ELSE "closed"

(* However many threads poll with whatever buffers, together they see one  *)
(* stream: in order, nothing twice, every loss reported before an event    *)
(* from after it, and its end only when nothing is left.                   *)
ImplementsStream == Stream!Spec

(* Once the queue is closed every poll returns, whatever its timeout and   *)
(* however many threads poll.                                              *)
ClosedPollsReturn ==
  \A p \in Pollers : (closed # "open" /\ pc[p] # "idle") ~> (pc[p] = "idle")
=============================================================================
