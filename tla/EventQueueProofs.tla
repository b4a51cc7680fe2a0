------------------------- MODULE EventQueueProofs -------------------------
(***************************************************************************)
(* The safety properties of EventQueue for every number of polling         *)
(* threads, every bound, every record and buffer length.                   *)
(*                                                                         *)
(* IInv strengthens the checked invariants with the facts they rest on:    *)
(* the offsets of the queued records climb from Offset(1) to inBytes       *)
(* (Offsets), so bytes is what is between them; a queued record is         *)
(* preceded by no more drops than are counted (Gaps); a status was only    *)
(* answered from a closed and empty queue (Silence).                       *)
(*                                                                         *)
(* The queue also implements EventStream: the polls of all threads         *)
(* together see one stream.                                                *)
(***************************************************************************)
EXTENDS EventQueue, WellFoundedInduction, TLAPS

Offsets ==
  /\ bytes = inBytes - Offset(1)
  /\ \A i \in 1 .. Len(records) : records[i].at <= inBytes
  /\ \A i, j \in 1 .. Len(records) : i <= j => records[i].at <= records[j].at

Gaps ==
  /\ lastTaken <= pushed
  /\ \A i \in 1 .. Len(records) :
       /\ records[i].id <= pushed
       /\ records[i].id - (taken + i) <= dropped + reported

Silence ==
  \A p \in Pollers :
    answer[p] \in Statuses => closed # "open" /\ dropped = 0 /\ records = <<>>

IInv ==
  /\ TypeOK
  /\ Offsets
  /\ Conservation
  /\ Gaps
  /\ NoSilentGap
  /\ InOrder
  /\ NoLostWakeup
  /\ Silence

(* The empty queue satisfies the inductive invariant.                      *)
LEMMA InitIInv == Init => IInv
  BY QueueAssumption
  DEF Init, IInv, TypeOK, Offsets, Offset, Conservation, Gaps, NoSilentGap, InOrder,
      NoLostWakeup, Silence, Ready, Answers, Statuses

(* What the type invariant says of the counters.                           *)
LEMMA Counters ==
  ASSUME TypeOK
  PROVE  /\ bytes \in Nat /\ dropped \in Nat /\ pushed \in Nat /\ inBytes \in Nat
         /\ taken \in Nat /\ lastTaken \in Nat /\ reported \in Nat
         /\ MaxBytes \in Nat /\ bytes <= MaxBytes /\ Len(records) \in Nat
  BY QueueAssumption DEF TypeOK

(* What the type invariant says of the queued records.                     *)
LEMMA Fields ==
  ASSUME TypeOK
  PROVE  /\ \A i \in 1 .. Len(records) : records[i] \in Record
         /\ \A i \in 1 .. Len(records) : records[i].at \in Nat /\ records[i].id \in Nat
         /\ records = <<>> <=> Len(records) = 0
<1>1. records \in Seq(Record)
  BY DEF TypeOK
<1>2. /\ \A i \in 1 .. Len(records) : records[i] \in Record
      /\ records = <<>> <=> Len(records) = 0
  BY <1>1
<1>3. \A r \in Record : r.at \in Nat /\ r.id \in Nat
  BY DEF Record
<1> QED
  BY <1>2, <1>3

(* A push that fits or is dropped keeps it.                                *)
LEMMA PushIInv ==
  ASSUME IInv, NEW size \in RecordSizes, Push(size)
  PROVE  IInv'
<1> DEFINE new == [id |-> pushed + 1, size |-> size, at |-> inBytes]
<1>0. size \in Nat
  BY QueueAssumption
<1>a. TypeOK
  BY DEF IInv
<1>b. /\ bytes \in Nat /\ dropped \in Nat /\ pushed \in Nat /\ inBytes \in Nat
      /\ taken \in Nat /\ lastTaken \in Nat /\ reported \in Nat
      /\ MaxBytes \in Nat /\ bytes <= MaxBytes /\ Len(records) \in Nat
  BY <1>a, Counters
<1>c. \A i \in 1 .. Len(records) : records[i].at \in Nat /\ records[i].id \in Nat
  BY <1>a, Fields
<1>d. pushed = taken + Len(records) + dropped + reported
  BY DEF IInv, Conservation
<1>1. CASE Fits(size)
  <2>1. /\ records' = Append(records, new) /\ bytes' = bytes + size
        /\ inBytes' = inBytes + size /\ dropped' = dropped /\ pushed' = pushed + 1
        /\ UNCHANGED <<closed, pc, cap, expired, answer, taken, lastTaken, reported>>
        /\ producer' = "notify" /\ closed = "open"
    BY <1>1 DEF Push, Accept, polls
  <2>2. new \in Record /\ new.id = pushed + 1 /\ new.at = inBytes
    BY <1>b DEF Record
  <2> HIDE DEF new
  <2>3. /\ records' \in Seq(Record)
        /\ Len(records') = Len(records) + 1
        /\ \A i \in 1 .. Len(records) : records'[i] = records[i]
        /\ records'[Len(records) + 1] = new
    BY <1>a, <2>1, <2>2 DEF TypeOK
  <2>4. /\ inBytes' = inBytes + size /\ bytes' = bytes + size /\ pushed' = pushed + 1
        /\ dropped' = dropped /\ taken' = taken /\ lastTaken' = lastTaken
        /\ reported' = reported
    BY <2>1
  <2>5. Len(records') = Len(records) + 1
    BY <2>3
  <2>6. \A i \in 1 .. Len(records') :
          \/ i \in 1 .. Len(records) /\ records'[i] = records[i]
          \/ i = Len(records) + 1 /\ records'[i] = new
    BY <1>b, <2>3, <2>5
  <2>7. TypeOK'
    <3>1. bytes' \in 0 .. MaxBytes /\ inBytes' \in Nat /\ pushed' \in Nat
      BY <1>0, <1>1, <1>b, <2>4 DEF Fits
    <3> QED
      BY <1>a, <2>1, <2>3, <3>1 DEF TypeOK
  <2>8. Offsets'
    <3>1. Offset(1)' = Offset(1)
      <4>1. CASE Len(records) = 0
        <5>1. records'[1] = new
          BY <2>3, <4>1
        <5> QED
          BY <2>2, <2>5, <4>1, <5>1 DEF Offset
      <4>2. CASE Len(records) >= 1
        <5>1. records'[1] = records[1]
          BY <1>b, <2>3, <4>2
        <5> QED
          BY <1>b, <2>5, <4>2, <5>1 DEF Offset
      <4> QED
        BY <1>b, <4>1, <4>2
    <3>2. Offset(1) \in Nat
      BY <1>b, <1>c DEF Offset
    <3>3. bytes' = inBytes' - Offset(1)'
      <4>1. bytes = inBytes - Offset(1)
        BY DEF IInv, Offsets
      <4> QED
        BY <1>0, <1>b, <2>4, <3>1, <3>2, <4>1
    <3>4. \A i \in 1 .. Len(records) : records[i].at <= inBytes
      BY DEF IInv, Offsets
    <3>5. \A i, j \in 1 .. Len(records) : i <= j => records[i].at <= records[j].at
      BY DEF IInv, Offsets
    <3>6. ASSUME NEW i \in 1 .. Len(records') PROVE records'[i].at <= inBytes'
      <4>1. CASE i \in 1 .. Len(records) /\ records'[i] = records[i]
        BY <1>0, <1>b, <1>c, <2>4, <3>4, <4>1
      <4>2. CASE i = Len(records) + 1 /\ records'[i] = new
        BY <1>0, <1>b, <2>2, <2>4, <4>2
      <4> QED
        BY <2>6, <4>1, <4>2
    <3>7. ASSUME NEW i \in 1 .. Len(records'), NEW j \in 1 .. Len(records'), i <= j
          PROVE  records'[i].at <= records'[j].at
      <4>1. CASE j \in 1 .. Len(records)
        BY <1>b, <2>5, <2>6, <3>5, <3>7, <4>1
      <4>2. CASE j = Len(records) + 1
        BY <1>b, <1>c, <2>2, <2>6, <3>4, <4>2
      <4> QED
        BY <2>6, <4>1, <4>2
    <3> QED
      BY <3>3, <3>6, <3>7 DEF Offsets
  <2>9. Conservation'
    BY <1>b, <1>d, <2>4, <2>5 DEF Conservation
  <2>10. Gaps'
    <3>1. \A i \in 1 .. Len(records) :
            records[i].id <= pushed /\ records[i].id - (taken + i) <= dropped + reported
      BY DEF IInv, Gaps
    <3>2. lastTaken <= pushed
      BY DEF IInv, Gaps
    <3>3. ASSUME NEW i \in 1 .. Len(records')
          PROVE  /\ records'[i].id <= pushed'
                 /\ records'[i].id - (taken' + i) <= dropped' + reported'
      <4>1. CASE i \in 1 .. Len(records) /\ records'[i] = records[i]
        BY <1>b, <1>c, <2>4, <3>1, <4>1
      <4>2. CASE i = Len(records) + 1 /\ records'[i] = new
        BY <1>b, <1>d, <2>2, <2>4, <4>2
      <4> QED
        BY <2>6, <4>1, <4>2
    <3>4. lastTaken' <= pushed'
      BY <1>b, <2>4, <3>2
    <3> QED
      BY <3>3, <3>4 DEF Gaps
  <2>11. NoSilentGap'
    BY <2>4 DEF IInv, NoSilentGap
  <2>12. InOrder'
    <3>1. /\ lastTaken <= pushed
          /\ \A i \in 1 .. Len(records) : records[i].id <= pushed
      BY DEF IInv, Gaps
    <3>2. \A i \in 1 .. Len(records) : lastTaken < records[i].id
      BY DEF IInv, InOrder
    <3>3. \A i, j \in 1 .. Len(records) : i < j => records[i].id < records[j].id
      BY DEF IInv, InOrder
    <3>4. ASSUME NEW i \in 1 .. Len(records') PROVE lastTaken' < records'[i].id
      <4>1. CASE i \in 1 .. Len(records) /\ records'[i] = records[i]
        BY <2>4, <3>2, <4>1
      <4>2. CASE i = Len(records) + 1 /\ records'[i] = new
        BY <1>b, <2>2, <2>4, <3>1, <4>2
      <4> QED
        BY <2>6, <4>1, <4>2
    <3>5. ASSUME NEW i \in 1 .. Len(records'), NEW j \in 1 .. Len(records'), i < j
          PROVE  records'[i].id < records'[j].id
      <4>1. CASE j \in 1 .. Len(records)
        BY <1>b, <2>5, <2>6, <3>3, <3>5, <4>1
      <4>2. CASE j = Len(records) + 1
        BY <1>b, <1>c, <2>2, <2>6, <3>1, <3>5, <4>2
      <4> QED
        BY <2>6, <4>1, <4>2
    <3> QED
      BY <3>4, <3>5 DEF InOrder
  <2>13. NoLostWakeup' /\ Silence'
    BY <2>1 DEF IInv, NoLostWakeup, Silence
  <2> QED
    BY <2>7, <2>8, <2>9, <2>10, <2>11, <2>12, <2>13 DEF IInv
<1>2. CASE ~Fits(size)
  <2>1. /\ dropped' = dropped + 1 /\ pushed' = pushed + 1
        /\ UNCHANGED <<records, bytes, inBytes, closed, pc, cap, expired, answer, taken,
                       lastTaken, reported>>
        /\ producer' = "notify" /\ closed = "open"
    BY <1>2 DEF Push, Drop, polls
  <2>2. /\ dropped' = dropped + 1 /\ pushed' = pushed + 1 /\ records' = records
        /\ taken' = taken /\ lastTaken' = lastTaken /\ reported' = reported
    BY <2>1
  <2>3. TypeOK'
    <3>1. dropped' \in Nat /\ pushed' \in Nat
      BY <1>b, <2>2
    <3> QED
      BY <1>a, <2>1, <3>1 DEF TypeOK
  <2>4. Offsets'
    BY <2>1 DEF IInv, Offsets, Offset
  <2>5. Conservation'
    BY <1>b, <1>d, <2>2 DEF Conservation
  <2>6. Gaps'
    <3>1. \A i \in 1 .. Len(records) :
            records[i].id <= pushed /\ records[i].id - (taken + i) <= dropped + reported
      BY DEF IInv, Gaps
    <3>2. lastTaken <= pushed
      BY DEF IInv, Gaps
    <3> QED
      BY <1>b, <1>c, <2>2, <3>1, <3>2 DEF Gaps
  <2>7. InOrder' /\ NoSilentGap'
    BY <2>2 DEF IInv, InOrder, NoSilentGap
  <2>8. NoLostWakeup' /\ Silence'
    BY <2>1 DEF IInv, NoLostWakeup, Silence
  <2> QED
    BY <2>3, <2>4, <2>5, <2>6, <2>7, <2>8 DEF IInv
<1> QED
  BY <1>1, <1>2

(* Copying the n oldest records after the overflow record keeps it.        *)
LEMMA CopyIInv ==
  ASSUME IInv, NEW p \in Pollers, Copy(p)
  PROVE  IInv'
<1>a. TypeOK
  BY DEF IInv
<1>b. /\ bytes \in Nat /\ dropped \in Nat /\ pushed \in Nat /\ inBytes \in Nat
      /\ taken \in Nat /\ lastTaken \in Nat /\ reported \in Nat
      /\ MaxBytes \in Nat /\ bytes <= MaxBytes /\ Len(records) \in Nat
  BY <1>a, Counters
<1>c. \A i \in 1 .. Len(records) : records[i].at \in Nat /\ records[i].id \in Nat
  BY <1>a, Fields
<1>1. PICK n \in 0 .. Len(records) :
        /\ OverflowBytes + PrefixBytes(n) \in 1 .. cap[p]
        /\ records' = SubSeq(records, n + 1, Len(records))
        /\ bytes' = bytes - PrefixBytes(n)
        /\ taken' = taken + n
        /\ lastTaken' = IF n > 0 THEN records[n].id ELSE lastTaken
  BY DEF Copy, Pop
<1>2. /\ pc' = [pc EXCEPT ![p] = "idle"] /\ answer' = [answer EXCEPT ![p] = "records"]
      /\ UNCHANGED <<closed, pushed, inBytes, producer, cap, expired>>
  BY DEF Copy, Return
<1>3. dropped' = 0 /\ reported' = reported + dropped
  BY <1>b, QueueAssumption DEF Copy, OverflowBytes
<1>4. n \in Nat /\ n <= Len(records)
  BY <1>b
<1>5. /\ Len(records') = Len(records) - n
      /\ \A i \in 1 .. Len(records') : i + n \in 1 .. Len(records) /\ records'[i] = records[i + n]
      /\ records' \in Seq(Record)
  BY <1>1, <1>4, <1>a, <1>b DEF TypeOK
<1>6. /\ taken' = taken + n /\ pushed' = pushed /\ inBytes' = inBytes
      /\ Len(records') = Len(records) - n
  BY <1>1, <1>2, <1>5
<1>7. \A i \in 1 .. Len(records') : i + n \in 1 .. Len(records) /\ records'[i] = records[i + n]
  BY <1>5
<1>8. Offset(n + 1) \in Nat /\ Offset(1) \in Nat /\ Offset(n + 1) <= inBytes
      /\ Offset(1) <= Offset(n + 1)
  <2>1. \A i \in 1 .. Len(records) : records[i].at <= inBytes
    BY DEF IInv, Offsets
  <2>2. \A i, j \in 1 .. Len(records) : i <= j => records[i].at <= records[j].at
    BY DEF IInv, Offsets
  <2> QED
    BY <1>4, <1>b, <1>c, <2>1, <2>2 DEF Offset
<1>9. Offset(1)' = Offset(n + 1)
  <2>1. CASE n < Len(records)
    <3>1. records'[1] = records[n + 1]
      BY <1>4, <1>6, <1>7, <1>b, <2>1
    <3> QED
      BY <1>4, <1>6, <1>b, <2>1, <3>1 DEF Offset
  <2>2. CASE n = Len(records)
    BY <1>4, <1>6, <1>b, <2>2 DEF Offset
  <2> QED
    BY <1>4, <1>b, <2>1, <2>2
<1>10. bytes' = inBytes' - Offset(1)' /\ bytes' <= bytes
  <2>1. bytes = inBytes - Offset(1)
    BY DEF IInv, Offsets
  <2>2. bytes' = bytes - (Offset(n + 1) - Offset(1))
    BY <1>1 DEF PrefixBytes
  <2> QED
    BY <1>6, <1>8, <1>9, <1>b, <2>1, <2>2
<1>11. TypeOK'
  <2>1. bytes' \in 0 .. MaxBytes
    BY <1>6, <1>8, <1>9, <1>10, <1>b
  <2>2. lastTaken' \in Nat
    <3>1. n > 0 => lastTaken' = records[n].id /\ n \in 1 .. Len(records)
      BY <1>1, <1>4, <1>b
    <3>2. ~(n > 0) => lastTaken' = lastTaken
      BY <1>1
    <3> QED
      BY <1>b, <1>c, <3>1, <3>2
  <2>3. dropped' \in Nat /\ taken' \in Nat /\ reported' \in Nat
    BY <1>3, <1>4, <1>6, <1>b
  <2> QED
    BY <1>a, <1>2, <1>5, <2>1, <2>2, <2>3 DEF TypeOK, Answers
<1>12. Offsets'
  <2>1. \A i \in 1 .. Len(records) : records[i].at <= inBytes
    BY DEF IInv, Offsets
  <2>2. \A i, j \in 1 .. Len(records) : i <= j => records[i].at <= records[j].at
    BY DEF IInv, Offsets
  <2>3. \A i \in 1 .. Len(records') : records'[i].at <= inBytes'
    BY <1>6, <1>7, <2>1
  <2>4. ASSUME NEW i \in 1 .. Len(records'), NEW j \in 1 .. Len(records'), i <= j
        PROVE  records'[i].at <= records'[j].at
    <3>1. i + n <= j + n
      BY <1>4, <1>6, <1>b, <2>4
    <3> QED
      BY <1>7, <2>2, <3>1
  <2> QED
    BY <1>10, <2>3, <2>4 DEF Offsets
<1>13. Conservation'
  <2>1. pushed = taken + Len(records) + dropped + reported
    BY DEF IInv, Conservation
  <2> QED
    BY <1>3, <1>4, <1>6, <1>b, <2>1 DEF Conservation
<1>14. \A i \in 1 .. Len(records) :
         records[i].id <= pushed /\ records[i].id - (taken + i) <= dropped + reported
  BY DEF IInv, Gaps
<1>15. Gaps'
  <2>1. lastTaken' <= pushed'
    <3>1. lastTaken <= pushed
      BY DEF IInv, Gaps
    <3>2. CASE n > 0
      <4>1. lastTaken' = records[n].id /\ n \in 1 .. Len(records)
        BY <1>1, <1>4, <1>b, <3>2
      <4> QED
        BY <1>6, <1>14, <4>1
    <3>3. CASE ~(n > 0)
      <4>1. lastTaken' = lastTaken
        BY <1>1, <3>3
      <4> QED
        BY <1>6, <3>1, <4>1
    <3> QED
      BY <3>2, <3>3
  <2>2. ASSUME NEW i \in 1 .. Len(records')
        PROVE  /\ records'[i].id <= pushed'
               /\ records'[i].id - (taken' + i) <= dropped' + reported'
    <3>1. /\ i \in Nat
          /\ records'[i].id = records[i + n].id
          /\ records[i + n].id <= pushed
          /\ records[i + n].id - (taken + (i + n)) <= dropped + reported
          /\ records[i + n].id \in Nat
      BY <1>7, <1>14, <1>c
    <3> QED
      BY <1>3, <1>4, <1>6, <1>b, <3>1
  <2> QED
    BY <2>1, <2>2 DEF Gaps
<1>16. NoSilentGap'
  <2>1. CASE n = 0
    <3>1. lastTaken - taken <= reported /\ lastTaken' = lastTaken
      BY <1>1, <2>1 DEF IInv, NoSilentGap
    <3> QED
      BY <1>3, <1>6, <1>b, <2>1, <3>1 DEF NoSilentGap
  <2>2. CASE n > 0
    <3>1. /\ records[n].id - (taken + n) <= dropped + reported
          /\ records[n].id \in Nat
          /\ lastTaken' = records[n].id
      BY <1>1, <1>4, <1>14, <1>b, <1>c, <2>2
    <3> QED
      BY <1>3, <1>4, <1>6, <1>b, <3>1 DEF NoSilentGap
  <2> QED
    BY <1>4, <2>1, <2>2
<1>17. InOrder'
  <2>1. \A i \in 1 .. Len(records) : lastTaken < records[i].id
    BY DEF IInv, InOrder
  <2>2. \A i, j \in 1 .. Len(records) : i < j => records[i].id < records[j].id
    BY DEF IInv, InOrder
  <2>3. ASSUME NEW i \in 1 .. Len(records') PROVE lastTaken' < records'[i].id
    <3>1. n > 0 => n \in 1 .. Len(records) /\ n < i + n
      BY <1>4, <1>6, <1>b
    <3>2. n > 0 => lastTaken' = records[n].id
      BY <1>1
    <3>3. ~(n > 0) => lastTaken' = lastTaken
      BY <1>1
    <3> QED
      BY <1>7, <2>1, <2>2, <3>1, <3>2, <3>3
  <2>4. ASSUME NEW i \in 1 .. Len(records'), NEW j \in 1 .. Len(records'), i < j
        PROVE  records'[i].id < records'[j].id
    <3>1. i + n < j + n
      BY <1>4, <1>6, <1>b, <2>4
    <3> QED
      BY <1>7, <2>2, <3>1
  <2> QED
    BY <2>3, <2>4 DEF InOrder
<1>18. ~(dropped = 0 /\ records = <<>>)
  <2>1. ASSUME dropped = 0, records = <<>> PROVE FALSE
    <3>1. n = 0 /\ OverflowBytes = 0
      BY <1>4, <1>a, <1>b, <2>1, Fields DEF OverflowBytes
    <3>2. PrefixBytes(n) = 0
      BY <1>8, <3>1 DEF PrefixBytes
    <3> QED
      BY <1>1, <3>1, <3>2
  <2> QED
    BY <2>1
<1>19. NoLostWakeup'
  <2>1. Ready
    BY <1>18, <1>b DEF Ready
  <2> QED
    BY <1>2, <1>a, <2>1 DEF IInv, NoLostWakeup, TypeOK
<1>20. Silence'
  BY <1>2, <1>18, <1>a DEF IInv, Silence, Statuses, TypeOK
<1> QED
  BY <1>11, <1>12, <1>13, <1>15, <1>16, <1>17, <1>19, <1>20 DEF IInv

(* Every other step leaves the queue's content and its history alone.      *)
LEMMA QuietIInv ==
  ASSUME IInv,
         UNCHANGED <<records, bytes, dropped, pushed, inBytes, taken, lastTaken, reported>>,
         TypeOK', NoLostWakeup', Silence'
  PROVE  IInv'
<1>1. Offsets'
  BY DEF IInv, Offsets, Offset
<1>2. Conservation' /\ NoSilentGap'
  BY DEF IInv, Conservation, NoSilentGap
<1>3. Gaps' /\ InOrder'
  BY DEF IInv, Gaps, InOrder
<1> QED
  BY <1>1, <1>2, <1>3 DEF IInv

(* Every step of the specification keeps the inductive invariant.          *)
LEMMA NextIInv == IInv /\ [Next]_vars => IInv'
<1> SUFFICES ASSUME IInv, [Next]_vars PROVE IInv'
  OBVIOUS
<1> USE QueueAssumption DEF TypeOK, NoLostWakeup, Silence, Ready, Statuses, Answers
<1>1. ASSUME NEW size \in RecordSizes, Push(size) PROVE IInv'
  BY <1>1, PushIInv
<1>2. ASSUME NEW status \in Statuses, Close(status) PROVE IInv'
  BY <1>2, QuietIInv DEF IInv, Close, polls, ghosts
<1>3. CASE NotifyAll
  BY <1>3, QuietIInv DEF IInv, NotifyAll, inner, ghosts
<1>4. ASSUME NEW p \in Pollers, NEW c \in Caps, Enter(p, c) PROVE IInv'
  BY <1>4, QuietIInv DEF IInv, Enter, inner, ghosts
<1>5. ASSUME NEW p \in Pollers, DeadlinePasses(p) PROVE IInv'
  BY <1>5, QuietIInv DEF IInv, DeadlinePasses, inner, ghosts
<1>6. ASSUME NEW p \in Pollers, SpuriousWakeup(p) PROVE IInv'
  BY <1>6, QuietIInv DEF IInv, SpuriousWakeup, inner, ghosts
<1>7. ASSUME NEW p \in Pollers, PollStep(p) PROVE IInv'
  <2>1. CASE Wait(p)
    BY <2>1, QuietIInv DEF IInv, Wait, inner, ghosts
  <2>2. CASE TimeOut(p)
    BY <2>2, QuietIInv DEF IInv, TimeOut, Return, inner, ghosts
  <2>3. CASE TooSmall(p)
    BY <2>3, QuietIInv DEF IInv, TooSmall, Return, inner, ghosts
  <2>4. CASE Copy(p)
    BY <2>4, CopyIInv
  <2>5. CASE AnswerStatus(p)
    BY <2>5, QuietIInv DEF IInv, AnswerStatus, Drained, Return, inner, ghosts
  <2> QED
    BY <1>7, <2>1, <2>2, <2>3, <2>4, <2>5 DEF PollStep
<1>8. CASE UNCHANGED vars
  BY <1>8, QuietIInv DEF IInv, vars, inner, polls, ghosts
<1> QED
  BY <1>1, <1>2, <1>3, <1>4, <1>5, <1>6, <1>7, <1>8 DEF Next

(* The inductive invariant holds in every reachable state.                 *)
THEOREM Invariance == Spec => []IInv
  BY InitIInv, NextIInv, PTL DEF Spec

(* Type correctness: the byte count stays between 0 and the bound of push. *)
THEOREM TypeCorrect == Spec => []TypeOK
  BY Invariance, PTL DEF IInv

(* No event leaves the queue unaccounted for.                              *)
THEOREM EventsConserved == Spec => []Conservation
  BY Invariance, PTL DEF IInv

(* Drops are reported ahead of every event that was pushed after them.     *)
THEOREM DropsReportedFirst == Spec => []NoSilentGap
  BY Invariance, PTL DEF IInv

(* Events are copied in the order they were pushed.                        *)
THEOREM OrderKept == Spec => []InOrder
  BY Invariance, PTL DEF IInv

(* notify_all after the unlock loses no wakeup, for any number of pollers. *)
THEOREM WakeupsArrive == Spec => []NoLostWakeup
  BY Invariance, PTL DEF IInv

(* A closing status is only answered when everything was handed over.      *)
THEOREM ClosesDrained == Spec => []NothingLostAtClose
<1>1. IInv => NothingLostAtClose
  BY Counters, Fields DEF IInv, NothingLostAtClose, Silence, Conservation
<1> QED
  BY <1>1, Invariance, PTL

-----------------------------------------------------------------------------
(* BytesExact speaks of the lengths of the records, which the offsets of   *)
(* IInv do not mention: Sizes says that each record ends where the next    *)
(* one begins.  Then the sum over the queue, whose value is proved by the  *)
(* least number of records it would be wrong for, is what the offsets say. *)
Sizes ==
  \A i \in 1 .. Len(records) :
    /\ i < Len(records) => records[i + 1].at = records[i].at + records[i].size
    /\ i = Len(records) => inBytes = records[i].at + records[i].size

(* A record joins at the end of what was accepted so far.                  *)
LEMMA PushSizes ==
  ASSUME IInv, Sizes, NEW size \in RecordSizes, Push(size)
  PROVE  Sizes'
<1> DEFINE new == [id |-> pushed + 1, size |-> size, at |-> inBytes]
           n == Len(records)
<1>0. size \in Nat
  BY QueueAssumption
<1>a. TypeOK
  BY DEF IInv
<1>b. n \in Nat /\ inBytes \in Nat /\ pushed \in Nat
  BY <1>a, Counters
<1>1. CASE Fits(size)
  <2>1. records' = Append(records, new) /\ inBytes' = inBytes + size
    BY <1>1 DEF Push, Accept
  <2>2. new \in Record /\ new.at = inBytes /\ new.size = size
    BY <1>b DEF Record
  <2> HIDE DEF new
  <2>3. /\ Len(records') = n + 1 /\ records'[n + 1] = new
        /\ \A i \in 1 .. n : records'[i] = records[i]
    BY <1>a, <2>1, <2>2 DEF TypeOK
  <2>4. ASSUME NEW i \in 1 .. n + 1
        PROVE  /\ i < n + 1 => records'[i + 1].at = records'[i].at + records'[i].size
               /\ i = n + 1 => inBytes' = records'[i].at + records'[i].size
    <3>1. CASE i < n
      <4>1. i \in 1 .. n /\ i + 1 \in 1 .. n
        BY <3>1, <1>b
      <4> QED BY <4>1, <3>1, <2>3, <1>b DEF Sizes
    <3>2. CASE i = n
      <4>1. i \in 1 .. n
        BY <3>2, <1>b
      <4> QED BY <4>1, <3>2, <2>2, <2>3, <1>b DEF Sizes
    <3>3. CASE i = n + 1
      BY <3>3, <2>1, <2>2, <2>3, <1>b
    <3>4. i < n \/ i = n \/ i = n + 1
      BY <1>b
    <3> QED BY <3>1, <3>2, <3>3, <3>4
  <2>5. Sizes' <=> \A i \in 1 .. Len(records') :
                     /\ i < Len(records') => records'[i + 1].at = records'[i].at + records'[i].size
                     /\ i = Len(records') => inBytes' = records'[i].at + records'[i].size
    BY DEF Sizes
  <2> QED BY <2>3, <2>4, <2>5
<1>2. CASE ~Fits(size)
  <2>1. UNCHANGED <<records, inBytes>>
    BY <1>2 DEF Push, Drop
  <2> QED BY <2>1 DEF Sizes
<1> QED BY <1>1, <1>2

(* The oldest records leave; those that stay keep their neighbours.        *)
LEMMA CopySizes ==
  ASSUME IInv, Sizes, NEW p \in Pollers, Copy(p)
  PROVE  Sizes'
<1>a. TypeOK
  BY DEF IInv
<1>b. Len(records) \in Nat /\ inBytes \in Nat
  BY <1>a, Counters
<1>1. PICK n \in 0 .. Len(records) : records' = SubSeq(records, n + 1, Len(records))
  BY DEF Copy, Pop
<1>2. UNCHANGED inBytes
  BY DEF Copy
<1>3. n \in Nat /\ n <= Len(records)
  BY <1>b
<1>4. /\ Len(records') = Len(records) - n
      /\ \A i \in 1 .. Len(records') : i + n \in 1 .. Len(records) /\ records'[i] = records[i + n]
  BY <1>1, <1>3, <1>a, <1>b DEF TypeOK
<1> DEFINE m == Len(records')
<1>5. ASSUME NEW i \in 1 .. m
      PROVE  /\ i < m => records'[i + 1].at = records'[i].at + records'[i].size
             /\ i = m => inBytes' = records'[i].at + records'[i].size
  <2>1. m = Len(records) - n /\ i + n \in 1 .. Len(records) /\ records'[i] = records[i + n]
    BY <1>4
  <2>2. ASSUME i < m PROVE records'[i + 1].at = records'[i].at + records'[i].size
    <3>1. i + 1 \in 1 .. m /\ i + n < Len(records) /\ (i + 1) + n = (i + n) + 1
      BY <2>1, <2>2, <1>3, <1>b
    <3>2. records'[i + 1] = records[(i + n) + 1]
      BY <3>1, <1>4
    <3>3. records[(i + n) + 1].at = records[i + n].at + records[i + n].size
      BY <3>1, <2>1 DEF Sizes
    <3> QED BY <3>2, <3>3, <2>1
  <2>3. ASSUME i = m PROVE inBytes' = records'[i].at + records'[i].size
    <3>1. i + n = Len(records)
      BY <2>1, <2>3, <1>3, <1>b
    <3> QED BY <3>1, <2>1, <1>2 DEF Sizes
  <2> QED BY <2>2, <2>3
<1> QED BY <1>5 DEF Sizes

LEMMA InitSizes == Init => Sizes
  BY DEF Init, Sizes

LEMMA NextSizes == IInv /\ Sizes /\ [Next]_vars => Sizes'
<1> SUFFICES ASSUME IInv, Sizes, [Next]_vars PROVE Sizes'
  OBVIOUS
<1>1. ASSUME UNCHANGED <<records, inBytes>> PROVE Sizes'
  BY <1>1 DEF Sizes
<1>2. ASSUME NEW size \in RecordSizes, Push(size) PROVE Sizes'
  BY <1>2, PushSizes
<1>3. ASSUME NEW status \in Statuses, Close(status) PROVE Sizes'
  BY <1>3, <1>1 DEF Close, ghosts
<1>4. CASE NotifyAll
  BY <1>4, <1>1 DEF NotifyAll, inner, ghosts
<1>5. ASSUME NEW p \in Pollers, \/ \E c \in Caps : Enter(p, c)
                               \/ DeadlinePasses(p)
                               \/ SpuriousWakeup(p)
      PROVE  Sizes'
  BY <1>5, <1>1 DEF Enter, DeadlinePasses, SpuriousWakeup, inner, ghosts
<1>6. ASSUME NEW p \in Pollers, PollStep(p) PROVE Sizes'
  BY <1>6, <1>1, CopySizes DEF PollStep, Wait, TimeOut, TooSmall, AnswerStatus, inner, ghosts
<1>7. CASE UNCHANGED vars
  BY <1>7, <1>1 DEF vars, inner, ghosts
<1> QED BY <1>2, <1>3, <1>4, <1>5, <1>6, <1>7 DEF Next

-----------------------------------------------------------------------------
LEMMA LeastNumber ==
  ASSUME NEW T \in SUBSET Nat, T # {}
  PROVE  \E n \in T : \A m \in T : n <= m
<1>1. PICK n \in T : \A m \in T : ~(<<m, n>> \in OpToRel(<, Nat))
  BY NatLessThanWellFounded, WFMin
<1>2. \A m \in T : ~(m < n)
  BY <1>1 DEF OpToRel
<1> QED BY <1>2

(* g adds up the lengths of the records of s.                              *)
Adding(g, s, m) == g = [n \in 0 .. m |-> IF n = 0 THEN 0 ELSE g[n - 1] + s[n].size]

(* The sum has a closed form that the offsets give.                        *)
LEMMA OffsetsAdd ==
  ASSUME IInv, Sizes
  PROVE  Adding([n \in 0 .. Len(records) |-> PrefixBytes(n)], records, Len(records))
<1>a. TypeOK
  BY DEF IInv
<1>b. Len(records) \in Nat /\ inBytes \in Nat
  BY <1>a, Counters
<1>c. \A i \in 1 .. Len(records) : records[i].at \in Nat /\ records[i].size \in Nat
  <2>1. \A i \in 1 .. Len(records) : records[i] \in Record
    BY <1>a, Fields
  <2>2. \A r \in Record : r.at \in Nat /\ r.size \in Nat
    BY QueueAssumption DEF Record
  <2> QED BY <2>1, <2>2
<1> DEFINE g == [n \in 0 .. Len(records) |-> PrefixBytes(n)]
<1>1. ASSUME NEW n \in 0 .. Len(records)
      PROVE  PrefixBytes(n) = IF n = 0 THEN 0 ELSE g[n - 1] + records[n].size
  <2>0. \A i \in 1 .. Len(records) + 1 : Offset(i) \in Nat
    BY <1>b, <1>c DEF Offset
  <2>1. CASE n = 0
    <3>1. Offset(1) \in Nat /\ n + 1 = 1
      BY <2>0, <2>1, <1>b
    <3> QED BY <3>1, <2>1 DEF PrefixBytes
  <2>2. CASE n # 0
    <3>1. n \in 1 .. Len(records) /\ n - 1 \in 0 .. Len(records) /\ (n - 1) + 1 = n
      BY <2>2, <1>b
    <3>2. g[n - 1] = Offset(n) - Offset(1)
      BY <3>1 DEF PrefixBytes
    <3>3. Offset(n) = records[n].at
      BY <3>1 DEF Offset
    <3>4. Offset(n + 1) = records[n].at + records[n].size
      BY <3>1, <1>b DEF Offset, Sizes
    <3>5. PrefixBytes(n) = Offset(n + 1) - Offset(1) /\ Offset(1) \in Nat
      BY <2>0, <1>b DEF PrefixBytes
    <3> HIDE DEF g
    <3> QED BY <3>1, <3>2, <3>3, <3>4, <3>5, <1>c, <2>2
  <2> QED BY <2>1, <2>2
<1> QED BY <1>1 DEF Adding

(* Only one function adds them up.                                         *)
LEMMA AddingUnique ==
  ASSUME NEW s, NEW N \in Nat, NEW g, NEW h, Adding(g, s, N), Adding(h, s, N)
  PROVE  g[N] = h[N]
<1>1. /\ \A n \in 0 .. N : g[n] = IF n = 0 THEN 0 ELSE g[n - 1] + s[n].size
      /\ \A n \in 0 .. N : h[n] = IF n = 0 THEN 0 ELSE h[n - 1] + s[n].size
  BY DEF Adding
<1> DEFINE T == {n \in 0 .. N : g[n] # h[n]}
<1>2. T = {}
  <2>1. SUFFICES ASSUME T # {} PROVE FALSE
    OBVIOUS
  <2>2. PICK n \in T : \A k \in T : n <= k
    <3>1. T \in SUBSET Nat
      OBVIOUS
    <3> QED BY <3>1, <2>1, LeastNumber
  <2>3. n \in 0 .. N /\ g[n] # h[n] /\ \A k \in 0 .. N : g[k] # h[k] => n <= k
    BY <2>2
  <2>4. n # 0
    BY <2>3, <1>1
  <2>5. n - 1 \in 0 .. N /\ ~(n <= n - 1)
    BY <2>3, <2>4
  <2>6. g[n - 1] = h[n - 1]
    BY <2>3, <2>5
  <2> QED BY <2>3, <2>4, <2>6, <1>1
<1>3. N \in 0 .. N
  OBVIOUS
<1> QED BY <1>2, <1>3

LEMMA BytesAre == IInv /\ Sizes => BytesExact
<1> SUFFICES ASSUME IInv, Sizes PROVE BytesExact
  OBVIOUS
<1> DEFINE N == Len(records)
           g == [n \in 0 .. N |-> PrefixBytes(n)]
           h == CHOOSE f : Adding(f, records, N)
<1>1. Adding(g, records, N)
  BY OffsetsAdd
<1>2. TotalSize(records) = h[N]
  BY DEF TotalSize, Adding
<1>3. Adding(h, records, N)
  BY <1>1
<1>4. N \in Nat /\ bytes <= MaxBytes
  BY Counters DEF IInv
<1>5. g[N] = PrefixBytes(N)
  BY <1>4
<1> HIDE DEF g, h
<1>6. g[N] = h[N]
  BY <1>1, <1>3, <1>4, AddingUnique
<1>7. PrefixBytes(N) = inBytes - Offset(1)
  BY <1>4 DEF PrefixBytes, Offset
<1>8. bytes = inBytes - Offset(1)
  BY DEF IInv, Offsets
<1> QED BY <1>2, <1>4, <1>5, <1>6, <1>7, <1>8 DEF BytesExact

(* Inner.bytes is the sum of the lengths of the queued records, however    *)
(* push and poll interleave, for any lengths and any bound.                *)
THEOREM ByteCountExact == Spec => []BytesExact
<1>1. Spec => []Sizes
  BY Invariance, InitSizes, NextSizes, PTL DEF Spec
<1> QED BY <1>1, Invariance, BytesAre, PTL

-----------------------------------------------------------------------------
(* The queue implements EventStream.  That a poll hands out n events of    *)
(* which the last is at least n after the one before needs the distances   *)
(* of the ordinals (Spaced), which InOrder only compares.                  *)
Spaced ==
  /\ lastTaken + Len(records) <= pushed
  /\ \A i \in 1 .. Len(records) :
       /\ lastTaken + i <= records[i].id
       /\ records[i].id + (Len(records) - i) <= pushed
  /\ \A i, j \in 1 .. Len(records) : i <= j => records[i].id + (j - i) <= records[j].id

(* The empty queue.                                                        *)
LEMMA InitSpaced == Init => Spaced
  BY DEF Init, Spaced

(* A record joins behind everything pushed before it.                      *)
LEMMA PushSpaced ==
  ASSUME IInv, Spaced, NEW size \in RecordSizes, Push(size)
  PROVE  Spaced'
<1> DEFINE new == [id |-> pushed + 1, size |-> size, at |-> inBytes]
           n == Len(records)
<1>a. TypeOK
  BY DEF IInv
<1>b. n \in Nat /\ lastTaken \in Nat /\ pushed \in Nat /\ inBytes \in Nat
  BY <1>a, Counters
<1>c. \A i \in 1 .. n : records[i].id \in Nat
  BY <1>a, Fields
<1>d. /\ lastTaken + n <= pushed
      /\ \A i \in 1 .. n : lastTaken + i <= records[i].id /\ records[i].id + (n - i) <= pushed
      /\ \A i, j \in 1 .. n : i <= j => records[i].id + (j - i) <= records[j].id
  BY DEF Spaced
<1>e. pushed' = pushed + 1 /\ lastTaken' = lastTaken
  BY DEF Push
<1>1. CASE Fits(size)
  <2>1. records' = Append(records, new)
    BY <1>1 DEF Push, Accept
  <2>2. new \in Record /\ new.id = pushed + 1
    BY <1>b DEF Record
  <2> HIDE DEF new
  <2>3. /\ Len(records') = n + 1 /\ records'[n + 1] = new
        /\ \A i \in 1 .. n : records'[i] = records[i]
    BY <1>a, <2>1, <2>2 DEF TypeOK
  <2> HIDE DEF n
  <2>4. \A i \in 1 .. n + 1 : i \in 1 .. n \/ i = n + 1
    BY <1>b
  <2>5. ASSUME NEW i \in 1 .. n + 1
        PROVE  /\ lastTaken + i <= records'[i].id
               /\ records'[i].id + (n + 1 - i) <= pushed + 1
    <3>1. CASE i \in 1 .. n
      <4>1. /\ lastTaken + i <= records[i].id /\ records[i].id + (n - i) <= pushed
            /\ records[i].id \in Nat /\ records'[i] = records[i]
        BY <1>c, <1>d, <2>3, <3>1 DEF n
      <4> QED BY <1>b, <3>1, <4>1
    <3>2. CASE i = n + 1
      BY <1>b, <1>d, <2>2, <2>3, <3>2
    <3> QED BY <2>4, <3>1, <3>2
  <2>6. ASSUME NEW i \in 1 .. n + 1, NEW j \in 1 .. n + 1, i <= j
        PROVE  records'[i].id + (j - i) <= records'[j].id
    <3>1. CASE j \in 1 .. n
      <4>1. i \in 1 .. n
        BY <1>b, <2>6, <3>1
      <4> QED BY <1>d, <2>3, <2>6, <3>1, <4>1
    <3>2. CASE j = n + 1 /\ i \in 1 .. n
      <4>1. records[i].id + (n - i) <= pushed /\ records[i].id \in Nat
        BY <1>c, <1>d, <3>2
      <4>2. records'[i] = records[i] /\ records'[j].id = pushed + 1
        BY <2>2, <2>3, <3>2
      <4> QED BY <1>b, <3>2, <4>1, <4>2
    <3>3. CASE j = n + 1 /\ i = n + 1
      BY <1>b, <2>2, <2>3, <3>3
    <3> QED BY <2>4, <3>1, <3>2, <3>3
  <2>7. lastTaken + (n + 1) <= pushed + 1
    BY <1>b, <1>d
  <2>8. Spaced' <=>
          /\ lastTaken' + Len(records') <= pushed'
          /\ \A i \in 1 .. Len(records') :
               /\ lastTaken' + i <= records'[i].id
               /\ records'[i].id + (Len(records') - i) <= pushed'
          /\ \A i, j \in 1 .. Len(records') : i <= j => records'[i].id + (j - i) <= records'[j].id
    BY DEF Spaced
  <2>9. Len(records') = n + 1
    BY <2>3
  <2>10. lastTaken' + Len(records') <= pushed'
    BY <1>e, <2>7, <2>9
  <2>11. \A i \in 1 .. Len(records') :
           /\ lastTaken' + i <= records'[i].id
           /\ records'[i].id + (Len(records') - i) <= pushed'
    <3> TAKE i \in 1 .. Len(records')
    <3>1. i \in 1 .. n + 1
      BY <2>9
    <3>2. lastTaken + i <= records'[i].id /\ records'[i].id + (n + 1 - i) <= pushed + 1
      BY <2>5, <3>1
    <3>3. records'[i].id \in Nat /\ i \in Nat
      BY <1>b, <1>c, <2>2, <2>3, <2>4, <3>1 DEF n
    <3>4. lastTaken' + i <= records'[i].id
      BY <1>e, <3>2
    <3>5. records'[i].id + (Len(records') - i) <= pushed'
      BY <1>b, <1>e, <2>9, <3>2, <3>3
    <3> QED BY <3>4, <3>5
  <2>12. \A i, j \in 1 .. Len(records') : i <= j => records'[i].id + (j - i) <= records'[j].id
    BY <2>6, <2>9
  <2> QED BY <2>8, <2>10, <2>11, <2>12
<1>2. CASE ~Fits(size)
  <2>1. records' = records
    BY <1>2 DEF Push, Drop
  <2>2. lastTaken + n <= pushed + 1
    BY <1>b, <1>d
  <2>3. \A i \in 1 .. n : lastTaken + i <= records[i].id /\ records[i].id + (n - i) <= pushed + 1
    BY <1>b, <1>c, <1>d
  <2> QED BY <1>d, <1>e, <2>1, <2>2, <2>3 DEF Spaced
<1> QED BY <1>1, <1>2

(* What a poll copies: n events, of which the last one is far enough on.   *)
LEMMA CopySpaced ==
  ASSUME IInv, Spaced, NEW p \in Pollers, Copy(p)
  PROVE  /\ Spaced'
         /\ taken' >= taken
         /\ taken' = taken => lastTaken' = lastTaken
         /\ taken' # taken => lastTaken' >= lastTaken + (taken' - taken)
<1>a. TypeOK
  BY DEF IInv
<1>b. Len(records) \in Nat /\ lastTaken \in Nat /\ pushed \in Nat /\ taken \in Nat
  BY <1>a, Counters
<1>c. \A i \in 1 .. Len(records) : records[i].id \in Nat
  BY <1>a, Fields
<1>d. /\ lastTaken + Len(records) <= pushed
      /\ \A i \in 1 .. Len(records) : lastTaken + i <= records[i].id
      /\ \A i \in 1 .. Len(records) : records[i].id + (Len(records) - i) <= pushed
      /\ \A i, j \in 1 .. Len(records) : i <= j => records[i].id + (j - i) <= records[j].id
  BY DEF Spaced
<1>1. PICK n \in 0 .. Len(records) :
        /\ records' = SubSeq(records, n + 1, Len(records))
        /\ taken' = taken + n
        /\ lastTaken' = IF n > 0 THEN records[n].id ELSE lastTaken
  BY DEF Copy, Pop
<1>2. pushed' = pushed
  BY DEF Copy
<1>3. n \in Nat /\ n <= Len(records)
  BY <1>b
<1>4. /\ Len(records') = Len(records) - n
      /\ \A i \in 1 .. Len(records') : i + n \in 1 .. Len(records) /\ records'[i] = records[i + n]
  BY <1>1, <1>3, <1>a, <1>b DEF TypeOK
<1> DEFINE m == Len(records')
<1>5. m \in Nat /\ m = Len(records) - n
  BY <1>3, <1>4, <1>b
<1>6. \A i \in 1 .. m : i + n \in 1 .. Len(records) /\ records'[i] = records[i + n]
  BY <1>4
<1> HIDE DEF m
<1>7. ASSUME NEW i \in 1 .. m, NEW j \in 1 .. m, i <= j
      PROVE  records'[i].id + (j - i) <= records'[j].id
  <2>1. i + n <= j + n /\ (j + n) - (i + n) = j - i
    BY <1>3, <1>5, <1>7
  <2>2. records[i + n].id + ((j + n) - (i + n)) <= records[j + n].id
    BY <1>6, <1>d, <2>1
  <2> QED BY <1>6, <2>1, <2>2
<1>8. ASSUME NEW i \in 1 .. m PROVE records'[i].id + (m - i) <= pushed'
  <2>1. Len(records) - (i + n) = m - i
    BY <1>3, <1>5, <1>b
  <2>2. records[i + n].id + (Len(records) - (i + n)) <= pushed
    BY <1>6, <1>d
  <2> QED BY <1>2, <1>6, <2>1, <2>2
<1>9. CASE n = 0
  <2>1. lastTaken' = lastTaken /\ taken' = taken /\ m = Len(records)
    BY <1>1, <1>5, <1>9, <1>b
  <2>2. \A i \in 1 .. m : records'[i] = records[i]
    BY <1>5, <1>6, <1>9
  <2>3. lastTaken' + m <= pushed' /\ \A i \in 1 .. m : lastTaken' + i <= records'[i].id
    BY <1>2, <1>d, <2>1, <2>2
  <2>4. Spaced'
    BY <1>7, <1>8, <2>3 DEF Spaced, m
  <2> QED BY <1>b, <2>1, <2>4
<1>10. CASE n > 0
  <2>1. n \in 1 .. Len(records) /\ lastTaken' = records[n].id /\ records[n].id \in Nat
    BY <1>1, <1>3, <1>10, <1>c
  <2>2. lastTaken + n <= records[n].id /\ records[n].id + (Len(records) - n) <= pushed
    BY <1>d, <2>1
  <2>3. lastTaken' + m <= pushed'
    BY <1>2, <1>5, <2>1, <2>2
  <2>4. ASSUME NEW i \in 1 .. m PROVE lastTaken' + i <= records'[i].id
    <3>1. n <= i + n /\ (i + n) - n = i
      BY <1>3, <1>5
    <3>2. records[n].id + ((i + n) - n) <= records[i + n].id
      BY <1>6, <1>d, <2>1, <3>1
    <3> QED BY <1>6, <2>1, <3>1, <3>2
  <2>5. Spaced'
    BY <1>7, <1>8, <2>3, <2>4 DEF Spaced, m
  <2>6. taken' - taken = n /\ taken' # taken /\ taken' >= taken
    BY <1>1, <1>3, <1>10, <1>b
  <2> QED BY <2>1, <2>2, <2>5, <2>6
<1> QED BY <1>3, <1>9, <1>10

(* Every step keeps the distances.                                         *)
LEMMA NextSpaced == IInv /\ Spaced /\ [Next]_vars => Spaced'
<1> SUFFICES ASSUME IInv, Spaced, [Next]_vars PROVE Spaced'
  OBVIOUS
<1>1. ASSUME UNCHANGED <<records, pushed, lastTaken>> PROVE Spaced'
  BY <1>1 DEF Spaced
<1>2. ASSUME NEW size \in RecordSizes, Push(size) PROVE Spaced'
  BY <1>2, PushSpaced
<1>3. ASSUME NEW status \in Statuses, Close(status) PROVE Spaced'
  BY <1>3, <1>1 DEF Close, ghosts
<1>4. CASE NotifyAll
  BY <1>4, <1>1 DEF NotifyAll, inner, ghosts
<1>5. ASSUME NEW p \in Pollers, \/ \E c \in Caps : Enter(p, c)
                               \/ DeadlinePasses(p)
                               \/ SpuriousWakeup(p)
      PROVE  Spaced'
  BY <1>5, <1>1 DEF Enter, DeadlinePasses, SpuriousWakeup, inner, ghosts
<1>6. ASSUME NEW p \in Pollers, PollStep(p) PROVE Spaced'
  BY <1>6, <1>1, CopySpaced DEF PollStep, Wait, TimeOut, TooSmall, AnswerStatus, inner, ghosts
<1>7. CASE UNCHANGED vars
  BY <1>7, <1>1 DEF vars, inner, ghosts
<1> QED BY <1>2, <1>3, <1>4, <1>5, <1>6, <1>7 DEF Next

(* Nothing was made yet and nothing is over.                               *)
LEMMA InitStream == Init => Stream!Init
<1> SUFFICES ASSUME Init PROVE Stream!Init
  OBVIOUS
<1>1. \A p \in Pollers : answer[p] \notin Statuses
  BY DEF Init, Statuses
<1>2. pushed = 0 /\ taken = 0 /\ lastTaken = 0 /\ reported = 0 /\ closed = "open"
  BY DEF Init
<1> QED BY <1>1, <1>2 DEF Stream!Init

(* What the callers know of the end.                                       *)
Phase == IF \E p \in Pollers : answer[p] \in Statuses THEN "ended"
         ELSE IF closed = "open" THEN "open" ELSE "closed"

(* A step that hands out nothing leaves the end alone, unless it answers   *)
(* the status of an empty closed queue.                                    *)
LEMMA QuietStream ==
  ASSUME UNCHANGED <<pushed, taken, lastTaken, reported>>, Phase' = Phase
  PROVE  UNCHANGED Stream!stream
  BY DEF Stream!stream, Phase

(* A poll that returns a with something left, or with the queue open, does *)
(* not move the end.                                                       *)
LEMMA ReturnPhase ==
  ASSUME IInv, ~Drained, NEW p \in Pollers, NEW a \in Answers \ Statuses,
         answer' = [answer EXCEPT ![p] = a], closed' = closed
  PROVE  Phase' = Phase
<1>1. answer \in [Pollers -> Answers]
  BY DEF IInv, TypeOK
<1>2. \A q \in Pollers : answer[q] \notin Statuses
  BY DEF IInv, Silence, Drained
<1>3. \A q \in Pollers : answer'[q] \notin Statuses
  BY <1>1, <1>2
<1> QED BY <1>2, <1>3 DEF Phase

(* Steps that answer nothing do not move the end either.                   *)
LEMMA SameAnswers ==
  ASSUME UNCHANGED <<answer, closed>>
  PROVE  Phase' = Phase
  BY DEF Phase

(* push makes an event.                                                    *)
LEMMA PushStream ==
  ASSUME IInv, NEW size \in RecordSizes, Push(size)
  PROVE  Stream!Make
<1>1. /\ pushed' = pushed + 1 /\ closed = "open"
      /\ UNCHANGED <<closed, answer, taken, lastTaken, reported>>
  BY DEF Push, polls
<1>2. \A p \in Pollers : answer[p] \notin Statuses
  BY <1>1 DEF IInv, Silence
<1>3. Phase = "open" /\ Phase' = Phase
  BY <1>1, <1>2 DEF Phase
<1> QED BY <1>1, <1>3 DEF Stream!Make, Phase

(* close ends the making.                                                  *)
LEMMA CloseStream ==
  ASSUME IInv, NEW status \in Statuses, Close(status)
  PROVE  Stream!Close
<1>1. /\ closed = "open" /\ closed' = status
      /\ UNCHANGED <<answer, pushed, taken, lastTaken, reported>>
  BY DEF Close, polls, ghosts
<1>2. \A p \in Pollers : answer[p] \notin Statuses
  BY <1>1 DEF IInv, Silence
<1>3. status # "open"
  BY DEF Statuses
<1>4. Phase = "open" /\ Phase' = "closed"
  BY <1>1, <1>2, <1>3 DEF Phase
<1> QED BY <1>1, <1>4 DEF Stream!Close, Phase

(* The numbers of a poll: t and t2 are what was handed out before and      *)
(* after it, l and l2 the last of it, r and r2 what was reported, m what   *)
(* was made, k2 what stays queued.                                         *)
LEMMA GiveNumbers ==
  ASSUME NEW t \in Nat, NEW t2 \in Nat, NEW l \in Nat, NEW l2 \in Nat, NEW r \in Nat,
         NEW r2 \in Nat, NEW m \in Nat, NEW k2 \in Nat,
         m = t2 + k2 + r2, t2 + r2 >= t + r + 1, l2 <= m,
         t2 # t => l2 >= l + (t2 - t)
  PROVE  /\ t2 + r2 \in t + r + 1 .. m
         /\ m # t + r
         /\ t2 # t => l2 \in l + (t2 - t) .. m
  OBVIOUS

(* A poll that copies hands out what EventStream allows.                   *)
LEMMA CopyStream ==
  ASSUME IInv, Spaced, NEW p \in Pollers, Copy(p)
  PROVE  Stream!Give
<1>a. TypeOK
  BY DEF IInv
<1>b. /\ dropped \in Nat /\ pushed \in Nat /\ taken \in Nat /\ lastTaken \in Nat
      /\ reported \in Nat /\ Len(records) \in Nat
  BY <1>a, Counters
<1>1. IInv'
  BY CopyIInv
<1>2. /\ taken' \in Nat /\ reported' \in Nat /\ lastTaken' \in Nat /\ Len(records') \in Nat
      /\ dropped' \in Nat
  <2>1. TypeOK'
    BY <1>1 DEF IInv
  <2> QED BY <2>1 DEF TypeOK
<1>3. dropped' = 0 /\ reported' = reported + dropped
  BY <1>b, QueueAssumption DEF Copy, OverflowBytes
<1>4. pushed = taken + Len(records) + dropped + reported
  BY DEF IInv, Conservation
<1>5. pushed' = taken' + Len(records') + dropped' + reported'
  BY <1>1 DEF IInv, Conservation
<1>6. lastTaken' - taken' <= reported' /\ lastTaken' <= pushed'
  BY <1>1 DEF IInv, NoSilentGap, Gaps
<1>7. /\ taken' >= taken
      /\ taken' = taken => lastTaken' = lastTaken
      /\ taken' # taken => lastTaken' >= lastTaken + (taken' - taken)
  BY CopySpaced
<1>8. pushed' = pushed /\ closed' = closed /\ answer' = [answer EXCEPT ![p] = "records"]
  BY DEF Copy, Return
<1>9. taken' + reported' >= taken + reported + 1
  <2>1. PICK n \in 0 .. Len(records) :
          OverflowBytes + PrefixBytes(n) \in 1 .. cap[p] /\ taken' = taken + n
    BY DEF Copy
  <2>2. CASE dropped > 0
    BY <1>3, <1>b, <2>1, <2>2
  <2>3. CASE dropped = 0
    <3>1. OverflowBytes = 0
      BY <2>3 DEF OverflowBytes
    <3>2. n # 0
      <4>1. ASSUME n = 0 PROVE FALSE
        <5>1. Offset(1) \in Nat /\ PrefixBytes(0) = Offset(0 + 1) - Offset(1) /\ 0 + 1 = 1
          BY <1>a, <1>b, Counters, Fields DEF Offset, PrefixBytes
        <5>2. PrefixBytes(0) = 0
          BY <5>1
        <5> QED BY <2>1, <3>1, <4>1, <5>2
      <4> QED BY <4>1
    <3> QED BY <1>3, <1>b, <2>1, <2>3, <3>2
  <2> QED BY <1>b, <2>2, <2>3
<1>10. /\ taken' + reported' \in taken + reported + 1 .. pushed
       /\ pushed # taken + reported
       /\ taken' # taken => lastTaken' \in lastTaken + (taken' - taken) .. pushed
  <2>1. pushed = taken' + Len(records') + reported'
    BY <1>2, <1>3, <1>5, <1>8
  <2>2. lastTaken' <= pushed
    BY <1>6, <1>8
  <2>3. taken' # taken => lastTaken' >= lastTaken + (taken' - taken)
    BY <1>7
  <2> QED BY <1>2, <1>9, <1>b, <2>1, <2>2, <2>3, GiveNumbers
<1>11. ~Drained
  <2>1. ASSUME dropped = 0, records = <<>> PROVE FALSE
    <3>1. Len(records) = 0
      BY <2>1, <1>a, Fields
    <3> QED BY <1>4, <1>10, <1>b, <2>1, <3>1
  <2> QED BY <2>1 DEF Drained
<1>12. Phase' = Phase
  BY <1>8, <1>11, ReturnPhase DEF Answers, Statuses
<1>13. reported' >= reported
  BY <1>3, <1>b
<1>14. IF taken' = taken THEN lastTaken' = lastTaken
       ELSE lastTaken' \in lastTaken + (taken' - taken) .. pushed
  BY <1>7, <1>10
<1> QED BY <1>6, <1>7, <1>8, <1>10, <1>12, <1>13, <1>14 DEF Stream!Give, Phase

(* The first poll that reads the status ends the stream.                   *)
LEMMA StatusStream ==
  ASSUME IInv, NEW p \in Pollers, AnswerStatus(p)
  PROVE  Stream!End \/ UNCHANGED Stream!stream
<1>a. TypeOK
  BY DEF IInv
<1>b. /\ pushed \in Nat /\ taken \in Nat /\ reported \in Nat /\ dropped \in Nat
      /\ Len(records) \in Nat
  BY <1>a, Counters
<1>1. /\ closed # "open" /\ dropped = 0 /\ records = <<>> /\ closed' = closed
      /\ answer' = [answer EXCEPT ![p] = closed]
      /\ UNCHANGED <<pushed, taken, lastTaken, reported>>
  BY DEF AnswerStatus, Drained, Return, inner, ghosts
<1>2. pushed = taken + reported
  <2>1. Len(records) = 0
    BY <1>1, <1>a, Fields
  <2>2. pushed = taken + Len(records) + dropped + reported
    BY DEF IInv, Conservation
  <2> QED BY <1>1, <1>b, <2>1, <2>2
<1>3. Phase' = "ended"
  <2>1. closed \in Statuses
    BY <1>1, <1>a DEF TypeOK
  <2>2. answer'[p] \in Statuses
    BY <1>1, <1>a, <2>1 DEF TypeOK
  <2> QED BY <2>2 DEF Phase
<1>4. Phase = "ended" \/ Phase = "closed"
  BY <1>1 DEF Phase
<1>5. CASE Phase = "ended"
  BY <1>1, <1>3, <1>5, QuietStream
<1>6. CASE Phase = "closed"
  <2>1. taken + reported = pushed
    BY <1>2
  <2> QED BY <1>1, <1>3, <1>6, <2>1 DEF Stream!End, Phase
<1> QED BY <1>4, <1>5, <1>6

(* Every step of the queue is a step of the stream, or none of it.         *)
LEMMA NextStream == IInv /\ Spaced /\ [Next]_vars => [Stream!Next]_(Stream!stream)
<1> SUFFICES ASSUME IInv, Spaced, [Next]_vars
             PROVE  Stream!Next \/ UNCHANGED Stream!stream
  OBVIOUS
<1>1. ASSUME UNCHANGED <<pushed, taken, lastTaken, reported, answer, closed>>
      PROVE  UNCHANGED Stream!stream
  BY <1>1, SameAnswers, QuietStream
<1>2. ASSUME NEW size \in RecordSizes, Push(size) PROVE Stream!Next
  BY <1>2, PushStream DEF Stream!Next
<1>3. ASSUME NEW status \in Statuses, Close(status) PROVE Stream!Next
  BY <1>3, CloseStream DEF Stream!Next
<1>4. CASE NotifyAll
  BY <1>4, <1>1 DEF NotifyAll, inner, ghosts
<1>5. ASSUME NEW p \in Pollers, \/ \E c \in Caps : Enter(p, c)
                               \/ DeadlinePasses(p)
                               \/ SpuriousWakeup(p)
                               \/ Wait(p)
      PROVE  UNCHANGED Stream!stream
  BY <1>5, <1>1 DEF Enter, DeadlinePasses, SpuriousWakeup, Wait, inner, ghosts
<1>6. ASSUME NEW p \in Pollers, TimeOut(p) \/ TooSmall(p) PROVE UNCHANGED Stream!stream
  <2>1. ~Drained
    <3>1. CASE TimeOut(p)
      BY <3>1 DEF TimeOut, Ready, Drained
    <3>2. CASE TooSmall(p)
      <4>1. cap[p] \in Nat
        BY DEF IInv, TypeOK
      <4>2. dropped = 0 => OverflowBytes = 0
        BY DEF OverflowBytes
      <4> QED BY <3>2, <4>1, <4>2 DEF TooSmall, Drained
    <3> QED BY <1>6, <3>1, <3>2
  <2>2. /\ UNCHANGED <<pushed, taken, lastTaken, reported, closed>>
        /\ \E a \in {"timeout", "too_small"} : answer' = [answer EXCEPT ![p] = a]
    BY <1>6 DEF TimeOut, TooSmall, Return, inner, ghosts
  <2>3. {"timeout", "too_small"} \subseteq Answers \ Statuses
    BY DEF Answers, Statuses
  <2>4. Phase' = Phase
    BY <2>1, <2>2, <2>3, ReturnPhase
  <2> QED BY <2>2, <2>4, QuietStream
<1>7. ASSUME NEW p \in Pollers, Copy(p) PROVE Stream!Next
  BY <1>7, CopyStream DEF Stream!Next
<1>8. ASSUME NEW p \in Pollers, AnswerStatus(p)
      PROVE  Stream!Next \/ UNCHANGED Stream!stream
  BY <1>8, StatusStream DEF Stream!Next
<1>9. CASE UNCHANGED vars
  BY <1>9, <1>1 DEF vars, inner, polls, ghosts
<1> QED BY <1>2, <1>3, <1>4, <1>5, <1>6, <1>7, <1>8, <1>9 DEF Next, PollStep

(* The polls together see one stream of events: in order, nothing twice,   *)
(* losses reported before what comes after them, and the end last.         *)
THEOREM QueueIsStream == Spec => ImplementsStream
<1>1. Spec => []Spaced
  BY InitSpaced, NextSpaced, Invariance, PTL DEF Spec
<1> QED
  BY <1>1, InitStream, NextStream, Invariance, PTL DEF Spec, ImplementsStream, Stream!Spec
=============================================================================
