------------------------- MODULE BatchLoggerProofs -------------------------
(***************************************************************************)
(* Proofs about BatchLogger, for every buffer size, every number of        *)
(* requests and every set of signals: no entry is lost or reordered while  *)
(* the process runs.                                                       *)
(***************************************************************************)
EXTENDS BatchLogger, SequenceTheorems, TLAPS

USE MaxSizeAssumption, BoundsAssumption, OutcomesAssumption

-----------------------------------------------------------------------------
(* Sequences of entries.                                                   *)

LEMMA NoEntries == <<>> \in Seq(Nat)
  OBVIOUS

LEMMA Regroup ==
  ASSUME NEW s \in Seq(Nat), NEW t \in Seq(Nat), NEW u \in Seq(Nat)
  PROVE  (s \o t) \o u = s \o (t \o u)
  BY ConcatAssociative

LEMMA AppendRegroup ==
  ASSUME NEW s \in Seq(Nat), NEW t \in Seq(Nat), NEW e \in Nat
  PROVE  /\ s \o Append(t, e) = Append(s \o t, e)
         /\ Append(t, e) \in Seq(Nat)
         /\ Append(t, e) # <<>>
  OBVIOUS

LEMMA InAppend ==
  ASSUME NEW s \in Seq(Nat), NEW e \in Nat, NEW x \in Nat
  PROVE  InSeq(x, Append(s, e)) <=> InSeq(x, s) \/ x = e
<1>1. /\ Append(s, e) \in Seq(Nat) /\ Len(Append(s, e)) = Len(s) + 1
      /\ \A i \in 1 .. Len(s) : Append(s, e)[i] = s[i]
      /\ Append(s, e)[Len(s) + 1] = e
      /\ Len(s) \in Nat
  OBVIOUS
<1>2. DOMAIN s = 1 .. Len(s) /\ DOMAIN Append(s, e) = 1 .. (Len(s) + 1)
  BY <1>1
<1> QED
  BY <1>1, <1>2 DEF InSeq

LEMMA InConcat ==
  ASSUME NEW s \in Seq(Nat), NEW t \in Seq(Nat), NEW x \in Nat
  PROVE  InSeq(x, s \o t) <=> InSeq(x, s) \/ InSeq(x, t)
<1>1. /\ s \o t \in Seq(Nat) /\ Len(s \o t) = Len(s) + Len(t)
      /\ Len(s) \in Nat /\ Len(t) \in Nat
      /\ \A i \in 1 .. Len(s) + Len(t) :
           (s \o t)[i] = IF i <= Len(s) THEN s[i] ELSE t[i - Len(s)]
  BY ConcatProperties
<1>2. /\ DOMAIN s = 1 .. Len(s) /\ DOMAIN t = 1 .. Len(t)
      /\ DOMAIN (s \o t) = 1 .. (Len(s) + Len(t))
  BY <1>1
<1>3. ASSUME NEW i \in DOMAIN s
      PROVE  i \in DOMAIN (s \o t) /\ (s \o t)[i] = s[i]
  BY <1>1, <1>2
<1>4. ASSUME NEW i \in DOMAIN t
      PROVE  Len(s) + i \in DOMAIN (s \o t) /\ (s \o t)[Len(s) + i] = t[i]
  BY <1>1, <1>2
<1>5. ASSUME NEW i \in DOMAIN (s \o t)
      PROVE  \/ i \in DOMAIN s /\ (s \o t)[i] = s[i]
             \/ i - Len(s) \in DOMAIN t /\ (s \o t)[i] = t[i - Len(s)]
  BY <1>1, <1>2
<1> QED
  BY <1>3, <1>4, <1>5 DEF InSeq

LEMMA UptoNext ==
  ASSUME NEW n \in Nat
  PROVE  Upto(n) \in Seq(Nat) /\ Upto(n + 1) = Append(Upto(n), n + 1)
<1>1. /\ Upto(n) \in Seq(Nat) /\ Len(Upto(n)) = n
      /\ \A i \in 1 .. n : Upto(n)[i] = i
  BY DEF Upto
<1>2. /\ Upto(n + 1) \in Seq(Nat) /\ Len(Upto(n + 1)) = n + 1
      /\ \A i \in 1 .. (n + 1) : Upto(n + 1)[i] = i
  BY DEF Upto
<1>3. /\ Append(Upto(n), n + 1) \in Seq(Nat) /\ Len(Append(Upto(n), n + 1)) = n + 1
      /\ \A i \in 1 .. n : Append(Upto(n), n + 1)[i] = i
      /\ Append(Upto(n), n + 1)[n + 1] = n + 1
  BY <1>1
<1>4. \A i \in 1 .. (n + 1) : Append(Upto(n), n + 1)[i] = Upto(n + 1)[i]
  BY <1>2, <1>3
<1> QED
  BY <1>1, <1>2, <1>3, <1>4, SeqEqual

-----------------------------------------------------------------------------
(* Types.                                                                  *)

Queues ==
  /\ buffer \in Seq(Nat) /\ batch \in Seq(Nat) /\ table \in Seq(Nat)
  /\ isFlushing \in BOOLEAN
  /\ insert \in {"none", "sent", "stored", "failed", "unacknowledged"}

LEMMA InitType == Init => TypeOK
<1> SUFFICES ASSUME Init PROVE TypeOK
  OBVIOUS
<1>1. buffer \in Seq(Nat) /\ batch \in Seq(Nat) /\ table \in Seq(Nat)
  BY NoEntries DEF Init
<1>2. /\ stopper \in [Signals -> {"idle", "closing", "flushing", "ending", "ended"}]
      /\ awaited \in [Signals -> BOOLEAN]
  BY DEF Init
<1>3. /\ logged + open + orphans <= MaxEntries
      /\ logged \in 0 .. MaxEntries /\ open \in 0 .. MaxEntries /\ orphans \in 0 .. MaxEntries
      /\ blind \in Nat
  BY DEF Init
<1>4. /\ isFlushing \in BOOLEAN /\ timer \in BOOLEAN /\ listening \in BOOLEAN
      /\ insert \in {"none", "sent", "stored", "failed", "unacknowledged"}
      /\ pool \in {"open", "ended"}
      /\ process \in {"running", "clean", "forced"}
  BY DEF Init
<1> QED
  BY <1>1, <1>2, <1>3, <1>4 DEF TypeOK

LEMMA FlushType ==
  ASSUME Queues, NEW entries \in Seq(Nat), Flush(entries), table' = table
  PROVE  Queues'
<1>1. CASE isFlushing \/ entries = <<>>
  BY <1>1 DEF Queues, Flush
<1>2. CASE ~(isFlushing \/ entries = <<>>)
  <2>1. /\ isFlushing' = TRUE /\ batch' = entries /\ buffer' = <<>>
        /\ insert' \in {"sent", "failed"}
    BY <1>2 DEF Flush
  <2> QED
    BY <2>1, NoEntries DEF Queues
<1> QED
  BY <1>1, <1>2

LEMMA LogType ==
  ASSUME Queues, logged \in Nat, Log, table' = table
  PROVE  Queues' /\ logged' = logged + 1
<1>1. Append(buffer, logged + 1) \in Seq(Nat)
  BY DEF Queues
<1> QED
  BY <1>1, FlushType DEF Log, Queues

LEMMA WakeType ==
  ASSUME TypeOK, WakeStoppers
  PROVE  /\ stopper' \in [Signals -> {"idle", "closing", "flushing", "ending", "ended"}]
         /\ awaited' \in [Signals -> BOOLEAN]
  BY DEF TypeOK, WakeStoppers

LEMMA NextType == TypeOK /\ [Next]_vars => TypeOK'
<1> SUFFICES ASSUME TypeOK, [Next]_vars PROVE TypeOK'
  OBVIOUS
<1> USE DEF requests, logger, server, Running
<1>0. Queues /\ logged \in Nat
  BY DEF TypeOK, Queues
<1>1. CASE Accept
  BY <1>1 DEF Accept, TypeOK
<1>2. CASE HangUp
  BY <1>2 DEF HangUp, TypeOK
<1>3. CASE Finish
  BY <1>0, <1>3, LogType DEF Finish, TypeOK, Queues
<1>4. CASE FinishOrphan
  BY <1>0, <1>4, LogType DEF FinishOrphan, TypeOK, Queues
<1>5. CASE TimedFlush
  BY <1>0, <1>5, FlushType DEF TimedFlush, TypeOK, Queues
<1>6. CASE DatabaseActs
  <2>1. table \o batch \in Seq(Nat)
    BY DEF TypeOK
  <2> QED
    BY <1>6, <2>1 DEF DatabaseActs, TypeOK
<1>7. CASE FlushSucceeds
  <2>1. /\ batch' = <<>> /\ insert' = "none" /\ isFlushing' = FALSE
        /\ UNCHANGED <<requests, buffer, timer, table, listening, pool, process, blind>>
    BY <1>7 DEF FlushSucceeds, Release
  <2>2. WakeStoppers
    BY <1>7 DEF FlushSucceeds
  <2> QED
    BY <2>1, <2>2, WakeType, NoEntries DEF TypeOK
<1>8. CASE FlushFails
  <2>1. batch \o buffer \in Seq(Nat)
    BY DEF TypeOK
  <2>2. /\ buffer' = batch \o buffer /\ batch' = <<>> /\ insert' = "none"
        /\ isFlushing' = FALSE
        /\ UNCHANGED <<requests, timer, table, listening, pool, process, blind>>
    BY <1>8 DEF FlushFails, Release, Requeue
  <2>3. WakeStoppers
    BY <1>8 DEF FlushFails
  <2> QED
    BY <2>1, <2>2, <2>3, WakeType, NoEntries DEF TypeOK
<1>9. ASSUME NEW s \in Signals, Shutdown(s) PROVE TypeOK'
  BY <1>9 DEF Shutdown, TypeOK
<1>10. ASSUME NEW s \in Signals, StopFlushing(s) PROVE TypeOK'
  BY <1>0, <1>10, FlushType DEF StopFlushing, TypeOK, Queues
<1>11. ASSUME NEW s \in Signals, EndPool(s) PROVE TypeOK'
  BY <1>11 DEF EndPool, TypeOK
<1>12. ASSUME NEW s \in Signals, ExitClean(s) PROVE TypeOK'
  BY <1>12 DEF ExitClean, TypeOK
<1>13. CASE ExitForced
  BY <1>13 DEF ExitForced, TypeOK
<1>14. CASE UNCHANGED vars
  BY <1>14 DEF vars, TypeOK
<1> QED
  BY <1>1, <1>2, <1>3, <1>4, <1>5, <1>6, <1>7, <1>8, <1>9, <1>10, <1>11, <1>12,
     <1>13, <1>14 DEF Next

\* Every reachable state is well typed; in particular no request logs twice.
THEOREM TypeCorrect == Spec => []TypeOK
  BY InitType, NextType, PTL DEF Spec

-----------------------------------------------------------------------------
(* Where the entries are.  What flush() and the answers of the database do *)
(* to the queues does not depend on who calls them; LogInv adds to the     *)
(* three properties what relates an answer that is due to the table.       *)

\* Between calls isFlushing is set exactly while an INSERT is in flight: the
\* flag never sticks, and no two batches are in flight.
FlagExact ==
  /\ isFlushing <=> insert # "none"
  /\ insert = "none" <=> batch = <<>>

\* An INSERT that reached the table left its whole batch there, and one that
\* is not acknowledged is counted.
AnswerDue ==
  /\ insert = "unacknowledged" => blind > 0
  /\ insert \in {"stored", "unacknowledged"} =>
       \A e \in Nat : InSeq(e, batch) => InSeq(e, table)

LogInv == TypeOK /\ FlagExact /\ AnswerDue /\ ExactlyOnce /\ AtLeastOnce

LEMMA InitLog == Init => LogInv
<1> SUFFICES ASSUME Init PROVE LogInv
  OBVIOUS
<1>1. TypeOK
  BY InitType
<1>2. FlagExact /\ AnswerDue /\ AtLeastOnce
  BY DEF Init, FlagExact, AnswerDue, AtLeastOnce
<1>3. ExactlyOnce
  <2>1. table \o Unstored \o buffer = <<>>
    BY ConcatEmptySeq, NoEntries DEF Init, Unstored
  <2>2. Upto(0) = <<>>
    BY DEF Upto
  <2> QED
    BY <2>1, <2>2 DEF Init, ExactlyOnce
<1> QED
  BY <1>1, <1>2, <1>3 DEF LogInv

\* flush() moves entries from the buffer to the INSERT and nowhere else.
LEMMA FlushKeeps ==
  ASSUME Queues, FlagExact, AnswerDue, NEW entries \in Seq(Nat), Flush(entries),
         table' = table, blind' = blind
  PROVE  /\ FlagExact' /\ AnswerDue'
         /\ (table \o Unstored \o buffer)' = table \o Unstored \o entries
         /\ \A e \in Nat : InSeq(e, batch) \/ InSeq(e, entries)
                           => InSeq(e, batch') \/ InSeq(e, buffer')
<1>1. CASE isFlushing \/ entries = <<>>
  BY <1>1 DEF Flush, FlagExact, AnswerDue, Unstored, InSeq
<1>2. CASE ~(isFlushing \/ entries = <<>>)
  <2>1. /\ isFlushing' = TRUE /\ batch' = entries /\ buffer' = <<>>
        /\ insert' \in {"sent", "failed"} /\ entries # <<>>
    BY <1>2 DEF Flush
  <2>2. insert = "none" /\ batch = <<>>
    BY <1>2 DEF FlagExact, Queues
  <2>3. FlagExact' /\ AnswerDue'
    BY <2>1 DEF FlagExact, AnswerDue
  <2>4. Unstored' = entries /\ Unstored = <<>>
    BY <2>1, <2>2 DEF Unstored
  <2>5. table \o entries \o <<>> = table \o <<>> \o entries
    <3>1. table \in Seq(Nat) /\ table \o entries \in Seq(Nat)
      BY ConcatProperties DEF Queues
    <3> QED
      BY <3>1, ConcatEmptySeq
  <2>6. \A e \in Nat : ~InSeq(e, batch)
    BY <2>2 DEF InSeq
  <2> QED
    BY <2>1, <2>3, <2>4, <2>5, <2>6
<1> QED
  BY <1>1, <1>2

\* log() adds its entry behind all others.
LEMMA LogKeeps ==
  ASSUME LogInv, Log, table' = table, blind' = blind
  PROVE  FlagExact' /\ AnswerDue' /\ ExactlyOnce' /\ AtLeastOnce'
<1> DEFINE entries == Append(buffer, logged + 1)
<1>1. /\ Queues /\ logged \in Nat /\ logged' = logged + 1
      /\ FlagExact /\ AnswerDue /\ ExactlyOnce /\ AtLeastOnce
  BY DEF LogInv, TypeOK, Queues, Log
<1>2. entries \in Seq(Nat)
  BY <1>1, AppendRegroup DEF Queues
<1>3. /\ FlagExact' /\ AnswerDue'
      /\ (table \o Unstored \o buffer)' = table \o Unstored \o entries
      /\ \A e \in Nat : InSeq(e, batch) \/ InSeq(e, entries)
                        => InSeq(e, batch') \/ InSeq(e, buffer')
  <2>1. CASE Len(entries) >= MaxSize
    <3>1. Flush(entries)
      BY <2>1 DEF Log
    <3> QED
      BY <3>1, <1>1, <1>2, FlushKeeps
  <2>2. CASE ~(Len(entries) >= MaxSize)
    <3>1. buffer' = entries /\ UNCHANGED <<batch, isFlushing, insert>>
      BY <2>2 DEF Log
    <3> QED
      BY <3>1, <1>1 DEF FlagExact, AnswerDue, Unstored
  <2> QED
    BY <2>1, <2>2
<1>4. ExactlyOnce'
  <2> SUFFICES ASSUME blind' = 0
               PROVE  (table \o Unstored \o buffer)' = Upto(logged + 1)
    BY <1>1 DEF ExactlyOnce
  <2>1. table \o Unstored \o buffer = Upto(logged)
    BY <1>1 DEF ExactlyOnce
  <2>2. table \o Unstored \in Seq(Nat)
    BY <1>1, NoEntries, ConcatProperties DEF Queues, Unstored
  <2>3. table \o Unstored \o entries = Append(table \o Unstored \o buffer, logged + 1)
    <3>1. buffer \in Seq(Nat) /\ logged + 1 \in Nat
      BY <1>1 DEF Queues
    <3> HIDE DEF Queues
    <3>2. (table \o Unstored) \o Append(buffer, logged + 1)
            = Append((table \o Unstored) \o buffer, logged + 1)
      BY <2>2, <3>1, AppendRegroup
    <3> QED
      BY <3>2
  <2> QED
    BY <2>1, <2>3, <1>1, <1>3, UptoNext
<1>5. AtLeastOnce'
  <2> SUFFICES ASSUME NEW e \in 1 .. (logged + 1)
               PROVE  InSeq(e, table') \/ InSeq(e, batch') \/ InSeq(e, buffer')
    BY <1>1 DEF AtLeastOnce
  <2>1. e \in Nat /\ (e \in 1 .. logged \/ e = logged + 1)
    BY <1>1
  <2>2. InSeq(e, table) \/ InSeq(e, batch) \/ InSeq(e, entries)
    BY <2>1, <1>1, InAppend DEF AtLeastOnce, Queues
  <2> QED
    BY <2>1, <2>2, <1>3
<1> QED
  BY <1>3, <1>4, <1>5

\* The answer of the database.
LEMMA DatabaseKeeps ==
  ASSUME LogInv, DatabaseActs
  PROVE  FlagExact' /\ AnswerDue' /\ ExactlyOnce' /\ AtLeastOnce'
<1>1. /\ buffer \in Seq(Nat) /\ batch \in Seq(Nat) /\ table \in Seq(Nat)
      /\ blind \in Nat /\ logged \in Nat
      /\ FlagExact /\ ExactlyOnce /\ AtLeastOnce
      /\ insert = "sent"
      /\ UNCHANGED <<logged, buffer, batch, isFlushing>>
  BY DEF LogInv, TypeOK, DatabaseActs, requests
<1>2. PICK o \in {"stored", "failed", "unacknowledged"} :
        /\ insert' = o
        /\ table' = IF o = "failed" THEN table ELSE table \o batch
        /\ blind' = blind + (IF o = "unacknowledged" THEN 1 ELSE 0)
  BY DEF DatabaseActs
<1>3. FlagExact'
  BY <1>1, <1>2 DEF FlagExact
<1>4. \A e \in Nat : InSeq(e, table \o batch) <=> InSeq(e, table) \/ InSeq(e, batch)
  BY <1>1, InConcat
<1>5. AnswerDue'
  BY <1>1, <1>2, <1>4 DEF AnswerDue
<1>6. AtLeastOnce'
  <2> SUFFICES ASSUME NEW e \in 1 .. logged
               PROVE  InSeq(e, table') \/ InSeq(e, batch) \/ InSeq(e, buffer)
    BY <1>1 DEF AtLeastOnce
  <2>1. e \in Nat /\ (InSeq(e, table) \/ InSeq(e, batch) \/ InSeq(e, buffer))
    BY <1>1 DEF AtLeastOnce
  <2> QED
    BY <2>1, <1>2, <1>4
<1>7. ExactlyOnce'
  <2> SUFFICES ASSUME blind' = 0
               PROVE  table' \o Unstored' \o buffer = Upto(logged)
    BY <1>1 DEF ExactlyOnce
  <2>1. blind = 0 /\ o # "unacknowledged"
    BY <1>1, <1>2
  <2>2. table \o batch \o buffer = Upto(logged)
    BY <2>1, <1>1 DEF ExactlyOnce, Unstored
  <2>3. CASE o = "failed"
    BY <2>2, <2>3, <1>1, <1>2 DEF Unstored
  <2>4. CASE o = "stored"
    <3>1. table' = table \o batch /\ Unstored' = <<>>
      BY <2>4, <1>2 DEF Unstored
    <3>2. table \o batch \o <<>> = table \o batch
      BY <1>1, ConcatProperties, ConcatEmptySeq
    <3> QED
      BY <3>1, <3>2, <2>2
  <2> QED
    BY <2>1, <2>3, <2>4
<1> QED
  BY <1>3, <1>5, <1>6, <1>7

\* flush() after its INSERT was stored: the batch may be forgotten.
LEMMA SuccessKeeps ==
  ASSUME LogInv, FlushSucceeds
  PROVE  FlagExact' /\ AnswerDue' /\ ExactlyOnce' /\ AtLeastOnce'
<1>1. /\ FlagExact /\ AnswerDue /\ ExactlyOnce /\ AtLeastOnce
      /\ insert = "stored" /\ insert' = "none" /\ batch' = <<>> /\ isFlushing' = FALSE
      /\ UNCHANGED <<logged, buffer, table, blind>>
      /\ logged \in Nat
  BY DEF LogInv, TypeOK, FlushSucceeds, Release, requests
<1>2. FlagExact' /\ AnswerDue'
  BY <1>1 DEF FlagExact, AnswerDue
<1>3. ExactlyOnce'
  BY <1>1 DEF ExactlyOnce, Unstored
<1>4. AtLeastOnce'
  BY <1>1 DEF AtLeastOnce, AnswerDue
<1> QED
  BY <1>2, <1>3, <1>4

\* flush() after an error: the batch is the oldest of what is not stored.
LEMMA FailureKeeps ==
  ASSUME LogInv, FlushFails
  PROVE  FlagExact' /\ AnswerDue' /\ ExactlyOnce' /\ AtLeastOnce'
<1>1. /\ FlagExact /\ AnswerDue /\ ExactlyOnce /\ AtLeastOnce
      /\ insert \in {"failed", "unacknowledged"}
      /\ insert' = "none" /\ batch' = <<>> /\ isFlushing' = FALSE
      /\ buffer' = batch \o buffer
      /\ UNCHANGED <<logged, table, blind>>
      /\ logged \in Nat /\ blind \in Nat
      /\ buffer \in Seq(Nat) /\ batch \in Seq(Nat) /\ table \in Seq(Nat)
  BY DEF LogInv, TypeOK, FlushFails, Release, Requeue, requests
<1>2. FlagExact' /\ AnswerDue'
  BY <1>1 DEF FlagExact, AnswerDue
<1>3. ExactlyOnce'
  <2> SUFFICES ASSUME blind = 0
               PROVE  table \o Unstored' \o (batch \o buffer) = Upto(logged)
    BY <1>1 DEF ExactlyOnce
  <2>1. insert = "failed" /\ Unstored = batch /\ Unstored' = <<>>
    BY <1>1 DEF AnswerDue, Unstored
  <2>2. table \o batch \o buffer = Upto(logged)
    BY <2>1, <1>1 DEF ExactlyOnce
  <2>3. table \o <<>> = table
    BY <1>1, ConcatEmptySeq
  <2>4. table \o (batch \o buffer) = table \o batch \o buffer
    <3>1. table \in Seq(Nat) /\ batch \in Seq(Nat) /\ buffer \in Seq(Nat)
      BY <1>1
    <3>2. (table \o batch) \o buffer = table \o (batch \o buffer)
      BY <3>1, Regroup
    <3> QED
      BY <3>2
  <2> QED
    BY <2>1, <2>2, <2>3, <2>4
<1>4. AtLeastOnce'
  <2> SUFFICES ASSUME NEW e \in 1 .. logged
               PROVE  InSeq(e, table) \/ InSeq(e, buffer')
    BY <1>1 DEF AtLeastOnce
  <2>1. e \in Nat
    BY <1>1
  <2> QED
    BY <2>1, <1>1, InConcat DEF AtLeastOnce
<1> QED
  BY <1>2, <1>3, <1>4

\* LogInv is inductive.
LEMMA NextLog == LogInv /\ [Next]_vars => LogInv'
<1> SUFFICES ASSUME LogInv, [Next]_vars
             PROVE  FlagExact' /\ AnswerDue' /\ ExactlyOnce' /\ AtLeastOnce'
  BY NextType DEF LogInv
<1>1. /\ Queues /\ logged \in Nat
      /\ FlagExact /\ AnswerDue /\ ExactlyOnce /\ AtLeastOnce
  BY DEF LogInv, TypeOK, Queues
<1>2. ASSUME UNCHANGED <<logged, buffer, batch, isFlushing, insert, table, blind>>
      PROVE  FlagExact' /\ AnswerDue' /\ ExactlyOnce' /\ AtLeastOnce'
  BY <1>1, <1>2 DEF FlagExact, AnswerDue, ExactlyOnce, AtLeastOnce, Unstored
<1>3. ASSUME Flush(buffer), UNCHANGED <<logged, table, blind>>
      PROVE  FlagExact' /\ AnswerDue' /\ ExactlyOnce' /\ AtLeastOnce'
  <2>1. /\ FlagExact' /\ AnswerDue'
        /\ (table \o Unstored \o buffer)' = table \o Unstored \o buffer
        /\ \A e \in Nat : InSeq(e, batch) \/ InSeq(e, buffer)
                          => InSeq(e, batch') \/ InSeq(e, buffer')
    BY <1>1, <1>3, FlushKeeps DEF Queues
  <2>2. ExactlyOnce'
    BY <2>1, <1>1, <1>3 DEF ExactlyOnce
  <2>3. AtLeastOnce'
    BY <2>1, <1>1, <1>3 DEF AtLeastOnce
  <2> QED
    BY <2>1, <2>2, <2>3
<1>4. CASE Accept \/ HangUp \/ ExitForced \/ UNCHANGED vars
           \/ \E s \in Signals : Shutdown(s) \/ EndPool(s) \/ ExitClean(s)
  BY <1>2, <1>4 DEF Accept, HangUp, ExitForced, Shutdown, EndPool, ExitClean,
                    vars, requests, logger
<1>5. CASE Finish \/ FinishOrphan
  BY <1>5, LogKeeps DEF Finish, FinishOrphan
<1>6. CASE TimedFlush \/ \E s \in Signals : StopFlushing(s)
  BY <1>3, <1>6 DEF TimedFlush, StopFlushing, requests
<1>7. CASE DatabaseActs
  BY <1>7, DatabaseKeeps
<1>8. CASE FlushSucceeds
  BY <1>8, SuccessKeeps
<1>9. CASE FlushFails
  BY <1>9, FailureKeeps
<1> QED
  BY <1>4, <1>5, <1>6, <1>7, <1>8, <1>9 DEF Next

LEMMA LogInvariant == Spec => []LogInv
  BY InitLog, NextLog, PTL DEF Spec

\* isFlushing never sticks and never lies.
THEOREM FlagIsExact == Spec => []FlagExact
<1>1. LogInv => FlagExact
  BY DEF LogInv
<1> QED
  BY <1>1, LogInvariant, PTL

\* Without an unacknowledged INSERT every entry is in exactly one place, and
\* the places one after the other give the order in which it was logged.
THEOREM LoggedExactlyOnce == Spec => []ExactlyOnce
<1>1. LogInv => ExactlyOnce
  BY DEF LogInv
<1> QED
  BY <1>1, LogInvariant, PTL

\* With one, an entry may be stored twice, but none is ever lost.
THEOREM LoggedAtLeastOnce == Spec => []AtLeastOnce
<1>1. LogInv => AtLeastOnce
  BY DEF LogInv
<1> QED
  BY <1>1, LogInvariant, PTL

-----------------------------------------------------------------------------
(* What an exit with 0 has written.                                        *)

\* Once a stopFlushing() has passed undisturbed, nothing is left in the buffer, and
\* nothing that would not count as a disturbance can come into it.
Drained ==
  /\ process = "clean" => insert = "none"
  /\ (\E s \in Signals : stopper[s] \in {"flushing", "ending", "ended"}) =>
       ~timer /\ ~listening /\ open = 0 /\ (disturbed \/ buffer = <<>>)
  /\ process = "clean" => \E s \in Signals : stopper[s] = "ended"
  /\ \A s \in Signals : awaited[s] => stopper[s] = "flushing"
  /\ \A s \in Signals : stopper[s] # "idle" => ~listening

LEMMA InitDrained == Init => Drained
  BY DEF Init, Drained

LEMMA NextDrained ==
  ASSUME TypeOK, Drained, [Next]_vars
  PROVE  Drained'
<1>1. CASE Accept
  BY <1>1 DEF Accept, Drained, TypeOK, logger, server, Running
<1>2. CASE HangUp
  BY <1>2 DEF HangUp, Drained, TypeOK, logger, server, Running
<1>3. CASE Finish
  BY <1>3 DEF Finish, Drained, TypeOK, server, Running
<1>4. CASE FinishOrphan
  BY <1>4 DEF FinishOrphan, Drained, TypeOK, Running
<1>5. CASE TimedFlush
  BY <1>5 DEF TimedFlush, Drained, TypeOK, requests, server, Running
<1>6. CASE DatabaseActs
  BY <1>6 DEF DatabaseActs, Drained, TypeOK, requests, server, Running
<1>7. CASE FlushSucceeds
  BY <1>7 DEF FlushSucceeds, WakeStoppers, Drained, TypeOK, requests, Running
<1>8. CASE FlushFails
  BY <1>8 DEF FlushFails, WakeStoppers, Drained, TypeOK, requests, Running
<1>9. ASSUME NEW s \in Signals, Shutdown(s)
      PROVE  Drained'
  BY <1>9 DEF Shutdown, Drained, TypeOK, requests, logger, Running
<1>10. ASSUME NEW s \in Signals, StopFlushing(s)
       PROVE  Drained'
  BY <1>10 DEF StopFlushing, Flush, Drained, TypeOK, requests, Running
<1>11. ASSUME NEW s \in Signals, EndPool(s)
       PROVE  Drained'
  BY <1>11 DEF EndPool, Drained, TypeOK, requests, logger, Running
<1>12. ASSUME NEW s \in Signals, ExitClean(s)
       PROVE  Drained'
  BY <1>12 DEF ExitClean, Drained, TypeOK, requests, logger, Running
<1>13. CASE ExitForced
  BY <1>13 DEF ExitForced, Drained, TypeOK, requests, logger, Running
<1>14. CASE UNCHANGED vars
  BY <1>14 DEF Drained, vars, requests, logger, server
<1> QED
  BY <1>1, <1>2, <1>3, <1>4, <1>5, <1>6, <1>7, <1>8, <1>9, <1>10, <1>11, <1>12, <1>13, <1>14
  DEF Next

\* stopFlushing() in batchLogger.js and the shutdown of server.js: an exit with 0 has
\* written every entry unless an INSERT was in flight with entries behind it, the
\* last one failed, or a request without a client logged afterwards.
THEOREM QuietExitIsClean == Spec => []QuietExitFlushes
<1>1. LogInv /\ Drained => QuietExitFlushes
  <2> SUFFICES ASSUME LogInv, Drained, process = "clean", ~disturbed,
                      NEW e \in 1 .. logged
               PROVE  InSeq(e, table)
    BY DEF QuietExitFlushes
  <2>1. batch = <<>> /\ buffer = <<>>
    BY DEF LogInv, FlagExact, Drained
  <2> QED
    BY <2>1 DEF LogInv, AtLeastOnce, InSeq
<1>2. LogInv => TypeOK
  BY DEF LogInv
<1> QED
  BY <1>1, <1>2, InitLog, NextLog, InitDrained, NextDrained, PTL DEF Spec

=============================================================================
