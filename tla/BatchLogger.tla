---------------------------- MODULE BatchLogger ----------------------------
(***************************************************************************)
(* logger/batchLogger.js, the buffered writer of the request log, and the  *)
(* shutdown of server.js, which drains it.                                 *)
(*                                                                         *)
(* Every request in progress logs one entry when it ends; entries are      *)
(* numbered in the order in which they are logged.  The buffer, the        *)
(* INSERT in flight and the table hold sequences of these numbers.  An     *)
(* INSERT is one statement: it stores the whole batch or nothing, but the  *)
(* connection may fail after it was stored and before the answer is back.  *)
(*                                                                         *)
(* Each action is one callback of the event loop: what the code does from  *)
(* one await to the next.                                                  *)
(***************************************************************************)
EXTENDS Integers, Sequences, FiniteSets

CONSTANTS
  MaxSize,    \* BUFFER_MAX_SIZE
  MaxEntries, \* bound on the requests served
  MaxOrphans, \* bound on the requests whose client has gone
  MaxBlind,   \* bound on the INSERTs stored without being acknowledged
  Signals,    \* the signals that call shutdown: SIGTERM, SIGINT
  Outcomes    \* what may become of an INSERT: "stored", "failed", "unacknowledged"

ASSUME MaxSizeAssumption == MaxSize \in Nat \ {0}
ASSUME BoundsAssumption ==
  MaxEntries \in Nat /\ MaxOrphans \in Nat /\ MaxBlind \in Nat
ASSUME OutcomesAssumption == Outcomes \subseteq {"stored", "failed", "unacknowledged"}

VARIABLES
  logged,     \* how many entries have been logged
  open,       \* requests in progress whose client is connected
  orphans,    \* requests in progress whose client has gone
  buffer,     \* buffer
  batch,      \* the rows of the INSERT in flight
  isFlushing, \* isFlushing
  insert,     \* "none", "sent", or what has become of the INSERT
  table,      \* request_logs: the entries stored, in the order of their rows
  timer,      \* whether the flush timer is set
  listening,  \* whether the server accepts connections
  stopper,    \* per signal, how far its shutdown has come
  awaited,    \* per signal, whether its stopFlushing waits for the INSERT
  pool,       \* "open" or "ended"
  process,    \* "running", "clean" (exit 0) or "forced" (exit 1)
  disturbed,  \* history: whether entries came or stayed behind the last flush
  blind       \* history: how many INSERTs were stored but not acknowledged

requests == <<logged, open, orphans>>
logger == <<buffer, batch, isFlushing, insert, timer>>
server == <<listening, stopper, awaited, pool, process, disturbed>>
vars == <<requests, logger, table, server, blind>>

Init ==
  /\ logged = 0
  /\ open = 0
  /\ orphans = 0
  /\ buffer = <<>>
  /\ batch = <<>>
  /\ isFlushing = FALSE
  /\ insert = "none"
  /\ table = <<>>
  /\ timer = TRUE
  /\ listening = TRUE
  /\ stopper = [s \in Signals |-> "idle"]
  /\ awaited = [s \in Signals |-> FALSE]
  /\ pool = "open"
  /\ process = "running"
  /\ disturbed = FALSE
  /\ blind = 0

Running == process = "running"

-----------------------------------------------------------------------------
\* Mutant: no look at isFlushing before the buffer is taken.
FlushUnguarded(entries) ==
  IF entries = <<>>
  THEN buffer' = entries /\ UNCHANGED <<batch, isFlushing, insert>>
  ELSE /\ isFlushing' = TRUE
       /\ batch' = entries
       /\ buffer' = <<>>
       /\ insert' = IF pool = "open" THEN "sent" ELSE "failed"

\* flush(), called when the buffer holds entries: the buffer is swapped for
\* the batch of an INSERT unless one is in flight or there is nothing to
\* write.  A pool that was ended refuses the statement.
Flush(entries) ==
  IF isFlushing \/ entries = <<>>
  THEN buffer' = entries /\ UNCHANGED <<batch, isFlushing, insert>>
  ELSE /\ isFlushing' = TRUE
       /\ batch' = entries
       /\ buffer' = <<>>
       /\ insert' = IF pool = "open" THEN "sent" ELSE "failed"

\* log(): the entry is buffered; a full buffer is flushed.
Log ==
  LET entries == Append(buffer, logged + 1)
  IN  /\ logged' = logged + 1
      /\ IF Len(entries) >= MaxSize
         THEN Flush(entries)
         ELSE buffer' = entries /\ UNCHANGED <<batch, isFlushing, insert>>

\* A connection brings a request.
Accept ==
  /\ Running /\ listening
  /\ logged + open + orphans < MaxEntries
  /\ open' = open + 1
  /\ UNCHANGED <<logged, orphans, logger, table, server, blind>>

\* A client hangs up; its request goes on without it.
HangUp ==
  /\ Running
  /\ open > 0
  /\ orphans < MaxOrphans
  /\ open' = open - 1
  /\ orphans' = orphans + 1
  /\ UNCHANGED <<logged, logger, table, server, blind>>

\* Mutant: a request that has logged its entry is still in progress.
FinishTwice ==
  /\ Running
  /\ open > 0
  /\ Log
  /\ UNCHANGED <<open, orphans, timer, table, server, blind>>

\* A request is answered and logs its entry.
Finish ==
  /\ Running
  /\ open > 0
  /\ open' = open - 1
  /\ Log
  /\ UNCHANGED <<orphans, timer, table, server, blind>>

\* So does one whose client has gone.
FinishOrphan ==
  /\ Running
  /\ orphans > 0
  /\ orphans' = orphans - 1
  /\ Log
  /\ disturbed' = (disturbed \/ ~timer)
  /\ UNCHANGED <<open, timer, table, listening, stopper, awaited, pool, process, blind>>

\* The interval timer calls flush().
TimedFlush ==
  /\ Running /\ timer
  /\ ~isFlushing /\ buffer # <<>>
  /\ Flush(buffer)
  /\ UNCHANGED <<requests, timer, table, server, blind>>

-----------------------------------------------------------------------------
\* What becomes of the INSERT at the database.
DatabaseActs ==
  /\ Running
  /\ insert = "sent"
  /\ \E o \in Outcomes :
       /\ insert' = o
       /\ table' = IF o = "failed" THEN table ELSE table \o batch
       /\ blind' = blind + (IF o = "unacknowledged" THEN 1 ELSE 0)
       /\ blind' <= MaxBlind
  /\ UNCHANGED <<requests, buffer, batch, isFlushing, timer, server>>

\* Mutant: the batch of a failed INSERT goes behind what was logged meanwhile.
RequeueBehind == buffer' = buffer \o batch

\* The catch of flush(): the batch goes back to the front of the buffer.
Requeue == buffer' = batch \o buffer

\* Mutant: only the success of an INSERT clears isFlushing.
ReleaseOnSuccess == isFlushing' = (insert # "stored")

\* The finally of flush().
Release == isFlushing' = FALSE

\* The stopFlushing calls that waited for this flush() go on.
WakeStoppers ==
  /\ stopper' = [s \in Signals |-> IF awaited[s] THEN "ending" ELSE stopper[s]]
  /\ awaited' = [s \in Signals |-> FALSE]

\* The INSERT is acknowledged, and flush() returns.
FlushSucceeds ==
  /\ Running
  /\ insert = "stored"
  /\ batch' = <<>>
  /\ insert' = "none"
  /\ Release
  /\ WakeStoppers
  /\ UNCHANGED <<requests, buffer, timer, table, listening, pool, process, disturbed, blind>>

\* The INSERT is answered by an error: the batch is queued again.
FlushFails ==
  /\ Running
  /\ insert \in {"failed", "unacknowledged"}
  /\ Requeue
  /\ batch' = <<>>
  /\ insert' = "none"
  /\ Release
  /\ WakeStoppers
  /\ disturbed' = (disturbed \/ ~timer)
  /\ UNCHANGED <<requests, timer, table, listening, pool, process, blind>>

-----------------------------------------------------------------------------
\* shutdown(signal): the server stops listening; the 15 s timer is set.
Shutdown(s) ==
  /\ Running
  /\ stopper[s] = "idle"
  /\ listening' = FALSE
  /\ stopper' = [stopper EXCEPT ![s] = "closing"]
  /\ UNCHANGED <<requests, logger, table, awaited, pool, process, disturbed, blind>>

\* Mutant: stopFlushing only clears the timer.
StopFlushingUnflushed(s) ==
  /\ Running
  /\ stopper[s] = "closing"
  /\ open = 0
  /\ timer' = FALSE
  /\ stopper' = [stopper EXCEPT ![s] = "ending"]
  /\ disturbed' = (disturbed \/ (isFlushing /\ buffer # <<>>))
  /\ UNCHANGED <<requests, buffer, batch, isFlushing, insert, table, listening, awaited,
                 pool, process, blind>>

\* The last connection is gone: the callback of server.close calls
\* stopFlushing, which clears the timer and awaits flush().  A flush() that
\* finds one in flight, or nothing to write, returns at once.
StopFlushing(s) ==
  /\ Running
  /\ stopper[s] = "closing"
  /\ open = 0
  /\ timer' = FALSE
  /\ Flush(buffer)
  /\ LET waits == ~isFlushing /\ buffer # <<>>
     IN  /\ stopper' = [stopper EXCEPT ![s] = IF waits THEN "flushing" ELSE "ending"]
         /\ awaited' = [awaited EXCEPT ![s] = waits]
  /\ disturbed' = (disturbed \/ (isFlushing /\ buffer # <<>>))
  /\ UNCHANGED <<requests, table, listening, pool, process, blind>>

\* pool.end(): no statement is taken any more; those in flight finish.
EndPool(s) ==
  /\ Running
  /\ stopper[s] = "ending"
  /\ pool' = "ended"
  /\ stopper' = [stopper EXCEPT ![s] = "ended"]
  /\ UNCHANGED <<requests, logger, table, listening, awaited, process, disturbed, blind>>

\* The pool has ended and the process exits with 0.
ExitClean(s) ==
  /\ Running
  /\ stopper[s] = "ended"
  /\ insert = "none"
  /\ process' = "clean"
  /\ UNCHANGED <<requests, logger, table, listening, stopper, awaited, pool, disturbed, blind>>

\* Mutant: the exit waits for the connections to close.
ExitForcedDrained ==
  /\ Running
  /\ open = 0
  /\ \E s \in Signals : stopper[s] # "idle"
  /\ process' = "forced"
  /\ UNCHANGED <<requests, logger, table, listening, stopper, awaited, pool, disturbed, blind>>

\* Fifteen seconds after a signal the process exits with 1.
ExitForced ==
  /\ Running
  /\ \E s \in Signals : stopper[s] # "idle"
  /\ process' = "forced"
  /\ UNCHANGED <<requests, logger, table, listening, stopper, awaited, pool, disturbed, blind>>

Next ==
  \/ Accept \/ HangUp \/ Finish \/ FinishOrphan
  \/ TimedFlush \/ DatabaseActs \/ FlushSucceeds \/ FlushFails
  \/ \E s \in Signals : Shutdown(s) \/ StopFlushing(s) \/ EndPool(s) \/ ExitClean(s)
  \/ ExitForced

Spec == Init /\ [][Next]_vars

\* The timer fires, the database answers every INSERT and does not refuse it
\* for ever, the event loop runs every callback that is due, and 15 s pass.
DatabaseStores == DatabaseActs /\ insert' = "stored"

Fairness ==
  /\ WF_vars(TimedFlush)
  /\ WF_vars(DatabaseActs)
  /\ SF_vars(DatabaseStores)
  /\ WF_vars(FlushSucceeds)
  /\ WF_vars(FlushFails)
  /\ WF_vars(ExitForced)

FairSpec == Spec /\ Fairness

-----------------------------------------------------------------------------
Upto(n) == [i \in 1 .. n |-> i]

InSeq(e, s) == \E i \in DOMAIN s : s[i] = e

\* The batch, while the table does not have it.
Unstored == IF insert \in {"sent", "failed"} THEN batch ELSE <<>>

\* The types of the logger's and the server's state; no request has logged
\* more than one entry.
TypeOK ==
  /\ logged + open + orphans <= MaxEntries
  /\ logged \in 0 .. MaxEntries /\ open \in 0 .. MaxEntries /\ orphans \in 0 .. MaxEntries
  /\ buffer \in Seq(Nat) /\ batch \in Seq(Nat) /\ table \in Seq(Nat)
  /\ isFlushing \in BOOLEAN /\ timer \in BOOLEAN /\ listening \in BOOLEAN
  /\ blind \in Nat
  /\ insert \in {"none", "sent", "stored", "failed", "unacknowledged"}
  /\ stopper \in [Signals -> {"idle", "closing", "flushing", "ending", "ended"}]
  /\ awaited \in [Signals -> BOOLEAN]
  /\ pool \in {"open", "ended"}
  /\ process \in {"running", "clean", "forced"}

\* As long as no stored INSERT went unacknowledged, the table, the batch in
\* flight and the buffer are together exactly the entries logged, each once
\* and in order, whatever fails and whoever calls flush() when.
ExactlyOnce == blind = 0 => table \o Unstored \o buffer = Upto(logged)

\* Whatever is not acknowledged is written again: while the process has not
\* exited no entry is nowhere.
AtLeastOnce ==
  \A e \in 1 .. logged : InSeq(e, table) \/ InSeq(e, batch) \/ InSeq(e, buffer)

\* src/server/README.md 361: "On graceful shutdown, the remaining buffer is flushed
\* synchronously before exit."  stopFlushing() skips the flush while an INSERT is in
\* flight, does not retry one that fails, and server.close does not wait for
\* requests whose client has gone; unless one of these three leaves entries behind,
\* an exit with 0 has written everything, also when both signals come.
QuietExitFlushes ==
  process = "clean" /\ ~disturbed => \A e \in 1 .. logged : InSeq(e, table)

\* While the server is not told to stop, every entry gets into the table.
EveryEntryStored ==
  \A e \in 1 .. MaxEntries : logged >= e ~> (InSeq(e, table) \/ ~listening)

\* Once told to stop, the process exits.
ShutdownEnds == ~listening ~> ~Running

=============================================================================
