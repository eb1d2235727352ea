----------------------------- MODULE LogPipeline ------------------------------
(* The logging framework's Logger and AsyncLogPipeline (03-logging-framework): *)
(* application threads log into a bounded BlockingCollection, one worker task  *)
(* fans the records out to the sinks, Dispose flushes.  The sinks have no code *)
(* in the notes: their Write returns or throws.  A record is its level here.   *)
EXTENDS Naturals, Sequences

CONSTANTS Levels,        \* LogLevel, as numbers
          LoggerLevel,   \* _minLevel of the Logger
          SinkLevels,    \* _sinks: the threshold of the LevelFilter around each
          QueueCapacity,
          MaxRecords     \* bound: this many calls get past the first test

ASSUME LogAssumption ==
  /\ Levels \subseteq Nat /\ LoggerLevel \in Nat
  /\ SinkLevels \in Seq(Nat)
  /\ QueueCapacity \in Nat \ {0} /\ MaxRecords \in Nat

VARIABLES logQueue,   \* _queue
          addingCompleted,  \* CompleteAdding was called on _queue
          task,       \* the worker: the record it has and the sink that is next
          disposal,   \* "none", "waiting" in _worker.Wait, "returned" from Dispose
          enqueues,   \* (history) how often Enqueue was called
          accepted,   \* (history) the records TryAdd took
          offered     \* (history) what the Write of each sink was called with

logVars == <<logQueue, addingCompleted, task, disposal, enqueues, accepted, offered>>

LogSinks == DOMAIN SinkLevels
BetweenRecords == [at |-> "taking"]
Fanning(level, i) == [at |-> "writing", level |-> level, sink |-> i]

\* The worker's place when it is through with the first i sinks.
After(i, level) == IF i < Len(SinkLevels) THEN Fanning(level, i + 1) ELSE BetweenRecords

LogInit ==
  /\ logQueue = <<>>
  /\ addingCompleted = FALSE
  /\ task = BetweenRecords
  /\ disposal = "none"
  /\ enqueues = 0
  /\ accepted = <<>>
  /\ offered = [i \in LogSinks |-> <<>>]

\* Log and Enqueue: a record below _minLevel is nothing; TryAdd returns false
\* when the queue is full, and throws out of Log once adding is complete.
Log(level) ==
  /\ level >= LoggerLevel
  /\ enqueues < MaxRecords
  /\ enqueues' = enqueues + 1
  /\ IF addingCompleted \/ Len(logQueue) = QueueCapacity   \* thrown, or dropped
       THEN UNCHANGED <<logQueue, accepted>>
       ELSE /\ logQueue' = Append(logQueue, level)
            /\ accepted' = Append(accepted, level)
  /\ UNCHANGED <<addingCompleted, task, disposal, offered>>

\* GetConsumingEnumerable: blocks while the queue is empty, ends when adding is
\* complete too.
TakeRecord ==
  /\ task.at = "taking"
  /\ \/ /\ logQueue # <<>>
        /\ task' = After(0, Head(logQueue))
        /\ logQueue' = Tail(logQueue)
     \/ /\ logQueue = <<>> /\ addingCompleted
        /\ task' = [at |-> "ended"]
        /\ UNCHANGED logQueue
  /\ UNCHANGED <<addingCompleted, disposal, enqueues, accepted, offered>>

\* The record went to the sink unless its LevelFilter drops it.
Offers(i, level) ==
  offered' = IF level >= SinkLevels[i] THEN [offered EXCEPT ![i] = Append(@, level)] ELSE offered

\* Mutant: one try around the inner loop, so that a sink that throws keeps the
\* record from the sinks after it.
WriteToSinkOneTry ==
  /\ task.at = "writing"
  /\ Offers(task.sink, task.level)
  /\ task' \in {After(task.sink, task.level), BetweenRecords}
  /\ UNCHANGED <<logQueue, addingCompleted, disposal, enqueues, accepted>>

\* sink.Write(record), which returns or throws into the catch: the loop goes on
\* with the next sink either way.
WriteToSink ==
  /\ task.at = "writing"
  /\ Offers(task.sink, task.level)
  /\ task' = After(task.sink, task.level)
  /\ UNCHANGED <<logQueue, addingCompleted, disposal, enqueues, accepted>>

\* Dispose: CompleteAdding, then _worker.Wait().
BeginDispose ==
  /\ disposal = "none"
  /\ addingCompleted' = TRUE
  /\ disposal' = "waiting"
  /\ UNCHANGED <<logQueue, task, enqueues, accepted, offered>>

DisposeReturns ==
  /\ disposal = "waiting" /\ task.at = "ended"
  /\ disposal' = "returned"
  /\ UNCHANGED <<logQueue, addingCompleted, task, enqueues, accepted, offered>>

LogNext ==
  \/ \E level \in Levels : Log(level)
  \/ TakeRecord \/ WriteToSink
  \/ BeginDispose \/ DisposeReturns

LogSpec == LogInit /\ [][LogNext]_logVars

-----------------------------------------------------------------------------
\* What the sink has still to get: from the worker's hands, then from the queue.
StillToCome(i) ==
  (IF task.at = "writing" /\ task.sink <= i THEN <<task.level>> ELSE <<>>) \o logQueue

\* Of a sequence of records, those the sink's LevelFilter lets through.
Shown(i, records) ==
  LET shown[n \in 0 .. Len(records)] ==
        IF n = 0 THEN <<>>
        ELSE IF records[n] >= SinkLevels[i] THEN Append(shown[n - 1], records[n])
        ELSE shown[n - 1]
  IN  shown[Len(records)]

\* Every sink is offered every accepted record above its threshold, once and in
\* the order of acceptance, whatever the other sinks throw and whichever
\* records are dropped in between; and none is left when Dispose returns.
EverySinkGetsTheLog ==
  \A i \in LogSinks :
    /\ offered[i] \o Shown(i, StillToCome(i)) = Shown(i, accepted)
    /\ disposal = "returned" => offered[i] = Shown(i, accepted)
=============================================================================
