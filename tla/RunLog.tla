-------------------------------- MODULE RunLog --------------------------------
(***************************************************************************)
(* The log of one run: chunks are buffered in memory and handed to the     *)
(* open streams (services/logs.ts), flushed to the store every half second *)
(* and when the run ends, and served by GET /v2/logs (api/routes/logs.ts); *)
(* a stream is closed by polling for the end of the run. The events        *)
(* websocket (services/events-channel.ts, api/events-ws.ts) is a stream    *)
(* that starts without the log so far: its frames are chunks as well.      *)
(*                                                                         *)
(* Chunks are numbered in the order they are written. The run is its       *)
(* status and the steps of runInBackground that touch its log.             *)
(***************************************************************************)
EXTENDS Integers, Sequences, SequencesExt, FiniteSets

CONSTANTS
    Streams,       \* requests for the log with ?stream=true
    Sockets,       \* websockets on the run's events
    MaxChunks,     \* bound: chunks the run writes
    MaxLogStarts,  \* bound: starts of the run
    MaxLogCrashes  \* bound: crashes of the process

VARIABLES
    job,         \* the run: READY and RUNNING are "LIVE"; then its status is "ENDED"
    runner,      \* where its background is: "running", "flush", "flushed", "cleanup", "over"
    terminal,    \* markLogTerminal, markEventsTerminal
    written,     \* chunks written so far
    buffer,      \* of the chunks not flushed yet
    stored,      \* the record in __LOGS__
    flush,       \* each flush: where it is, and the chunk it took from the buffer
    lock,        \* the flush that holds the log's lock, or Nobody
    stream,      \* each reader: where it is, the status it saw, what it was sent
    logStarts, logCrashes,
    lostChunks   \* history: chunks a crash of the process lost

logVars == <<job, runner, terminal, written, buffer, stored, flush, lock, stream,
             logStarts, logCrashes, lostChunks>>

Readers == Streams \cup Sockets
Flushers == {"timer", "final"} \cup Streams   \* the sockets never flush
Nobody == "nobody"

ASSUME LogAssumption == Streams \cap {Nobody, "timer", "final"} = {}

\* subscribers.
Subscribed == {s \in Readers : stream[s].at \in {"open", "asked"}}

NoFlush == [at |-> "idle", chunk |-> <<>>]
NotConnected == [at |-> "idle", job |-> "LIVE", sent |-> <<>>]

LogInit ==
    /\ job = "LIVE" /\ runner = "running" /\ terminal = FALSE
    /\ written = 0 /\ buffer = <<>> /\ stored = <<>>
    /\ flush = [f \in Flushers |-> NoFlush]
    /\ lock = Nobody
    /\ stream = [s \in Readers |-> NotConnected]
    /\ logStarts = 1 /\ logCrashes = 0
    /\ lostChunks = {}

-----------------------------------------------------------------------------
(* Writing and flushing.                                                   *)

\* appendLog: into the buffer, and to every subscriber.
appendLog ==
    /\ written < MaxChunks /\ runner = "running"
    /\ written' = written + 1
    /\ buffer' = Append(buffer, written + 1)
    /\ stream' = [s \in Readers |->
           IF s \in Subscribed THEN [stream[s] EXCEPT !.sent = Append(@, written + 1)]
           ELSE stream[s]]
    /\ UNCHANGED <<job, runner, terminal, stored, flush, lock, logStarts, logCrashes, lostChunks>>

Flushing(f, at) == flush' = [flush EXCEPT ![f].at = at]

\* flushLog is called.
FlushCalled(f) == flush[f].at \in {"idle", "done"} /\ Flushing(f, "queued")

\* Mutant: the buffer is left as it is until the write is done.
FlushTakes_NoClear(f) ==
    /\ flush[f].at = "queued" /\ lock = Nobody
    /\ IF buffer = <<>>
       THEN Flushing(f, "done") /\ UNCHANGED <<lock, buffer>>
       ELSE /\ flush' = [flush EXCEPT ![f] = [at |-> "read", chunk |-> buffer]]
            /\ lock' = f
            /\ UNCHANGED buffer
    /\ UNCHANGED <<job, runner, terminal, written, stored, stream, logStarts, logCrashes, lostChunks>>

\* Holding the lock of the log, the flush takes the buffer, before it reads the record.
FlushTakes(f) ==
    /\ flush[f].at = "queued" /\ lock = Nobody
    /\ IF buffer = <<>>
       THEN Flushing(f, "done") /\ UNCHANGED <<lock, buffer>>
       ELSE /\ flush' = [flush EXCEPT ![f] = [at |-> "read", chunk |-> buffer]]
            /\ lock' = f
            /\ buffer' = <<>>
    /\ UNCHANGED <<job, runner, terminal, written, stored, stream, logStarts, logCrashes, lostChunks>>

\* It reads the record,
FlushReads(f) ==
    /\ flush[f].at = "read"
    /\ flush' = [flush EXCEPT ![f] = [at |-> "write", chunk |-> stored \o @.chunk]]
    /\ UNCHANGED <<job, runner, terminal, written, buffer, stored, lock, stream,
                   logStarts, logCrashes, lostChunks>>

\* and writes it with the chunk at its end.
FlushWrites(f) ==
    /\ flush[f].at = "write"
    /\ stored' = flush[f].chunk
    /\ flush' = [flush EXCEPT ![f] = [at |-> "done", chunk |-> <<>>]]
    /\ lock' = Nobody
    /\ UNCHANGED <<job, runner, terminal, written, buffer, stream, logStarts, logCrashes, lostChunks>>

\* The timer of startLogFlusher. It also calls while its last flush is in progress: that
\* flush waits for the lock as the other flushers do here.
TimerTicks ==
    /\ FlushCalled("timer")
    /\ UNCHANGED <<job, runner, terminal, written, buffer, stored, lock, stream,
                   logStarts, logCrashes, lostChunks>>

-----------------------------------------------------------------------------
(* The run, as far as its log goes.                                        *)

Quiet == UNCHANGED <<written, buffer, stored, lock, stream, logCrashes, lostChunks>>

\* The container has exited and all its output is in: runInBackground flushes the log.
RunnerFlushes ==
    /\ runner = "running"
    /\ runner' = "flush"
    /\ FlushCalled("final")
    /\ UNCHANGED <<job, terminal, logStarts>> /\ Quiet

\* Mutant: the final status is written while the flush goes on.
RunnerWritesStatus_First ==
    /\ runner = "flush"
    /\ runner' = "cleanup" /\ job' = "ENDED"
    /\ UNCHANGED <<terminal, flush, logStarts>> /\ Quiet

\* Then it writes the final status; an abort may have ended the run before.
RunnerWritesStatus ==
    /\ runner = "flush" /\ flush["final"].at = "done"
    /\ runner' = "cleanup" /\ job' = "ENDED"
    /\ UNCHANGED <<terminal, flush, logStarts>> /\ Quiet

\* and in its finally block marks the log and the events terminal.
RunnerCloses ==
    /\ runner = "cleanup"
    /\ runner' = "over" /\ terminal' = TRUE
    /\ UNCHANGED <<job, flush, logStarts>> /\ Quiet

\* abortRun: the status is written without a look at the log.
Aborted ==
    /\ job = "LIVE"
    /\ job' = "ENDED"
    /\ UNCHANGED <<runner, terminal, flush, logStarts>> /\ Quiet

\* resurrectRun, when the background is over: the log goes on where it ended.
LogReopens ==
    /\ job = "ENDED" /\ runner = "over" /\ logStarts < MaxLogStarts
    /\ job' = "LIVE" /\ runner' = "running" /\ terminal' = FALSE
    /\ logStarts' = logStarts + 1
    /\ UNCHANGED flush /\ Quiet

\* The process dies, with the buffer and everything in progress; the restarted one ends the
\* run (reconcileOrphanedJobs).
LogCrash ==
    /\ logCrashes < MaxLogCrashes
    /\ logCrashes' = logCrashes + 1
    /\ lostChunks' = 1 .. written \ ToSet(stored)
    /\ job' = "ENDED" /\ runner' = "over" /\ terminal' = FALSE
    /\ buffer' = <<>> /\ lock' = Nobody
    /\ flush' = [f \in Flushers |-> NoFlush]
    /\ stream' = [s \in Readers |-> [stream[s] EXCEPT !.at = IF @ = "idle" THEN @ ELSE "closed"]]
    /\ UNCHANGED <<written, stored, logStarts>>

-----------------------------------------------------------------------------
(* Streams of the log and of the events.                                   *)

Untouched == UNCHANGED <<job, runner, terminal, written, buffer, stored, lock,
                         logStarts, logCrashes, lostChunks>>

\* serveLog finds the run, and flushes its log; a socket is refused if the run has ended.
Connects(s) ==
    /\ stream[s].at = "idle"
    /\ stream' = [stream EXCEPT ![s] =
           [at |-> IF s \in Streams THEN "flush" ELSE IF job = "ENDED" THEN "closed" ELSE "found",
            job |-> job, sent |-> <<>>]]
    /\ IF s \in Streams THEN FlushCalled(s) ELSE UNCHANGED flush
    /\ Untouched

\* getFullLog reads the record once its flush is done.
ReadsLog(s) ==
    /\ stream[s].at = "flush" /\ flush[s].at = "done"
    /\ stream' = [stream EXCEPT ![s].at = "found", ![s].sent = stored]
    /\ UNCHANGED flush /\ Untouched

\* The response starts with the log so far, and ends with it if the run is over; otherwise
\* the reader subscribes to what comes.
Subscribes(s) ==
    /\ stream[s].at = "found"
    /\ stream' = [stream EXCEPT ![s].at =
           IF s \in Streams /\ (terminal \/ stream[s].job = "ENDED") THEN "closed" ELSE "open"]
    /\ UNCHANGED flush /\ Untouched

\* Mutant: only the mark in memory ends a stream.
Polls_MarkOnly(s) ==
    /\ stream[s].at = "open"
    /\ stream' = [stream EXCEPT ![s].at = IF terminal THEN "closed" ELSE "open"]
    /\ UNCHANGED flush /\ Untouched

\* pollUntilTerminal: the reader is done if the mark says so; if not, it reads the record.
Polls(s) ==
    /\ stream[s].at = "open"
    /\ stream' = [stream EXCEPT ![s].at = IF terminal THEN "closed" ELSE "asked",
                                ![s].job = IF terminal THEN @ ELSE job]
    /\ UNCHANGED flush /\ Untouched

\* The record is there: the reader is done if it says the run has ended.
PollAnswered(s) ==
    /\ stream[s].at = "asked"
    /\ stream' = [stream EXCEPT ![s].at =
           IF stream[s].job = "ENDED" THEN "closed" ELSE "open"]
    /\ UNCHANGED flush /\ Untouched

\* The client goes away.
Disconnects(s) ==
    /\ s \in Subscribed
    /\ stream' = [stream EXCEPT ![s].at = "closed"]
    /\ UNCHANGED flush /\ Untouched

RunnerStep == RunnerFlushes \/ RunnerWritesStatus \/ RunnerCloses
FlushStep(f) == FlushTakes(f) \/ FlushReads(f) \/ FlushWrites(f)
ReaderStep(s) == Connects(s) \/ ReadsLog(s) \/ Subscribes(s) \/ Polls(s) \/ PollAnswered(s)

LogNext ==
    \/ appendLog
    \/ TimerTicks
    \/ RunnerStep \/ Aborted \/ LogReopens \/ LogCrash
    \/ \E f \in Flushers : FlushStep(f)
    \/ \E s \in Readers : ReaderStep(s) \/ Disconnects(s)

LogSpec == LogInit /\ [][LogNext]_logVars

\* What is in progress goes on: storage accesses end, and a reader polls. Nothing says that
\* the container exits or that a client goes away.
LogFairness ==
    /\ WF_logVars(RunnerWritesStatus) /\ WF_logVars(RunnerCloses)
    /\ \A f \in Flushers : WF_logVars(FlushStep(f))
    /\ \A s \in Readers : WF_logVars(ReadsLog(s) \/ Subscribes(s) \/ Polls(s) \/ PollAnswered(s))

-----------------------------------------------------------------------------
\* The chunks a flush has taken and not written yet; with its lock it may have read the record.
InFlight == IF lock = Nobody THEN stored
            ELSE IF flush[lock].at = "read" THEN stored \o flush[lock].chunk ELSE flush[lock].chunk

\* The chunks that were written and not lost, each once and in order.
Whole(chunks) ==
    /\ ToSet(chunks) = 1 .. written \ lostChunks
    /\ \A i, j \in 1 .. Len(chunks) : i < j => chunks[i] < chunks[j]

\* Flushes of the timer, of the readers and of the ending run together store every chunk
\* once and in order, while more are written: only a crash loses any. services/runs.ts:862:
\* who sees the run end by itself finds its whole log stored. An abort writes the status
\* without waiting for the log.
LogIsWhole ==
    /\ []Whole(InFlight \o buffer)
    /\ [][(runner = "flush" /\ runner' = "cleanup")
              => Len(stored) + Cardinality(lostChunks) = written]_logVars

\* A reader of a run that has ended is let go, however it ended, or the run is resurrected.
ReadersLetGo ==
    \A s \in Readers : (stream[s].at = "open" /\ job = "ENDED") ~> (stream[s].at = "closed" \/ job = "LIVE")

\* test/integration/logs.test.ts:483: what a stream has sent is the log, without a gap.
\* Refuted: see README.md, Findings.
StreamIsWhole ==
    \A s \in Streams : stream[s].sent = [n \in 1 .. Len(stream[s].sent) |-> n]

=============================================================================
