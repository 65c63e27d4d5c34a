------------------------------ MODULE Logging -------------------------------
(***************************************************************************)
(* A logger of spdlog on a rotating file, used by several threads, in both *)
(* modes of the registry:                                                  *)
(*                                                                         *)
(*   sync   a thread formats its message and calls the sink, under the     *)
(*          mutex of base_sink, when the line_logger is destroyed;         *)
(*   async  it puts the message in the queue of async_log_helper, whose    *)
(*          worker thread formats it and calls the sink.                   *)
(*                                                                         *)
(* Destructors do not throw, so an exception that reaches ~line_logger     *)
(* ends the process.  Files outlive the process; the next one appends.     *)
(***************************************************************************)
EXTENDS RotatingFile, MpmcQueue, FiniteSets

CONSTANTS
  Threads,   \* threads that log; Owner is the one that drops the logger last
  Owner,
  Worker,    \* the helper's worker thread
  Modes,     \* the modes to start in: "sync", "async"
  Policy,    \* "block_retry" or "discard_log_msg"
  Formats,   \* TRUE: formatting succeeds, FALSE: it throws
  Flushes,   \* the threads that call flush() too
  Kills,     \* whether the process may be killed
  MaxCalls,  \* bound: calls of the logger by one thread in all lives
  MaxLives   \* bound: processes, one after the other

ASSUME LoggingAssumption ==
  /\ Owner \in Threads
  /\ Pushers = Threads
  /\ Poppers = {Worker}
  /\ Modes \subseteq {"sync", "async"}
  /\ Policy \in {"block_retry", "discard_log_msg"}
  /\ Formats \subseteq BOOLEAN /\ Flushes \subseteq Threads /\ Kills \in BOOLEAN
  /\ MaxCalls \in Nat /\ MaxLives \in Nat

VARIABLES
  mode,       \* this life's mode; "none" between two lives
  lives,      \* processes started so far
  call,       \* call[t]: calls t has made
  holder,     \* who holds the sink's mutex; None if nobody
  dying,      \* an exception is on its way to a destructor of a sync caller
  bad,        \* _last_workerthread_ex: an exception nobody has seen yet
  worker,     \* "off", "loop", "log", "ended" (returned), "failed" (threw)
  flush_requested,
  terminate_requested,
  closing,    \* ~async_log_helper: "no", "push", "join", "closed"
  accepted,   \* messages of this life that the queue has taken
  written     \* history: the records the sink has written, over all lives

helper  == <<bad, worker, flush_requested, terminate_requested, closing>>
lvars   == <<fvars, qvars, mode, lives, call, holder, dying, helper, accepted, written>>

Msg(t, n, kind) == [from |-> t, n |-> n, kind |-> kind]

\* Every call of the logger and of its destructor has a message to pass on,
\* and every message and every part of one a size.
ASSUME MessageAssumption ==
  /\ None \notin Threads \cup {Worker}
  /\ \A t \in Threads, n \in 1..MaxCalls, kind \in {"log", "flush", "terminate"} :
       Msg(t, n, kind) \in Message
  /\ \A m \in Message :
       /\ Bytes(m) \in Nat
       /\ \A n \in 1..(Bytes(m) - 1) : Bytes(Part(m, n)) = n /\ Part(m, n) \notin Message

Next1(t, kind)  == Msg(t, call[t] + 1, kind)

HelperInit ==
  /\ bad = FALSE
  /\ worker = "off"
  /\ flush_requested = FALSE
  /\ terminate_requested = FALSE
  /\ closing = "no"

HelperReset ==
  /\ bad' = FALSE
  /\ worker' = "off"
  /\ flush_requested' = FALSE
  /\ terminate_requested' = FALSE
  /\ closing' = "no"

LoggingInit ==
  /\ FileInit /\ QueueInit /\ HelperInit
  /\ mode = "none" /\ lives = 0
  /\ call = [t \in Threads |-> 0]
  /\ holder = None /\ dying = FALSE
  /\ accepted = {} /\ written = <<>>

-----------------------------------------------------------------------------
\* registry::create: the sink is opened; an exception leaves no logger.
create ==
  /\ mode = "none" /\ lives < MaxLives
  /\ mode' \in Modes
  /\ worker' = IF mode' = "async" THEN "loop" ELSE "off"
  /\ open_sink
  /\ lives' = lives + 1
  /\ UNCHANGED <<qvars, call, holder, dying, bad, flush_requested, terminate_requested,
                 closing, accepted, written>>

\* The process ends, by std::terminate or because it is killed: a buffered
\* record is in the file only if stdio happened to write it.
Down ==
  /\ mode # "none"
  /\ \E n \in 0..buffered : end_file(n)
  /\ QueueReset /\ HelperReset
  /\ mode' = "none" /\ holder' = None /\ dying' = FALSE /\ accepted' = {}
  /\ UNCHANGED <<lives, call, written>>

killed == Kills /\ Down

-----------------------------------------------------------------------------
\* logger::_log_msg in a sync logger: format, then lock_guard and _sink_it.
log_sync(t) ==
  /\ mode = "sync" /\ call[t] < MaxCalls
  /\ TRUE \in Formats
  /\ holder = None
  /\ holder' = t
  /\ sink_it(Next1(t, "log"))
  /\ call' = [call EXCEPT ![t] = @ + 1]
  /\ UNCHANGED <<qvars, mode, lives, dying, helper, accepted, written>>

\* The formatter throws in ~line_logger.
log_sync_throws(t) ==
  /\ mode = "sync" /\ call[t] < MaxCalls
  /\ FALSE \in Formats
  /\ Down

\* The sink's steps, by whoever holds its mutex.
sink_step ==
  /\ Sinking
  /\ IF sink'.at = "ready"
       THEN /\ written' = Append(written, sink.rec)
            /\ holder' = None
            /\ worker' = IF holder = Worker THEN "loop" ELSE worker
       ELSE UNCHANGED <<written, holder, worker>>
  /\ UNCHANGED <<qvars, mode, lives, call, dying, bad, flush_requested,
                 terminate_requested, closing, accepted>>

\* An exception of the sink releases the mutex before it reaches
\* ~line_logger, and other threads may log in between.
sync_throws ==
  /\ sink.at = "throw" /\ holder \in Threads
  /\ sink' = NoCall
  /\ holder' = None
  /\ dying' = TRUE
  /\ UNCHANGED <<file, fd, force, buffered, size, lost, qvars, mode, lives, call, helper,
                 accepted, written>>

terminate == dying /\ Down

-----------------------------------------------------------------------------
\* async_log_helper::push_msg: throw_if_bad_worker, then the queue.
push_msg(t, m) ==
  /\ ~bad
  /\ enqueue(t, m)

log_async(t) ==
  /\ mode = "async" /\ closing = "no" /\ call[t] < MaxCalls
  /\ \E kind \in {"log"} \cup (IF t \in Flushes THEN {"flush"} ELSE {}) :
       push_msg(t, Next1(t, kind))
  /\ call' = [call EXCEPT ![t] = @ + 1]
  /\ UNCHANGED <<fvars, mode, lives, holder, dying, helper, accepted, written>>

\* The exception of the worker is thrown once: out of log() it reaches
\* ~line_logger, out of flush() the caller.
log_async_throws(t) ==
  /\ mode = "async" /\ closing = "no" /\ call[t] < MaxCalls
  /\ op[t].at = "idle" /\ bad
  /\ Down

flush_throws(t) ==
  /\ mode = "async" /\ closing = "no" /\ call[t] < MaxCalls
  /\ t \in Flushes
  /\ op[t].at = "idle" /\ bad
  /\ bad' = FALSE
  /\ call' = [call EXCEPT ![t] = @ + 1]
  /\ UNCHANGED <<fvars, qvars, mode, lives, holder, dying, worker, flush_requested,
                 terminate_requested, closing, accepted, written>>

push_step(t) ==
  /\ Pushing(t)
  /\ UNCHANGED <<fvars, mode, lives, call, holder, dying, helper, accepted, written>>

\* The queue has taken the message, or has refused it and the policy is to
\* discard it.
push_returns(t) ==
  /\ op[t].at = "done" \/ (op[t].at = "full" /\ Policy = "discard_log_msg")
  /\ return(t)
  /\ accepted' = IF op[t].at = "done" THEN accepted \cup {op[t].msg} ELSE accepted
  /\ closing' = IF op[t].msg.kind = "terminate" THEN "join" ELSE closing
  /\ UNCHANGED <<fvars, mode, lives, call, holder, dying, bad, worker, flush_requested,
                 terminate_requested, written>>

\* block_retry: again and again, without another look at the worker.
push_retries(t) ==
  /\ op[t].at = "full" /\ Policy = "block_retry"
  /\ op' = [op EXCEPT ![t].at = "look", ![t].pos = enqueue_pos]
  /\ UNCHANGED <<fvars, sequence, data, enqueue_pos, dequeue_pos, mode, lives,
                 call, holder, dying, helper, accepted, written>>

-----------------------------------------------------------------------------
\* The worker thread: worker_loop and process_next_msg.
process_next_msg ==
  /\ worker = "loop" /\ op[Worker].at = "idle"
  /\ dequeue(Worker)
  /\ UNCHANGED <<fvars, mode, lives, call, holder, dying, helper, accepted, written>>

pop_step ==
  /\ Popping(Worker)
  /\ UNCHANGED <<fvars, mode, lives, call, holder, dying, helper, accepted, written>>

process_request ==
  /\ op[Worker].at = "done" /\ op[Worker].msg.kind \in {"flush", "terminate"}
  /\ return(Worker)
  /\ flush_requested' = TRUE
  /\ terminate_requested' =
       (terminate_requested \/ op[Worker].msg.kind = "terminate")
  /\ UNCHANGED <<fvars, mode, lives, call, holder, dying, bad, worker, closing, accepted,
                 written>>

process_log ==
  /\ op[Worker].at = "done" /\ op[Worker].msg.kind = "log"
  /\ TRUE \in Formats
  /\ return(Worker)
  /\ sink_it(op[Worker].msg)
  /\ holder' = Worker
  /\ worker' = "log"
  /\ UNCHANGED <<mode, lives, call, dying, bad, flush_requested,
                 terminate_requested, closing, accepted, written>>

\* worker_loop keeps the exception for the next caller and returns.
worker_fails ==
  /\ \/ /\ op[Worker].at = "done" /\ op[Worker].msg.kind = "log"
        /\ FALSE \in Formats
        /\ return(Worker)
        /\ UNCHANGED sink
     \/ /\ sink.at = "throw" /\ holder = Worker
        /\ sink' = NoCall
        /\ UNCHANGED qvars
  /\ bad' = TRUE
  /\ worker' = "failed"
  /\ holder' = None
  /\ UNCHANGED <<file, fd, force, buffered, size, lost, mode, lives, call, dying,
                 flush_requested, terminate_requested, closing, accepted, written>>

\* As process_empty, ending before it has flushed.
process_empty_no_flush ==
  /\ op[Worker].at = "empty"
  /\ return(Worker)
  /\ IF flush_requested /\ ~terminate_requested THEN flush_file ELSE UNCHANGED fvars
  /\ flush_requested' = FALSE
  /\ worker' = IF terminate_requested THEN "ended" ELSE "loop"
  /\ UNCHANGED <<mode, lives, call, holder, dying, bad, terminate_requested, closing,
                 accepted, written>>

\* The queue looked empty: handle_flush_interval, and the only way out.
process_empty ==
  /\ op[Worker].at = "empty"
  /\ return(Worker)
  /\ IF flush_requested THEN flush_file ELSE UNCHANGED fvars
  /\ flush_requested' = FALSE
  /\ worker' = IF terminate_requested THEN "ended" ELSE "loop"
  /\ UNCHANGED <<mode, lives, call, holder, dying, bad, terminate_requested, closing,
                 accepted, written>>

-----------------------------------------------------------------------------
\* ~async_log_helper, once no other thread uses the logger any more.
destroy ==
  /\ mode = "async" /\ closing = "no"
  /\ \A t \in Threads : op[t].at = "idle"
  /\ call[Owner] < MaxCalls
  /\ push_msg(Owner, Next1(Owner, "terminate"))
  /\ closing' = "push"
  /\ call' = [call EXCEPT ![Owner] = MaxCalls]
  /\ UNCHANGED <<fvars, mode, lives, holder, dying, bad, worker, flush_requested,
                 terminate_requested, accepted, written>>

\* push_msg throws, join() is skipped, and the joinable thread's destructor
\* terminates the process.
destroy_throws ==
  /\ mode = "async" /\ closing = "no" /\ bad
  /\ \A t \in Threads : op[t].at = "idle"
  /\ Down

join ==
  /\ closing = "join" /\ worker \in {"ended", "failed"}
  /\ closing' = "closed"
  /\ UNCHANGED <<fvars, qvars, mode, lives, call, holder, dying, bad, worker,
                 flush_requested, terminate_requested, accepted, written>>

\* The last reference is dropped: the sink closes its file, and the program
\* may create the logger again.
drop ==
  /\ \/ closing = "closed"
     \/ mode = "sync" /\ holder = None /\ ~dying
  /\ \E n \in Losses : end_file(n)
  /\ QueueReset /\ HelperReset
  /\ mode' = "none" /\ accepted' = {}
  /\ UNCHANGED <<lives, call, holder, dying, written>>

-----------------------------------------------------------------------------
Caller(t) ==
  \/ log_sync(t) \/ log_sync_throws(t)
  \/ log_async(t) \/ log_async_throws(t) \/ flush_throws(t)
  \/ push_step(t) \/ push_returns(t) \/ push_retries(t)

WorkerThread ==
  \/ process_next_msg \/ pop_step \/ process_request \/ process_log
  \/ worker_fails \/ process_empty

LoggingNext ==
  \/ create \/ killed
  \/ \E t \in Threads : Caller(t)
  \/ sink_step \/ sync_throws \/ terminate
  \/ WorkerThread
  \/ destroy \/ destroy_throws \/ join \/ drop

LoggingSpec == LoggingInit /\ [][LoggingNext]_lvars

(***************************************************************************)
(* The threads are scheduled.  A compare-and-swap that may succeed again   *)
(* and again does succeed: compare_exchange_weak fails for no reason only  *)
(* where another processor has touched the cache line.                     *)
(***************************************************************************)
Fairness ==
  /\ WF_lvars(sink_step) /\ WF_lvars(WorkerThread)
  /\ SF_lvars(pop_step /\ op'[Worker].at = "read")
  /\ \A t \in Threads :
       /\ WF_lvars(push_step(t)) /\ WF_lvars(push_returns(t))
       /\ WF_lvars(push_retries(t))
       /\ SF_lvars(push_step(t) /\ op'[t].at = "write")

FairLoggingSpec == LoggingSpec /\ Fairness

-----------------------------------------------------------------------------
LoggingTypeOK ==
  /\ FileTypeOK
  /\ mode \in {"none", "sync", "async"}
  /\ holder \in Threads \cup {Worker, None}
  /\ sink.at = "ready" <=> holder = None
  /\ worker \in {"off", "loop", "log", "ended", "failed"}
  /\ bad => worker = "failed"
  /\ closing \in {"no", "push", "join", "closed"}
  /\ accepted \subseteq {Msg(t, n, k) : t \in Threads, n \in 1..(MaxCalls + 1),
                                        k \in {"log", "flush", "terminate"}}

\* Record k of file f is older than record l of file g.
Older(f, k, g, l) == f > g \/ (f = g /\ k < l)

(***************************************************************************)
(* The whole records in the files, from the oldest file to the newest, are *)
(* the end of what the sink has written, in its order and without gaps but *)
(* for the records that stdio lost after it had taken them, which nobody   *)
(* is told: whatever call of a rotation failed, whoever logged next,       *)
(* wherever a record was cut and a process stopped.                        *)
(***************************************************************************)
FilesAreTheLog ==
  \A f \in DOMAIN file : \A k \in DOMAIN file[f] : file[f][k] \in Message =>
    \E i \in DOMAIN written :
      /\ written[i] = file[f][k] /\ written[i] \notin lost
      /\ \A g \in DOMAIN file : \A l \in DOMAIN file[g] :
           Older(f, k, g, l) /\ file[g][l] \in Message =>
             \E j \in DOMAIN written : i < j /\ written[j] = file[g][l]
      /\ \A j \in DOMAIN written : i < j /\ written[j] \notin lost =>
           \E g \in DOMAIN file : \E l \in DOMAIN file[g] :
             Older(f, k, g, l) /\ file[g][l] = written[j]

(***************************************************************************)
(* When ~async_log_helper has joined a worker that returned, the sink has  *)
(* written every message the queue had taken, and nothing is in stdio's    *)
(* buffer any more (where a failing fflush may have lost it: FilesAreTheLog *)
(* says what the files have).                                              *)
(***************************************************************************)
ShutdownDelivers ==
  closing = "closed" /\ worker = "ended" =>
    /\ \A m \in accepted : m.kind = "log" => \E i \in DOMAIN written : written[i] = m
    /\ buffered = 0

(***************************************************************************)
(* Within one life the queue is a FIFO queue of at most Size messages: a   *)
(* put takes place when its position is claimed, although the message is   *)
(* written later.                                                          *)
(***************************************************************************)
QueueIsFifo == Fifo!Init /\ [][Fifo!Next \/ mode' = "none"]_(Fifo!vars)

(***************************************************************************)
(* A call of log, and the destructor's, returns as long as the worker has  *)
(* not failed, however full the queue is.                                  *)
(***************************************************************************)
CallsReturn ==
  \A t \in Threads : op[t].at # "idle" ~> op[t].at = "idle" \/ worker = "failed"

(***************************************************************************)
(* The comment in ~async_log_helper ("don't crash in destructor") as a     *)
(* property: destroying the helper does not end the process.  Violated     *)
(* when the worker's exception meets the destructor.                       *)
(***************************************************************************)
DestructorSurvives == [][~destroy_throws]_lvars

(***************************************************************************)
(* CallsReturn whatever becomes of the worker.  Violated: push_msg looks   *)
(* at the worker once and then tries for ever.                             *)
(***************************************************************************)
CallsReturnAlways == \A t \in Threads : op[t].at # "idle" ~> op[t].at = "idle"
=============================================================================
