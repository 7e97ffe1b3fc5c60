--------------------------- MODULE ReaderPipeline ---------------------------
(***************************************************************************)
(* AsyncReader of crates/ioengine/src/reader.rs: the calling task, the     *)
(* background io_uring thread, and the two bounded channels between them.  *)
(* stream_directory submits every request before it takes the first        *)
(* result, and ships packed blocks to the sender once it has them all;     *)
(* read_large_file is the case of one file.  A read may fail, and the call *)
(* that meets the failure returns without the other results.               *)
(***************************************************************************)
EXTENDS Integers, Sequences

CONSTANTS
    MaxFiles,      \* bound: files in the directory of one call
    MaxCalls,      \* bound: calls made on one reader
    ReqCap,        \* capacity of the request channel (QUEUE_DEPTH * 2 = 512)
    ResCap         \* capacity of the result channel (QUEUE_DEPTH * 2 = 512)

ASSUME ReaderAssumption ==
    /\ MaxFiles \in Nat \ {0} /\ MaxCalls \in Nat
    /\ ReqCap \in Nat \ {0} /\ ResCap \in Nat \ {0}

Calls == 1 .. MaxCalls
Files == 1 .. MaxFiles

Request == [call : Calls, file : Files]
Result == [call : Calls, file : Files, ok : BOOLEAN]
Shutdown == [call |-> 0, file |-> 0]       \* ReadRequest::Shutdown

VARIABLES
    pc,            \* caller: "idle", "submit", "collect", "ship" or "dropped"
    call,          \* number of the current or last call
    n,             \* files of the current or last call
    submitted,     \* requests of the current call sent so far
    got,           \* results that the current call has taken
    outcome,       \* how the last call ended: "none", "ok" or "error"
    req_q,         \* request channel
    res_q,         \* result channel
    thread,        \* "idle", "busy" (holds a result to send) or "ended"
    holding,       \* the result that a busy thread holds
    stale          \* results owed to earlier, failed calls when this one began

vars == << pc, call, n, submitted, got, outcome, req_q, res_q, thread, holding, stale >>

NoResult == [call |-> 0, file |-> 0, ok |-> FALSE]

Init ==
    /\ pc = "idle" /\ call = 0 /\ n = 0 /\ submitted = 0 /\ got = << >> /\ outcome = "none"
    /\ req_q = << >> /\ res_q = << >>
    /\ thread = "idle" /\ holding = NoResult
    /\ stale = 0

\* Requests and results that nobody has taken yet.
Owed == Len(req_q) + (IF thread = "busy" THEN 1 ELSE 0) + Len(res_q)

-----------------------------------------------------------------------------
(* The caller.                                                             *)

\* collect_files has found k files; an empty directory has nothing to wait for.
StartCall(k) ==
    /\ pc = "idle"
    /\ call < MaxCalls
    /\ pc' = IF k = 0 THEN "ship" ELSE "submit"
    /\ call' = call + 1
    /\ n' = k
    /\ submitted' = 0
    /\ got' = << >>
    /\ outcome' = "none"
    /\ stale' = Owed
    /\ UNCHANGED << req_q, res_q, thread, holding >>

\* request_tx.send blocks while the channel is full.
Submit ==
    /\ pc = "submit"
    /\ Len(req_q) < ReqCap
    /\ req_q' = Append(req_q, [call |-> call, file |-> submitted + 1])
    /\ submitted' = submitted + 1
    /\ pc' = IF submitted + 1 = n THEN "collect" ELSE "submit"
    /\ UNCHANGED << call, n, got, outcome, res_q, thread, holding, stale >>

\* Faulty variant: a failed read is asked for again, for ever.
Collect_retries ==
    /\ pc = "collect"
    /\ res_q # << >>
    /\ res_q' = Tail(res_q)
    /\ IF Head(res_q).ok
       THEN /\ got' = Append(got, Head(res_q))
            /\ pc' = IF Len(got) + 1 = n THEN "ship" ELSE "collect"
            /\ UNCHANGED req_q
       ELSE /\ Len(req_q) < ReqCap
            /\ req_q' = Append(req_q, [call |-> call, file |-> Head(res_q).file])
            /\ UNCHANGED << pc, got >>
    /\ UNCHANGED << outcome, call, n, submitted, thread, holding, stale >>

\* result_rx.recv; a failed read ends the call.
Collect ==
    /\ pc = "collect"
    /\ res_q # << >>
    /\ res_q' = Tail(res_q)
    /\ IF Head(res_q).ok
       THEN /\ got' = Append(got, Head(res_q))
            /\ pc' = IF Len(got) + 1 = n THEN "ship" ELSE "collect"
            /\ UNCHANGED outcome
       ELSE /\ pc' = "idle"
            /\ outcome' = "error"
            /\ UNCHANGED got
    /\ UNCHANGED << call, n, submitted, req_q, thread, holding, stale >>

\* The packed blocks go to the sender's channel, which may have been closed.
Ship(open) ==
    /\ pc = "ship"
    /\ pc' = "idle"
    /\ outcome' = IF open THEN "ok" ELSE "error"
    /\ UNCHANGED << call, n, submitted, got, req_q, res_q, thread, holding, stale >>

\* Drop for AsyncReader: a blocking send of Shutdown, then both ends go away.
DropReader ==
    /\ pc = "idle"
    /\ Len(req_q) < ReqCap
    /\ req_q' = Append(req_q, Shutdown)
    /\ pc' = "dropped"
    /\ UNCHANGED << call, n, submitted, got, outcome, res_q, thread, holding, stale >>

-----------------------------------------------------------------------------
(* The background thread: io_uring_read_loop.                              *)

\* Faulty variant: the request stays in the channel while it is served.
ThreadRead_peeks(ok) ==
    /\ thread = "idle"
    /\ req_q # << >>
    /\ Head(req_q) # Shutdown
    /\ thread' = "busy"
    /\ holding' = [call |-> Head(req_q).call, file |-> Head(req_q).file, ok |-> ok]
    /\ UNCHANGED << pc, call, n, submitted, got, outcome, req_q, res_q, stale >>

ThreadRead(ok) ==
    /\ thread = "idle"
    /\ req_q # << >>
    /\ Head(req_q) # Shutdown
    /\ thread' = "busy"
    /\ holding' = [call |-> Head(req_q).call, file |-> Head(req_q).file, ok |-> ok]
    /\ req_q' = Tail(req_q)
    /\ UNCHANGED << pc, call, n, submitted, got, outcome, res_q, stale >>

\* Faulty variant: a completion overtakes those that wait to be taken.
ThreadSend_overtakes ==
    /\ thread = "busy"
    /\ \/ pc # "dropped" /\ Len(res_q) < ResCap /\ res_q' = << holding >> \o res_q
       \/ pc = "dropped" /\ UNCHANGED res_q
    /\ thread' = "idle"
    /\ holding' = NoResult
    /\ UNCHANGED << pc, call, n, submitted, got, outcome, req_q, stale >>

\* Faulty variant: the thread tries again when the reader is gone.
ThreadSend_insists ==
    \/ /\ thread = "busy"
       /\ pc # "dropped" /\ Len(res_q) < ResCap
       /\ res_q' = Append(res_q, holding)
       /\ thread' = "idle"
       /\ holding' = NoResult
       /\ UNCHANGED << pc, call, n, submitted, got, outcome, req_q, stale >>
    \/ thread = "busy" /\ pc = "dropped" /\ UNCHANGED vars

\* tx.send blocks while the channel is full, and fails once the reader is gone.
ThreadSend ==
    /\ thread = "busy"
    /\ \/ pc # "dropped" /\ Len(res_q) < ResCap /\ res_q' = Append(res_q, holding)
       \/ pc = "dropped" /\ UNCHANGED res_q
    /\ thread' = "idle"
    /\ holding' = NoResult
    /\ UNCHANGED << pc, call, n, submitted, got, outcome, req_q, stale >>

ThreadEnd ==
    /\ thread = "idle"
    /\ req_q # << >>
    /\ Head(req_q) = Shutdown
    /\ thread' = "ended"
    /\ req_q' = Tail(req_q)
    /\ UNCHANGED << pc, call, n, submitted, got, outcome, res_q, holding, stale >>

\* The reader is dropped and its thread has ended.
Over == thread = "ended" /\ UNCHANGED vars

Thread == (\E ok \in BOOLEAN : ThreadRead(ok)) \/ ThreadSend \/ ThreadEnd

Next == \/ \E k \in 0 .. MaxFiles : StartCall(k)
        \/ Submit \/ Collect
        \/ \E open \in BOOLEAN : Ship(open)
        \/ DropReader \/ Thread \/ Over

Spec == Init /\ [][Next]_vars

\* Both threads are scheduled by the operating system and the sender's task
\* drains its channel; that a caller makes another call or drops the reader
\* is its own choice.
LiveSpec ==
    /\ Spec
    /\ WF_vars(Submit) /\ WF_vars(Collect) /\ WF_vars(Thread)
    /\ WF_vars(\E open \in BOOLEAN : Ship(open))

-----------------------------------------------------------------------------
\* Caller, thread and channels stay well formed and the channels within their
\* capacity.
TypeOK ==
    /\ pc \in {"idle", "submit", "collect", "ship", "dropped"}
    /\ call \in 0 .. MaxCalls
    /\ n \in 0 .. MaxFiles
    /\ submitted \in 0 .. n
    /\ pc \in {"submit", "collect"} => call \in Calls
    /\ pc = "submit" => submitted < n
    /\ got \in Seq(Result)
    /\ outcome \in {"none", "ok", "error"}
    /\ req_q \in Seq(Request \cup {Shutdown}) /\ Len(req_q) <= ReqCap
    /\ res_q \in Seq(Result) /\ Len(res_q) <= ResCap
    /\ thread \in {"idle", "busy", "ended"}
    /\ holding \in Result \cup {NoResult}
    /\ thread = "busy" => holding \in Result
    /\ stale \in Nat

\* Nothing moves any more: the caller waits for room in the request channel,
\* and the thread for room in the result channel.
Stuck ==
    /\ pc = "submit" /\ Len(req_q) = ReqCap
    /\ thread = "busy" /\ Len(res_q) = ResCap

\* Submitting all requests first is safe as long as the requests, together
\* with what earlier failed calls left behind, fit into the two channels and
\* the thread.
SubmitNeverStuck == stale + n <= ReqCap + ResCap + 1 => ~ Stuck

\* While requests are submitted none of the results is taken, so everything
\* submitted is still owed, on top of what earlier calls left behind.
OwedWhileSubmitting == pc = "submit" => Owed = stale + submitted

\* A call that began with nothing left over takes its own results, in the
\* order of its requests, each of them once; a successful call has them all.
OwnResultsInOrder ==
    stale = 0 =>
        /\ \A i \in 1 .. Len(got) : got[i] = [call |-> call, file |-> i, ok |-> TRUE]
        /\ outcome = "ok" => Len(got) = n

\* Every call returns, with or without an error.
CallReturns == pc \in {"submit", "collect", "ship"} ~> pc = "idle"

\* Dropping the reader ends its thread.
ThreadEnds == pc = "dropped" ~> thread = "ended"
=============================================================================
