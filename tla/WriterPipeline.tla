--------------------------- MODULE WriterPipeline ---------------------------
(***************************************************************************)
(* AsyncWriter of crates/ioengine/src/writer.rs: one call of               *)
(* receive_and_write, the background io_uring thread, the two bounded      *)
(* channels between them, and the end of the writer.  Blocks arrive in any *)
(* order and any number of times, and the channel they arrive on may close *)
(* at any moment.  File 1 is split over BigParts blocks; the other files   *)
(* share one block.                                                        *)
(***************************************************************************)
EXTENDS Integers, Sequences, FiniteSets

CONSTANTS
    NFiles,        \* files in the transfer
    BigParts,      \* parts of the split file (1: it is not split)
    MaxBlocks,     \* bound: blocks that arrive
    ReqCap,        \* capacity of the request channel (WRITE_QUEUE_DEPTH * 2 = 256)
    ResCap         \* capacity of the result channel (WRITE_QUEUE_DEPTH * 2 = 256)

ASSUME WriterAssumption ==
    /\ NFiles \in Nat \ {0} /\ BigParts \in Nat \ {0} /\ MaxBlocks \in Nat
    /\ ReqCap \in Nat \ {0} /\ ResCap \in Nat \ {0}

Files == 1 .. NFiles
total_parts(f) == IF f = 1 THEN BigParts ELSE 1
Parts(f) == 0 .. (total_parts(f) - 1)

Entry == {e \in [path : Files, part : 0 .. (BigParts - 1)] : e.part \in Parts(e.path)}

\* What unpack_entries yields: a part of the split file, or all small files.
Blocks == {<< [path |-> 1, part |-> i] >> : i \in Parts(1)}
          \cup {[i \in 1 .. k |-> [path |-> i + 1, part |-> 0]] : k \in {NFiles - 1} \ {0}}

Outcomes == {"ok", "failed"}
None == 0          \* the request that ends the thread

VARIABLES
    pc,            \* "recv", "entry", "reap", "drain", "ok", "error" or "dropped"
    todo,          \* entries of the current block that are left
    partial,       \* parts gathered for each split file
    in_flight,     \* writes submitted and not yet reaped
    arrived,       \* history: entries that have arrived
    blocks,        \* history: blocks that have arrived
    req_q,         \* request channel: files to be written
    res_q,         \* result channel
    thread,        \* "idle", "busy" (holds a result to send) or "ended"
    holding,       \* the result that a busy thread holds
    disk           \* the parts of each file that are on disk

vars == << pc, todo, partial, in_flight, arrived, blocks,
           req_q, res_q, thread, holding, disk >>
threadVars == << thread, holding, disk >>

Init ==
    /\ pc = "recv" /\ todo = << >> /\ in_flight = 0
    /\ partial = [f \in Files |-> {}]
    /\ arrived = {} /\ blocks = 0
    /\ req_q = << >> /\ res_q = << >>
    /\ thread = "idle" /\ holding = "ok"
    /\ disk = [f \in Files |-> {}]

-----------------------------------------------------------------------------
(* receive_and_write.                                                      *)

RecvBlock(b) ==
    /\ pc = "recv"
    /\ blocks < MaxBlocks
    /\ blocks' = blocks + 1
    /\ todo' = b
    /\ pc' = "entry"
    /\ UNCHANGED << partial, in_flight, arrived, req_q, res_q, threadVars >>

\* Faulty variant: the end of the data is noticed only with nothing in flight.
Closed_when_idle ==
    /\ pc = "recv"
    /\ in_flight = 0
    /\ pc' = "drain"
    /\ UNCHANGED << todo, partial, in_flight, arrived, blocks, req_q, res_q, threadVars >>

\* data_rx is closed and empty.
Closed ==
    /\ pc = "recv"
    /\ pc' = "drain"
    /\ UNCHANGED << todo, partial, in_flight, arrived, blocks, req_q, res_q, threadVars >>

\* The parts of f, once this entry has been added to the accumulator.
Gathered(e) == partial[e.path] \cup {e.part}

\* A chunk that does not unpack ends the call, and so does a directory that
\* cannot be created for a complete file.
Fail ==
    /\ \/ pc = "recv"
       \/ pc = "entry" /\ Gathered(Head(todo)) = Parts(Head(todo).path)
    /\ pc' = "error"
    /\ UNCHANGED << todo, partial, in_flight, arrived, blocks, req_q, res_q, threadVars >>

\* An entry that leaves its file incomplete.
KeepPart ==
    LET e == Head(todo)
    IN  /\ pc = "entry"
        /\ Gathered(e) # Parts(e.path)
        /\ partial' = [partial EXCEPT ![e.path] = Gathered(e)]
        /\ arrived' = arrived \cup {e}
        /\ todo' = Tail(todo)
        /\ pc' = "reap"
        /\ UNCHANGED << in_flight, blocks, req_q, res_q, threadVars >>

\* An entry that completes its file (an unsplit file at once): submit_write,
\* which blocks while the request channel is full.
SubmitWrite ==
    LET e == Head(todo)
    IN  /\ pc = "entry"
        /\ Gathered(e) = Parts(e.path)
        /\ Len(req_q) < ReqCap
        /\ req_q' = Append(req_q, e.path)
        /\ in_flight' = in_flight + 1
        /\ partial' = [partial EXCEPT ![e.path] = {}]
        /\ arrived' = arrived \cup {e}
        /\ todo' = Tail(todo)
        /\ pc' = "reap"
        /\ UNCHANGED << blocks, res_q, threadVars >>

\* try_recv finds a result.
Reap ==
    /\ pc = "reap"
    /\ in_flight > 0 /\ res_q # << >>
    /\ res_q' = Tail(res_q)
    /\ IF Head(res_q) = "ok"
       THEN in_flight' = in_flight - 1 /\ UNCHANGED pc
       ELSE pc' = "error" /\ UNCHANGED in_flight
    /\ UNCHANGED << todo, partial, arrived, blocks, req_q, threadVars >>

\* Faulty variant: reaping stops although results are waiting.
Reaped_early ==
    /\ pc = "reap"
    /\ pc' = IF todo = << >> THEN "recv" ELSE "entry"
    /\ UNCHANGED << todo, partial, in_flight, arrived, blocks, req_q, res_q, threadVars >>

\* Nothing in flight, or try_recv finds the channel empty.
Reaped ==
    /\ pc = "reap"
    /\ in_flight = 0 \/ res_q = << >>
    /\ pc' = IF todo = << >> THEN "recv" ELSE "entry"
    /\ UNCHANGED << todo, partial, in_flight, arrived, blocks, req_q, res_q, threadVars >>

\* The blocking receive after the data channel was closed.
Drain ==
    /\ pc = "drain"
    /\ in_flight > 0 /\ res_q # << >>
    /\ res_q' = Tail(res_q)
    /\ IF Head(res_q) = "ok"
       THEN in_flight' = in_flight - 1 /\ UNCHANGED pc
       ELSE pc' = "error" /\ UNCHANGED in_flight
    /\ UNCHANGED << todo, partial, arrived, blocks, req_q, threadVars >>

\* Faulty variant: the call returns without waiting for the last writes.
Finish_early ==
    /\ pc = "drain"
    /\ pc' = "ok"
    /\ UNCHANGED << todo, partial, in_flight, arrived, blocks, req_q, res_q, threadVars >>

Finish ==
    /\ pc = "drain"
    /\ in_flight = 0
    /\ pc' = "ok"
    /\ UNCHANGED << todo, partial, in_flight, arrived, blocks, req_q, res_q, threadVars >>

\* Drop for AsyncWriter, after the call: a blocking send of None, then both
\* ends go away.
DropWriter ==
    /\ pc \in {"ok", "error"}
    /\ Len(req_q) < ReqCap
    /\ req_q' = Append(req_q, None)
    /\ pc' = "dropped"
    /\ UNCHANGED << todo, partial, in_flight, arrived, blocks, res_q, threadVars >>

-----------------------------------------------------------------------------
(* io_uring_write_loop.                                                    *)

\* The file is truncated and written; a write that fails leaves what it left.
ThreadWrite(result) ==
    /\ thread = "idle"
    /\ req_q # << >> /\ Head(req_q) # None
    /\ req_q' = Tail(req_q)
    /\ thread' = "busy"
    /\ holding' = result
    /\ \E left \in IF result = "ok" THEN {Parts(Head(req_q))} ELSE SUBSET Parts(Head(req_q)) :
          disk' = [disk EXCEPT ![Head(req_q)] = left]
    /\ UNCHANGED << pc, todo, partial, in_flight, arrived, blocks, res_q >>

\* Faulty variant: the thread tries again when the writer is gone.
ThreadSend_insists ==
    \/ /\ thread = "busy"
       /\ pc # "dropped" /\ Len(res_q) < ResCap
       /\ res_q' = Append(res_q, holding)
       /\ thread' = "idle"
       /\ UNCHANGED << pc, todo, partial, in_flight, arrived, blocks, req_q, holding, disk >>
    \/ thread = "busy" /\ pc = "dropped" /\ UNCHANGED vars

\* tx.send blocks while the channel is full, and fails once the writer is gone.
ThreadSend ==
    /\ thread = "busy"
    /\ \/ pc # "dropped" /\ Len(res_q) < ResCap /\ res_q' = Append(res_q, holding)
       \/ pc = "dropped" /\ UNCHANGED res_q
    /\ thread' = "idle"
    /\ UNCHANGED << pc, todo, partial, in_flight, arrived, blocks, req_q, holding, disk >>

ThreadEnd ==
    /\ thread = "idle"
    /\ req_q # << >> /\ Head(req_q) = None
    /\ req_q' = Tail(req_q)
    /\ thread' = "ended"
    /\ UNCHANGED << pc, todo, partial, in_flight, arrived, blocks, res_q, holding, disk >>

\* The writer is dropped and its thread has ended.
Over == thread = "ended" /\ UNCHANGED vars

Thread == (\E r \in Outcomes : ThreadWrite(r)) \/ ThreadSend \/ ThreadEnd

Caller == KeepPart \/ SubmitWrite \/ Reap \/ Reaped \/ Drain \/ Finish

Next == \/ \E b \in Blocks : RecvBlock(b)
        \/ Fail \/ Closed \/ Caller \/ DropWriter \/ Thread \/ Over

Spec == Init /\ [][Next]_vars

\* Both threads are scheduled, and the receiver closes the channel in the end.
LiveSpec == Spec /\ WF_vars(Caller) /\ WF_vars(Thread) /\ WF_vars(Closed)

-----------------------------------------------------------------------------
\* Caller, thread, channels and disk stay well formed, the channels within
\* their capacity.
TypeOK ==
    /\ pc \in {"recv", "entry", "reap", "drain", "ok", "error", "dropped"}
    /\ todo \in Seq(Entry)
    /\ pc = "entry" => todo # << >>
    /\ partial \in [Files -> SUBSET (0 .. (BigParts - 1))]
    /\ in_flight \in Nat
    /\ arrived \subseteq Entry
    /\ blocks \in 0 .. MaxBlocks
    /\ req_q \in Seq(Files \cup {None}) /\ Len(req_q) <= ReqCap
    /\ res_q \in Seq(Outcomes) /\ Len(res_q) <= ResCap
    /\ thread \in {"idle", "busy", "ended"} /\ holding \in Outcomes
    /\ disk \in [Files -> SUBSET (0 .. (BigParts - 1))]

Busy == IF thread = "busy" THEN 1 ELSE 0

\* Every write in flight is in exactly one place, until the call has failed.
Accounted == pc \notin {"error", "dropped"} => in_flight = Len(req_q) + Busy + Len(res_q)

\* Reaping after every entry bounds the window by the request channel, however
\* large the result channel is.
WindowBounded == in_flight <= ReqCap + 2

\* The caller and the thread never wait for each other's channel.
NeverStuck ==
    ~ /\ pc = "entry" /\ Len(req_q) = ReqCap
      /\ thread = "busy" /\ Len(res_q) = ResCap

\* All the parts of f have arrived.
AllArrived(f) == \A p \in Parts(f) : [path |-> f, part |-> p] \in arrived

\* A call that returns Ok has put every file whose parts arrived on disk, whole,
\* whatever the order and the repetitions of its blocks.
OkMeansWritten == pc = "ok" => \A f \in Files : AllArrived(f) => disk[f] = Parts(f)

\* Every call returns, once its data channel is closed if not earlier.
CallReturns == pc = "recv" ~> pc \in {"ok", "error"}

\* Dropping the writer ends its thread, with every submitted write carried out.
ThreadEnds == pc = "dropped" ~> thread = "ended" /\ req_q = << >>
=============================================================================
