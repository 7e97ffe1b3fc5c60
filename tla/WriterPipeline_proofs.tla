----------------------- MODULE WriterPipeline_proofs -----------------------
(***************************************************************************)
(* For any number of files, parts and blocks and any capacities: the       *)
(* writer's window is bounded, its two threads never block each other, and *)
(* a call that returns Ok has written every file that arrived completely.  *)
(***************************************************************************)
EXTENDS WriterPipeline, TLAPS

Has(q, x) == \E i \in 1 .. Len(q) : q[i] = x

\* Before the caller looks at the next entry, the result channel has been seen
\* empty: whatever is in flight was in the request channel or with the thread.
AfterReaping == pc \in {"recv", "entry", "drain", "ok"} => in_flight <= ReqCap + 1

\* None is sent last.
NoEarlyNone == pc # "dropped" => req_q \in Seq(Files)

WindowInv ==
    /\ TypeOK
    /\ NoEarlyNone
    /\ Accounted
    /\ WindowBounded
    /\ AfterReaping
    /\ pc = "ok" => in_flight = 0

\* Appending an element and removing the first one, on typed sequences.
LEMMA QueueSteps ==
    ASSUME NEW S, NEW q \in Seq(S)
    PROVE  /\ \A e \in S : Append(q, e) \in Seq(S) /\ Len(Append(q, e)) = Len(q) + 1
           /\ q # << >> => /\ Head(q) \in S
                           /\ Tail(q) \in Seq(S)
                           /\ Len(Tail(q)) = Len(q) - 1
           /\ Len(q) \in Nat
           /\ Len(q) = 0 <=> q = << >>
OBVIOUS

\* What a queue holds after an element is appended or the first one removed.
LEMMA QueueMembers ==
    ASSUME NEW S, NEW q \in Seq(S), NEW x
    PROVE  /\ \A e \in S : Has(q, x) \/ x = e => Has(Append(q, e), x)
           /\ q # << >> /\ Has(q, x) => x = Head(q) \/ Has(Tail(q), x)
<1>1. ASSUME NEW e \in S, Has(q, x) \/ x = e PROVE Has(Append(q, e), x)
  <2>1. CASE x = e
    <3>1. Len(q) + 1 \in 1 .. Len(Append(q, e)) /\ Append(q, e)[Len(q) + 1] = e
      OBVIOUS
    <3> QED
      BY <2>1, <3>1 DEF Has
  <2>2. CASE Has(q, x)
    <3>1. PICK i \in 1 .. Len(q) : q[i] = x
      BY <2>2 DEF Has
    <3>2. i \in 1 .. Len(Append(q, e)) /\ Append(q, e)[i] = x
      BY <3>1
    <3> QED
      BY <3>2 DEF Has
  <2> QED
    BY <1>1, <2>1, <2>2
<1>2. ASSUME q # << >>, Has(q, x), x # Head(q) PROVE Has(Tail(q), x)
  <2>1. PICK i \in 1 .. Len(q) : q[i] = x
    BY <1>2 DEF Has
  <2>2. i # 1
    BY <1>2, <2>1
  <2>3. i - 1 \in 1 .. Len(Tail(q)) /\ Tail(q)[i - 1] = x
    BY <1>2, <2>1, <2>2
  <2> QED
    BY <2>3 DEF Has
<1> QED
  BY <1>1, <1>2

\* An entry names a file and one of its parts, and blocks consist of entries.
LEMMA EntryType ==
    /\ \A e \in Entry : e.path \in Files /\ e.part \in Parts(e.path)
    /\ \A f \in Files : Parts(f) # {} /\ Parts(f) \subseteq 0 .. (BigParts - 1)
    /\ \A b \in Blocks : b \in Seq(Entry) /\ b # << >>
<1> USE WriterAssumption
<1>1. \A e \in Entry : e.path \in Files /\ e.part \in Parts(e.path)
  BY DEF Entry
<1>2. \A f \in Files : Parts(f) # {} /\ Parts(f) \subseteq 0 .. (BigParts - 1)
  <2> TAKE f \in Files
  <2>1. total_parts(f) \in 1 .. BigParts
    BY DEF total_parts
  <2>2. 0 \in Parts(f)
    BY <2>1 DEF Parts
  <2> QED
    BY <2>1, <2>2 DEF Parts
<1>3. ASSUME NEW i \in Parts(1) PROVE << [path |-> 1, part |-> i] >> \in Seq(Entry)
  <2>1. [path |-> 1, part |-> i] \in Entry
    BY <1>2 DEF Entry, Files
  <2> QED
    BY <2>1
<1>4. ASSUME NEW k \in {NFiles - 1} \ {0}
      PROVE  /\ [i \in 1 .. k |-> [path |-> i + 1, part |-> 0]] \in Seq(Entry)
             /\ [i \in 1 .. k |-> [path |-> i + 1, part |-> 0]] # << >>
  <2>1. k \in Nat /\ k > 0 /\ k = NFiles - 1
    OBVIOUS
  <2>2. ASSUME NEW i \in 1 .. k PROVE [path |-> i + 1, part |-> 0] \in Entry
    <3>1. i + 1 \in Files /\ i + 1 # 1
      BY <2>1 DEF Files
    <3>2. 0 \in Parts(i + 1) /\ 0 \in 0 .. (BigParts - 1)
      BY <3>1 DEF Parts, total_parts
    <3> QED
      BY <3>1, <3>2 DEF Entry
  <2>3. [i \in 1 .. k |-> [path |-> i + 1, part |-> 0]] \in [1 .. k -> Entry]
    BY <2>2
  <2>4. Len([i \in 1 .. k |-> [path |-> i + 1, part |-> 0]]) = k
    BY <2>1, <2>3
  <2> QED
    BY <2>1, <2>3, <2>4
<1>5. ASSUME NEW b \in Blocks PROVE b \in Seq(Entry) /\ b # << >>
  <2>1. CASE \E i \in Parts(1) : b = << [path |-> 1, part |-> i] >>
    BY <2>1, <1>3
  <2>2. CASE \E k \in {NFiles - 1} \ {0} :
                b = [i \in 1 .. k |-> [path |-> i + 1, part |-> 0]]
    BY <2>2, <1>4
  <2> QED
    BY <2>1, <2>2 DEF Blocks
<1> QED
  BY <1>1, <1>2, <1>5

-----------------------------------------------------------------------------
\* A fresh writer has nothing in flight.
LEMMA WindowInit == Init => WindowInv
<1> SUFFICES ASSUME Init PROVE WindowInv
  OBVIOUS
<1> USE WriterAssumption
<1>1. TypeOK
  BY DEF Init, TypeOK, Outcomes
<1>2. Accounted /\ NoEarlyNone /\ WindowBounded /\ AfterReaping /\ pc # "ok"
  BY DEF Init, Accounted, NoEarlyNone, WindowBounded, AfterReaping, Busy
<1> QED
  BY <1>1, <1>2 DEF WindowInv

\* No step breaks the types or loses count of the writes in flight, and the
\* caller goes on only after it has seen the result channel empty.
LEMMA WindowStep == WindowInv /\ [Next]_vars => WindowInv'
<1> SUFFICES ASSUME WindowInv, [Next]_vars PROVE WindowInv'
  OBVIOUS
<1> USE WriterAssumption
<1> DEFINE Req == Files \cup {None}
<1>t. TypeOK /\ NoEarlyNone /\ Accounted /\ WindowBounded /\ AfterReaping
  BY DEF WindowInv
<1>q. /\ req_q \in Seq(Req) /\ res_q \in Seq(Outcomes) /\ todo \in Seq(Entry)
      /\ Len(req_q) \in Nat /\ Len(res_q) \in Nat /\ in_flight \in Nat
      /\ Len(req_q) <= ReqCap /\ Len(res_q) <= ResCap
      /\ Busy \in {0, 1}
  BY <1>t DEF TypeOK, Busy
<1>1. ASSUME NEW b \in Blocks, RecvBlock(b) PROVE WindowInv'
  <2>1. TypeOK'
    BY <1>1, <1>t, EntryType DEF RecvBlock, TypeOK, threadVars
  <2> QED
    BY <1>1, <1>t, <2>1
    DEF RecvBlock, WindowInv, NoEarlyNone, Accounted, WindowBounded, AfterReaping,
        Busy, threadVars
<1>2. CASE Fail \/ Closed
  <2>1. TypeOK'
    BY <1>2, <1>t DEF Fail, Closed, TypeOK, threadVars
  <2> QED
    BY <1>2, <1>t, <2>1
    DEF Fail, Closed, WindowInv, NoEarlyNone, Accounted, WindowBounded, AfterReaping,
        Busy, threadVars
<1>e. ASSUME pc = "entry"
      PROVE  /\ Head(todo) \in Entry /\ Tail(todo) \in Seq(Entry)
             /\ Head(todo).path \in Files
             /\ Gathered(Head(todo)) \in SUBSET (0 .. (BigParts - 1))
  <2>1. Head(todo) \in Entry /\ Tail(todo) \in Seq(Entry)
    BY <1>e, <1>t, <1>q, QueueSteps DEF TypeOK
  <2>2. Head(todo).path \in Files /\ Head(todo).part \in 0 .. (BigParts - 1)
    BY <2>1, EntryType
  <2> QED
    BY <2>1, <2>2, <1>t DEF Gathered, TypeOK
<1>3. CASE KeepPart
  <2>1. TypeOK'
    BY <1>3, <1>t, <1>e DEF KeepPart, TypeOK, threadVars
  <2> QED
    BY <1>3, <1>t, <2>1
    DEF KeepPart, WindowInv, NoEarlyNone, Accounted, WindowBounded, AfterReaping,
        Busy, threadVars
<1>4. CASE SubmitWrite
  <2>1. /\ req_q' \in Seq(Req) /\ Len(req_q') = Len(req_q) + 1
        /\ NoEarlyNone'
    BY <1>4, <1>t, <1>q, <1>e, QueueSteps DEF SubmitWrite, NoEarlyNone
  <2>2. TypeOK'
    BY <1>4, <1>t, <1>e, <1>q, <2>1 DEF SubmitWrite, TypeOK, threadVars
  <2>3. /\ in_flight = Len(req_q) + Busy + Len(res_q) /\ in_flight <= ReqCap + 1
        /\ in_flight' = in_flight + 1 /\ pc' = "reap"
        /\ Busy' = Busy /\ Len(res_q)' = Len(res_q)
    BY <1>4, <1>t DEF SubmitWrite, Accounted, AfterReaping, Busy, threadVars
  <2>4. Accounted' /\ WindowBounded' /\ AfterReaping'
    BY <2>1, <2>3, <1>q DEF Accounted, WindowBounded, AfterReaping
  <2> QED
    BY <2>1, <2>2, <2>3, <2>4 DEF WindowInv
<1>5. CASE Reap \/ Drain
  <2>1. /\ res_q' \in Seq(Outcomes) /\ Len(res_q)' = Len(res_q) - 1
        /\ Busy' = Busy /\ req_q' = req_q
        /\ pc \in {"reap", "drain"} /\ in_flight > 0
        /\ \/ in_flight' = in_flight - 1 /\ pc' = pc
           \/ pc' = "error" /\ in_flight' = in_flight
    BY <1>5, <1>q, QueueSteps DEF Reap, Drain, threadVars, Busy
  <2>2. TypeOK'
    BY <1>5, <1>t, <1>q, <2>1 DEF Reap, Drain, TypeOK, threadVars
  <2>3. NoEarlyNone' /\ WindowBounded' /\ AfterReaping' /\ (pc' # "ok")
    BY <2>1, <1>t, <1>q DEF NoEarlyNone, WindowBounded, AfterReaping
  <2>4. Accounted'
    BY <2>1, <1>t, <1>q DEF Accounted
  <2> QED
    BY <2>2, <2>3, <2>4 DEF WindowInv
<1>6. CASE Reaped
  <2>1. TypeOK'
    BY <1>6, <1>t DEF Reaped, TypeOK, threadVars
  <2>2. in_flight = 0 \/ (in_flight = Len(req_q) + Busy + Len(res_q) /\ Len(res_q) = 0)
    BY <1>6, <1>t, <1>q DEF Reaped, Accounted
  <2>3. in_flight <= ReqCap + 1
    BY <2>2, <1>q
  <2> QED
    BY <1>6, <1>t, <2>1, <2>3
    DEF Reaped, WindowInv, NoEarlyNone, Accounted, WindowBounded, AfterReaping,
        Busy, threadVars
<1>7. CASE Finish
  <2>1. TypeOK'
    BY <1>7, <1>t DEF Finish, TypeOK, threadVars
  <2> QED
    BY <1>7, <1>t, <2>1
    DEF Finish, WindowInv, NoEarlyNone, Accounted, WindowBounded, AfterReaping,
        Busy, threadVars
<1>8. CASE DropWriter
  <2>1. req_q' \in Seq(Req) /\ Len(req_q') = Len(req_q) + 1
    BY <1>8, <1>q, QueueSteps DEF DropWriter
  <2>2. TypeOK'
    BY <1>8, <1>t, <1>q, <2>1 DEF DropWriter, TypeOK, threadVars
  <2> QED
    BY <1>8, <1>t, <2>2
    DEF DropWriter, WindowInv, NoEarlyNone, Accounted, WindowBounded, AfterReaping
<1>9. ASSUME NEW result \in Outcomes, ThreadWrite(result) PROVE WindowInv'
  <2>1. /\ Head(req_q) \in Files
        /\ req_q' \in Seq(Req) /\ Len(req_q)' = Len(req_q) - 1
        /\ NoEarlyNone'
    BY <1>9, <1>t, <1>q, QueueSteps DEF ThreadWrite, NoEarlyNone
  <2>2. PICK left \in SUBSET Parts(Head(req_q)) : disk' = [disk EXCEPT ![Head(req_q)] = left]
    BY <1>9 DEF ThreadWrite
  <2>3. left \in SUBSET (0 .. (BigParts - 1))
    BY <2>1, EntryType
  <2>4. TypeOK'
    BY <1>9, <1>t, <1>q, <2>1, <2>2, <2>3 DEF ThreadWrite, TypeOK
  <2>5. Busy = 0 /\ Busy' = 1 /\ Len(res_q)' = Len(res_q)
    BY <1>9 DEF ThreadWrite, Busy
  <2>6. UNCHANGED << pc, in_flight >>
    BY <1>9 DEF ThreadWrite
  <2>7. Accounted'
    BY <2>1, <2>5, <2>6, <1>t, <1>q DEF Accounted
  <2> QED
    BY <2>1, <2>4, <2>6, <2>7, <1>t DEF WindowInv, WindowBounded, AfterReaping
<1>10. CASE ThreadSend
  <2>0. holding \in Outcomes
    BY <1>t DEF TypeOK
  <2>a. /\ Append(res_q, holding) \in Seq(Outcomes)
        /\ Len(Append(res_q, holding)) = Len(res_q) + 1
    BY <2>0, <1>q, QueueSteps
  <2>1. \/ /\ res_q' \in Seq(Outcomes) /\ Len(res_q)' = Len(res_q) + 1
           /\ Len(res_q) < ResCap
        \/ pc = "dropped" /\ res_q' = res_q
    BY <1>10, <2>a DEF ThreadSend
  <2>2. TypeOK'
    BY <1>10, <1>t, <1>q, <2>1 DEF ThreadSend, TypeOK
  <2>3. Busy = 1 /\ Busy' = 0 /\ UNCHANGED << pc, in_flight, req_q >>
    BY <1>10 DEF ThreadSend, Busy
  <2>4. Accounted'
    <3> SUFFICES ASSUME pc \notin {"error", "dropped"}
                 PROVE  in_flight' = Len(req_q)' + Busy' + Len(res_q)'
      BY <2>3 DEF Accounted
    <3>1. in_flight = Len(req_q) + 1 + Len(res_q)
      BY <2>3, <1>t DEF Accounted
    <3>2. Len(req_q)' = Len(req_q) /\ Len(res_q)' = Len(res_q) + 1
      BY <2>1, <2>3
    <3> QED
      BY <3>1, <3>2, <2>3, <1>q
  <2> QED
    BY <2>2, <2>3, <2>4, <1>t DEF WindowInv, NoEarlyNone, WindowBounded, AfterReaping
<1>11. CASE ThreadEnd
  <2>1. req_q' \in Seq(Req) /\ Len(req_q') = Len(req_q) - 1
    BY <1>11, <1>q, QueueSteps DEF ThreadEnd
  <2>2. TypeOK'
    BY <1>11, <1>t, <1>q, <2>1 DEF ThreadEnd, TypeOK
  <2>3. pc = "dropped" /\ UNCHANGED << pc, in_flight >>
    <3>1. None \notin Files
      BY DEF None, Files
    <3> QED
      BY <3>1, <1>11, <1>t, QueueSteps DEF ThreadEnd, NoEarlyNone
  <2> QED
    BY <2>2, <2>3, <1>t DEF WindowInv, NoEarlyNone, Accounted, WindowBounded, AfterReaping
<1>12. CASE UNCHANGED vars
  BY <1>12, <1>t
  DEF vars, WindowInv, TypeOK, NoEarlyNone, Accounted, WindowBounded, AfterReaping, Busy
<1> QED
  BY <1>1, <1>2, <1>3, <1>4, <1>5, <1>6, <1>7, <1>8, <1>9, <1>10, <1>11, <1>12
  DEF Next, Caller, Thread, Over

\* Caller, thread, channels and disk of the writer stay well typed.
THEOREM WriterTypes == Spec => []TypeOK
<1>1. WindowInv => TypeOK
  BY DEF WindowInv
<1> QED
  BY <1>1, WindowInit, WindowStep, PTL DEF Spec

\* At most ReqCap + 2 writes are in flight, for any size of transfer.
THEOREM WriterWindow == Spec => []WindowBounded
<1>1. WindowInv => WindowBounded
  BY DEF WindowInv
<1> QED
  BY <1>1, WindowInit, WindowStep, PTL DEF Spec

\* receive_and_write and its thread never wait for each other's channel, for
\* any transfer and any capacities: unlike the reader, the writer reaps as it
\* goes.
THEOREM WriterNeverStuck == Spec => []NeverStuck
<1>1. WindowInv => NeverStuck
  <2> SUFFICES ASSUME WindowInv,
                      pc = "entry", Len(req_q) = ReqCap,
                      thread = "busy", Len(res_q) = ResCap
               PROVE  FALSE
    BY DEF NeverStuck
  <2>1. in_flight = ReqCap + 1 + ResCap
    BY DEF WindowInv, Accounted, Busy
  <2>2. in_flight <= ReqCap + 1
    BY DEF WindowInv, AfterReaping
  <2> QED
    BY <2>1, <2>2, WriterAssumption
<1> QED
  BY <1>1, WindowInit, WindowStep, PTL DEF Spec

-----------------------------------------------------------------------------
(* A call that returns Ok has written every file that arrived completely.  *)

\* A write has failed and its result is still on its way to the caller.
FailureOnItsWay == (thread = "busy" /\ holding = "failed") \/ Has(res_q, "failed")

\* The parts of f that have arrived are all in the accumulator.
StillGathering(f) == \A p \in Parts(f) : [path |-> f, part |-> p] \in arrived => p \in partial[f]

\* Each file waits to be written, is on disk, or still lacks a part.
Tracked(f) == Has(req_q, f) \/ disk[f] = Parts(f) \/ StillGathering(f)

WrittenInv ==
    /\ WindowInv
    /\ \A f \in Files : partial[f] \subseteq Parts(f) /\ partial[f] # Parts(f)
    /\ pc \notin {"error", "dropped"} => FailureOnItsWay \/ \A f \in Files : Tracked(f)

\* Nothing has arrived at first.
LEMMA WrittenInit == Init => WrittenInv
<1> SUFFICES ASSUME Init PROVE WrittenInv
  OBVIOUS
<1>1. \A f \in Files : partial[f] = {} /\ Parts(f) # {}
  BY EntryType DEF Init
<1>2. \A f \in Files : StillGathering(f)
  BY DEF Init, StillGathering
<1> QED
  BY <1>1, <1>2, WindowInit DEF WrittenInv, Tracked

\* Parts leave the accumulator only for the request channel, requests leave it
\* only for the disk, and failures only for the caller, who then gives up.
LEMMA WrittenStep == WrittenInv /\ [Next]_vars => WrittenInv'
<1> SUFFICES ASSUME WrittenInv, [Next]_vars PROVE WrittenInv'
  OBVIOUS
<1> USE WriterAssumption
<1>w. WindowInv /\ WindowInv'
  BY WindowStep DEF WrittenInv
<1>t. /\ req_q \in Seq(Files \cup {None}) /\ res_q \in Seq(Outcomes)
      /\ pc # "dropped" => req_q \in Seq(Files)
      /\ holding \in Outcomes /\ todo \in Seq(Entry)
      /\ partial \in [Files -> SUBSET (0 .. (BigParts - 1))]
      /\ disk \in [Files -> SUBSET (0 .. (BigParts - 1))]
  BY <1>w DEF WindowInv, TypeOK, NoEarlyNone
<1>p. \A f \in Files : partial[f] \subseteq Parts(f) /\ partial[f] # Parts(f)
  BY DEF WrittenInv
<1>e. ASSUME pc = "entry"
      PROVE  Head(todo) \in Entry /\ Head(todo).path \in Files
             /\ Gathered(Head(todo)) \subseteq Parts(Head(todo).path)
  <2>1. Head(todo) \in Entry
    BY <1>e, <1>w, <1>t, QueueSteps DEF WindowInv, TypeOK
  <2> QED
    BY <2>1, <1>p, EntryType DEF Gathered
<1>2. CASE KeepPart
  <2> DEFINE e == Head(todo)
  <2>1. /\ e \in Entry /\ e.path \in Files /\ pc = "entry"
        /\ Gathered(e) \subseteq Parts(e.path) /\ Gathered(e) # Parts(e.path)
        /\ partial' = [partial EXCEPT ![e.path] = Gathered(e)]
        /\ arrived' = arrived \cup {e}
        /\ UNCHANGED << req_q, res_q, thread, holding, disk >>
    BY <1>2, <1>e DEF KeepPart, threadVars
  <2>2. \A f \in Files : partial'[f] \subseteq Parts(f) /\ partial'[f] # Parts(f)
    BY <2>1, <1>p, <1>t
  <2>3. FailureOnItsWay' <=> FailureOnItsWay
    BY <2>1 DEF FailureOnItsWay, Has
  <2>4. ASSUME NEW f \in Files, Tracked(f) PROVE Tracked(f)'
    <3>1. CASE StillGathering(f)
      <4>1. ASSUME NEW p \in Parts(f), [path |-> f, part |-> p] \in arrived'
            PROVE  p \in partial'[f]
        <5>1. CASE [path |-> f, part |-> p] \in arrived
          BY <3>1, <5>1, <2>1, <1>t DEF StillGathering, Gathered
        <5>2. CASE e = [path |-> f, part |-> p]
          BY <5>2, <2>1, <1>t DEF Gathered
        <5> QED
          BY <4>1, <5>1, <5>2, <2>1
      <4> QED
        BY <4>1 DEF Tracked, StillGathering, Parts, total_parts
    <3>2. CASE Has(req_q, f) \/ disk[f] = Parts(f)
      BY <3>2, <2>1 DEF Tracked, Has, Parts, total_parts
    <3> QED
      BY <2>4, <3>1, <3>2 DEF Tracked
  <2> QED
    BY <1>w, <2>1, <2>2, <2>3, <2>4 DEF WrittenInv, Parts, total_parts
<1>3. CASE SubmitWrite
  <2> DEFINE e == Head(todo)
  <2>1. /\ e \in Entry /\ e.path \in Files /\ pc = "entry" /\ req_q \in Seq(Files)
        /\ partial' = [partial EXCEPT ![e.path] = {}]
        /\ arrived' = arrived \cup {e}
        /\ req_q' = Append(req_q, e.path)
        /\ UNCHANGED << res_q, thread, holding, disk >>
    BY <1>3, <1>e, <1>t DEF SubmitWrite, threadVars
  <2>2. \A f \in Files : partial'[f] \subseteq Parts(f) /\ partial'[f] # Parts(f)
    BY <2>1, <1>p, <1>t, EntryType
  <2>3. FailureOnItsWay' <=> FailureOnItsWay
    BY <2>1 DEF FailureOnItsWay, Has
  <2>4. ASSUME NEW f \in Files, Tracked(f) PROVE Tracked(f)'
    <3>1. CASE f = e.path \/ Has(req_q, f)
      <4>1. Has(Append(req_q, e.path), f)
        BY <3>1, <2>1, QueueMembers
      <4> QED
        BY <4>1, <2>1 DEF Tracked, Has
    <3>2. CASE f # e.path /\ disk[f] = Parts(f)
      BY <3>2, <2>1 DEF Tracked, Parts, total_parts
    <3>3. CASE f # e.path /\ StillGathering(f)
      <4>1. partial'[f] = partial[f]
        BY <3>3, <2>1, <1>t
      <4>2. \A p : [path |-> f, part |-> p] \in arrived' => [path |-> f, part |-> p] \in arrived
        BY <3>3, <2>1
      <4> QED
        BY <3>3, <4>1, <4>2 DEF Tracked, StillGathering, Parts, total_parts
    <3> QED
      BY <2>4, <3>1, <3>2, <3>3 DEF Tracked
  <2> QED
    BY <1>w, <2>1, <2>2, <2>3, <2>4 DEF WrittenInv, Parts, total_parts
<1>4. CASE Reap \/ Drain
  <2>1. /\ res_q # << >> /\ res_q' = Tail(res_q) /\ pc \in {"reap", "drain"}
        /\ UNCHANGED << partial, arrived, req_q, thread, holding, disk >>
        /\ pc' = "error" \/ (Head(res_q) = "ok" /\ pc' = pc)
    BY <1>4 DEF Reap, Drain, threadVars
  <2>2. pc' # "error" /\ Has(res_q, "failed") => Has(Tail(res_q), "failed")
    BY <2>1, <1>t, QueueMembers
  <2>3. pc' # "error" /\ FailureOnItsWay => FailureOnItsWay'
    BY <2>1, <2>2 DEF FailureOnItsWay, Has
  <2>4. ASSUME NEW f \in Files, Tracked(f) PROVE Tracked(f)'
    BY <2>1, <2>4 DEF Tracked, StillGathering, Has, Parts, total_parts
  <2> QED
    BY <1>w, <1>p, <2>1, <2>3, <2>4 DEF WrittenInv, Parts, total_parts
<1>5. ASSUME NEW result \in Outcomes, ThreadWrite(result) PROVE WrittenInv'
  <2> DEFINE g == Head(req_q)
  <2>1. /\ thread = "idle" /\ thread' = "busy" /\ holding' = result /\ req_q # << >>
        /\ req_q' = Tail(req_q) /\ g \in Files
        /\ UNCHANGED << pc, partial, arrived, res_q >>
    BY <1>5, <1>t, QueueSteps DEF ThreadWrite
  <2>2. PICK left \in SUBSET Parts(g) : /\ disk' = [disk EXCEPT ![g] = left]
                                        /\ result = "ok" => left = Parts(g)
    BY <1>5 DEF ThreadWrite
  <2>3. FailureOnItsWay \/ result = "failed" => FailureOnItsWay'
    BY <2>1 DEF FailureOnItsWay, Has
  <2>4. ASSUME NEW f \in Files, Tracked(f), result = "ok" PROVE Tracked(f)'
    <3>1. CASE f = g
      BY <3>1, <2>2, <2>4, <1>t DEF Tracked, Parts, total_parts
    <3>2. CASE f # g /\ Has(req_q, f)
      <4>1. Has(Tail(req_q), f)
        BY <3>2, <2>1, <1>t, QueueMembers
      <4> QED
        BY <4>1, <2>1 DEF Tracked, Has
    <3>3. CASE f # g /\ disk[f] = Parts(f)
      BY <3>3, <2>2, <1>t DEF Tracked, Parts, total_parts
    <3>4. CASE StillGathering(f)
      BY <3>4, <2>1 DEF Tracked, StillGathering, Parts, total_parts
    <3> QED
      BY <2>4, <3>1, <3>2, <3>3, <3>4 DEF Tracked
  <2>5. pc' \notin {"error", "dropped"} => FailureOnItsWay' \/ \A f \in Files : Tracked(f)'
    BY <2>1, <2>3, <2>4 DEF WrittenInv, Outcomes
  <2> QED
    BY <1>w, <1>p, <2>1, <2>5 DEF WrittenInv, Parts, total_parts
<1>6. CASE ThreadSend
  <2>1. /\ thread = "busy" /\ UNCHANGED << pc, partial, arrived, req_q, disk >>
        /\ pc # "dropped" => res_q' = Append(res_q, holding)
    BY <1>6 DEF ThreadSend
  <2>2. pc # "dropped" /\ FailureOnItsWay => FailureOnItsWay'
    <3> SUFFICES ASSUME pc # "dropped", FailureOnItsWay PROVE FailureOnItsWay'
      OBVIOUS
    <3>1. Has(Append(res_q, holding), "failed")
      BY <1>t, QueueMembers DEF FailureOnItsWay
    <3> QED
      BY <3>1, <2>1 DEF FailureOnItsWay, Has
  <2>3. ASSUME NEW f \in Files, Tracked(f) PROVE Tracked(f)'
    BY <2>1, <2>3 DEF Tracked, StillGathering, Has, Parts, total_parts
  <2> QED
    BY <1>w, <1>p, <2>1, <2>2, <2>3 DEF WrittenInv, Parts, total_parts
<1>7. CASE ThreadEnd \/ DropWriter
  <2>1. (pc = "dropped" \/ pc' = "dropped") /\ (ThreadEnd => pc' = pc) /\ UNCHANGED partial
    <3>1. None \notin Files
      BY DEF None, Files
    <3>2. ASSUME ThreadEnd PROVE pc = "dropped" /\ pc' = pc /\ UNCHANGED partial
      BY <3>1, <3>2, <1>t, QueueSteps DEF ThreadEnd
    <3>3. ASSUME DropWriter PROVE pc' = "dropped" /\ UNCHANGED partial
      BY <3>3 DEF DropWriter
    <3> QED
      BY <1>7, <3>2, <3>3
  <2> QED
    BY <1>7, <1>w, <1>p, <2>1 DEF WrittenInv, DropWriter, Parts, total_parts
<1>8. ASSUME NEW b \in Blocks, RecvBlock(b) PROVE WrittenInv'
  BY <1>8, <1>w, <1>p
  DEF RecvBlock, threadVars, WrittenInv, FailureOnItsWay, Tracked, StillGathering, Has,
      Parts, total_parts
<1>9. CASE Fail \/ Closed \/ Reaped \/ Finish
  BY <1>9, <1>w, <1>p
  DEF Fail, Closed, Reaped, Finish, threadVars, WrittenInv, FailureOnItsWay, Tracked,
      StillGathering, Has, Parts, total_parts
<1>10. CASE UNCHANGED vars
  BY <1>10, <1>w, <1>p
  DEF vars, WrittenInv, FailureOnItsWay, Tracked, StillGathering, Has, Parts, total_parts
<1> QED
  BY <1>2, <1>3, <1>4, <1>5, <1>6, <1>7, <1>8, <1>9, <1>10 DEF Next, Caller, Thread, Over

\* receive_and_write returns Ok only when every file of which all parts arrived
\* is on disk, whole, for any order and any repetition of the blocks.
THEOREM WriterWritesWholeFiles == Spec => []OkMeansWritten
<1>1. WrittenInv => OkMeansWritten
  <2> SUFFICES ASSUME WrittenInv, pc = "ok", NEW f \in Files, AllArrived(f)
               PROVE  disk[f] = Parts(f)
    BY DEF OkMeansWritten
  <2>1. /\ Len(req_q) \in Nat /\ Len(res_q) \in Nat /\ Busy \in {0, 1}
        /\ 0 = Len(req_q) + Busy + Len(res_q)
    BY DEF WrittenInv, WindowInv, TypeOK, Accounted, Busy
  <2>2. Len(req_q) = 0 /\ Len(res_q) = 0 /\ thread # "busy"
    BY <2>1 DEF Busy
  <2>3. ~ FailureOnItsWay /\ ~ Has(req_q, f)
    BY <2>2 DEF FailureOnItsWay, Has
  <2>4. ~ StillGathering(f)
    BY DEF StillGathering, AllArrived, WrittenInv
  <2> QED
    BY <2>3, <2>4 DEF WrittenInv, Tracked
<1> QED
  BY <1>1, WrittenInit, WrittenStep, PTL DEF Spec
=============================================================================
