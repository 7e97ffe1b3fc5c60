----------------------- MODULE ReaderPipeline_proofs -----------------------
(***************************************************************************)
(* For any number of files and calls and any capacities of the channels:   *)
(* the caller and the thread of the AsyncReader cannot block each other    *)
(* while what is owed fits into the two channels and the thread.           *)
(***************************************************************************)
EXTENDS ReaderPipeline, TLAPS

\* Shutdown is sent last: no request channel of a reader in use holds it.
NoEarlyShutdown == pc # "dropped" => req_q \in Seq(Request)

ReaderInv == TypeOK /\ OwedWhileSubmitting /\ NoEarlyShutdown

\* Appending an element and removing the first one keep a sequence typed and
\* change its length by one.
LEMMA QueueLengths ==
    ASSUME NEW S, NEW q \in Seq(S)
    PROVE  /\ \A e \in S : Append(q, e) \in Seq(S) /\ Len(Append(q, e)) = Len(q) + 1
           /\ q # << >> => /\ Head(q) \in S
                           /\ Tail(q) \in Seq(S)
                           /\ Len(Tail(q)) = Len(q) - 1
           /\ Len(q) \in Nat
OBVIOUS

\* An idle reader owes nothing and its channels are empty.
LEMMA ReaderInit == Init => ReaderInv
<1> SUFFICES ASSUME Init PROVE ReaderInv
  OBVIOUS
<1>1. TypeOK
  BY ReaderAssumption DEF Init, TypeOK, Calls, Result, Request
<1>2. OwedWhileSubmitting /\ NoEarlyShutdown
  BY DEF Init, OwedWhileSubmitting, NoEarlyShutdown
<1> QED
  BY <1>1, <1>2 DEF ReaderInv

\* No step of the caller or of the thread breaks the types, and while requests
\* are being submitted the thread only moves what is owed.
LEMMA ReaderStep == ReaderInv /\ [Next]_vars => ReaderInv'
<1> SUFFICES ASSUME ReaderInv, [Next]_vars PROVE ReaderInv'
  OBVIOUS
<1> USE ReaderAssumption
<1> DEFINE Req == Request \cup {Shutdown}
<1>q. /\ Len(req_q) \in Nat /\ Len(res_q) \in Nat
      /\ req_q \in Seq(Req) /\ res_q \in Seq(Result) /\ got \in Seq(Result)
  BY DEF ReaderInv, TypeOK
<1>b. (IF thread = "busy" THEN 1 ELSE 0) \in Nat /\ Owed \in Nat
  BY <1>q DEF Owed
<1>s. Shutdown \notin Request
  BY DEF Shutdown, Request, Calls
<1>1. ASSUME NEW k \in 0 .. MaxFiles, StartCall(k) PROVE ReaderInv'
  <2>1. TypeOK'
    BY <1>1, <1>b DEF ReaderInv, TypeOK, StartCall, Calls
  <2>2. OwedWhileSubmitting'
    BY <1>1, <1>b DEF StartCall, OwedWhileSubmitting, Owed
  <2>3. NoEarlyShutdown'
    BY <1>1 DEF ReaderInv, NoEarlyShutdown, StartCall
  <2> QED
    BY <2>1, <2>2, <2>3 DEF ReaderInv
<1>2. CASE Submit
  <2> DEFINE r == [call |-> call, file |-> submitted + 1]
  <2>1. r \in Request
    BY <1>2 DEF ReaderInv, TypeOK, Submit, Request, Files
  <2>2. /\ req_q' \in Seq(Req) /\ Len(req_q') = Len(req_q) + 1
        /\ NoEarlyShutdown'
    BY <1>2, <2>1, <1>q, QueueLengths DEF Submit, ReaderInv, NoEarlyShutdown
  <2>3. TypeOK'
    BY <1>2, <2>2, <1>q DEF ReaderInv, TypeOK, Submit, Calls
  <2>4. Owed' = Owed + 1
    <3>1. /\ Len(req_q)' = Len(req_q) + 1 /\ Len(res_q)' = Len(res_q)
          /\ thread' = thread
      BY <1>2, <2>2 DEF Submit
    <3>2. CASE thread = "busy"
      BY <3>1, <3>2, <1>q DEF Owed
    <3>3. CASE thread # "busy"
      BY <3>1, <3>3, <1>q DEF Owed
    <3> QED
      BY <3>2, <3>3
  <2>5. Owed = stale + submitted /\ stale \in Nat /\ submitted \in Nat
    BY <1>2 DEF ReaderInv, TypeOK, Submit, OwedWhileSubmitting
  <2>6. OwedWhileSubmitting'
    BY <1>2, <2>4, <2>5 DEF Submit, OwedWhileSubmitting
  <2> QED
    BY <2>2, <2>3, <2>6 DEF ReaderInv
<1>3. CASE Collect
  <2>1. Head(res_q) \in Result /\ res_q' \in Seq(Result) /\ Len(res_q') = Len(res_q) - 1
    BY <1>3, <1>q, QueueLengths DEF Collect
  <2>2. Append(got, Head(res_q)) \in Seq(Result)
    BY <2>1, <1>q, QueueLengths
  <2>3. got' \in Seq(Result) /\ pc' \in {"idle", "collect", "ship"}
    BY <1>3, <2>2, <1>q DEF Collect
  <2>4. TypeOK'
    BY <1>3, <2>1, <2>3, <1>q DEF ReaderInv, TypeOK, Collect, Calls
  <2>5. OwedWhileSubmitting'
    BY <2>3 DEF OwedWhileSubmitting
  <2>6. NoEarlyShutdown'
    BY <1>3 DEF ReaderInv, NoEarlyShutdown, Collect
  <2> QED
    BY <2>4, <2>5, <2>6 DEF ReaderInv
<1>4. ASSUME NEW open \in BOOLEAN, Ship(open) PROVE ReaderInv'
  BY <1>4 DEF ReaderInv, TypeOK, Ship, OwedWhileSubmitting, NoEarlyShutdown, Owed
<1>5. CASE DropReader
  <2>1. req_q' \in Seq(Req) /\ Len(req_q') = Len(req_q) + 1
    BY <1>5, <1>q, QueueLengths DEF DropReader
  <2>2. TypeOK'
    BY <1>5, <2>1, <1>q DEF ReaderInv, TypeOK, DropReader, Calls
  <2>3. OwedWhileSubmitting' /\ NoEarlyShutdown'
    BY <1>5 DEF DropReader, OwedWhileSubmitting, NoEarlyShutdown
  <2> QED
    BY <2>2, <2>3 DEF ReaderInv
<1>6. ASSUME NEW ok \in BOOLEAN, ThreadRead(ok) PROVE ReaderInv'
  <2>1. Head(req_q) \in Request /\ req_q' \in Seq(Req) /\ Len(req_q') = Len(req_q) - 1
    BY <1>6, <1>q, QueueLengths DEF ThreadRead
  <2>2. holding' \in Result
    BY <1>6, <2>1 DEF ThreadRead, Request, Result
  <2>3. TypeOK'
    BY <1>6, <2>1, <2>2, <1>q DEF ReaderInv, TypeOK, ThreadRead, Calls
  <2>4. Owed' = Owed
    BY <1>6, <2>1, <1>q DEF ThreadRead, Owed
  <2>5. OwedWhileSubmitting'
    BY <1>6, <2>4 DEF ReaderInv, ThreadRead, OwedWhileSubmitting
  <2>6. NoEarlyShutdown'
    BY <1>6, QueueLengths DEF ReaderInv, NoEarlyShutdown, ThreadRead
  <2> QED
    BY <2>3, <2>5, <2>6 DEF ReaderInv
<1>7. CASE ThreadSend
  <2>1. \/ /\ res_q' \in Seq(Result) /\ Len(res_q') = Len(res_q) + 1
           /\ Len(res_q) < ResCap
        \/ pc = "dropped" /\ UNCHANGED res_q
    BY <1>7, <1>q, QueueLengths DEF ReaderInv, TypeOK, ThreadSend
  <2>2. TypeOK'
    BY <1>7, <2>1, <1>q DEF ReaderInv, TypeOK, ThreadSend, Calls
  <2>3. pc # "dropped" => Owed' = Owed
    <3> SUFFICES ASSUME pc # "dropped" PROVE Owed' = Owed
      OBVIOUS
    <3>1. /\ Len(req_q)' = Len(req_q) /\ Len(res_q)' = Len(res_q) + 1
          /\ thread = "busy" /\ thread' = "idle"
      BY <1>7, <2>1 DEF ThreadSend
    <3> QED
      BY <3>1, <1>q DEF Owed
  <2>4. OwedWhileSubmitting'
    BY <1>7, <2>3 DEF ReaderInv, ThreadSend, OwedWhileSubmitting
  <2>5. NoEarlyShutdown'
    BY <1>7 DEF ReaderInv, NoEarlyShutdown, ThreadSend
  <2> QED
    BY <2>2, <2>4, <2>5 DEF ReaderInv
<1>8. CASE ThreadEnd
  <2>1. req_q' \in Seq(Req) /\ Len(req_q') = Len(req_q) - 1
    BY <1>8, <1>q, QueueLengths DEF ThreadEnd
  <2>2. pc = "dropped"
    BY <1>8, <1>s, QueueLengths DEF ReaderInv, NoEarlyShutdown, ThreadEnd
  <2>3. TypeOK'
    BY <1>8, <2>1, <1>q DEF ReaderInv, TypeOK, ThreadEnd, Calls
  <2>4. OwedWhileSubmitting' /\ NoEarlyShutdown'
    BY <1>8, <2>2 DEF ThreadEnd, OwedWhileSubmitting, NoEarlyShutdown
  <2> QED
    BY <2>3, <2>4 DEF ReaderInv
<1>9. CASE UNCHANGED vars
  BY <1>9 DEF ReaderInv, TypeOK, OwedWhileSubmitting, NoEarlyShutdown, Owed, vars
<1> QED
  BY <1>1, <1>2, <1>3, <1>4, <1>5, <1>6, <1>7, <1>8, <1>9 DEF Next, Thread, Over

\* Caller, thread and channels of the reader stay well typed, and neither
\* channel ever holds more than its capacity.
THEOREM ReaderTypes == Spec => []TypeOK
<1>1. ReaderInv => TypeOK
  BY DEF ReaderInv
<1> QED
  BY <1>1, ReaderInit, ReaderStep, PTL DEF Spec

\* stream_directory submits everything before it takes a result; it and the
\* reader's thread never wait for each other as long as the files of the call
\* and the results left over by failed calls fit into the channels and the
\* thread.  QUEUE_DEPTH * 2 + QUEUE_DEPTH * 2 + 1 = 1025 in the code.
THEOREM NeverStuckWithinCapacity == Spec => []SubmitNeverStuck
<1>1. ReaderInv => SubmitNeverStuck
  <2> SUFFICES ASSUME ReaderInv, Stuck PROVE stale + n > ReqCap + ResCap + 1
    BY ReaderAssumption DEF SubmitNeverStuck, ReaderInv, TypeOK
  <2>1. Owed = ReqCap + 1 + ResCap
    BY DEF Stuck, Owed
  <2>2. Owed = stale + submitted
    BY DEF Stuck, ReaderInv, OwedWhileSubmitting
  <2> QED
    BY <2>1, <2>2, ReaderAssumption DEF Stuck, ReaderInv, TypeOK
<1> QED
  BY <1>1, ReaderInit, ReaderStep, PTL DEF Spec


-----------------------------------------------------------------------------
(* The order of the results.                                               *)

Held == IF thread = "busy" THEN 1 ELSE 0

\* While a call that began with nothing left over submits and collects, its
\* requests are, in order, taken as results, in the result channel, held by
\* the thread and in the request channel.
InLine ==
    /\ \A i \in 1 .. Len(res_q) : res_q[i].call = call /\ res_q[i].file = Len(got) + i
    /\ thread = "busy" => holding.call = call /\ holding.file = Len(got) + Len(res_q) + 1
    /\ \A i \in 1 .. Len(req_q) :
          req_q[i] = [call |-> call, file |-> Len(got) + Len(res_q) + Held + i]
    /\ submitted = Len(got) + Len(res_q) + Held + Len(req_q)

GotInOrder == \A i \in 1 .. Len(got) : got[i] = [call |-> call, file |-> i, ok |-> TRUE]

CompleteIfOk ==
    /\ pc = "ship" => Len(got) = n
    /\ outcome = "ok" => pc \in {"idle", "dropped"} /\ Len(got) = n

OrderInv ==
    stale = 0 => GotInOrder /\ CompleteIfOk /\ (pc \in {"submit", "collect"} => InLine)

\* Each step keeps the line: the caller joins it at the end and leaves it at
\* the front, the thread moves the middle.
LEMMA OrderStep == ReaderInv /\ OrderInv /\ [Next]_vars => OrderInv'
<1> SUFFICES ASSUME ReaderInv, OrderInv, [Next]_vars, stale' = 0
             PROVE  GotInOrder' /\ CompleteIfOk' /\ (pc' \in {"submit", "collect"} => InLine')
  BY DEF OrderInv
<1> USE ReaderAssumption
<1> DEFINE Req == Request \cup {Shutdown}
           Goal == GotInOrder' /\ CompleteIfOk' /\ (pc' \in {"submit", "collect"} => InLine')
<1>q. /\ Len(req_q) \in Nat /\ Len(res_q) \in Nat /\ Len(got) \in Nat
      /\ req_q \in Seq(Req) /\ res_q \in Seq(Result) /\ got \in Seq(Result)
      /\ submitted \in Nat /\ stale \in Nat /\ call \in Nat
  BY DEF ReaderInv, TypeOK
<1>h. Held \in {0, 1} /\ Owed = Len(req_q) + Held + Len(res_q)
  BY DEF Held, Owed
<1>i. ASSUME stale = 0 PROVE GotInOrder /\ CompleteIfOk /\ (pc \in {"submit", "collect"} => InLine)
  BY <1>i DEF OrderInv
<1>1. ASSUME NEW k \in 0 .. MaxFiles, StartCall(k) PROVE Goal
  <2>1. /\ Owed = 0 /\ got' = << >> /\ submitted' = 0 /\ n' = k /\ outcome' = "none"
        /\ UNCHANGED << req_q, res_q, thread, holding >> /\ pc' = IF k = 0 THEN "ship" ELSE "submit"
    BY <1>1 DEF StartCall
  <2>2. Len(req_q) = 0 /\ Len(res_q) = 0 /\ Held = 0 /\ thread # "busy"
    BY <2>1, <1>q, <1>h DEF Held
  <2>3. GotInOrder' /\ CompleteIfOk'
    BY <2>1 DEF GotInOrder, CompleteIfOk
  <2>4. InLine'
    BY <2>1, <2>2 DEF InLine, Held
  <2> QED
    BY <2>3, <2>4
<1>2. ASSUME Submit PROVE Goal
  <2>1. /\ pc = "submit" /\ stale = 0 /\ req_q' = Append(req_q, [call |-> call, file |-> submitted + 1])
        /\ submitted' = submitted + 1 /\ pc' \in {"submit", "collect"}
        /\ UNCHANGED << call, n, got, outcome, res_q, thread, holding >>
    BY <1>2 DEF Submit
  <2>2. InLine
    BY <2>1, <1>i
  <2>3. /\ Len(req_q') = Len(req_q) + 1
        /\ \A i \in 1 .. Len(req_q) : req_q'[i] = req_q[i]
        /\ req_q'[Len(req_q) + 1] = [call |-> call, file |-> submitted + 1]
    BY <2>1, <1>q
  <2>4. submitted = Len(got) + Len(res_q) + Held + Len(req_q) /\ Held' = Held
    BY <2>1, <2>2 DEF InLine, Held
  <2>5. \A i \in 1 .. Len(req_q') :
           req_q'[i] = [call |-> call, file |-> Len(got) + Len(res_q) + Held + i]
    <3> SUFFICES ASSUME NEW i \in 1 .. Len(req_q')
                 PROVE  req_q'[i] = [call |-> call, file |-> Len(got) + Len(res_q) + Held + i]
      OBVIOUS
    <3>1. CASE i \in 1 .. Len(req_q)
      BY <3>1, <2>2, <2>3 DEF InLine
    <3>2. CASE i = Len(req_q) + 1
      <4>1. submitted + 1 = Len(got) + Len(res_q) + Held + i
        BY <3>2, <2>4, <1>q, <1>h
      <4> QED
        BY <3>2, <4>1, <2>3
    <3> QED
      BY <3>1, <3>2, <2>3, <1>q
  <2>6. submitted' = Len(got) + Len(res_q) + Held + Len(req_q')
    BY <2>1, <2>3, <2>4, <1>q, <1>h
  <2>7. InLine'
    BY <2>1, <2>2, <2>4, <2>5, <2>6 DEF InLine
  <2> QED
    BY <2>1, <2>7, <1>i DEF GotInOrder, CompleteIfOk
<1>3. ASSUME Collect PROVE Goal
  <2>1. /\ pc = "collect" /\ stale = 0 /\ res_q # << >> /\ res_q' = Tail(res_q)
        /\ UNCHANGED << call, n, submitted, req_q, thread, holding >>
    BY <1>3 DEF Collect
  <2>2. InLine /\ GotInOrder /\ CompleteIfOk /\ outcome # "ok"
    BY <2>1, <1>i DEF CompleteIfOk
  <2>3. /\ Len(res_q) \in Nat \ {0} /\ Head(res_q) = res_q[1] /\ Head(res_q) \in Result
        /\ Len(res_q') = Len(res_q) - 1
        /\ \A i \in 1 .. Len(res_q') : res_q'[i] = res_q[i + 1] /\ i + 1 \in 1 .. Len(res_q)
    BY <2>1, <1>q
  <2>4. CASE ~ Head(res_q).ok
    <3>1. pc' = "idle" /\ outcome' = "error" /\ got' = got
      BY <2>4, <1>3 DEF Collect
    <3> QED
      BY <3>1, <2>1, <2>2 DEF GotInOrder, CompleteIfOk
  <2>5. CASE Head(res_q).ok
    <3>1. /\ got' = Append(got, Head(res_q)) /\ outcome' = outcome
          /\ pc' = IF Len(got) + 1 = n THEN "ship" ELSE "collect"
      BY <2>5, <1>3 DEF Collect
    <3>2. Head(res_q) = [call |-> call, file |-> Len(got) + 1, ok |-> TRUE]
      <4>1. res_q[1].call = call /\ res_q[1].file = Len(got) + 1
        BY <2>2, <2>3 DEF InLine
      <4>2. Head(res_q).ok = TRUE
        BY <2>3, <2>5 DEF Result
      <4> QED
        BY <4>1, <4>2, <2>3 DEF Result
    <3>3. /\ Len(got') = Len(got) + 1 /\ got'[Len(got) + 1] = Head(res_q)
          /\ \A i \in 1 .. Len(got) : got'[i] = got[i]
      BY <3>1, <2>3, <1>q
    <3>4. GotInOrder'
      <4> SUFFICES ASSUME NEW i \in 1 .. Len(got')
                   PROVE  got'[i] = [call |-> call, file |-> i, ok |-> TRUE]
        BY <2>1 DEF GotInOrder
      <4>1. CASE i \in 1 .. Len(got)
        BY <4>1, <3>3, <2>2 DEF GotInOrder
      <4>2. CASE i = Len(got) + 1
        BY <4>2, <3>2, <3>3
      <4> QED
        BY <4>1, <4>2, <3>3, <1>q
    <3>5. CompleteIfOk'
      BY <3>1, <3>3, <2>1, <2>2 DEF CompleteIfOk
    <3>6. Len(got') + Len(res_q') = Len(got) + Len(res_q) /\ Held' = Held
      BY <3>3, <2>1, <2>3, <1>q DEF Held
    <3>7. \A i \in 1 .. Len(res_q') : res_q'[i].call = call /\ res_q'[i].file = Len(got') + i
      <4> SUFFICES ASSUME NEW i \in 1 .. Len(res_q')
                   PROVE  res_q'[i].call = call /\ res_q'[i].file = Len(got') + i
        OBVIOUS
      <4>1. res_q[i + 1].call = call /\ res_q[i + 1].file = Len(got) + (i + 1)
        BY <2>2, <2>3 DEF InLine
      <4>2. Len(got) + (i + 1) = Len(got') + i
        BY <3>3, <1>q
      <4> QED
        BY <4>1, <4>2, <2>3
    <3>8. InLine'
      BY <3>6, <3>7, <2>1, <2>2 DEF InLine
    <3> QED
      BY <3>4, <3>5, <3>8
  <2> QED
    BY <2>4, <2>5
<1>4. ASSUME NEW open \in BOOLEAN, Ship(open) PROVE Goal
  <2>1. /\ pc = "ship" /\ pc' = "idle" /\ UNCHANGED << call, n, got, stale >>
    BY <1>4 DEF Ship
  <2> QED
    BY <2>1, <1>i DEF GotInOrder, CompleteIfOk
<1>5. ASSUME DropReader PROVE Goal
  <2>1. pc = "idle" /\ pc' = "dropped" /\ UNCHANGED << call, n, got, stale, outcome >>
    BY <1>5 DEF DropReader
  <2> QED
    BY <2>1, <1>i DEF GotInOrder, CompleteIfOk
<1>6. ASSUME NEW ok \in BOOLEAN, ThreadRead(ok) PROVE Goal
  <2>1. /\ thread = "idle" /\ thread' = "busy" /\ req_q # << >> /\ req_q' = Tail(req_q)
        /\ holding' = [call |-> Head(req_q).call, file |-> Head(req_q).file, ok |-> ok]
        /\ UNCHANGED << pc, call, n, submitted, got, outcome, res_q, stale >>
    BY <1>6 DEF ThreadRead
  <2>2. ASSUME pc \in {"submit", "collect"} PROVE InLine'
    <3>1. InLine /\ Held = 0 /\ Held' = 1
      BY <2>1, <2>2, <1>i DEF Held
    <3>2. /\ Len(req_q) \in Nat \ {0} /\ Head(req_q) = req_q[1] /\ Len(req_q') = Len(req_q) - 1
          /\ \A i \in 1 .. Len(req_q') : req_q'[i] = req_q[i + 1] /\ i + 1 \in 1 .. Len(req_q)
      BY <2>1, <1>q
    <3>3. Head(req_q) = [call |-> call, file |-> Len(got) + Len(res_q) + 1]
      <4>1. 1 \in 1 .. Len(req_q)
        BY <3>2
      <4>2. Head(req_q) = [call |-> call, file |-> Len(got) + Len(res_q) + Held + 1]
        BY <4>1, <3>1, <3>2 DEF InLine
      <4>3. Len(got) + Len(res_q) + Held + 1 = Len(got) + Len(res_q) + 1
        BY <3>1, <1>q
      <4> QED
        BY <4>2, <4>3
    <3>4. holding'.call = call /\ holding'.file = Len(got) + Len(res_q) + 1
      BY <3>3, <2>1
    <3>5. \A i \in 1 .. Len(req_q') :
             req_q'[i] = [call |-> call, file |-> Len(got) + Len(res_q) + 1 + i]
      <4> SUFFICES ASSUME NEW i \in 1 .. Len(req_q')
                   PROVE  req_q'[i] = [call |-> call, file |-> Len(got) + Len(res_q) + 1 + i]
        OBVIOUS
      <4>1. req_q[i + 1] = [call |-> call, file |-> Len(got) + Len(res_q) + Held + (i + 1)]
        BY <3>1, <3>2 DEF InLine
      <4>2. Len(got) + Len(res_q) + Held + (i + 1) = Len(got) + Len(res_q) + 1 + i
        BY <3>1, <1>q
      <4> QED
        BY <4>1, <4>2, <3>2
    <3>6. submitted = Len(got) + Len(res_q) + 1 + Len(req_q')
      BY <3>1, <3>2, <1>q DEF InLine
    <3> QED
      BY <3>1, <3>4, <3>5, <3>6, <2>1 DEF InLine
  <2> QED
    BY <2>1, <2>2, <1>i DEF GotInOrder, CompleteIfOk
<1>7. ASSUME ThreadSend PROVE Goal
  <2>1. /\ thread = "busy" /\ thread' = "idle"
        /\ pc # "dropped" => res_q' = Append(res_q, holding)
        /\ UNCHANGED << pc, call, n, submitted, got, outcome, req_q, stale >>
    BY <1>7 DEF ThreadSend
  <2>2. ASSUME pc \in {"submit", "collect"} PROVE InLine'
    <3>1. InLine /\ Held = 1 /\ Held' = 0 /\ holding \in Result
      BY <2>1, <2>2, <1>i DEF Held, ReaderInv, TypeOK
    <3>2. /\ Len(res_q') = Len(res_q) + 1 /\ res_q'[Len(res_q) + 1] = holding
          /\ \A i \in 1 .. Len(res_q) : res_q'[i] = res_q[i]
      BY <3>1, <2>1, <2>2, <1>q
    <3>3. \A i \in 1 .. Len(res_q') : res_q'[i].call = call /\ res_q'[i].file = Len(got) + i
      <4> SUFFICES ASSUME NEW i \in 1 .. Len(res_q')
                   PROVE  res_q'[i].call = call /\ res_q'[i].file = Len(got) + i
        OBVIOUS
      <4>1. CASE i \in 1 .. Len(res_q)
        BY <4>1, <3>1, <3>2 DEF InLine
      <4>2. CASE i = Len(res_q) + 1
        <5>1. holding.call = call /\ holding.file = Len(got) + Len(res_q) + 1
          BY <3>1, <2>1 DEF InLine
        <5>2. Len(got) + Len(res_q) + 1 = Len(got) + i
          BY <4>2, <1>q
        <5> QED
          BY <4>2, <5>1, <5>2, <3>2
      <4> QED
        BY <4>1, <4>2, <3>2, <1>q
    <3>4. Len(res_q') + Held' = Len(res_q) + Held
      BY <3>1, <3>2, <1>q
    <3>5. \A i \in 1 .. Len(req_q) : Len(got) + Len(res_q') + Held' + i = Len(got) + Len(res_q) + Held + i
      BY <3>1, <3>2, <1>q
    <3>6. \A i \in 1 .. Len(req_q') :
             req_q'[i] = [call |-> call', file |-> Len(got') + Len(res_q') + Held' + i]
      BY <3>1, <3>5, <2>1 DEF InLine
    <3>7. submitted' = Len(got') + Len(res_q') + Held' + Len(req_q')
      BY <3>1, <3>2, <2>1, <1>q DEF InLine
    <3> QED
      BY <3>3, <3>6, <3>7, <2>1 DEF InLine
  <2> QED
    BY <2>1, <2>2, <1>i DEF GotInOrder, CompleteIfOk
<1>8. ASSUME ThreadEnd PROVE Goal
  <2>1. UNCHANGED << pc, call, n, got, outcome, stale >>
    BY <1>8 DEF ThreadEnd
  <2>2. pc = "dropped"
    <3>1. Shutdown \notin Request
      BY DEF Shutdown, Request, Calls
    <3> QED
      BY <1>8, <3>1, QueueLengths DEF ReaderInv, NoEarlyShutdown, ThreadEnd
  <2> QED
    BY <2>1, <2>2, <1>i DEF GotInOrder, CompleteIfOk
<1>9. ASSUME UNCHANGED vars PROVE Goal
  BY <1>9, <1>i DEF GotInOrder, CompleteIfOk, InLine, Held, vars
<1> QED
  BY <1>1, <1>2, <1>3, <1>4, <1>5, <1>6, <1>7, <1>8, <1>9 DEF Next, Thread, Over

\* A call that starts with nothing left over by failed ones takes its own
\* results in the order of its files, and has all of them if it succeeds: the
\* results carry no request id, only the order of the channels tells whose
\* they are.
THEOREM ResultsInOrder == Spec => []OwnResultsInOrder
<1>1. Init => OrderInv
  BY DEF Init, OrderInv, GotInOrder, CompleteIfOk
<1>2. ReaderInv /\ OrderInv => OwnResultsInOrder
  BY DEF OrderInv, GotInOrder, CompleteIfOk, OwnResultsInOrder
<1> QED
  BY <1>1, <1>2, ReaderInit, ReaderStep, OrderStep, PTL DEF Spec
=============================================================================
