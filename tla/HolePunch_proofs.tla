-------------------------- MODULE HolePunch_proofs --------------------------
(***************************************************************************)
(* For any number of STUN servers and attempts, with any loss, delay and   *)
(* repetition of datagrams: the best path wins, a relay is one that the    *)
(* TURN server has granted, and a direct path was answered by the peer     *)
(* unless a STUN server had been given up or was heard twice.              *)
(***************************************************************************)
EXTENDS HolePunch, TLAPS

TurnAnswers == {"401", "allocated", "permitted", "error"}

PunchTypes ==
    /\ punching \subseteq Peers
    /\ pc \in [Peers -> {"stun", "stun_wait", "ice", "ice_wait", "turn", "challenge", "allocate",
                         "permission", "direct", "relay", "failed"}]
    /\ server \in [Peers -> Nat \ {0}]
    /\ pairs \in [Peers -> [Pairs -> {"none", "Waiting", "InProgress", "Succeeded", "Failed"}]]
    /\ attempt \in [Peers -> Nat]
    /\ requests \subseteq Peers \X (Peers \cup Servers)
    /\ answers \subseteq (Peers \cup Servers) \X Peers
    /\ inbox \in [Peers -> Seq({"request", "success"})]
    /\ turn_req \in [Peers -> SUBSET TurnRequests]
    /\ turn_inbox \in [Peers -> Seq(TurnAnswers)]
    /\ alloc \in [Peers -> {"none", "allocated", "permitted"}]
    /\ repeats \in Nat

\* What the states of the two pairs can be at each step of punch.
PairsFit ==
    \A p \in Peers :
        LET host == pairs[p]["host"]
            srflx == pairs[p]["srflx"]
        IN  /\ pc[p] \in {"stun", "stun_wait"} => host = "none" /\ srflx = "none"
            /\ pc[p] = "ice" =>
                  \/ host = "Waiting" /\ srflx \in {"Waiting", "none"}
                  \/ host \in {"Failed", "none"} /\ srflx \in {"Waiting", "Failed", "none"}
            /\ pc[p] = "ice_wait" =>
                  \/ host = "InProgress" /\ srflx \in {"Waiting", "none"}
                  \/ host \in {"Failed", "none"} /\ srflx = "InProgress"
            /\ pc[p] = "direct" =>
                  \/ host = "Succeeded" /\ srflx \in {"Waiting", "none"}
                  \/ host \in {"Failed", "none"} /\ srflx = "Succeeded"
            /\ pc[p] \in TurnRequests \cup {"turn", "relay", "failed"} =>
                  host \in {"Failed", "none"} /\ srflx \in {"Failed", "none"}

\* Answers of the TURN server are true and stay true.
GrantsAreTrue ==
    \A p \in Peers : \A i \in 1 .. Len(turn_inbox[p]) :
        /\ turn_inbox[p][i] = "allocated" => alloc[p] # "none"
        /\ turn_inbox[p][i] = "permitted" => alloc[p] = "permitted"

RelayGranted == \A p \in Peers : pc[p] = "relay" => alloc[p] = "permitted"

\* Sequence position i of a peer's mailbox holds a Binding Success.
Success(p, i) == i \in 1 .. Len(inbox[p]) /\ inbox[p][i] = "success"

\* No Binding Success is on its way to p or waits for it.
NoneComes(p) ==
    /\ \A m \in answers : m[2] # p
    /\ \A i \in 1 .. Len(inbox[p]) : ~ Success(p, i)

\* As long as the first server has not been given up, nothing of it has been
\* delivered twice and the other peer has answered nothing, one request and one
\* success exist at most, the first server's, and none is left when discovery
\* is over.
OneAnswer(p) ==
    /\ pc[p] = "stun_wait" =>
          /\ \A m \in requests : m[1] = p /\ m[2] \in Servers => NoneComes(p)
          /\ \A m \in answers : m[2] = p => m[1] = 1 /\ \A i \in 1 .. Len(inbox[p]) : ~ Success(p, i)
          /\ \A i, j \in 1 .. Len(inbox[p]) : Success(p, i) /\ Success(p, j) => i = j
          /\ \A m \in requests : m[1] = p /\ m[2] \in Servers => m[2] = 1
    /\ pc[p] # "stun_wait" =>
          NoneComes(p) /\ \A m \in requests : m[1] = p => m[2] \notin Servers

SuccessesAreKnown ==
    \A p \in Peers : server[p] = 1 /\ p \notin answered /\ p \notin echoed => OneAnswer(p)

\* A request goes to a server or to the other peer.
Addressed == \A m \in requests : m[2] \in Servers \/ m[2] = Other(m[1])

GenuineDirect == \A p \in Peers : pc[p] = "direct" => p \in answered \/ server[p] > 1 \/ p \in echoed

PunchInv ==
    /\ PunchTypes
    /\ PairsFit
    /\ GrantsAreTrue
    /\ RelayGranted
    /\ Addressed
    /\ SuccessesAreKnown
    /\ GenuineDirect

-----------------------------------------------------------------------------
\* The other peer is a peer, not a server and not oneself.
LEMMA OtherIs ==
    ASSUME NEW p \in Peers
    PROVE  Other(p) \in Peers /\ Other(p) # p /\ Other(p) \notin Servers /\ p \notin Servers
<1>1. \E q \in Peers : q # p
  BY PunchAssumption
<1>2. Other(p) \in Peers /\ Other(p) # p
  BY <1>1 DEF Other
<1> QED
  BY <1>2, PunchAssumption

\* Removing the first element of a mailbox and appending one.
LEMMA Mailbox ==
    ASSUME NEW S, NEW q \in Seq(S)
    PROVE  /\ q # << >> => /\ Head(q) \in S /\ Tail(q) \in Seq(S) /\ Len(q) \in Nat \ {0}
                           /\ Head(q) = q[1] /\ Len(Tail(q)) = Len(q) - 1
                           /\ \A i \in 1 .. Len(Tail(q)) : Tail(q)[i] = q[i + 1]
           /\ \A e \in S : /\ Append(q, e) \in Seq(S) /\ Len(Append(q, e)) = Len(q) + 1
                           /\ \A i \in 1 .. Len(q) : Append(q, e)[i] = q[i]
                           /\ Append(q, e)[Len(q) + 1] = e
           /\ Len(q) \in Nat
OBVIOUS

\* Nothing has been asked or answered at the start.
LEMMA PunchInit == Init => PunchInv
<1> SUFFICES ASSUME Init PROVE PunchInv
  OBVIOUS
<1>1. PunchTypes
  BY PunchAssumption DEF Init, PunchTypes, Pairs, TurnRequests, TurnAnswers
<1>2. PairsFit
  BY DEF Init, PairsFit, Pairs, TurnRequests
<1>3. GrantsAreTrue /\ RelayGranted
  BY DEF Init, GrantsAreTrue, RelayGranted
<1>4. Addressed /\ SuccessesAreKnown /\ GenuineDirect
  BY DEF Init, Addressed, SuccessesAreKnown, OneAnswer, NoneComes, GenuineDirect
<1> QED
  BY <1>1, <1>2, <1>3, <1>4 DEF PunchInv

\* Every step keeps the types.
LEMMA TypesStep == PunchTypes /\ [Next]_vars => PunchTypes'
<1> SUFFICES ASSUME PunchTypes, [Next]_vars PROVE PunchTypes'
  OBVIOUS
<1> USE PunchAssumption
<1>1. ASSUME NEW p \in punching, NEW sent \in BOOLEAN, AskServer(p, sent) PROVE PunchTypes'
  BY <1>1 DEF PunchTypes, AskServer, turn
<1>2. ASSUME NEW p \in punching, NoServer(p) PROVE PunchTypes'
  BY <1>2 DEF PunchTypes, NoServer, form_check_list, network, stun, turn
<1>3. ASSUME NEW p \in punching, ServerAnswers(p) PROVE PunchTypes'
  BY <1>3 DEF PunchTypes, ServerAnswers, form_check_list, turn
<1>4. ASSUME NEW p \in punching, ServerTimeout(p) PROVE PunchTypes'
  BY <1>4 DEF PunchTypes, ServerTimeout, network, stun, turn
<1>5. ASSUME NEW p \in punching, NEW sent \in BOOLEAN, StartCheck(p, sent) PROVE PunchTypes'
  BY <1>5, OtherIs DEF PunchTypes, StartCheck, NextPair, Pairs, turn
<1>6. ASSUME NEW p \in punching, CheckAnswered(p) PROVE PunchTypes'
  <2>1. inbox' \in [Peers -> Seq({"request", "success"})]
    BY <1>6 DEF PunchTypes, CheckAnswered
  <2>2. pc' \in [Peers -> {"stun", "stun_wait", "ice", "ice_wait", "turn", "challenge", "allocate",
                           "permission", "direct", "relay", "failed"}]
    BY <1>6 DEF PunchTypes, CheckAnswered, CheckResult
  <2>3. pairs' \in [Peers -> [Pairs -> {"none", "Waiting", "InProgress", "Succeeded", "Failed"}]]
    BY <1>6 DEF PunchTypes, CheckAnswered, CheckResult
  <2> QED
    BY <1>6, <2>1, <2>2, <2>3 DEF PunchTypes, CheckAnswered, turn
<1>7. ASSUME NEW p \in punching, CheckTimeout(p) PROVE PunchTypes'
  BY <1>7 DEF PunchTypes, CheckTimeout, CheckResult, network, stun, turn
<1>8. ASSUME NEW p \in punching, AttemptEnds(p) PROVE PunchTypes'
  BY <1>8 DEF PunchTypes, AttemptEnds, AfterAttempt, turn
<1>9. ASSUME NEW p \in punching, NEW next \in TurnRequests \cup {"relay", "failed"}, TurnStep(p, next)
      PROVE  PunchTypes'
  BY <1>9 DEF PunchTypes, TurnStep, TurnRequests, stun
<1>10. ASSUME NEW m \in requests, NEW again \in BOOLEAN, DeliverRequest(m, again) PROVE PunchTypes'
  <2>1. inbox' \in [Peers -> Seq({"request", "success"})]
    <3>1. inbox' = inbox \/ \E q \in Peers : inbox' = [inbox EXCEPT ![q] = Append(@, "request")]
      BY <1>10 DEF DeliverRequest, Arrive, PunchTypes
    <3>2. ASSUME NEW q \in Peers, inbox' = [inbox EXCEPT ![q] = Append(@, "request")]
          PROVE  inbox' \in [Peers -> Seq({"request", "success"})]
      BY <3>2 DEF PunchTypes
    <3> QED
      BY <3>1, <3>2 DEF PunchTypes
  <2>2. m[1] \in Peers /\ m[2] \in Peers \cup Servers /\ answers' \subseteq answers \cup {<< m[2], m[1] >>}
    BY <1>10 DEF PunchTypes, DeliverRequest
  <2> QED
    BY <1>10, <2>1, <2>2 DEF PunchTypes, DeliverRequest, Repeat
<1>11. ASSUME NEW m \in answers, NEW again \in BOOLEAN, DeliverAnswer(m, again) PROVE PunchTypes'
  BY <1>11 DEF PunchTypes, DeliverAnswer, Arrive, Repeat
<1>12. ASSUME NEW p \in Peers, NEW req \in turn_req[p], NEW again \in BOOLEAN, NEW grants \in BOOLEAN,
              NEW lost \in BOOLEAN, TurnServer(p, req, again, grants, lost)
       PROVE  PunchTypes'
  BY <1>12 DEF PunchTypes, TurnServer, Expected, TurnRequests, TurnAnswers, stun
<1>13. CASE Lose
  BY <1>13 DEF PunchTypes, Lose, turn
<1>14. CASE UNCHANGED vars
  BY <1>14 DEF PunchTypes, vars, stun, turn
<1>15. ASSUME NEW p \in punching, Punch(p) PROVE PunchTypes'
  <2>1. \A bound \in BOOLEAN : TurnStart(p, bound) => \E next \in TurnRequests \cup {"relay", "failed"} : TurnStep(p, next)
    BY DEF TurnStart, TurnRequests
  <2>2. TurnAnswered(p) \/ TurnTimeout(p) => \E next \in TurnRequests \cup {"relay", "failed"} : TurnStep(p, next)
    BY DEF TurnAnswered, TurnTimeout, TurnRequests, Follows
  <2> QED
    BY <1>15, <2>1, <2>2, <1>1, <1>2, <1>3, <1>4, <1>5, <1>6, <1>7, <1>8, <1>9 DEF Punch
<1> QED
  BY <1>10, <1>11, <1>12, <1>13, <1>14, <1>15 DEF Next, Deliver, Over

\* The pairs pass from state to state only as punch goes on: the host pair
\* first, and nothing is turned to while a pair is left.
LEMMA PairsStep == PunchTypes /\ PairsFit /\ [Next]_vars => PairsFit'
<1> SUFFICES ASSUME PunchTypes, PairsFit, [Next]_vars PROVE PairsFit'
  OBVIOUS
<1>0. punching \subseteq Peers
  BY DEF PunchTypes
<1>1. ASSUME NEW p \in punching, NEW sent \in BOOLEAN, AskServer(p, sent) \/ ServerTimeout(p) PROVE PairsFit'
  BY <1>0, <1>1 DEF PunchTypes, PairsFit, AskServer, ServerTimeout, TurnRequests
<1>2. ASSUME NEW p \in punching, NoServer(p) PROVE PairsFit'
  BY <1>0, <1>2 DEF PunchTypes, PairsFit, NoServer, form_check_list, Pairs, TurnRequests
<1>3. ASSUME NEW p \in punching, ServerAnswers(p) PROVE PairsFit'
  <2>1. CASE form_check_list(p, Pairs)
    BY <2>1, <1>0, <1>3 DEF PunchTypes, PairsFit, ServerAnswers, form_check_list, Pairs, TurnRequests
  <2>2. CASE pc' = [pc EXCEPT ![p] = "stun"] /\ pairs' = pairs
    BY <2>2, <1>0, <1>3 DEF PunchTypes, PairsFit, ServerAnswers, TurnRequests
  <2> QED
    BY <1>3, <2>1, <2>2 DEF ServerAnswers
<1>4. ASSUME NEW p \in punching, NEW sent \in BOOLEAN, StartCheck(p, sent) PROVE PairsFit'
  <2>1. /\ NextPair(p) = "host" => pairs[p]["host"] = "Waiting"
        /\ NextPair(p) = "srflx" => pairs[p]["srflx"] = "Waiting" /\ pairs[p]["host"] # "Waiting"
        /\ NextPair(p) \in Pairs
    BY <1>4 DEF StartCheck, NextPair, Waiting, Pairs
  <2> QED
    BY <2>1, <1>0, <1>4 DEF PunchTypes, PairsFit, StartCheck, Pairs, TurnRequests
<1>5. ASSUME NEW p \in punching, NEW ok \in BOOLEAN, pc[p] = "ice_wait", CheckResult(p, ok)
      PROVE  PairsFit'
  <2>1. \/ pairs[p]["host"] = "InProgress" /\ pairs[p]["srflx"] \in {"Waiting", "none"}
        \/ pairs[p]["host"] \in {"Failed", "none"} /\ pairs[p]["srflx"] = "InProgress"
    BY <1>0, <1>5 DEF PairsFit
  <2>2. InProgress(p) \in Pairs /\ pairs[p][InProgress(p)] = "InProgress"
    BY <2>1 DEF InProgress, Pairs
  <2> QED
    BY <2>1, <2>2, <1>0, <1>5 DEF PunchTypes, PairsFit, CheckResult, Pairs, TurnRequests
<1>6. ASSUME NEW p \in punching, AttemptEnds(p) PROVE PairsFit'
  <2>1. pairs[p]["host"] # "Waiting" /\ pairs[p]["srflx"] # "Waiting"
    BY <1>6 DEF AttemptEnds, Waiting, Pairs
  <2> QED
    BY <2>1, <1>0, <1>6 DEF PunchTypes, PairsFit, AttemptEnds, AfterAttempt, TurnRequests
<1>7. ASSUME NEW p \in punching, NEW next \in TurnRequests \cup {"relay", "failed"},
             pc[p] \in TurnRequests \cup {"turn"}, TurnStep(p, next)
      PROVE  PairsFit'
  BY <1>0, <1>7 DEF PunchTypes, PairsFit, TurnStep, TurnRequests
<1>8. CASE UNCHANGED << pc, pairs >>
  BY <1>8 DEF PairsFit
<1>9. ASSUME NEW p \in punching, Punch(p) PROVE PairsFit'
  <2>1. CheckAnswered(p) \/ CheckTimeout(p)
           => pc[p] = "ice_wait" /\ \E ok \in BOOLEAN : CheckResult(p, ok)
    BY DEF CheckAnswered, CheckTimeout, mapped_addr
  <2>2. TurnAnswered(p) \/ TurnTimeout(p) \/ (\E bound \in BOOLEAN : TurnStart(p, bound))
           => /\ pc[p] \in TurnRequests \cup {"turn"}
              /\ \E next \in TurnRequests \cup {"relay", "failed"} : TurnStep(p, next)
    BY DEF TurnAnswered, TurnTimeout, TurnStart, TurnRequests, Follows
  <2> QED
    BY <1>9, <2>1, <2>2, <1>1, <1>2, <1>3, <1>4, <1>5, <1>6, <1>7 DEF Punch
<1>10. CASE Deliver \/ Lose \/ Over \/ UNCHANGED vars
  BY <1>8, <1>10 DEF Deliver, DeliverRequest, DeliverAnswer, TurnServer, Lose, Over, vars
<1> QED
  BY <1>9, <1>10 DEF Next

\* What the TURN server has told a client it has done, and a relay is reported
\* on such an answer only.
LEMMA GrantsStep ==
    PunchTypes /\ GrantsAreTrue /\ RelayGranted /\ [Next]_vars => GrantsAreTrue' /\ RelayGranted'
<1> SUFFICES ASSUME PunchTypes, GrantsAreTrue, RelayGranted, [Next]_vars
             PROVE  GrantsAreTrue' /\ RelayGranted'
  OBVIOUS
<1>0. punching \subseteq Peers
  BY DEF PunchTypes
<1>1. ASSUME NEW p \in punching, NEW next \in TurnRequests \cup {"relay", "failed"}, TurnStep(p, next),
             next = "relay" => alloc[p] = "permitted"
      PROVE  GrantsAreTrue' /\ RelayGranted'
  <2>1. /\ turn_inbox'[p] = << >> \/ (turn_inbox[p] # << >> /\ turn_inbox'[p] = Tail(turn_inbox[p]))
        /\ \A q \in Peers \ {p} : turn_inbox'[q] = turn_inbox[q] /\ pc'[q] = pc[q]
        /\ pc'[p] = next /\ alloc' = alloc
    <3>1. /\ pc'[p] = next /\ alloc' = alloc
          /\ \A q \in Peers \ {p} : pc'[q] = pc[q] /\ turn_inbox'[q] = turn_inbox[q]
      BY <1>0, <1>1 DEF TurnStep, PunchTypes
    <3>2. turn_inbox'[p] = IF next \in TurnRequests /\ turn_inbox[p] # << >>
                           THEN Tail(turn_inbox[p]) ELSE << >>
      BY <1>0, <1>1 DEF TurnStep, PunchTypes
    <3> QED
      BY <3>1, <3>2
  <2>2. \A i \in 1 .. Len(turn_inbox'[p]) :
           /\ turn_inbox'[p][i] = "allocated" => alloc[p] # "none"
           /\ turn_inbox'[p][i] = "permitted" => alloc[p] = "permitted"
    <3>1. CASE turn_inbox'[p] = << >>
      BY <3>1
    <3>2. CASE turn_inbox[p] # << >> /\ turn_inbox'[p] = Tail(turn_inbox[p])
      <4>1. turn_inbox[p] \in Seq(TurnAnswers)
        BY <1>0 DEF PunchTypes
      <4>2. \A i \in 1 .. Len(turn_inbox'[p]) :
               i + 1 \in 1 .. Len(turn_inbox[p]) /\ turn_inbox'[p][i] = turn_inbox[p][i + 1]
        BY <3>2, <4>1
      <4> QED
        BY <4>2, <1>0 DEF GrantsAreTrue
    <3> QED
      BY <2>1, <3>1, <3>2
  <2> QED
    BY <2>1, <2>2, <1>0, <1>1 DEF GrantsAreTrue, RelayGranted
<1>2. ASSUME NEW p \in Peers, NEW req \in turn_req[p], NEW again \in BOOLEAN, NEW grants \in BOOLEAN,
             NEW lost \in BOOLEAN, TurnServer(p, req, again, grants, lost)
      PROVE  GrantsAreTrue' /\ RelayGranted'
  <2>1. req \in TurnRequests /\ turn_inbox[p] \in Seq(TurnAnswers) /\ pc' = pc
    BY <1>2 DEF PunchTypes, TurnServer
  <2>2. /\ \A q \in Peers \ {p} : alloc'[q] = alloc[q] /\ turn_inbox'[q] = turn_inbox[q]
        /\ alloc[p] # "none" => alloc'[p] # "none"
        /\ alloc[p] = "permitted" => alloc'[p] = "permitted"
    BY <1>2, <2>1 DEF PunchTypes, TurnServer, TurnRequests, Expected
  <2>3. \/ turn_inbox'[p] = turn_inbox[p]
        \/ \E e \in TurnAnswers :
              /\ turn_inbox'[p] = Append(turn_inbox[p], e)
              /\ e = "allocated" => alloc'[p] # "none"
              /\ e = "permitted" => alloc'[p] = "permitted"
    BY <1>2, <2>1 DEF PunchTypes, TurnServer, TurnRequests, TurnAnswers, Expected
  <2>4. \A i \in 1 .. Len(turn_inbox'[p]) :
           /\ turn_inbox'[p][i] = "allocated" => alloc'[p] # "none"
           /\ turn_inbox'[p][i] = "permitted" => alloc'[p] = "permitted"
    <3>1. CASE turn_inbox'[p] = turn_inbox[p]
      BY <3>1, <2>2 DEF GrantsAreTrue
    <3>2. ASSUME NEW e \in TurnAnswers, turn_inbox'[p] = Append(turn_inbox[p], e),
                 e = "allocated" => alloc'[p] # "none",
                 e = "permitted" => alloc'[p] = "permitted",
                 NEW i \in 1 .. Len(turn_inbox'[p])
          PROVE  /\ turn_inbox'[p][i] = "allocated" => alloc'[p] # "none"
                 /\ turn_inbox'[p][i] = "permitted" => alloc'[p] = "permitted"
      <4>1. \/ i \in 1 .. Len(turn_inbox[p]) /\ turn_inbox'[p][i] = turn_inbox[p][i]
            \/ turn_inbox'[p][i] = e
        BY <3>2, <2>1
      <4> QED
        BY <4>1, <3>2, <2>2 DEF GrantsAreTrue
    <3> QED
      BY <2>3, <3>1, <3>2
  <2> QED
    BY <2>1, <2>2, <2>4 DEF GrantsAreTrue, RelayGranted
<1>4. ASSUME NEW p \in punching, Punch(p) PROVE GrantsAreTrue' /\ RelayGranted'
  <2>1. CASE TurnAnswered(p)
    <3>1. /\ pc[p] \in TurnRequests /\ turn_inbox[p] # << >> /\ turn_inbox[p] \in Seq(TurnAnswers)
          /\ TurnStep(p, IF Head(turn_inbox[p]) = Expected[pc[p]] THEN Follows[pc[p]] ELSE "failed")
      BY <2>1, <1>0 DEF TurnAnswered, PunchTypes
    <3>2. Head(turn_inbox[p]) = "permitted" => alloc[p] = "permitted"
      BY <3>1, <1>0 DEF GrantsAreTrue
    <3>3. \E next \in TurnRequests \cup {"relay", "failed"} :
             TurnStep(p, next) /\ (next = "relay" => alloc[p] = "permitted")
      BY <3>1, <3>2 DEF TurnRequests, Expected, Follows
    <3> QED
      BY <3>3, <1>1
  <2>2. CASE TurnTimeout(p) \/ \E bound \in BOOLEAN : TurnStart(p, bound)
    BY <2>2, <1>1 DEF TurnTimeout, TurnStart, TurnRequests
  <2>3. CASE NoServer(p) \/ ServerAnswers(p) \/ ServerTimeout(p)
             \/ \E sent \in BOOLEAN : AskServer(p, sent) \/ StartCheck(p, sent)
    BY <2>3, <1>0 DEF GrantsAreTrue, RelayGranted, PunchTypes, AskServer, NoServer, ServerAnswers,
                      ServerTimeout, StartCheck, form_check_list, network, turn
  <2>4. CASE CheckAnswered(p) \/ CheckTimeout(p) \/ AttemptEnds(p)
    BY <2>4, <1>0 DEF GrantsAreTrue, RelayGranted, PunchTypes, CheckAnswered, CheckTimeout,
                      CheckResult, AttemptEnds, AfterAttempt, network, turn
  <2> QED
    BY <1>4, <2>1, <2>2, <2>3, <2>4 DEF Punch
<1>5. ASSUME UNCHANGED << pc, turn_inbox, alloc >> PROVE GrantsAreTrue' /\ RelayGranted'
  BY <1>5 DEF GrantsAreTrue, RelayGranted
<1>6. CASE Lose \/ Over \/ UNCHANGED vars \/ (\E m \in requests, again \in BOOLEAN : DeliverRequest(m, again))
           \/ (\E m \in answers, again \in BOOLEAN : DeliverAnswer(m, again))
  BY <1>5, <1>6 DEF DeliverRequest, DeliverAnswer, Repeat, Lose, Over, vars, turn
<1> QED
  BY <1>2, <1>4, <1>6 DEF Next, Deliver

\* Steps that bring a peer no new request, answer or success, and do not move
\* it into or out of discovery, keep what is known about its successes.
LEMMA OneAnswerKept ==
    ASSUME NEW q \in Peers, OneAnswer(q), PunchTypes, PunchTypes',
           pc'[q] = "stun_wait" <=> pc[q] = "stun_wait",
           \A m \in requests' : m[1] = q /\ m[2] \in Servers => m \in requests,
           \A m \in answers' : m[2] = q => m \in answers,
           NEW k \in Nat, \A i \in Nat : Success(q, i)' => Success(q, i + k)
    PROVE  OneAnswer(q)'
<1>0. /\ \A i : Success(q, i) => i \in 1 .. Len(inbox[q])
      /\ \A i : Success(q, i)' => i \in 1 .. Len(inbox'[q])
      /\ Len(inbox'[q]) \in Nat /\ 1 .. Len(inbox'[q]) \subseteq Nat
  BY DEF Success, PunchTypes
<1>1. NoneComes(q) => NoneComes(q)'
  BY <1>0 DEF NoneComes
<1>2. (\A i \in 1 .. Len(inbox[q]) : ~ Success(q, i)) => \A i \in 1 .. Len(inbox'[q]) : ~ Success(q, i)'
  BY <1>0
<1>3. (\A i, j \in 1 .. Len(inbox[q]) : Success(q, i) /\ Success(q, j) => i = j)
         => \A i, j \in 1 .. Len(inbox'[q]) : Success(q, i)' /\ Success(q, j)' => i = j
  BY <1>0
<1> QED
  BY <1>1, <1>2, <1>3 DEF OneAnswer

\* No success reaches a peer unaccounted for, and a direct path rests on one.
LEMMA AnswersStep ==
    ASSUME PunchInv, PunchTypes', [Next]_vars
    PROVE  Addressed' /\ SuccessesAreKnown' /\ GenuineDirect'
<1> DEFINE Known(q) == server[q] = 1 /\ q \notin answered /\ q \notin echoed
           Goal == Addressed' /\ SuccessesAreKnown' /\ GenuineDirect'
           Same(q) == UNCHANGED << pc[q], inbox[q] >>
<1>t. PunchTypes /\ punching \subseteq Peers /\ \A q \in Peers : server[q] \in Nat \ {0}
  BY DEF PunchInv, PunchTypes
<1>i. \A q \in Peers : Known(q) => OneAnswer(q) /\ pc[q] # "direct"
  BY DEF PunchInv, SuccessesAreKnown, GenuineDirect
<1>f. ASSUME \A q \in Peers : server'[q] = 1 /\ q \notin answered' /\ q \notin echoed'
                => OneAnswer(q)' /\ pc'[q] # "direct",
             Addressed'
      PROVE  Goal
  <2>1. \A q \in Peers : server'[q] \in Nat \ {0}
    BY DEF PunchTypes
  <2> QED
    BY <1>f, <2>1 DEF SuccessesAreKnown, GenuineDirect
<1>k. ASSUME NEW q \in Peers, Known(q), Same(q),
             \A m \in requests' : m[1] = q /\ m[2] \in Servers => m \in requests,
             \A m \in answers' : m[2] = q => m \in answers
      PROVE  OneAnswer(q)' /\ pc'[q] # "direct"
  <2>1. \A i \in Nat : Success(q, i)' => Success(q, i + 0)
    BY <1>k DEF Success
  <2>2. 0 \in Nat /\ (pc'[q] = "stun_wait" <=> pc[q] = "stun_wait") /\ OneAnswer(q) /\ pc'[q] # "direct"
    BY <1>k, <1>i
  <2> QED
    BY <2>1, <2>2, <1>k, <1>t, OneAnswerKept
<1> HIDE DEF Goal
<1>1. ASSUME NEW p \in punching, AskServer(p, TRUE) PROVE Goal
  <2>1. /\ p \in Peers /\ server[p] \in Servers /\ pc[p] = "stun"
        /\ requests' = requests \cup {<< p, server[p] >>} /\ pc' = [pc EXCEPT ![p] = "stun_wait"]
        /\ UNCHANGED << server, answers, inbox, answered, echoed >>
    BY <1>1, <1>t DEF AskServer
  <2>2. ASSUME NEW q \in Peers \ {p}, Known(q) PROVE OneAnswer(q)' /\ pc'[q] # "direct"
    <3>1. Same(q) /\ \A m \in requests' : m[1] = q => m \in requests
      BY <2>1, <2>2, <1>t DEF PunchTypes
    <3> QED
      BY <3>1, <2>1, <2>2, <1>k
  <2>3. ASSUME Known(p) PROVE OneAnswer(p)' /\ pc'[p] # "direct"
    <3>1. NoneComes(p) /\ \A m \in requests : m[1] = p => m[2] \notin Servers
      BY <2>1, <2>3, <1>i DEF OneAnswer
    <3>2. NoneComes(p)' /\ pc'[p] = "stun_wait"
      BY <3>1, <2>1, <1>t DEF NoneComes, Success, PunchTypes
    <3>3. \A m \in requests' : m[1] = p /\ m[2] \in Servers => m[2] = 1
      BY <3>1, <2>1, <2>3
    <3> QED
      BY <3>2, <3>3 DEF OneAnswer, NoneComes
  <2>4. Addressed'
    BY <2>1 DEF PunchInv, Addressed
  <2> QED
    BY <2>1, <2>2, <2>3, <2>4, <1>f
<1>2. ASSUME NEW p \in punching, NoServer(p) PROVE Goal
  <2>1. /\ p \in Peers /\ pc[p] = "stun" /\ pc' = [pc EXCEPT ![p] = "ice"]
        /\ UNCHANGED << server, requests, answers, inbox, answered, echoed >>
    BY <1>2, <1>t DEF NoServer, form_check_list, network, stun
  <2>2. ASSUME NEW q \in Peers, Known(q) PROVE OneAnswer(q)' /\ pc'[q] # "direct"
    <3>1. \A i \in Nat : Success(q, i)' => Success(q, i + 0)
      BY <2>1 DEF Success
    <3>2. 0 \in Nat /\ (pc'[q] = "stun_wait" <=> pc[q] = "stun_wait") /\ OneAnswer(q) /\ pc'[q] # "direct"
      BY <2>1, <2>2, <1>i, <1>t DEF PunchTypes
    <3> QED
      BY <3>1, <3>2, <2>1, <1>t, OneAnswerKept
  <2>3. Addressed'
    BY <2>1 DEF PunchInv, Addressed
  <2> QED
    BY <2>1, <2>2, <2>3, <1>f
<1>3. ASSUME NEW p \in punching, ServerAnswers(p) PROVE Goal
  <2>1. /\ p \in Peers /\ pc[p] = "stun_wait" /\ inbox[p] # << >>
        /\ inbox' = [inbox EXCEPT ![p] = Tail(@)]
        /\ UNCHANGED << requests, answers, answered, echoed >>
        /\ \/ Head(inbox[p]) = "success" /\ pc' = [pc EXCEPT ![p] = "ice"] /\ UNCHANGED server
           \/ pc' = [pc EXCEPT ![p] = "stun"] /\ server' = [server EXCEPT ![p] = @ + 1]
    BY <1>3, <1>t DEF ServerAnswers, form_check_list, mapped_addr, Taken
  <2>2. ASSUME NEW q \in Peers \ {p}, Known(q) PROVE OneAnswer(q)' /\ pc'[q] # "direct"
    <3>1. Same(q)
      BY <2>1, <2>2, <1>t DEF PunchTypes
    <3> QED
      BY <3>1, <2>1, <2>2, <1>k
  <2>3. ASSUME server'[p] = 1, p \notin answered, p \notin echoed PROVE OneAnswer(p)' /\ pc'[p] # "direct"
    <3>1. server' = server /\ Known(p) /\ Head(inbox[p]) = "success" /\ pc'[p] = "ice"
      BY <2>1, <2>3, <1>t DEF PunchTypes
    <3>2. inbox[p] \in Seq({"request", "success"}) /\ inbox'[p] = Tail(inbox[p])
      BY <2>1, <1>t DEF PunchTypes
    <3>3. /\ Success(p, 1) /\ Len(inbox[p]) \in Nat
          /\ \A i \in 1 .. Len(inbox'[p]) : Success(p, i)' => Success(p, i + 1) /\ i + 1 # 1
      BY <3>1, <3>2, <2>1 DEF Success
    <3>4. OneAnswer(p) /\ 1 \in 1 .. Len(inbox[p])
      <4>1. OneAnswer(p)
        BY <3>1, <2>1, <1>i
      <4>2. 1 \in 1 .. Len(inbox[p])
        BY <3>3 DEF Success
      <4> QED
        BY <4>1, <4>2
    <3>5. \A i \in 1 .. Len(inbox'[p]) : ~ Success(p, i)'
      BY <3>3, <3>4, <2>1 DEF OneAnswer, Success
    <3>6. \A m \in answers : m[2] # p
      BY <3>3, <3>4, <2>1 DEF OneAnswer
    <3>7. \A m \in requests : m[1] = p => m[2] \notin Servers
      BY <3>3, <3>4, <2>1 DEF OneAnswer, NoneComes
    <3> QED
      BY <3>1, <3>5, <3>6, <3>7, <2>1 DEF OneAnswer, NoneComes
  <2>4. Addressed'
    BY <2>1 DEF PunchInv, Addressed
  <2>5. \A q \in Peers \ {p} : server'[q] = server[q]
    BY <2>1, <1>t DEF PunchTypes
  <2> QED
    BY <2>1, <2>2, <2>3, <2>4, <2>5, <1>f
<1>4. ASSUME NEW p \in punching, ServerTimeout(p) \/ AskServer(p, FALSE) PROVE Goal
  <2>1. /\ p \in Peers /\ pc' = [pc EXCEPT ![p] = "stun"]
        /\ server' = [server EXCEPT ![p] = @ + 1]
        /\ UNCHANGED << requests, answers, inbox, answered, echoed >>
    BY <1>4, <1>t DEF ServerTimeout, AskServer, network, stun, PunchTypes
  <2>2. ASSUME NEW q \in Peers \ {p}, Known(q) PROVE OneAnswer(q)' /\ pc'[q] # "direct"
    <3>1. Same(q)
      BY <2>1, <2>2, <1>t DEF PunchTypes
    <3> QED
      BY <3>1, <2>1, <2>2, <1>k
  <2>3. server'[p] # 1 /\ \A q \in Peers \ {p} : server'[q] = server[q]
    BY <2>1, <1>t DEF PunchTypes
  <2>4. Addressed'
    BY <2>1 DEF PunchInv, Addressed
  <2> QED
    BY <2>1, <2>2, <2>3, <2>4, <1>f
<1>5. ASSUME NEW p \in punching, NEW sent \in BOOLEAN, StartCheck(p, sent) PROVE Goal
  <2>1. /\ p \in Peers /\ pc[p] = "ice" /\ (pc' = [pc EXCEPT ![p] = "ice_wait"] \/ pc' = pc)
        /\ requests \subseteq requests' /\ requests' \subseteq requests \cup {<< p, Other(p) >>} /\ Other(p) \notin Servers
        /\ UNCHANGED << server, answers, inbox, answered, echoed >>
    BY <1>5, <1>t, OtherIs DEF StartCheck
  <2>2. ASSUME NEW q \in Peers, Known(q) PROVE OneAnswer(q)' /\ pc'[q] # "direct"
    <3>1. \A i \in Nat : Success(q, i)' => Success(q, i + 0)
      BY <2>1 DEF Success
    <3>2. 0 \in Nat /\ (pc'[q] = "stun_wait" <=> pc[q] = "stun_wait") /\ OneAnswer(q) /\ pc'[q] # "direct"
      BY <2>1, <2>2, <1>i, <1>t DEF PunchTypes
    <3>3. \A m \in requests' : m[1] = q /\ m[2] \in Servers => m \in requests
      BY <2>1
    <3> QED
      BY <3>1, <3>2, <3>3, <2>1, <1>t, OneAnswerKept
  <2>3. Addressed'
    BY <2>1 DEF PunchInv, Addressed
  <2> QED
    BY <2>1, <2>2, <2>3, <1>f
<1>6. ASSUME NEW p \in punching, pc[p] # "stun_wait", NEW next, pc' = [pc EXCEPT ![p] = next],
             next # "stun_wait", next = "direct" => ~ Known(p),
             UNCHANGED << server, requests, answers, answered, echoed >>,
             \A q \in Peers \ {p} : inbox'[q] = inbox[q],
             NEW k \in Nat, \A i \in Nat : Success(p, i)' => Success(p, i + k)
      PROVE  Goal
  <2>1. p \in Peers /\ pc'[p] = next /\ \A q \in Peers \ {p} : Same(q)
    BY <1>6, <1>t DEF PunchTypes
  <2>2. ASSUME NEW q \in Peers \ {p}, Known(q) PROVE OneAnswer(q)' /\ pc'[q] # "direct"
    BY <2>1, <2>2, <1>6, <1>k
  <2>3. ASSUME Known(p) PROVE OneAnswer(p)' /\ pc'[p] # "direct"
    <3>1. OneAnswer(p) /\ pc'[p] # "direct" /\ (pc'[p] = "stun_wait" <=> pc[p] = "stun_wait")
      BY <2>1, <2>3, <1>i, <1>6
    <3> QED
      BY <3>1, <2>1, <1>6, <1>t, OneAnswerKept
  <2>4. Addressed'
    BY <1>6 DEF PunchInv, Addressed
  <2> QED
    BY <2>1, <2>2, <2>3, <2>4, <1>6, <1>f
<1>7. ASSUME NEW p \in punching, CheckAnswered(p) PROVE Goal
  <2> DEFINE next == IF Head(inbox[p]) = "success" THEN "direct" ELSE "ice"
  <2>1. /\ p \in Peers /\ pc[p] = "ice_wait" /\ inbox[p] # << >>
        /\ inbox' = [inbox EXCEPT ![p] = Tail(@)] /\ pc' = [pc EXCEPT ![p] = next]
        /\ UNCHANGED << server, requests, answers, answered, echoed >>
    BY <1>7, <1>t DEF CheckAnswered, CheckResult, mapped_addr, Taken
  <2>2. inbox[p] \in Seq({"request", "success"}) /\ inbox'[p] = Tail(inbox[p])
    BY <2>1, <1>t DEF PunchTypes
  <2>3. \A q \in Peers \ {p} : inbox'[q] = inbox[q]
    BY <2>1, <1>t DEF PunchTypes
  <2>4. 1 \in Nat /\ \A i \in Nat : Success(p, i)' => Success(p, i + 1)
    <3>1. /\ Len(inbox[p]) \in Nat \ {0} /\ Len(inbox'[p]) = Len(inbox[p]) - 1
          /\ \A i \in 1 .. Len(inbox'[p]) : inbox'[p][i] = inbox[p][i + 1]
      <4> DEFINE q == inbox[p]
      <4>1. q \in Seq({"request", "success"}) /\ q # << >> /\ inbox'[p] = Tail(q)
        BY <2>1, <2>2
      <4> HIDE DEF q
      <4>2. Len(q) \in Nat \ {0} /\ Len(Tail(q)) = Len(q) - 1 /\ \A i \in 1 .. Len(Tail(q)) : Tail(q)[i] = q[i + 1]
        BY <4>1, Mailbox
      <4> QED
        BY <4>1, <4>2 DEF q
    <3> QED
      BY <3>1 DEF Success
  <2>5. next = "direct" => Success(p, 1) /\ 1 \in 1 .. Len(inbox[p])
    BY <2>1, <2>2 DEF Success
  <2>6. next = "direct" => ~ Known(p)
    <3>1. SUFFICES ASSUME next = "direct", Known(p) PROVE FALSE
      OBVIOUS
    <3>2. NoneComes(p)
      BY <3>1, <2>1, <1>i DEF OneAnswer
    <3> QED
      BY <3>1, <3>2, <2>5 DEF NoneComes
  <2>7. next # "stun_wait" /\ pc[p] # "stun_wait"
    BY <2>1
  <2> HIDE DEF next
  <2> QED
    BY <2>1, <2>3, <2>4, <2>6, <2>7, <1>6
<1>8. ASSUME NEW p \in punching, pc[p] # "stun_wait", NEW next, pc' = [pc EXCEPT ![p] = next],
             next \notin {"stun_wait", "direct"}, UNCHANGED << server, requests, answers, answered, echoed >>,
             inbox' = inbox \/ inbox' = [inbox EXCEPT ![p] = << >>]
      PROVE  Goal
  <2>1. p \in Peers /\ \A q \in Peers \ {p} : inbox'[q] = inbox[q]
    BY <1>8, <1>t DEF PunchTypes
  <2>2. inbox'[p] = inbox[p] \/ inbox'[p] = << >>
    BY <1>8, <1>t DEF PunchTypes
  <2>3. 0 \in Nat /\ \A i \in Nat : Success(p, i)' => Success(p, i + 0)
    BY <2>2 DEF Success
  <2> QED
    BY <2>1, <2>3, <1>6, <1>8
<1>9. ASSUME NEW p \in punching, CheckTimeout(p) \/ AttemptEnds(p) PROVE Goal
  <2>1. CASE CheckTimeout(p)
    <3>1. /\ pc[p] # "stun_wait" /\ pc' = [pc EXCEPT ![p] = "ice"] /\ inbox' = inbox
          /\ UNCHANGED << server, requests, answers, answered, echoed >>
      BY <2>1 DEF CheckTimeout, CheckResult, network, stun
    <3> QED
      BY <3>1, <1>8
  <2>2. CASE AttemptEnds(p)
    <3>1. /\ pc[p] # "stun_wait" /\ pc' = [pc EXCEPT ![p] = AfterAttempt(p)]
          /\ inbox' = inbox \/ inbox' = [inbox EXCEPT ![p] = << >>]
          /\ UNCHANGED << server, requests, answers, answered, echoed >>
      BY <2>2 DEF AttemptEnds
    <3>2. AfterAttempt(p) \notin {"stun_wait", "direct"}
      BY DEF AfterAttempt
    <3> QED
      BY <3>1, <3>2, <1>8
  <2> QED
    BY <2>1, <2>2, <1>9
<1>10. ASSUME NEW p \in punching,
              TurnAnswered(p) \/ TurnTimeout(p) \/ (\E bound \in BOOLEAN : TurnStart(p, bound))
       PROVE  Goal
  <2>1. PICK next \in TurnRequests \cup {"relay", "failed"} : TurnStep(p, next) /\ pc[p] # "stun_wait"
    BY <1>10 DEF TurnAnswered, TurnTimeout, TurnStart, TurnRequests, Follows
  <2>2. /\ pc' = [pc EXCEPT ![p] = next] /\ inbox' = inbox
        /\ UNCHANGED << server, requests, answers, answered, echoed >>
    BY <2>1 DEF TurnStep, stun
  <2>3. next \notin {"stun_wait", "direct"}
    BY DEF TurnRequests
  <2> QED
    BY <2>1, <2>2, <2>3, <1>8
<1>11. ASSUME NEW m \in requests, NEW again \in BOOLEAN, DeliverRequest(m, again) PROVE Goal
  <2>1. /\ m[1] \in Peers /\ m[2] \in Peers \cup Servers /\ m = << m[1], m[2] >>
        /\ requests' \subseteq requests /\ UNCHANGED << pc, server >> /\ echoed \subseteq echoed'
        /\ m[2] \in Servers => (requests' = requests \ {m} \/ m[1] \in echoed')
        /\ \A n \in requests : n = << n[1], n[2] >>
    <3>1. requests \subseteq Peers \X (Peers \cup Servers)
      BY <1>t DEF PunchTypes
    <3>2. /\ requests' \subseteq requests /\ UNCHANGED << pc, server >> /\ echoed \subseteq echoed'
          /\ m[2] \in Servers => (requests' = requests \ {m} \/ m[1] \in echoed')
      BY <1>11 DEF DeliverRequest
    <3> QED
      BY <3>1, <3>2
  <2>2. Addressed'
    BY <2>1 DEF PunchInv, Addressed
  <2>3. CASE m[2] \in punching
    <3>1. /\ UNCHANGED << answers, answered >>
          /\ inbox' = inbox \/ inbox' = [inbox EXCEPT ![m[2]] = Append(@, "request")]
      BY <2>3, <1>11 DEF DeliverRequest, Arrive
    <3>2. ASSUME NEW q \in Peers, Known(q) PROVE OneAnswer(q)' /\ pc'[q] # "direct"
      <4>1. inbox'[q] = inbox[q] \/ inbox'[q] = Append(inbox[q], "request")
        <5>1. inbox \in [Peers -> Seq({"request", "success"})]
          BY <1>t DEF PunchTypes
        <5> QED
          BY <5>1, <3>1
      <4>2. inbox[q] \in Seq({"request", "success"})
        BY <1>t DEF PunchTypes
      <4>3. \A i \in Nat : Success(q, i)' => Success(q, i + 0)
        <5>1. CASE inbox'[q] = inbox[q]
          BY <5>1 DEF Success
        <5>2. CASE inbox'[q] = Append(inbox[q], "request")
          <6>1. /\ Len(inbox'[q]) = Len(inbox[q]) + 1 /\ Len(inbox[q]) \in Nat
                /\ \A i \in 1 .. Len(inbox[q]) : inbox'[q][i] = inbox[q][i]
                /\ inbox'[q][Len(inbox[q]) + 1] = "request"
            BY <5>2, <4>2, Mailbox
          <6> QED
            BY <6>1 DEF Success
        <5> QED
          BY <4>1, <5>1, <5>2
      <4>4. 0 \in Nat /\ (pc'[q] = "stun_wait" <=> pc[q] = "stun_wait") /\ OneAnswer(q) /\ pc'[q] # "direct"
        BY <2>1, <3>2, <1>i
      <4> QED
        BY <4>3, <4>4, <3>1, <2>1, <1>t, OneAnswerKept
    <3> QED
      BY <3>1, <3>2, <2>1, <2>2, <1>f
  <2>4. CASE m[2] \notin punching
    <3>1. /\ answers' = answers \cup {<< m[2], m[1] >>} /\ inbox' = inbox
          /\ answered' = answered \cup ({m[1]} \cap {p \in Peers : m[2] = Other(p)})
      BY <2>4, <1>11 DEF DeliverRequest
    <3>2. ASSUME NEW q \in Peers \ {m[1]}, Known(q) PROVE OneAnswer(q)' /\ pc'[q] # "direct"
      BY <3>1, <3>2, <2>1, <1>k
    <3>3. ASSUME server[m[1]] = 1, m[1] \notin answered', m[1] \notin echoed' PROVE OneAnswer(m[1])' /\ pc'[m[1]] # "direct"
      <4>1. m[2] \in Servers
        BY <3>1, <3>3, <2>1 DEF PunchInv, Addressed
      <4>2. Known(m[1]) /\ OneAnswer(m[1]) /\ pc[m[1]] # "direct"
        BY <3>1, <3>3, <2>1, <1>i
      <4>3. pc[m[1]] = "stun_wait" /\ NoneComes(m[1]) /\ m[2] = 1
        BY <4>1, <4>2 DEF OneAnswer
      <4>4. \A n \in requests' : n[1] = m[1] => n[2] \notin Servers
        BY <3>3, <4>1, <4>2, <4>3, <2>1 DEF OneAnswer
      <4>5. \A i \in 1 .. Len(inbox'[m[1]]) : ~ Success(m[1], i)'
        BY <4>3, <3>1 DEF NoneComes, Success
      <4>6. \A n \in answers' : n[2] = m[1] => n[1] = 1
        BY <4>3, <3>1 DEF NoneComes
      <4> QED
        BY <4>3, <4>4, <4>5, <4>6, <2>1 DEF OneAnswer
    <3> QED
      BY <3>1, <3>2, <3>3, <2>1, <2>2, <1>f
  <2> QED
    BY <2>3, <2>4
<1>12. ASSUME NEW m \in answers, NEW again \in BOOLEAN, DeliverAnswer(m, again) PROVE Goal
  <2>1. /\ m[2] \in Peers /\ m = << m[1], m[2] >> /\ \A n \in answers : n = << n[1], n[2] >>
        /\ answers' \subseteq answers /\ (answers' = answers \ {m} \/ m[2] \in echoed')
        /\ echoed \subseteq echoed' /\ UNCHANGED << pc, server, requests, answered >>
    BY <1>12, <1>t DEF DeliverAnswer, PunchTypes
  <2>2. Addressed'
    BY <2>1 DEF PunchInv, Addressed
  <2>3. inbox' = inbox \/ inbox' = [inbox EXCEPT ![m[2]] = Append(@, "success")]
    BY <1>12 DEF DeliverAnswer, Arrive
  <2>4. ASSUME NEW q \in Peers \ {m[2]}, Known(q) PROVE OneAnswer(q)' /\ pc'[q] # "direct"
    <3>1. Same(q)
      BY <2>1, <2>3, <1>t DEF PunchTypes
    <3> QED
      BY <3>1, <2>1, <2>4, <1>k
  <2>5. ASSUME Known(m[2]), m[2] \notin echoed' PROVE OneAnswer(m[2])' /\ pc'[m[2]] # "direct"
    <3>1. OneAnswer(m[2]) /\ pc[m[2]] # "direct"
      BY <2>1, <2>5, <1>i
    <3>2. /\ pc[m[2]] = "stun_wait" /\ m[1] = 1
          /\ \A i \in 1 .. Len(inbox[m[2]]) : ~ Success(m[2], i)
          /\ \A n \in answers : n[2] = m[2] => n[1] = 1
          /\ \A n \in requests : n[1] = m[2] => n[2] \notin Servers
      BY <3>1 DEF OneAnswer, NoneComes
    <3>3. \A n \in answers' : n[2] # m[2]
      BY <3>2, <2>1, <2>5
    <3>4. \A i, j \in 1 .. Len(inbox'[m[2]]) : Success(m[2], i)' /\ Success(m[2], j)' => i = j
      <4>1. CASE inbox' = inbox
        BY <4>1, <3>2 DEF Success
      <4>2. CASE inbox' = [inbox EXCEPT ![m[2]] = Append(@, "success")]
        <5>1. inbox[m[2]] \in Seq({"request", "success"}) /\ inbox'[m[2]] = Append(inbox[m[2]], "success")
          BY <4>2, <2>1, <1>t DEF PunchTypes
        <5>2. /\ Len(inbox'[m[2]]) = Len(inbox[m[2]]) + 1 /\ Len(inbox[m[2]]) \in Nat
              /\ \A i \in 1 .. Len(inbox[m[2]]) : inbox'[m[2]][i] = inbox[m[2]][i]
          BY <5>1, Mailbox
        <5>3. \A i \in 1 .. Len(inbox'[m[2]]) : Success(m[2], i)' => i = Len(inbox[m[2]]) + 1
          BY <5>2, <3>2 DEF Success
        <5> QED
          BY <5>3
      <4> QED
        BY <2>3, <4>1, <4>2
    <3> QED
      BY <3>1, <3>2, <3>3, <3>4, <2>1 DEF OneAnswer
  <2> QED
    BY <2>1, <2>2, <2>4, <2>5, <1>f
<1>13. ASSUME Lose PROVE Goal
  <2>1. /\ requests' \subseteq requests /\ answers' \subseteq answers
        /\ UNCHANGED << pc, server, inbox, answered, echoed >>
    BY <1>13 DEF Lose
  <2>2. ASSUME NEW q \in Peers, Known(q) PROVE OneAnswer(q)' /\ pc'[q] # "direct"
    BY <2>1, <2>2, <1>k
  <2>3. Addressed'
    BY <2>1 DEF PunchInv, Addressed
  <2> QED
    BY <2>1, <2>2, <2>3, <1>f
<1>14. ASSUME UNCHANGED << pc, server, requests, answers, inbox, answered, echoed >> PROVE Goal
  <2>1. ASSUME NEW q \in Peers, Known(q) PROVE OneAnswer(q)' /\ pc'[q] # "direct"
    BY <2>1, <1>14, <1>k
  <2>2. Addressed'
    BY <1>14 DEF PunchInv, Addressed
  <2> QED
    BY <2>1, <2>2, <1>14, <1>f
<1>15. ASSUME NEW p \in punching, Punch(p) PROVE Goal
  BY <1>15, <1>1, <1>2, <1>3, <1>4, <1>5, <1>7, <1>9, <1>10 DEF Punch
<1>16. ASSUME Deliver PROVE Goal
  <2>1. ASSUME NEW p \in Peers, NEW req, NEW again, NEW grants, NEW lost,
               TurnServer(p, req, again, grants, lost)
        PROVE  Goal
    BY <2>1, <1>14 DEF TurnServer, stun
  <2> QED
    BY <1>16, <2>1, <1>11, <1>12 DEF Deliver
<1>17. ASSUME Over \/ UNCHANGED vars PROVE Goal
  BY <1>17, <1>14 DEF Over, vars, stun
<1>18. Goal
  BY <1>13, <1>15, <1>16, <1>17 DEF Next
<1> QED
  BY <1>18 DEF Goal

\* Every step keeps the invariant.
LEMMA PunchStep == PunchInv /\ [Next]_vars => PunchInv'
<1> SUFFICES ASSUME PunchInv, [Next]_vars PROVE PunchInv'
  OBVIOUS
<1>1. PunchTypes'
  BY TypesStep DEF PunchInv
<1>2. PairsFit'
  BY PairsStep DEF PunchInv
<1>3. GrantsAreTrue' /\ RelayGranted'
  BY GrantsStep DEF PunchInv
<1>4. Addressed' /\ SuccessesAreKnown' /\ GenuineDirect'
  BY <1>1, AnswersStep
<1> QED
  BY <1>1, <1>2, <1>3, <1>4 DEF PunchInv

\* The invariant holds for any two peers, servers, attempts and repetitions.
THEOREM PunchInvariance == Spec => []PunchInv
<1>1. Init => PunchInv
  BY PunchInit
<1>2. PunchInv /\ [Next]_vars => PunchInv'
  BY PunchStep
<1> QED
  BY <1>1, <1>2, PTL DEF Spec

\* The host pair is given its chance before the reflexive one, every pair
\* before the relay, and a direct path has a pair that passed (the loops of
\* punch and run_checks).
THEOREM BestPathIsTaken == Spec => []BestPathWins
<1>1. PunchInv => BestPathWins
  <2> SUFFICES ASSUME PunchInv, NEW p \in punching
               PROVE  /\ pairs[p]["srflx"] = "Succeeded" => pairs[p]["host"] \in {"Failed", "none"}
                      /\ pc[p] \in TurnRequests \cup {"turn", "relay"} =>
                            \A c \in Pairs : pairs[p][c] \in {"Failed", "none"}
                      /\ pc[p] = "direct" <=> \E c \in Pairs : pairs[p][c] = "Succeeded"
    BY DEF BestPathWins
  <2>1. /\ p \in Peers
        /\ pc[p] \in {"stun", "stun_wait", "ice", "ice_wait", "turn", "challenge", "allocate",
                      "permission", "direct", "relay", "failed"}
    BY DEF PunchInv, PunchTypes
  <2>2. /\ pc[p] \in {"stun", "stun_wait"} => pairs[p]["host"] = "none" /\ pairs[p]["srflx"] = "none"
        /\ pc[p] \in {"ice", "ice_wait"} =>
              pairs[p]["host"] # "Succeeded" /\ pairs[p]["srflx"] # "Succeeded"
        /\ pc[p] = "direct" =>
              \/ pairs[p]["host"] = "Succeeded" /\ pairs[p]["srflx"] # "Succeeded"
              \/ pairs[p]["host"] \in {"Failed", "none"} /\ pairs[p]["srflx"] = "Succeeded"
        /\ pc[p] \in TurnRequests \cup {"turn", "relay", "failed"} =>
              pairs[p]["host"] \in {"Failed", "none"} /\ pairs[p]["srflx"] \in {"Failed", "none"}
    BY <2>1 DEF PunchInv, PairsFit
  <2> QED
    BY <2>1, <2>2 DEF Pairs, TurnRequests
<1> QED
  BY <1>1, PunchInvariance, PTL

\* A relay that punch reports is one that the server granted: no late, lost or
\* repeated answer of the TURN server passes for the one that counts.
THEOREM RelayIsReal == Spec => []RelayIsGranted
<1>1. PunchInv => RelayIsGranted
  BY DEF PunchInv, PunchTypes, RelayGranted, RelayIsGranted
<1> QED
  BY <1>1, PunchInvariance, PTL

\* The peer has answered a direct path, unless an answer of a STUN server may
\* have passed for the peer's (check_pair compares no transaction ids): a late
\* one, of a server that was given up, or one that was delivered twice.
THEOREM DirectIsAnswered == Spec => []DirectIsGenuine
<1>1. PunchInv => DirectIsGenuine
  BY DEF PunchInv, PunchTypes, GenuineDirect, DirectIsGenuine
<1> QED
  BY <1>1, PunchInvariance, PTL
=============================================================================
