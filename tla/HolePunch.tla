----------------------------- MODULE HolePunch ------------------------------
(***************************************************************************)
(* HolePuncher::punch of crates/traversal/src/holepunch.rs with the ICE    *)
(* checks of ice.rs, the STUN client of stun.rs and the TURN client of     *)
(* turn.rs, run by both ends of a transfer or by one of them.              *)
(*                                                                         *)
(* A peer has one UDP socket for discovery and checks.  A check sends a    *)
(* Binding Request and takes the next datagram that arrives, whoever sent  *)
(* it and whatever request it answers; it fails unless that datagram is a  *)
(* Binding Success.  STUN servers answer requests, and so does an end that *)
(* does not punch; no code of this repository answers outside its tests.   *)
(* NATs let everything through, which is the best that the code can meet.  *)
(***************************************************************************)
EXTENDS Integers, Sequences

CONSTANTS
    Peers,         \* the two ends of the transfer
    NServers,      \* STUN servers in the configuration
    Attempts,      \* config.attempts (10 by default; with 0, which nothing rules
                   \* out, punch would turn to the relay without a check)
    TurnPeers,     \* the ends that have a TURN server in their configuration
    MaxRepeats     \* bound: datagrams that the network delivers twice

Servers == 1 .. NServers

ASSUME PunchAssumption ==
    /\ \E p, q \in Peers : p # q /\ Peers = {p, q}
    /\ Peers \cap Servers = {}
    /\ NServers \in Nat /\ Attempts \in Nat \ {0}
    /\ TurnPeers \subseteq Peers /\ MaxRepeats \in Nat

Pairs == {"srflx", "host"}
Other(p) == CHOOSE q \in Peers : q # p

VARIABLES
    punching,      \* the peers that run punch; another one answers requests
    pc,            \* "stun", "stun_wait", "ice", "ice_wait", "turn", the TURN
                   \* request under way, "direct", "relay" or "failed"
    server,        \* the STUN server that is asked next
    pairs,         \* state of each candidate pair; the host pair is checked first
    attempt,       \* attempts that have ended
    requests,      \* Binding Requests on their way: << from, to >>
    answers,       \* Binding Successes on their way: << from, to >>
    inbox,         \* what has arrived at a peer's socket and was not read
    answered,      \* history: peers whose request the other peer has answered
    echoed,        \* history: peers for whom the network has delivered a request
                   \* to a STUN server, or an answer, twice
    turn_req,      \* a peer's requests on their way to the TURN server
    turn_inbox,    \* answers that wait in the socket of its TurnClient
    alloc,         \* what the server holds for it: "none", "allocated", "permitted"
    repeats        \* datagrams that the network has delivered twice

turn == << turn_req, turn_inbox, alloc, repeats >>
stun == << requests, answers, inbox, answered, echoed >>
vars == << punching, pc, server, pairs, attempt, stun, turn >>
network == << punching, stun, turn >>

Init ==
    /\ punching \in SUBSET Peers \ {{}}
    /\ pc = [p \in Peers |-> "stun"]
    /\ server = [p \in Peers |-> 1]
    /\ pairs = [p \in Peers |-> [c \in Pairs |-> "none"]]
    /\ attempt = [p \in Peers |-> 0]
    /\ requests = {} /\ answers = {}
    /\ inbox = [p \in Peers |-> << >>]
    /\ answered = {} /\ echoed = {}
    /\ turn_req = [p \in Peers |-> {}]
    /\ turn_inbox = [p \in Peers |-> << >>]
    /\ alloc = [p \in Peers |-> "none"]
    /\ repeats = 0

-----------------------------------------------------------------------------
(* Discovery of the reflexive address.                                     *)

\* A send_to that fails moves on to the next server at once.
AskServer(p, sent) ==
    /\ pc[p] = "stun"
    /\ server[p] \in Servers
    /\ requests' = IF sent THEN requests \cup {<< p, server[p] >>} ELSE requests
    /\ pc' = IF sent THEN [pc EXCEPT ![p] = "stun_wait"] ELSE pc
    /\ server' = IF sent THEN server ELSE [server EXCEPT ![p] = @ + 1]
    /\ UNCHANGED << punching, pairs, attempt, answers, inbox, answered, echoed, turn >>

\* form_check_list: each local candidate against the one remote candidate, if
\* they are of the same IP family; the host pair has the higher priority.
form_check_list(p, locals) ==
    /\ \E listed \in SUBSET locals :
          pairs' = [pairs EXCEPT ![p] = [c \in Pairs |-> IF c \in listed THEN "Waiting" ELSE "none"]]
    /\ pc' = [pc EXCEPT ![p] = "ice"]

\* All servers have failed, or none is configured.
NoServer(p) ==
    /\ pc[p] = "stun"
    /\ server[p] \notin Servers
    /\ form_check_list(p, {"host"})
    /\ UNCHANGED << server, attempt, network >>

\* Of a message that was parsed it matters whether it carries an address: a
\* Binding Success does, a Binding Request does not.
mapped_addr(m) == m = "success"

\* The datagram that discover_with_socket takes for its answer.
Taken(p) == Head(inbox[p])

ServerAnswers(p) ==
    /\ pc[p] = "stun_wait"
    /\ inbox[p] # << >>
    /\ inbox' = [inbox EXCEPT ![p] = Tail(@)]
    /\ \/ mapped_addr(Taken(p)) /\ form_check_list(p, Pairs) /\ UNCHANGED server
       \/ /\ ~ mapped_addr(Taken(p))
          /\ server' = [server EXCEPT ![p] = @ + 1]
          /\ pc' = [pc EXCEPT ![p] = "stun"]
          /\ UNCHANGED pairs
    /\ UNCHANGED << punching, attempt, requests, answers, answered, echoed, turn >>

\* RECV_TIMEOUT has gone by; the answer may still come.
ServerTimeout(p) ==
    /\ pc[p] = "stun_wait"
    /\ inbox[p] = << >>
    /\ server' = [server EXCEPT ![p] = @ + 1]
    /\ pc' = [pc EXCEPT ![p] = "stun"]
    /\ UNCHANGED << pairs, attempt, network >>

-----------------------------------------------------------------------------
(* ICE checks: punch's loop around IceAgent::run_checks.                   *)

Waiting(p) == {c \in Pairs : pairs[p][c] = "Waiting"}

\* The pair that run_checks takes next.
NextPair(p) == IF "host" \in Waiting(p) THEN "host" ELSE "srflx"

\* A send_to that fails fails the check.
StartCheck(p, sent) ==
    /\ pc[p] = "ice"
    /\ Waiting(p) # {}
    /\ pairs' = [pairs EXCEPT ![p][NextPair(p)] = IF sent THEN "InProgress" ELSE "Failed"]
    /\ requests' = IF sent THEN requests \cup {<< p, Other(p) >>} ELSE requests
    /\ pc' = IF sent THEN [pc EXCEPT ![p] = "ice_wait"] ELSE pc
    /\ UNCHANGED << punching, server, attempt, answers, inbox, answered, echoed, turn >>

InProgress(p) == CHOOSE c \in Pairs : pairs[p][c] = "InProgress"

CheckResult(p, ok) ==
    /\ pairs' = [pairs EXCEPT ![p][InProgress(p)] = IF ok THEN "Succeeded" ELSE "Failed"]
    /\ pc' = [pc EXCEPT ![p] = IF ok THEN "direct" ELSE "ice"]

\* Faulty variant: any datagram counts as a success.
CheckAnswered_any(p) ==
    /\ pc[p] = "ice_wait"
    /\ inbox[p] # << >>
    /\ inbox' = [inbox EXCEPT ![p] = Tail(@)]
    /\ CheckResult(p, TRUE)
    /\ UNCHANGED << punching, server, attempt, requests, answers, answered, echoed, turn >>

CheckAnswered(p) ==
    /\ pc[p] = "ice_wait"
    /\ inbox[p] # << >>
    /\ inbox' = [inbox EXCEPT ![p] = Tail(@)]
    /\ CheckResult(p, mapped_addr(Taken(p)))
    /\ UNCHANGED << punching, server, attempt, requests, answers, answered, echoed, turn >>

CheckTimeout(p) ==
    /\ pc[p] = "ice_wait"
    /\ inbox[p] = << >>
    /\ CheckResult(p, FALSE)
    /\ UNCHANGED << server, attempt, network >>

\* Where punch goes when an attempt has found no pair.
AfterAttempt(p) == IF attempt[p] + 1 < Attempts THEN "ice"
                   ELSE IF p \in TurnPeers THEN "turn" ELSE "failed"

\* Faulty variant: the relay is tried although pairs are left to be checked.
AttemptEnds_early(p) ==
    /\ pc[p] = "ice"
    /\ attempt' = [attempt EXCEPT ![p] = @ + 1]
    /\ pc' = [pc EXCEPT ![p] = AfterAttempt(p)]
    /\ inbox' = IF AfterAttempt(p) = "ice" THEN inbox ELSE [inbox EXCEPT ![p] = << >>]
    /\ UNCHANGED << punching, server, pairs, requests, answers, answered, echoed, turn >>

\* Faulty variant: attempts are not counted.
AttemptEnds_again(p) ==
    /\ pc[p] = "ice"
    /\ Waiting(p) = {}
    /\ attempt' = [attempt EXCEPT ![p] = 1 - @]
    /\ UNCHANGED << pc, server, pairs, network >>

\* No pair is Waiting: run_checks returns None, and punch sleeps and tries
\* again until its attempts are used up.  Failed pairs stay Failed.  After the
\* last attempt the socket is not read any more.
AttemptEnds(p) ==
    /\ pc[p] = "ice"
    /\ Waiting(p) = {}
    /\ attempt' = [attempt EXCEPT ![p] = @ + 1]
    /\ pc' = [pc EXCEPT ![p] = AfterAttempt(p)]
    /\ inbox' = IF AfterAttempt(p) = "ice" THEN inbox ELSE [inbox EXCEPT ![p] = << >>]
    /\ UNCHANGED << punching, server, pairs, requests, answers, answered, echoed, turn >>

-----------------------------------------------------------------------------
(* The TURN fallback: TurnClient, on a socket of its own.  Each request is *)
(* sent once and the next datagram is taken for its answer, whatever       *)
(* request that answers: transaction ids are not compared.                 *)

\* Round 1 of allocate asks for realm and nonce, round 2 for the allocation;
\* then comes create_permission.
TurnRequests == {"challenge", "allocate", "permission"}
Expected == [challenge |-> "401", allocate |-> "allocated", permission |-> "permitted"]
Follows == [challenge |-> "allocate", allocate |-> "permission", permission |-> "relay"]

\* punch goes on to request or end next.  Its TurnClient ends with punch, and
\* with it the socket that the answers would come to.
TurnStep(p, next) ==
    /\ pc' = [pc EXCEPT ![p] = next]
    /\ turn_req' = [turn_req EXCEPT ![p] = IF next \in TurnRequests THEN @ \cup {next} ELSE {}]
    /\ turn_inbox' = [turn_inbox EXCEPT ![p] =
                         IF next \in TurnRequests /\ @ # << >> THEN Tail(@) ELSE << >>]
    /\ UNCHANGED << punching, server, pairs, attempt, stun, alloc, repeats >>

\* TurnClient::new binds a socket, which may fail, and allocate begins.
TurnStart(p, bound) ==
    /\ pc[p] = "turn"
    /\ TurnStep(p, IF bound THEN "challenge" ELSE "failed")

\* Faulty variant: the answer to a request is not looked at.
TurnAnswered_any(p) ==
    /\ pc[p] \in TurnRequests
    /\ turn_inbox[p] # << >>
    /\ TurnStep(p, Follows[pc[p]])

\* The answer that the request asks for leads on, any other is an error.
TurnAnswered(p) ==
    /\ pc[p] \in TurnRequests
    /\ turn_inbox[p] # << >>
    /\ TurnStep(p, IF Head(turn_inbox[p]) = Expected[pc[p]] THEN Follows[pc[p]] ELSE "failed")

TurnTimeout(p) ==
    /\ pc[p] \in TurnRequests
    /\ turn_inbox[p] = << >>
    /\ TurnStep(p, "failed")

\* The server grants what it can or refuses; its answer, and a request that is
\* given to it twice, are up to the network.
TurnServer(p, req, again, grants, lost) ==
    LET granted == /\ grants
                   /\ req = "allocate" => alloc[p] = "none"
                   /\ req = "permission" => alloc[p] # "none"
    IN  /\ req \in turn_req[p]
        /\ again => repeats < MaxRepeats
        /\ repeats' = IF again THEN repeats + 1 ELSE repeats
        /\ turn_req' = IF again THEN turn_req ELSE [turn_req EXCEPT ![p] = @ \ {req}]
        /\ alloc' = IF granted /\ req # "challenge" THEN [alloc EXCEPT ![p] = Expected[req]] ELSE alloc
        /\ turn_inbox' = IF lost THEN turn_inbox
                         ELSE [turn_inbox EXCEPT ![p] =
                                 Append(@, IF granted THEN Expected[req] ELSE "error")]
        /\ UNCHANGED << punching, pc, server, pairs, attempt, stun >>

-----------------------------------------------------------------------------
(* The network, the STUN servers and the peers that answer.  A datagram    *)
(* that is delivered again stays on its way.                               *)

Repeat(again) ==
    /\ again => repeats < MaxRepeats
    /\ repeats' = IF again THEN repeats + 1 ELSE repeats
    /\ UNCHANGED << turn_req, turn_inbox, alloc >>

\* What reaches a peer's socket, which is read until the checks are over.
Arrive(p, m) ==
    inbox' = IF pc[p] \in {"stun", "stun_wait", "ice", "ice_wait"}
             THEN [inbox EXCEPT ![p] = Append(@, m)] ELSE inbox

\* A request reaches a server or a peer that answers it, or the socket of a
\* peer that punches itself.
DeliverRequest(m, again) ==
    /\ m \in requests
    /\ Repeat(again)
    /\ requests' = IF again THEN requests ELSE requests \ {m}
    /\ echoed' = IF again /\ m[2] \in Servers THEN echoed \cup {m[1]} ELSE echoed
    /\ IF m[2] \in punching
       THEN Arrive(m[2], "request") /\ UNCHANGED << answers, answered >>
       ELSE /\ answers' = answers \cup {<< m[2], m[1] >>}
            /\ answered' = answered \cup ({m[1]} \cap {p \in Peers : m[2] = Other(p)})
            /\ UNCHANGED inbox
    /\ UNCHANGED << punching, pc, server, pairs, attempt >>

DeliverAnswer(m, again) ==
    /\ m \in answers
    /\ Repeat(again)
    /\ answers' = IF again THEN answers ELSE answers \ {m}
    /\ echoed' = IF again THEN echoed \cup {m[2]} ELSE echoed
    /\ Arrive(m[2], "success")
    /\ UNCHANGED << punching, pc, server, pairs, attempt, requests, answered >>

Lose ==
    /\ \/ \E m \in requests : requests' = requests \ {m} /\ UNCHANGED answers
       \/ \E m \in answers : answers' = answers \ {m} /\ UNCHANGED requests
    /\ UNCHANGED << punching, pc, server, pairs, attempt, inbox, answered, echoed, turn >>

Ended(p) == pc[p] \in {"direct", "relay", "failed"}

Over == (\A p \in punching : Ended(p)) /\ UNCHANGED vars

Punch(p) ==
    \/ NoServer(p) \/ ServerAnswers(p) \/ ServerTimeout(p)
    \/ \E sent \in BOOLEAN : AskServer(p, sent) \/ StartCheck(p, sent)
    \/ CheckAnswered(p) \/ CheckTimeout(p) \/ AttemptEnds(p)
    \/ TurnAnswered(p) \/ TurnTimeout(p) \/ \E bound \in BOOLEAN : TurnStart(p, bound)

Deliver == \/ \E m \in requests, again \in BOOLEAN : DeliverRequest(m, again)
           \/ \E m \in answers, again \in BOOLEAN : DeliverAnswer(m, again)
           \/ \E p \in Peers : \E req \in turn_req[p] : \E again, grants, lost \in BOOLEAN :
                 TurnServer(p, req, again, grants, lost)

Next == (\E p \in punching : Punch(p)) \/ Deliver \/ Lose \/ Over

Spec == Init /\ [][Next]_vars

\* Every peer that punches keeps running, timers expire and datagrams move on.
LiveSpec ==
    /\ Spec
    /\ \A p \in Peers : WF_vars(p \in punching /\ Punch(p))
    /\ WF_vars(Deliver)

-----------------------------------------------------------------------------
\* The best path wins: the reflexive pair passes only after the host pair, if
\* there is one, has failed, the relay is turned to only when every pair has
\* failed, and a connection that is direct has a pair that passed.
BestPathWins ==
    \A p \in punching :
        /\ pairs[p]["srflx"] = "Succeeded" => pairs[p]["host"] \in {"Failed", "none"}
        /\ pc[p] \in TurnRequests \cup {"turn", "relay"} =>
              \A c \in Pairs : pairs[p][c] \in {"Failed", "none"}
        /\ pc[p] = "direct" <=> \E c \in Pairs : pairs[p][c] = "Succeeded"

\* A relay is reported only when the server holds the allocation and the
\* permission, although the client takes any datagram for the answer to the
\* request that is under way, repeated and late answers included.
RelayIsGranted == \A p \in punching : pc[p] = "relay" => alloc[p] = "permitted"

\* punch comes to an end, whatever the network and the servers do.
PunchEnds == <>(\A p \in punching : Ended(p))

\* A direct connection is reported only when the peer has answered a check, or
\* on the answer of a STUN server that passes for the peer's: a late one, of a
\* server that was given up, or one that the network delivers twice.  So two
\* peers that punch at the same time, neither of which answers, never connect
\* otherwise, whatever they send each other.
DirectIsGenuine ==
    \A p \in punching : pc[p] = "direct" => p \in answered \/ server[p] > 1 \/ p \in echoed
=============================================================================
