------------------------ MODULE ControlPlane_proofs -------------------------
(***************************************************************************)
(* The session manager's promises for any number of handlers and sessions, *)
(* any width of the ids, any lifetimes and any number of restarts.         *)
(***************************************************************************)
EXTENDS ControlPlane, TLAPS

Ids == 0 .. (IdSpace - 1)
Session == [numeric_id : Ids, last_heartbeat : Nat]
Token == [exp : Nat, secret : Nat]

\* The handlers, by the step they are at.
Call == [step : {"idle"}, late : BOOLEAN]
        \cup [step : {"create"}, sent : Nat]
        \cup [step : {"insert"}, sent : Nat, sid : Nat, info : Session]
        \cup [step : {"act"}, op : {"heartbeat", "terminate"}, sid : Nat, sent : Nat,
              stale : BOOLEAN]

ControlTypes ==
    /\ clock \in Nat /\ secret \in Nat /\ next_id \in Ids /\ created \in Nat
    /\ calls \in [Calls -> Call]
    /\ sessions \in [DOMAIN sessions -> Session] /\ DOMAIN sessions \subseteq 1 .. created
    /\ tokens \in [DOMAIN tokens -> Token] /\ DOMAIN tokens \subseteq 1 .. created
    /\ ended \in [DOMAIN ended -> Nat] /\ DOMAIN ended \subseteq 1 .. created
    /\ heard \in [DOMAIN heard -> Nat] /\ DOMAIN heard \subseteq 1 .. created
    /\ refused \subseteq DOMAIN tokens

\* Clocks that were read earlier are not ahead, and no token was signed by a
\* later run of the server.
NothingAhead ==
    /\ \A c \in Calls : ~ At(c, "idle") => calls[c].sent <= clock
    /\ \A now \in reaping : now \in Nat /\ now <= clock
    /\ \A sid \in DOMAIN tokens : tokens[sid].secret <= secret

\* A session that is about to be inserted is new: nobody has seen it, and no
\* other handler inserts it.
InsertsAreNew ==
    \A c \in Calls : At(c, "insert") =>
        /\ calls[c].sid \in 1 .. created
        /\ calls[c].sid \notin DOMAIN sessions \cup DOMAIN tokens \cup DOMAIN ended \cup DOMAIN heard
        /\ calls[c].sent <= calls[c].info.last_heartbeat
        /\ \A d \in Calls \ {c} : At(d, "insert") => calls[d].sid # calls[c].sid

\* Counting on from id i by d creations gives j, as long as the counter has
\* not gone round.
CountsOn(i, d, j) == d < IdSpace => j = i + d \/ j = i + d - IdSpace

\* Sessions in the table or on their way to it, with their ids.
Named == {<< s, sessions[s].numeric_id >> : s \in DOMAIN sessions}
         \cup {<< calls[c].sid, calls[c].info.numeric_id >> : c \in {d \in Calls : At(d, "insert")}}

IdsCountOn ==
    \A x \in Named :
        /\ CountsOn(x[2], created + 1 - x[1], next_id)
        /\ \A y \in Named : x[1] < y[1] => CountsOn(x[2], y[1] - x[1], y[2])

\* A client's session is as young as its last request, or was terminated.
KeptAlive ==
    \A sid \in DOMAIN heard : clock - heard[sid] < session_ttl =>
        \/ sid \in DOMAIN ended
        \/ sid \in DOMAIN sessions /\ heard[sid] <= sessions[sid].last_heartbeat

\* A session that was refused is missing, or its token is invalid for good; a
\* handler that was started after the refusal finds it missing.
RefusedIsGone ==
    /\ \A sid \in refused : verify_token(tokens[sid]) => sid \notin DOMAIN sessions
    /\ \A c \in Calls : At(c, "act") =>
          /\ calls[c].sid \in DOMAIN tokens
          /\ calls[c].stale => calls[c].sid \notin DOMAIN sessions

ControlInv ==
    /\ ControlTypes
    /\ NothingAhead
    /\ InsertsAreNew
    /\ IdsCountOn
    /\ EndedOnce
    /\ KeptAlive
    /\ RefusedIsGone
    /\ RefusalIsFinal

-----------------------------------------------------------------------------
(* Lemmas about the operators.                                             *)

\* The empty table has no entries, of whatever type.
LEMMA EmptyTable ==
    ASSUME NEW S
    PROVE  DOMAIN << >> = {} /\ << >> \in [DOMAIN << >> -> S]
OBVIOUS

\* The counter goes up by one or round to zero.
LEMMA NextId ==
    ASSUME NEW i \in Ids
    PROVE  /\ (i + 1) % IdSpace \in Ids
           /\ (i + 1) % IdSpace = i + 1 \/ (i + 1) % IdSpace = i + 1 - IdSpace
<1>1. IdSpace \in Nat /\ IdSpace > 1 /\ i \in 0 .. (IdSpace - 1)
  BY ControlAssumption DEF Ids
<1>2. CASE i + 1 < IdSpace
  <2>1. (i + 1) % IdSpace = i + 1
    BY <1>1, <1>2
  <2> QED
    BY <2>1, <1>1, <1>2 DEF Ids
<1>3. CASE i + 1 = IdSpace
  <2>1. (i + 1) % IdSpace = 0
    BY <1>1, <1>3
  <2> QED
    BY <2>1, <1>1, <1>3 DEF Ids
<1> QED
  BY <1>1, <1>2, <1>3

\* What a handler carries at each of its steps.
LEMMA Carries ==
    ASSUME ControlTypes, NEW c \in Calls
    PROVE  /\ At(c, "create") => calls[c].sent \in Nat
           /\ At(c, "insert") => /\ calls[c].sent \in Nat /\ calls[c].sid \in Nat
                                 /\ calls[c].info \in Session
           /\ At(c, "act") => /\ calls[c].sent \in Nat /\ calls[c].sid \in Nat
                              /\ calls[c].stale \in BOOLEAN
<1>1. calls[c] \in Call
  BY DEF ControlTypes
<1> QED
  BY <1>1 DEF Call, At

\* Only handler c moves.
LEMMA GoIs ==
    ASSUME ControlTypes, NEW c \in Calls, NEW call, Go(c, call)
    PROVE  /\ calls' = [d \in Calls |-> IF d = c THEN call ELSE calls[d]]
           /\ calls'[c] = call
           /\ \A d \in Calls \ {c} : calls'[d] = calls[d]
BY DEF ControlTypes, Go

-----------------------------------------------------------------------------
\* A server that has just started knows no session and no request.
LEMMA ControlInit == Init => ControlInv
<1> SUFFICES ASSUME Init PROVE ControlInv
  OBVIOUS
<1> USE ControlAssumption
<1>0. /\ sessions = << >> /\ tokens = << >> /\ ended = << >> /\ heard = << >>
      /\ DOMAIN sessions = {} /\ DOMAIN tokens = {} /\ DOMAIN ended = {} /\ DOMAIN heard = {}
  BY EmptyTable DEF Init
<1>1. ControlTypes
  <2>1. Idle \in Call
    BY DEF Idle, Call
  <2> QED
    BY <1>0, <2>1, EmptyTable DEF Init, ControlTypes, Ids
<1>2. \A c \in Calls : At(c, "idle") /\ ~ calls[c].late /\ ~ At(c, "insert") /\ ~ At(c, "act")
  BY DEF Init, Idle, At
<1>3. Named = {}
  BY <1>0, <1>2 DEF Named
<1>4. NothingAhead
  BY <1>0, <1>2 DEF NothingAhead, Init
<1>5. InsertsAreNew /\ IdsCountOn
  BY <1>2, <1>3 DEF InsertsAreNew, IdsCountOn
<1>6. EndedOnce /\ KeptAlive
  BY <1>0 DEF EndedOnce, KeptAlive
<1>7. RefusedIsGone /\ RefusalIsFinal
  BY <1>2 DEF RefusedIsGone, RefusalIsFinal, Init
<1> QED
  BY <1>1, <1>4, <1>5, <1>6, <1>7 DEF ControlInv

-----------------------------------------------------------------------------
(* The handlers.                                                           *)

\* A password is checked: the handler goes on or is free again.
LEMMA AuthenticateStep ==
    ASSUME ControlInv, NEW c \in Calls, NEW valid \in BOOLEAN, Authenticate(c, valid)
    PROVE  ControlInv'
<1> DEFINE call == IF valid THEN [step |-> "create", sent |-> clock] ELSE Idle
<1>t. ControlTypes
  BY DEF ControlInv
<1>0. /\ At(c, "idle") /\ Go(c, call)
      /\ UNCHANGED << clock, secret, next_id, sessions, reaping, created, tokens, ended,
                      heard, refused >>
  BY DEF Authenticate, manager, history
<1>1. call \in Call /\ call.step \in {"idle", "create"}
  BY <1>t DEF ControlTypes, Call, Idle
<1> HIDE DEF call
<1>2. /\ calls' = [d \in Calls |-> IF d = c THEN call ELSE calls[d]]
      /\ calls'[c] = call
      /\ \A d \in Calls \ {c} : calls'[d] = calls[d]
  BY <1>0, <1>t, GoIs
<1>3. ControlTypes'
  BY <1>0, <1>1, <1>2, <1>t DEF ControlTypes
<1>4. NothingAhead'
  <2>1. call.step = "create" => call.sent = clock
    BY DEF call, Idle
  <2> QED
    BY <2>1, <1>0, <1>1, <1>2, <1>t DEF ControlInv, NothingAhead, ControlTypes, At
<1>5. InsertsAreNew'
  BY <1>0, <1>1, <1>2 DEF ControlInv, InsertsAreNew, At
<1>6. IdsCountOn'
  <2>1. Named' = Named
    BY <1>0, <1>1, <1>2 DEF Named, At
  <2> QED
    BY <2>1, <1>0 DEF ControlInv, IdsCountOn, CountsOn
<1>7. EndedOnce' /\ KeptAlive'
  BY <1>0 DEF ControlInv, EndedOnce, KeptAlive
<1>8. RefusedIsGone'
  BY <1>0, <1>1, <1>2 DEF ControlInv, RefusedIsGone, verify_token, At
<1>9. RefusalIsFinal'
  <2>1. call.step = "idle" => ~ call.late
    BY DEF call, Idle
  <2> QED
    BY <2>1, <1>0, <1>2 DEF ControlInv, RefusalIsFinal, At
<1> QED
  BY <1>3, <1>4, <1>5, <1>6, <1>7, <1>8, <1>9 DEF ControlInv

\* A new session gets a number that nobody has, and the next id.
LEMMA FetchIdStep ==
    ASSUME ControlInv, NEW c \in Calls, FetchId(c)
    PROVE  ControlInv'
<1> DEFINE info == [numeric_id |-> next_id, last_heartbeat |-> clock]
           call == [step |-> "insert", sent |-> calls[c].sent, sid |-> created', info |-> info]
<1>t. ControlTypes
  BY DEF ControlInv
<1>0. /\ At(c, "create") /\ Go(c, call)
      /\ next_id' = (next_id + 1) % IdSpace /\ created' = created + 1
      /\ UNCHANGED << clock, secret, sessions, reaping, tokens, ended, heard, refused >>
  BY DEF FetchId, SessionInfo, history
<1>1. /\ info \in Session /\ created \in Nat /\ created' \in Nat
      /\ next_id \in Ids /\ clock \in Nat /\ calls[c].sent \in Nat
  BY <1>0, <1>t, Carries DEF ControlTypes, Session
<1>2. /\ call \in Call /\ call.step = "insert" /\ call.sid = created'
      /\ call.sent = calls[c].sent /\ call.info = info
  BY <1>1 DEF Call
<1>3. info.numeric_id = next_id /\ info.last_heartbeat = clock
  OBVIOUS
<1> HIDE DEF call, info
<1>4. /\ calls' = [d \in Calls |-> IF d = c THEN call ELSE calls[d]]
      /\ calls'[c] = call
      /\ \A d \in Calls \ {c} : calls'[d] = calls[d]
  BY <1>0, <1>t, GoIs
<1>5. /\ next_id' \in Ids
      /\ next_id' = next_id + 1 \/ next_id' = next_id + 1 - IdSpace
      /\ IdSpace \in Nat /\ IdSpace > 1
  BY <1>0, <1>1, NextId, ControlAssumption
<1>6. ControlTypes'
  <2>1. calls' \in [Calls -> Call]
    BY <1>2, <1>4, <1>t DEF ControlTypes
  <2>2. \A S : S \subseteq 1 .. created => S \subseteq 1 .. created'
    BY <1>0, <1>1
  <2> QED
    BY <1>0, <1>1, <1>5, <2>1, <2>2, <1>t DEF ControlTypes
<1>7. NothingAhead'
  BY <1>0, <1>2, <1>4 DEF ControlInv, NothingAhead, At
<1>8. \A d \in Calls : At(d, "insert") => calls[d].sid \in 1 .. created
  BY DEF ControlInv, InsertsAreNew
<1>9. InsertsAreNew'
  <2>1. ASSUME NEW d \in Calls \ {c}, At(d, "insert")
        PROVE  calls[d].sid \in 1 .. created' /\ calls[d].sid # created'
    BY <2>1, <1>8, <1>0, <1>1
  <2>2. created' \notin DOMAIN sessions \cup DOMAIN tokens \cup DOMAIN ended \cup DOMAIN heard
    BY <1>0, <1>1, <1>t DEF ControlTypes
  <2>3. calls[c].sent <= clock
    BY <1>0 DEF ControlInv, NothingAhead, At
  <2>4. ASSUME NEW d \in Calls, At(d, "insert")'
        PROVE  /\ calls'[d].sid \in 1 .. created'
               /\ calls'[d].sid \notin (DOMAIN sessions \cup DOMAIN tokens \cup DOMAIN ended \cup DOMAIN heard)'
               /\ calls'[d].sent <= calls'[d].info.last_heartbeat
               /\ \A e \in Calls \ {d} : At(e, "insert")' => calls'[e].sid # calls'[d].sid
    <3>1. CASE d = c
      BY <3>1, <2>1, <2>2, <2>3, <1>0, <1>1, <1>2, <1>3, <1>4 DEF At
    <3>2. CASE d # c
      BY <3>2, <2>1, <2>4, <1>0, <1>2, <1>4 DEF At, ControlInv, InsertsAreNew
    <3> QED
      BY <3>1, <3>2
  <2> QED
    BY <2>4 DEF InsertsAreNew
<1>10. IdsCountOn'
  <2>1. Named' = Named \cup {<< created + 1, next_id >>}
    BY <1>0, <1>1, <1>2, <1>3, <1>4 DEF Named, At
  <2>2. \A x \in Named : x[1] \in 1 .. created /\ x[2] \in Ids
    <3>1. \A s \in DOMAIN sessions : s \in 1 .. created /\ sessions[s].numeric_id \in Ids
      BY <1>t DEF ControlTypes, Session
    <3>2. \A d \in Calls : At(d, "insert") => /\ calls[d].sid \in 1 .. created
                                             /\ calls[d].info.numeric_id \in Ids
      BY <1>8, <1>t, Carries DEF Session
    <3> QED
      BY <3>1, <3>2 DEF Named
  <2>3. ASSUME NEW x \in Named
        PROVE  /\ CountsOn(x[2], created' + 1 - x[1], next_id')
               /\ CountsOn(x[2], created + 1 - x[1], next_id)
    <3>1. CountsOn(x[2], created + 1 - x[1], next_id)
      BY DEF ControlInv, IdsCountOn
    <3>2. CountsOn(x[2], created' + 1 - x[1], next_id')
      BY <3>1, <2>2, <1>0, <1>1, <1>5 DEF CountsOn, Ids
    <3> QED
      BY <3>1, <3>2
  <2>4. CountsOn(next_id, created' + 1 - (created + 1), next_id')
    BY <1>0, <1>1, <1>5 DEF CountsOn, Ids
  <2>5. \A x, y \in Named : x[1] < y[1] => CountsOn(x[2], y[1] - x[1], y[2])
    BY DEF ControlInv, IdsCountOn
  <2>6. \A x \in Named' : x \in Named \/ (x[1] = created + 1 /\ x[2] = next_id)
    BY <2>1
  <2>7. \A x \in Named : ~ (created + 1 < x[1])
    BY <2>2, <1>1
  <2> QED
    BY <2>1, <2>2, <2>3, <2>4, <2>5, <2>6, <2>7, <1>1 DEF IdsCountOn, CountsOn
<1>11. EndedOnce' /\ KeptAlive'
  BY <1>0 DEF ControlInv, EndedOnce, KeptAlive
<1>12. RefusedIsGone'
  BY <1>0, <1>2, <1>4 DEF ControlInv, RefusedIsGone, verify_token, At
<1>13. RefusalIsFinal'
  BY <1>0, <1>2, <1>4 DEF ControlInv, RefusalIsFinal, At
<1> QED
  BY <1>6, <1>7, <1>9, <1>10, <1>11, <1>12, <1>13 DEF ControlInv

\* Steps that name no session keep the ids in step with the counter.
LEMMA IdsKept ==
    ASSUME IdsCountOn, Named' \subseteq Named, created' = created, next_id' = next_id
    PROVE  IdsCountOn'
BY DEF IdsCountOn, CountsOn

\* The new session enters the table, and its client may get the answer.
LEMMA InsertStep ==
    ASSUME ControlInv, NEW c \in Calls, NEW arrives \in BOOLEAN, Insert(c, arrives)
    PROVE  ControlInv'
<1> DEFINE sid == calls[c].sid
           info == calls[c].info
<1>t. ControlTypes
  BY DEF ControlInv
<1>0. /\ At(c, "insert") /\ Go(c, Idle)
      /\ sessions' = With(sessions, sid, info)
      /\ tokens' = IF arrives THEN With(tokens, sid, issue_token) ELSE tokens
      /\ heard' = IF arrives THEN With(heard, sid, calls[c].sent) ELSE heard
      /\ UNCHANGED << clock, secret, next_id, reaping, created, ended, refused >>
  BY DEF Insert
<1>1. /\ info \in Session /\ calls[c].sent \in Nat
      /\ sid \in 1 .. created
      /\ sid \notin DOMAIN sessions \cup DOMAIN tokens \cup DOMAIN ended \cup DOMAIN heard
      /\ calls[c].sent <= info.last_heartbeat
      /\ \A d \in Calls \ {c} : At(d, "insert") => calls[d].sid # sid
  BY <1>0, <1>t, Carries DEF ControlInv, InsertsAreNew
<1>2. issue_token \in Token /\ issue_token.secret = secret
  BY <1>t, ControlAssumption DEF issue_token, Token, ControlTypes
<1>3. /\ calls' = [d \in Calls |-> IF d = c THEN Idle ELSE calls[d]]
      /\ calls'[c] = Idle
      /\ \A d \in Calls \ {c} : calls'[d] = calls[d]
  BY <1>0, <1>t, GoIs
<1>4. /\ Idle \in Call /\ Idle.step = "idle" /\ ~ Idle.late
  BY DEF Idle, Call
<1>5. \A d \in Calls : ~ At(d, "idle")' => d # c
  BY <1>3, <1>4 DEF At
<1> HIDE DEF sid, info
<1>6. /\ DOMAIN sessions' = DOMAIN sessions \cup {sid}
      /\ sessions' \in [DOMAIN sessions' -> Session]
      /\ sessions'[sid] = info
      /\ \A s \in DOMAIN sessions : sessions'[s] = sessions[s]
  BY <1>0, <1>1, <1>t DEF ControlTypes, With
<1>7. /\ DOMAIN tokens \subseteq DOMAIN tokens' /\ DOMAIN tokens' \subseteq DOMAIN tokens \cup {sid}
      /\ tokens' \in [DOMAIN tokens' -> Token]
      /\ \A s \in DOMAIN tokens : tokens'[s] = tokens[s]
      /\ sid \in DOMAIN tokens' => tokens'[sid] = issue_token
  <2>1. CASE arrives
    BY <2>1, <1>0, <1>1, <1>2, <1>t DEF ControlTypes, With
  <2>2. CASE ~ arrives
    BY <2>2, <1>0, <1>1, <1>t DEF ControlTypes
  <2> QED
    BY <2>1, <2>2
<1>8. /\ DOMAIN heard' \subseteq DOMAIN heard \cup {sid}
      /\ heard' \in [DOMAIN heard' -> Nat]
      /\ \A s \in DOMAIN heard : heard'[s] = heard[s]
      /\ sid \in DOMAIN heard' => heard'[sid] = calls[c].sent
  <2>1. CASE arrives
    BY <2>1, <1>0, <1>1, <1>t DEF ControlTypes, With
  <2>2. CASE ~ arrives
    BY <2>2, <1>0, <1>1, <1>t DEF ControlTypes
  <2> QED
    BY <2>1, <2>2
<1>9. ControlTypes'
  <2>1. calls' \in [Calls -> Call]
    BY <1>3, <1>4, <1>t DEF ControlTypes
  <2> QED
    BY <2>1, <1>0, <1>1, <1>6, <1>7, <1>8, <1>t DEF ControlTypes
<1>10. NothingAhead'
  <2>1. \A d \in Calls : ~ At(d, "idle")' => calls'[d].sent <= clock'
    BY <1>0, <1>3, <1>5 DEF ControlInv, NothingAhead, At
  <2>2. \A s \in DOMAIN tokens' : tokens'[s].secret <= secret'
    BY <1>0, <1>2, <1>7, <1>t DEF ControlInv, NothingAhead, ControlTypes
  <2> QED
    BY <2>1, <2>2, <1>0 DEF ControlInv, NothingAhead
<1>11. InsertsAreNew'
  BY <1>0, <1>1, <1>3, <1>5, <1>4, <1>6, <1>7, <1>8 DEF ControlInv, InsertsAreNew, At
<1>12. IdsCountOn'
  <2>1. Named' \subseteq Named
    BY <1>0, <1>3, <1>4, <1>6 DEF Named, At, sid, info
  <2> QED
    BY <2>1, <1>0, IdsKept DEF ControlInv
<1>13. EndedOnce'
  BY <1>0, <1>1, <1>6 DEF ControlInv, EndedOnce
<1>14. KeptAlive'
  BY <1>0, <1>1, <1>6, <1>8 DEF ControlInv, KeptAlive
<1>15. RefusedIsGone'
  <2>1. \A s \in refused' : verify_token(tokens[s])' => s \notin DOMAIN sessions'
    BY <1>0, <1>1, <1>6, <1>7, <1>t DEF ControlInv, RefusedIsGone, verify_token, ControlTypes
  <2>2. \A d \in Calls : At(d, "act")' =>
           /\ calls'[d].sid \in DOMAIN tokens'
           /\ calls'[d].stale => calls'[d].sid \notin DOMAIN sessions'
    BY <1>0, <1>1, <1>3, <1>4, <1>6, <1>7 DEF ControlInv, RefusedIsGone, At
  <2> QED
    BY <2>1, <2>2 DEF RefusedIsGone
<1>16. RefusalIsFinal'
  BY <1>0, <1>3, <1>4 DEF ControlInv, RefusalIsFinal, At
<1> QED
  BY <1>9, <1>10, <1>11, <1>12, <1>13, <1>14, <1>15, <1>16 DEF ControlInv

\* A request with a valid token goes on; of any other the client is told.
LEMMA VerifyStep ==
    ASSUME ControlInv, NEW c \in Calls, NEW op \in {"heartbeat", "terminate"},
           NEW sid \in DOMAIN tokens, Verify(c, op, sid)
    PROVE  ControlInv'
<1> DEFINE act == [step |-> "act", op |-> op, sid |-> sid, sent |-> clock,
                   stale |-> sid \in refused]
           call == IF verify_token(tokens[sid]) THEN act ELSE Idle
<1>t. ControlTypes
  BY DEF ControlInv
<1>0. /\ At(c, "idle") /\ Go(c, call)
      /\ refused' = IF verify_token(tokens[sid]) THEN refused ELSE refused \cup {sid}
      /\ UNCHANGED << clock, secret, next_id, sessions, reaping, created, tokens, ended, heard >>
  BY DEF Verify, manager
<1>1. /\ call \in Call /\ call.step \in {"idle", "act"}
      /\ call.step = "idle" => ~ call.late
      /\ call.step = "act" => /\ call.sid = sid /\ call.sent = clock
                              /\ call.stale <=> sid \in refused
                              /\ verify_token(tokens[sid])
  <2>1. sid \in Nat /\ clock \in Nat
    BY <1>t DEF ControlTypes
  <2>2. act \in Call
    BY <2>1 DEF Call
  <2>3. Idle \in Call /\ Idle.step = "idle" /\ ~ Idle.late
    BY DEF Idle, Call
  <2> QED
    BY <2>2, <2>3
<1> HIDE DEF call
<1>2. /\ calls' = [d \in Calls |-> IF d = c THEN call ELSE calls[d]]
      /\ calls'[c] = call
      /\ \A d \in Calls \ {c} : calls'[d] = calls[d]
  BY <1>0, <1>t, GoIs
<1>3. ControlTypes'
  <2>1. calls' \in [Calls -> Call]
    BY <1>1, <1>2, <1>t DEF ControlTypes
  <2> QED
    BY <2>1, <1>0, <1>t DEF ControlTypes
<1>4. NothingAhead'
  BY <1>0, <1>1, <1>2, <1>t DEF ControlInv, NothingAhead, ControlTypes, At
<1>5. InsertsAreNew'
  BY <1>0, <1>1, <1>2 DEF ControlInv, InsertsAreNew, At
<1>6. IdsCountOn'
  <2>1. Named' \subseteq Named
    BY <1>0, <1>1, <1>2 DEF Named, At
  <2> QED
    BY <2>1, <1>0, IdsKept DEF ControlInv
<1>7. EndedOnce' /\ KeptAlive'
  BY <1>0 DEF ControlInv, EndedOnce, KeptAlive
<1>8. RefusedIsGone'
  <2>1. \A s \in refused' : verify_token(tokens[s])' => s \notin DOMAIN sessions'
    BY <1>0 DEF ControlInv, RefusedIsGone, verify_token
  <2>2. call.step = "act" /\ call.stale => sid \notin DOMAIN sessions
    BY <1>1 DEF ControlInv, RefusedIsGone
  <2> QED
    BY <2>1, <2>2, <1>0, <1>1, <1>2 DEF ControlInv, RefusedIsGone, At
<1>9. RefusalIsFinal'
  BY <1>0, <1>1, <1>2 DEF ControlInv, RefusalIsFinal, At
<1> QED
  BY <1>3, <1>4, <1>5, <1>6, <1>7, <1>8, <1>9 DEF ControlInv

\* A heartbeat finds its session and refreshes it, or is refused.
LEMMA HeartbeatStep ==
    ASSUME ControlInv, NEW c \in Calls, Heartbeat(c)
    PROVE  ControlInv'
<1> DEFINE sid == calls[c].sid
           ok == sid \in DOMAIN sessions
           call == [step |-> "idle", late |-> ok /\ calls[c].stale]
<1>t. ControlTypes
  BY DEF ControlInv
<1>0. /\ At(c, "act") /\ Go(c, call)
      /\ ok => /\ sessions' = [sessions EXCEPT ![sid].last_heartbeat = clock]
               /\ heard' = With(heard, sid, calls[c].sent) /\ refused' = refused
      /\ ~ ok => /\ refused' = refused \cup {sid} /\ UNCHANGED << sessions, heard >>
      /\ UNCHANGED << clock, secret, next_id, reaping, created, tokens, ended >>
  BY DEF Heartbeat, Refuse, Answer, Idle
<1>1. /\ calls[c].sent \in Nat /\ calls[c].sent <= clock /\ calls[c].stale \in BOOLEAN
      /\ sid \in DOMAIN tokens /\ sid \in 1 .. created /\ clock \in Nat
      /\ calls[c].stale => ~ ok
  BY <1>0, <1>t, Carries DEF ControlInv, NothingAhead, RefusedIsGone, ControlTypes, At
<1>2. call \in Call /\ call.step = "idle" /\ ~ call.late
  BY <1>1 DEF Call
<1> HIDE DEF sid, ok, call
<1>3. /\ calls' = [d \in Calls |-> IF d = c THEN call ELSE calls[d]]
      /\ calls'[c] = call
      /\ \A d \in Calls \ {c} : calls'[d] = calls[d]
  BY <1>0, <1>t, GoIs
<1>4. /\ DOMAIN sessions' = DOMAIN sessions
      /\ sessions' \in [DOMAIN sessions -> Session]
      /\ \A s \in DOMAIN sessions :
            /\ sessions'[s].numeric_id = sessions[s].numeric_id
            /\ s # sid => sessions'[s] = sessions[s]
      /\ ok => sessions'[sid].last_heartbeat = clock
  <2>1. CASE ok
    BY <2>1, <1>0, <1>1, <1>t DEF ControlTypes, Session, ok
  <2>2. CASE ~ ok
    BY <2>2, <1>0, <1>t DEF ControlTypes, ok
  <2> QED
    BY <2>1, <2>2
<1>5. /\ DOMAIN heard' \subseteq DOMAIN heard \cup {sid}
      /\ heard' \in [DOMAIN heard' -> Nat]
      /\ \A s \in DOMAIN heard \ {sid} : heard'[s] = heard[s]
      /\ ok => heard'[sid] = calls[c].sent
      /\ ~ ok => heard' = heard
  <2>1. CASE ok
    BY <2>1, <1>0, <1>1, <1>t DEF ControlTypes, With
  <2>2. CASE ~ ok
    BY <2>2, <1>0, <1>t DEF ControlTypes
  <2> QED
    BY <2>1, <2>2
<1>6. ControlTypes'
  <2>1. calls' \in [Calls -> Call]
    BY <1>2, <1>3, <1>t DEF ControlTypes
  <2>2. refused' \subseteq DOMAIN tokens
    BY <1>0, <1>1, <1>t DEF ControlTypes
  <2> QED
    BY <2>1, <2>2, <1>0, <1>1, <1>4, <1>5, <1>t DEF ControlTypes
<1>7. NothingAhead'
  BY <1>0, <1>2, <1>3 DEF ControlInv, NothingAhead, At
<1>8. InsertsAreNew'
  BY <1>0, <1>1, <1>2, <1>3, <1>4, <1>5 DEF ControlInv, InsertsAreNew, At
<1>9. IdsCountOn'
  <2>1. Named' \subseteq Named
    BY <1>2, <1>3, <1>4 DEF Named, At
  <2> QED
    BY <2>1, <1>0, IdsKept DEF ControlInv
<1>10. EndedOnce'
  BY <1>0, <1>4 DEF ControlInv, EndedOnce
<1>11. KeptAlive'
  BY <1>0, <1>1, <1>4, <1>5 DEF ControlInv, KeptAlive, ok
<1>12. RefusedIsGone'
  <2>1. \A s \in refused' : verify_token(tokens[s])' => s \notin DOMAIN sessions'
    BY <1>0, <1>4 DEF ControlInv, RefusedIsGone, verify_token, ok
  <2> QED
    BY <2>1, <1>0, <1>2, <1>3, <1>4 DEF ControlInv, RefusedIsGone, At
<1>13. RefusalIsFinal'
  BY <1>2, <1>3 DEF ControlInv, RefusalIsFinal, At
<1> QED
  BY <1>6, <1>7, <1>8, <1>9, <1>10, <1>11, <1>12, <1>13 DEF ControlInv

\* A terminated session leaves the table for good, or there was none.
LEMMA TerminateStep ==
    ASSUME ControlInv, NEW c \in Calls, Terminate(c)
    PROVE  ControlInv'
<1> DEFINE sid == calls[c].sid
           ok == sid \in DOMAIN sessions
           times == 1 + IF sid \in DOMAIN ended THEN ended[sid] ELSE 0
           call == [step |-> "idle", late |-> ok /\ calls[c].stale]
<1>t. ControlTypes
  BY DEF ControlInv
<1>0. /\ At(c, "act") /\ Go(c, call)
      /\ ok => /\ sessions' = Restrict(sessions, DOMAIN sessions \ {sid})
               /\ ended' = With(ended, sid, times) /\ refused' = refused
      /\ ~ ok => /\ refused' = refused \cup {sid} /\ UNCHANGED << sessions, ended >>
      /\ UNCHANGED << clock, secret, next_id, reaping, created, tokens, heard >>
  BY DEF Terminate, Refuse, Answer, Idle
<1>1. /\ sid \in DOMAIN tokens /\ sid \in 1 .. created /\ calls[c].stale \in BOOLEAN
      /\ calls[c].stale => ~ ok
  BY <1>0, <1>t, Carries DEF ControlInv, RefusedIsGone, ControlTypes, At
<1>2. call \in Call /\ call.step = "idle" /\ ~ call.late
  BY <1>1 DEF Call
<1>3. ok => times = 1
  BY DEF ControlInv, EndedOnce
<1> HIDE DEF sid, ok, call, times
<1>4. /\ calls' = [d \in Calls |-> IF d = c THEN call ELSE calls[d]]
      /\ calls'[c] = call
      /\ \A d \in Calls \ {c} : calls'[d] = calls[d]
  BY <1>0, <1>t, GoIs
<1>5. /\ DOMAIN sessions' = DOMAIN sessions \ {sid}
      /\ sessions' \in [DOMAIN sessions' -> Session]
      /\ \A s \in DOMAIN sessions' : sessions'[s] = sessions[s]
  <2>1. CASE ok
    BY <2>1, <1>0, <1>t DEF ControlTypes, Restrict
  <2>2. CASE ~ ok
    BY <2>2, <1>0, <1>t DEF ControlTypes, ok
  <2> QED
    BY <2>1, <2>2
<1>6. /\ DOMAIN ended' = DOMAIN ended \cup (IF ok THEN {sid} ELSE {})
      /\ ended' \in [DOMAIN ended' -> Nat]
      /\ \A s \in DOMAIN ended : s # sid => ended'[s] = ended[s]
      /\ ok => ended'[sid] = 1
      /\ ~ ok => ended' = ended
  <2>1. CASE ok
    BY <2>1, <1>0, <1>3, <1>t DEF ControlTypes, With
  <2>2. CASE ~ ok
    BY <2>2, <1>0, <1>t DEF ControlTypes
  <2> QED
    BY <2>1, <2>2
<1>7. ControlTypes'
  <2>1. calls' \in [Calls -> Call]
    BY <1>2, <1>4, <1>t DEF ControlTypes
  <2>2. refused' \subseteq DOMAIN tokens
    BY <1>0, <1>1, <1>t DEF ControlTypes
  <2> QED
    BY <2>1, <2>2, <1>0, <1>1, <1>5, <1>6, <1>t DEF ControlTypes
<1>8. NothingAhead'
  BY <1>0, <1>2, <1>4 DEF ControlInv, NothingAhead, At
<1>9. InsertsAreNew'
  BY <1>0, <1>1, <1>2, <1>4, <1>5, <1>6 DEF ControlInv, InsertsAreNew, At
<1>10. IdsCountOn'
  <2>1. Named' \subseteq Named
    BY <1>2, <1>4, <1>5 DEF Named, At
  <2> QED
    BY <2>1, <1>0, IdsKept DEF ControlInv
<1>11. EndedOnce'
  BY <1>0, <1>5, <1>6 DEF ControlInv, EndedOnce
<1>12. KeptAlive'
  BY <1>0, <1>5, <1>6 DEF ControlInv, KeptAlive, ok
<1>13. RefusedIsGone'
  <2>1. \A s \in refused' : verify_token(tokens[s])' => s \notin DOMAIN sessions'
    BY <1>0, <1>5 DEF ControlInv, RefusedIsGone, verify_token
  <2> QED
    BY <2>1, <1>0, <1>2, <1>4, <1>5 DEF ControlInv, RefusedIsGone, At
<1>14. RefusalIsFinal'
  BY <1>2, <1>4 DEF ControlInv, RefusalIsFinal, At
<1> QED
  BY <1>7, <1>8, <1>9, <1>10, <1>11, <1>12, <1>13, <1>14 DEF ControlInv

-----------------------------------------------------------------------------
(* The reaper, the clock and restarts.                                     *)

\* The reaper reads the clock and waits for the lock.
LEMMA ReapBeginsStep == ControlInv /\ ReapBegins => ControlInv'
<1> SUFFICES ASSUME ControlInv, ReapBegins PROVE ControlInv'
  OBVIOUS
<1>0. /\ reaping' = {clock} /\ clock \in Nat
      /\ UNCHANGED << clock, secret, next_id, sessions, calls, created, tokens, ended, heard, refused >>
  BY DEF ReapBegins, history, ControlInv, ControlTypes
<1>1. ControlTypes' /\ InsertsAreNew' /\ EndedOnce' /\ KeptAlive'
  BY <1>0 DEF ControlInv, ControlTypes, InsertsAreNew, EndedOnce, KeptAlive, At
<1>2. NothingAhead'
  BY <1>0 DEF ControlInv, NothingAhead, At
<1>3. IdsCountOn'
  BY <1>0, IdsKept DEF ControlInv, Named, At
<1>4. RefusedIsGone' /\ RefusalIsFinal'
  BY <1>0 DEF ControlInv, RefusedIsGone, RefusalIsFinal, verify_token, At
<1> QED
  BY <1>1, <1>2, <1>3, <1>4 DEF ControlInv

\* The sweep takes nothing that a client was told of within session_ttl: what
\* it looks at is no newer than the clock.
LEMMA ReapSweepsStep ==
    ASSUME ControlInv, NEW now \in reaping, ReapSweeps(now)
    PROVE  ControlInv'
<1>t. ControlTypes
  BY DEF ControlInv
<1>0. /\ now \in Nat /\ now <= clock /\ clock \in Nat /\ session_ttl \in Nat
      /\ reaping' = {}
      /\ UNCHANGED << clock, secret, next_id, calls, created, tokens, ended, heard, refused >>
  BY <1>t, ControlAssumption DEF ReapSweeps, history, ControlInv, NothingAhead, ControlTypes
<1>1. /\ DOMAIN sessions' = {s \in DOMAIN sessions : ~ expired(sessions[s], now)}
      /\ sessions' \in [DOMAIN sessions' -> Session]
      /\ \A s \in DOMAIN sessions' : sessions'[s] = sessions[s]
  BY <1>t DEF ReapSweeps, RestrictValues, Restrict, ControlTypes
<1>2. ControlTypes' /\ EndedOnce'
  BY <1>0, <1>1, <1>t DEF ControlInv, ControlTypes, EndedOnce
<1>3. NothingAhead' /\ InsertsAreNew'
  BY <1>0, <1>1 DEF ControlInv, NothingAhead, InsertsAreNew, At
<1>4. IdsCountOn'
  <2>1. Named' \subseteq Named
    BY <1>0, <1>1 DEF Named, At
  <2> QED
    BY <2>1, <1>0, IdsKept DEF ControlInv
<1>5. KeptAlive'
  <2> SUFFICES ASSUME NEW sid \in DOMAIN heard, clock - heard[sid] < session_ttl,
                      sid \notin DOMAIN ended
               PROVE  /\ sid \in DOMAIN sessions'
                      /\ heard[sid] <= sessions'[sid].last_heartbeat
    BY <1>0 DEF KeptAlive
  <2>1. sid \in DOMAIN sessions /\ heard[sid] <= sessions[sid].last_heartbeat
    BY DEF ControlInv, KeptAlive
  <2>2. heard[sid] \in Nat /\ sessions[sid].last_heartbeat \in Nat
    BY <2>1, <1>t DEF ControlTypes, Session
  <2>3. ~ expired(sessions[sid], now)
    BY <2>1, <2>2, <1>0 DEF expired
  <2> QED
    BY <2>1, <2>3, <1>1
<1>6. RefusedIsGone' /\ RefusalIsFinal'
  BY <1>0, <1>1 DEF ControlInv, RefusedIsGone, RefusalIsFinal, verify_token, At
<1> QED
  BY <1>2, <1>3, <1>4, <1>5, <1>6 DEF ControlInv

\* Time makes no token valid.
LEMMA TickStep == ControlInv /\ Tick => ControlInv'
<1> SUFFICES ASSUME ControlInv, Tick PROVE ControlInv'
  OBVIOUS
<1>t. ControlTypes
  BY DEF ControlInv
<1>0. /\ clock \in Nat /\ clock' = clock + 1
      /\ UNCHANGED << secret, next_id, sessions, reaping, calls, created, tokens, ended, refused >>
  BY <1>t DEF Tick, manager, ControlTypes
<1>1. /\ DOMAIN heard' \subseteq DOMAIN heard
      /\ heard' \in [DOMAIN heard' -> Nat]
      /\ \A s \in DOMAIN heard' : heard'[s] = heard[s]
  BY <1>t DEF Tick, RestrictValues, Restrict, ControlTypes
<1>2. ControlTypes' /\ EndedOnce'
  BY <1>0, <1>1, <1>t DEF ControlInv, ControlTypes, EndedOnce
<1>3. NothingAhead'
  <2>1. \A c \in Calls : ~ At(c, "idle") => calls[c].sent \in Nat
    BY <1>t, Carries DEF ControlTypes, Call, At
  <2> QED
    BY <2>1, <1>0 DEF ControlInv, NothingAhead, At
<1>4. InsertsAreNew'
  BY <1>0, <1>1 DEF ControlInv, InsertsAreNew, At
<1>5. IdsCountOn'
  BY <1>0, IdsKept DEF ControlInv, Named, At
<1>6. KeptAlive'
  <2>1. \A s \in DOMAIN heard' : clock' - heard'[s] < session_ttl => clock - heard[s] < session_ttl
    BY <1>0, <1>1, <1>t, ControlAssumption DEF ControlTypes
  <2> QED
    BY <2>1, <1>0, <1>1 DEF ControlInv, KeptAlive
<1>7. RefusedIsGone'
  <2>1. \A s \in refused : verify_token(tokens[s])' => verify_token(tokens[s])
    BY <1>0, <1>t DEF verify_token, ControlTypes, Token
  <2> QED
    BY <2>1, <1>0 DEF ControlInv, RefusedIsGone, At
<1>8. RefusalIsFinal'
  BY <1>0 DEF ControlInv, RefusalIsFinal, At
<1> QED
  BY <1>2, <1>3, <1>4, <1>5, <1>6, <1>7, <1>8 DEF ControlInv

\* After a restart no token of before is valid.
LEMMA RestartStep == ControlInv /\ Restart => ControlInv'
<1> SUFFICES ASSUME ControlInv, Restart PROVE ControlInv'
  OBVIOUS
<1>t. ControlTypes
  BY DEF ControlInv
<1>0. /\ secret \in Nat /\ secret' = secret + 1 /\ next_id' = 1 /\ reaping' = {}
      /\ sessions' = << >> /\ heard' = << >> /\ DOMAIN sessions' = {} /\ DOMAIN heard' = {}
      /\ calls' = [c \in Calls |-> Idle]
      /\ UNCHANGED << clock, created, tokens, ended, refused >>
  BY <1>t, EmptyTable DEF Restart, ControlTypes
<1>1. Idle \in Call /\ Idle.step = "idle" /\ ~ Idle.late
  BY DEF Idle, Call
<1>2. \A c \in Calls : At(c, "idle")' /\ ~ At(c, "insert")' /\ ~ At(c, "act")' /\ ~ calls'[c].late
  BY <1>0, <1>1 DEF At
<1>3. ControlTypes'
  BY <1>0, <1>1, <1>t, EmptyTable, ControlAssumption DEF ControlTypes, Ids
<1>4. NothingAhead' /\ InsertsAreNew' /\ RefusalIsFinal'
  BY <1>0, <1>2, <1>t DEF ControlInv, ControlTypes, Token, NothingAhead, InsertsAreNew, RefusalIsFinal
<1>5. IdsCountOn'
  <2>1. Named' = {}
    BY <1>0, <1>2 DEF Named
  <2> QED
    BY <2>1 DEF IdsCountOn
<1>6. EndedOnce' /\ KeptAlive'
  BY <1>0 DEF ControlInv, EndedOnce, KeptAlive
<1>7. RefusedIsGone'
  BY <1>0, <1>2 DEF RefusedIsGone
<1> QED
  BY <1>3, <1>4, <1>5, <1>6, <1>7 DEF ControlInv

-----------------------------------------------------------------------------
\* Whatever happens next keeps the invariant.
LEMMA ControlStep == ControlInv /\ [Next]_vars => ControlInv'
<1> SUFFICES ASSUME ControlInv, [Next]_vars PROVE ControlInv'
  OBVIOUS
<1>1. ASSUME NEW c \in Calls, Handle(c) PROVE ControlInv'
  BY <1>1, AuthenticateStep, FetchIdStep, InsertStep, VerifyStep, HeartbeatStep, TerminateStep
     DEF Handle
<1>2. CASE ReapBegins \/ Tick \/ Restart
  BY <1>2, ReapBeginsStep, TickStep, RestartStep
<1>3. ASSUME NEW now \in reaping, ReapSweeps(now) PROVE ControlInv'
  BY <1>3, ReapSweepsStep
<1>4. CASE UNCHANGED vars
  <2>1. UNCHANGED << clock, secret, next_id, sessions, reaping, calls, created, tokens, ended,
                     heard, refused >>
    BY <1>4 DEF vars, manager, history
  <2> QED
    BY <2>1 DEF ControlInv, ControlTypes, NothingAhead, InsertsAreNew, IdsCountOn, CountsOn, Named,
                EndedOnce, KeptAlive, RefusedIsGone, RefusalIsFinal, verify_token, At
<1> QED
  BY <1>1, <1>2, <1>3, <1>4 DEF Next

\* The inductive invariant holds in every state: handlers, table, tokens and
\* what clients were told stay consistent over every interleaving.
THEOREM ControlInvariance == Spec => []ControlInv
<1>1. Init => ControlInv
  BY ControlInit
<1>2. ControlInv /\ [Next]_vars => ControlInv'
  BY ControlStep
<1> QED
  BY <1>1, <1>2, PTL DEF Spec

\* Sessions of the table share a numeric_id only when the counter has gone
\* round between them, whichever order handlers fetch ids and insert in.
THEOREM IdsAreUnique == Spec => []UniqueIds
<1>1. ControlInv => UniqueIds
  <2> SUFFICES ASSUME ControlInv, NEW s \in DOMAIN sessions, NEW t \in DOMAIN sessions,
                      s < t, sessions[s].numeric_id = sessions[t].numeric_id
               PROVE  t - s >= IdSpace
    BY DEF UniqueIds
  <2>1. << s, sessions[s].numeric_id >> \in Named /\ << t, sessions[t].numeric_id >> \in Named
    BY DEF Named
  <2>2. CountsOn(sessions[s].numeric_id, t - s, sessions[t].numeric_id)
    BY <2>1 DEF ControlInv, IdsCountOn
  <2>3. s \in Nat /\ t \in Nat /\ sessions[s].numeric_id \in Nat /\ IdSpace \in Nat
    BY ControlAssumption DEF ControlInv, ControlTypes, Session, Ids
  <2> QED
    BY <2>2, <2>3 DEF CountsOn
<1> QED
  BY <1>1, ControlInvariance, PTL

\* A session is terminated at most once and never comes back, whatever requests
\* were under way with its token.
THEOREM TerminatedForGood == Spec => []EndedOnce
<1>1. ControlInv => EndedOnce
  BY DEF ControlInv
<1> QED
  BY <1>1, ControlInvariance, PTL

\* A client that was answered ok keeps its session for session_ttl, although
\* the reaper compares with an instant read before it got the lock.
THEOREM SessionIsKept == Spec => []ClientKeepsSession
<1>1. ControlInv => ClientKeepsSession
  BY DEF ControlInv, KeptAlive, ClientKeepsSession
<1> QED
  BY <1>1, ControlInvariance, PTL

\* A client that was refused is never answered ok later, restarts included.
THEOREM RefusedForGood == Spec => []RefusalIsFinal
<1>1. ControlInv => RefusalIsFinal
  BY DEF ControlInv
<1> QED
  BY <1>1, ControlInvariance, PTL
=============================================================================
