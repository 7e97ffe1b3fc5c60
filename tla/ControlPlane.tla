---------------------------- MODULE ControlPlane ----------------------------
(***************************************************************************)
(* The control plane: ControlService of controlplane/src/server.rs on top  *)
(* of SessionManager (session_mgr.rs) and AuthEngine (auth.rs), as the     *)
(* server command starts it.  Handlers run on the threads of the runtime,  *)
(* so their accesses to the counter and to the table interleave.  Nothing  *)
(* is stored: a restart forgets the sessions and draws a new JWT secret.   *)
(*                                                                         *)
(* A session is named by the number of its creation, in place of its       *)
(* random uuid; a secret by the run of the server that drew it.  Clients   *)
(* present the session id and the token that one answer gave them.         *)
(***************************************************************************)
EXTENDS Integers, FiniteSets, Functions, TLC

CONSTANTS
    Calls,         \* handlers that can be under way at the same time
    IdSpace,       \* values of a numeric_id (2^32)
    session_ttl,   \* 300 s
    token_ttl,     \* token_ttl_secs, 3600 s
    MaxSessions,   \* bound: no call creates a session after this many
    MaxClients,    \* bound: sessions whose client gets its answer and uses it
    MaxTime,       \* bound on the clock
    MaxRestarts    \* bound on restarts of the server

ASSUME ControlAssumption ==
    /\ Cardinality(Calls) >= 1 /\ IdSpace \in Nat \ {0, 1}
    /\ session_ttl \in Nat \ {0} /\ token_ttl \in Nat
    /\ MaxSessions \in Nat /\ MaxClients \in Nat /\ MaxTime \in Nat /\ MaxRestarts \in Nat

VARIABLES
    clock,
    secret,        \* the run of the server, for the secret that it signs with
    next_id,
    sessions,      \* the table: sid |-> [numeric_id, last_heartbeat]
    calls,         \* the handlers
    reaping,       \* the instant that a reap_expired under way has read, if any
    created,       \* sessions created so far, by all runs
    tokens,        \* what clients were given: sid |-> [exp, secret]
    ended,         \* history: sid |-> number of times that terminate returned true
    heard,         \* history: sid |-> when its last request answered ok was sent,
                   \* until session_ttl has gone by
    refused        \* history: sids of which a request was refused

manager == << next_id, sessions, reaping >>
history == << ended, heard, refused >>
vars == << clock, secret, manager, calls, created, tokens, history >>

\* A handler that is free; late: its last answer was ok although the session
\* had been refused to its client before.
Idle == [step |-> "idle", late |-> FALSE]

Init ==
    /\ clock = 0 /\ secret = 0
    /\ next_id = 1 /\ sessions = << >> /\ reaping = {}
    /\ calls = [c \in Calls |-> Idle]
    /\ created = 0 /\ tokens = << >>
    /\ ended = << >> /\ heard = << >> /\ refused = {}

\* f with x mapped to v, whether it was in the domain or not.
With(f, x, v) == [y \in DOMAIN f \cup {x} |-> IF y = x THEN v ELSE f[y]]

At(c, step) == calls[c].step = step
Go(c, call) == calls' = [calls EXCEPT ![c] = call]
Answer(c, ok) == Go(c, [Idle EXCEPT !.late = ok /\ calls[c].stale])

-----------------------------------------------------------------------------
(* authenticate.                                                           *)

\* The password is compared with the one user's hash; then the policy is read,
\* which nothing changes.
Authenticate(c, valid) ==
    /\ At(c, "idle")
    /\ valid => created < MaxSessions
    /\ Go(c, IF valid THEN [step |-> "create", sent |-> clock] ELSE Idle)
    /\ UNCHANGED << clock, secret, manager, created, tokens, history >>

\* A session as it enters the table.
SessionInfo(id) == [numeric_id |-> id, last_heartbeat |-> clock]

\* Faulty variant: the id is the number of sessions, as they are now.
FetchId_counts(c) ==
    /\ At(c, "create")
    /\ created' = created + 1
    /\ Go(c, [step |-> "insert", sent |-> calls[c].sent, sid |-> created',
              info |-> SessionInfo(Cardinality(DOMAIN sessions) + 1)])
    /\ UNCHANGED << clock, secret, manager, tokens, history >>

\* create: the id is taken from the counter, which wraps around.
FetchId(c) ==
    /\ At(c, "create")
    /\ next_id' = (next_id + 1) % IdSpace
    /\ created' = created + 1
    /\ Go(c, [step |-> "insert", sent |-> calls[c].sent, sid |-> created',
              info |-> SessionInfo(next_id)])
    /\ UNCHANGED << clock, secret, sessions, reaping, tokens, history >>

issue_token == [exp |-> clock + token_ttl, secret |-> secret]

\* create ends: the session enters the table under the write lock.  Then
\* issue_token, and the answer reaches the client or not; a token that cannot
\* be issued, or an answer that is lost, leaves the session in the table.
Insert(c, arrives) ==
    LET sid == calls[c].sid
    IN  /\ At(c, "insert")
        /\ arrives => Cardinality(DOMAIN tokens) < MaxClients
        /\ sessions' = With(sessions, sid, calls[c].info)
        /\ tokens' = IF arrives THEN With(tokens, sid, issue_token) ELSE tokens
        /\ heard' = IF arrives THEN With(heard, sid, calls[c].sent) ELSE heard
        /\ Go(c, Idle)
        /\ UNCHANGED << clock, secret, next_id, reaping, created, ended, refused >>

-----------------------------------------------------------------------------
(* heartbeat and terminate.                                                *)

\* verify_token: the signature, and the expiry without leeway.  The code takes
\* the wall clock for tokens and a monotonic one for sessions; here they are one
\* clock, which is never set back.
verify_token(token) == token.secret = secret /\ token.exp >= clock

Refuse(c) ==
    /\ Answer(c, FALSE)
    /\ refused' = refused \cup {calls[c].sid}

\* A handler begins with a client's request and looks at its token.
Verify(c, op, sid) ==
    /\ At(c, "idle")
    /\ sid \in DOMAIN tokens
    /\ IF verify_token(tokens[sid])
       THEN /\ Go(c, [step |-> "act", op |-> op, sid |-> sid, sent |-> clock,
                      stale |-> sid \in refused])
            /\ UNCHANGED refused
       ELSE Go(c, Idle) /\ refused' = refused \cup {sid}
    /\ UNCHANGED << clock, secret, manager, created, tokens, ended, heard >>

\* Faulty variant: a session that is missing is entered again.
Heartbeat_upserts(c) ==
    LET sid == calls[c].sid
    IN  /\ At(c, "act") /\ calls[c].op = "heartbeat"
        /\ sessions' = With(sessions, sid, SessionInfo(sid % IdSpace))
        /\ heard' = With(heard, sid, calls[c].sent)
        /\ Answer(c, TRUE)
        /\ UNCHANGED << clock, secret, next_id, reaping, created, tokens, ended, refused >>

\* Faulty variant: the session is found but not refreshed.
Heartbeat_finds(c) ==
    LET sid == calls[c].sid
    IN  /\ At(c, "act") /\ calls[c].op = "heartbeat"
        /\ \/ /\ sid \in DOMAIN sessions
              /\ heard' = With(heard, sid, calls[c].sent)
              /\ Answer(c, TRUE) /\ UNCHANGED refused
           \/ sid \notin DOMAIN sessions /\ Refuse(c) /\ UNCHANGED heard
        /\ UNCHANGED << clock, secret, manager, created, tokens, ended >>

\* SessionManager::heartbeat, under the write lock.
Heartbeat(c) ==
    LET sid == calls[c].sid
    IN  /\ At(c, "act") /\ calls[c].op = "heartbeat"
        /\ \/ /\ sid \in DOMAIN sessions
              /\ sessions' = [sessions EXCEPT ![sid].last_heartbeat = clock]
              /\ heard' = With(heard, sid, calls[c].sent)
              /\ Answer(c, TRUE) /\ UNCHANGED refused
           \/ /\ sid \notin DOMAIN sessions
              /\ Refuse(c) /\ UNCHANGED << sessions, heard >>
        /\ UNCHANGED << clock, secret, next_id, reaping, created, tokens, ended >>

\* Faulty variant: the answer does not depend on what was removed.
Terminate_always_ok(c) ==
    LET sid == calls[c].sid
    IN  /\ At(c, "act") /\ calls[c].op = "terminate"
        /\ sessions' = Restrict(sessions, DOMAIN sessions \ {sid})
        /\ ended' = With(ended, sid, 1 + IF sid \in DOMAIN ended THEN ended[sid] ELSE 0)
        /\ Answer(c, TRUE)
        /\ UNCHANGED << clock, secret, next_id, reaping, created, tokens, heard, refused >>

\* SessionManager::terminate, under the write lock.
Terminate(c) ==
    LET sid == calls[c].sid
    IN  /\ At(c, "act") /\ calls[c].op = "terminate"
        /\ \/ /\ sid \in DOMAIN sessions
              /\ sessions' = Restrict(sessions, DOMAIN sessions \ {sid})
              /\ ended' = With(ended, sid, 1 + IF sid \in DOMAIN ended THEN ended[sid] ELSE 0)
              /\ Answer(c, TRUE) /\ UNCHANGED refused
           \/ /\ sid \notin DOMAIN sessions
              /\ Refuse(c) /\ UNCHANGED << sessions, ended >>
        /\ UNCHANGED << clock, secret, next_id, reaping, created, tokens, heard >>

-----------------------------------------------------------------------------
(* reap_expired, which reads the clock before it waits for the lock; it    *)
(* has no caller here, and one task at a time is taken to call it.         *)

ReapBegins ==
    /\ reaping = {}
    /\ reaping' = {clock}
    /\ UNCHANGED << clock, secret, next_id, sessions, calls, created, tokens, history >>

\* duration_since is 0 for an instant that is later than now.
expired(s, now) == now - s.last_heartbeat >= session_ttl

ReapSweeps(now) ==
    /\ now \in reaping
    /\ reaping' = {}
    /\ sessions' = RestrictValues(sessions, LAMBDA s : ~ expired(s, now))
    /\ UNCHANGED << clock, secret, next_id, calls, created, tokens, history >>

-----------------------------------------------------------------------------
Tick ==
    /\ clock < MaxTime
    /\ clock' = clock + 1
    /\ heard' = RestrictValues(heard, LAMBDA t : clock' - t < session_ttl)
    /\ UNCHANGED << secret, manager, calls, created, tokens, ended, refused >>

\* The server stops, with the handlers under way, and run starts it again.
Restart ==
    /\ secret < MaxRestarts
    /\ secret' = secret + 1
    /\ next_id' = 1 /\ sessions' = << >> /\ reaping' = {}
    /\ calls' = [c \in Calls |-> Idle]
    /\ heard' = << >>
    /\ UNCHANGED << clock, created, tokens, ended, refused >>

Handle(c) ==
    \/ \E valid \in BOOLEAN : Authenticate(c, valid)
    \/ FetchId(c) \/ \E arrives \in BOOLEAN : Insert(c, arrives)
    \/ \E op \in {"heartbeat", "terminate"}, sid \in DOMAIN tokens : Verify(c, op, sid)
    \/ Heartbeat(c) \/ Terminate(c)

Next ==
    \/ \E c \in Calls : Handle(c)
    \/ ReapBegins \/ \E now \in reaping : ReapSweeps(now)
    \/ Tick \/ Restart

Spec == Init /\ [][Next]_vars

\* Handlers are interchangeable.
Symmetry == Permutations(Calls)

-----------------------------------------------------------------------------
\* Sessions of the table share a numeric_id, which packet headers carry, only
\* when the counter has gone round between them, however handlers interleave.
UniqueIds ==
    \A s, t \in DOMAIN sessions :
        s < t /\ sessions[s].numeric_id = sessions[t].numeric_id => t - s >= IdSpace

\* terminate returns true at most once for a session, which then never comes
\* back: no handler that was under way with its token enters it again.
EndedOnce ==
    \A sid \in DOMAIN ended : ended[sid] = 1 /\ sid \notin DOMAIN sessions

\* A client that was answered ok finds its session for session_ttl from the
\* time it sent that request, unless it was terminated or the server restarted,
\* although reap_expired works with an instant of the past.
ClientKeepsSession ==
    \A sid \in DOMAIN heard :
        clock - heard[sid] < session_ttl => sid \in DOMAIN sessions \cup DOMAIN ended

\* A refusal is final: once a request of a session was refused, for its token
\* or for want of the session, no request sent later is answered ok, not even
\* across restarts, so a client that is refused may give the session up.
RefusalIsFinal ==
    \A c \in Calls : At(c, "idle") => ~ calls[c].late
=============================================================================
