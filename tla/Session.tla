------------------------------- MODULE Session -------------------------------
(***************************************************************************)
(* A client's session with its entity, which outlives connections: the      *)
(* server side (lualib/skyext/entity/session.lua, service/entity_agent.lua), *)
(* the gate (service/gate_tcp.lua, gate_ws.lua) and the client side          *)
(* (sdk/ts/src/session.ts, sdk/lua/skyext/client/session.lua).              *)
(*                                                                         *)
(* Packages carry no sequence number.  Both sides count them, and compare   *)
(* their counts only when a session is resumed and in pings; gen and seq of *)
(* a package below are what the sides cannot see.  Operations on the entity *)
(* take turns in its gate (a skynet.queue); a turn that calls the           *)
(* connection's gate waits for the answer, and packages are pushed          *)
(* meanwhile.  Login and resume reach the entity, and are answered, through *)
(* the login service, on another way than the packages of the entity.       *)
(*                                                                         *)
(* A credential is a number, so the credentials are 1..issued, and a        *)
(* session is known by the first one it gave out (gen).                     *)
(***************************************************************************)
EXTENDS Naturals, Sequences, FiniteSets

CONSTANTS
    BufSize,        \* session_replay_packets
    CacheSize,      \* session_respcache_count
    CallsOffline,   \* does the application call while login or resume is under way?
    HandlersThrow,  \* may a handler throw after it has changed the entity?
    MaxConn,        \* bound: connections
    MaxReq,         \* bound: request ids, of calls and pings
    MaxSent         \* bound: packages of a session that are not answers

ASSUME SessionAssumption ==
    /\ BufSize \in Nat /\ CacheSize \in Nat \ {0}
    /\ CallsOffline \in BOOLEAN /\ HandlersThrow \in BOOLEAN
    /\ MaxConn \in Nat /\ MaxReq \in Nat /\ MaxSent \in Nat

VARIABLES
    gate,     \* the gate's g_sessions: is a connection known, and to an entity?
    up,       \* what the client has sent on each connection
    down,     \* what reaches the client on its connection, in order
    reply,    \* answers of the login service on their way there
    notices,  \* session_closed on its way to the entity
    session,  \* entity.session: the connection, and the credential it was installed with
    io,       \* entity.session_io
    queue,    \* operations that wait for their turn
    turn,     \* the operation whose turn it is
    issued,   \* credentials 1..issued have been drawn
    cl,       \* the client
    taken,    \* history: the last package the client took, and were all in order?
    runs,     \* history: how often each request was executed
    used,     \* history: the credentials that a resume was granted for
    mishaps   \* history: what happened that the two sides do not notice

net     == <<gate, up, reply, notices>>
server  == <<session, io, queue, turn, issued>>
history == <<taken, runs, used, mishaps>>
vars    == <<net, down, server, cl, history>>

Conns  == 1 .. MaxConn
Reqs   == 1 .. MaxReq
LoginId == MaxReq + 1  \* stands for the request id of a login

(* A message to the client: a package the server counts, an answer to ping,  *)
(* resume (0: refused) or login, or an error that the login service sends.   *)
Pack(g, k, r)  == [t |-> "pack", gen |-> g, seq |-> k, r |-> r]
Pong(n, r)     == [t |-> "pong", gen |-> 0, seq |-> n, r |-> r]
Stray(r)       == [t |-> "stray", gen |-> 0, seq |-> 0, r |-> r]
Granted(t, id) == [t |-> t, gen |-> id, seq |-> 0, r |-> 0]

Message(t, r, n, id) == [t |-> t, r |-> r, n |-> n, id |-> id]

NoConn == [c |-> 0, id |-> 0]
NoIO   == [gen |-> 0, nonce |-> 0, sent |-> 0, acked |-> 0, out |-> {}, cache |-> <<>>,
           minReq |-> 0, unresumable |-> FALSE, pushed |-> 0]
NoAnswer == [got |-> FALSE, id |-> 0]
NoPing == [r |-> 0, got |-> FALSE, n |-> 0]
NoTurn == [t |-> "none", r |-> 0, n |-> 0, id |-> 0, c |-> 0, pc |-> "none"]
Task(t, c, m) == [t |-> t, r |-> m.r, n |-> m.n, id |-> m.id, c |-> c, pc |-> "none"]

(* The types of what is sent, of operations that wait and that have their    *)
(* turn, of session_io and of the client.                                    *)
Messages == [t : {"req", "ping"}, r : Reqs, n : Nat, id : Nat]
            \cup [t : {"login", "resume"}, r : Nat, n : Nat, id : Nat]
Answer   == [t : {"pack", "pong", "stray", "login", "resume"}, gen : Nat, seq : Nat, r : Nat]
Tasks == [t : {"req", "ping"}, r : Reqs, n : Nat, id : Nat, c : Conns, pc : {"none"}]
         \cup [t : {"login", "resume", "closed"}, r : Nat, n : Nat, id : Nat, c : Conns, pc : {"none"}]
Turns == {NoTurn} \cup [t : {"req"}, r : Reqs, n : Nat, id : Nat, c : Conns, pc : {"handler"}]
         \cup [t : {"login", "resume"}, r : Nat, n : Nat, id : Nat, c : Conns, pc : {"bound"}]
IOs == [gen : Nat, nonce : Nat, sent : Nat, acked : Nat, out : SUBSET Answer, cache : Seq(Reqs),
        minReq : Nat, unresumable : BOOLEAN, pushed : 0 .. MaxSent]
Clients == [conn : 0 .. MaxConn, stage : {"idle", "login", "resume"},
            answer : [got : BOOLEAN, id : Nat], online : BOOLEAN, gen : Nat, nonce : Nat, recv : Nat,
            next : 0 .. MaxReq, pending : SUBSET Reqs,
            ping : [r : 0 .. MaxReq, got : BOOLEAN, n : Nat], opened : 0 .. MaxConn]

Init ==
    /\ gate = [c \in Conns |-> "none"] /\ up = [c \in Conns |-> <<>>]
    /\ down = <<>> /\ reply = <<>> /\ notices = {}
    /\ session = NoConn /\ io = NoIO /\ queue = <<>> /\ turn = NoTurn /\ issued = 0
    /\ cl = [conn |-> 0, stage |-> "idle", answer |-> NoAnswer, online |-> FALSE,
             gen |-> 0, nonce |-> 0, recv |-> 0, next |-> 0, pending |-> {}, ping |-> NoPing, opened |-> 0]
    /\ taken = [gen |-> 0, seq |-> 0, ordered |-> TRUE]
    /\ runs = [r \in Reqs |-> 0] /\ used = {} /\ mishaps = {}

-----------------------------------------------------------------------------
(* The gate *)

Known(c) == gate[c] \in {"open", "bound"}

(* What is sent on a connection that the gate, or the client, has given up   *)
(* is never seen.                                                            *)
ToClient(c, ms) == down' = IF c # 0 /\ c = cl.conn /\ Known(c) THEN down \o ms ELSE down

(* closeclient and the callback that follows, for some of the connections   *)
ClosedGate(S) == [c \in Conns |-> IF c \in S THEN "closed" ELSE gate[c]]
Forgets(S) ==
    /\ up' = [c \in Conns |-> IF c \in S THEN <<>> ELSE up[c]]
    /\ notices' = notices \cup {c \in S : gate[c] = "bound"}

(* A kick of a connection the gate no longer knows is ignored. *)
Kicked(c) == {d \in Conns : d = c /\ Known(d)}
Kick(c) == gate' = ClosedGate(Kicked(c)) /\ Forgets(Kicked(c))

(* The connection breaks, is closed by the client, or is kicked as idle. *)
Disconnect(c) ==
    /\ Known(c) /\ Kick(c)
    /\ UNCHANGED <<reply, down, server, cl, history>>

-----------------------------------------------------------------------------
(* session_io: counting, the replay buffer, and the cache of responses *)

LiveConn == session.c

(* Mutant: acked stays where it was. *)
DropReplayKeepsAcked(s) == [s EXCEPT !.unresumable = TRUE, !.out = {}]

DropReplay(s) == [s EXCEPT !.unresumable = TRUE, !.out = {}, !.acked = s.sent]

Counted(s, r) ==
    LET k == s.sent + 1
        t == [s EXCEPT !.sent = k, !.out = @ \cup {Pack(s.gen, k, r)}]
    IN  IF k - s.acked > BufSize THEN DropReplay(t) ELSE t

(* The turn is a resume that has checked the client's count. *)
Resuming == turn.t = "resume" /\ turn.pc # "none"

(* record_and_send *)
RecordAndSend(s, r) ==
    /\ io' = Counted(s, r)
    /\ ToClient(LiveConn, <<Pack(s.gen, s.sent + 1, r)>>)
    /\ mishaps' = IF Resuming /\ Counted(s, r).unresumable /\ ~s.unresumable
                    THEN mishaps \cup {"overflow"} ELSE mishaps

(* Mutant: everything that was sent is taken for received. *)
AckedAll(s, recv) ==
    IF recv < s.acked \/ recv > s.sent
      THEN [s EXCEPT !.unresumable = TRUE]
      ELSE [s EXCEPT !.acked = s.sent, !.out = {}]

Acked(s, recv) ==
    IF recv < s.acked \/ recv > s.sent
      THEN [s EXCEPT !.unresumable = TRUE]
      ELSE [s EXCEPT !.acked = recv, !.out = {p \in @ : p.seq > recv}]

(* Mutant: an evicted id may be executed again. *)
CachedForgets(s, r) ==
    [s EXCEPT !.cache = IF Len(@) = CacheSize THEN Append(Tail(@), r) ELSE Append(@, r)]

(* cache_response, and evict_oldest_response when the cache is full *)
Cached(s, r) ==
    IF Len(s.cache) = CacheSize
      THEN [s EXCEPT !.cache = Append(Tail(@), r),
                     !.minReq = IF Head(s.cache) >= @ THEN Head(s.cache) + 1 ELSE @]
      ELSE [s EXCEPT !.cache = Append(@, r)]

InCache(r) == \E i \in DOMAIN io.cache : io.cache[i] = r

(* Mutant: off by one. *)
ReplayLate(s) == [i \in 1 .. (s.sent - s.acked - 1) |-> CHOOSE p \in s.out : p.seq = s.acked + i + 1]

(* Everything after acked, in order. *)
Replay(s) == [i \in 1 .. (s.sent - s.acked) |-> CHOOSE p \in s.out : p.seq = s.acked + i]

-----------------------------------------------------------------------------
(* What reaches the entity from the gates *)

Queue(task) == queue' = Append(queue, task)

(* with_request before the entity's gate.  A message of a connection that is *)
(* not installed is dropped, and so is its error: there is nobody to send    *)
(* it to.                                                                    *)
EntityReceives(c, m) ==
    IF LiveConn # c
      THEN UNCHANGED <<down, io, queue, mishaps>>
    ELSE IF m.t = "login" \/ InCache(m.r) \/ m.r < io.minReq
      THEN RecordAndSend(io, m.r) /\ UNCHANGED queue
      ELSE Queue(Task(m.t, c, [m EXCEPT !.id = session.id])) /\ UNCHANGED <<down, io, mishaps>>

(* The login service calls the entity, or answers what it does not know with *)
(* an error that nobody counts.                                              *)
LoginReceives(c, m) ==
    IF m.t \in {"login", "resume"}
      THEN Queue(Task(m.t, c, m)) /\ UNCHANGED <<down, io, mishaps>>
      ELSE /\ ToClient(c, <<IF m.t = "ping" THEN Pong(0, m.r) ELSE Stray(m.r)>>)
           /\ UNCHANGED <<queue, io, mishaps>>

(* handler.message: the owner gets the message, else the login service. *)
GateForwards(c) ==
    /\ Known(c) /\ up[c] # <<>>
    /\ up' = [up EXCEPT ![c] = Tail(@)]
    /\ IF gate[c] = "bound" THEN EntityReceives(c, Head(up[c])) ELSE LoginReceives(c, Head(up[c]))
    /\ UNCHANGED <<gate, reply, notices, session, turn, issued, cl, taken, runs, used>>

(* session_closed.  On another node it may overtake the answer to bind.      *)
NoticeArrives(c) ==
    /\ c \in notices
    /\ notices' = notices \ {c}
    /\ IF LiveConn = c THEN Queue(Task("closed", c, Message("closed", 0, 0, 0))) /\ UNCHANGED mishaps
       ELSE /\ mishaps' = IF turn.c = c /\ turn.pc = "bound" THEN mishaps \cup {"overtaken"} ELSE mishaps
            /\ UNCHANGED queue
    /\ UNCHANGED <<gate, up, reply, down, session, io, turn, issued, cl, taken, runs, used>>

(* push, by a coroutine that does not hold the entity's gate, or on_bind,    *)
(* on_resume and the handlers of requests.                                   *)
Push ==
    /\ io # NoIO /\ io.pushed < MaxSent
    /\ RecordAndSend([io EXCEPT !.pushed = @ + 1], 0)
    /\ UNCHANGED <<net, session, queue, turn, issued, cl, taken, runs, used>>

-----------------------------------------------------------------------------
(* Turns in the entity's gate *)

Next1 == Head(queue)
TakesTurn(t) == turn = NoTurn /\ queue # <<>> /\ Next1.t = t /\ queue' = Tail(queue)

(* g_conns[key] is still the record the request came with. *)
SameConn(task) == session = [c |-> task.c, id |-> task.id]

RequestStarts ==
    /\ TakesTurn("req") /\ SameConn(Next1)
    /\ turn' = [Next1 EXCEPT !.pc = "handler"]
    /\ runs' = [runs EXCEPT ![Next1.r] = @ + 1]
    /\ UNCHANGED <<net, down, session, io, issued, cl, taken, used, mishaps>>

(* "client binding revoked" reaches the client if the connection has been    *)
(* installed again; a ping has no field for an error, and is a kick.         *)
RequestRevoked ==
    /\ TakesTurn("req") \/ TakesTurn("ping")
    /\ ~SameConn(Next1)
    /\ IF LiveConn # Next1.c THEN UNCHANGED <<gate, up, notices, down, io, mishaps>>
       ELSE IF Next1.t = "req" THEN RecordAndSend(io, Next1.r) /\ UNCHANGED <<gate, up, notices>>
       ELSE Kick(Next1.c) /\ UNCHANGED <<down, io, mishaps>>
    /\ UNCHANGED <<reply, session, turn, issued, cl, taken, runs, used>>

RequestReturns ==
    /\ turn.t = "req"
    /\ RecordAndSend(Cached(io, turn.r), turn.r)
    /\ turn' = NoTurn
    /\ UNCHANGED <<net, session, queue, issued, cl, taken, runs, used>>

(* The error is an answer like any other, but is not cached. *)
RequestThrows ==
    /\ HandlersThrow /\ turn.t = "req"
    /\ io' = Counted(io, turn.r)
    /\ ToClient(LiveConn, <<Pack(io.gen, io.sent + 1, turn.r)>>)
    /\ mishaps' = mishaps \cup {"throw"}
    /\ turn' = NoTurn
    /\ UNCHANGED <<net, session, queue, issued, cl, taken, runs, used>>

(* cmds.ping *)
PingTurn ==
    /\ TakesTurn("ping") /\ SameConn(Next1)
    /\ io' = Cached(Acked(io, Next1.n), Next1.r)
    /\ ToClient(LiveConn, <<Pong(io.sent, Next1.r)>>)
    /\ UNCHANGED <<net, session, turn, issued, cl, history>>

(* Mutants: whichever connection has closed, the entity has none; or keeps   *)
(* the one it has.                                                           *)
UnbindAny(c)  == session' = NoConn
UnbindNone(c) == session' = session

Unbind(c) == session' = IF LiveConn = c THEN NoConn ELSE session

ClosedTurn ==
    /\ TakesTurn("closed")
    /\ Unbind(Next1.c)
    /\ UNCHANGED <<net, down, io, turn, issued, cl, history>>

Answers(t, c, id) == reply' = IF c = cl.conn THEN Append(reply, Granted(t, id)) ELSE reply

(* gate_call of bind, and of the kicks before it.  Nothing that happens      *)
(* between the call and the gate makes a difference to either, so the gate   *)
(* acts in the step that calls; its answer takes time.                       *)
CallsBind(task, kicked) ==
    /\ Forgets(kicked)
    /\ IF Known(task.c)
         THEN /\ gate' = [ClosedGate(kicked) EXCEPT ![task.c] = "bound"]
              /\ turn' = [task EXCEPT !.pc = "bound"]
              /\ UNCHANGED reply
         ELSE /\ gate' = ClosedGate(kicked)
              /\ Answers(task.t, task.c, 0)
              /\ UNCHANGED turn

(* resume up to its call of the gate *)
Resumable(task) ==
    io # NoIO /\ ~io.unresumable /\ task.id = io.nonce /\ task.n \in io.acked .. io.sent

ResumeTurn ==
    /\ TakesTurn("resume")
    /\ IF Resumable(Next1)
         THEN CallsBind(Next1, {})
         ELSE Answers("resume", Next1.c, 0) /\ UNCHANGED <<gate, up, notices, turn>>
    /\ UNCHANGED <<down, session, io, issued, cl, history>>

(* bind_session up to its call of the gate: the previous client is unbound   *)
(* and kicked.                                                               *)
LoginTurn ==
    /\ TakesTurn("login")
    /\ IF LiveConn = Next1.c
         THEN CallsBind(Next1, {}) /\ UNCHANGED session
         ELSE CallsBind(Next1, Kicked(LiveConn)) /\ Unbind(LiveConn)
    /\ UNCHANGED <<down, io, issued, cl, history>>

(* Mutant: the credential that was used stays valid.                         *)
RotatedNot(s) == s

Rotated(s) == [s EXCEPT !.nonce = issued + 1]

(* resume after the call of the gate, and replay, which do not yield *)
Resumes ==
    /\ turn.t = "resume" /\ turn.pc = "bound"
    /\ session' = [c |-> turn.c, id |-> issued + 1]
    /\ Kick(IF LiveConn = turn.c THEN 0 ELSE LiveConn)
    /\ issued' = issued + 1
    /\ io' = Rotated(Acked(io, turn.n))
    /\ ToClient(turn.c, Replay(io'))
    /\ Answers("resume", turn.c, io'.nonce)
    /\ used' = IF turn.id \in used THEN used \cup {0} ELSE used \cup {turn.id}
    /\ turn' = NoTurn
    /\ UNCHANGED <<queue, cl, taken, runs, mishaps>>

(* bind after the call of the gate *)
Binds ==
    /\ turn.t = "login" /\ turn.pc = "bound"
    /\ session' = [c |-> turn.c, id |-> issued + 1]
    /\ issued' = issued + 1
    /\ io' = [NoIO EXCEPT !.gen = issued + 1, !.nonce = issued + 1]
    /\ Answers("login", turn.c, issued + 1)
    /\ turn' = NoTurn
    /\ UNCHANGED <<gate, up, notices, down, queue, cl, history>>

(* The entity leaves memory, and the session with it. *)
Unload ==
    /\ turn = NoTurn /\ io # NoIO
    /\ session' = NoConn /\ io' = NoIO
    /\ Kick(LiveConn)
    /\ UNCHANGED <<reply, down, queue, turn, issued, cl, history>>

LoginReplies ==
    /\ reply # <<>>
    /\ ToClient(cl.conn, <<Head(reply)>>)
    /\ reply' = Tail(reply)
    /\ UNCHANGED <<gate, up, notices, server, cl, history>>

-----------------------------------------------------------------------------
(* The client.  A coroutine that got its answer goes on in a step of its     *)
(* own, before anything else happens on the client except that packages that *)
(* were read together with the answer are handled first.                     *)

Settled == ~cl.answer.got /\ ~cl.ping.got

Sends(ms) == up' = IF cl.conn # 0 /\ Known(cl.conn) THEN [up EXCEPT ![cl.conn] = @ \o ms] ELSE up

Login == Message("login", LoginId, 0, 0)
Resume == Message("resume", 0, cl.recv, cl.nonce)

(* establish *)
Connect ==
    /\ cl.stage = "idle" /\ cl.conn = 0 /\ cl.opened < MaxConn
    /\ LET c == cl.opened + 1 IN
       /\ gate' = [gate EXCEPT ![c] = "open"]
       /\ up' = [up EXCEPT ![c] = <<IF cl.nonce # 0 THEN Resume ELSE Login>>]
       /\ cl' = [cl EXCEPT !.conn = c, !.opened = c,
                           !.stage = IF cl.nonce # 0 THEN "resume" ELSE "login"]
    /\ UNCHANGED <<down, reply, notices, server, history>>

(* What waits for an answer on the connection waits in vain. *)
Dropped(s) == [s EXCEPT !.conn = 0, !.online = FALSE, !.ping = NoPing]

(* The connection is lost, does not answer pings, or reconnect is called.    *)
Drop ==
    /\ Settled /\ cl.conn # 0
    /\ cl' = Dropped(cl)
    /\ down' = <<>> /\ reply' = <<>>
    /\ UNCHANGED <<gate, up, notices, server, history>>

(* request without a timeout *)
Call ==
    /\ Settled /\ cl.next < MaxReq
    /\ CallsOffline \/ cl.stage = "idle"
    /\ LET r == cl.next + 1 IN
       /\ cl' = [cl EXCEPT !.next = r, !.pending = @ \cup {r}]
       /\ Sends(<<Message("req", r, 0, 0)>>)
    /\ mishaps' = IF cl.stage # "idle" THEN mishaps \cup {"early call"} ELSE mishaps
    /\ UNCHANGED <<gate, down, reply, notices, server, taken, runs, used>>

Ping ==
    /\ Settled /\ cl.online /\ cl.conn # 0 /\ cl.ping = NoPing /\ cl.next < MaxReq
    /\ LET r == cl.next + 1 IN
       /\ cl' = [cl EXCEPT !.next = r, !.ping = [NoPing EXCEPT !.r = r]]
       /\ Sends(<<Message("ping", r, cl.recv, 0)>>)
    /\ UNCHANGED <<gate, down, reply, notices, server, history>>

(* Mutant: the answer to a ping is counted. *)
UncountedButPong == {"resume", "login"}

(* UNCOUNTED_RESPONSE *)
Uncounted == {"resume", "login", "pong"}

(* The refusal of a login that reached the entity is an answer to a login.   *)
AnswersLogin(m) == m.r = LoginId /\ cl.stage = "login" /\ ~cl.answer.got

Handled(m) ==
    CASE m.t \in {"pack", "stray"} /\ AnswersLogin(m) -> [cl EXCEPT !.answer = [got |-> TRUE, id |-> 0]]
      [] m.t = cl.stage /\ ~cl.answer.got -> [cl EXCEPT !.answer = [got |-> TRUE, id |-> m.gen]]
      [] m.t = "pong" /\ m.r = cl.ping.r -> [cl EXCEPT !.ping.got = TRUE, !.ping.n = m.seq]
      [] OTHER -> [cl EXCEPT !.pending = @ \ {m.r}]

(* A package of a session whose login the client has not seen is lost to its *)
(* count.                                                                    *)
Takes(m) ==
    IF m.t # "pack" THEN UNCHANGED <<taken, mishaps>>
    ELSE /\ taken' = [gen |-> m.gen, seq |-> m.seq,
                      ordered |-> taken.ordered /\ m.seq = (IF taken.gen = m.gen THEN taken.seq ELSE 0) + 1]
         /\ mishaps' = IF m.gen # cl.gen THEN mishaps \cup {"early push"} ELSE mishaps

(* handle *)
Receive ==
    /\ cl.conn # 0 /\ down # <<>>
    /\ LET m == Head(down) IN
       /\ cl' = IF m.t \in Uncounted \/ AnswersLogin(m) THEN Handled(m)
                                                        ELSE [Handled(m) EXCEPT !.recv = @ + 1]
       /\ Takes(m)
    /\ down' = Tail(down)
    /\ UNCHANGED <<net, server, runs, used>>

(* The entries of handshakes are cleared, so that ping is no longer waited   *)
(* for; calls are sent again with their ids.                                 *)
Orders(S) == {s \in [1 .. Cardinality(S) -> S] : \A r \in S : \E i \in DOMAIN s : s[i] = r}

Resend ==
    \E s \in Orders(cl.pending) : Sends([i \in DOMAIN s |-> Message("req", s[i], 0, 0)])

ResumeSucceeds ==
    /\ cl.stage = "resume" /\ cl.answer.id # 0
    /\ cl' = [cl EXCEPT !.stage = "idle", !.answer = NoAnswer, !.nonce = cl.answer.id, !.online = TRUE,
                        !.ping = NoPing]
    /\ Resend
    /\ UNCHANGED <<gate, down, reply, notices, server, history>>

(* Refused, or not answered in time: log in on the same connection, with the *)
(* credential still at hand.                                                 *)
ResumeFails ==
    /\ cl.stage = "resume" /\ cl.answer.id = 0
    /\ cl' = [cl EXCEPT !.stage = "login", !.answer = NoAnswer]
    /\ Sends(<<Login>>)
    /\ UNCHANGED <<gate, down, reply, notices, server, history>>

LoginSucceeds ==
    /\ cl.stage = "login" /\ cl.answer.id # 0
    /\ cl' = [cl EXCEPT !.stage = "idle", !.answer = NoAnswer, !.gen = cl.answer.id, !.nonce = cl.answer.id,
                        !.recv = 0, !.online = TRUE, !.pending = {}, !.ping = NoPing]
    /\ UNCHANGED <<net, down, server, history>>

LoginFails ==
    /\ cl.stage = "login" /\ cl.answer.id = 0
    /\ cl' = [Dropped(cl) EXCEPT !.stage = "idle", !.answer = NoAnswer]
    /\ down' = <<>> /\ reply' = <<>>
    /\ UNCHANGED <<gate, up, notices, server, history>>

(* The only place where the counts are compared. *)
PingAnswered ==
    /\ cl.ping.got
    /\ IF cl.ping.n = cl.recv
         THEN cl' = [cl EXCEPT !.ping = NoPing] /\ UNCHANGED <<down, reply>>
         ELSE cl' = [Dropped(cl) EXCEPT !.nonce = 0] /\ down' = <<>> /\ reply' = <<>>
    /\ UNCHANGED <<gate, up, notices, server, history>>

-----------------------------------------------------------------------------
Entity == \/ Push \/ RequestStarts \/ RequestRevoked \/ RequestReturns \/ RequestThrows \/ PingTurn
          \/ ClosedTurn \/ ResumeTurn \/ LoginTurn \/ Resumes \/ Binds \/ Unload
Client == \/ Connect \/ Drop \/ Call \/ Ping \/ Receive \/ ResumeSucceeds \/ ResumeFails
          \/ LoginSucceeds \/ LoginFails \/ PingAnswered

Next ==
    \/ Entity \/ Client \/ LoginReplies
    \/ \E c \in Conns : GateForwards(c) \/ Disconnect(c) \/ NoticeArrives(c)

Spec == Init /\ [][Next]_vars

-----------------------------------------------------------------------------
TypeOK ==
    /\ gate \in [Conns -> {"none", "open", "bound", "closed"}]
    /\ up \in [Conns -> Seq(Messages)]
    /\ down \in Seq(Answer) /\ reply \in Seq(Answer)
    /\ notices \subseteq Conns
    /\ session \in [c : 0 .. MaxConn, id : Nat]
    /\ io \in IOs /\ io.nonce <= issued
    /\ queue \in Seq(Tasks) /\ turn \in Turns /\ issued \in Nat
    /\ cl \in Clients
    /\ taken \in [gen : Nat, seq : Nat, ordered : BOOLEAN]
    /\ runs \in [Reqs -> Nat] /\ used \subseteq Nat
    /\ mishaps \subseteq {"overflow", "overtaken", "early push", "early call", "throw"}

(* The replay buffer holds exactly what the client has not acknowledged, so  *)
(* a replay has no gap (comment in replay).                                  *)
BufferCovers == {p.seq : p \in io.out} = (io.acked + 1) .. io.sent

(* Nothing is dropped from the buffer that the client has not taken, unless  *)
(* the session is given up for resumption.                                   *)
NothingTrimmedUnseen ==
    \/ io = NoIO \/ io.unresumable \/ io.acked = 0 \/ "early call" \in mishaps
    \/ taken.gen = io.gen /\ io.acked <= taken.seq

(* The client takes the packages of a session one after the other, over all  *)
(* its connections: none is missing, none is there twice.                    *)
InOrder == taken.ordered \/ mishaps \cap {"overflow", "early call", "early push"} # {}

(* Counts agree: what the client reports as received is what it took.        *)
Agree == cl.online /\ cl.stage = "idle" => cl.recv = IF taken.gen = cl.gen THEN taken.seq ELSE 0

CountsAgree == Agree \/ mishaps \cap {"overflow", "early call", "early push"} # {}

(* A request is executed once, however often it is sent. *)
AtMostOnce == (\A r \in Reqs : runs[r] <= 1) \/ mishaps \cap {"early call", "throw"} # {}

(* A credential resumes a session once. *)
CredentialUsedOnce == 0 \notin used

(* A connection that the gate has given up does not stay the entity's: its   *)
(* session_closed is on its way, or waits for its turn.                      *)
NoDeadConn ==
    \/ LiveConn = 0 \/ gate[LiveConn] = "bound" \/ LiveConn \in notices \/ "overtaken" \in mishaps
    \/ \E i \in DOMAIN queue : queue[i].t = "closed" /\ queue[i].c = LiveConn

(* The end of an old connection does not take the new one from the entity. *)
LiveConnKept ==
    cl.stage = "idle" /\ cl.nonce = io.nonce /\ cl.conn # 0 /\ gate[cl.conn] = "bound" => LiveConn = cl.conn

(* Whatever happens while the session is resumed, the client gets what it    *)
(* lacks or is kicked (comment in replay).                                   *)
NoSilentGap == cl.online => taken.ordered \/ mishaps \cap {"early call", "early push"} # {}

(* A request that is sent again is never executed again (comment in          *)
(* with_request).                                                            *)
NeverRerun == \A r \in Reqs : runs[r] <= 1
=============================================================================
