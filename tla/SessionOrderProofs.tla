------------------------- MODULE SessionOrderProofs -------------------------
(***************************************************************************)
(* What reaches the client of Session, for any buffer, cache and bounds:    *)
(* whether packages arrive in order and once over all connections, whether  *)
(* the counts agree, whether anything is trimmed that was not taken,        *)
(* whether the connection that resumed or logged in last stays installed,   *)
(* and whether a request is executed once.                                  *)
(***************************************************************************)
EXTENDS SessionProofs

USE SessionAssumption

-----------------------------------------------------------------------------
(* Sequences *)

LEMMA TailAt ==
    ASSUME NEW S, NEW q \in Seq(S), q # << >>
    PROVE  /\ 1 \in DOMAIN q /\ Head(q) = q[1]
           /\ \A i \in DOMAIN Tail(q) : i \in Nat /\ i + 1 \in DOMAIN q /\ i + 1 # 1 /\ Tail(q)[i] = q[i + 1]
           /\ \A i \in DOMAIN q : i # 1 => i - 1 \in DOMAIN Tail(q) /\ Tail(q)[i - 1] = q[i]
<1>1. DOMAIN q = 1 .. Len(q) /\ Len(q) \in Nat /\ Len(q) # 0
  OBVIOUS
<1>2. DOMAIN Tail(q) = 1 .. (Len(q) - 1) /\ \A i \in 1 .. (Len(q) - 1) : Tail(q)[i] = q[i + 1]
  OBVIOUS
<1>3. Head(q) = q[1]
  OBVIOUS
<1>4. \A i \in 1 .. (Len(q) - 1) : i \in Nat /\ i + 1 \in 1 .. Len(q) /\ i + 1 # 1
  BY <1>1
<1>5. \A i \in 1 .. Len(q) : i # 1 => i - 1 \in 1 .. (Len(q) - 1) /\ (i - 1) + 1 = i
  BY <1>1
<1> QED BY <1>1, <1>2, <1>3, <1>4, <1>5

LEMMA AppendAt ==
    ASSUME NEW S, NEW q \in Seq(S), NEW x \in S
    PROVE  /\ \A i \in DOMAIN Append(q, x) :
                (i \in DOMAIN q /\ Append(q, x)[i] = q[i]) \/ (i = Len(q) + 1 /\ Append(q, x)[i] = x)
           /\ \A i \in DOMAIN q : i \in DOMAIN Append(q, x) /\ Append(q, x)[i] = q[i] /\ i < Len(q) + 1
           /\ Len(q) + 1 \in DOMAIN Append(q, x) /\ Append(q, x)[Len(q) + 1] = x
           /\ Len(q) + 1 \notin DOMAIN q
<1>1. DOMAIN q = 1 .. Len(q) /\ Len(q) \in Nat /\ DOMAIN Append(q, x) = 1 .. (Len(q) + 1)
  OBVIOUS
<1>2. \A i \in 1 .. Len(q) : Append(q, x)[i] = q[i]
  OBVIOUS
<1>3. Append(q, x)[Len(q) + 1] = x
  OBVIOUS
<1>4. \A i \in 1 .. (Len(q) + 1) : i \in 1 .. Len(q) \/ i = Len(q) + 1
  BY <1>1
<1>5. Len(q) + 1 \in 1 .. (Len(q) + 1) /\ Len(q) + 1 \notin 1 .. Len(q)
      /\ \A i \in 1 .. Len(q) : i < Len(q) + 1 /\ i \in 1 .. (Len(q) + 1)
  BY <1>1
<1> QED BY <1>1, <1>2, <1>3, <1>4, <1>5

LEMMA ConcatAt ==
    ASSUME NEW S, NEW q \in Seq(S), NEW s \in Seq(S)
    PROVE  /\ \A i \in DOMAIN (q \o s) :
                \/ i \in DOMAIN q /\ (q \o s)[i] = q[i]
                \/ i \notin DOMAIN q /\ i - Len(q) \in DOMAIN s /\ (q \o s)[i] = s[i - Len(q)]
           /\ \A i \in DOMAIN q : i \in DOMAIN (q \o s) /\ (q \o s)[i] = q[i]
           /\ \A i \in DOMAIN s : Len(q) + i \in DOMAIN (q \o s) /\ (q \o s)[Len(q) + i] = s[i]
           /\ DOMAIN q = 1 .. Len(q) /\ DOMAIN s = 1 .. Len(s) /\ Len(q) \in Nat /\ Len(s) \in Nat
           /\ DOMAIN (q \o s) = 1 .. (Len(q) + Len(s))
<1>1. /\ DOMAIN q = 1 .. Len(q) /\ DOMAIN s = 1 .. Len(s) /\ Len(q) \in Nat /\ Len(s) \in Nat
      /\ DOMAIN (q \o s) = 1 .. (Len(q) + Len(s))
  OBVIOUS
<1>2. \A i \in 1 .. Len(q) : (q \o s)[i] = q[i]
  OBVIOUS
<1>3. \A i \in 1 .. Len(s) : (q \o s)[Len(q) + i] = s[i]
  OBVIOUS
<1>4. \A i \in 1 .. (Len(q) + Len(s)) : i \in 1 .. Len(q) \/ (i \notin 1 .. Len(q) /\ i - Len(q) \in 1 .. Len(s) /\ Len(q) + (i - Len(q)) = i)
  BY <1>1
<1>5. /\ \A i \in 1 .. Len(q) : i \in 1 .. (Len(q) + Len(s))
      /\ \A i \in 1 .. Len(s) : Len(q) + i \in 1 .. (Len(q) + Len(s))
  BY <1>1
<1> QED BY <1>1, <1>2, <1>3, <1>4, <1>5

-----------------------------------------------------------------------------
(* What a step does to what the client has sent, from the connection to the *)
(* queue and from there to the turn: parts of it disappear, the gate        *)
(* forwards a message, a notice arrives, or the client sends.               *)

SameTask(a, b) == a.t = b.t /\ a.r = b.r /\ a.n = b.n /\ a.id = b.id /\ a.c = b.c

Shrinks ==
    /\ \A c \in Conns : up'[c] = up[c] \/ up'[c] = << >>
    /\ \/ queue' = queue /\ (turn' = turn \/ turn' = NoTurn)
       \/ /\ queue # << >> /\ queue' = Tail(queue) /\ turn = NoTurn
          /\ turn' = NoTurn \/ SameTask(turn', Head(queue))

(* The message m of connection c waits as q: a request of a client that is   *)
(* known with the credential of the connection.                             *)
Becomes(m, c, q) ==
    /\ q.t = m.t /\ q.r = m.r /\ q.n = m.n /\ q.c = c
    /\ gate[c] = "bound" => LiveConn = c /\ q.t # "login" /\ q.id = session.id
    /\ gate[c] # "bound" => q.t \in {"login", "resume"} /\ q.id = m.id

Forwards(c) ==
    /\ Known(c) /\ up[c] # << >> /\ up' = [up EXCEPT ![c] = Tail(@)] /\ turn' = turn
    /\ queue' = queue \/ \E q \in Tasks : Becomes(Head(up[c]), c, q) /\ queue' = Append(queue, q)

Notices(c) ==
    /\ up' = up /\ turn' = turn /\ LiveConn = c /\ c \in notices
    /\ \E q \in Tasks : q.t = "closed" /\ q.c = c /\ queue' = Append(queue, q)

(* Connections are closed, and bound for the login or resume whose turn it is. *)
GateMoves ==
    /\ \A c \in Conns : \/ gate'[c] = gate[c]
                        \/ Known(c) /\ gate'[c] = "closed"
                        \/ Known(c) /\ gate'[c] = "bound" /\ turn'.c = c /\ turn'.t \in {"login", "resume"}
                           /\ turn = NoTurn
    /\ turn' = turn \/ turn'.t \in {"none", "req"} \/ gate'[turn'.c] = "bound"
    /\ notices' \subseteq Conns /\ \A c \in notices' : c \in notices \/ gate'[c] = "closed"

Serves ==
    /\ UNCHANGED cl
    /\ Shrinks \/ (\E c \in Conns : Forwards(c)) \/ (\E c \in Conns : Notices(c))
    /\ GateMoves
    /\ \/ session' = session \/ session' = NoConn
       \/ turn.t \in {"login", "resume"} /\ session' = [c |-> turn.c, id |-> issued + 1]

Serving ==
    \/ Entity \/ LoginReplies
    \/ \E c \in Conns : GateForwards(c) \/ Disconnect(c) \/ NoticeArrives(c)

LEMMA Marked ==
    ASSUME NEW q \in Tasks, NEW x
    PROVE  SameTask([q EXCEPT !.pc = x], q)
BY DEF Tasks, SameTask

LEMMA KickMoves ==
    ASSUME TypeOK, NEW c, Kick(c), turn' = turn \/ turn'.t \in {"none", "req"}
    PROVE  GateMoves /\ \A d \in Conns : up'[d] = up[d] \/ up'[d] = << >>
<1> DEFINE K == Kicked(c)
<1>1. K \subseteq Conns /\ \A d \in K : Known(d)
  BY DEF Kicked
<1> HIDE DEF K
<1>2. /\ gate' = [d \in Conns |-> IF d \in K THEN "closed" ELSE gate[d]]
      /\ up' = [d \in Conns |-> IF d \in K THEN << >> ELSE up[d]]
      /\ notices' = notices \cup {d \in K : gate[d] = "bound"}
  BY DEF Kick, Forgets, ClosedGate, K
<1>3. notices \subseteq Conns
  BY DEF TypeOK
<1>4. \A d \in Conns : gate'[d] = gate[d] \/ (Known(d) /\ gate'[d] = "closed")
  BY <1>1, <1>2
<1>5. notices' \subseteq Conns /\ \A d \in notices' : d \in notices \/ gate'[d] = "closed"
  BY <1>1, <1>2, <1>3
<1> QED
  BY <1>2, <1>4, <1>5 DEF GateMoves

LEMMA CallsBindMoves ==
    ASSUME TypeOK, NEW q \in Tasks, q.t \in {"login", "resume"}, turn = NoTurn,
           NEW K \in SUBSET {d \in Conns : Known(d)}, q.c \notin K, CallsBind(q, K)
    PROVE  /\ GateMoves /\ \A d \in Conns : up'[d] = up[d] \/ up'[d] = << >>
           /\ turn' = NoTurn \/ SameTask(turn', q)
<1>1. /\ gate \in [Conns -> {"none", "open", "bound", "closed"}] /\ notices \subseteq Conns /\ q.c \in Conns
  BY TaskFacts DEF TypeOK
<1>2. /\ up' = [d \in Conns |-> IF d \in K THEN << >> ELSE up[d]]
      /\ notices' = notices \cup {d \in K : gate[d] = "bound"}
  BY DEF CallsBind, Forgets
<1>3. notices' \subseteq Conns
  BY <1>1, <1>2
<1>4. CASE Known(q.c)
  <2>1. /\ gate' = [[d \in Conns |-> IF d \in K THEN "closed" ELSE gate[d]] EXCEPT ![q.c] = "bound"]
        /\ turn' = [q EXCEPT !.pc = "bound"]
    BY <1>4 DEF CallsBind, ClosedGate
  <2>2. SameTask(turn', q)
    BY <2>1, Marked
  <2>3. /\ gate'[q.c] = "bound" /\ \A d \in Conns : d # q.c => gate'[d] = IF d \in K THEN "closed" ELSE gate[d]
    BY <1>1, <2>1
  <2>4. \A d \in Conns : \/ gate'[d] = gate[d]
                         \/ Known(d) /\ gate'[d] = "closed"
                         \/ Known(d) /\ gate'[d] = "bound" /\ turn'.c = d /\ turn'.t \in {"login", "resume"}
                            /\ turn = NoTurn
    BY <1>4, <2>2, <2>3 DEF SameTask
  <2>5. \A d \in notices' : d \in notices \/ gate'[d] = "closed"
    BY <1>1, <1>2, <2>3
  <2>6. gate'[turn'.c] = "bound"
    BY <2>2, <2>3 DEF SameTask
  <2> QED
    BY <1>2, <1>3, <2>2, <2>4, <2>5, <2>6 DEF GateMoves
<1>5. CASE ~Known(q.c)
  <2>1. gate' = [d \in Conns |-> IF d \in K THEN "closed" ELSE gate[d]] /\ turn' = turn
    BY <1>5 DEF CallsBind, ClosedGate
  <2>2. \A d \in notices' : d \in notices \/ gate'[d] = "closed"
    BY <1>1, <1>2, <2>1
  <2> QED
    BY <1>2, <1>3, <2>1, <2>2 DEF GateMoves
<1> QED
  BY <1>4, <1>5

LEMMA GateStays ==
    ASSUME TypeOK, UNCHANGED <<gate, notices>>, turn' = turn \/ turn'.t \in {"none", "req"}
    PROVE  GateMoves
BY DEF GateMoves, TypeOK

LEMMA EntityServes == TypeInv /\ Entity => Serves
<1> SUFFICES ASSUME TypeInv, Entity PROVE Serves
  OBVIOUS
<1>0. TypeOK /\ NoTurn.t = "none" /\ turn \in Turns
  BY DEF TypeInv, TypeOK, NoTurn
<1>1. ASSUME NEW t, TakesTurn(t)
      PROVE  /\ queue # << >> /\ queue' = Tail(queue) /\ turn = NoTurn
             /\ Head(queue) \in Tasks /\ Head(queue).t = t /\ Next1 = Head(queue)
             /\ Head(queue).c \in Conns
  BY <1>0, <1>1, TakesFacts, TaskFacts DEF TakesTurn, Next1
<1>2. CASE Push
  BY <1>0, <1>2, GateStays DEF Push, net, Serves, Shrinks
<1>3. CASE RequestStarts
  <2>1. /\ TakesTurn("req") /\ turn' = [Next1 EXCEPT !.pc = "handler"]
        /\ UNCHANGED <<gate, up, notices, session, cl>>
    BY <1>3 DEF RequestStarts, net
  <2>2. SameTask(turn', Head(queue)) /\ turn'.t = "req"
    BY <1>1, <2>1, Marked DEF SameTask
  <2> QED
    BY <1>0, <1>1, <2>1, <2>2, GateStays DEF Serves, Shrinks
<1>4. CASE RequestRevoked
  <2>1. queue # << >> /\ queue' = Tail(queue) /\ turn = NoTurn /\ UNCHANGED <<turn, session, cl>>
    BY <1>1, <1>4 DEF RequestRevoked
  <2>2. CASE UNCHANGED <<gate, up, notices>>
    BY <1>0, <2>1, <2>2, GateStays DEF Serves, Shrinks
  <2>3. CASE Kick(Next1.c)
    BY <1>0, <2>1, <2>3, KickMoves DEF Serves, Shrinks
  <2> QED
    BY <1>4, <2>2, <2>3 DEF RequestRevoked
<1>5. CASE RequestReturns \/ RequestThrows
  <2>1. turn' = NoTurn /\ UNCHANGED <<gate, up, notices, session, queue, cl>>
    BY <1>5 DEF RequestReturns, RequestThrows, net
  <2> QED
    BY <1>0, <2>1, GateStays DEF Serves, Shrinks
<1>6. CASE PingTurn \/ ClosedTurn
  <2>1. queue # << >> /\ queue' = Tail(queue) /\ turn = NoTurn /\ UNCHANGED <<gate, up, notices, turn, cl>>
    BY <1>1, <1>6 DEF PingTurn, ClosedTurn, net
  <2>2. session' = session \/ session' = NoConn
    BY <1>6 DEF PingTurn, ClosedTurn, Unbind
  <2> QED
    BY <1>0, <2>1, <2>2, GateStays DEF Serves, Shrinks
<1>7. CASE ResumeTurn
  <2>1. /\ queue # << >> /\ queue' = Tail(queue) /\ turn = NoTurn /\ UNCHANGED <<session, cl>>
        /\ Head(queue) \in Tasks /\ Head(queue).t = "resume" /\ Next1 = Head(queue)
    BY <1>1, <1>7 DEF ResumeTurn
  <2>2. CASE CallsBind(Next1, {})
    BY <1>0, <2>1, <2>2, CallsBindMoves DEF Serves, Shrinks
  <2>3. CASE UNCHANGED <<gate, up, notices, turn>>
    BY <1>0, <2>1, <2>3, GateStays DEF Serves, Shrinks
  <2> QED
    BY <1>7, <2>2, <2>3 DEF ResumeTurn
<1>8. CASE LoginTurn
  <2>1. /\ queue # << >> /\ queue' = Tail(queue) /\ turn = NoTurn /\ UNCHANGED cl
        /\ Head(queue) \in Tasks /\ Head(queue).t = "login" /\ Next1 = Head(queue)
        /\ session' = session \/ session' = NoConn
    BY <1>1, <1>8 DEF LoginTurn, Unbind
  <2>2. PICK K \in SUBSET {d \in Conns : Known(d)} : Next1.c \notin K /\ CallsBind(Next1, K)
    <3>1. CASE LiveConn = Next1.c
      <4>1. CallsBind(Next1, {})
        BY <1>8, <3>1 DEF LoginTurn
      <4> QED BY <4>1
    <3>2. CASE LiveConn # Next1.c
      <4>1. CallsBind(Next1, Kicked(LiveConn))
        BY <1>8, <3>2 DEF LoginTurn
      <4>2. Next1.c \notin Kicked(LiveConn) /\ Kicked(LiveConn) \in SUBSET {d \in Conns : Known(d)}
        BY <3>2 DEF Kicked
      <4> QED BY <4>1, <4>2
    <3> QED BY <3>1, <3>2
  <2>3. /\ GateMoves /\ \A d \in Conns : up'[d] = up[d] \/ up'[d] = << >>
        /\ turn' = NoTurn \/ SameTask(turn', Head(queue))
    BY <1>0, <2>1, <2>2, CallsBindMoves
  <2> QED
    BY <2>1, <2>3 DEF Serves, Shrinks
<1>9. CASE Resumes
  <2> DEFINE c == IF LiveConn = turn.c THEN 0 ELSE LiveConn
  <2>1. /\ Kick(c) /\ turn' = NoTurn /\ UNCHANGED <<queue, cl>> /\ turn.t = "resume"
        /\ session' = [c |-> turn.c, id |-> issued + 1]
    BY <1>9 DEF Resumes
  <2> HIDE DEF c
  <2> QED
    BY <1>0, <2>1, KickMoves DEF Serves, Shrinks
<1>10. CASE Binds
  <2>1. /\ turn' = NoTurn /\ turn.t = "login" /\ UNCHANGED <<gate, up, notices, queue, cl>>
        /\ session' = [c |-> turn.c, id |-> issued + 1]
    BY <1>10 DEF Binds
  <2> QED
    BY <1>0, <2>1, GateStays DEF Serves, Shrinks
<1>11. CASE Unload
  <2>1. Kick(LiveConn) /\ session' = NoConn /\ UNCHANGED <<queue, turn, cl>>
    BY <1>11 DEF Unload
  <2> QED
    BY <1>0, <2>1, KickMoves DEF Serves, Shrinks
<1> QED
  BY <1>2, <1>3, <1>4, <1>5, <1>6, <1>7, <1>8, <1>9, <1>10, <1>11 DEF Entity

LEMMA ForwardServes == ASSUME TypeInv, NEW c \in Conns, GateForwards(c) PROVE Serves /\ Forwards(c)
<1> DEFINE m == Head(up[c])
<1>1. TypeOK /\ up[c] \in Seq(Messages) /\ up[c] # << >> /\ session.id \in Nat /\ Known(c)
  BY DEF TypeInv, TypeOK, GateForwards
<1>2. m \in Messages /\ m.t \in {"req", "ping", "login", "resume"}
  BY <1>1, Taken1, MessageFacts
<1> HIDE DEF m
<1>3. /\ up' = [up EXCEPT ![c] = Tail(@)] /\ UNCHANGED <<gate, notices, session, turn, cl>>
      /\ IF gate[c] = "bound" THEN EntityReceives(c, m) ELSE LoginReceives(c, m)
  BY DEF GateForwards, m
<1>4. queue' = queue \/ \E q \in Tasks : Becomes(m, c, q) /\ queue' = Append(queue, q)
  <2>1. CASE gate[c] = "bound" /\ queue' # queue
    <3> DEFINE k == [m EXCEPT !.id = session.id]
               q == Task(m.t, c, k)
    <3>1. LiveConn = c /\ m.t # "login" /\ queue' = Append(queue, q)
      BY <1>3, <2>1 DEF EntityReceives, Queue
    <3>2. q \in Tasks
      BY <1>1, <1>2, TaskOf
    <3>3. k.r = m.r /\ k.n = m.n /\ k.id = session.id
      BY <1>2 DEF Messages
    <3>4. q.t = m.t /\ q.r = m.r /\ q.n = m.n /\ q.c = c /\ q.id = session.id
      BY <3>3 DEF Task
    <3> HIDE DEF k, q
    <3> QED
      BY <2>1, <3>1, <3>2, <3>4 DEF Becomes
  <2>2. CASE gate[c] # "bound" /\ queue' # queue
    <3> DEFINE q == Task(m.t, c, m)
    <3>1. m.t \in {"login", "resume"} /\ queue' = Append(queue, q)
      BY <1>3, <2>2 DEF LoginReceives, Queue
    <3>2. q \in Tasks
      BY <1>1, <1>2, TaskOf
    <3>3. q.t = m.t /\ q.r = m.r /\ q.n = m.n /\ q.c = c /\ q.id = m.id
      BY DEF Task
    <3> HIDE DEF q
    <3> QED
      BY <2>2, <3>1, <3>2, <3>3 DEF Becomes
  <2> QED
    BY <2>1, <2>2
<1>5. Forwards(c)
  BY <1>1, <1>3, <1>4 DEF Forwards, m
<1>6. GateMoves
  BY <1>1, <1>3, GateStays
<1> QED
  BY <1>3, <1>5, <1>6 DEF Serves

LEMMA ServingServes == TypeInv /\ Serving => Serves
<1> SUFFICES ASSUME TypeInv, Serving PROVE Serves
  OBVIOUS
<1>0. TypeOK
  BY DEF TypeInv
<1>1. CASE LoginReplies
  <2>1. UNCHANGED <<gate, up, notices, session, queue, turn, cl>>
    BY <1>1 DEF LoginReplies, server
  <2> QED
    BY <1>0, <2>1, GateStays DEF Serves, Shrinks
<1>2. ASSUME NEW c \in Conns, Disconnect(c) PROVE Serves
  <2>1. Kick(c) /\ UNCHANGED <<session, queue, turn, cl>>
    BY <1>2 DEF Disconnect, server
  <2> QED
    BY <1>0, <2>1, KickMoves DEF Serves, Shrinks
<1>3. ASSUME NEW c \in Conns, NoticeArrives(c) PROVE Serves
  <2>1. notices' = notices \ {c} /\ c \in notices /\ UNCHANGED <<gate, up, session, turn, cl>>
    BY <1>3 DEF NoticeArrives
  <2>2. GateMoves
    BY <1>0, <2>1 DEF GateMoves, TypeOK
  <2> DEFINE q == Task("closed", c, Message("closed", 0, 0, 0))
  <2>3. q \in Tasks /\ q.t = "closed" /\ q.c = c
    BY DEF Task, Message, Tasks
  <2>4. queue' = queue \/ (LiveConn = c /\ queue' = Append(queue, q))
    BY <1>3 DEF NoticeArrives, Queue
  <2> HIDE DEF q
  <2>5. Shrinks \/ Notices(c)
    BY <2>1, <2>3, <2>4 DEF Shrinks, Notices
  <2> QED
    BY <2>1, <2>2, <2>5 DEF Serves
<1> QED
  BY <1>1, <1>2, <1>3, EntityServes, ForwardServes DEF Serving

-----------------------------------------------------------------------------
(* What the client's steps do to the client. *)

LEMMA ConnectFields ==
    TypeOK /\ Connect =>
        /\ cl.conn = 0 /\ cl.stage = "idle" /\ cl'.conn = cl.opened + 1 /\ cl'.opened = cl.opened + 1
        /\ cl'.stage = (IF cl.nonce # 0 THEN "resume" ELSE "login") /\ cl.opened + 1 \in Conns
        /\ cl'.answer = cl.answer /\ cl'.online = cl.online /\ cl'.gen = cl.gen /\ cl'.nonce = cl.nonce
        /\ cl'.recv = cl.recv /\ cl'.next = cl.next /\ cl'.pending = cl.pending /\ cl'.ping = cl.ping
<1> SUFFICES ASSUME TypeOK, Connect
             PROVE  /\ cl.conn = 0 /\ cl.stage = "idle" /\ cl'.conn = cl.opened + 1 /\ cl'.opened = cl.opened + 1
                    /\ cl'.stage = (IF cl.nonce # 0 THEN "resume" ELSE "login") /\ cl.opened + 1 \in Conns
                    /\ cl'.answer = cl.answer /\ cl'.online = cl.online /\ cl'.gen = cl.gen /\ cl'.nonce = cl.nonce
                    /\ cl'.recv = cl.recv /\ cl'.next = cl.next /\ cl'.pending = cl.pending /\ cl'.ping = cl.ping
  OBVIOUS
<1>1. cl \in Clients /\ cl.opened \in 0 .. MaxConn /\ cl.opened < MaxConn
  BY ClientFacts DEF Connect
<1>2. cl.opened + 1 \in Conns
  BY <1>1 DEF Conns
<1> QED
  BY <1>1, <1>2 DEF Connect, Clients

(* A connection is given up: Drop, LoginFails, or a ping whose count differs. *)
GivesUp ==
    /\ cl'.conn = 0 /\ cl'.online = FALSE /\ cl'.ping = NoPing /\ down' = << >> /\ reply' = << >>
    /\ cl'.gen = cl.gen /\ cl'.recv = cl.recv /\ cl'.next = cl.next /\ cl'.pending = cl.pending
    /\ cl'.opened = cl.opened /\ UNCHANGED <<gate, up, notices, server, history>>
    /\ \/ cl'.nonce = cl.nonce /\ cl'.answer = cl.answer /\ cl'.stage = cl.stage /\ ~cl.answer.got
       \/ cl'.nonce = cl.nonce /\ cl'.answer = NoAnswer /\ cl'.stage = "idle"
       \/ cl'.nonce = 0 /\ cl'.answer = cl.answer /\ cl'.stage = cl.stage /\ cl.ping.got

LEMMA GivesUpFields ==
    TypeOK /\ (Drop \/ LoginFails \/ (PingAnswered /\ cl.ping.n # cl.recv)) => GivesUp
<1> SUFFICES ASSUME TypeOK, Drop \/ LoginFails \/ (PingAnswered /\ cl.ping.n # cl.recv) PROVE GivesUp
  OBVIOUS
<1>1. cl \in Clients
  BY ClientFacts
<1> DEFINE d == Dropped(cl)
<1>2. d \in Clients /\ d = [cl EXCEPT !.conn = 0, !.online = FALSE, !.ping = NoPing]
  BY DroppedType DEF Dropped
<1>3. /\ d.conn = 0 /\ d.online = FALSE /\ d.ping = NoPing /\ d.gen = cl.gen /\ d.recv = cl.recv
      /\ d.next = cl.next /\ d.pending = cl.pending /\ d.opened = cl.opened /\ d.nonce = cl.nonce
      /\ d.answer = cl.answer /\ d.stage = cl.stage
  BY <1>1, <1>2 DEF Clients
<1> HIDE DEF d
<1>4. CASE Drop
  BY <1>3, <1>4 DEF Drop, GivesUp, Settled, d
<1>5. CASE LoginFails
  <2>1. /\ cl' = [d EXCEPT !.stage = "idle", !.answer = NoAnswer]
        /\ down' = << >> /\ reply' = << >> /\ UNCHANGED <<gate, up, notices, server, history>>
    BY <1>5 DEF LoginFails, d
  <2> QED
    BY <1>2, <1>3, <2>1 DEF GivesUp, Clients
<1>6. CASE PingAnswered /\ cl.ping.n # cl.recv
  <2>1. /\ cl' = [d EXCEPT !.nonce = 0] /\ cl.ping.got
        /\ down' = << >> /\ reply' = << >> /\ UNCHANGED <<gate, up, notices, server, history>>
    BY <1>6 DEF PingAnswered, d
  <2> QED
    BY <1>2, <1>3, <2>1 DEF GivesUp, Clients
<1> QED
  BY <1>4, <1>5, <1>6

(* What the connection is used for does not change. *)
SameLink ==
    /\ cl'.conn = cl.conn /\ cl'.opened = cl.opened /\ cl'.stage = cl.stage /\ cl'.online = cl.online
    /\ cl'.gen = cl.gen /\ cl'.nonce = cl.nonce

LEMMA CallFields ==
    TypeOK /\ Call => /\ SameLink /\ cl'.answer = cl.answer /\ cl'.recv = cl.recv /\ cl'.ping = cl.ping
                      /\ cl'.next = cl.next + 1 /\ cl.next + 1 \in Reqs
                      /\ cl'.pending = cl.pending \cup {cl.next + 1}
                      /\ <<Message("req", cl.next + 1, 0, 0)>> \in Seq(Messages)
<1> SUFFICES ASSUME TypeOK, Call
             PROVE  /\ SameLink /\ cl'.answer = cl.answer /\ cl'.recv = cl.recv /\ cl'.ping = cl.ping
                    /\ cl'.next = cl.next + 1 /\ cl.next + 1 \in Reqs
                    /\ cl'.pending = cl.pending \cup {cl.next + 1}
                    /\ <<Message("req", cl.next + 1, 0, 0)>> \in Seq(Messages)
  OBVIOUS
<1>1. cl \in Clients /\ cl.next \in 0 .. MaxReq /\ cl.next < MaxReq
  BY ClientFacts DEF Call
<1>2. cl.next + 1 \in Reqs
  BY <1>1 DEF Reqs
<1>3. Message("req", cl.next + 1, 0, 0) \in Messages
  BY <1>2 DEF Message, Messages
<1>4. <<Message("req", cl.next + 1, 0, 0)>> \in Seq(Messages)
  BY <1>3
<1> QED
  BY <1>1, <1>2, <1>4 DEF Call, SameLink, Clients

LEMMA PingFields ==
    TypeOK /\ Ping => /\ SameLink /\ cl'.answer = cl.answer /\ cl'.recv = cl.recv
                      /\ cl'.next = cl.next + 1 /\ cl.next + 1 \in Reqs /\ cl'.pending = cl.pending
                      /\ cl'.ping = [NoPing EXCEPT !.r = cl.next + 1]
                      /\ <<Message("ping", cl.next + 1, cl.recv, 0)>> \in Seq(Messages)
<1> SUFFICES ASSUME TypeOK, Ping
             PROVE  /\ SameLink /\ cl'.answer = cl.answer /\ cl'.recv = cl.recv
                    /\ cl'.next = cl.next + 1 /\ cl.next + 1 \in Reqs /\ cl'.pending = cl.pending
                    /\ cl'.ping = [NoPing EXCEPT !.r = cl.next + 1]
                    /\ <<Message("ping", cl.next + 1, cl.recv, 0)>> \in Seq(Messages)
  OBVIOUS
<1>1. cl \in Clients /\ cl.next \in 0 .. MaxReq /\ cl.next < MaxReq /\ cl.recv \in Nat
  BY ClientFacts DEF Ping
<1>2. cl.next + 1 \in Reqs
  BY <1>1 DEF Reqs
<1>3. Message("ping", cl.next + 1, cl.recv, 0) \in Messages
  BY <1>1, <1>2 DEF Message, Messages
<1>4. <<Message("ping", cl.next + 1, cl.recv, 0)>> \in Seq(Messages)
  BY <1>3
<1> QED
  BY <1>1, <1>2, <1>4 DEF Ping, SameLink, Clients

(* The package is counted. *)
Counts(m) == ~(m.t \in Uncounted \/ AnswersLogin(m))

ReceiveOf(m) ==
    /\ m \in Answer /\ down # << >> /\ m = Head(down) /\ down' = Tail(down) /\ cl.conn # 0 /\ SameLink
    /\ Takes(m) /\ UNCHANGED <<net, server, runs, used>>
    /\ cl'.recv = (IF Counts(m) THEN cl.recv + 1 ELSE cl.recv)
    /\ cl'.next = cl.next /\ cl'.pending \subseteq cl.pending
    /\ \/ cl'.answer = cl.answer
       \/ ~cl.answer.got /\ cl.stage = "login" /\ m.t # cl.stage /\ cl'.answer = [got |-> TRUE, id |-> 0]
       \/ ~cl.answer.got /\ m.t = cl.stage /\ cl'.answer = [got |-> TRUE, id |-> m.gen]
    /\ cl'.ping = cl.ping \/ (m.t = "pong" /\ m.r = cl.ping.r /\ cl'.ping.r = cl.ping.r)

LEMMA ReceiveFields == TypeOK /\ Receive => ReceiveOf(Head(down))
<1> SUFFICES ASSUME TypeOK, Receive PROVE ReceiveOf(Head(down))
  OBVIOUS
<1> DEFINE m == Head(down)
           h == Handled(m)
<1>1. cl \in Clients /\ m \in Answer /\ h \in Clients /\ cl.recv \in Nat
  <2>1. down \in Seq(Answer) /\ down # << >>
    BY DEF Receive, TypeOK
  <2>2. m \in Answer
    BY <2>1, Taken1
  <2> QED
    BY <2>2, HandledType, ClientFacts
<1>2. /\ h.conn = cl.conn /\ h.opened = cl.opened /\ h.stage = cl.stage /\ h.online = cl.online
      /\ h.gen = cl.gen /\ h.nonce = cl.nonce /\ h.recv = cl.recv /\ h.next = cl.next
      /\ h.pending \subseteq cl.pending
      /\ \/ h.answer = cl.answer
         \/ ~cl.answer.got /\ cl.stage = "login" /\ m.t # cl.stage /\ h.answer = [got |-> TRUE, id |-> 0]
         \/ ~cl.answer.got /\ m.t = cl.stage /\ h.answer = [got |-> TRUE, id |-> m.gen]
      /\ h.ping = cl.ping \/ (m.t = "pong" /\ m.r = cl.ping.r /\ h.ping.r = cl.ping.r)
  <2> HIDE DEF m
  <2>1. CASE m.t \in {"pack", "stray"} /\ AnswersLogin(m)
    <3>2. cl.stage = "login" /\ ~cl.answer.got /\ m.t # cl.stage /\ m.t # "pong"
      BY <2>1 DEF AnswersLogin
    <3>1. h = [cl EXCEPT !.answer = [got |-> TRUE, id |-> 0]]
      BY <2>1, <3>2 DEF Handled
    <3> QED
      BY <1>1, <3>1, <3>2 DEF Clients
  <2>2. CASE ~(m.t \in {"pack", "stray"} /\ AnswersLogin(m)) /\ m.t = cl.stage /\ ~cl.answer.got
    <3>0. m.t # "pong"
      BY <1>1, <2>2 DEF Clients
    <3>1. h = [cl EXCEPT !.answer = [got |-> TRUE, id |-> m.gen]]
      BY <2>2, <3>0 DEF Handled
    <3> QED
      BY <1>1, <2>2, <3>1 DEF Clients
  <2>3. CASE /\ ~(m.t \in {"pack", "stray"} /\ AnswersLogin(m)) /\ ~(m.t = cl.stage /\ ~cl.answer.got)
             /\ m.t = "pong" /\ m.r = cl.ping.r
    <3>1. h = [cl EXCEPT !.ping.got = TRUE, !.ping.n = m.seq]
      BY <2>3 DEF Handled
    <3>2. /\ h.conn = cl.conn /\ h.opened = cl.opened /\ h.stage = cl.stage /\ h.online = cl.online
          /\ h.gen = cl.gen /\ h.nonce = cl.nonce /\ h.recv = cl.recv /\ h.next = cl.next
          /\ h.pending = cl.pending /\ h.answer = cl.answer
      BY <1>1, <3>1 DEF Clients
    <3>3. h.ping.r = cl.ping.r
      <4> DEFINE p == cl.ping
      <4>1. p \in [r : 0 .. MaxReq, got : BOOLEAN, n : Nat]
        BY <1>1 DEF Clients
      <4>2. h.ping = [[p EXCEPT !.got = TRUE] EXCEPT !.n = m.seq]
        BY <1>1, <3>1 DEF Clients
      <4> HIDE DEF p
      <4>3. h.ping.r = p.r
        BY <4>1, <4>2
      <4> QED BY <4>3 DEF p
    <3> QED
      BY <2>3, <3>2, <3>3
  <2>4. CASE /\ ~(m.t \in {"pack", "stray"} /\ AnswersLogin(m)) /\ ~(m.t = cl.stage /\ ~cl.answer.got)
             /\ ~(m.t = "pong" /\ m.r = cl.ping.r)
    <3>1. h = [cl EXCEPT !.pending = @ \ {m.r}]
      BY <2>4 DEF Handled
    <3> QED
      BY <1>1, <3>1 DEF Clients
  <2> QED
    BY <2>1, <2>2, <2>3, <2>4
<1> HIDE DEF h
<1>3. /\ cl' = IF Counts(m) THEN [h EXCEPT !.recv = @ + 1] ELSE h
      /\ Takes(m) /\ UNCHANGED <<net, server, runs, used>> /\ down' = Tail(down) /\ cl.conn # 0 /\ down # << >>
  BY DEF Receive, Counts, h
<1> HIDE DEF m
<1>4. CASE Counts(m)
  <2>1. cl' = [h EXCEPT !.recv = @ + 1]
    BY <1>3, <1>4
  <2>2. /\ cl'.conn = h.conn /\ cl'.opened = h.opened /\ cl'.stage = h.stage /\ cl'.online = h.online
        /\ cl'.gen = h.gen /\ cl'.nonce = h.nonce /\ cl'.recv = h.recv + 1 /\ cl'.next = h.next
        /\ cl'.pending = h.pending /\ cl'.answer = h.answer /\ cl'.ping = h.ping
    BY <1>1, <2>1 DEF Clients
  <2> QED
    BY <1>1, <1>2, <1>3, <1>4, <2>2 DEF ReceiveOf, SameLink, m
<1>5. CASE ~Counts(m)
  <2>1. cl' = h
    BY <1>3, <1>5
  <2> QED
    BY <1>1, <1>2, <1>3, <1>5, <2>1 DEF ReceiveOf, SameLink, m
<1> QED
  BY <1>4, <1>5

LEMMA ResumeSucceedsFields ==
    TypeOK /\ ResumeSucceeds =>
        /\ cl.stage = "resume" /\ cl.answer.id # 0 /\ cl'.stage = "idle" /\ cl'.answer = NoAnswer
        /\ cl'.nonce = cl.answer.id /\ cl'.online = TRUE /\ cl'.ping = NoPing
        /\ cl'.conn = cl.conn /\ cl'.opened = cl.opened /\ cl'.gen = cl.gen /\ cl'.recv = cl.recv
        /\ cl'.next = cl.next /\ cl'.pending = cl.pending
BY ClientFacts DEF ResumeSucceeds, Clients

LEMMA ResumeFailsFields ==
    TypeOK /\ ResumeFails =>
        /\ cl.stage = "resume" /\ cl.answer.id = 0 /\ cl'.stage = "login" /\ cl'.answer = NoAnswer
        /\ cl'.nonce = cl.nonce /\ cl'.online = cl.online /\ cl'.ping = cl.ping
        /\ cl'.conn = cl.conn /\ cl'.opened = cl.opened /\ cl'.gen = cl.gen /\ cl'.recv = cl.recv
        /\ cl'.next = cl.next /\ cl'.pending = cl.pending
BY ClientFacts DEF ResumeFails, Clients

LEMMA LoginSucceedsFields ==
    TypeOK /\ LoginSucceeds =>
        /\ cl.stage = "login" /\ cl.answer.id # 0 /\ cl'.stage = "idle" /\ cl'.answer = NoAnswer
        /\ cl'.gen = cl.answer.id /\ cl'.nonce = cl.answer.id /\ cl'.online = TRUE /\ cl'.ping = NoPing
        /\ cl'.recv = 0 /\ cl'.pending = {} /\ cl'.next = cl.next
        /\ cl'.conn = cl.conn /\ cl'.opened = cl.opened
BY ClientFacts DEF LoginSucceeds, Clients

LEMMA PingAnsweredFields ==
    TypeOK /\ PingAnswered /\ cl.ping.n = cl.recv =>
        /\ SameLink /\ cl'.ping = NoPing /\ cl'.answer = cl.answer /\ cl'.recv = cl.recv
        /\ cl'.next = cl.next /\ cl'.pending = cl.pending
        /\ UNCHANGED <<net, down, server, history>>
BY ClientFacts DEF PingAnswered, Clients, SameLink, net

-----------------------------------------------------------------------------
(* Connections, and what the client makes of them. *)

ClientForm ==
    /\ cl.conn \in {0, cl.opened}
    /\ cl.online <=> cl.conn # 0 /\ cl.stage = "idle"
    /\ cl.answer.id # 0 => cl.answer.got
    /\ cl.answer.got => cl.conn # 0 /\ cl.stage # "idle"
    /\ cl.ping.got => cl.ping.r # 0
    /\ cl.ping.r # 0 => cl.online
    /\ cl.online => cl.nonce # 0
    /\ cl.conn = 0 => down = << >> /\ reply = << >>
    /\ \A i \in DOMAIN down : down[i].t = "pong" => down[i].r # 0
    /\ \A i \in DOMAIN reply : reply[i].t \in {"resume", "login"}

(* The buffer holds packages of the session. *)
OutForm == \A p \in io.out : p.t = "pack" /\ p.gen = io.gen

(* Nothing of a connection that was not opened is anywhere. *)
Opened ==
    /\ LiveConn <= cl.opened /\ turn.c <= cl.opened
    /\ \A i \in DOMAIN queue : queue[i].c <= cl.opened
    /\ \A c \in Conns : c > cl.opened => gate[c] = "none" /\ up[c] = << >>

(* What the entity was told of was bound; what it is told to be closed is.   *)
Gates ==
    /\ LiveConn # 0 => gate[LiveConn] \in {"bound", "closed"}
    /\ turn.t \in {"login", "resume"} => gate[turn.c] \in {"bound", "closed"}
    /\ cl.conn # 0 => gate[cl.conn] # "none"
    /\ \A c \in notices : gate[c] = "closed"
    /\ \A i \in DOMAIN queue : queue[i].t = "closed" => gate[queue[i].c] = "closed"

(* The entity has heard nothing of connection c. *)
Quiet(c) == LiveConn # c /\ turn.c # c /\ \A i \in DOMAIN queue : queue[i].c # c

(* A resume is the first that is sent on its connection. *)
First(c) == \A i \in DOMAIN up[c] : up[c][i].t = "resume" => i = 1 /\ gate[c] # "bound" /\ Quiet(c)

ShapeInv == ClientForm /\ OutForm /\ Opened /\ Gates /\ \A c \in Conns : First(c)

LEMMA ShapeTypes ==
    ASSUME TypeOK
    PROVE  /\ queue \in Seq(Tasks) /\ turn \in Turns /\ cl.opened \in Nat /\ cl.conn \in Nat /\ LiveConn \in Nat
           /\ LiveConn \in 0 .. MaxConn /\ cl.conn \in 0 .. MaxConn
           /\ \A c \in Conns : up[c] \in Seq(Messages) /\ c \in Nat /\ c # 0
           /\ up \in [Conns -> Seq(Messages)] /\ gate \in [Conns -> {"none", "open", "bound", "closed"}]
           /\ notices \subseteq Conns /\ down \in Seq(Answer) /\ reply \in Seq(Answer)
           /\ turn.c \in Nat /\ (turn.t # "none" => turn.c \in Conns) /\ turn.t \in {"none", "req", "login", "resume"}
           /\ \A i \in DOMAIN queue : queue[i] \in Tasks /\ queue[i].c \in Conns
           /\ (LiveConn # 0 => LiveConn \in Conns) /\ (cl.conn # 0 => cl.conn \in Conns)
<1>1. /\ queue \in Seq(Tasks) /\ turn \in Turns /\ LiveConn \in 0 .. MaxConn /\ cl.conn \in 0 .. MaxConn
      /\ cl.opened \in 0 .. MaxConn
      /\ up \in [Conns -> Seq(Messages)] /\ gate \in [Conns -> {"none", "open", "bound", "closed"}]
      /\ notices \subseteq Conns /\ down \in Seq(Answer) /\ reply \in Seq(Answer)
  BY ClientFacts DEF TypeOK, LiveConn
<1>2. \A i \in DOMAIN queue : queue[i] \in Tasks
  BY <1>1
<1>3. \A i \in DOMAIN queue : queue[i].c \in Conns
  BY <1>2, TaskFacts
<1>4. turn.c \in Nat /\ (turn.t # "none" => turn.c \in Conns) /\ turn.t \in {"none", "req", "login", "resume"}
  <2>1. CASE turn = NoTurn
    BY <2>1 DEF NoTurn
  <2>2. CASE turn # NoTurn
    BY <1>1, <2>2, TurnFacts, ConnsFacts
  <2> QED BY <2>1, <2>2
<1>5. MaxConn \in Nat
  OBVIOUS
<1>6. cl.opened \in Nat /\ cl.conn \in Nat /\ LiveConn \in Nat
  <2> DEFINE a == cl.opened
             b == cl.conn
             d == LiveConn
  <2>1. a \in 0 .. MaxConn /\ b \in 0 .. MaxConn /\ d \in 0 .. MaxConn
    BY <1>1
  <2> HIDE DEF a, b, d
  <2>2. a \in Nat /\ b \in Nat /\ d \in Nat
    BY <1>5, <2>1
  <2> QED BY <2>2 DEF a, b, d
<1>7. (LiveConn # 0 => LiveConn \in Conns) /\ (cl.conn # 0 => cl.conn \in Conns)
  BY <1>1, <1>6 DEF Conns
<1>8. \A c \in Conns : up[c] \in Seq(Messages) /\ c \in Nat /\ c # 0
  BY <1>1, ConnsFacts
<1> QED
  BY <1>1, <1>2, <1>3, <1>4, <1>6, <1>7, <1>8

(* What waits after the step waited before, or was forwarded, or is notice   *)
(* of a closed connection.                                                  *)
LEMMA QueueFrom ==
    ASSUME TypeOK, Serves, NEW i \in DOMAIN queue'
    PROVE  \/ \E j \in DOMAIN queue : queue'[i] = queue[j]
           \/ \E c \in Conns : Known(c) /\ up[c] # << >> /\ Becomes(Head(up[c]), c, queue'[i])
           \/ \E c \in Conns : queue'[i].t = "closed" /\ queue'[i].c = c /\ c \in notices /\ LiveConn = c
<1>0. queue \in Seq(Tasks)
  BY DEF TypeOK
<1>1. CASE Shrinks
  BY <1>0, <1>1, TailAt DEF Shrinks
<1>2. ASSUME NEW c \in Conns, Forwards(c)
      PROVE  \/ \E j \in DOMAIN queue : queue'[i] = queue[j]
             \/ Known(c) /\ up[c] # << >> /\ Becomes(Head(up[c]), c, queue'[i])
  <2>1. CASE queue' = queue
    BY <2>1
  <2>2. CASE queue' # queue
    <3>1. PICK q \in Tasks : Becomes(Head(up[c]), c, q) /\ queue' = Append(queue, q)
      BY <1>2, <2>2 DEF Forwards
    <3>2. (i \in DOMAIN queue /\ queue'[i] = queue[i]) \/ queue'[i] = q
      BY <1>0, <3>1, AppendAt
    <3> QED
      BY <1>2, <3>1, <3>2 DEF Forwards
  <2> QED BY <2>1, <2>2
<1>3. ASSUME NEW c \in Conns, Notices(c)
      PROVE  \/ \E j \in DOMAIN queue : queue'[i] = queue[j]
             \/ queue'[i].t = "closed" /\ queue'[i].c = c /\ c \in notices /\ LiveConn = c
  <2>1. PICK q \in Tasks : q.t = "closed" /\ q.c = c /\ queue' = Append(queue, q)
    BY <1>3 DEF Notices
  <2>2. (i \in DOMAIN queue /\ queue'[i] = queue[i]) \/ queue'[i] = q
    BY <1>0, <2>1, AppendAt
  <2> QED
    BY <1>3, <2>1, <2>2 DEF Notices
<1> QED
  BY <1>1, <1>2, <1>3 DEF Serves

(* The turn comes from the head of the queue. *)
LEMMA TurnFrom ==
    ASSUME TypeOK, Serves
    PROVE  \/ turn' = turn \/ turn' = NoTurn
           \/ turn = NoTurn /\ queue # << >> /\ queue' = Tail(queue) /\ 1 \in DOMAIN queue /\ SameTask(turn', queue[1])
<1>1. queue \in Seq(Tasks)
  BY DEF TypeOK
<1>2. CASE Shrinks
  <2>1. queue # << >> => 1 \in DOMAIN queue /\ Head(queue) = queue[1]
    BY <1>1, TailAt
  <2> QED
    BY <1>2, <2>1 DEF Shrinks
<1>3. CASE ~Shrinks
  BY <1>3 DEF Serves, Forwards, Notices
<1> QED
  BY <1>2, <1>3

LEMMA UpFrom ==
    ASSUME TypeOK, Serves, NEW c \in Conns
    PROVE  \/ up'[c] = up[c] \/ up'[c] = << >>
           \/ up[c] # << >> /\ up'[c] = Tail(up[c]) /\ Forwards(c)
<1>1. up \in [Conns -> Seq(Messages)]
  BY DEF TypeOK
<1>2. ASSUME NEW d \in Conns, Forwards(d) PROVE up'[c] = up[c] \/ (up[c] # << >> /\ up'[c] = Tail(up[c]) /\ Forwards(c))
  <2>1. up' = [up EXCEPT ![d] = Tail(@)] /\ up[d] # << >>
    BY <1>2 DEF Forwards
  <2>2. CASE c = d
    BY <1>1, <1>2, <2>1, <2>2
  <2>3. CASE c # d
    BY <1>1, <2>1, <2>3
  <2> QED BY <2>2, <2>3
<1> QED
  BY <1>2 DEF Serves, Shrinks, Notices

LEMMA OpenedServes == TypeInv /\ ShapeInv /\ Serves => Opened' /\ Gates'
<1> SUFFICES ASSUME TypeInv, ShapeInv, Serves PROVE Opened' /\ Gates'
  OBVIOUS
<1>0. TypeOK /\ Opened /\ Gates /\ NoTurn.t = "none" /\ NoTurn.c = 0 /\ NoConn.c = 0 /\ cl' = cl
  BY DEF TypeInv, ShapeInv, NoTurn, NoConn, Serves
<1> HIDE DEF TypeOK
<1>1. /\ queue \in Seq(Tasks) /\ cl.opened \in Nat /\ turn.c \in Nat /\ LiveConn \in Nat
      /\ (turn.t # "none" => turn.c \in Conns) /\ (LiveConn # 0 => LiveConn \in Conns)
      /\ \A i \in DOMAIN queue : queue[i] \in Tasks /\ queue[i].c \in Conns
      /\ \A c \in Conns : c \in Nat /\ c # 0
      /\ gate \in [Conns -> {"none", "open", "bound", "closed"}]
      /\ (cl.conn # 0 => cl.conn \in Conns)
  BY <1>0, ShapeTypes
<1>2. \A c \in Conns : c > cl.opened => gate'[c] = "none" /\ up'[c] = << >>
  <2> SUFFICES ASSUME NEW c \in Conns, c > cl.opened PROVE gate'[c] = "none" /\ up'[c] = << >>
    OBVIOUS
  <2>1. gate[c] = "none" /\ up[c] = << >>
    BY <1>0 DEF Opened
  <2>2. gate'[c] = gate[c]
    BY <2>1 DEF Serves, GateMoves, Known
  <2> QED
    BY <1>0, <2>1, <2>2, UpFrom
<1>3. session'.c = LiveConn \/ session'.c = 0 \/ (turn.t \in {"login", "resume"} /\ session'.c = turn.c)
  BY <1>0 DEF Serves, LiveConn
<1>4. ASSUME NEW i \in DOMAIN queue'
      PROVE  queue'[i].c <= cl.opened /\ (queue'[i].t = "closed" => gate'[queue'[i].c] = "closed")
  <2>0. \A c \in Conns : gate[c] = "closed" => gate'[c] = "closed"
    BY DEF Serves, GateMoves, Known
  <2>1. ASSUME NEW j \in DOMAIN queue, queue'[i] = queue[j]
        PROVE  queue'[i].c <= cl.opened /\ (queue'[i].t = "closed" => gate'[queue'[i].c] = "closed")
    BY <1>0, <1>1, <2>0, <2>1 DEF Opened, Gates
  <2>2. ASSUME NEW c \in Conns, Known(c), up[c] # << >>, Becomes(Head(up[c]), c, queue'[i])
        PROVE  queue'[i].c <= cl.opened /\ queue'[i].t # "closed"
    <3>1. ~(c > cl.opened) /\ queue'[i].c = c /\ queue'[i].t = Head(up[c]).t
      BY <1>0, <2>2 DEF Opened, Becomes
    <3>2. Head(up[c]).t # "closed"
      <4>1. up[c] \in Seq(Messages)
        BY <1>0, ShapeTypes
      <4>2. Head(up[c]) \in Messages
        BY <2>2, <4>1, Taken1
      <4> QED
        BY <4>2, MessageFacts
    <3> QED
      BY <1>1, <3>1, <3>2
  <2>3. ASSUME NEW c \in Conns, queue'[i].t = "closed", queue'[i].c = c, c \in notices, LiveConn = c
        PROVE  queue'[i].c <= cl.opened /\ (queue'[i].t = "closed" => gate'[queue'[i].c] = "closed")
    BY <1>0, <2>0, <2>3 DEF Opened, Gates
  <2> QED
    BY <1>0, <2>1, <2>2, <2>3, QueueFrom
<1>5. turn'.c <= cl.opened /\ (turn'.t \in {"login", "resume"} => gate'[turn'.c] \in {"bound", "closed"})
  <2>0. \A c \in Conns : gate[c] \in {"bound", "closed"} => gate'[c] \in {"bound", "closed"}
    BY DEF Serves, GateMoves, Known
  <2>1. CASE turn' = turn
    BY <1>0, <1>1, <2>0, <2>1 DEF Opened, Gates
  <2>2. CASE turn' = NoTurn
    BY <1>0, <1>1, <2>2
  <2>3. CASE /\ turn' # turn /\ turn' # NoTurn
             /\ turn = NoTurn /\ queue # << >> /\ 1 \in DOMAIN queue /\ SameTask(turn', queue[1])
    <3>1. turn'.c <= cl.opened
      BY <1>0, <2>3 DEF Opened, SameTask
    <3>2. turn'.t \in {"login", "resume"} => gate'[turn'.c] = "bound"
      BY <2>3 DEF Serves, GateMoves
    <3> QED BY <3>1, <3>2
  <2> QED
    BY <1>0, <2>1, <2>2, <2>3, TurnFrom
<1>6. session'.c <= cl.opened /\ (session'.c # 0 => gate'[session'.c] \in {"bound", "closed"})
  <2>0. \A c \in Conns : gate[c] \in {"bound", "closed"} => gate'[c] \in {"bound", "closed"}
    BY DEF Serves, GateMoves, Known
  <2> QED
    BY <1>0, <1>1, <1>3, <2>0 DEF Opened, Gates
<1>7. cl.conn # 0 => gate'[cl.conn] # "none"
  <2>1. cl.conn # 0 => gate[cl.conn] # "none"
    BY <1>0 DEF Gates
  <2>2. \A c \in Conns : gate[c] # "none" => gate'[c] # "none"
    BY DEF Serves, GateMoves
  <2> QED BY <1>1, <2>1, <2>2
<1>8. \A c \in notices' : gate'[c] = "closed"
  <2>1. \A c \in notices : gate[c] = "closed"
    BY <1>0 DEF Gates
  <2>2. \A c \in Conns : gate[c] = "closed" => gate'[c] = "closed"
    BY DEF Serves, GateMoves, Known
  <2> QED
    BY <2>1, <2>2 DEF Serves, GateMoves
<1>9. Opened'
  BY <1>0, <1>2, <1>4, <1>5, <1>6 DEF Opened, LiveConn
<1>10. Gates'
  BY <1>0, <1>4, <1>5, <1>6, <1>7, <1>8 DEF Gates, LiveConn
<1> QED BY <1>9, <1>10

LEMMA FirstServes == ASSUME TypeInv, ShapeInv, Serves, NEW c \in Conns PROVE First(c)'
<1>0. TypeOK /\ First(c) /\ NoTurn.t = "none" /\ NoTurn.c = 0 /\ NoConn.c = 0 /\ up[c] \in Seq(Messages) /\ c # 0
  BY ConnsFacts DEF TypeInv, TypeOK, ShapeInv, NoTurn, NoConn
<1>1. CASE up'[c] = << >>
  BY <1>1 DEF First
<1>2. CASE Forwards(c)
  <2>0. up[c] # << >> /\ up'[c] = Tail(up[c])
    BY <1>0, <1>2 DEF Forwards, TypeOK
  <2>1. \A i \in DOMAIN up'[c] : i + 1 \in DOMAIN up[c] /\ i + 1 # 1 /\ up'[c][i] = up[c][i + 1]
    BY <1>0, <2>0, TailAt
  <2> QED
    BY <1>0, <2>1 DEF First
<1>3. CASE up'[c] = up[c] /\ ~Forwards(c)
  <2> SUFFICES ASSUME NEW i \in DOMAIN up[c], up[c][i].t = "resume"
               PROVE  i = 1 /\ gate'[c] # "bound" /\ Quiet(c)'
    BY <1>3 DEF First
  <2>1. i = 1 /\ gate[c] # "bound" /\ Quiet(c)
    BY <1>0 DEF First
  <2>2. \A j \in DOMAIN queue' : queue'[j].c # c
    <3> SUFFICES ASSUME NEW j \in DOMAIN queue' PROVE queue'[j].c # c
      OBVIOUS
    <3>1. ASSUME NEW k \in DOMAIN queue, queue'[j] = queue[k] PROVE queue'[j].c # c
      BY <2>1, <3>1 DEF Quiet
    <3>2. CASE Shrinks
      <4>1. queue \in Seq(Tasks)
        BY <1>0 DEF TypeOK
      <4>2. \E k \in DOMAIN queue : queue'[j] = queue[k]
        BY <3>2, <4>1, TailAt DEF Shrinks
      <4> QED BY <3>1, <4>2
    <3>3. ASSUME NEW d \in Conns, Forwards(d) PROVE queue'[j].c # c
      <4>1. d # c /\ queue \in Seq(Tasks)
        BY <1>0, <1>3, <3>3 DEF TypeOK
      <4>2. CASE queue' = queue
        BY <3>1, <4>2
      <4>3. CASE queue' # queue
        <5>1. PICK q \in Tasks : Becomes(Head(up[d]), d, q) /\ queue' = Append(queue, q)
          BY <3>3, <4>3 DEF Forwards
        <5>2. (j \in DOMAIN queue /\ queue'[j] = queue[j]) \/ queue'[j] = q
          BY <4>1, <5>1, AppendAt
        <5> QED
          BY <3>1, <4>1, <5>1, <5>2 DEF Becomes
      <4> QED BY <4>2, <4>3
    <3>4. ASSUME NEW d \in Conns, Notices(d) PROVE queue'[j].c # c
      <4>1. d # c /\ queue \in Seq(Tasks)
        BY <1>0, <2>1, <3>4 DEF TypeOK, Notices, Quiet
      <4>2. PICK q \in Tasks : q.t = "closed" /\ q.c = d /\ queue' = Append(queue, q)
        BY <3>4 DEF Notices
      <4>3. (j \in DOMAIN queue /\ queue'[j] = queue[j]) \/ queue'[j] = q
        BY <4>1, <4>2, AppendAt
      <4> QED
        BY <3>1, <4>1, <4>2, <4>3
    <3> QED
      BY <3>2, <3>3, <3>4 DEF Serves
  <2>3. turn'.c # c
    BY <1>0, <2>1, TurnFrom DEF Quiet, SameTask
  <2>4. gate'[c] # "bound"
    BY <2>1, <2>3 DEF Serves, GateMoves
  <2>5. LiveConn' # c
    BY <1>0, <2>1 DEF Serves, Quiet, LiveConn
  <2> QED
    BY <2>1, <2>2, <2>3, <2>4, <2>5 DEF Quiet
<1> QED
  BY <1>0, <1>1, <1>2, <1>3, UpFrom

-----------------------------------------------------------------------------
(* What a step does to session_io and to what reaches the client: a package  *)
(* is counted and sent, something that nobody counts is sent, or the session *)
(* changes.                                                                 *)

Harmless == {"overflow", "overtaken", "throw"}
OtherMishaps == mishaps \subseteq mishaps' /\ mishaps' \subseteq mishaps \cup Harmless

IoSends(r) ==
    /\ io # NoIO /\ io'.gen = io.gen /\ io'.nonce = io.nonce /\ io'.sent = io.sent + 1
    /\ \/ /\ io'.unresumable = io.unresumable /\ io'.acked = io.acked
          /\ io'.out = io.out \cup {Pack(io.gen, io.sent + 1, r)}
       \/ /\ io'.unresumable /\ io'.acked = io.sent + 1 /\ io'.out = {}
          /\ turn.t = "resume" /\ ~io.unresumable => "overflow" \in mishaps'

StreamSends ==
    /\ UNCHANGED <<session, issued, reply, taken>> /\ OtherMishaps
    /\ \E r \in Nat : IoSends(r) /\ ToClient(LiveConn, <<Pack(io.gen, io.sent + 1, r)>>)

(* An answer to a ping, or an error, that the login service sends.           *)
Chat(x) ==
    /\ x \in Answer /\ x.t \in {"pong", "stray"} /\ x.r # 0
    /\ x.t = "stray" => \E c \in Conns : gate[c] = "open" /\ up[c] # << >> /\ Head(up[c]).t = "req"
                                         /\ c = cl.conn

StreamQuiet ==
    /\ UNCHANGED <<io, issued, taken>> /\ OtherMishaps
    /\ session' = session \/ (session' = NoConn /\ (LiveConn # 0 => gate'[LiveConn] = "closed"))
    /\ \/ down' = down
       \/ cl.conn # 0 /\ \E x : Chat(x) /\ down' = down \o <<x>>
    /\ \/ reply' = reply
       \/ cl.conn # 0 /\ \E t \in {"resume", "login"} : reply' = Append(reply, Granted(t, 0))

LEMMA CountedFields ==
    ASSUME NEW s \in IOs, NEW r
    PROVE  /\ Counted(s, r).gen = s.gen /\ Counted(s, r).nonce = s.nonce /\ Counted(s, r).sent = s.sent + 1
           /\ Counted(s, r).cache = s.cache /\ Counted(s, r).minReq = s.minReq
           /\ \/ /\ Counted(s, r).unresumable = s.unresumable /\ Counted(s, r).acked = s.acked
                 /\ Counted(s, r).out = s.out \cup {Pack(s.gen, s.sent + 1, r)}
              \/ /\ Counted(s, r).unresumable = TRUE /\ Counted(s, r).acked = s.sent + 1
                 /\ Counted(s, r).out = {}
<1> DEFINE k == s.sent + 1
           t == [s EXCEPT !.sent = k, !.out = @ \cup {Pack(s.gen, k, r)}]
<1>1. /\ t.gen = s.gen /\ t.nonce = s.nonce /\ t.sent = k /\ t.cache = s.cache /\ t.minReq = s.minReq
      /\ t.unresumable = s.unresumable /\ t.acked = s.acked /\ t.out = s.out \cup {Pack(s.gen, k, r)}
  BY DEF IOs
<1>2. /\ DropReplay(t).gen = s.gen /\ DropReplay(t).nonce = s.nonce /\ DropReplay(t).sent = k
      /\ DropReplay(t).cache = s.cache /\ DropReplay(t).minReq = s.minReq
      /\ DropReplay(t).unresumable = TRUE /\ DropReplay(t).acked = k /\ DropReplay(t).out = {}
  BY DEF IOs, DropReplay
<1>3. Counted(s, r) = t \/ Counted(s, r) = DropReplay(t)
  BY DEF Counted
<1> HIDE DEF t
<1> QED BY <1>1, <1>2, <1>3

LEMMA CachedFields ==
    ASSUME NEW s \in IOs, NEW r
    PROVE  /\ Cached(s, r).gen = s.gen /\ Cached(s, r).nonce = s.nonce /\ Cached(s, r).sent = s.sent
           /\ Cached(s, r).unresumable = s.unresumable /\ Cached(s, r).acked = s.acked /\ Cached(s, r).out = s.out
BY DEF Cached, IOs

LEMMA AckedFields ==
    ASSUME NEW s \in IOs, NEW n \in Nat
    PROVE  /\ Acked(s, n).gen = s.gen /\ Acked(s, n).nonce = s.nonce /\ Acked(s, n).sent = s.sent
           /\ Acked(s, n).cache = s.cache /\ Acked(s, n).minReq = s.minReq
           /\ Acked(s, n).out \subseteq s.out
           /\ \/ n >= s.acked /\ n <= s.sent /\ Acked(s, n).unresumable = s.unresumable /\ Acked(s, n).acked = n
              \/ (n < s.acked \/ n > s.sent) /\ Acked(s, n).unresumable = TRUE /\ Acked(s, n).acked = s.acked
<1>1. s.acked \in Nat /\ s.sent \in Nat
  BY DEF IOs
<1>2. CASE n < s.acked \/ n > s.sent
  <2>1. Acked(s, n) = [s EXCEPT !.unresumable = TRUE]
    BY <1>2 DEF Acked
  <2> QED BY <1>2, <2>1 DEF IOs
<1>3. CASE n >= s.acked /\ n <= s.sent
  <2>1. Acked(s, n) = [s EXCEPT !.acked = n, !.out = {p \in @ : p.seq > n}]
    BY <1>1, <1>3 DEF Acked
  <2>2. {p \in s.out : p.seq > n} \subseteq s.out
    OBVIOUS
  <2> QED BY <1>3, <2>1, <2>2 DEF IOs
<1>4. (n < s.acked \/ n > s.sent) \/ (n >= s.acked /\ n <= s.sent)
  BY <1>1
<1> QED BY <1>2, <1>3, <1>4

(* The new value of the entity's fields when a message is counted.           *)
CountedAs(s, r, x) ==
    /\ x.gen = s.gen /\ x.nonce = s.nonce /\ x.sent = s.sent + 1
    /\ \/ /\ x.unresumable = s.unresumable /\ x.acked = s.acked
          /\ x.out = s.out \cup {Pack(s.gen, s.sent + 1, r)}
       \/ x.unresumable = TRUE /\ x.acked = s.sent + 1 /\ x.out = {}

LEMMA RecordSends ==
    ASSUME TypeInv, CredentialInv, io # NoIO, NEW s \in IOs, NEW r \in Nat, RecordAndSend(s, r),
           s.gen = io.gen, s.nonce = io.nonce, s.sent = io.sent, s.unresumable = io.unresumable,
           s.acked = io.acked, s.out = io.out,
           UNCHANGED <<session, issued, reply, taken>>
    PROVE  StreamSends
<1>1. io' = Counted(s, r) /\ ToClient(LiveConn, <<Pack(s.gen, s.sent + 1, r)>>)
      /\ mishaps' = IF Resuming /\ Counted(s, r).unresumable /\ ~s.unresumable THEN mishaps \cup {"overflow"} ELSE mishaps
  BY DEF RecordAndSend
<1>2. turn.t = "resume" => Resuming
  <2>1. turn \in Turns
    BY DEF TypeInv, TypeOK
  <2> QED BY <2>1, TurnFacts DEF Resuming
<1>3. IoSends(r)
  <2>0. CountedAs(s, r, io')
    BY <1>1, CountedFields DEF CountedAs
  <2>1. io'.gen = io.gen /\ io'.nonce = io.nonce /\ io'.sent = io.sent + 1
    BY <2>0 DEF CountedAs
  <2>2. CASE /\ io'.unresumable = io.unresumable /\ io'.acked = io.acked
             /\ io'.out = io.out \cup {Pack(io.gen, io.sent + 1, r)}
    BY <2>1, <2>2 DEF IoSends
  <2>3. CASE io'.unresumable = TRUE /\ io'.acked = io.sent + 1 /\ io'.out = {}
    <3>1. turn.t = "resume" /\ ~io.unresumable => "overflow" \in mishaps'
      BY <1>1, <1>2, <2>3
    <3> QED
      BY <2>1, <2>3, <3>1 DEF IoSends
  <2> QED BY <2>0, <2>2, <2>3 DEF CountedAs
<1>4. OtherMishaps
  BY <1>1 DEF OtherMishaps, Harmless
<1> QED BY <1>1, <1>3, <1>4 DEF StreamSends

LEMMA LiveIO == TypeInv /\ CredentialInv /\ LiveConn # 0 => io # NoIO
BY DEF CredentialInv, LiveConn

LEMMA EntityStreams ==
    TypeInv /\ CredentialInv /\ ShapeInv /\ Entity
        => StreamSends \/ StreamQuiet \/ PingTurn \/ Resumes \/ Binds \/ Unload
<1> SUFFICES ASSUME TypeInv, CredentialInv, ShapeInv, Entity
             PROVE  StreamSends \/ StreamQuiet \/ PingTurn \/ Resumes \/ Binds \/ Unload
  OBVIOUS
<1>0. TypeOK /\ io \in IOs /\ NoTurn.t = "none" /\ turn \in Turns /\ OtherMishaps \in BOOLEAN
  BY DEF TypeInv, TypeOK, NoTurn, OtherMishaps
<1> HIDE DEF TypeOK
<1>1. ASSUME NEW t, TakesTurn(t) PROVE Next1 \in Tasks /\ Next1.t = t /\ Next1.c \in Conns /\ Next1 = Head(queue)
  BY <1>0, <1>1, TakesFacts, TaskFacts DEF Next1
<1>2. CASE Push
  <2> DEFINE s == [io EXCEPT !.pushed = @ + 1]
  <2>1. RecordAndSend(s, 0) /\ io # NoIO /\ UNCHANGED <<session, issued, reply, taken>>
    BY <1>2 DEF Push, net
  <2>2. /\ s.gen = io.gen /\ s.nonce = io.nonce /\ s.sent = io.sent /\ s.unresumable = io.unresumable
        /\ s.acked = io.acked /\ s.out = io.out
    BY <1>0 DEF IOs
  <2>3. s \in IOs
    <3>1. io.pushed \in 0 .. MaxSent /\ io.pushed < MaxSent
      BY <1>0, <1>2 DEF Push, IOs
    <3>2. io.pushed + 1 \in 0 .. MaxSent
      BY <3>1
    <3> QED
      BY <1>0, <3>2 DEF IOs
  <2> HIDE DEF s
  <2> QED
    BY <2>1, <2>2, <2>3, RecordSends
<1>3. CASE RequestStarts
  BY <1>3 DEF RequestStarts, StreamQuiet, net, OtherMishaps
<1>4. CASE RequestRevoked
  <2>1. Next1 \in Tasks /\ Next1.c \in Conns /\ UNCHANGED <<reply, session, issued, taken>>
    BY <1>1, <1>4 DEF RequestRevoked
  <2>2. CASE UNCHANGED <<io, down, mishaps>>
    BY <2>1, <2>2 DEF StreamQuiet, OtherMishaps
  <2>3. CASE LiveConn = Next1.c /\ RecordAndSend(io, Next1.r)
    <3>1. Next1.r \in Nat /\ LiveConn # 0
      BY <2>1, <2>3, TaskFacts, ConnsFacts
    <3> QED BY <1>0, <2>1, <2>3, <3>1, LiveIO, RecordSends
  <2> QED BY <1>4, <2>2, <2>3 DEF RequestRevoked
<1>5. CASE RequestReturns
  <2>1. turn.t = "req" /\ turn.r \in Reqs /\ turn.r \in Nat
    BY <1>0, <1>5, TurnFacts DEF RequestReturns
  <2>2. io # NoIO
    BY <2>1 DEF CredentialInv
  <2>3. Cached(io, turn.r) \in IOs
    BY <1>0, <2>1, CachedKeeps DEF TypeInv
  <2>4. RecordAndSend(Cached(io, turn.r), turn.r) /\ UNCHANGED <<session, issued, reply, taken>>
    BY <1>5 DEF RequestReturns, net
  <2> QED BY <1>0, <2>1, <2>2, <2>3, <2>4, CachedFields, RecordSends
<1>6. CASE RequestThrows
  <2>1. turn.t = "req" /\ turn.r \in Nat
    BY <1>0, <1>6, TurnFacts DEF RequestThrows
  <2>2. io # NoIO
    BY <2>1 DEF CredentialInv
  <2>3. /\ io' = Counted(io, turn.r) /\ ToClient(LiveConn, <<Pack(io.gen, io.sent + 1, turn.r)>>)
        /\ mishaps' = mishaps \cup {"throw"} /\ UNCHANGED <<session, issued, reply, taken>>
    BY <1>6 DEF RequestThrows, net
  <2>4. CountedAs(io, turn.r, io')
    BY <1>0, <2>3, CountedFields DEF CountedAs
  <2>5. turn.t # "resume"
    BY <2>1
  <2>6. IoSends(turn.r)
    BY <2>2, <2>4, <2>5 DEF IoSends, CountedAs
  <2> QED
    BY <2>1, <2>3, <2>6 DEF StreamSends, OtherMishaps, Harmless
<1>7. CASE ClosedTurn
  <2>1. UNCHANGED <<io, down, issued, reply, taken, gate, mishaps>> /\ TakesTurn("closed") /\ Unbind(Next1.c)
    BY <1>7 DEF ClosedTurn, net, history
  <2>2. LiveConn = Next1.c => gate[LiveConn] = "closed"
    <3>1. 1 \in DOMAIN queue /\ Next1 = queue[1]
      <4>1. queue \in Seq(Tasks) /\ queue # << >>
        BY <1>0, <2>1 DEF TypeOK, TakesTurn
      <4> QED BY <4>1, TailAt DEF Next1
    <3> QED BY <1>1, <2>1, <3>1 DEF ShapeInv, Gates
  <2> QED
    BY <2>1, <2>2 DEF StreamQuiet, OtherMishaps, Unbind
<1>8. ASSUME NEW t \in {"resume", "login"}, NEW c \in Conns, NEW id, id = 0, Answers(t, c, id)
      PROVE  reply' = reply \/ (cl.conn # 0 /\ \E u \in {"resume", "login"} : reply' = Append(reply, Granted(u, 0)))
  BY <1>8, ConnsFacts DEF Answers
<1>9. ASSUME NEW t \in {"resume", "login"}, NEW K, CallsBind(Next1, K), Next1.t = t, Next1.c \in Conns
      PROVE  reply' = reply \/ (cl.conn # 0 /\ \E u \in {"resume", "login"} : reply' = Append(reply, Granted(u, 0)))
  BY <1>8, <1>9 DEF CallsBind
<1>10. CASE ResumeTurn
  <2>1. /\ Next1.t = "resume" /\ Next1.c \in Conns /\ UNCHANGED <<down, session, io, issued, mishaps, taken>>
        /\ CallsBind(Next1, {}) \/ Answers("resume", Next1.c, 0)
    BY <1>1, <1>10 DEF ResumeTurn, history
  <2>2. reply' = reply \/ (cl.conn # 0 /\ \E u \in {"resume", "login"} : reply' = Append(reply, Granted(u, 0)))
    BY <1>8, <1>9, <2>1
  <2> QED BY <2>1, <2>2 DEF StreamQuiet, OtherMishaps
<1>11. CASE LoginTurn
  <2>1. /\ Next1.t = "login" /\ Next1.c \in Conns /\ UNCHANGED <<down, io, issued, mishaps, taken>>
    BY <1>1, <1>11 DEF LoginTurn, history
  <2>2. reply' = reply \/ (cl.conn # 0 /\ \E u \in {"resume", "login"} : reply' = Append(reply, Granted(u, 0)))
    BY <1>9, <1>11, <2>1 DEF LoginTurn
  <2>3. session' = session \/ (session' = NoConn /\ (LiveConn # 0 => gate'[LiveConn] = "closed"))
    <3>1. CASE LiveConn = Next1.c
      BY <1>11, <3>1 DEF LoginTurn
    <3>2. CASE LiveConn # Next1.c
      <4>1. CallsBind(Next1, Kicked(LiveConn)) /\ session' = NoConn
        BY <1>11, <3>2 DEF LoginTurn, Unbind
      <4>2. LiveConn # 0 => LiveConn \in Conns /\ gate[LiveConn] \in {"bound", "closed"}
        BY <1>0, ShapeTypes DEF ShapeInv, Gates
      <4>3. LiveConn # 0 => ClosedGate(Kicked(LiveConn))[LiveConn] = "closed"
        BY <4>2 DEF ClosedGate, Kicked, Known
      <4>4. LiveConn # 0 => gate'[LiveConn] = "closed"
        <5>1. CASE Known(Next1.c)
          <6>1. gate' = [ClosedGate(Kicked(LiveConn)) EXCEPT ![Next1.c] = "bound"]
            BY <4>1, <5>1 DEF CallsBind
          <6> QED BY <3>2, <4>2, <4>3, <6>1 DEF ClosedGate
        <5>2. CASE ~Known(Next1.c)
          BY <4>1, <4>3, <5>2 DEF CallsBind
        <5> QED BY <5>1, <5>2
      <4> QED BY <4>1, <4>4
    <3> QED BY <3>1, <3>2
  <2> QED BY <2>1, <2>2, <2>3 DEF StreamQuiet, OtherMishaps
<1> QED
  BY <1>2, <1>3, <1>4, <1>5, <1>6, <1>7, <1>10, <1>11 DEF Entity

LEMMA ServingStreams ==
    TypeInv /\ CredentialInv /\ ShapeInv /\ Serving
        => StreamSends \/ StreamQuiet \/ LoginReplies \/ PingTurn \/ Resumes \/ Binds \/ Unload
<1> SUFFICES ASSUME TypeInv, CredentialInv, ShapeInv, Serving, ~Entity, ~LoginReplies
             PROVE  StreamSends \/ StreamQuiet
  BY EntityStreams
<1>0. TypeOK /\ io \in IOs /\ up \in [Conns -> Seq(Messages)] /\ gate \in [Conns -> {"none", "open", "bound", "closed"}]
  BY DEF TypeInv, TypeOK
<1> HIDE DEF TypeOK
<1>1. ASSUME NEW c \in Conns, Disconnect(c) PROVE StreamQuiet
  BY <1>1 DEF Disconnect, StreamQuiet, OtherMishaps, server, history
<1>2. ASSUME NEW c \in Conns, NoticeArrives(c) PROVE StreamQuiet
  <2>1. UNCHANGED <<down, session, io, issued, taken, reply>> /\ OtherMishaps
    BY <1>2 DEF NoticeArrives, OtherMishaps, Harmless
  <2> QED BY <2>1 DEF StreamQuiet
<1>3. ASSUME NEW c \in Conns, GateForwards(c) PROVE StreamSends \/ StreamQuiet
  <2> DEFINE m == Head(up[c])
  <2>1. m \in Messages /\ up[c] # << >> /\ UNCHANGED <<session, issued, taken, reply>> /\ Known(c)
    <3>1. up[c] # << >> /\ UNCHANGED <<session, issued, taken, reply>> /\ Known(c)
      BY <1>3 DEF GateForwards
    <3> QED BY <1>0, <3>1, Taken1
  <2> HIDE DEF m
  <2>2. m.r \in Nat /\ m.t \in {"req", "ping", "login", "resume"} /\ (m.t \in {"req", "ping"} => m.r # 0) /\ c # 0
    BY <2>1, MessageFacts, ConnsFacts
  <2>3. CASE UNCHANGED <<down, io, mishaps>>
    BY <2>1, <2>3 DEF StreamQuiet, OtherMishaps
  <2>4. CASE gate[c] = "bound" /\ ~UNCHANGED <<down, io, mishaps>>
    <3>1. LiveConn = c /\ RecordAndSend(io, m.r)
      BY <1>3, <2>4 DEF GateForwards, EntityReceives, m
    <3> QED BY <1>0, <2>1, <2>2, <3>1, LiveIO, RecordSends
  <2>5. CASE gate[c] # "bound" /\ ~UNCHANGED <<down, io, mishaps>>
    <3> DEFINE x == IF m.t = "ping" THEN Pong(0, m.r) ELSE Stray(m.r)
    <3>1. m.t \in {"req", "ping"} /\ ToClient(c, <<x>>) /\ UNCHANGED <<queue, io, mishaps>>
      BY <1>3, <2>2, <2>5 DEF GateForwards, LoginReceives, m
    <3>2. x \in Answer /\ x.t \in {"pong", "stray"} /\ x.r # 0 /\ (x.t = "stray" => m.t = "req")
      BY <2>2, <3>1 DEF Pong, Stray, Answer
    <3> HIDE DEF x
    <3>3. gate[c] = "open"
      BY <2>1, <2>5 DEF Known
    <3>4. down' = down \/ (c = cl.conn /\ down' = down \o <<x>>)
      BY <3>1 DEF ToClient
    <3>5. c = cl.conn => Chat(x)
      BY <2>1, <3>2, <3>3 DEF Chat, m
    <3> QED
      BY <2>1, <2>2, <3>1, <3>4, <3>5 DEF StreamQuiet, OtherMishaps
  <2> QED BY <2>3, <2>4, <2>5
<1> QED BY <1>1, <1>2, <1>3 DEF Serving

LEMMA ReplayAt ==
    ASSUME NEW s \in IOs, Covers(s), NEW g, \A p \in s.out : p.t = "pack" /\ p.gen = g
    PROVE  /\ Replay(s) \in Seq(Answer) /\ DOMAIN Replay(s) = 1 .. (s.sent - s.acked)
           /\ \A i \in 1 .. (s.sent - s.acked) :
                /\ Replay(s)[i].t = "pack" /\ Replay(s)[i].gen = g /\ Replay(s)[i].seq = s.acked + i
<1>1. s.sent \in Nat /\ s.acked \in Nat /\ s.acked <= s.sent
  BY DEF IOs, Covers
<1> DEFINE e(i) == CHOOSE p \in s.out : p.seq = s.acked + i
<1>2. Replay(s) = [i \in 1 .. (s.sent - s.acked) |-> e(i)]
  BY DEF Replay
<1>3. ASSUME NEW i \in 1 .. (s.sent - s.acked)
      PROVE  e(i) \in s.out /\ e(i).seq = s.acked + i
  <2>1. s.acked + i \in (s.acked + 1) .. s.sent
    BY <1>1
  <2>2. s.acked + i \in {p.seq : p \in s.out}
    BY <2>1 DEF Covers
  <2>3. \E p \in s.out : p.seq = s.acked + i
    BY <2>2
  <2> QED
    BY <2>3
<1> HIDE DEF e
<1>4. Replay(s) \in Seq(Answer)
  BY ReplayType
<1> QED
  BY <1>2, <1>3, <1>4

(* The gate acts, and the turn is over. *)
ResumesOf ==
    /\ turn.t = "resume" /\ turn.c \in Conns /\ turn.n \in Nat /\ io # NoIO /\ turn.id = io.nonce
    /\ issued \in Nat /\ issued' = issued + 1 /\ session' = [c |-> turn.c, id |-> issued + 1]
    /\ io' \in IOs /\ io' # NoIO
    /\ io'.gen = io.gen /\ io'.sent = io.sent /\ io'.nonce = issued + 1 /\ io'.out \subseteq io.out
    /\ \/ turn.n >= io.acked /\ turn.n <= io.sent /\ io'.unresumable = io.unresumable /\ io'.acked = turn.n
       \/ (turn.n < io.acked \/ turn.n > io.sent) /\ io'.unresumable = TRUE /\ io'.acked = io.acked
    /\ ToClient(turn.c, Replay(io'))
    /\ reply' = (IF turn.c = cl.conn THEN Append(reply, Granted("resume", issued + 1)) ELSE reply)
    /\ Replay(io') \in Seq(Answer) /\ DOMAIN Replay(io') = 1 .. (io.sent - io'.acked)
    /\ \A i \in 1 .. (io.sent - io'.acked) :
          Replay(io')[i].t = "pack" /\ Replay(io')[i].gen = io.gen /\ Replay(io')[i].seq = io'.acked + i
    /\ turn' = NoTurn /\ UNCHANGED <<queue, cl, taken, runs, mishaps>>
    /\ io'.cache = io.cache /\ io'.minReq = io.minReq /\ io'.acked \in Nat /\ io.sent \in Nat
    /\ io'.acked <= io.sent
    /\ gate[turn.c] \in {"none", "open", "bound", "closed"} /\ gate'[turn.c] = gate[turn.c]

LEMMA ResumesFields == TypeInv /\ CredentialInv /\ OutForm /\ Resumes => ResumesOf
<1> SUFFICES ASSUME TypeInv, CredentialInv, OutForm, Resumes PROVE ResumesOf
  OBVIOUS
<1>0. /\ io \in IOs /\ Covers(io) /\ issued \in Nat /\ turn \in Turns /\ io.sent \in Nat
      /\ gate \in [Conns -> {"none", "open", "bound", "closed"}]
  BY DEF TypeInv, TypeOK, IOs
<1>1. turn.t = "resume" /\ turn.c \in Conns /\ turn.n \in Nat /\ turn.c # 0
  BY <1>0, TurnFacts, ConnsFacts DEF Resumes
<1>2. io # NoIO /\ turn.id = io.nonce
  BY <1>1 DEF CredentialInv
<1> DEFINE a == Acked(io, turn.n)
<1>3. a \in IOs /\ Covers(a)
  BY <1>0, <1>1, AckedKeeps
<1>4. /\ a.gen = io.gen /\ a.sent = io.sent /\ a.out \subseteq io.out /\ a.cache = io.cache /\ a.minReq = io.minReq
      /\ \/ turn.n >= io.acked /\ turn.n <= io.sent /\ a.unresumable = io.unresumable /\ a.acked = turn.n
         \/ (turn.n < io.acked \/ turn.n > io.sent) /\ a.unresumable = TRUE /\ a.acked = io.acked
  BY <1>0, <1>1, AckedFields
<1>5. io' = Rotated(a)
  BY DEF Resumes
<1> HIDE DEF a
<1>6. io' \in IOs /\ Covers(io') /\ io'.nonce = issued + 1
  BY <1>0, <1>3, <1>5, RotatedKeeps
<1>7. /\ io'.gen = a.gen /\ io'.sent = a.sent /\ io'.out = a.out /\ io'.cache = a.cache /\ io'.minReq = a.minReq
      /\ io'.unresumable = a.unresumable /\ io'.acked = a.acked
  BY <1>3, <1>5 DEF Rotated, IOs
<1>8. \A p \in io'.out : p.t = "pack" /\ p.gen = io.gen
  BY <1>4, <1>7 DEF OutForm
<1>9. /\ Replay(io') \in Seq(Answer) /\ DOMAIN Replay(io') = 1 .. (io'.sent - io'.acked)
      /\ \A i \in 1 .. (io'.sent - io'.acked) :
           /\ Replay(io')[i].t = "pack" /\ Replay(io')[i].gen = io.gen /\ Replay(io')[i].seq = io'.acked + i
  BY <1>6, <1>8, ReplayAt
<1>10. io' # NoIO
  BY <1>0, <1>6 DEF NoIO
<1>11. reply' = IF turn.c = cl.conn THEN Append(reply, Granted("resume", issued + 1)) ELSE reply
  BY <1>6 DEF Resumes, Answers
<1>12. gate'[turn.c] = gate[turn.c]
  <2> DEFINE d == IF LiveConn = turn.c THEN 0 ELSE LiveConn
  <2>1. d # turn.c /\ Kick(d)
    BY <1>1 DEF Resumes
  <2> HIDE DEF d
  <2> QED BY <1>1, <2>1 DEF Kick, ClosedGate, Kicked
<1>13. gate[turn.c] \in {"none", "open", "bound", "closed"}
  BY <1>0, <1>1
<1>14. /\ issued' = issued + 1 /\ session' = [c |-> turn.c, id |-> issued + 1] /\ ToClient(turn.c, Replay(io'))
       /\ turn' = NoTurn /\ UNCHANGED <<queue, cl, taken, runs, mishaps>>
  BY DEF Resumes
<1>15. io'.acked \in Nat /\ io'.acked <= io.sent
  BY <1>4, <1>6, <1>7 DEF IOs, Covers
<1> QED
  BY <1>0, <1>1, <1>2, <1>4, <1>6, <1>7, <1>9, <1>10, <1>11, <1>12, <1>13, <1>14, <1>15 DEF ResumesOf

BindsOf ==
    /\ turn.t = "login" /\ turn.c \in Conns
    /\ issued \in Nat /\ issued' = issued + 1 /\ session' = [c |-> turn.c, id |-> issued + 1]
    /\ io' # NoIO /\ io'.gen = issued + 1 /\ io'.nonce = issued + 1 /\ io'.sent = 0 /\ io'.acked = 0
    /\ io'.out = {} /\ io'.unresumable = FALSE /\ io'.cache = << >> /\ io'.minReq = 0
    /\ reply' = (IF turn.c = cl.conn THEN Append(reply, Granted("login", issued + 1)) ELSE reply)
    /\ turn' = NoTurn /\ UNCHANGED <<gate, up, notices, down, queue, cl, history>>

LEMMA BindsFields == TypeInv /\ Binds => BindsOf
<1> SUFFICES ASSUME TypeInv, Binds PROVE BindsOf
  OBVIOUS
<1>1. turn \in Turns /\ issued \in Nat
  BY DEF TypeInv, TypeOK
<1>2. turn.t = "login" /\ turn.c \in Conns
  BY <1>1, TurnFacts DEF Binds
<1>3. io' = [NoIO EXCEPT !.gen = issued + 1, !.nonce = issued + 1]
  BY DEF Binds
<1>4. /\ io'.gen = issued + 1 /\ io'.nonce = issued + 1 /\ io'.sent = 0 /\ io'.acked = 0
      /\ io'.out = {} /\ io'.unresumable = FALSE /\ io'.cache = << >> /\ io'.minReq = 0
  BY <1>3 DEF NoIO
<1>5. io' # NoIO
  BY <1>1, <1>4 DEF NoIO
<1> QED
  BY <1>1, <1>2, <1>4, <1>5 DEF Binds, BindsOf, Answers

PingOf(n, r) ==
    /\ LiveConn # 0 /\ io # NoIO /\ n \in Nat /\ r \in Reqs /\ turn = NoTurn
    /\ \E i \in DOMAIN queue : queue[i].t = "ping" /\ queue[i].c = LiveConn /\ queue[i].n = n
    /\ io' # NoIO /\ io'.gen = io.gen /\ io'.nonce = io.nonce /\ io'.sent = io.sent /\ io'.out \subseteq io.out
    /\ \/ n >= io.acked /\ n <= io.sent /\ io'.unresumable = io.unresumable /\ io'.acked = n
       \/ (n < io.acked \/ n > io.sent) /\ io'.unresumable = TRUE /\ io'.acked = io.acked
    /\ ToClient(LiveConn, <<Pong(io.sent, r)>>) /\ Pong(io.sent, r) \in Answer
    /\ UNCHANGED <<gate, up, notices, reply, session, turn, issued, cl, taken, runs, mishaps>>

LEMMA PingTurnFields ==
    TypeInv /\ CredentialInv /\ PingTurn => \E n, r : PingOf(n, r)
<1> SUFFICES ASSUME TypeInv, CredentialInv, PingTurn PROVE PingOf(Next1.n, Next1.r)
  OBVIOUS
<1>0. io \in IOs /\ Covers(io) /\ queue \in Seq(Tasks) /\ TypeOK /\ io.sent \in Nat
  BY DEF TypeInv, TypeOK, IOs
<1>1. Next1 \in Tasks /\ Next1.t = "ping" /\ SameConn(Next1) /\ turn = NoTurn /\ queue # << >>
  BY <1>0, TakesFacts DEF PingTurn, TakesTurn
<1>2. Next1.n \in Nat /\ Next1.r \in Reqs /\ Next1.c \in Conns /\ LiveConn = Next1.c /\ LiveConn # 0
  BY <1>1, TaskFacts, ConnsFacts DEF SameConn, LiveConn
<1>3. io # NoIO
  BY <1>2, LiveIO
<1> DEFINE a == Acked(io, Next1.n)
<1>4. a \in IOs /\ Covers(a)
  BY <1>0, <1>2, AckedKeeps
<1>5. /\ a.gen = io.gen /\ a.nonce = io.nonce /\ a.sent = io.sent /\ a.out \subseteq io.out
      /\ \/ Next1.n >= io.acked /\ Next1.n <= io.sent /\ a.unresumable = io.unresumable /\ a.acked = Next1.n
         \/ (Next1.n < io.acked \/ Next1.n > io.sent) /\ a.unresumable = TRUE /\ a.acked = io.acked
  BY <1>0, <1>2, AckedFields
<1>6. io' = Cached(a, Next1.r)
  BY DEF PingTurn
<1> HIDE DEF a
<1>7. /\ io'.gen = a.gen /\ io'.nonce = a.nonce /\ io'.sent = a.sent /\ io'.out = a.out
      /\ io'.unresumable = a.unresumable /\ io'.acked = a.acked
  BY <1>4, <1>6, CachedFields
<1>8. io' # NoIO
  BY <1>3, <1>5, <1>7 DEF CredentialInv, NoIO
<1>9. \E i \in DOMAIN queue : queue[i].t = "ping" /\ queue[i].c = LiveConn /\ queue[i].n = Next1.n
  <2>1. 1 \in DOMAIN queue /\ Next1 = queue[1]
    BY <1>0, <1>1, TailAt DEF Next1
  <2> QED BY <1>1, <1>2, <2>1
<1>10. Pong(io.sent, Next1.r) \in Answer
  BY <1>0, <1>2, ConnsFacts DEF Pong, Answer
<1>11. /\ UNCHANGED <<gate, up, notices, reply, session, turn, issued, cl, taken, runs, mishaps>>
       /\ ToClient(LiveConn, <<Pong(io.sent, Next1.r)>>)
  BY DEF PingTurn, net, history
<1> QED
  BY <1>1, <1>2, <1>3, <1>5, <1>7, <1>8, <1>9, <1>10, <1>11 DEF PingOf

LEMMA RepliesFields ==
    TypeOK /\ LoginReplies =>
        /\ reply # << >> /\ Head(reply) \in Answer /\ reply' = Tail(reply) /\ 1 \in DOMAIN reply /\ Head(reply) = reply[1]
        /\ down' = down \/ (cl.conn # 0 /\ down' = down \o <<Head(reply)>>)
        /\ UNCHANGED <<gate, up, notices, server, cl, history>>
<1> SUFFICES ASSUME TypeOK, LoginReplies
             PROVE  /\ reply # << >> /\ Head(reply) \in Answer /\ reply' = Tail(reply) /\ 1 \in DOMAIN reply
                    /\ Head(reply) = reply[1]
                    /\ down' = down \/ (cl.conn # 0 /\ down' = down \o <<Head(reply)>>)
                    /\ UNCHANGED <<gate, up, notices, server, cl, history>>
  OBVIOUS
<1>1. reply \in Seq(Answer) /\ reply # << >>
  BY DEF TypeOK, LoginReplies
<1>2. Head(reply) \in Answer /\ 1 \in DOMAIN reply /\ Head(reply) = reply[1]
  BY <1>1, TailAt, Taken1
<1>3. down' = down \/ (cl.conn # 0 /\ down' = down \o <<Head(reply)>>)
  BY DEF LoginReplies, ToClient
<1> QED
  BY <1>1, <1>2, <1>3 DEF LoginReplies

LEMMA OneAt == ASSUME NEW S, NEW x \in S PROVE <<x>> \in Seq(S) /\ DOMAIN <<x>> = {1} /\ <<x>>[1] = x /\ Len(<<x>>) = 1
OBVIOUS

(* What reaches the client: something behind what is on its way, and only if *)
(* it has a connection; answers that nobody waits for name no ping.          *)
DownGets ==
    \/ down' = down
    \/ cl.conn # 0 /\ \E ms \in Seq(Answer) :
          down' = down \o ms /\ \A i \in DOMAIN ms : ms[i].t = "pong" => ms[i].r # 0

ReplyGets ==
    \/ reply' = reply
    \/ reply # << >> /\ reply' = Tail(reply)
    \/ cl.conn # 0 /\ \E g \in Answer : g.t \in {"resume", "login"} /\ reply' = Append(reply, g)

LEMMA GetsOne ==
    ASSUME NEW x \in Answer, x.t = "pong" => x.r # 0, cl.conn # 0, down' = down \o <<x>>
    PROVE  DownGets
<1>1. <<x>> \in Seq(Answer) /\ \A i \in DOMAIN <<x>> : <<x>>[i] = x
  BY OneAt
<1> QED BY <1>1 DEF DownGets

LEMMA GrantedFacts ==
    ASSUME NEW t \in {"resume", "login"}, NEW id \in Nat
    PROVE  Granted(t, id) \in Answer /\ Granted(t, id).t = t /\ Granted(t, id).gen = id
BY DEF Granted, Answer

LEMMA PackFacts ==
    ASSUME NEW g \in Nat, NEW k \in Nat, NEW r \in Nat
    PROVE  Pack(g, k, r) \in Answer /\ Pack(g, k, r).t = "pack" /\ Pack(g, k, r).gen = g /\ Pack(g, k, r).seq = k
BY DEF Pack, Answer

LEMMA ServingGets == TypeInv /\ CredentialInv /\ ShapeInv /\ Serving => DownGets /\ ReplyGets
<1> SUFFICES ASSUME TypeInv, CredentialInv, ShapeInv, Serving PROVE DownGets /\ ReplyGets
  OBVIOUS
<1>0. /\ TypeOK /\ io \in IOs /\ io.gen \in Nat /\ io.sent \in Nat /\ io.sent + 1 \in Nat /\ issued \in Nat
      /\ issued + 1 \in Nat /\ ClientForm /\ OutForm
  <2>1. TypeOK /\ io \in IOs /\ issued \in Nat /\ ClientForm /\ OutForm
    BY DEF TypeInv, TypeOK, ShapeInv
  <2>2. io.gen \in Nat /\ io.sent \in Nat
    BY <2>1 DEF IOs
  <2> QED BY <2>1, <2>2
<1> HIDE DEF TypeOK
<1>1. CASE StreamSends
  <2>1. PICK r \in Nat : ToClient(LiveConn, <<Pack(io.gen, io.sent + 1, r)>>)
    BY <1>1 DEF StreamSends
  <2> DEFINE x == Pack(io.gen, io.sent + 1, r)
  <2>2. x \in Answer /\ x.t # "pong"
    <3>1. x \in Answer /\ x.t = "pack"
      BY <1>0, <2>1, PackFacts
    <3> QED BY <3>1
  <2> HIDE DEF x
  <2>3. down' = down \/ (cl.conn # 0 /\ down' = down \o <<x>>)
    BY <2>1 DEF ToClient, x
  <2> QED BY <1>1, <2>2, <2>3, GetsOne DEF StreamSends, DownGets, ReplyGets
<1>2. CASE StreamQuiet
  <2>1. DownGets
    BY <1>2, GetsOne DEF StreamQuiet, Chat, DownGets
  <2>2. ReplyGets
    <3>1. 0 \in Nat
      OBVIOUS
    <3> QED BY <1>2, <3>1, GrantedFacts DEF StreamQuiet, ReplyGets
  <2> QED BY <2>1, <2>2
<1>3. CASE LoginReplies
  <2>1. /\ reply # << >> /\ Head(reply) \in Answer /\ reply' = Tail(reply) /\ 1 \in DOMAIN reply /\ Head(reply) = reply[1]
        /\ down' = down \/ (cl.conn # 0 /\ down' = down \o <<Head(reply)>>)
    BY <1>0, <1>3, RepliesFields
  <2>2. Head(reply).t # "pong"
    BY <1>0, <2>1 DEF ClientForm
  <2> QED BY <2>1, <2>2, GetsOne DEF DownGets, ReplyGets
<1>4. CASE PingTurn
  <2>1. PICK n, r : PingOf(n, r)
    BY <1>4, PingTurnFields
  <2> DEFINE x == Pong(io.sent, r)
  <2>2. x \in Answer /\ x.r # 0 /\ ToClient(LiveConn, <<x>>) /\ reply' = reply
    BY <2>1, ConnsFacts DEF PingOf, Pong
  <2> HIDE DEF x
  <2> QED BY <2>2, GetsOne DEF ToClient, DownGets, ReplyGets
<1>5. CASE Resumes
  <2>1. ResumesOf
    BY <1>0, <1>5, ResumesFields
  <2> DEFINE ms == Replay(io')
  <2>2. ms \in Seq(Answer) /\ \A i \in DOMAIN ms : ms[i].t # "pong"
    BY <2>1 DEF ResumesOf
  <2> HIDE DEF ms
  <2>3. DownGets
    BY <2>1, <2>2 DEF ResumesOf, ToClient, DownGets, ms
  <2>4. reply' = reply \/ (cl.conn # 0 /\ reply' = Append(reply, Granted("resume", issued + 1)))
    BY <2>1, ConnsFacts DEF ResumesOf
  <2>5. Granted("resume", issued + 1) \in Answer /\ Granted("resume", issued + 1).t \in {"resume", "login"}
    BY <1>0, GrantedFacts
  <2> QED BY <2>3, <2>4, <2>5 DEF ReplyGets
<1>6. CASE Binds
  <2>1. BindsOf
    BY <1>6, BindsFields
  <2>4. reply' = reply \/ (cl.conn # 0 /\ reply' = Append(reply, Granted("login", issued + 1)))
    BY <2>1, ConnsFacts DEF BindsOf
  <2>5. Granted("login", issued + 1) \in Answer /\ Granted("login", issued + 1).t \in {"resume", "login"}
    BY <1>0, GrantedFacts
  <2> QED BY <2>1, <2>4, <2>5 DEF BindsOf, DownGets, ReplyGets
<1>7. CASE Unload
  BY <1>7 DEF Unload, DownGets, ReplyGets
<1> QED
  BY <1>1, <1>2, <1>3, <1>4, <1>5, <1>6, <1>7, ServingStreams

LEMMA FormServes == TypeInv /\ CredentialInv /\ ShapeInv /\ Serving => ClientForm' /\ OutForm'
<1> SUFFICES ASSUME TypeInv, CredentialInv, ShapeInv, Serving PROVE ClientForm' /\ OutForm'
  OBVIOUS
<1>0. TypeOK /\ ClientForm /\ OutForm /\ cl' = cl /\ down \in Seq(Answer) /\ reply \in Seq(Answer)
  BY ServingServes DEF TypeInv, TypeOK, ShapeInv, Serves
<1> HIDE DEF TypeOK
<1>1. cl.conn = 0 => down' = << >> /\ reply' = << >>
  BY <1>0, ServingGets DEF ClientForm, DownGets, ReplyGets
<1>2. \A i \in DOMAIN down' : down'[i].t = "pong" => down'[i].r # 0
  <2>1. CASE down' = down
    BY <1>0, <2>1 DEF ClientForm
  <2>2. ASSUME NEW ms \in Seq(Answer), down' = down \o ms, \A i \in DOMAIN ms : ms[i].t = "pong" => ms[i].r # 0,
               NEW i \in DOMAIN down', down'[i].t = "pong"
        PROVE  down'[i].r # 0
    <3>1. \/ i \in DOMAIN down /\ down'[i] = down[i]
          \/ i - Len(down) \in DOMAIN ms /\ down'[i] = ms[i - Len(down)]
      BY <1>0, <2>2, ConcatAt
    <3> QED BY <1>0, <2>2, <3>1 DEF ClientForm
  <2> QED BY <2>1, <2>2, ServingGets DEF DownGets
<1>3. \A i \in DOMAIN reply' : reply'[i].t \in {"resume", "login"}
  <2>1. CASE reply' = reply
    BY <1>0, <2>1 DEF ClientForm
  <2>2. CASE reply # << >> /\ reply' = Tail(reply)
    BY <1>0, <2>2, TailAt DEF ClientForm
  <2>3. ASSUME NEW g \in Answer, g.t \in {"resume", "login"}, reply' = Append(reply, g), NEW i \in DOMAIN reply'
        PROVE  reply'[i].t \in {"resume", "login"}
    BY <1>0, <2>3, AppendAt DEF ClientForm
  <2> QED BY <2>1, <2>2, <2>3, ServingGets DEF ReplyGets
<1>4. ClientForm'
  BY <1>0, <1>1, <1>2, <1>3 DEF ClientForm
<1>5. OutForm'
  <2>1. CASE StreamSends
    <3>1. PICK r \in Nat : IoSends(r)
      BY <2>1 DEF StreamSends
    <3>2. Pack(io.gen, io.sent + 1, r).t = "pack" /\ Pack(io.gen, io.sent + 1, r).gen = io.gen
      BY DEF Pack
    <3> QED BY <1>0, <3>1, <3>2 DEF IoSends, OutForm
  <2>2. CASE StreamQuiet
    BY <1>0, <2>2 DEF StreamQuiet, OutForm
  <2>3. CASE LoginReplies
    BY <1>0, <2>3 DEF LoginReplies, server, OutForm
  <2>4. CASE PingTurn
    BY <1>0, <2>4, PingTurnFields DEF PingOf, OutForm
  <2>5. CASE Resumes
    BY <1>0, <2>5, ResumesFields DEF ResumesOf, OutForm
  <2>6. CASE Binds
    BY <1>0, <2>6, BindsFields DEF BindsOf, OutForm
  <2>7. CASE Unload
    BY <2>7 DEF Unload, NoIO, OutForm
  <2> QED BY <2>1, <2>2, <2>3, <2>4, <2>5, <2>6, <2>7, ServingStreams
<1> QED BY <1>4, <1>5

(* What the client sends comes behind what it has sent. *)
LEMMA SendsAt ==
    ASSUME TypeOK, NEW ms \in Seq(Messages), Sends(ms), NEW c \in Conns
    PROVE  up'[c] = up[c] \/ (c = cl.conn /\ Known(c) /\ up'[c] = up[c] \o ms)
<1>1. up \in [Conns -> Seq(Messages)]
  BY DEF TypeOK
<1> QED BY <1>1 DEF Sends

(* An order of a set names each of its elements once. *)
LEMMA OrdersOnce ==
    ASSUME NEW S, IsFiniteSet(S), NEW s \in Orders(S)
    PROVE  \A i, j \in DOMAIN s : s[i] = s[j] => i = j
<1> DEFINE n == Cardinality(S)
<1>1. n \in Nat /\ s \in [1 .. n -> S] /\ \A r \in S : \E i \in DOMAIN s : s[i] = r
  BY FS_CardinalityType DEF Orders
<1> HIDE DEF n
<1>2. IsFiniteSet(1 .. n) /\ Cardinality(1 .. n) = n
  <2>1. Cardinality(1 .. n) = IF 1 > n THEN 0 ELSE n - 1 + 1
    BY <1>1, FS_Interval
  <2> QED BY <1>1, <2>1, FS_Interval
<1>3. s \in Surjection(1 .. n, S)
  BY <1>1 DEF Surjection
<1>4. s \in Injection(1 .. n, S)
  BY <1>2, <1>3, FS_SurjSameCardinalityImpliesInj DEF n
<1> QED BY <1>1, <1>4 DEF Injection, IsInjective

LEMMA ResendSends ==
    ASSUME TypeOK, Resend
    PROVE  \E ms \in Seq(Messages) :
              /\ Sends(ms)
              /\ \A i \in DOMAIN ms : ms[i].t = "req" /\ ms[i].r \in cl.pending
              /\ \A i, j \in DOMAIN ms : ms[i].r = ms[j].r => i = j
<1>1. cl.pending \subseteq Reqs
  BY ClientFacts
<1>2. IsFiniteSet(cl.pending) /\ Cardinality(cl.pending) \in Nat
  <2>1. IsFiniteSet(Reqs)
    BY FS_Interval DEF Reqs
  <2> QED
    BY <1>1, <2>1, FS_Subset, FS_CardinalityType
<1>3. PICK s \in Orders(cl.pending) : Sends([i \in DOMAIN s |-> Message("req", s[i], 0, 0)])
  BY DEF Resend
<1> DEFINE n == Cardinality(cl.pending)
           f == [i \in DOMAIN s |-> Message("req", s[i], 0, 0)]
<1>4. s \in [1 .. n -> cl.pending]
  BY DEF Orders
<1>5. \A i \in 1 .. n : Message("req", s[i], 0, 0) \in Messages
  BY <1>1, <1>4 DEF Message, Messages
<1>6. f \in [1 .. n -> Messages] /\ \A i \in 1 .. n : f[i].t = "req" /\ f[i].r = s[i]
  BY <1>4, <1>5 DEF Message
<1>7. f \in Seq(Messages)
  <2> HIDE DEF f, n
  <2>1. n \in Nat
    BY <1>2 DEF n
  <2> QED
    BY <1>6, <2>1
<1> HIDE DEF f
<1>8. Sends(f)
  BY <1>3 DEF f
<1>9. \A i \in DOMAIN f : f[i].t = "req" /\ f[i].r \in cl.pending
  BY <1>4, <1>6
<1>10. \A i, j \in DOMAIN f : f[i].r = f[j].r => i = j
  <2>1. \A i, j \in DOMAIN s : s[i] = s[j] => i = j
    BY <1>2, OrdersOnce
  <2> QED BY <1>4, <1>6, <2>1
<1> QED
  BY <1>7, <1>8, <1>9, <1>10

(* What a step of the client other than Connect does to what it has sent.    *)
Says ==
    /\ UNCHANGED <<gate, notices, server>> /\ cl'.opened = cl.opened /\ cl'.conn \in {0, cl.conn}
    /\ \/ up' = up
       \/ \E ms \in Seq(Messages) : Sends(ms) /\ \A i \in DOMAIN ms : ms[i].t \in {"req", "ping", "login"}

LEMMA ClientSays == TypeInv /\ Client => Connect \/ Says
<1> SUFFICES ASSUME TypeInv, Client, ~Connect PROVE Says
  OBVIOUS
<1>0. TypeOK
  BY DEF TypeInv
<1> HIDE DEF TypeOK
<1>1. CASE Drop \/ LoginFails \/ (PingAnswered /\ cl.ping.n # cl.recv)
  BY <1>0, <1>1, GivesUpFields DEF GivesUp, Says
<1>2. CASE Call
  <2> DEFINE x == Message("req", cl.next + 1, 0, 0)
  <2>1. <<x>> \in Seq(Messages) /\ Sends(<<x>>) /\ UNCHANGED <<gate, notices, server>> /\ cl'.opened = cl.opened
         /\ cl'.conn = cl.conn
    BY <1>0, <1>2, CallFields DEF Call, SameLink
  <2>2. \A i \in DOMAIN <<x>> : <<x>>[i].t = "req"
    BY DEF Message
  <2> HIDE DEF x
  <2> QED BY <2>1, <2>2 DEF Says
<1>3. CASE Ping
  <2> DEFINE x == Message("ping", cl.next + 1, cl.recv, 0)
  <2>1. <<x>> \in Seq(Messages) /\ Sends(<<x>>) /\ UNCHANGED <<gate, notices, server>> /\ cl'.opened = cl.opened
         /\ cl'.conn = cl.conn
    BY <1>0, <1>3, PingFields DEF Ping, SameLink
  <2>2. \A i \in DOMAIN <<x>> : <<x>>[i].t = "ping"
    BY DEF Message
  <2> HIDE DEF x
  <2> QED BY <2>1, <2>2 DEF Says
<1>4. CASE Receive
  BY <1>0, <1>4, ReceiveFields DEF ReceiveOf, SameLink, Says, net
<1>5. CASE ResumeSucceeds
  <2>1. UNCHANGED <<gate, notices, server>> /\ cl'.opened = cl.opened /\ cl'.conn = cl.conn /\ Resend
    BY <1>0, <1>5, ResumeSucceedsFields DEF ResumeSucceeds
  <2> QED BY <1>0, <2>1, ResendSends DEF Says
<1>6. CASE ResumeFails
  <2>1. UNCHANGED <<gate, notices, server>> /\ cl'.opened = cl.opened /\ cl'.conn = cl.conn
         /\ Sends(<<Login>>)
    BY <1>0, <1>6, ResumeFailsFields DEF ResumeFails
  <2>2. Login \in Messages /\ Login.t = "login"
    BY <1>0, ClientFacts DEF Login, Message
  <2>3. <<Login>> \in Seq(Messages) /\ \A i \in DOMAIN <<Login>> : <<Login>>[i].t = "login"
    BY <2>2, OneAt
  <2> QED BY <2>1, <2>3 DEF Says
<1>7. CASE LoginSucceeds
  BY <1>0, <1>7, LoginSucceedsFields DEF LoginSucceeds, Says, net
<1>8. CASE PingAnswered /\ cl.ping.n = cl.recv
  BY <1>0, <1>8, PingAnsweredFields DEF SameLink, Says, net
<1> QED
  BY <1>1, <1>2, <1>3, <1>4, <1>5, <1>6, <1>7, <1>8 DEF Client

LEMMA FormClient == TypeInv /\ ClientForm /\ Client => ClientForm'
<1> SUFFICES ASSUME TypeInv, ClientForm, Client PROVE ClientForm'
  OBVIOUS
<1>0. TypeOK /\ NoAnswer.id = 0 /\ ~NoAnswer.got /\ NoPing.r = 0 /\ ~NoPing.got /\ cl.opened \in Nat
  <2>1. TypeOK
    BY DEF TypeInv
  <2> QED BY <2>1, ShapeTypes DEF NoAnswer, NoPing
<1> HIDE DEF TypeOK
<1>1. CASE Connect
  <2>1. down' = down /\ reply' = reply
    BY <1>1 DEF Connect
  <2>2. cl.opened + 1 # 0
    BY <1>0
  <2> QED BY <1>0, <1>1, <2>1, <2>2, ConnectFields DEF ClientForm
<1>2. CASE Drop \/ LoginFails \/ (PingAnswered /\ cl.ping.n # cl.recv)
  <2>1. GivesUp
    BY <1>0, <1>2, GivesUpFields
  <2>2. cl.ping.got => ~cl.answer.got /\ cl.stage = "idle"
    BY DEF ClientForm
  <2>3. ~cl'.answer.got /\ (cl'.answer.id # 0 => cl'.answer.got)
    BY <1>0, <2>1, <2>2 DEF GivesUp, ClientForm
  <2> QED BY <1>0, <2>1, <2>3 DEF GivesUp, ClientForm
<1>3. CASE Call
  <2>1. down' = down /\ reply' = reply
    BY <1>3 DEF Call
  <2> QED BY <1>0, <1>3, <2>1, CallFields DEF SameLink, ClientForm
<1>4. CASE Ping
  <2>1. down' = down /\ reply' = reply /\ cl.online
    BY <1>4 DEF Ping
  <2>2. cl.next + 1 # 0 /\ [NoPing EXCEPT !.r = cl.next + 1].r = cl.next + 1 /\ ~[NoPing EXCEPT !.r = cl.next + 1].got
    <3>1. cl.next + 1 \in Reqs
      BY <1>0, <1>4, PingFields
    <3> QED BY <3>1, ConnsFacts DEF NoPing
  <2> QED BY <1>0, <1>4, <2>1, <2>2, PingFields DEF SameLink, ClientForm
<1>5. CASE Receive
  <2> DEFINE m == Head(down)
  <2>1. ReceiveOf(m)
    BY <1>0, <1>5, ReceiveFields
  <2>2. down \in Seq(Answer) /\ down # << >>
    BY <1>0, <2>1, ShapeTypes DEF ReceiveOf
  <2>3. m = down[1] /\ 1 \in DOMAIN down /\ \A i \in DOMAIN Tail(down) : i + 1 \in DOMAIN down /\ Tail(down)[i] = down[i + 1]
    BY <2>2, TailAt
  <2> HIDE DEF m
  <2>4. \A i \in DOMAIN down' : down'[i].t = "pong" => down'[i].r # 0
    BY <2>1, <2>3 DEF ReceiveOf, ClientForm
  <2>5. reply' = reply
    BY <2>1 DEF ReceiveOf, net
  <2>6. cl'.ping.got => cl'.ping.r # 0
    BY <2>1, <2>3 DEF ReceiveOf, ClientForm
  <2>7. cl'.ping.r = cl.ping.r
    BY <2>1 DEF ReceiveOf
  <2>8. /\ cl'.answer.id # 0 => cl'.answer.got
        /\ cl'.answer.got => cl'.conn # 0 /\ cl'.stage # "idle"
    <3>1. m.t = cl.stage => cl.stage # "idle"
      BY <2>1 DEF ReceiveOf, Answer
    <3> QED BY <2>1, <3>1 DEF ReceiveOf, SameLink, ClientForm
  <2> QED BY <2>1, <2>4, <2>5, <2>6, <2>7, <2>8 DEF ReceiveOf, SameLink, ClientForm
<1>6. CASE ResumeSucceeds
  <2>1. down' = down /\ reply' = reply
    BY <1>6 DEF ResumeSucceeds
  <2> QED BY <1>0, <1>6, <2>1, ResumeSucceedsFields DEF ClientForm
<1>7. CASE ResumeFails
  <2>1. down' = down /\ reply' = reply
    BY <1>7 DEF ResumeFails
  <2> QED BY <1>0, <1>7, <2>1, ResumeFailsFields DEF ClientForm
<1>8. CASE LoginSucceeds
  <2>1. down' = down /\ reply' = reply
    BY <1>8 DEF LoginSucceeds, net
  <2> QED BY <1>0, <1>8, <2>1, LoginSucceedsFields DEF ClientForm
<1>9. CASE PingAnswered /\ cl.ping.n = cl.recv
  <2>1. down' = down /\ reply' = reply
    BY <1>0, <1>9, PingAnsweredFields DEF net
  <2> QED BY <1>0, <1>9, <2>1, PingAnsweredFields DEF SameLink, ClientForm
<1> QED
  BY <1>1, <1>2, <1>3, <1>4, <1>5, <1>6, <1>7, <1>8, <1>9 DEF Client

LEMMA OpenedClient == TypeInv /\ ShapeInv /\ Client => Opened' /\ Gates' /\ \A c \in Conns : First(c)'
<1> SUFFICES ASSUME TypeInv, ShapeInv, Client PROVE Opened' /\ Gates' /\ \A c \in Conns : First(c)'
  OBVIOUS
<1>0. TypeOK /\ Opened /\ Gates /\ ClientForm /\ \A c \in Conns : First(c)
  BY DEF TypeInv, ShapeInv
<1> HIDE DEF TypeOK
<1>1. /\ cl.opened \in Nat /\ turn.c \in Nat /\ LiveConn \in Nat /\ cl.conn \in Nat
      /\ \A i \in DOMAIN queue : queue[i].c \in Conns
      /\ \A c \in Conns : c \in Nat /\ c # 0 /\ up[c] \in Seq(Messages)
      /\ gate \in [Conns -> {"none", "open", "bound", "closed"}] /\ up \in [Conns -> Seq(Messages)]
      /\ notices \subseteq Conns /\ (cl.conn # 0 => cl.conn \in Conns)
      /\ (LiveConn # 0 => LiveConn \in Conns) /\ (turn.t # "none" => turn.c \in Conns)
  BY <1>0, ShapeTypes
<1>2. CASE Connect
  <2> DEFINE c == cl.opened + 1
             m == IF cl.nonce # 0 THEN Resume ELSE Login
  <2>1. /\ c \in Conns /\ cl'.opened = c /\ cl'.conn = c /\ gate' = [gate EXCEPT ![c] = "open"]
        /\ up' = [up EXCEPT ![c] = <<m>>] /\ UNCHANGED <<notices, server>>
    <3>1. c \in Conns /\ cl'.opened = c /\ cl'.conn = c
      BY <1>0, <1>2, ConnectFields
    <3> QED BY <1>2, <3>1 DEF Connect
  <2>2. c > cl.opened /\ c \in Nat /\ \A d \in Conns : d > c => d > cl.opened /\ d # c
    BY <1>1
  <2> HIDE DEF c, m
  <2>3. gate[c] = "none" /\ up[c] = << >>
    BY <1>0, <2>1, <2>2 DEF Opened
  <2>4. Quiet(c)
    <3>1. LiveConn # c /\ turn.c # c /\ \A i \in DOMAIN queue : queue[i].c # c
      <4>1. \A k \in Nat : k <= cl.opened => k # c
        BY <1>1, <2>2
      <4>2. \A i \in DOMAIN queue : queue[i].c \in Nat
        BY <1>1
      <4> QED BY <1>0, <1>1, <4>1, <4>2 DEF Opened
    <3> QED BY <3>1 DEF Quiet
  <2>5. \A d \in Conns : d # c => gate'[d] = gate[d] /\ up'[d] = up[d]
    BY <1>1, <2>1
  <2>6. gate'[c] = "open" /\ up'[c] = <<m>>
    BY <1>1, <2>1
  <2>7. Opened'
    <3>1. \A k \in Nat : k <= cl.opened => k <= c
      BY <1>1, <2>2
    <3>2. \A i \in DOMAIN queue : queue[i].c \in Nat
      BY <1>1
    <3>3. UNCHANGED <<session, queue, turn>>
      BY <2>1 DEF server
    <3>4. \A d \in Conns : d > c => gate'[d] = "none" /\ up'[d] = << >>
      BY <1>0, <2>2, <2>5 DEF Opened
    <3> QED
      BY <1>0, <1>1, <2>1, <3>1, <3>2, <3>3, <3>4 DEF Opened, LiveConn
  <2>8. Gates'
    <3>1. UNCHANGED <<session, queue, turn, notices>>
      BY <2>1 DEF server
    <3>2. \A d \in Conns : gate[d] # "none" => gate'[d] = gate[d]
      BY <2>3, <2>5
    <3> QED
      BY <1>0, <1>1, <2>1, <2>6, <3>1, <3>2 DEF Gates, LiveConn
  <2>9. ASSUME NEW d \in Conns PROVE First(d)'
    <3>1. UNCHANGED <<session, queue, turn>>
      BY <2>1 DEF server
    <3>2. Quiet(d)' <=> Quiet(d)
      BY <3>1 DEF Quiet, LiveConn
    <3>3. CASE d = c
      <4>1. \A i \in DOMAIN up'[c] : i = 1
        BY <2>6
      <4> QED BY <2>4, <2>6, <3>2, <3>3, <4>1 DEF First
    <3>4. CASE d # c
      BY <1>0, <2>5, <3>2, <3>4 DEF First
    <3> QED BY <3>3, <3>4
  <2> QED BY <2>7, <2>8, <2>9
<1>3. CASE Says
  <2>1. UNCHANGED <<gate, notices, session, queue, turn>> /\ cl'.opened = cl.opened
    BY <1>3 DEF Says, server
  <2>2. ASSUME NEW c \in Conns
        PROVE  /\ up[c] = << >> /\ ~(c = cl.conn /\ Known(c)) => up'[c] = << >>
               /\ \A i \in DOMAIN up'[c] : \/ i \in DOMAIN up[c] /\ up'[c][i] = up[c][i]
                                           \/ up'[c][i].t # "resume"
    <3>1. CASE up' = up
      BY <3>1
    <3>2. ASSUME NEW ms \in Seq(Messages), Sends(ms), \A i \in DOMAIN ms : ms[i].t \in {"req", "ping", "login"}
          PROVE  /\ up[c] = << >> /\ ~(c = cl.conn /\ Known(c)) => up'[c] = << >>
                 /\ \A i \in DOMAIN up'[c] : \/ i \in DOMAIN up[c] /\ up'[c][i] = up[c][i]
                                             \/ up'[c][i].t # "resume"
      <4>1. CASE up'[c] = up[c]
        BY <4>1
      <4>2. CASE c = cl.conn /\ Known(c) /\ up'[c] = up[c] \o ms
        <5>1. up[c] \in Seq(Messages)
          BY <1>1
        <5>2. \A i \in DOMAIN (up[c] \o ms) : \/ i \in DOMAIN up[c] /\ (up[c] \o ms)[i] = up[c][i]
                                              \/ i - Len(up[c]) \in DOMAIN ms /\ (up[c] \o ms)[i] = ms[i - Len(up[c])]
          BY <5>1, <3>2, ConcatAt
        <5> QED BY <3>2, <4>2, <5>2
      <4> QED BY <1>0, <3>2, <4>1, <4>2, SendsAt
    <3> QED BY <1>3, <3>1, <3>2 DEF Says
  <2>3. Opened'
    <3>1. \A c \in Conns : c > cl.opened => gate'[c] = "none" /\ up'[c] = << >>
      BY <1>0, <2>1, <2>2 DEF Opened, Known
    <3> QED BY <1>0, <2>1, <3>1 DEF Opened, LiveConn
  <2>4. Gates'
    <3>1. cl'.conn = cl.conn \/ cl'.conn = 0
      BY <1>3 DEF Says
    <3> QED BY <1>0, <2>1, <3>1 DEF Gates, LiveConn
  <2>5. \A c \in Conns : First(c)'
    <3>1. \A c \in Conns : Quiet(c)' <=> Quiet(c)
      BY <2>1 DEF Quiet, LiveConn
    <3> QED BY <1>0, <2>1, <2>2, <3>1 DEF First
  <2> QED BY <2>3, <2>4, <2>5
<1> QED BY <1>2, <1>3, ClientSays

LEMMA ShapeStep == TypeInv /\ CredentialInv /\ ShapeInv /\ [Next]_vars => ShapeInv'
<1> SUFFICES ASSUME TypeInv, CredentialInv, ShapeInv, [Next]_vars PROVE ShapeInv'
  OBVIOUS
<1>1. CASE Serving
  <2>1. Serves
    BY <1>1, ServingServes
  <2>2. \A c \in Conns : First(c)'
    BY <2>1, FirstServes
  <2> QED BY <1>1, <2>1, <2>2, OpenedServes, FormServes DEF ShapeInv
<1>2. CASE Client
  <2>1. OutForm'
    <3>1. io' = io
      BY <1>2 DEF Client, Connect, Drop, Call, Ping, Receive, ResumeSucceeds, ResumeFails, LoginSucceeds,
         LoginFails, PingAnswered, server
    <3> QED BY <3>1 DEF ShapeInv, OutForm
  <2> QED BY <1>2, <2>1, OpenedClient, FormClient DEF ShapeInv
<1>3. CASE UNCHANGED vars
  <2>1. UNCHANGED <<gate, up, reply, notices, down, session, io, queue, turn, cl>>
    BY <1>3 DEF vars, net, server
  <2> QED BY <2>1 DEF ShapeInv, ClientForm, OutForm, Opened, Gates, First, Quiet, LiveConn
<1> QED BY <1>1, <1>2, <1>3 DEF Next, Serving

LEMMA InitShape == Init => ShapeInv
<1> SUFFICES ASSUME Init PROVE ShapeInv
  OBVIOUS
<1>1. /\ NoConn.c = 0 /\ NoTurn.c = 0 /\ NoTurn.t = "none" /\ NoIO.out = {} /\ NoAnswer.id = 0 /\ ~NoAnswer.got
      /\ NoPing.r = 0 /\ ~NoPing.got
  BY DEF NoConn, NoTurn, NoIO, NoAnswer, NoPing
<1>2. /\ cl.conn = 0 /\ cl.opened = 0 /\ ~cl.online /\ cl.stage = "idle" /\ cl.answer = NoAnswer /\ cl.ping = NoPing
      /\ down = << >> /\ reply = << >> /\ notices = {} /\ session = NoConn /\ io = NoIO /\ queue = << >> /\ turn = NoTurn
      /\ \A c \in Conns : gate[c] = "none" /\ up[c] = << >>
  BY DEF Init
<1> QED
  BY <1>1, <1>2 DEF ShapeInv, ClientForm, OutForm, Opened, Gates, First, LiveConn

-----------------------------------------------------------------------------
(* What the client has sent on connection c and the entity has not done: on  *)
(* the connection, in the queue, or in its turn.                            *)

Fits(m, t, n, id) == m.t = t /\ (t \in {"resume", "ping"} => m.n = n) /\ (t = "resume" => m.id = id)

Way(c, t, n, id) ==
    \/ \E i \in DOMAIN up[c] : Fits(up[c][i], t, n, id)
    \/ \E i \in DOMAIN queue : queue[i].c = c /\ Fits(queue[i], t, n, id)
    \/ turn.c = c /\ Fits(turn, t, n, id)

(* It is there once; requests are told apart by their ids.                   *)
Is(m, t, r)      == m.t = t /\ (t = "req" => m.r = r)
InUp(c, t, r)    == \E i \in DOMAIN up[c] : Is(up[c][i], t, r)
InQueue(c, t, r) == \E i \in DOMAIN queue : queue[i].c = c /\ Is(queue[i], t, r)
InTurn(c, t, r)  == turn.c = c /\ Is(turn, t, r)

Single(c, t, r) ==
    /\ \A i, j \in DOMAIN up[c] : Is(up[c][i], t, r) /\ Is(up[c][j], t, r) => i = j
    /\ \A i, j \in DOMAIN queue :
          queue[i].c = c /\ Is(queue[i], t, r) /\ queue[j].c = c /\ Is(queue[j], t, r) => i = j
    /\ InUp(c, t, r) => ~InQueue(c, t, r) /\ ~InTurn(c, t, r)
    /\ InQueue(c, t, r) => ~InTurn(c, t, r)

LEMMA WayServes ==
    ASSUME TypeInv, ShapeInv, Serves, NEW c \in Conns, NEW t \in {"login", "resume", "req", "ping"}, NEW n, NEW id,
           Way(c, t, n, id)'
    PROVE  Way(c, t, n, id)
<1>0. TypeOK /\ NoTurn.t = "none" /\ up[c] \in Seq(Messages) /\ First(c)
  BY ShapeTypes DEF TypeInv, ShapeInv, NoTurn
<1> HIDE DEF TypeOK
<1>1. ASSUME NEW i \in DOMAIN up'[c], Fits(up'[c][i], t, n, id) PROVE Way(c, t, n, id)
  <2>1. CASE up'[c] = up[c]
    BY <1>1, <2>1 DEF Way
  <2>2. CASE up'[c] = << >>
    BY <1>1, <2>2
  <2>3. CASE up[c] # << >> /\ up'[c] = Tail(up[c])
    BY <1>0, <1>1, <2>3, TailAt DEF Way
  <2> QED BY <1>0, <2>1, <2>2, <2>3, UpFrom
<1>2. ASSUME NEW i \in DOMAIN queue', queue'[i].c = c, Fits(queue'[i], t, n, id) PROVE Way(c, t, n, id)
  <2>1. CASE \E j \in DOMAIN queue : queue'[i] = queue[j]
    BY <1>2, <2>1 DEF Way
  <2>2. ASSUME NEW d \in Conns, up[d] # << >>, Becomes(Head(up[d]), d, queue'[i]) PROVE Way(c, t, n, id)
    <3>1. d = c
      BY <1>2, <2>2 DEF Becomes
    <3>2. 1 \in DOMAIN up[c] /\ Head(up[c]) = up[c][1]
      BY <1>0, <2>2, <3>1, TailAt
    <3>3. up[c][1].t = "resume" => gate[c] # "bound"
      BY <1>0, <3>2 DEF First
    <3>4. Fits(up[c][1], t, n, id)
      BY <1>2, <2>2, <3>1, <3>2, <3>3 DEF Becomes, Fits
    <3> QED BY <3>2, <3>4 DEF Way
  <2>3. CASE queue'[i].t = "closed"
    BY <1>2, <2>3 DEF Fits
  <2> QED BY <1>0, <2>1, <2>2, <2>3, QueueFrom
<1>3. ASSUME turn'.c = c, Fits(turn', t, n, id) PROVE Way(c, t, n, id)
  <2>1. turn' # NoTurn
    BY <1>0, <1>3 DEF Fits
  <2>2. CASE turn' = turn
    BY <1>3, <2>2 DEF Way
  <2>3. CASE 1 \in DOMAIN queue /\ SameTask(turn', queue[1])
    BY <1>3, <2>3 DEF Way, Fits, SameTask
  <2> QED BY <1>0, <2>1, <2>2, <2>3, TurnFrom
<1> QED BY <1>1, <1>2, <1>3 DEF Way

LEMMA SingleServes ==
    ASSUME TypeInv, Serves, NEW c \in Conns, NEW t \in {"login", "req"}, NEW r, Single(c, t, r)
    PROVE  Single(c, t, r)'
<1>0. TypeOK /\ NoTurn.t = "none" /\ up[c] \in Seq(Messages) /\ queue \in Seq(Tasks) /\ up \in [Conns -> Seq(Messages)]
  BY ShapeTypes DEF TypeInv, NoTurn
<1> HIDE DEF TypeOK
<1>1. CASE Shrinks
  <2>1. \A i \in DOMAIN up'[c] : i \in DOMAIN up[c] /\ up'[c][i] = up[c][i]
    BY <1>1 DEF Shrinks
  <2>2. CASE queue' = queue /\ (turn' = turn \/ turn' = NoTurn)
    BY <1>0, <2>1, <2>2 DEF Single, InUp, InQueue, InTurn, Is
  <2>3. CASE queue # << >> /\ queue' = Tail(queue) /\ turn = NoTurn /\ (turn' = NoTurn \/ SameTask(turn', Head(queue)))
    <3>1. /\ 1 \in DOMAIN queue /\ Head(queue) = queue[1]
          /\ \A i \in DOMAIN queue' : i \in Nat /\ i + 1 \in DOMAIN queue /\ i + 1 # 1 /\ queue'[i] = queue[i + 1]
      BY <1>0, <2>3, TailAt
    <3>2. \A i, j \in DOMAIN queue' :
             queue'[i].c = c /\ Is(queue'[i], t, r) /\ queue'[j].c = c /\ Is(queue'[j], t, r) => i = j
      <4> SUFFICES ASSUME NEW i \in DOMAIN queue', NEW j \in DOMAIN queue', queue'[i].c = c, Is(queue'[i], t, r),
                          queue'[j].c = c, Is(queue'[j], t, r)
                   PROVE  i = j
        OBVIOUS
      <4>1. i + 1 = j + 1
        BY <3>1 DEF Single
      <4> QED BY <3>1, <4>1
    <3>3. InQueue(c, t, r)' => InQueue(c, t, r)
      BY <3>1 DEF InQueue
    <3>4. InTurn(c, t, r)' => queue[1].c = c /\ Is(queue[1], t, r)
      BY <1>0, <2>3, <3>1 DEF InTurn, Is, SameTask
    <3>5. InTurn(c, t, r)' => InQueue(c, t, r) /\ ~InQueue(c, t, r)'
      BY <3>1, <3>4 DEF Single, InQueue
    <3>6. InUp(c, t, r)' => InUp(c, t, r)
      BY <2>1 DEF InUp
    <3> QED BY <2>1, <3>2, <3>3, <3>5, <3>6 DEF Single
  <2> QED BY <1>1, <2>2, <2>3 DEF Shrinks
<1>2. ASSUME NEW d \in Conns, Forwards(d) PROVE Single(c, t, r)'
  <2>0. turn' = turn /\ up' = [up EXCEPT ![d] = Tail(@)] /\ up[d] # << >>
        /\ (queue' = queue \/ \E q \in Tasks : Becomes(Head(up[d]), d, q) /\ queue' = Append(queue, q))
    BY <1>2 DEF Forwards
  <2>1. CASE d # c
    <3>1. up'[c] = up[c]
      BY <1>0, <2>0, <2>1
    <3>2. \A i \in DOMAIN queue' : queue'[i].c = c => i \in DOMAIN queue /\ queue'[i] = queue[i]
      <4>1. CASE queue' = queue
        BY <4>1
      <4>2. ASSUME NEW q \in Tasks, Becomes(Head(up[d]), d, q), queue' = Append(queue, q),
                   NEW i \in DOMAIN queue', queue'[i].c = c
            PROVE  i \in DOMAIN queue /\ queue'[i] = queue[i]
        <5>1. q.c # c
          BY <2>1, <4>2 DEF Becomes
        <5> QED BY <1>0, <4>2, <5>1, AppendAt
      <4> QED BY <2>0, <4>1, <4>2
    <3> QED BY <2>0, <3>1, <3>2 DEF Single, InUp, InQueue, InTurn
  <2>2. CASE d = c
    <3>1. up'[c] = Tail(up[c]) /\ up[c] # << >>
      BY <1>0, <2>0, <2>2
    <3>2. /\ 1 \in DOMAIN up[c] /\ Head(up[c]) = up[c][1]
          /\ \A i \in DOMAIN up'[c] : i \in Nat /\ i + 1 \in DOMAIN up[c] /\ i + 1 # 1 /\ up'[c][i] = up[c][i + 1]
      BY <1>0, <3>1, TailAt
    <3>3. \A i, j \in DOMAIN up'[c] : Is(up'[c][i], t, r) /\ Is(up'[c][j], t, r) => i = j
      <4> SUFFICES ASSUME NEW i \in DOMAIN up'[c], NEW j \in DOMAIN up'[c], Is(up'[c][i], t, r), Is(up'[c][j], t, r)
                   PROVE  i = j
        OBVIOUS
      <4>1. i + 1 = j + 1
        BY <3>2 DEF Single
      <4> QED BY <3>2, <4>1
    <3>4. InUp(c, t, r)' => InUp(c, t, r) /\ ~Is(up[c][1], t, r)
      BY <3>2 DEF InUp, Single
    <3>5. CASE queue' = queue
      BY <2>0, <3>3, <3>4, <3>5 DEF Single, InQueue, InTurn
    <3>6. ASSUME NEW q \in Tasks, Becomes(Head(up[c]), c, q), queue' = Append(queue, q) PROVE Single(c, t, r)'
      <4>1. Is(q, t, r) => Is(up[c][1], t, r) /\ InUp(c, t, r)
        BY <3>2, <3>6 DEF Becomes, Is, InUp
      <4>2. \A i \in DOMAIN queue' : (i \in DOMAIN queue /\ queue'[i] = queue[i]) \/ (i = Len(queue) + 1 /\ queue'[i] = q)
        BY <1>0, <3>6, AppendAt
      <4>3. InQueue(c, t, r)' => InQueue(c, t, r) \/ Is(q, t, r)
        BY <4>2 DEF InQueue
      <4>4. InTurn(c, t, r)' <=> InTurn(c, t, r)
        BY <2>0 DEF InTurn
      <4>5. CASE Is(q, t, r)
        <5>1. ~InQueue(c, t, r) /\ ~InTurn(c, t, r) /\ ~InUp(c, t, r)'
          BY <3>4, <4>1, <4>5 DEF Single
        <5>2. \A i \in DOMAIN queue' : queue'[i].c = c /\ Is(queue'[i], t, r) => i = Len(queue) + 1
          BY <4>2, <5>1 DEF InQueue
        <5> QED BY <3>3, <4>4, <5>1, <5>2 DEF Single
      <4>6. CASE ~Is(q, t, r)
        <5>1. \A i \in DOMAIN queue' : Is(queue'[i], t, r) => i \in DOMAIN queue /\ queue'[i] = queue[i]
          BY <4>2, <4>6
        <5> QED BY <3>3, <3>4, <4>3, <4>4, <4>6, <5>1 DEF Single
      <4> QED BY <4>5, <4>6
    <3> QED BY <2>0, <2>2, <3>5, <3>6
  <2> QED BY <2>1, <2>2
<1>3. ASSUME NEW d \in Conns, Notices(d) PROVE Single(c, t, r)'
  <2>1. PICK q \in Tasks : q.t = "closed" /\ q.c = d /\ queue' = Append(queue, q)
    BY <1>3 DEF Notices
  <2>2. up' = up /\ turn' = turn
    BY <1>3 DEF Notices
  <2>3. \A i \in DOMAIN queue' : Is(queue'[i], t, r) => i \in DOMAIN queue /\ queue'[i] = queue[i]
    <3>1. ~Is(q, t, r)
      BY <2>1 DEF Is
    <3> QED BY <1>0, <2>1, <3>1, AppendAt
  <2> QED BY <2>2, <2>3 DEF Single, InUp, InQueue, InTurn
<1> QED BY <1>1, <1>2, <1>3 DEF Serves

(* What the client sends joins what is under way on its connection.          *)
LEMMA WaySends ==
    ASSUME TypeInv, NEW ms \in Seq(Messages), Sends(ms), UNCHANGED <<queue, turn>>,
           NEW c \in Conns, NEW t, NEW n, NEW id, Way(c, t, n, id)'
    PROVE  \/ Way(c, t, n, id)
           \/ c = cl.conn /\ \E i \in DOMAIN ms : Fits(ms[i], t, n, id)
<1>0. TypeOK /\ up[c] \in Seq(Messages)
  BY ShapeTypes DEF TypeInv
<1> HIDE DEF TypeOK
<1>1. ASSUME NEW i \in DOMAIN up'[c], Fits(up'[c][i], t, n, id)
      PROVE  \/ Way(c, t, n, id)
             \/ c = cl.conn /\ \E j \in DOMAIN ms : Fits(ms[j], t, n, id)
  <2>1. CASE up'[c] = up[c]
    BY <1>1, <2>1 DEF Way
  <2>2. CASE c = cl.conn /\ up'[c] = up[c] \o ms
    BY <1>0, <1>1, <2>2, ConcatAt DEF Way
  <2> QED BY <1>0, <2>1, <2>2, SendsAt
<1> QED BY <1>1 DEF Way

LEMMA WaySame ==
    ASSUME UNCHANGED <<up, queue, turn>>, NEW c, NEW t, NEW n, NEW id, Way(c, t, n, id)'
    PROVE  Way(c, t, n, id)
BY DEF Way

(* Nothing is under way on a connection that is not opened yet.              *)
LEMMA NewConn ==
    TypeInv /\ ShapeInv /\ Connect =>
        /\ cl.opened + 1 \in Conns /\ cl'.conn = cl.opened + 1 /\ cl'.conn # 0 /\ LiveConn # cl'.conn /\ up[cl'.conn] = << >>
        /\ Quiet(cl'.conn)
<1> SUFFICES ASSUME TypeInv, ShapeInv, Connect
             PROVE  /\ cl.opened + 1 \in Conns /\ cl'.conn = cl.opened + 1 /\ cl'.conn # 0 /\ LiveConn # cl'.conn
                    /\ up[cl'.conn] = << >> /\ Quiet(cl'.conn)
  OBVIOUS
<1>0. TypeOK /\ Opened
  BY DEF TypeInv, ShapeInv
<1>1. cl'.conn = cl.opened + 1 /\ cl.opened + 1 \in Conns
  BY <1>0, ConnectFields
<1>2. /\ cl.opened \in Nat /\ turn.c \in Nat /\ LiveConn \in Nat /\ \A i \in DOMAIN queue : queue[i].c \in Conns
      /\ \A c \in Conns : c \in Nat /\ c # 0
  BY <1>0, ShapeTypes
<1>3. cl.opened + 1 > cl.opened /\ \A k \in Nat : k <= cl.opened => k # cl.opened + 1
  BY <1>2
<1>4. \A i \in DOMAIN queue : queue[i].c \in Nat
  BY <1>2
<1>5. LiveConn # cl.opened + 1 /\ turn.c # cl.opened + 1 /\ \A i \in DOMAIN queue : queue[i].c # cl.opened + 1
  BY <1>0, <1>2, <1>3, <1>4 DEF Opened
<1>6. up[cl.opened + 1] = << >>
  BY <1>0, <1>1, <1>3 DEF Opened
<1>7. Quiet(cl.opened + 1)
  BY <1>5 DEF Quiet
<1> QED BY <1>1, <1>2, <1>5, <1>6, <1>7

LEMMA WayConnect ==
    ASSUME TypeInv, ShapeInv, Connect, NEW c \in Conns, NEW t, NEW n, NEW id, Way(c, t, n, id)', t # "none"
    PROVE  \/ c # cl'.conn /\ Way(c, t, n, id)
           \/ c = cl'.conn /\ cl.nonce # 0 /\ t = "resume" /\ n = cl.recv /\ id = cl.nonce
           \/ c = cl'.conn /\ cl.nonce = 0 /\ t = "login"
<1> DEFINE m == IF cl.nonce # 0 THEN Resume ELSE Login
<1>1. UNCHANGED <<queue, turn>> /\ up' = [up EXCEPT ![cl'.conn] = <<m>>] /\ cl'.conn \in Conns
  <2>1. cl'.conn = cl.opened + 1 /\ cl.opened + 1 \in Conns
    BY NewConn
  <2> QED BY <2>1 DEF Connect, server
<1>2. up \in [Conns -> Seq(Messages)]
  BY DEF TypeInv, TypeOK
<1>3. CASE c # cl'.conn
  <2>1. up'[c] = up[c]
    BY <1>1, <1>2, <1>3
  <2> QED BY <1>1, <1>3, <2>1 DEF Way
<1>4. CASE c = cl'.conn
  <2>1. DOMAIN up'[c] = {1} /\ up'[c][1] = m
    BY <1>1, <1>2, <1>4
  <2>2. Quiet(c)
    BY <1>4, NewConn
  <2>3. Fits(m, t, n, id)
    BY <1>1, <2>1, <2>2 DEF Way, Quiet
  <2>4. CASE cl.nonce # 0
    BY <1>4, <2>3, <2>4 DEF Fits, Resume, Message
  <2>5. CASE cl.nonce = 0
    BY <1>4, <2>3, <2>5 DEF Fits, Login, Message
  <2> QED BY <2>4, <2>5
<1> QED BY <1>3, <1>4

LEMMA ClientWay ==
    ASSUME TypeInv, ShapeInv, Client, NEW c \in Conns, NEW t \in {"login", "resume", "req", "ping"}, NEW n, NEW id,
           Way(c, t, n, id)'
    PROVE  \/ Way(c, t, n, id) /\ (Connect => c # cl'.conn)
           \/ Connect /\ c = cl'.conn /\ cl.nonce # 0 /\ t = "resume" /\ n = cl.recv /\ id = cl.nonce
           \/ Connect /\ c = cl'.conn /\ cl.nonce = 0 /\ t = "login"
           \/ (Call \/ ResumeSucceeds) /\ c = cl.conn /\ t = "req"
           \/ Ping /\ c = cl.conn /\ t = "ping" /\ n = cl.recv
           \/ ResumeFails /\ c = cl.conn /\ t = "login"
<1>0. TypeOK
  BY DEF TypeInv
<1> HIDE DEF TypeOK
<1>1. CASE Connect
  BY <1>1, WayConnect
<1>2. CASE Drop \/ LoginFails \/ (PingAnswered /\ cl.ping.n # cl.recv)
  <2>1. UNCHANGED <<up, queue, turn>> /\ cl'.conn = 0
    BY <1>0, <1>2, GivesUpFields DEF GivesUp, server
  <2>2. ~Connect
    BY <2>1, NewConn
  <2> QED BY <2>1, <2>2, WaySame
<1>3. CASE Call
  <2> DEFINE x == Message("req", cl.next + 1, 0, 0)
  <2>1. <<x>> \in Seq(Messages) /\ Sends(<<x>>) /\ UNCHANGED <<queue, turn>>
    BY <1>0, <1>3, CallFields DEF Call, server
  <2>2. \A i \in DOMAIN <<x>> : <<x>>[i].t = "req"
    BY DEF Message
  <2> HIDE DEF x
  <2>5. \A i \in DOMAIN <<x>> : Fits(<<x>>[i], t, n, id) => t = "req"
    BY <2>2 DEF Fits
  <2>3. Way(c, t, n, id) \/ (c = cl.conn /\ t = "req")
    BY <2>1, <2>5, WaySends
  <2>4. ~Connect \/ (Connect /\ c # cl'.conn /\ Way(c, t, n, id))
              \/ (Connect /\ c = cl'.conn /\ cl.nonce # 0 /\ t = "resume" /\ n = cl.recv /\ id = cl.nonce)
              \/ (Connect /\ c = cl'.conn /\ cl.nonce = 0 /\ t = "login")
    BY WayConnect
  <2> QED BY <1>3, <2>3, <2>4
<1>4. CASE Ping
  <2> DEFINE x == Message("ping", cl.next + 1, cl.recv, 0)
  <2>1. <<x>> \in Seq(Messages) /\ Sends(<<x>>) /\ UNCHANGED <<queue, turn>>
    BY <1>0, <1>4, PingFields DEF Ping, server
  <2>2. \A i \in DOMAIN <<x>> : <<x>>[i].t = "ping" /\ <<x>>[i].n = cl.recv
    BY DEF Message
  <2> HIDE DEF x
  <2>5. \A i \in DOMAIN <<x>> : Fits(<<x>>[i], t, n, id) => t = "ping" /\ n = cl.recv
    BY <2>2 DEF Fits
  <2>3. Way(c, t, n, id) \/ (c = cl.conn /\ t = "ping" /\ n = cl.recv)
    BY <2>1, <2>5, WaySends
  <2>4. ~Connect
    BY <1>4 DEF Ping, Connect
  <2> QED BY <1>4, <2>3, <2>4
<1>5. CASE Receive
  <2>1. UNCHANGED <<up, queue, turn>> /\ cl.conn # 0
    BY <1>5 DEF Receive, net, server
  <2>2. ~Connect
    BY <2>1 DEF Connect
  <2> QED BY <2>1, <2>2, WaySame
<1>6. CASE ResumeSucceeds
  <2>1. UNCHANGED <<queue, turn>> /\ Resend /\ ~Connect
    BY <1>6 DEF ResumeSucceeds, Connect, server
  <2>2. PICK ms \in Seq(Messages) : Sends(ms) /\ \A i \in DOMAIN ms : ms[i].t = "req"
    BY <1>0, <2>1, ResendSends
  <2>3. Way(c, t, n, id) \/ (c = cl.conn /\ t = "req")
    BY <2>1, <2>2, WaySends DEF Fits
  <2> QED BY <1>6, <2>1, <2>3
<1>7. CASE ResumeFails
  <2>1. UNCHANGED <<queue, turn>> /\ Sends(<<Login>>) /\ ~Connect
    BY <1>7 DEF ResumeFails, Connect, server
  <2>2. Login \in Messages /\ Login.t = "login"
    BY <1>0, ClientFacts DEF Login, Message
  <2>3. <<Login>> \in Seq(Messages) /\ \A i \in DOMAIN <<Login>> : <<Login>>[i].t = "login"
    BY <2>2, OneAt
  <2>5. \A i \in DOMAIN <<Login>> : Fits(<<Login>>[i], t, n, id) => t = "login"
    BY <2>3 DEF Fits
  <2>4. Way(c, t, n, id) \/ (c = cl.conn /\ t = "login")
    BY <2>1, <2>3, <2>5, WaySends
  <2> QED BY <1>7, <2>1, <2>4
<1>8. CASE LoginSucceeds
  <2>1. UNCHANGED <<up, queue, turn>> /\ ~Connect
    BY <1>8 DEF LoginSucceeds, Connect, net, server
  <2> QED BY <2>1, WaySame
<1>9. CASE PingAnswered /\ cl.ping.n = cl.recv
  <2>1. UNCHANGED <<up, queue, turn>> /\ SameLink
    BY <1>0, <1>9, PingAnsweredFields DEF net, server
  <2>2. ~Connect
    <3>1. Connect => cl.conn = 0 /\ cl'.conn # 0
      BY NewConn DEF Connect
    <3> QED BY <2>1, <3>1 DEF SameLink
  <2> QED BY <2>1, <2>2, WaySame
<1> QED BY <1>1, <1>2, <1>3, <1>4, <1>5, <1>6, <1>7, <1>8, <1>9 DEF Client

-----------------------------------------------------------------------------
(* What is on its way to the client: a credential that a login or a resume   *)
(* was granted, packages, and errors of the login service.                  *)

GrantIn(q, t, id) == \E i \in DOMAIN q : q[i].t = t /\ q[i].gen = id

Grant(t, id) ==
    id # 0 /\ (GrantIn(reply, t, id) \/ GrantIn(down, t, id) \/ (cl.stage = t /\ cl.answer.id = id))

Reaches(t) == \E i \in DOMAIN down : down[i].t = t

LEMMA GrantJoined ==
    ASSUME NEW q \in Seq(Answer), NEW s \in Seq(Answer), NEW t, NEW id, GrantIn(q \o s, t, id)
    PROVE  GrantIn(q, t, id) \/ GrantIn(s, t, id)
BY ConcatAt DEF GrantIn

LEMMA GrantAppended ==
    ASSUME NEW q \in Seq(Answer), NEW x \in Answer, NEW t, NEW id, GrantIn(Append(q, x), t, id)
    PROVE  GrantIn(q, t, id) \/ (x.t = t /\ x.gen = id)
BY AppendAt DEF GrantIn

LEMMA GrantTail ==
    ASSUME NEW q \in Seq(Answer), q # << >>, NEW t, NEW id, GrantIn(Tail(q), t, id)
    PROVE  GrantIn(q, t, id)
BY TailAt DEF GrantIn

LEMMA GotOne ==
    ASSUME NEW q \in Seq(Answer), NEW x \in Answer, NEW i \in DOMAIN (q \o <<x>>)
    PROVE  \/ i \in DOMAIN q /\ (q \o <<x>>)[i] = q[i]
           \/ i = Len(q) + 1 /\ (q \o <<x>>)[i] = x
<1>1. <<x>> \in Seq(Answer) /\ DOMAIN <<x>> = {1} /\ <<x>>[1] = x
  BY OneAt
<1>2. \/ i \in DOMAIN q /\ (q \o <<x>>)[i] = q[i]
      \/ i - Len(q) \in DOMAIN <<x>> /\ (q \o <<x>>)[i] = <<x>>[i - Len(q)]
  BY <1>1, ConcatAt
<1>3. i \in Nat /\ Len(q) \in Nat
  <2>1. DOMAIN (q \o <<x>>) = 1 .. (Len(q) + Len(<<x>>)) /\ Len(q) \in Nat
    BY <1>1, ConcatAt
  <2> QED BY <2>1
<1>4. i - Len(q) = 1 => i = Len(q) + 1
  BY <1>3
<1> QED BY <1>1, <1>2, <1>4

LEMMA DownTypes ==
    TypeInv => down \in Seq(Answer) /\ reply \in Seq(Answer) /\ issued \in Nat /\ io \in IOs /\ io.gen \in Nat
               /\ io.sent \in Nat /\ io.nonce \in Nat /\ cl.gen \in Nat /\ cl.nonce \in Nat /\ cl.recv \in Nat
               /\ io.acked \in Nat
<1> SUFFICES ASSUME TypeInv
             PROVE  down \in Seq(Answer) /\ reply \in Seq(Answer) /\ issued \in Nat /\ io \in IOs /\ io.gen \in Nat
                    /\ io.sent \in Nat /\ io.nonce \in Nat /\ cl.gen \in Nat /\ cl.nonce \in Nat /\ cl.recv \in Nat
                    /\ io.acked \in Nat
  OBVIOUS
<1>1. down \in Seq(Answer) /\ reply \in Seq(Answer) /\ issued \in Nat /\ io \in IOs /\ TypeOK
  BY DEF TypeInv, TypeOK
<1>2. io.gen \in Nat /\ io.sent \in Nat /\ io.nonce \in Nat /\ io.acked \in Nat
  BY <1>1 DEF IOs
<1>3. cl.gen \in Nat /\ cl.nonce \in Nat /\ cl.recv \in Nat
  <2>1. cl \in Clients
    BY <1>1 DEF TypeOK
  <2> QED BY <2>1 DEF Clients
<1> QED BY <1>1, <1>2, <1>3

(* The package that StreamSends sends.                                       *)
LEMMA SentPack ==
    ASSUME TypeInv, StreamSends
    PROVE  /\ io # NoIO
           /\ \/ down' = down
              \/ /\ LiveConn = cl.conn /\ cl.conn # 0 /\ Known(cl.conn)
                 /\ \E x \in Answer : x.t = "pack" /\ x.gen = io.gen /\ x.seq = io.sent + 1 /\ down' = down \o <<x>>
           /\ LiveConn = cl.conn /\ cl.conn # 0 /\ Known(cl.conn) =>
                 \E x \in Answer : x.t = "pack" /\ x.gen = io.gen /\ x.seq = io.sent + 1 /\ down' = down \o <<x>>
<1>1. PICK r \in Nat : IoSends(r) /\ ToClient(LiveConn, <<Pack(io.gen, io.sent + 1, r)>>)
  BY DEF StreamSends
<1>2. io.gen \in Nat /\ io.sent + 1 \in Nat
  <2>1. io.gen \in Nat /\ io.sent \in Nat
    BY DownTypes
  <2> QED BY <2>1
<1> DEFINE x == Pack(io.gen, io.sent + 1, r)
<1>3. x \in Answer /\ x.t = "pack" /\ x.gen = io.gen /\ x.seq = io.sent + 1
  BY <1>2, PackFacts
<1>4. down' = IF LiveConn # 0 /\ LiveConn = cl.conn /\ Known(LiveConn) THEN down \o <<x>> ELSE down
  BY <1>1 DEF ToClient
<1> HIDE DEF x
<1> QED BY <1>1, <1>3, <1>4 DEF IoSends

(* What reaches the client in a step of the others.                          *)
LEMMA DownFrom ==
    ASSUME TypeInv, CredentialInv, ShapeInv, Serving, NEW i \in DOMAIN down'
    PROVE  \/ i \in DOMAIN down /\ down'[i] = down[i]
           \/ i \notin DOMAIN down /\ cl.conn # 0 /\
              \/ /\ StreamSends /\ LiveConn = cl.conn /\ Known(cl.conn)
                 /\ down'[i].t = "pack" /\ down'[i].gen = io.gen /\ down'[i].seq = io.sent + 1
              \/ StreamQuiet /\ Chat(down'[i])
              \/ PingTurn /\ down'[i].t = "pong"
              \/ /\ Resumes /\ turn.c = cl.conn /\ down'[i].t = "pack" /\ down'[i].gen = io.gen
                 /\ \E k \in 1 .. (io.sent - io'.acked) : down'[i].seq = io'.acked + k /\ i = Len(down) + k
              \/ LoginReplies /\ 1 \in DOMAIN reply /\ down'[i] = reply[1] /\ reply[1].t \in {"resume", "login"}
<1>0. /\ TypeOK /\ down \in Seq(Answer) /\ io.gen \in Nat /\ io.sent \in Nat /\ ClientForm /\ OutForm
      /\ DOMAIN down = 1 .. Len(down) /\ Len(down) \in Nat
  BY DownTypes DEF TypeInv, ShapeInv
<1> HIDE DEF TypeOK
<1>1. ASSUME NEW x \in Answer, down' = down \o <<x>>
      PROVE  (i \in DOMAIN down /\ down'[i] = down[i]) \/ (i \notin DOMAIN down /\ down'[i] = x)
  <2>1. Len(down) + 1 \notin DOMAIN down
    BY <1>0
  <2> QED BY <1>0, <1>1, <2>1, GotOne
<1>2. CASE StreamSends
  <2>1. CASE down' = down
    BY <2>1
  <2>2. CASE down' # down
    <3>1. PICK x \in Answer : x.t = "pack" /\ x.gen = io.gen /\ x.seq = io.sent + 1 /\ down' = down \o <<x>>
      BY <1>2, <2>2, SentPack
    <3>2. LiveConn = cl.conn /\ cl.conn # 0 /\ Known(cl.conn)
      BY <1>2, <2>2, SentPack
    <3> QED BY <1>1, <1>2, <3>1, <3>2
  <2> QED BY <2>1, <2>2
<1>3. CASE StreamQuiet
  <2>1. CASE down' = down
    BY <2>1
  <2>2. ASSUME NEW x, cl.conn # 0, Chat(x), down' = down \o <<x>>
        PROVE  \/ i \in DOMAIN down /\ down'[i] = down[i]
               \/ i \notin DOMAIN down /\ cl.conn # 0 /\ StreamQuiet /\ Chat(down'[i])
    <3>1. x \in Answer
      BY <2>2 DEF Chat
    <3> QED BY <1>1, <1>3, <2>2, <3>1
  <2> QED BY <1>3, <2>1, <2>2 DEF StreamQuiet
<1>4. CASE LoginReplies
  <2>1. /\ Head(reply) \in Answer /\ 1 \in DOMAIN reply /\ Head(reply) = reply[1]
        /\ down' = down \/ (cl.conn # 0 /\ down' = down \o <<Head(reply)>>)
    BY <1>0, <1>4, RepliesFields
  <2>2. reply[1].t \in {"resume", "login"}
    BY <1>0, <2>1 DEF ClientForm
  <2> QED BY <1>1, <1>4, <2>1, <2>2
<1>5. CASE PingTurn
  <2>1. PICK n, r : PingOf(n, r)
    BY <1>5, PingTurnFields
  <2> DEFINE x == Pong(io.sent, r)
  <2>2. x \in Answer /\ x.t = "pong" /\ ToClient(LiveConn, <<x>>)
    BY <2>1 DEF PingOf, Pong
  <2> HIDE DEF x
  <2>3. down' = down \/ (cl.conn # 0 /\ down' = down \o <<x>>)
    BY <2>2 DEF ToClient
  <2> QED BY <1>1, <1>5, <2>2, <2>3
<1>6. CASE Resumes
  <2>1. ResumesOf
    BY <1>0, <1>6, ResumesFields
  <2> DEFINE ms == Replay(io')
  <2>2. /\ ms \in Seq(Answer) /\ DOMAIN ms = 1 .. (io.sent - io'.acked)
        /\ \A k \in 1 .. (io.sent - io'.acked) : ms[k].t = "pack" /\ ms[k].gen = io.gen /\ ms[k].seq = io'.acked + k
        /\ down' = (IF turn.c # 0 /\ turn.c = cl.conn /\ Known(turn.c) THEN down \o ms ELSE down)
    BY <2>1 DEF ResumesOf, ToClient
  <2> HIDE DEF ms
  <2>3. CASE down' = down
    BY <2>3
  <2>4. CASE turn.c # 0 /\ turn.c = cl.conn /\ down' = down \o ms
    <3>1. \/ i \in DOMAIN down /\ down'[i] = down[i]
          \/ i \notin DOMAIN down /\ i - Len(down) \in DOMAIN ms /\ down'[i] = ms[i - Len(down)]
      <4>1. ms \in Seq(Answer)
        BY <2>2
      <4>2. \A j \in DOMAIN (down \o ms) :
               \/ j \in DOMAIN down /\ (down \o ms)[j] = down[j]
               \/ j \notin DOMAIN down /\ j - Len(down) \in DOMAIN ms /\ (down \o ms)[j] = ms[j - Len(down)]
        BY <1>0, <4>1, ConcatAt
      <4> QED BY <2>4, <4>2
    <3>2. i \in Nat
      <4>1. DOMAIN (down \o ms) = 1 .. (Len(down) + Len(ms)) /\ Len(ms) \in Nat
        BY <1>0, <2>2, ConcatAt
      <4> QED BY <2>4, <4>1
    <3>3. i = Len(down) + (i - Len(down))
      BY <1>0, <3>2
    <3> QED BY <1>6, <2>2, <2>4, <3>1, <3>3
  <2> QED BY <2>2, <2>3, <2>4
<1>7. CASE Binds \/ Unload
  BY <1>7 DEF Binds, Unload
<1> QED BY <1>2, <1>3, <1>4, <1>5, <1>6, <1>7, ServingStreams

LEMMA ServingGrants ==
    ASSUME TypeInv, CredentialInv, ShapeInv, Serving, NEW t \in {"login", "resume"}, NEW id, Grant(t, id)'
    PROVE  \/ Grant(t, id)
           \/ t = "resume" /\ id = issued + 1 /\ turn.c = cl.conn /\ Resumes
           \/ t = "login" /\ id = issued + 1 /\ turn.c = cl.conn /\ Binds
<1>0. /\ TypeOK /\ down \in Seq(Answer) /\ reply \in Seq(Answer) /\ cl' = cl /\ issued + 1 \in Nat
      /\ ClientForm /\ OutForm /\ id # 0
  <2>1. cl' = cl
    BY ServingServes DEF Serves
  <2> QED BY <2>1, DownTypes DEF TypeInv, ShapeInv, Grant
<1> HIDE DEF TypeOK
<1>1. ASSUME NEW i \in DOMAIN down', down'[i].t = t, down'[i].gen = id PROVE Grant(t, id)
  <2>1. CASE i \in DOMAIN down /\ down'[i] = down[i]
    BY <1>0, <1>1, <2>1 DEF Grant, GrantIn
  <2>2. CASE 1 \in DOMAIN reply /\ down'[i] = reply[1]
    BY <1>0, <1>1, <2>2 DEF Grant, GrantIn
  <2> QED BY <1>1, <2>1, <2>2, DownFrom DEF Chat
<1>2. CASE reply' = reply
  BY <1>0, <1>1, <1>2 DEF Grant, GrantIn
<1>3. CASE LoginReplies
  <2>1. reply' = Tail(reply) /\ reply # << >>
    BY <1>3 DEF LoginReplies
  <2> QED BY <1>0, <1>1, <2>1, GrantTail DEF Grant, GrantIn
<1>4. CASE StreamQuiet
  <2>1. ASSUME NEW u \in {"resume", "login"}, reply' = Append(reply, Granted(u, 0)), GrantIn(reply', t, id)
        PROVE  Grant(t, id)
    <3>1. Granted(u, 0) \in Answer /\ Granted(u, 0).gen = 0
      BY GrantedFacts
    <3> QED BY <1>0, <2>1, <3>1, GrantAppended DEF Grant
  <2> QED BY <1>0, <1>1, <1>2, <1>4, <2>1 DEF StreamQuiet, Grant, GrantIn
<1>5. CASE Resumes
  <2>1. ResumesOf
    BY <1>0, <1>5, ResumesFields
  <2>2. Granted("resume", issued + 1) \in Answer /\ Granted("resume", issued + 1).t = "resume"
        /\ Granted("resume", issued + 1).gen = issued + 1
    BY <1>0, GrantedFacts
  <2>3. GrantIn(reply', t, id) => GrantIn(reply, t, id) \/ (t = "resume" /\ id = issued + 1 /\ turn.c = cl.conn)
    BY <1>0, <2>1, <2>2, GrantAppended DEF ResumesOf
  <2> QED BY <1>0, <1>1, <1>5, <2>3 DEF Grant, GrantIn
<1>6. CASE Binds
  <2>1. BindsOf
    BY <1>6, BindsFields
  <2>2. Granted("login", issued + 1) \in Answer /\ Granted("login", issued + 1).t = "login"
        /\ Granted("login", issued + 1).gen = issued + 1
    BY <1>0, GrantedFacts
  <2>3. GrantIn(reply', t, id) => GrantIn(reply, t, id) \/ (t = "login" /\ id = issued + 1 /\ turn.c = cl.conn)
    BY <1>0, <2>1, <2>2, GrantAppended DEF BindsOf
  <2> QED BY <1>0, <1>1, <1>6, <2>3 DEF Grant, GrantIn
<1>7. CASE StreamSends
  BY <1>2, <1>7 DEF StreamSends
<1>8. CASE PingTurn
  BY <1>2, <1>8 DEF PingTurn, net
<1>9. CASE Unload
  BY <1>2, <1>9 DEF Unload
<1> QED BY <1>3, <1>4, <1>5, <1>6, <1>7, <1>8, <1>9, ServingStreams

LEMMA ClientGets ==
    TypeInv /\ ShapeInv /\ Client =>
        \/ down' = down /\ reply' = reply /\ cl'.conn = cl.conn /\ ~Connect
        \/ down' = << >> /\ reply' = << >>
        \/ Receive /\ ReceiveOf(Head(down)) /\ down # << >> /\ down' = Tail(down) /\ reply' = reply /\ cl'.conn = cl.conn
<1> SUFFICES ASSUME TypeInv, ShapeInv, Client
             PROVE  \/ down' = down /\ reply' = reply /\ cl'.conn = cl.conn /\ ~Connect
                    \/ down' = << >> /\ reply' = << >>
                    \/ Receive /\ ReceiveOf(Head(down)) /\ down # << >> /\ down' = Tail(down) /\ reply' = reply
                       /\ cl'.conn = cl.conn
  OBVIOUS
<1>0. TypeOK /\ ClientForm
  BY DEF TypeInv, ShapeInv
<1> HIDE DEF TypeOK
<1>1. CASE Connect
  BY <1>0, <1>1 DEF Connect, ClientForm
<1>2. CASE Drop \/ LoginFails \/ (PingAnswered /\ cl.ping.n # cl.recv)
  BY <1>0, <1>2, GivesUpFields DEF GivesUp
<1>3. CASE Receive
  BY <1>0, <1>3, ReceiveFields DEF ReceiveOf, SameLink, net
<1>4. CASE Call
  BY <1>0, <1>1, <1>4, CallFields DEF SameLink, Call
<1>5. CASE Ping
  BY <1>0, <1>1, <1>5, PingFields DEF SameLink, Ping
<1>6. CASE ResumeSucceeds
  BY <1>0, <1>1, <1>6, ResumeSucceedsFields DEF ResumeSucceeds
<1>7. CASE ResumeFails
  BY <1>0, <1>1, <1>7, ResumeFailsFields DEF ResumeFails
<1>8. CASE LoginSucceeds
  BY <1>0, <1>1, <1>8, LoginSucceedsFields DEF LoginSucceeds, net
<1>9. CASE PingAnswered /\ cl.ping.n = cl.recv
  BY <1>0, <1>1, <1>9, PingAnsweredFields DEF SameLink, net
<1> QED BY <1>1, <1>2, <1>3, <1>4, <1>5, <1>6, <1>7, <1>8, <1>9 DEF Client

LEMMA ClientReaches ==
    ASSUME TypeInv, ShapeInv, Client, NEW t, Reaches(t)'
    PROVE  Reaches(t) /\ cl'.conn = cl.conn /\ ~Connect
<1>1. down \in Seq(Answer)
  BY DownTypes
<1>2. CASE Receive /\ down # << >> /\ down' = Tail(down) /\ cl'.conn = cl.conn
  <2>1. ~Connect
    BY <1>2 DEF Receive, Connect
  <2> QED BY <1>1, <1>2, <2>1, TailAt DEF Reaches
<1> QED BY <1>2, ClientGets DEF Reaches

LEMMA ClientGrants ==
    ASSUME TypeInv, ShapeInv, Client, NEW t \in {"login", "resume"}, NEW id, Grant(t, id)'
    PROVE  Grant(t, id) /\ cl.conn # 0 /\ cl'.conn = cl.conn /\ ~Connect
<1>0. /\ TypeOK /\ ClientForm /\ down \in Seq(Answer) /\ NoAnswer.id = 0 /\ id # 0
      /\ \A x, u : ~GrantIn(<< >>, x, u)
  BY DownTypes DEF TypeInv, ShapeInv, NoAnswer, Grant, GrantIn
<1> HIDE DEF TypeOK
<1>1. CASE Connect
  <2>1. cl.answer.id = 0 /\ cl'.answer = cl.answer /\ down' = << >> /\ reply' = << >>
    BY <1>0, <1>1, ConnectFields DEF ClientForm, Connect
  <2> QED BY <1>0, <2>1 DEF Grant
<1>2. CASE Drop \/ LoginFails \/ (PingAnswered /\ cl.ping.n # cl.recv)
  <2>1. GivesUp
    BY <1>0, <1>2, GivesUpFields
  <2>2. cl'.answer.id = 0 \/ cl'.stage = "idle"
    BY <1>0, <2>1 DEF GivesUp, ClientForm
  <2> QED BY <1>0, <2>1, <2>2 DEF Grant, GivesUp
<1>3. CASE Receive
  <2> DEFINE m == Head(down)
  <2>1. ReceiveOf(m) /\ down # << >> /\ down' = Tail(down) /\ reply' = reply /\ cl.conn # 0
    BY <1>0, <1>3, ReceiveFields DEF ReceiveOf, net
  <2>2. 1 \in DOMAIN down /\ m = down[1]
    BY <1>0, <2>1, TailAt
  <2>3. cl'.stage = t /\ cl'.answer.id = id => (cl.stage = t /\ cl.answer.id = id) \/ GrantIn(down, t, id)
    BY <1>0, <2>1, <2>2 DEF ReceiveOf, SameLink, GrantIn
  <2>4. GrantIn(down', t, id) => GrantIn(down, t, id)
    BY <1>0, <2>1, GrantTail
  <2>5. ~Connect /\ cl'.conn = cl.conn
    BY <1>3, <2>1 DEF Receive, Connect, ReceiveOf, SameLink
  <2> QED BY <2>1, <2>3, <2>4, <2>5 DEF Grant
<1>4. CASE ~Connect /\ ~Receive /\ ~(Drop \/ LoginFails \/ (PingAnswered /\ cl.ping.n # cl.recv))
  <2>0. /\ Call \/ Ping \/ (PingAnswered /\ cl.ping.n = cl.recv) => SameLink /\ cl'.answer = cl.answer
        /\ ResumeSucceeds \/ ResumeFails \/ LoginSucceeds => cl'.answer = NoAnswer
    BY <1>0, CallFields, PingFields, PingAnsweredFields, ResumeSucceedsFields, ResumeFailsFields, LoginSucceedsFields
  <2>1. (down' = down /\ reply' = reply /\ cl'.conn = cl.conn) \/ (down' = << >> /\ reply' = << >>)
    BY <1>4, ClientGets
  <2>2. cl'.answer.id = 0 \/ (cl'.answer = cl.answer /\ SameLink)
    BY <1>0, <1>4, <2>0 DEF Client
  <2>3. /\ ResumeSucceeds \/ ResumeFails \/ LoginSucceeds => cl'.conn = cl.conn
    BY <1>0, ResumeSucceedsFields, ResumeFailsFields, LoginSucceedsFields
  <2>4. cl'.conn = cl.conn
    BY <1>4, <2>0, <2>3 DEF Client, SameLink
  <2>5. Grant(t, id)
    BY <1>0, <2>1, <2>2 DEF Grant, SameLink
  <2>6. cl.conn # 0
    <3>1. GrantIn(reply, t, id) \/ GrantIn(down, t, id) => cl.conn # 0
      BY <1>0 DEF ClientForm
    <3> QED BY <1>0, <2>5, <3>1 DEF Grant, ClientForm
  <2> QED BY <1>4, <2>4, <2>5, <2>6
<1> QED BY <1>1, <1>2, <1>3, <1>4

LEMMA GrantConn ==
    ASSUME ShapeInv, NEW t, NEW id, Grant(t, id)
    PROVE  cl.conn # 0
<1>1. \A x, u : ~GrantIn(<< >>, x, u)
  BY DEF GrantIn
<1>2. GrantIn(reply, t, id) \/ GrantIn(down, t, id) => cl.conn # 0
  BY <1>1 DEF ShapeInv, ClientForm
<1>3. cl.stage = t /\ cl.answer.id = id /\ id # 0 => cl.conn # 0
  BY DEF ShapeInv, ClientForm
<1> QED BY <1>2, <1>3 DEF Grant

-----------------------------------------------------------------------------
(* Logins.  One at most is under way on a connection; while one is, on the   *)
(* client's connection, the client waits for it and has no credential of a   *)
(* login before its own.                                                    *)

LoginInv ==
    /\ \A c \in Conns : Single(c, "login", 0)
    /\ \A c \in Conns : c = cl.conn /\ Way(c, "login", 0, 0) => cl.stage = "login" /\ \A id : ~Grant("login", id)
    /\ \A id : Grant("login", id) => cl.stage # "resume"

LEMMA SingleSends ==
    ASSUME TypeInv, NEW ms \in Seq(Messages), Sends(ms), UNCHANGED <<queue, turn>>, NEW c \in Conns, NEW t, NEW r,
           Single(c, t, r), \A i, j \in DOMAIN ms : Is(ms[i], t, r) /\ Is(ms[j], t, r) => i = j,
           c = cl.conn /\ (\E i \in DOMAIN ms : Is(ms[i], t, r))
                => ~InUp(c, t, r) /\ ~InQueue(c, t, r) /\ ~InTurn(c, t, r)
    PROVE  Single(c, t, r)'
<1>0. TypeOK /\ up[c] \in Seq(Messages)
  BY ShapeTypes DEF TypeInv
<1> HIDE DEF TypeOK
<1>1. CASE up'[c] = up[c]
  BY <1>1 DEF Single, InUp, InQueue, InTurn
<1>2. CASE c = cl.conn /\ up'[c] = up[c] \o ms
  <2>1. /\ \A i \in DOMAIN up'[c] :
              \/ i \in DOMAIN up[c] /\ up'[c][i] = up[c][i]
              \/ i \notin DOMAIN up[c] /\ i - Len(up[c]) \in DOMAIN ms /\ up'[c][i] = ms[i - Len(up[c])]
        /\ DOMAIN up'[c] = 1 .. (Len(up[c]) + Len(ms)) /\ Len(up[c]) \in Nat /\ Len(ms) \in Nat
    <3>1. DOMAIN (up[c] \o ms) = 1 .. (Len(up[c]) + Len(ms)) /\ Len(up[c]) \in Nat /\ Len(ms) \in Nat
      BY <1>0, ConcatAt
    <3>2. \A i \in DOMAIN (up[c] \o ms) :
              \/ i \in DOMAIN up[c] /\ (up[c] \o ms)[i] = up[c][i]
              \/ i \notin DOMAIN up[c] /\ i - Len(up[c]) \in DOMAIN ms /\ (up[c] \o ms)[i] = ms[i - Len(up[c])]
      BY <1>0, ConcatAt
    <3> QED BY <1>2, <3>1, <3>2
  <2>2. \A i \in DOMAIN up'[c] : i \in Nat
    BY <2>1
  <2>3. CASE \E i \in DOMAIN ms : Is(ms[i], t, r)
    <3>1. ~InUp(c, t, r) /\ ~InQueue(c, t, r) /\ ~InTurn(c, t, r)
      BY <1>2, <2>3
    <3>2. \A i \in DOMAIN up'[c] : Is(up'[c][i], t, r)
             => i - Len(up[c]) \in DOMAIN ms /\ Is(ms[i - Len(up[c])], t, r)
      BY <2>1, <3>1 DEF InUp
    <3>3. \A i, j \in DOMAIN up'[c] : Is(up'[c][i], t, r) /\ Is(up'[c][j], t, r) => i = j
      <4> SUFFICES ASSUME NEW i \in DOMAIN up'[c], NEW j \in DOMAIN up'[c], Is(up'[c][i], t, r), Is(up'[c][j], t, r)
                   PROVE  i = j
        OBVIOUS
      <4>1. i - Len(up[c]) = j - Len(up[c])
        BY <3>2
      <4> QED BY <2>1, <2>2, <4>1
    <3> QED BY <3>1, <3>3 DEF Single, InQueue, InTurn
  <2>4. CASE ~\E i \in DOMAIN ms : Is(ms[i], t, r)
    <3>1. \A i \in DOMAIN up'[c] : Is(up'[c][i], t, r) => i \in DOMAIN up[c] /\ up'[c][i] = up[c][i]
      BY <2>1, <2>4
    <3> QED BY <3>1 DEF Single, InUp, InQueue, InTurn
  <2> QED BY <2>3, <2>4
<1> QED BY <1>0, <1>1, <1>2, SendsAt

LEMMA SingleConnect ==
    ASSUME TypeInv, ShapeInv, Connect, NEW c \in Conns, NEW t, NEW r, Single(c, t, r)
    PROVE  Single(c, t, r)'
<1> DEFINE m == IF cl.nonce # 0 THEN Resume ELSE Login
<1>1. UNCHANGED <<queue, turn>> /\ up' = [up EXCEPT ![cl'.conn] = <<m>>] /\ cl'.conn \in Conns /\ Quiet(cl'.conn)
  <2>1. cl'.conn = cl.opened + 1 /\ cl.opened + 1 \in Conns /\ Quiet(cl'.conn)
    BY NewConn
  <2> QED BY <2>1 DEF Connect, server
<1>2. up \in [Conns -> Seq(Messages)]
  BY DEF TypeInv, TypeOK
<1> HIDE DEF m
<1>3. CASE c # cl'.conn
  <2>1. up'[c] = up[c]
    BY <1>1, <1>2, <1>3
  <2> QED BY <1>1, <2>1 DEF Single, InUp, InQueue, InTurn
<1>4. CASE c = cl'.conn
  <2>1. up'[c] = <<m>>
    BY <1>1, <1>2, <1>4
  <2>2. \A i \in DOMAIN up'[c] : i = 1
    BY <2>1
  <2>3. ~InQueue(c, t, r) /\ ~InTurn(c, t, r)
    BY <1>1, <1>4 DEF Quiet, InQueue, InTurn
  <2> QED BY <1>1, <2>2, <2>3 DEF Single, InQueue, InTurn
<1> QED BY <1>3, <1>4

LEMMA LoginWay ==
    ASSUME NEW c
    PROVE  Way(c, "login", 0, 0) <=> InUp(c, "login", 0) \/ InQueue(c, "login", 0) \/ InTurn(c, "login", 0)
BY DEF Way, Fits, InUp, InQueue, InTurn, Is

LEMMA LoginServes ==
    ASSUME TypeInv, CredentialInv, ShapeInv, LoginInv, Serving
    PROVE  LoginInv'
<1>1. Serves /\ cl' = cl
  BY ServingServes DEF TypeInv, Serves
<1>2. \A c \in Conns : Single(c, "login", 0)'
  BY <1>1, SingleServes DEF LoginInv
<1>3. ASSUME NEW c \in Conns, c = cl.conn, Way(c, "login", 0, 0)' PROVE Way(c, "login", 0, 0)
  BY <1>1, <1>3, WayServes
<1>5. ASSUME NEW c \in Conns, Binds, turn.c = c PROVE Way(c, "login", 0, 0) /\ ~Way(c, "login", 0, 0)'
  <2>1. turn.t = "login" /\ UNCHANGED <<up, queue>> /\ turn' = NoTurn
    BY <1>5, BindsFields DEF BindsOf
  <2>2. Single(c, "login", 0)
    BY DEF LoginInv
  <2>3. InTurn(c, "login", 0) /\ ~InUp(c, "login", 0) /\ ~InQueue(c, "login", 0)
    BY <1>5, <2>1, <2>2 DEF Single, InTurn, Is
  <2>4. Way(c, "login", 0, 0)
    BY <2>3, LoginWay
  <2>5. NoTurn.t = "none"
    BY DEF NoTurn
  <2>6. ~Way(c, "login", 0, 0)'
    BY <2>1, <2>3, <2>5 DEF Way, Fits, InUp, InQueue, Is
  <2> QED BY <2>4, <2>6
<1>6. \A id : Grant("login", id)' => Grant("login", id) \/ (Binds /\ turn.c = cl.conn)
  BY ServingGrants
<1>7. ASSUME NEW c \in Conns, c = cl.conn, Way(c, "login", 0, 0)'
      PROVE  cl.stage = "login" /\ \A id : ~Grant("login", id)'
  <2>1. cl.stage = "login" /\ \A id : ~Grant("login", id)
    BY <1>3, <1>7 DEF LoginInv
  <2>2. ~(Binds /\ turn.c = cl.conn)
    BY <1>5, <1>7
  <2> QED BY <1>6, <2>1, <2>2
<1>8. ASSUME NEW id, Grant("login", id)' PROVE cl.stage # "resume"
  <2>1. CASE Grant("login", id)
    BY <2>1 DEF LoginInv
  <2>2. CASE Binds /\ turn.c = cl.conn
    <3>1. turn.c \in Conns
      BY <2>2, BindsFields DEF BindsOf
    <3>2. Way(turn.c, "login", 0, 0)
      <4>1. turn.t = "login"
        BY <2>2, BindsFields DEF BindsOf
      <4> QED BY <4>1 DEF Way, Fits
    <3> QED BY <2>2, <3>1, <3>2 DEF LoginInv
  <2> QED BY <1>6, <1>8, <2>1, <2>2
<1> QED BY <1>1, <1>2, <1>7, <1>8 DEF LoginInv

LEMMA LoginClient ==
    ASSUME TypeInv, ShapeInv, LoginInv, Client
    PROVE  LoginInv'
<1>0. TypeOK /\ ClientForm /\ (cl.conn # 0 => cl.conn \in Conns)
  BY ShapeTypes DEF TypeInv, ShapeInv
<1> HIDE DEF TypeOK
<1>1. ASSUME NEW c \in Conns PROVE Single(c, "login", 0)'
  <2>0. Single(c, "login", 0)
    BY DEF LoginInv
  <2>1. CASE Connect
    BY <2>0, <2>1, SingleConnect
  <2>2. CASE UNCHANGED <<up, queue, turn>>
    BY <2>0, <2>2 DEF Single, InUp, InQueue, InTurn
  <2>3. ASSUME NEW ms \in Seq(Messages), Sends(ms), UNCHANGED <<queue, turn>>,
               \A i \in DOMAIN ms : ms[i].t \in {"req", "ping"}
        PROVE  Single(c, "login", 0)'
    <3>1. \A i \in DOMAIN ms : ~Is(ms[i], "login", 0)
      BY <2>3 DEF Is
    <3> QED BY <2>0, <2>3, <3>1, SingleSends
  <2>4. CASE Call
    <3> DEFINE x == Message("req", cl.next + 1, 0, 0)
    <3>1. <<x>> \in Seq(Messages) /\ Sends(<<x>>) /\ UNCHANGED <<queue, turn>>
      BY <1>0, <2>4, CallFields DEF Call, server
    <3>2. \A i \in DOMAIN <<x>> : <<x>>[i].t = "req"
      BY DEF Message
    <3> HIDE DEF x
    <3> QED BY <2>3, <3>1, <3>2
  <2>5. CASE Ping
    <3> DEFINE x == Message("ping", cl.next + 1, cl.recv, 0)
    <3>1. <<x>> \in Seq(Messages) /\ Sends(<<x>>) /\ UNCHANGED <<queue, turn>>
      BY <1>0, <2>5, PingFields DEF Ping, server
    <3>2. \A i \in DOMAIN <<x>> : <<x>>[i].t = "ping"
      BY DEF Message
    <3> HIDE DEF x
    <3> QED BY <2>3, <3>1, <3>2
  <2>6. CASE ResumeSucceeds
    <3>1. UNCHANGED <<queue, turn>> /\ Resend
      BY <2>6 DEF ResumeSucceeds, server
    <3> QED BY <1>0, <2>3, <3>1, ResendSends
  <2>7. CASE ResumeFails
    <3>1. UNCHANGED <<queue, turn>> /\ Sends(<<Login>>) /\ cl.stage = "resume"
      BY <2>7 DEF ResumeFails, server
    <3>2. Login \in Messages
      BY <1>0, ClientFacts
    <3>3. <<Login>> \in Seq(Messages) /\ \A i, j \in DOMAIN <<Login>> : i = j
      BY <3>2, OneAt
    <3>4. c = cl.conn => ~Way(c, "login", 0, 0)
      BY <3>1 DEF LoginInv
    <3> QED BY <2>0, <3>1, <3>3, <3>4, LoginWay, SingleSends
  <2>8. CASE Drop \/ LoginFails \/ (PingAnswered /\ cl.ping.n # cl.recv)
    BY <1>0, <2>2, <2>8, GivesUpFields DEF GivesUp, server
  <2>9. CASE Receive \/ LoginSucceeds
    BY <2>2, <2>9 DEF Receive, LoginSucceeds, net, server
  <2>10. CASE PingAnswered /\ cl.ping.n = cl.recv
    BY <1>0, <2>2, <2>10, PingAnsweredFields DEF net, server
  <2> QED BY <2>1, <2>4, <2>5, <2>6, <2>7, <2>8, <2>9, <2>10 DEF Client
<1>2. \A id : Grant("login", id)' => Grant("login", id) /\ ~Connect
  BY ClientGrants
<1>3. ASSUME NEW id, Grant("login", id)' PROVE cl'.stage # "resume"
  <2>1. ~Connect /\ cl.stage # "resume"
    BY <1>2, <1>3 DEF LoginInv
  <2>2. CASE Drop \/ LoginFails \/ (PingAnswered /\ cl.ping.n # cl.recv)
    BY <1>0, <2>1, <2>2, GivesUpFields DEF GivesUp
  <2> QED BY <1>0, <2>1, <2>2, CallFields, PingFields, ReceiveFields, ResumeSucceedsFields, ResumeFailsFields,
             LoginSucceedsFields, PingAnsweredFields DEF Client, SameLink, ReceiveOf
<1>4. ASSUME NEW c \in Conns, c = cl'.conn, Way(c, "login", 0, 0)'
      PROVE  cl'.stage = "login" /\ \A id : ~Grant("login", id)'
  <2>0. c # 0 /\ (~Connect => cl'.conn = cl.conn)
    BY <1>4, ClientSays, ConnsFacts DEF Says
  <2>1. CASE Connect
    <3>1. cl.nonce = 0
      BY <1>4, <2>1, WayConnect
    <3>2. cl'.stage = "login"
      BY <1>0, <2>1, <3>1, ConnectFields
    <3> QED BY <1>2, <2>1, <3>2
  <2>2. CASE ResumeFails
    <3>1. cl.stage = "resume" /\ cl'.stage = "login"
      BY <1>0, <2>2, ResumeFailsFields
    <3> QED BY <1>2, <3>1 DEF LoginInv
  <2>3. CASE ~Connect /\ ~ResumeFails
    <3>1. c = cl.conn /\ Way(c, "login", 0, 0)
      BY <1>4, <2>0, <2>3, ClientWay
    <3>2. cl.stage = "login" /\ \A id : ~Grant("login", id)
      BY <3>1 DEF LoginInv
    <3>3. cl.answer.id = 0
      BY <3>2 DEF Grant
    <3>4. cl'.stage = "login"
      <4>1. CASE Drop \/ LoginFails \/ (PingAnswered /\ cl.ping.n # cl.recv)
        <5>1. cl'.conn = 0
          BY <1>0, <4>1, GivesUpFields DEF GivesUp
        <5> QED BY <1>4, <2>0, <5>1
      <4> QED BY <1>0, <2>3, <3>2, <3>3, <4>1, CallFields, PingFields, ReceiveFields, ResumeSucceedsFields,
                 LoginSucceedsFields, PingAnsweredFields DEF Client, SameLink, ReceiveOf
    <3> QED BY <1>2, <3>2, <3>4
  <2> QED BY <2>1, <2>2, <2>3
<1> QED BY <1>1, <1>3, <1>4 DEF LoginInv

LEMMA LoginStep == TypeInv /\ CredentialInv /\ ShapeInv /\ LoginInv /\ [Next]_vars => LoginInv'
<1> SUFFICES ASSUME TypeInv, CredentialInv, ShapeInv, LoginInv, [Next]_vars PROVE LoginInv'
  OBVIOUS
<1>1. CASE UNCHANGED vars
  <2>1. UNCHANGED <<up, reply, down, queue, turn, cl>>
    BY <1>1 DEF vars, net, server
  <2> QED BY <2>1 DEF LoginInv, Single, InUp, InQueue, InTurn, Way, Grant, GrantIn
<1> QED BY <1>1, LoginServes, LoginClient DEF Next, Serving

LEMMA InitLogin == Init => LoginInv
<1> SUFFICES ASSUME Init PROVE LoginInv
  OBVIOUS
<1>1. /\ cl.conn = 0 /\ cl.stage = "idle" /\ down = << >> /\ reply = << >> /\ queue = << >> /\ turn = NoTurn
      /\ \A c \in Conns : up[c] = << >>
  BY DEF Init
<1>2. NoTurn.t = "none"
  BY DEF NoTurn
<1>3. cl.conn \notin Conns
  BY <1>1, ConnsFacts
<1>4. \A id : ~Grant("login", id)
  BY <1>1 DEF Grant, GrantIn
<1>5. \A c \in Conns : Single(c, "login", 0)
  BY <1>1, <1>2 DEF Single, InUp, InQueue, InTurn, Is
<1> QED BY <1>3, <1>4, <1>5 DEF LoginInv

-----------------------------------------------------------------------------
(* What the credential of the client, that of the entity, those on their way *)
(* and the connections have to do with each other.                          *)

Early == "early call" \in mishaps

NonceOK == (io # NoIO => io.nonce = issued) /\ cl.nonce <= issued /\ cl.gen <= issued

(* A credential that the client waits for is newer than the one it has.  If  *)
(* it is the entity's, it comes with the session that the client resumes, or *)
(* with the session of the login, and its connection is installed.           *)
GrantOK(t, id) ==
    /\ id \in 1 .. issued
    /\ cl.stage = t => cl.nonce < id /\ cl.gen < id /\ gate[cl.conn] # "open"
    /\ io # NoIO /\ t = "login" /\ id = io.nonce => io.gen = id
    /\ io # NoIO /\ t = "resume" /\ cl.stage = t /\ id = io.nonce => io.gen = cl.gen
    /\ cl.stage = t /\ LiveConn = cl.conn => id = io.nonce
    /\ cl.stage = t /\ id = io.nonce /\ gate[cl.conn] = "bound" => LiveConn = cl.conn

GrantsOK == \A t \in {"login", "resume"} : \A id : Grant(t, id) => GrantOK(t, id)

(* A resume that can succeed is the client's last, and nothing was counted   *)
(* since it was sent.                                                        *)
ResumeOK(n, id) ==
    /\ id \in 1 .. issued
    /\ id = io.nonce => id = cl.nonce /\ ~cl.online /\ (Early \/ n = cl.recv)

ResumesOK == \A c \in Conns : \A n, id : Way(c, "resume", n, id) => ResumeOK(n, id)

LinkOK ==
    /\ io # NoIO /\ cl.nonce = io.nonce => io.gen = cl.gen
    /\ io # NoIO /\ cl.nonce = io.nonce /\ Reaches("pack") => cl.online
    /\ LiveConn = cl.conn /\ cl.conn # 0 => (cl.online <=> cl.nonce = io.nonce)
    /\ cl.online /\ cl.nonce = io.nonce /\ gate[cl.conn] = "bound" => LiveConn = cl.conn
    /\ cl.online => gate[cl.conn] # "open"

(* Pings, and requests of a client that calls only when it is online, are    *)
(* sent when nothing of the handshake is under way any more.                 *)
SentOK(c) ==
    \A t \in {"ping", "req"} : \A n : Way(c, t, n, 0) /\ (t = "req" => ~Early) =>
        /\ c = cl.conn => cl.online
        /\ ~Way(c, "login", 0, 0) /\ \A k : ~Way(c, "resume", k, io.nonce)

Strays == ~Early => ~Reaches("stray")

LinkInv == NonceOK /\ GrantsOK /\ ResumesOK /\ LinkOK /\ (\A c \in Conns : SentOK(c)) /\ Strays

(* The session and the credentials stay, or the connection is gone.          *)
Calm ==
    /\ UNCHANGED <<issued, taken>> /\ io'.nonce = io.nonce /\ io'.gen = io.gen /\ (io' = NoIO <=> io = NoIO)
    /\ session' = session \/ (session' = NoConn /\ (LiveConn # 0 => gate'[LiveConn] = "closed"))

LEMMA LinkTypes ==
    ASSUME TypeInv, CredentialInv, LinkInv
    PROVE  /\ issued \in Nat /\ io.nonce \in Nat /\ io.gen \in Nat /\ cl.nonce \in Nat /\ cl.gen \in Nat
           /\ NoIO.nonce = 0 /\ NoConn.c = 0 /\ NoTurn.t = "none"
           /\ io # NoIO => io.nonce = issued /\ issued # 0
           /\ issued + 1 \in 1 .. issued + 1 /\ \A k \in 1 .. issued : k \in 1 .. issued + 1 /\ k # issued + 1 /\ k # 0
           /\ cl.nonce < issued + 1 /\ cl.gen < issued + 1
           /\ cl.nonce # issued + 1
           /\ (cl.conn # 0 => cl.conn \in Conns) /\ cl \in Clients
<1>1. issued \in Nat /\ io.nonce \in Nat /\ io.gen \in Nat /\ cl.nonce \in Nat /\ cl.gen \in Nat
  BY DownTypes
<1>2. NoIO.nonce = 0 /\ NoConn.c = 0 /\ NoTurn.t = "none"
  BY DEF NoIO, NoConn, NoTurn
<1>3. io # NoIO => io.nonce = issued /\ issued # 0
  BY <1>1 DEF LinkInv, NonceOK, CredentialInv
<1>4. issued + 1 \in 1 .. issued + 1 /\ \A k \in 1 .. issued : k \in 1 .. issued + 1 /\ k # issued + 1 /\ k # 0
  BY <1>1
<1>5. cl.nonce < issued + 1 /\ cl.gen < issued + 1 /\ cl.nonce # issued + 1
  BY <1>1 DEF LinkInv, NonceOK
<1>6. cl.conn # 0 => cl.conn \in Conns
  BY ShapeTypes DEF TypeInv
<1>7. cl \in Clients
  BY DEF TypeInv, TypeOK
<1> QED BY <1>1, <1>2, <1>3, <1>4, <1>5, <1>6, <1>7

LEMMA ServingCalm ==
    TypeInv /\ CredentialInv /\ ShapeInv /\ Serving => Calm \/ Resumes \/ Binds \/ Unload
<1> SUFFICES ASSUME TypeInv, CredentialInv, ShapeInv, Serving PROVE Calm \/ Resumes \/ Binds \/ Unload
  OBVIOUS
<1>0. /\ (io # NoIO => io.nonce # 0) /\ NoIO.nonce = 0
  <2>1. io # NoIO => io.nonce # 0
    BY DownTypes DEF CredentialInv
  <2> QED BY <2>1 DEF NoIO
<1>1. CASE StreamSends
  BY <1>0, <1>1 DEF StreamSends, IoSends, Calm
<1>2. CASE StreamQuiet
  BY <1>2 DEF StreamQuiet, Calm
<1>3. CASE LoginReplies
  BY <1>3 DEF LoginReplies, server, history, Calm
<1>4. CASE PingTurn
  BY <1>0, <1>4, PingTurnFields DEF PingOf, Calm
<1> QED BY <1>1, <1>2, <1>3, <1>4, ServingStreams

LEMMA ServingMishaps ==
    TypeInv /\ CredentialInv /\ ShapeInv /\ Serving => mishaps \subseteq mishaps' /\ mishaps' \subseteq mishaps \cup Harmless
<1> SUFFICES ASSUME TypeInv, CredentialInv, ShapeInv, Serving
             PROVE  mishaps \subseteq mishaps' /\ mishaps' \subseteq mishaps \cup Harmless
  OBVIOUS
<1>1. CASE mishaps' = mishaps
  BY <1>1
<1>2. CASE StreamSends \/ StreamQuiet
  BY <1>2 DEF StreamSends, StreamQuiet, OtherMishaps
<1>3. CASE LoginReplies \/ PingTurn \/ Resumes \/ Binds \/ Unload
  BY <1>1, <1>3 DEF LoginReplies, PingTurn, Resumes, Binds, Unload, history
<1> QED BY <1>2, <1>3, ServingStreams

LEMMA EarlySame == TypeInv /\ CredentialInv /\ ShapeInv /\ Serving => (Early' <=> Early)
BY ServingMishaps DEF Early, Harmless

LEMMA GateKept ==
    ASSUME GateMoves, NEW c \in Conns, gate[c] # "open"
    PROVE  gate'[c] # "open" /\ (gate'[c] = "bound" => gate[c] = "bound")
BY DEF GateMoves, Known

LEMMA LinkCalm ==
    ASSUME TypeInv, CredentialInv, ShapeInv, LoginInv, LinkInv, Serving, Calm
    PROVE  GrantsOK' /\ ResumesOK' /\ LinkOK' /\ \A c \in Conns : SentOK(c)'
<1>0. /\ issued \in Nat /\ issued' = issued /\ io'.nonce = io.nonce /\ io'.gen = io.gen /\ (io' = NoIO <=> io = NoIO)
      /\ session' = session \/ (session'.c = 0 /\ (LiveConn # 0 => gate'[LiveConn] = "closed"))
      /\ Serves /\ cl' = cl /\ GateMoves /\ (Early' <=> Early) /\ ~Resumes /\ ~Binds /\ LiveConn' = session'.c
      /\ (cl.conn # 0 => cl.conn \in Conns)
  <2>1. Serves /\ cl' = cl /\ GateMoves
    BY ServingServes DEF TypeInv, Serves
  <2>2. issued \in Nat /\ issued' = issued
    BY LinkTypes DEF Calm
  <2>3. Resumes \/ Binds => issued' = issued + 1
    BY DEF Resumes, Binds
  <2>4. ~Resumes /\ ~Binds
    BY <2>2, <2>3
  <2> QED BY <2>1, <2>2, <2>4, EarlySame, LinkTypes DEF Calm, LiveConn
<1>1. ASSUME NEW t \in {"login", "resume"}, NEW id, Grant(t, id)' PROVE GrantOK(t, id)'
  <2>1. Grant(t, id)
    BY <1>0, <1>1, ServingGrants
  <2>2. GrantOK(t, id) /\ cl.conn \in Conns /\ cl.conn # 0
    BY <1>0, <2>1, GrantConn DEF LinkInv, GrantsOK
  <2>3. cl.stage = t => gate'[cl.conn] # "open" /\ (gate'[cl.conn] = "bound" => gate[cl.conn] = "bound")
    BY <1>0, <2>2, GateKept DEF GrantOK
  <2>4. LiveConn' = cl.conn => LiveConn = cl.conn
    BY <1>0, <2>2 DEF LiveConn
  <2>5. LiveConn = cl.conn /\ gate'[cl.conn] = "bound" => LiveConn' = cl.conn
    BY <1>0, <2>2 DEF LiveConn
  <2> QED BY <1>0, <2>2, <2>3, <2>4, <2>5 DEF GrantOK
<1>2. ASSUME NEW c \in Conns, NEW n, NEW id, Way(c, "resume", n, id)' PROVE ResumeOK(n, id)'
  <2>1. Way(c, "resume", n, id)
    BY <1>0, <1>2, WayServes
  <2>2. ResumeOK(n, id)
    BY <2>1 DEF LinkInv, ResumesOK
  <2> QED BY <1>0, <2>2 DEF ResumeOK
<1>3. LinkOK'
  <2>0. LinkOK /\ (cl.online => cl.conn # 0)
    BY DEF LinkInv, ShapeInv, ClientForm
  <2>1. Reaches("pack")' => Reaches("pack") \/ (LiveConn = cl.conn /\ cl.conn # 0)
    BY <1>0, DownFrom DEF Reaches, Chat
  <2>3. cl.online => gate'[cl.conn] # "open" /\ (gate'[cl.conn] = "bound" => gate[cl.conn] = "bound")
    BY <1>0, <2>0, GateKept DEF LinkOK
  <2>4. cl.conn # 0 /\ LiveConn' = cl.conn => LiveConn = cl.conn
    BY <1>0 DEF LiveConn
  <2>5. cl.conn # 0 /\ LiveConn = cl.conn /\ gate'[cl.conn] = "bound" => LiveConn' = cl.conn
    BY <1>0 DEF LiveConn
  <2> QED BY <1>0, <2>0, <2>1, <2>3, <2>4, <2>5 DEF LinkOK
<1>4. ASSUME NEW c \in Conns PROVE SentOK(c)'
  <2>1. \A t \in {"login", "resume", "req", "ping"} : \A n, id : Way(c, t, n, id)' => Way(c, t, n, id)
    BY <1>0, WayServes
  <2>2. SentOK(c)
    BY DEF LinkInv
  <2> QED BY <1>0, <2>1, <2>2 DEF SentOK
<1> QED BY <1>1, <1>2, <1>3, <1>4 DEF GrantsOK, ResumesOK

LEMMA LinkStrays ==
    ASSUME TypeInv, CredentialInv, ShapeInv, LoginInv, LinkInv, Serving
    PROVE  Strays'
<1> SUFFICES ASSUME ~Early', NEW i \in DOMAIN down', down'[i].t = "stray" PROVE FALSE
  BY DEF Strays, Reaches
<1>1. ~Early
  BY EarlySame
<1>2. ~(i \in DOMAIN down /\ down'[i] = down[i])
  BY <1>1 DEF LinkInv, Strays, Reaches
<1>3. Chat(down'[i])
  BY <1>2, DownFrom
<1>4. PICK c \in Conns : gate[c] = "open" /\ up[c] # << >> /\ Head(up[c]).t = "req" /\ c = cl.conn
  BY <1>3 DEF Chat
<1>5. Way(c, "req", 0, 0)
  <2>1. up[c] \in Seq(Messages)
    BY ShapeTypes DEF TypeInv
  <2>2. 1 \in DOMAIN up[c] /\ Head(up[c]) = up[c][1]
    BY <1>4, <2>1, TailAt
  <2>3. Fits(up[c][1], "req", 0, 0)
    BY <1>4, <2>2 DEF Fits
  <2> QED BY <2>2, <2>3 DEF Way
<1>6. cl.online
  BY <1>1, <1>4, <1>5 DEF LinkInv, SentOK
<1> QED BY <1>4, <1>6 DEF LinkInv, LinkOK

(* The credential of the entity is drawn anew: what names one names another. *)
LEMMA NewNonce ==
    ASSUME TypeInv, CredentialInv, ShapeInv, LoginInv, LinkInv, Serving, issued' = issued + 1, io'.nonce = issued + 1
    PROVE  /\ NonceOK' /\ ResumesOK' /\ \A c \in Conns : SentOK(c)'
           /\ \A t \in {"login", "resume"} : \A id : Grant(t, id) => id \in 1 .. issued' /\ id # io'.nonce
<1>0. Serves /\ cl' = cl /\ (Early' <=> Early)
  BY ServingServes, EarlySame DEF TypeInv, Serves
<1>1. NonceOK'
  BY <1>0, LinkTypes DEF LinkInv, NonceOK
<1>2. \A c \in Conns : \A t \in {"login", "resume", "req", "ping"} : \A n, id : Way(c, t, n, id)' => Way(c, t, n, id)
  BY <1>0, WayServes
<1>3. ASSUME NEW c \in Conns, NEW n, NEW id, Way(c, "resume", n, id)' PROVE ResumeOK(n, id)' /\ id # io'.nonce
  <2>1. id \in 1 .. issued
    BY <1>2, <1>3 DEF LinkInv, ResumesOK, ResumeOK
  <2> QED BY <2>1, LinkTypes DEF ResumeOK
<1>4. ASSUME NEW c \in Conns PROVE SentOK(c)'
  <2>1. SentOK(c)
    BY DEF LinkInv
  <2>2. \A k : ~(Way(c, "resume", k, io.nonce)')
    <3>1. \A k, id : id = io'.nonce => ~Way(c, "resume", k, id)'
      BY <1>3
    <3> QED BY <3>1 DEF Way, Fits
  <2> QED BY <1>0, <1>2, <2>1, <2>2 DEF SentOK
<1>5. ASSUME NEW t \in {"login", "resume"}, NEW id, Grant(t, id) PROVE id \in 1 .. issued' /\ id # io'.nonce
  BY <1>5, LinkTypes DEF LinkInv, GrantsOK, GrantOK
<1> QED BY <1>1, <1>3, <1>4, <1>5 DEF ResumesOK

LEMMA ResumeTurnFacts ==
    ASSUME TypeInv, CredentialInv, ShapeInv, LinkInv, turn.t = "resume"
    PROVE  /\ turn.c \in Conns /\ turn.c # 0 /\ io # NoIO /\ turn.id = io.nonce /\ io.nonce = cl.nonce /\ ~cl.online
           /\ io.gen = cl.gen /\ (Early \/ turn.n = cl.recv) /\ issued = cl.nonce
           /\ \A t \in {"login", "resume"} : \A id : Grant(t, id) => cl.stage # t
<1>1. turn.c \in Conns /\ turn.c # 0
  BY ShapeTypes, ConnsFacts DEF TypeInv
<1>2. io # NoIO /\ turn.id = io.nonce
  BY DEF CredentialInv
<1>3. ResumeOK(turn.n, turn.id)
  <2>1. Way(turn.c, "resume", turn.n, turn.id)
    BY DEF Way, Fits
  <2> QED BY <1>1, <2>1 DEF LinkInv, ResumesOK
<1>4. io.nonce = cl.nonce /\ ~cl.online /\ (Early \/ turn.n = cl.recv) /\ issued = cl.nonce
  BY <1>2, <1>3 DEF ResumeOK, LinkInv, NonceOK
<1>5. io.gen = cl.gen
  BY <1>2, <1>4 DEF LinkInv, LinkOK
<1>6. ASSUME NEW t \in {"login", "resume"}, NEW id, Grant(t, id), cl.stage = t PROVE FALSE
  <2>1. id \in 1 .. issued /\ cl.nonce < id /\ issued \in Nat
    BY <1>6, LinkTypes DEF LinkInv, GrantsOK, GrantOK
  <2> QED BY <1>4, <2>1
<1> QED BY <1>1, <1>2, <1>4, <1>5, <1>6

LEMMA LinkResumes ==
    ASSUME TypeInv, CredentialInv, ShapeInv, LoginInv, LinkInv, Resumes
    PROVE  LinkInv'
<1>0. /\ Serving /\ ResumesOf /\ cl' = cl /\ GateMoves
  <2>1. Serving
    BY DEF Serving, Entity
  <2> QED BY <2>1, ResumesFields, ServingServes DEF ShapeInv, Serves, TypeInv
<1>1. /\ turn.t = "resume" /\ turn.c \in Conns /\ io # NoIO /\ issued' = issued + 1 /\ session'.c = turn.c
      /\ io' # NoIO /\ io'.gen = io.gen /\ io'.nonce = issued + 1 /\ gate'[turn.c] = gate[turn.c]
      /\ LiveConn' = turn.c
  BY <1>0 DEF ResumesOf, LiveConn
<1>2. /\ ~cl.online /\ io.gen = cl.gen /\ \A t \in {"login", "resume"} : \A id : Grant(t, id) => cl.stage # t
  BY <1>1, ResumeTurnFacts
<1>3. /\ NonceOK' /\ ResumesOK' /\ (\A c \in Conns : SentOK(c)') /\ Strays'
      /\ \A t \in {"login", "resume"} : \A id : Grant(t, id) => id \in 1 .. issued' /\ id # io'.nonce
  BY <1>0, <1>1, NewNonce, LinkStrays
<1>4. ASSUME NEW t \in {"login", "resume"}, NEW id, Grant(t, id)' PROVE GrantOK(t, id)'
  <2>1. CASE Grant(t, id)
    <3>1. cl.stage # t /\ id \in 1 .. issued' /\ id # io'.nonce
      BY <1>2, <1>3, <2>1
    <3> QED BY <1>0, <3>1 DEF GrantOK
  <2>2. CASE t = "resume" /\ id = issued + 1 /\ turn.c = cl.conn
    <3>1. gate'[cl.conn] # "open"
      BY <1>1, <2>2 DEF ShapeInv, Gates
    <3> QED BY <1>0, <1>1, <1>2, <2>2, <3>1, LinkTypes DEF GrantOK
  <2>3. ~Binds
    BY <1>1 DEF Binds
  <2> QED BY <1>0, <1>4, <2>1, <2>2, <2>3, ServingGrants
<1>5. LinkOK'
  <2>1. cl.nonce # io'.nonce
    BY <1>1, LinkTypes
  <2> QED BY <1>0, <1>1, <1>2, <2>1 DEF LinkOK
<1> QED BY <1>3, <1>4, <1>5 DEF LinkInv, GrantsOK

LEMMA LinkBinds ==
    ASSUME TypeInv, CredentialInv, ShapeInv, LoginInv, LinkInv, Binds
    PROVE  LinkInv'
<1>0. /\ Serving /\ BindsOf /\ cl' = cl
  <2>1. Serving
    BY DEF Serving, Entity
  <2> QED BY <2>1, BindsFields, ServingServes DEF Serves, TypeInv
<1>1. /\ turn.t = "login" /\ turn.c \in Conns /\ issued' = issued + 1 /\ session'.c = turn.c
      /\ io' # NoIO /\ io'.gen = issued + 1 /\ io'.nonce = issued + 1 /\ gate' = gate /\ LiveConn' = turn.c
  BY <1>0 DEF BindsOf, LiveConn
<1>2. turn.c = cl.conn => cl.stage = "login" /\ ~cl.online /\ \A id : ~Grant("login", id)
  <2>1. Way(turn.c, "login", 0, 0)
    BY <1>1 DEF Way, Fits
  <2> QED BY <1>1, <2>1 DEF LoginInv, ShapeInv, ClientForm
<1>3. /\ NonceOK' /\ ResumesOK' /\ (\A c \in Conns : SentOK(c)') /\ Strays'
      /\ \A t \in {"login", "resume"} : \A id : Grant(t, id) => id \in 1 .. issued' /\ id # io'.nonce
  BY <1>0, <1>1, NewNonce, LinkStrays
<1>4. ASSUME NEW t \in {"login", "resume"}, NEW id, Grant(t, id)' PROVE GrantOK(t, id)'
  <2>1. CASE Grant(t, id)
    <3>1. id \in 1 .. issued' /\ id # io'.nonce /\ GrantOK(t, id)
      BY <1>3, <2>1 DEF LinkInv, GrantsOK
    <3>2. ~(cl.stage = t /\ turn.c = cl.conn)
      BY <1>2, <2>1
    <3> QED BY <1>0, <1>1, <3>1, <3>2 DEF GrantOK
  <2>2. CASE t = "login" /\ id = issued + 1 /\ turn.c = cl.conn
    <3>1. gate'[cl.conn] # "open"
      BY <1>1, <2>2 DEF ShapeInv, Gates
    <3> QED BY <1>0, <1>1, <2>2, <3>1, LinkTypes DEF GrantOK
  <2>3. ~Resumes
    BY <1>1 DEF Resumes
  <2> QED BY <1>0, <1>4, <2>1, <2>2, <2>3, ServingGrants
<1>5. LinkOK'
  <2>1. cl.nonce # io'.nonce
    BY <1>1, LinkTypes
  <2>2. cl.online => gate[cl.conn] # "open"
    BY DEF LinkInv, LinkOK
  <2> QED BY <1>0, <1>1, <1>2, <2>1, <2>2 DEF LinkOK
<1> QED BY <1>3, <1>4, <1>5 DEF LinkInv, GrantsOK

LEMMA LinkUnload ==
    ASSUME TypeInv, CredentialInv, ShapeInv, LoginInv, LinkInv, Unload
    PROVE  LinkInv'
<1>0. /\ Serving /\ Serves /\ cl' = cl /\ GateMoves /\ (Early' <=> Early)
  <2>1. Serving
    BY DEF Serving, Entity
  <2> QED BY <2>1, EarlySame, ServingServes DEF Serves, TypeInv
<1>1. /\ io' = NoIO /\ io'.nonce = 0 /\ session' = NoConn /\ LiveConn' = 0 /\ issued' = issued
      /\ (cl.conn # 0 => cl.conn \in Conns)
  BY LinkTypes DEF Unload, LiveConn
<1>2. ~Resumes /\ ~Binds
  BY <1>1, LinkTypes DEF Resumes, Binds
<1>3. NonceOK'
  BY <1>0, <1>1 DEF LinkInv, NonceOK
<1>4. ASSUME NEW t \in {"login", "resume"}, NEW id, Grant(t, id)' PROVE GrantOK(t, id)'
  <2>1. Grant(t, id)
    BY <1>0, <1>2, <1>4, ServingGrants
  <2>2. GrantOK(t, id) /\ cl.conn \in Conns /\ cl.conn # 0 /\ id # 0
    BY <1>1, <2>1, GrantConn DEF LinkInv, GrantsOK, Grant
  <2>3. cl.stage = t => gate'[cl.conn] # "open"
    BY <1>0, <2>2, GateKept DEF GrantOK
  <2> QED BY <1>0, <1>1, <2>2, <2>3 DEF GrantOK
<1>5. \A c \in Conns : \A t \in {"login", "resume", "req", "ping"} : \A n, id : Way(c, t, n, id)' => Way(c, t, n, id)
  BY <1>0, WayServes
<1>6. ASSUME NEW c \in Conns, NEW n, NEW id, Way(c, "resume", n, id)' PROVE ResumeOK(n, id)' /\ id # 0
  <2>1. id \in 1 .. issued /\ id # 0
    BY <1>5, <1>6, LinkTypes DEF LinkInv, ResumesOK, ResumeOK
  <2> QED BY <1>1, <2>1 DEF ResumeOK
<1>7. LinkOK'
  <2>1. cl.online => cl.nonce # 0 /\ cl.conn # 0 /\ gate[cl.conn] # "open"
    BY DEF ShapeInv, ClientForm, LinkInv, LinkOK
  <2>2. cl.online => gate'[cl.conn] # "open"
    BY <1>0, <1>1, <2>1, GateKept
  <2> QED BY <1>0, <1>1, <2>1, <2>2 DEF LinkOK
<1>8. ASSUME NEW c \in Conns PROVE SentOK(c)'
  <2>1. SentOK(c)
    BY DEF LinkInv
  <2>2. \A k : ~(Way(c, "resume", k, io.nonce)')
    <3>1. \A k, id : id = io'.nonce => ~Way(c, "resume", k, id)'
      BY <1>1, <1>6
    <3> QED BY <3>1 DEF Way, Fits
  <2> QED BY <1>0, <1>5, <2>1, <2>2 DEF SentOK
<1>9. Strays'
  BY <1>0, LinkStrays
<1> QED BY <1>3, <1>4, <1>6, <1>7, <1>8, <1>9 DEF LinkInv, GrantsOK, ResumesOK

LEMMA LinkServes ==
    ASSUME TypeInv, CredentialInv, ShapeInv, LoginInv, LinkInv, Serving
    PROVE  LinkInv'
<1>1. CASE Calm
  <2>1. NonceOK'
    <3>1. cl' = cl
      BY ServingServes DEF TypeInv, Serves
    <3> QED BY <1>1, <3>1 DEF Calm, LinkInv, NonceOK
  <2> QED BY <1>1, <2>1, LinkCalm, LinkStrays DEF LinkInv
<1> QED BY <1>1, ServingCalm, LinkResumes, LinkBinds, LinkUnload

(* What the client's steps leave alone.                                      *)
LEMMA ClientServer == Client => UNCHANGED <<session, io, queue, turn, issued>>
BY DEF Client, Connect, Drop, Call, Ping, Receive, ResumeSucceeds, ResumeFails, LoginSucceeds, LoginFails,
   PingAnswered, server

LEMMA ClientEarly == Client /\ ~Early' => ~Early /\ (Call => cl.stage = "idle")
BY DEF Client, Connect, Drop, Call, Ping, Receive, ResumeSucceeds, ResumeFails, LoginSucceeds, LoginFails,
   PingAnswered, history, Takes, Early

(* The kinds of steps of the client.                                         *)
Steady == SameLink /\ cl'.answer = cl.answer /\ cl'.recv = cl.recv /\ UNCHANGED <<down, reply, taken>>

LEMMA ClientKinds ==
    TypeInv /\ Client =>
        Connect \/ GivesUp \/ Steady \/ Receive \/ ResumeSucceeds \/ ResumeFails \/ LoginSucceeds
<1> SUFFICES ASSUME TypeInv, Client
             PROVE  Connect \/ GivesUp \/ Steady \/ Receive \/ ResumeSucceeds \/ ResumeFails \/ LoginSucceeds
  OBVIOUS
<1>0. TypeOK
  BY DEF TypeInv
<1> HIDE DEF TypeOK
<1>1. CASE Call
  <2>1. UNCHANGED <<down, reply, taken>>
    BY <1>1 DEF Call
  <2> QED BY <1>0, <1>1, <2>1, CallFields DEF Steady
<1>2. CASE Ping
  <2>1. UNCHANGED <<down, reply, taken>>
    BY <1>2 DEF Ping, history
  <2> QED BY <1>0, <1>2, <2>1, PingFields DEF Steady
<1>3. CASE PingAnswered /\ cl.ping.n = cl.recv
  <2>1. UNCHANGED <<down, reply, taken>>
    BY <1>0, <1>3, PingAnsweredFields DEF net, history
  <2> QED BY <1>0, <1>3, <2>1, PingAnsweredFields DEF Steady
<1> QED BY <1>0, <1>1, <1>2, <1>3, GivesUpFields DEF Client

(* A ping is only answered while the client is online.                       *)
LEMMA GivesUpNonce ==
    ShapeInv /\ GivesUp => cl'.nonce = cl.nonce \/ (cl'.nonce = 0 /\ cl.online)
BY DEF ShapeInv, ClientForm, GivesUp

LEMMA ReceiveCounts ==
    TypeInv /\ Receive =>
        SameLink /\ (cl'.recv = cl.recv \/ (cl'.recv = cl.recv + 1 /\ (Reaches("pack") \/ Reaches("stray"))))
<1> SUFFICES ASSUME TypeInv, Receive
             PROVE  SameLink /\ (cl'.recv = cl.recv \/ (cl'.recv = cl.recv + 1 /\ (Reaches("pack") \/ Reaches("stray"))))
  OBVIOUS
<1> DEFINE m == Head(down)
<1>1. ReceiveOf(m)
  BY ReceiveFields DEF TypeInv
<1>2. 1 \in DOMAIN down /\ m = down[1]
  BY <1>1, DownTypes, TailAt DEF ReceiveOf
<1> HIDE DEF m
<1>3. Counts(m) => m.t \in {"pack", "stray"}
  BY <1>1 DEF ReceiveOf, Counts, Uncounted, Answer
<1> QED BY <1>1, <1>2, <1>3 DEF ReceiveOf, Reaches

LEMMA LinkClient ==
    ASSUME TypeInv, CredentialInv, ShapeInv, LoginInv, LinkInv, Client
    PROVE  LinkInv'
<1>0. /\ TypeOK /\ ClientForm /\ UNCHANGED <<session, io, queue, turn, issued>> /\ LiveConn' = LiveConn
      /\ (Early => Early') /\ (~Connect => gate' = gate /\ cl'.conn \in {0, cl.conn})
      /\ ClientForm' /\ (\A c \in Conns : c # 0) /\ LinkOK
  <2>1. (Early => Early') /\ (~Connect => gate' = gate /\ cl'.conn \in {0, cl.conn}) /\ \A c \in Conns : c # 0
    BY ClientEarly, ClientSays, ConnsFacts DEF Says
  <2>2. UNCHANGED <<session, io, queue, turn, issued>>
    BY ClientServer
  <2> QED BY <2>1, <2>2, FormClient DEF TypeInv, ShapeInv, LiveConn, LinkInv
<1> HIDE DEF TypeOK
<1>1. ASSUME NEW t \in {"login", "resume"}, NEW id, cl.stage = t, cl.answer.id = id, id # 0
      PROVE  GrantOK(t, id) /\ id \in 1 .. issued /\ cl.nonce < id
  <2>1. Grant(t, id)
    BY <1>1 DEF Grant
  <2> QED BY <1>1, <2>1 DEF LinkInv, GrantsOK, GrantOK
<1>2. ResumeSucceeds => GrantOK("resume", cl.answer.id) /\ cl.answer.id \in 1 .. issued /\ cl.nonce < cl.answer.id
  BY <1>0, <1>1, ResumeSucceedsFields
<1>3. LoginSucceeds => GrantOK("login", cl.answer.id) /\ cl.answer.id \in 1 .. issued /\ cl.nonce < cl.answer.id
  BY <1>0, <1>1, LoginSucceedsFields
<1>4. NonceOK'
  <2>0. NonceOK /\ issued \in Nat /\ \A k \in 1 .. issued : k <= issued
    BY LinkTypes DEF LinkInv
  <2>1. cl'.nonce \in {cl.nonce, 0} \/ cl'.nonce \in 1 .. issued
    <3>1. CASE Connect \/ Steady \/ Receive \/ ResumeFails
      BY <1>0, <3>1, ConnectFields, ReceiveCounts, ResumeFailsFields DEF Steady, SameLink, TypeInv
    <3>2. CASE GivesUp
      BY <3>2, GivesUpNonce
    <3>3. CASE ResumeSucceeds \/ LoginSucceeds
      BY <1>0, <1>2, <1>3, <3>3, ResumeSucceedsFields, LoginSucceedsFields
    <3> QED BY <3>1, <3>2, <3>3, ClientKinds
  <2>2. cl'.gen = cl.gen \/ cl'.gen \in 1 .. issued
    <3>1. CASE Connect \/ Steady \/ Receive \/ ResumeFails \/ ResumeSucceeds \/ GivesUp
      BY <1>0, <3>1, ConnectFields, ReceiveCounts, ResumeFailsFields, ResumeSucceedsFields
         DEF Steady, SameLink, TypeInv, GivesUp
    <3>3. CASE LoginSucceeds
      BY <1>0, <1>3, <3>3, LoginSucceedsFields
    <3> QED BY <3>1, <3>3, ClientKinds
  <2> QED BY <1>0, <2>0, <2>1, <2>2 DEF NonceOK
<1>5. ASSUME NEW t \in {"login", "resume"}, NEW id, Grant(t, id)' PROVE GrantOK(t, id)'
  <2>1. Grant(t, id) /\ cl.conn # 0 /\ cl'.conn = cl.conn /\ ~Connect
    BY <1>5, ClientGrants
  <2>2. GrantOK(t, id) /\ gate' = gate
    BY <1>0, <2>1 DEF LinkInv, GrantsOK
  <2>3. CASE Steady \/ Receive
    <3>1. SameLink
      BY <2>3, ReceiveCounts DEF Steady
    <3> QED BY <1>0, <2>1, <2>2, <3>1 DEF GrantOK, SameLink
  <2>4. CASE ResumeSucceeds \/ LoginSucceeds \/ ResumeFails
    <3>1. cl'.stage # t
      <4>1. ResumeSucceeds \/ LoginSucceeds => cl'.stage = "idle"
        BY <1>0, ResumeSucceedsFields, LoginSucceedsFields
      <4>2. ResumeFails => cl'.stage = "login" /\ cl.stage = "resume"
        BY <1>0, ResumeFailsFields
      <4>3. t = "login" => cl.stage # "resume"
        BY <2>1 DEF LoginInv
      <4> QED BY <2>4, <4>1, <4>2, <4>3
    <3> QED BY <1>0, <2>2, <3>1 DEF GrantOK
  <2>5. CASE GivesUp
    BY <2>1, <2>5 DEF GivesUp
  <2> QED BY <2>1, <2>3, <2>4, <2>5, ClientKinds
<1>6. ASSUME NEW c \in Conns, NEW n, NEW id, Way(c, "resume", n, id)' PROVE ResumeOK(n, id)'
  <2>1. CASE Connect /\ c = cl'.conn /\ cl.nonce # 0 /\ n = cl.recv /\ id = cl.nonce
    <3>1. id \in 1 .. issued
      <4>1. cl.nonce <= issued /\ cl.nonce \in Nat /\ issued \in Nat
        BY LinkTypes DEF LinkInv, NonceOK
      <4> QED BY <2>1, <4>1
    <3>2. ~cl'.online /\ cl'.nonce = cl.nonce /\ cl'.recv = cl.recv
      BY <1>0, <2>1, ConnectFields DEF ClientForm
    <3> QED BY <1>0, <2>1, <3>1, <3>2 DEF ResumeOK
  <2>2. CASE Way(c, "resume", n, id)
    <3>1. ResumeOK(n, id) /\ id \in 1 .. issued /\ id # 0
      BY <2>2, LinkTypes DEF LinkInv, ResumesOK, ResumeOK
    <3>2. CASE id # io.nonce
      BY <1>0, <3>1, <3>2 DEF ResumeOK
    <3>3. CASE id = io.nonce
      <4>1. io # NoIO /\ id = cl.nonce /\ ~cl.online /\ (Early \/ n = cl.recv) /\ id = issued
        BY <3>1, <3>3, LinkTypes DEF ResumeOK
      <4>2. ~ResumeSucceeds /\ ~LoginSucceeds
        <5>1. \A a \in 1 .. issued : ~(cl.nonce < a)
          BY <4>1, LinkTypes
        <5> QED BY <1>2, <1>3, <5>1
      <4>3. cl'.nonce = cl.nonce /\ ~cl'.online
        <5>1. CASE Connect \/ Steady \/ Receive \/ ResumeFails
          BY <1>0, <4>1, <5>1, ConnectFields, ReceiveCounts, ResumeFailsFields DEF Steady, SameLink
        <5>2. CASE GivesUp
          BY <4>1, <5>2, GivesUpNonce DEF GivesUp
        <5> QED BY <4>2, <5>1, <5>2, ClientKinds
      <4>4. Early' \/ n = cl'.recv
        <5>1. CASE Connect \/ Steady \/ ResumeFails \/ GivesUp
          BY <1>0, <4>1, <5>1, ConnectFields, ResumeFailsFields DEF Steady, GivesUp
        <5>2. CASE Receive
          <6>1. ~Reaches("pack")
            BY <1>0, <3>3, <4>1 DEF LinkOK
          <6>2. Reaches("stray") => Early
            BY DEF LinkInv, Strays
          <6> QED BY <1>0, <4>1, <5>2, <6>1, <6>2, ReceiveCounts
        <5> QED BY <4>2, <5>1, <5>2, ClientKinds
      <4> QED BY <1>0, <3>1, <3>3, <4>1, <4>3, <4>4 DEF ResumeOK
    <3> QED BY <3>2, <3>3
  <2> QED BY <1>6, <2>1, <2>2, ClientWay
<1>7. LinkOK'
  <2>1. CASE Connect
    <3>1. LiveConn # cl'.conn
      BY <2>1, NewConn
    <3>2. ~cl'.online /\ cl'.nonce = cl.nonce /\ cl'.gen = cl.gen
      BY <1>0, <2>1, ConnectFields DEF ClientForm
    <3>3. ~Reaches("pack")'
      BY <2>1, ClientReaches
    <3> QED BY <1>0, <3>1, <3>2, <3>3 DEF LinkOK
  <2>2. CASE GivesUp
    <3>1. ~cl'.online /\ cl'.conn = 0 /\ cl'.gen = cl.gen
      BY <2>2 DEF GivesUp
    <3>2. cl'.nonce = cl.nonce \/ cl'.nonce = 0
      BY <2>2, GivesUpNonce
    <3>3. ~Reaches("pack")'
      BY <2>2 DEF GivesUp, Reaches
    <3>4. io # NoIO => io.nonce # 0
      BY LinkTypes
    <3> QED BY <1>0, <3>1, <3>2, <3>3, <3>4 DEF LinkOK
  <2>3. CASE Steady \/ Receive \/ ResumeFails
    <3>1. cl'.conn = cl.conn /\ cl'.online = cl.online /\ cl'.gen = cl.gen /\ cl'.nonce = cl.nonce
      BY <1>0, <2>3, ReceiveCounts, ResumeFailsFields DEF Steady, SameLink
    <3>2. ~Connect
      BY <2>1, <3>1, NewConn DEF Connect
    <3>3. Reaches("pack")' => Reaches("pack")
      BY ClientReaches
    <3> QED BY <1>0, <3>1, <3>2, <3>3 DEF LinkOK
  <2>4. CASE ResumeSucceeds \/ LoginSucceeds
    <3> DEFINE t == IF ResumeSucceeds THEN "resume" ELSE "login"
               a == cl.answer.id
    <3>1. GrantOK(t, a) /\ a # 0
      BY <1>0, <1>2, <1>3, <2>4, ResumeSucceedsFields, LoginSucceedsFields
    <3>2. /\ cl'.online /\ cl'.nonce = a /\ cl'.conn = cl.conn /\ cl.stage = t
          /\ cl'.gen = (IF t = "resume" THEN cl.gen ELSE a)
      BY <1>0, <2>4, ResumeSucceedsFields, LoginSucceedsFields
    <3>3. gate' = gate
      <4>1. ~Connect
        BY <2>4 DEF Connect, ResumeSucceeds, LoginSucceeds
      <4> QED BY <1>0, <4>1
    <3>4. t = "resume" \/ t = "login"
      OBVIOUS
    <3> HIDE DEF t, a
    <3> QED BY <1>0, <3>1, <3>2, <3>3, <3>4 DEF GrantOK, LinkOK
  <2> QED BY <2>1, <2>2, <2>3, <2>4, ClientKinds
<1>8. ASSUME NEW c \in Conns PROVE SentOK(c)'
  <2> SUFFICES ASSUME NEW t \in {"ping", "req"}, NEW n, Way(c, t, n, 0)', t = "req" => ~Early'
               PROVE  /\ c = cl'.conn => cl'.online
                      /\ ~Way(c, "login", 0, 0)' /\ \A k, id : id = io.nonce => ~Way(c, "resume", k, id)'
    BY <1>0 DEF SentOK, Way, Fits
  <2>0. (t = "req" => ~Early) /\ (t = "req" /\ Call => cl.stage = "idle")
    BY ClientEarly
  <2>1. CASE Way(c, t, n, 0) /\ (Connect => c # cl'.conn)
    <3>1. /\ c = cl.conn => cl.online
          /\ ~Way(c, "login", 0, 0) /\ \A k, id : id = io.nonce => ~Way(c, "resume", k, id)
      BY <2>0, <2>1 DEF LinkInv, SentOK
    <3>2. c = cl.conn => ~ResumeFails
      BY <1>0, <3>1, ResumeFailsFields DEF ClientForm
    <3>3. ~Way(c, "login", 0, 0)'
      BY <2>1, <3>1, <3>2, ClientWay
    <3>4. ASSUME NEW k, NEW id, id = io.nonce, Way(c, "resume", k, id)' PROVE FALSE
      BY <2>1, <3>1, <3>4, ClientWay
    <3>5. c = cl'.conn => cl'.online
      <4> SUFFICES ASSUME c = cl'.conn PROVE cl'.online
        OBVIOUS
      <4>1. ~Connect /\ c = cl.conn /\ cl.online /\ ~GivesUp
        BY <1>0, <2>1, <3>1 DEF GivesUp
      <4> QED BY <1>0, <4>1, ClientKinds, ReceiveCounts, ResumeSucceedsFields, ResumeFailsFields, LoginSucceedsFields
          DEF Steady, SameLink
    <3> QED BY <3>3, <3>4, <3>5
  <2>2. CASE ((Call \/ ResumeSucceeds) /\ c = cl.conn /\ t = "req") \/ (Ping /\ c = cl.conn /\ t = "ping")
    <3>1. /\ c = cl.conn /\ ~Connect /\ (cl.online \/ ResumeSucceeds) /\ cl.stage # "login" /\ ~ResumeFails /\ cl'.online
      <4>1. CASE Call
        <5>1. cl.stage = "idle" /\ c = cl.conn
          <6>1. CASE t = "req"
            BY <2>0, <2>2, <4>1, <6>1
          <6>2. CASE t = "ping"
            BY <1>0, <2>2, <6>2 DEF Ping, ClientForm
          <6> QED BY <6>1, <6>2
        <5> QED BY <1>0, <4>1, <5>1, CallFields DEF ClientForm, Connect, ResumeFails, SameLink
      <4>2. CASE Ping
        <5>1. cl.online /\ c = cl.conn
          BY <2>2, <4>2 DEF Ping
        <5> QED BY <1>0, <4>2, <5>1, PingFields DEF ClientForm, Connect, ResumeFails, SameLink
      <4>3. CASE ResumeSucceeds
        BY <1>0, <2>2, <4>3, ResumeSucceedsFields DEF Connect, ResumeFails
      <4> QED BY <2>2, <4>1, <4>2, <4>3
    <3>2. ~Way(c, "login", 0, 0)
      BY <3>1 DEF LoginInv
    <3>3. ~Way(c, "login", 0, 0)'
      BY <3>1, <3>2, ClientWay
    <3>4. ASSUME NEW k, NEW id, id = io.nonce, Way(c, "resume", k, id)' PROVE FALSE
      <4>1. Way(c, "resume", k, id)
        BY <3>1, <3>4, ClientWay
      <4>2. id \in 1 .. issued /\ id = cl.nonce /\ ~cl.online
        BY <3>4, <4>1 DEF LinkInv, ResumesOK, ResumeOK
      <4>3. ResumeSucceeds /\ io # NoIO /\ cl.nonce = issued
        BY <3>1, <3>4, <4>2, LinkTypes
      <4>4. \A a \in 1 .. issued : ~(cl.nonce < a)
        BY <4>3, LinkTypes
      <4> QED BY <1>2, <4>3, <4>4
    <3> QED BY <3>1, <3>3, <3>4
  <2>3. t \in {"login", "resume", "req", "ping"} /\ t # "login" /\ t # "resume"
    OBVIOUS
  <2>4. \/ Way(c, t, n, 0) /\ (Connect => c # cl'.conn)
        \/ (Call \/ ResumeSucceeds) /\ c = cl.conn /\ t = "req"
        \/ Ping /\ c = cl.conn /\ t = "ping"
    BY <2>3, ClientWay
  <2> QED BY <2>1, <2>2, <2>4
<1>9. Strays'
  BY ClientEarly, ClientReaches DEF LinkInv, Strays
<1> QED BY <1>4, <1>5, <1>6, <1>7, <1>8, <1>9 DEF LinkInv, GrantsOK, ResumesOK

LEMMA LinkStep == TypeInv /\ CredentialInv /\ ShapeInv /\ LoginInv /\ LinkInv /\ [Next]_vars => LinkInv'
<1> SUFFICES ASSUME TypeInv, CredentialInv, ShapeInv, LoginInv, LinkInv, [Next]_vars PROVE LinkInv'
  OBVIOUS
<1>1. CASE UNCHANGED vars
  <2>1. UNCHANGED <<gate, up, reply, down, session, io, queue, turn, issued, cl, mishaps>>
    BY <1>1 DEF vars, net, server, history
  <2>2. NonceOK' /\ LinkOK' /\ Strays' /\ GrantsOK'
    <3>1. NonceOK' /\ LinkOK' /\ Strays'
      BY <2>1 DEF LinkInv, NonceOK, LinkOK, Strays, Reaches, LiveConn, Early
    <3>2. \A t, id : (Grant(t, id)' <=> Grant(t, id)) /\ (GrantOK(t, id)' <=> GrantOK(t, id))
      BY <2>1 DEF Grant, GrantIn, GrantOK, LiveConn
    <3>3. GrantsOK'
      BY <3>2 DEF LinkInv, GrantsOK
    <3> QED BY <3>1, <3>3
  <2>3. \A c, t, n, id : Way(c, t, n, id)' <=> Way(c, t, n, id)
    BY <2>1 DEF Way
  <2>4. ResumesOK'
    BY <2>1, <2>3 DEF LinkInv, ResumesOK, ResumeOK, Early
  <2>5. ASSUME NEW c \in Conns PROVE SentOK(c)'
    <3>1. SentOK(c) /\ (Early' <=> Early)
      BY <2>1 DEF LinkInv, Early
    <3>2. \A k : Way(c, "resume", k, io.nonce)' => Way(c, "resume", k, io.nonce)
      BY <2>1 DEF Way
    <3> QED BY <2>1, <2>3, <3>1, <3>2 DEF SentOK
  <2> QED BY <2>2, <2>4, <2>5 DEF LinkInv
<1> QED BY <1>1, LinkServes, LinkClient DEF Next, Serving

LEMMA InitLink == Init => LinkInv
<1> SUFFICES ASSUME Init PROVE LinkInv
  OBVIOUS
<1>1. /\ cl.conn = 0 /\ cl.stage = "idle" /\ ~cl.online /\ cl.nonce = 0 /\ cl.gen = 0 /\ io = NoIO /\ issued = 0
      /\ down = << >> /\ reply = << >> /\ queue = << >> /\ turn = NoTurn /\ \A c \in Conns : up[c] = << >>
  BY DEF Init
<1>2. NoTurn.t = "none"
  BY DEF NoTurn
<1>3. \A t, id : t \in {"login", "resume"} => ~Grant(t, id)
  BY <1>1 DEF Grant, GrantIn
<1>4. \A c \in Conns : \A t \in {"login", "resume", "req", "ping"} : \A n, id : ~Way(c, t, n, id)
  BY <1>1, <1>2 DEF Way, Fits
<1>5. GrantsOK
  BY <1>3 DEF GrantsOK
<1>6. ResumesOK /\ \A c \in Conns : SentOK(c)
  BY <1>4 DEF ResumesOK, SentOK
<1>7. NonceOK /\ LinkOK /\ Strays
  BY <1>1 DEF NonceOK, LinkOK, Strays, Reaches
<1> QED BY <1>5, <1>6, <1>7 DEF LinkInv

LEMMA LinkKept == TypeInv /\ ShapeInv /\ LinkInv => LiveConnKept
<1> SUFFICES ASSUME TypeInv, ShapeInv, LinkInv,
                    cl.stage = "idle", cl.nonce = io.nonce, cl.conn # 0, gate[cl.conn] = "bound"
             PROVE  LiveConn = cl.conn
  BY DEF LiveConnKept
<1>1. cl.online
  BY DEF ShapeInv, ClientForm
<1> QED BY <1>1 DEF LinkInv, LinkOK

-----------------------------------------------------------------------------
(* Sessions and their packages, by number: what the client takes and what is *)
(* on its way to it is never of a session after the entity's, nor of one     *)
(* before the client's, and the packages of a session come in order.         *)

Seen(g) == IF taken.gen = g THEN taken.seq ELSE 0

GensOK ==
    /\ taken.gen <= issued
    /\ io # NoIO => /\ io.gen \in 1 .. issued /\ cl.gen <= io.gen /\ taken.gen <= io.gen
                    /\ Seen(io.gen) <= io.sent

LoginsOK == \A id : Grant("login", id) /\ io # NoIO => id <= io.gen

PackOK(x) ==
    /\ cl.gen <= x.gen /\ x.gen <= issued /\ x.seq # 0
    /\ io # NoIO => x.gen <= io.gen /\ (x.gen = io.gen => x.seq <= io.sent)

PacksOK == \A i \in DOMAIN down : down[i].t = "pack" => PackOK(down[i])

(* Package b is behind a. *)
Behind(a, b) ==
    b.t = "pack" => (a.t = "pack" /\ a.gen = b.gen => a.seq < b.seq) /\ (a.t = "login" => a.gen <= b.gen)

PairsOK  == \A i, j \in DOMAIN down : i < j => Behind(down[i], down[j])
AnswerOK == cl.stage = "login" => \A i \in DOMAIN down : down[i].t = "pack" => cl.answer.id <= down[i].gen

NumberInv == GensOK /\ LoginsOK /\ PacksOK /\ PairsOK /\ AnswerOK

LEMMA AnswerNat == ASSUME NEW x \in Answer PROVE x.gen \in Nat /\ x.seq \in Nat
BY DEF Answer

LEMMA NumberTypes ==
    TypeInv => /\ taken.gen \in Nat /\ taken.seq \in Nat /\ taken.ordered \in BOOLEAN /\ cl.answer.id \in Nat
               /\ io.gen \in Nat /\ io.sent \in Nat /\ io.acked \in Nat /\ cl.gen \in Nat /\ cl.recv \in Nat /\ issued \in Nat
               /\ \A g : Seen(g) \in Nat
               /\ \A i \in DOMAIN down : down[i] \in Answer /\ down[i].gen \in Nat /\ down[i].seq \in Nat /\ i \in Nat
<1> SUFFICES ASSUME TypeInv
             PROVE  /\ taken.gen \in Nat /\ taken.seq \in Nat /\ taken.ordered \in BOOLEAN /\ cl.answer.id \in Nat
                    /\ io.gen \in Nat /\ io.sent \in Nat /\ io.acked \in Nat /\ cl.gen \in Nat /\ cl.recv \in Nat
                    /\ issued \in Nat /\ \A g : Seen(g) \in Nat
                    /\ \A i \in DOMAIN down : down[i] \in Answer /\ down[i].gen \in Nat /\ down[i].seq \in Nat /\ i \in Nat
  OBVIOUS
<1>1. taken \in [gen : Nat, seq : Nat, ordered : BOOLEAN] /\ cl \in Clients
  BY DEF TypeInv, TypeOK
<1>2. taken.gen \in Nat /\ taken.seq \in Nat /\ taken.ordered \in BOOLEAN
  BY <1>1
<1>3. cl.answer.id \in Nat
  <2>1. cl.answer \in [got : BOOLEAN, id : Nat]
    BY <1>1 DEF Clients
  <2> QED BY <2>1
<1>4. \A i \in DOMAIN down : down[i] \in Answer /\ i \in Nat
  <2>1. down \in Seq(Answer)
    BY DownTypes
  <2> QED BY <2>1
<1>5. \A i \in DOMAIN down : down[i].gen \in Nat /\ down[i].seq \in Nat
  BY <1>4, AnswerNat
<1>6. \A g : Seen(g) \in Nat
  BY <1>2 DEF Seen
<1> QED BY <1>2, <1>3, <1>4, <1>5, <1>6, DownTypes

(* What the steps of the others do to the numbers.                           *)
Keeps ==
    /\ (io' = NoIO <=> io = NoIO) /\ io'.gen = io.gen /\ io'.sent \in {io.sent, io.sent + 1}
    /\ issued' \in {issued, issued + 1} /\ ~Binds

LEMMA ServingKeeps ==
    TypeInv /\ CredentialInv /\ ShapeInv /\ Serving =>
        /\ cl' = cl /\ taken' = taken
        /\ Keeps \/ (Binds /\ BindsOf) \/ (io' = NoIO /\ down' = down /\ issued' = issued /\ ~Binds)
<1> SUFFICES ASSUME TypeInv, CredentialInv, ShapeInv, Serving
             PROVE  /\ cl' = cl /\ taken' = taken
                    /\ Keeps \/ (Binds /\ BindsOf) \/ (io' = NoIO /\ down' = down /\ issued' = issued /\ ~Binds)
  OBVIOUS
<1>0. /\ cl' = cl /\ issued \in Nat /\ issued # issued + 1 /\ (Binds => issued' = issued + 1 /\ turn.t = "login")
      /\ NoIO.nonce = 0 /\ (io # NoIO => io.nonce # 0) /\ NoTurn.t = "none"
  <2>1. cl' = cl
    BY ServingServes DEF Serves
  <2>2. issued \in Nat
    BY DownTypes
  <2>3. issued # issued + 1
    BY <2>2
  <2>4. Binds => issued' = issued + 1 /\ turn.t = "login"
    BY DEF Binds
  <2>5. io # NoIO => io.nonce # 0
    BY DownTypes DEF CredentialInv
  <2> QED BY <2>1, <2>2, <2>3, <2>4, <2>5 DEF NoIO, NoTurn
<1>1. CASE StreamSends
  BY <1>0, <1>1 DEF StreamSends, IoSends, Keeps
<1>2. CASE StreamQuiet
  BY <1>0, <1>2 DEF StreamQuiet, Keeps
<1>3. CASE LoginReplies
  BY <1>0, <1>3 DEF LoginReplies, server, history, Keeps
<1>4. CASE PingTurn
  BY <1>0, <1>4, PingTurnFields DEF PingOf, Keeps
<1>5. CASE Resumes
  <2>1. ResumesOf
    BY <1>5, ResumesFields DEF ShapeInv
  <2> QED BY <1>0, <2>1 DEF ResumesOf, Keeps
<1>6. CASE Binds
  <2>1. BindsOf
    BY <1>6, BindsFields
  <2> QED BY <1>0, <1>6, <2>1 DEF BindsOf, history
<1>7. CASE Unload
  <2>1. io' = NoIO /\ down' = down /\ issued' = issued /\ taken' = taken
    BY <1>7 DEF Unload, history
  <2> QED BY <1>0, <2>1
<1> QED BY <1>1, <1>2, <1>3, <1>4, <1>5, <1>6, <1>7, ServingStreams

LEMMA GensServes ==
    ASSUME TypeInv, CredentialInv, ShapeInv, LinkInv, NumberInv, Serving
    PROVE  GensOK' /\ LoginsOK'
<1>0. /\ GensOK /\ LoginsOK /\ cl' = cl /\ taken' = taken /\ issued \in Nat /\ taken.gen \in Nat /\ cl.gen \in Nat
      /\ io.gen \in Nat /\ io.sent \in Nat /\ cl.gen <= issued /\ (\A g : Seen(g) \in Nat)
  BY NumberTypes, ServingKeeps DEF NumberInv, LinkInv, NonceOK
<1>1. CASE Keeps
  <2>1. GensOK'
    <3>1. taken.gen <= issued'
      BY <1>0, <1>1 DEF Keeps, GensOK
    <3>2. io # NoIO => io.gen \in 1 .. issued'
      BY <1>0, <1>1 DEF Keeps, GensOK
    <3>3. io # NoIO => Seen(io.gen) <= io'.sent
      BY <1>0, <1>1 DEF Keeps, GensOK
    <3> QED BY <1>0, <1>1, <3>1, <3>2, <3>3 DEF Keeps, GensOK, Seen
  <2>2. \A id : Grant("login", id)' => Grant("login", id)
    BY <1>1, ServingGrants DEF Keeps
  <2> QED BY <1>0, <1>1, <2>1, <2>2 DEF Keeps, LoginsOK
<1>2. CASE Binds /\ BindsOf
  <2>1. io'.gen = issued + 1 /\ issued' = issued + 1 /\ io'.sent = 0
    BY <1>2 DEF BindsOf
  <2>2. GensOK'
    <3>1. taken.gen <= issued + 1 /\ cl.gen <= issued + 1 /\ taken.gen # issued + 1 /\ issued + 1 \in 1 .. issued + 1
      BY <1>0 DEF GensOK
    <3> QED BY <1>0, <2>1, <3>1 DEF GensOK, Seen
  <2>3. \A id : Grant("login", id)' => id <= issued + 1
    <3>1. \A id : Grant("login", id)' => id \in 1 .. issued \/ id = issued + 1
      BY ServingGrants DEF LinkInv, GrantsOK, GrantOK
    <3> QED BY <1>0, <3>1
  <2> QED BY <2>1, <2>2, <2>3 DEF LoginsOK
<1>3. CASE io' = NoIO /\ down' = down /\ issued' = issued
  BY <1>0, <1>3 DEF GensOK, LoginsOK
<1> QED BY <1>1, <1>2, <1>3, ServingKeeps

(* A package that is new on its way to the client is counted now, or is one  *)
(* of a replay.                                                             *)
SentAt(i) ==
    /\ StreamSends /\ io # NoIO /\ io' # NoIO /\ io'.gen = io.gen /\ io'.sent = io.sent + 1 /\ issued' = issued
    /\ LiveConn = cl.conn /\ cl.conn # 0 /\ Known(cl.conn)
    /\ i = Len(down) + 1 /\ down'[i].gen = io.gen /\ down'[i].seq = io.sent + 1

ReplayedAt(i) ==
    /\ Resumes /\ ResumesOf /\ turn.c = cl.conn /\ cl.conn # 0 /\ down'[i].gen = io.gen
    /\ \E k \in 1 .. (io.sent - io'.acked) : down'[i].seq = io'.acked + k /\ i = Len(down) + k

LEMMA NewPack ==
    ASSUME TypeInv, CredentialInv, ShapeInv, Serving, NEW i \in DOMAIN down', down'[i].t = "pack", i \notin DOMAIN down
    PROVE  SentAt(i) \/ ReplayedAt(i)
<1>1. ASSUME StreamSends, LiveConn = cl.conn, cl.conn # 0, Known(cl.conn), down'[i].gen = io.gen, down'[i].seq = io.sent + 1
      PROVE  SentAt(i)
  <2>1. io # NoIO /\ io'.nonce = io.nonce /\ io'.gen = io.gen /\ io'.sent = io.sent + 1 /\ issued' = issued
    BY <1>1 DEF StreamSends, IoSends
  <2>2. io' # NoIO
    <3>1. io.nonce # 0 /\ NoIO.nonce = 0
      BY <2>1, DownTypes DEF CredentialInv, NoIO
    <3> QED BY <2>1, <3>1
  <2>3. PICK x \in Answer : down' = down \o <<x>>
    BY <1>1, SentPack
  <2>4. i = Len(down) + 1
    BY <2>3, DownTypes, GotOne
  <2> QED BY <1>1, <2>1, <2>2, <2>4 DEF SentAt
<1>2. ASSUME Resumes, turn.c = cl.conn, cl.conn # 0, down'[i].gen = io.gen,
             \E k \in 1 .. (io.sent - io'.acked) : down'[i].seq = io'.acked + k /\ i = Len(down) + k
      PROVE  ReplayedAt(i)
  <2>1. ResumesOf
    BY <1>2, ResumesFields DEF ShapeInv
  <2> QED BY <1>2, <2>1 DEF ReplayedAt
<1>3. ~Chat(down'[i])
  BY DEF Chat
<1> QED BY <1>1, <1>2, <1>3, DownFrom

LEMMA PacksServes ==
    ASSUME TypeInv, TypeInv', CredentialInv, ShapeInv, LinkInv, NumberInv, Serving
    PROVE  PacksOK' /\ AnswerOK'
<1>0. /\ GensOK /\ PacksOK /\ AnswerOK /\ cl' = cl /\ issued \in Nat /\ cl.gen \in Nat /\ cl.answer.id \in Nat
      /\ io.gen \in Nat /\ io.sent \in Nat /\ (io # NoIO => cl.gen <= io.gen /\ io.gen <= issued)
      /\ \A i \in DOMAIN down : down[i].gen \in Nat /\ down[i].seq \in Nat
  <2>1. io # NoIO => io.gen \in 1 .. issued /\ cl.gen <= io.gen
    BY DEF NumberInv, GensOK
  <2>2. io # NoIO => io.gen <= issued
    BY <2>1, NumberTypes
  <2> QED BY <2>1, <2>2, NumberTypes, ServingKeeps DEF NumberInv
<1>1. ASSUME NEW x \in Answer, PackOK(x) PROVE PackOK(x)'
  <2>0. x.gen \in Nat /\ x.seq \in Nat
    BY AnswerNat
  <2>1. CASE Keeps
    BY <1>0, <1>1, <2>0, <2>1 DEF Keeps, PackOK
  <2>2. CASE BindsOf
    <3>1. x.gen <= issued + 1 /\ x.gen # issued + 1
      BY <1>0, <1>1, <2>0 DEF PackOK
    <3> QED BY <1>0, <1>1, <2>2, <3>1 DEF BindsOf, PackOK
  <2>3. CASE io' = NoIO /\ issued' = issued
    BY <1>0, <1>1, <2>3 DEF PackOK
  <2> QED BY <2>1, <2>2, <2>3, ServingKeeps
<1>2. ASSUME NEW i \in DOMAIN down', down'[i].t = "pack", i \notin DOMAIN down
      PROVE  /\ io # NoIO /\ io' # NoIO /\ io'.gen = io.gen /\ down'[i].gen = io.gen /\ down'[i].seq # 0
             /\ down'[i].seq <= io'.sent /\ issued' \in {issued, issued + 1} /\ down'[i].seq \in Nat
  <2>1. CASE SentAt(i)
    <3>1. io.sent + 1 \in Nat /\ io.sent + 1 # 0 /\ io.sent + 1 <= io.sent + 1
      BY <1>0
    <3> QED BY <2>1, <3>1 DEF SentAt
  <2>2. CASE ReplayedAt(i)
    <3>1. io # NoIO /\ io' # NoIO /\ io'.gen = io.gen /\ io'.sent = io.sent /\ issued' = issued + 1 /\ io'.acked \in Nat
      BY <2>2 DEF ResumesOf, ReplayedAt
    <3>2. PICK k \in 1 .. (io.sent - io'.acked) : down'[i].seq = io'.acked + k
      BY <2>2 DEF ReplayedAt
    <3>3. io'.acked + k # 0 /\ io'.acked + k <= io.sent /\ io'.acked + k \in Nat
      BY <1>0, <3>1
    <3> QED BY <2>2, <3>1, <3>2, <3>3 DEF ReplayedAt
  <2> QED BY <1>2, <2>1, <2>2, NewPack
<1>3. ASSUME NEW i \in DOMAIN down', NEW x \in Answer, x = down'[i], x.t = "pack" PROVE PackOK(x)'
  <2>1. CASE i \in DOMAIN down /\ down'[i] = down[i]
    <3>1. x = down[i] /\ PackOK(down[i])
      BY <1>0, <1>3, <2>1 DEF PacksOK
    <3> QED BY <1>1, <3>1
  <2>2. CASE i \notin DOMAIN down
    <3>1. /\ io # NoIO /\ io' # NoIO /\ io'.gen = io.gen /\ x.gen = io.gen /\ x.seq # 0 /\ x.seq <= io'.sent
          /\ issued' \in {issued, issued + 1}
      BY <1>2, <1>3, <2>2
    <3>2. cl.gen <= io.gen /\ io.gen <= issued' /\ io.gen <= io.gen /\ cl' = cl
      BY <1>0, <3>1
    <3> QED BY <3>1, <3>2 DEF PackOK
  <2> QED BY <2>1, <2>2, DownFrom
<1>4. AnswerOK'
  <2> SUFFICES ASSUME cl.stage = "login", NEW i \in DOMAIN down', down'[i].t = "pack" PROVE cl.answer.id <= down'[i].gen
    BY <1>0 DEF AnswerOK
  <2>1. CASE i \in DOMAIN down /\ down'[i] = down[i]
    BY <1>0, <2>1 DEF AnswerOK
  <2>2. CASE i \notin DOMAIN down
    <3>1. io # NoIO /\ down'[i].gen = io.gen
      BY <1>2, <2>2
    <3>2. cl.answer.id # 0 => Grant("login", cl.answer.id)
      BY DEF Grant
    <3> QED BY <1>0, <3>1, <3>2 DEF NumberInv, LoginsOK
  <2> QED BY <2>1, <2>2, DownFrom
<1>5. down' \in Seq(Answer)
  BY DEF TypeInv, TypeOK
<1>6. PacksOK'
  <2>1. \A i \in DOMAIN down' : down'[i] \in Answer
    BY <1>5
  <2> QED BY <1>3, <2>1 DEF PacksOK, PackOK
<1> QED BY <1>4, <1>6

LEMMA PairsServes ==
    ASSUME TypeInv, TypeInv', CredentialInv, ShapeInv, LinkInv, NumberInv, Serving
    PROVE  PairsOK'
<1>0. /\ PairsOK /\ PacksOK /\ LoginsOK /\ down \in Seq(Answer) /\ Len(down) \in Nat /\ DOMAIN down = 1 .. Len(down)
      /\ io.sent \in Nat /\ io.gen \in Nat /\ issued \in Nat /\ issued + 1 # issued
      /\ \A i \in DOMAIN down : down[i].gen \in Nat /\ down[i].seq \in Nat
  <2>1. issued \in Nat /\ down \in Seq(Answer)
    BY DownTypes
  <2> QED BY <2>1, NumberTypes DEF NumberInv
<1> SUFFICES ASSUME NEW i \in DOMAIN down', NEW j \in DOMAIN down', i < j, down'[j].t = "pack"
             PROVE  /\ down'[i].t = "pack" /\ down'[i].gen = down'[j].gen => down'[i].seq < down'[j].seq
                    /\ down'[i].t = "login" => down'[i].gen <= down'[j].gen
  BY DEF PairsOK, Behind
<1>1. /\ i \in Nat /\ i # 0
      /\ i \in DOMAIN down => down'[i] = down[i]
      /\ j \in DOMAIN down => down'[j] = down[j] /\ i \in DOMAIN down
  <2>0. i \in 1 .. Len(down') /\ j \in 1 .. Len(down') /\ Len(down') \in Nat
    <3>1. down' \in Seq(Answer)
      BY DEF TypeInv, TypeOK
    <3> QED BY <3>1
  <2>1. \A k \in DOMAIN down' : k \in DOMAIN down => down'[k] = down[k]
    BY DownFrom
  <2> QED BY <1>0, <2>0, <2>1
<1>2. CASE j \in DOMAIN down
  BY <1>0, <1>1, <1>2 DEF PairsOK, Behind
<1>3. CASE j \notin DOMAIN down /\ i \in DOMAIN down
  <2>1. io # NoIO /\ down'[j].gen = io.gen
    BY <1>3, NewPack DEF SentAt, ReplayedAt, ResumesOf
  <2>2. down'[i].t = "login" => down'[i].gen <= down'[j].gen
    <3>1. down[i].t = "login" /\ down[i].gen # 0 => Grant("login", down[i].gen)
      BY <1>3 DEF Grant, GrantIn
    <3> QED BY <1>0, <1>1, <1>3, <2>1, <3>1 DEF LoginsOK
  <2>3. CASE SentAt(j)
    <3>1. down[i].t = "pack" /\ down[i].gen = io.gen => down[i].seq <= io.sent
      BY <1>0, <1>3, <2>1 DEF PacksOK, PackOK
    <3>2. down[i].seq \in Nat /\ (down[i].seq <= io.sent => down[i].seq < io.sent + 1)
      BY <1>0, <1>3
    <3> QED BY <1>1, <1>3, <2>1, <2>2, <2>3, <3>1, <3>2 DEF SentAt
  <2>4. CASE ReplayedAt(j)
    <3>1. turn.t = "resume"
      BY <2>4 DEF ReplayedAt, ResumesOf
    <3>2. ~Reaches("pack")
      BY <2>1, <3>1, ResumeTurnFacts DEF LinkInv, LinkOK
    <3> QED BY <1>1, <1>3, <2>2, <3>2 DEF Reaches
  <2> QED BY <1>3, <2>3, <2>4, NewPack
<1>4. CASE j \notin DOMAIN down /\ i \notin DOMAIN down
  <2>1. CASE SentAt(j)
    <3>1. issued' = issued /\ j = Len(down) + 1 /\ StreamSends
      BY <2>1 DEF SentAt
    <3>2. PICK x \in Answer : down' = down \o <<x>>
      BY <1>0, <1>4, <3>1, SentPack
    <3>3. i = Len(down) + 1
      BY <1>0, <1>4, <3>2, GotOne
    <3> QED BY <1>0, <3>1, <3>3
  <2>2. CASE ReplayedAt(j)
    <3>0. issued' = issued + 1 /\ io'.acked \in Nat /\ Resumes
      BY <2>2 DEF ReplayedAt, ResumesOf
    <3>1. ~StreamSends /\ ~StreamQuiet /\ ~PingTurn /\ ~LoginReplies
      BY <1>0, <3>0 DEF StreamSends, StreamQuiet, PingTurn, LoginReplies, server
    <3>2. PICK k \in 1 .. (io.sent - io'.acked) : down'[j].seq = io'.acked + k /\ j = Len(down) + k
      BY <2>2 DEF ReplayedAt
    <3>3. PICK h \in 1 .. (io.sent - io'.acked) : /\ down'[i].seq = io'.acked + h /\ i = Len(down) + h
                                                  /\ down'[i].t = "pack"
      BY <1>4, <3>1, DownFrom
    <3>4. h < k
      BY <1>0, <3>0, <3>2, <3>3
    <3>5. io'.acked + h < io'.acked + k
      BY <1>0, <3>0, <3>4
    <3> QED BY <3>2, <3>3, <3>5
  <2> QED BY <1>4, <2>1, <2>2, NewPack
<1> QED BY <1>2, <1>3, <1>4

LEMMA NumberClient ==
    ASSUME TypeInv, CredentialInv, ShapeInv, LoginInv, LinkInv, NumberInv, Client
    PROVE  NumberInv'
<1>0. /\ TypeOK /\ UNCHANGED <<session, io, queue, turn, issued>> /\ issued \in Nat /\ io.gen \in Nat /\ io.sent \in Nat
      /\ down \in Seq(Answer) /\ cl.gen \in Nat /\ cl.answer.id \in Nat /\ taken.gen \in Nat
      /\ \A i \in DOMAIN down : down[i] \in Answer /\ down[i].gen \in Nat /\ down[i].seq \in Nat /\ i \in Nat
  BY ClientServer, DownTypes, NumberTypes DEF TypeInv
<1> HIDE DEF TypeOK
<1>1. LoginsOK'
  BY <1>0, ClientGrants DEF NumberInv, LoginsOK
<1>2. CASE Steady \/ ResumeSucceeds \/ ResumeFails \/ Connect
  <2>1. /\ UNCHANGED <<down, taken>> /\ cl'.gen = cl.gen
        /\ cl'.stage = "login" => cl'.answer.id = 0 \/ (cl'.answer = cl.answer /\ cl.stage = "login")
    <3>1. NoAnswer.id = 0
      BY DEF NoAnswer
    <3>2. CASE Steady
      BY <3>2 DEF Steady, SameLink
    <3>3. CASE ResumeSucceeds \/ ResumeFails
      BY <1>0, <3>1, <3>3, ResumeSucceedsFields, ResumeFailsFields DEF ResumeSucceeds, ResumeFails, history
    <3>4. CASE Connect
      BY <1>0, <3>4, ConnectFields DEF Connect, history, ShapeInv, ClientForm
    <3> QED BY <1>2, <3>2, <3>3, <3>4
  <2>2. GensOK' /\ PacksOK' /\ PairsOK'
    BY <1>0, <2>1 DEF NumberInv, GensOK, Seen, PacksOK, PackOK, PairsOK, Behind
  <2>3. AnswerOK'
    BY <1>0, <2>1 DEF NumberInv, AnswerOK
  <2> QED BY <1>1, <2>2, <2>3 DEF NumberInv
<1>3. CASE GivesUp
  <2>1. down' = << >> /\ taken' = taken /\ cl'.gen = cl.gen
    BY <1>3 DEF GivesUp, history
  <2>2. GensOK' /\ PacksOK' /\ PairsOK' /\ AnswerOK'
    BY <1>0, <2>1 DEF NumberInv, GensOK, Seen, PacksOK, PairsOK, AnswerOK
  <2> QED BY <1>1, <2>2 DEF NumberInv
<1>4. CASE LoginSucceeds
  <2> DEFINE a == cl.answer.id
  <2>1. /\ UNCHANGED <<down, taken>> /\ cl'.gen = a /\ cl'.stage # "login" /\ Grant("login", a) /\ cl.stage = "login"
    BY <1>0, <1>4, LoginSucceedsFields DEF LoginSucceeds, history, Grant
  <2>2. io # NoIO => a <= io.gen
    BY <2>1 DEF NumberInv, LoginsOK
  <2>3. \A i \in DOMAIN down : down[i].t = "pack" => a <= down[i].gen
    BY <2>1 DEF NumberInv, AnswerOK
  <2> HIDE DEF a
  <2>4. GensOK' /\ PacksOK' /\ PairsOK' /\ AnswerOK'
    BY <1>0, <2>1, <2>2, <2>3 DEF NumberInv, GensOK, Seen, PacksOK, PackOK, PairsOK, Behind, AnswerOK
  <2> QED BY <1>1, <2>4 DEF NumberInv
<1>5. CASE Receive
  <2> DEFINE m == Head(down)
  <2>1. ReceiveOf(m)
    BY <1>0, <1>5, ReceiveFields
  <2>2. /\ 1 \in DOMAIN down /\ m = down[1] /\ m \in Answer /\ cl'.gen = cl.gen /\ cl'.stage = cl.stage
        /\ \A i \in DOMAIN down' : i \in Nat /\ i + 1 \in DOMAIN down /\ i + 1 # 1 /\ down'[i] = down[i + 1] /\ 1 < i + 1
    <3>1. /\ 1 \in DOMAIN down /\ m = down[1]
          /\ \A i \in DOMAIN down' : i \in Nat /\ i + 1 \in DOMAIN down /\ i + 1 # 1 /\ down'[i] = down[i + 1]
      BY <1>0, <2>1, TailAt DEF ReceiveOf
    <3>2. \A i \in DOMAIN down' : 1 < i + 1
      <4>1. \A i \in Nat : i + 1 # 1 => 1 < i + 1
        OBVIOUS
      <4> QED BY <3>1, <4>1
    <3> QED BY <2>1, <3>1, <3>2 DEF ReceiveOf, SameLink
  <2> HIDE DEF m
  <2>3. taken' = taken \/ (m.t = "pack" /\ taken'.gen = m.gen /\ taken'.seq = m.seq)
    <3>1. Takes(m)
      BY <2>1 DEF ReceiveOf
    <3>2. CASE m.t = "pack"
      <4>1. \E o : taken' = [gen |-> m.gen, seq |-> m.seq, ordered |-> o]
        BY <3>1, <3>2, Zenon DEF Takes
      <4> QED BY <3>2, <4>1
    <3>3. CASE m.t # "pack"
      BY <3>1, <3>3 DEF Takes
    <3> QED BY <3>2, <3>3
  <2>4. GensOK'
    <3>1. m.t = "pack" => m.gen <= issued /\ (io # NoIO => m.gen <= io.gen /\ (m.gen = io.gen => m.seq <= io.sent))
      BY <2>2 DEF NumberInv, PacksOK, PackOK
    <3> QED BY <1>0, <2>2, <2>3, <3>1 DEF NumberInv, GensOK, Seen
  <2>5. PacksOK'
    BY <1>0, <2>2 DEF NumberInv, PacksOK, PackOK
  <2>6. PairsOK'
    <3> SUFFICES ASSUME NEW i \in DOMAIN down', NEW j \in DOMAIN down', i < j PROVE Behind(down'[i], down'[j])
      BY DEF PairsOK, Behind
    <3>1. i + 1 < j + 1
      BY <2>2
    <3> QED BY <2>2, <3>1 DEF NumberInv, PairsOK
  <2>7. AnswerOK'
    <3> SUFFICES ASSUME cl.stage = "login", NEW i \in DOMAIN down', down'[i].t = "pack" PROVE cl'.answer.id <= down'[i].gen
      BY <2>2 DEF AnswerOK
    <3>1. down[i + 1].t = "pack" /\ down'[i] = down[i + 1] /\ down[i + 1].gen \in Nat
      BY <1>0, <2>2
    <3>2. CASE cl'.answer = cl.answer
      BY <2>2, <3>1, <3>2 DEF NumberInv, AnswerOK
    <3>3. CASE cl'.answer.id = 0
      BY <3>1, <3>3
    <3>4. CASE m.t = "login" /\ cl'.answer.id = m.gen
      <4>1. Behind(down[1], down[i + 1])
        BY <2>2 DEF NumberInv, PairsOK
      <4> QED BY <2>2, <3>1, <3>4, <4>1 DEF Behind
    <3> QED BY <2>1, <3>2, <3>3, <3>4 DEF ReceiveOf
  <2> QED BY <1>1, <2>4, <2>5, <2>6, <2>7 DEF NumberInv
<1> QED BY <1>2, <1>3, <1>4, <1>5, ClientKinds

LEMMA NumberStep ==
    TypeInv /\ TypeInv' /\ CredentialInv /\ ShapeInv /\ LoginInv /\ LinkInv /\ NumberInv /\ [Next]_vars => NumberInv'
<1> SUFFICES ASSUME TypeInv, TypeInv', CredentialInv, ShapeInv, LoginInv, LinkInv, NumberInv, [Next]_vars PROVE NumberInv'
  OBVIOUS
<1>1. CASE UNCHANGED vars
  <2>1. UNCHANGED <<reply, down, io, issued, cl, taken>>
    BY <1>1 DEF vars, net, server, history
  <2> QED BY <2>1 DEF NumberInv, GensOK, Seen, LoginsOK, Grant, GrantIn, PacksOK, PackOK, PairsOK, Behind, AnswerOK
<1>2. CASE Serving
  BY <1>2, GensServes, PacksServes, PairsServes DEF NumberInv
<1> QED BY <1>1, <1>2, NumberClient DEF Next, Serving

LEMMA InitNumber == Init => NumberInv
<1> SUFFICES ASSUME Init PROVE NumberInv
  OBVIOUS
<1>1. /\ cl.stage = "idle" /\ io = NoIO /\ issued = 0 /\ down = << >> /\ reply = << >> /\ taken.gen = 0
  BY DEF Init
<1> QED BY <1>1 DEF NumberInv, GensOK, LoginsOK, PacksOK, PairsOK, AnswerOK

-----------------------------------------------------------------------------
(* What is taken for received.  The entity trims its buffer to what the      *)
(* client has counted, and the client counts no package that it has not      *)
(* taken: pings, and the count that a resume names, are of the session that  *)
(* the entity has.                                                          *)

AckOK   == io # NoIO => io.unresumable \/ io.acked = 0 \/ (io.gen = cl.gen /\ io.acked <= cl.recv)
RecvOK  == io # NoIO /\ io.gen = cl.gen => cl.recv <= Seen(cl.gen)
AheadOK == io # NoIO /\ io.gen = cl.gen => \A i \in DOMAIN down : down[i].t = "pack" => cl.recv < down[i].seq
PingOK  == \A c \in Conns : \A n \in Nat : LiveConn = c /\ Way(c, "ping", n, 0) => io.gen = cl.gen /\ n <= cl.recv

AckInv == ~Early => AckOK /\ RecvOK /\ AheadOK /\ PingOK

LEMMA AckIO ==
    ASSUME TypeInv, CredentialInv, ShapeInv, LinkInv, NumberInv, AckOK, RecvOK, PingOK, ~Early, Serving
    PROVE  AckOK' /\ RecvOK'
<1>0. /\ cl' = cl /\ taken' = taken /\ issued \in Nat /\ cl.gen \in Nat /\ cl.gen <= issued /\ io.sent \in Nat /\ cl.recv \in Nat
      /\ io.acked \in Nat
  BY NumberTypes, ServingKeeps DEF LinkInv, NonceOK
<1>1. RecvOK'
  <2>1. CASE Keeps
    BY <1>0, <2>1 DEF Keeps, RecvOK, Seen
  <2>2. CASE BindsOf
    <3>1. cl.gen # issued + 1
      BY <1>0
    <3> QED BY <1>0, <2>2, <3>1 DEF BindsOf, RecvOK
  <2>3. CASE io' = NoIO
    BY <2>3 DEF RecvOK
  <2> QED BY <2>1, <2>2, <2>3, ServingKeeps
<1>2. AckOK'
  <2>1. CASE StreamSends
    <3>1. io # NoIO /\ io'.gen = io.gen /\ (io'.unresumable \/ (io'.unresumable = io.unresumable /\ io'.acked = io.acked))
      BY <2>1 DEF StreamSends, IoSends
    <3> QED BY <1>0, <3>1 DEF AckOK
  <2>2. CASE StreamQuiet \/ LoginReplies
    BY <1>0, <2>2 DEF StreamQuiet, LoginReplies, server, AckOK
  <2>3. CASE PingTurn
    <3>1. PICK n, r : PingOf(n, r)
      BY <2>3, PingTurnFields
    <3>2. Way(LiveConn, "ping", n, 0) /\ LiveConn \in Conns /\ n \in Nat
      <4>1. LiveConn \in Conns
        BY <3>1, ShapeTypes DEF PingOf, TypeInv
      <4> QED BY <3>1, <4>1 DEF PingOf, Way, Fits
    <3>3. io.gen = cl.gen /\ n <= cl.recv
      BY <3>2 DEF PingOK
    <3> QED BY <1>0, <3>1, <3>3 DEF PingOf, AckOK
  <2>4. CASE Resumes
    <3>1. ResumesOf
      BY <2>4, ResumesFields DEF ShapeInv
    <3>2. io.gen = cl.gen /\ turn.n = cl.recv
      BY <3>1, ResumeTurnFacts DEF ResumesOf
    <3>3. io'.gen = io.gen /\ (io'.unresumable \/ io'.acked = cl.recv)
      BY <3>1, <3>2 DEF ResumesOf
    <3> QED BY <1>0, <3>2, <3>3 DEF AckOK
  <2>5. CASE Binds
    BY <2>5, BindsFields DEF BindsOf, AckOK
  <2>6. CASE Unload
    BY <2>6 DEF Unload, AckOK
  <2> QED BY <2>1, <2>2, <2>3, <2>4, <2>5, <2>6, ServingStreams
<1> QED BY <1>1, <1>2

LEMMA AheadServes ==
    ASSUME TypeInv, CredentialInv, ShapeInv, LinkInv, NumberInv, RecvOK, AheadOK, ~Early, Serving
    PROVE  AheadOK'
<1>0. /\ cl' = cl /\ issued \in Nat /\ cl.gen \in Nat /\ cl.gen <= issued /\ io.sent \in Nat /\ cl.recv \in Nat
      /\ io.acked \in Nat /\ Seen(cl.gen) \in Nat
  BY NumberTypes, ServingKeeps DEF LinkInv, NonceOK
<1> SUFFICES ASSUME io' # NoIO, io'.gen = cl.gen, NEW i \in DOMAIN down', down'[i].t = "pack"
             PROVE  cl.recv < down'[i].seq
  BY <1>0 DEF AheadOK
<1>1. io # NoIO /\ io.gen = cl.gen
  <2>1. CASE Keeps
    BY <2>1 DEF Keeps
  <2>2. CASE BindsOf
    <3>1. cl.gen # issued + 1
      BY <1>0
    <3> QED BY <2>2, <3>1 DEF BindsOf
  <2> QED BY <2>1, <2>2, ServingKeeps
<1>2. cl.recv <= io.sent
  <2>1. cl.recv <= Seen(cl.gen) /\ Seen(cl.gen) <= io.sent
    BY <1>1 DEF RecvOK, NumberInv, GensOK
  <2> QED BY <1>0, <2>1
<1>3. CASE i \in DOMAIN down /\ down'[i] = down[i]
  BY <1>1, <1>3 DEF AheadOK
<1>4. CASE i \notin DOMAIN down
  <2>1. CASE SentAt(i)
    BY <1>0, <1>2, <2>1 DEF SentAt
  <2>2. CASE ReplayedAt(i)
    <3>1. /\ turn.n = cl.recv /\ io'.acked \in Nat
          /\ io'.acked = turn.n \/ ((turn.n < io.acked \/ turn.n > io.sent) /\ io'.acked = io.acked)
      BY <2>2, ResumeTurnFacts DEF ReplayedAt, ResumesOf
    <3>2. cl.recv <= io'.acked
      BY <1>0, <1>2, <3>1
    <3>3. PICK k \in 1 .. (io.sent - io'.acked) : down'[i].seq = io'.acked + k
      BY <2>2 DEF ReplayedAt
    <3> QED BY <1>0, <3>1, <3>2, <3>3
  <2> QED BY <1>4, <2>1, <2>2, NewPack
<1> QED BY <1>3, <1>4, DownFrom

LEMMA PingServes ==
    ASSUME TypeInv, CredentialInv, ShapeInv, LinkInv, PingOK, Serving
    PROVE  PingOK'
<1>0. cl' = cl /\ Serves /\ NoConn.c = 0
  BY ServingServes DEF Serves, NoConn
<1> SUFFICES ASSUME NEW c \in Conns, NEW n \in Nat, LiveConn' = c, Way(c, "ping", n, 0)'
             PROVE  io'.gen = cl.gen /\ n <= cl.recv
  BY <1>0 DEF PingOK
<1>1. c # 0 /\ Way(c, "ping", n, 0)
  BY <1>0, ConnsFacts, WayServes
<1>2. CASE Calm
  <2>1. LiveConn = c /\ io'.gen = io.gen
    BY <1>0, <1>1, <1>2 DEF Calm, LiveConn
  <2> QED BY <1>1, <2>1 DEF PingOK
<1>3. CASE Resumes
  <2>1. turn.c = c /\ turn.t = "resume" /\ turn.id = io.nonce
    BY <1>3, ResumesFields DEF ShapeInv, ResumesOf, LiveConn
  <2>2. Way(c, "resume", turn.n, io.nonce)
    BY <2>1 DEF Way, Fits
  <2> QED BY <1>1, <2>2 DEF LinkInv, SentOK
<1>4. CASE Binds
  <2>1. turn.c = c /\ turn.t = "login"
    BY <1>4, BindsFields DEF BindsOf, LiveConn
  <2>2. Way(c, "login", 0, 0)
    BY <2>1 DEF Way, Fits
  <2> QED BY <1>1, <2>2 DEF LinkInv, SentOK
<1>5. CASE Unload
  BY <1>0, <1>1, <1>5 DEF Unload, LiveConn
<1> QED BY <1>2, <1>3, <1>4, <1>5, ServingCalm

LEMMA AckClient ==
    ASSUME TypeInv, CredentialInv, ShapeInv, LoginInv, LinkInv, NumberInv, AckInv, Client
    PROVE  AckInv'
<1> SUFFICES ASSUME ~Early' PROVE (AckOK /\ RecvOK /\ AheadOK /\ PingOK)'
  BY DEF AckInv
<1>0. /\ TypeOK /\ UNCHANGED <<session, io, queue, turn, issued>> /\ issued \in Nat /\ io.gen \in Nat /\ io.sent \in Nat
      /\ down \in Seq(Answer) /\ cl.gen \in Nat /\ cl.answer.id \in Nat /\ taken.gen \in Nat /\ cl.recv \in Nat
      /\ \A i \in DOMAIN down : down[i] \in Answer /\ down[i].gen \in Nat /\ down[i].seq \in Nat /\ i \in Nat
      /\ io.acked \in Nat /\ \A g : Seen(g) \in Nat
  BY ClientServer, DownTypes, NumberTypes DEF TypeInv
<1> HIDE DEF TypeOK
<1>1. ~Early /\ AckOK /\ RecvOK /\ AheadOK /\ PingOK
  BY ClientEarly DEF AckInv
<1>2. ASSUME NEW c \in Conns, NEW n \in Nat, LiveConn = c, Way(c, "ping", n, 0)' PROVE io # NoIO /\ io.gen = cl.gen /\ n <= cl.recv
  <2>1. c # 0 /\ io # NoIO
    BY <1>2, ConnsFacts, LiveIO
  <2>2. CASE Way(c, "ping", n, 0)
    BY <1>1, <1>2, <2>1, <2>2 DEF PingOK
  <2>3. CASE Ping /\ c = cl.conn /\ n = cl.recv
    <3>1. cl.online
      BY <2>3 DEF Ping
    <3> QED BY <1>0, <1>2, <2>1, <2>3, <3>1 DEF LinkInv, LinkOK
  <2> QED BY <1>2, <2>2, <2>3, ClientWay
<1>3. LiveConn' = LiveConn
  BY <1>0 DEF LiveConn
<1>4. CASE Connect \/ GivesUp \/ Steady \/ ResumeSucceeds \/ ResumeFails
  <2>1. cl'.gen = cl.gen /\ cl'.recv = cl.recv /\ taken' = taken /\ (down' = down \/ down' = << >>)
    <3>1. CASE Steady
      BY <3>1 DEF Steady, SameLink
    <3>2. CASE ResumeSucceeds \/ ResumeFails
      BY <1>0, <3>2, ResumeSucceedsFields, ResumeFailsFields DEF ResumeSucceeds, ResumeFails, history
    <3>3. CASE Connect
      BY <1>0, <3>3, ConnectFields DEF Connect, history
    <3>4. CASE GivesUp
      BY <3>4 DEF GivesUp, history
    <3> QED BY <1>4, <3>1, <3>2, <3>3, <3>4
  <2>2. (AckOK /\ RecvOK)'
    BY <1>0, <1>1, <2>1 DEF AckOK, RecvOK, Seen
  <2>3. AheadOK'
    BY <1>0, <1>1, <2>1 DEF AheadOK
  <2>4. PingOK'
    BY <1>0, <1>2, <1>3, <2>1 DEF PingOK
  <2> QED BY <2>2, <2>3, <2>4
<1>5. CASE LoginSucceeds
  <2> DEFINE a == cl.answer.id
  <2>1. /\ UNCHANGED <<down, taken>> /\ cl'.gen = a /\ cl'.recv = 0 /\ Grant("login", a) /\ cl.stage = "login"
    BY <1>0, <1>5, LoginSucceedsFields DEF LoginSucceeds, history, Grant
  <2>2. cl.gen < a /\ a \in Nat
    BY <1>0, <2>1 DEF LinkInv, GrantsOK, GrantOK
  <2>3. io # NoIO => a <= io.gen
    BY <2>1 DEF NumberInv, LoginsOK
  <2> HIDE DEF a
  <2>4. io # NoIO => io.gen # cl.gen
    BY <1>0, <2>2, <2>3
  <2>5. AckOK'
    BY <1>0, <1>1, <2>4 DEF AckOK
  <2>6. RecvOK'
    BY <1>0, <2>1 DEF RecvOK, Seen
  <2>7. AheadOK'
    <3>1. \A i \in DOMAIN down : down[i].t = "pack" => 0 < down[i].seq
      BY <1>0 DEF NumberInv, PacksOK, PackOK
    <3> QED BY <2>1, <3>1 DEF AheadOK
  <2>8. PingOK'
    BY <1>2, <1>3, <2>4 DEF PingOK
  <2> QED BY <2>5, <2>6, <2>7, <2>8
<1>6. CASE Receive
  <2> DEFINE m == Head(down)
  <2>1. ReceiveOf(m)
    BY <1>0, <1>6, ReceiveFields
  <2>2. /\ 1 \in DOMAIN down /\ m = down[1] /\ m \in Answer /\ cl'.gen = cl.gen
        /\ \A i \in DOMAIN down' : i \in Nat /\ i + 1 \in DOMAIN down /\ i + 1 # 1 /\ down'[i] = down[i + 1] /\ 1 < i + 1
    <3>1. /\ 1 \in DOMAIN down /\ m = down[1]
          /\ \A i \in DOMAIN down' : i \in Nat /\ i + 1 \in DOMAIN down /\ i + 1 # 1 /\ down'[i] = down[i + 1]
      BY <1>0, <2>1, TailAt DEF ReceiveOf
    <3>2. \A i \in DOMAIN down' : 1 < i + 1
      <4>1. \A i \in Nat : i + 1 # 1 => 1 < i + 1
        OBVIOUS
      <4> QED BY <3>1, <4>1
    <3> QED BY <2>1, <3>1, <3>2 DEF ReceiveOf, SameLink
  <2> HIDE DEF m
  <2>3. m.t # "stray" /\ (m.t # "pack" => cl'.recv = cl.recv /\ taken' = taken) /\ cl'.recv \in {cl.recv, cl.recv + 1}
    <3>1. m.t # "stray"
      BY <1>1, <2>2 DEF LinkInv, Strays, Reaches
    <3>2. m.t # "pack" => m.t \in Uncounted
      BY <2>2, <3>1 DEF Answer, Uncounted
    <3>3. m.t # "pack" => cl'.recv = cl.recv
      BY <2>1, <3>2 DEF ReceiveOf, Counts
    <3>4. m.t # "pack" => taken' = taken
      BY <2>1 DEF ReceiveOf, Takes
    <3> QED BY <2>1, <3>1, <3>3, <3>4 DEF ReceiveOf
  <2>4. m.t = "pack" => taken'.gen = m.gen /\ taken'.seq = m.seq
    <3>1. m.t = "pack" => \E o : taken' = [gen |-> m.gen, seq |-> m.seq, ordered |-> o]
      <4>1. Takes(m)
        BY <2>1 DEF ReceiveOf
      <4> QED BY <4>1, Zenon DEF Takes
    <3> QED BY <3>1
  <2>5. m.gen \in Nat /\ m.seq \in Nat
    BY <2>2, AnswerNat
  <2>6. io # NoIO /\ io.gen = cl.gen /\ m.t = "pack" => m.gen = cl.gen /\ cl.recv < m.seq
    <3>1. io # NoIO /\ io.gen = cl.gen /\ m.t = "pack" => cl.gen <= m.gen /\ m.gen <= cl.gen
      BY <2>2 DEF NumberInv, PacksOK, PackOK
    <3>2. io # NoIO /\ io.gen = cl.gen /\ m.t = "pack" => cl.recv < m.seq
      BY <1>1, <2>2 DEF AheadOK
    <3> QED BY <1>0, <2>5, <3>1, <3>2
  <2>7. cl.recv <= cl'.recv /\ cl'.recv \in Nat /\ cl'.recv <= cl.recv + 1
    BY <1>0, <2>3
  <2>8. AckOK'
    BY <1>0, <1>1, <2>2, <2>7 DEF AckOK
  <2>9. RecvOK'
    <3> SUFFICES ASSUME io # NoIO, io.gen = cl.gen PROVE cl'.recv <= Seen(cl.gen)'
      BY <1>0, <2>2 DEF RecvOK, Seen
    <3>1. CASE m.t # "pack"
      BY <1>1, <2>2, <2>3, <3>1 DEF RecvOK, Seen
    <3>2. CASE m.t = "pack"
      <4>1. taken'.gen = cl.gen /\ taken'.seq = m.seq /\ cl.recv + 1 <= m.seq
        BY <1>0, <2>4, <2>5, <2>6, <3>2
      <4>2. cl'.recv <= m.seq
        BY <1>0, <2>5, <2>7, <4>1
      <4> QED BY <2>2, <4>1, <4>2 DEF Seen
    <3> QED BY <3>1, <3>2
  <2>10. AheadOK'
    <3> SUFFICES ASSUME io # NoIO, io.gen = cl.gen, NEW i \in DOMAIN down', down'[i].t = "pack" PROVE cl'.recv < down'[i].seq
      BY <1>0, <2>2 DEF AheadOK
    <3>1. down[i + 1].t = "pack" /\ down'[i] = down[i + 1] /\ i + 1 \in DOMAIN down /\ down[i + 1].seq \in Nat /\ cl.recv < down[i + 1].seq
      BY <1>0, <1>1, <2>2 DEF AheadOK
    <3>2. CASE m.t # "pack"
      BY <2>3, <3>1, <3>2
    <3>3. CASE m.t = "pack"
      <4>1. down[i + 1].gen = cl.gen
        <5>1. cl.gen <= down[i + 1].gen /\ down[i + 1].gen <= cl.gen
          BY <3>1 DEF NumberInv, PacksOK, PackOK
        <5> QED BY <1>0, <3>1, <5>1
      <4>2. Behind(down[1], down[i + 1])
        BY <2>2, <3>1 DEF NumberInv, PairsOK
      <4>3. m.seq < down[i + 1].seq /\ cl.recv < m.seq
        BY <2>2, <2>6, <3>1, <3>3, <4>1, <4>2 DEF Behind
      <4> QED BY <1>0, <2>5, <2>7, <3>1, <4>3
    <3> QED BY <3>2, <3>3
  <2>11. PingOK'
    <3> SUFFICES ASSUME NEW c \in Conns, NEW n \in Nat, LiveConn = c, Way(c, "ping", n, 0)' PROVE io.gen = cl.gen /\ n <= cl'.recv
      BY <1>0, <1>3, <2>2 DEF PingOK
    <3>1. UNCHANGED up
      BY <2>1 DEF ReceiveOf, net
    <3>2. Way(c, "ping", n, 0)
      BY <1>0, <3>1, WaySame
    <3>3. io.gen = cl.gen /\ n <= cl.recv
      BY <1>1, <3>2 DEF PingOK
    <3> QED BY <1>0, <2>3, <3>3
  <2> QED BY <2>8, <2>9, <2>10, <2>11
<1> QED BY <1>4, <1>5, <1>6, ClientKinds

LEMMA AckStep ==
    TypeInv /\ CredentialInv /\ ShapeInv /\ LoginInv /\ LinkInv /\ NumberInv /\ AckInv /\ [Next]_vars => AckInv'
<1> SUFFICES ASSUME TypeInv, CredentialInv, ShapeInv, LoginInv, LinkInv, NumberInv, AckInv, [Next]_vars PROVE AckInv'
  OBVIOUS
<1>1. CASE UNCHANGED vars
  <2>1. UNCHANGED <<up, down, io, queue, turn, cl, taken, session, mishaps>>
    BY <1>1 DEF vars, net, server, history
  <2>2. (AckOK' <=> AckOK) /\ (RecvOK' <=> RecvOK) /\ (AheadOK' <=> AheadOK)
    BY <2>1 DEF AckOK, RecvOK, AheadOK, Seen
  <2>3. PingOK => PingOK'
    BY <2>1, WaySame DEF PingOK, LiveConn
  <2>4. Early' <=> Early
    BY <2>1 DEF Early
  <2> QED BY <2>2, <2>3, <2>4 DEF AckInv
<1>2. CASE Serving
  <2> SUFFICES ASSUME ~Early' PROVE (AckOK /\ RecvOK /\ AheadOK /\ PingOK)'
    BY DEF AckInv
  <2>1. ~Early
    BY <1>2, EarlySame
  <2> QED BY <1>2, <2>1, AckIO, AheadServes, PingServes DEF AckInv
<1> QED BY <1>1, <1>2, AckClient DEF Next, Serving

LEMMA InitAck == Init => AckInv
<1> SUFFICES ASSUME Init PROVE AckInv
  OBVIOUS
<1>1. /\ io = NoIO /\ down = << >> /\ queue = << >> /\ turn = NoTurn /\ \A c \in Conns : up[c] = << >>
  BY DEF Init
<1>2. NoTurn.t = "none"
  BY DEF NoTurn
<1>3. PingOK
  BY <1>1, <1>2 DEF PingOK, Way, Fits
<1> QED BY <1>1, <1>3 DEF AckInv, AckOK, RecvOK, AheadOK

LEMMA AckTrims == TypeInv /\ LinkInv /\ AckInv => NothingTrimmedUnseen
<1> SUFFICES ASSUME TypeInv, LinkInv, AckInv, io # NoIO, ~io.unresumable, io.acked # 0, ~Early
             PROVE  taken.gen = io.gen /\ io.acked <= taken.seq
  BY DEF NothingTrimmedUnseen, Early
<1>1. io.gen = cl.gen /\ io.acked <= cl.recv /\ cl.recv <= Seen(cl.gen)
  BY DEF AckInv, AckOK, RecvOK
<1>2. io.acked \in Nat /\ cl.recv \in Nat /\ taken.seq \in Nat
  BY NumberTypes
<1> QED BY <1>1, <1>2 DEF Seen

-----------------------------------------------------------------------------
(* Order.  As long as the client can still resume, or has, what it counts is *)
(* what it took, and the packages on their way to it follow on that without  *)
(* a gap, up to the last one that the entity has sent.                       *)

Clean == mishaps \cap {"overflow", "early call", "early push"} = {}

(* The resume whose turn it is was found to be possible, and still is.       *)
StandsInv == turn.t = "resume" /\ "overflow" \notin mishaps => ~io.unresumable /\ io.acked <= turn.n /\ turn.n <= io.sent

(* The package before number k was the last to be taken, or is on its way.   *)
Joins(g, k) == k = Seen(g) + 1 \/ \E i \in DOMAIN down : down[i].t = "pack" /\ down[i].gen = g /\ k = down[i].seq + 1

(* The client is online, its credential is the entity's, or its resume is    *)
(* granted.                                                                  *)
Trusted ==
    \/ cl.online \/ (io # NoIO /\ cl.nonce = io.nonce)
    \/ cl.stage = "resume" /\ cl.conn # 0 /\ (LiveConn = cl.conn \/ \E id : Grant("resume", id))

TakenOK == taken.ordered /\ taken.gen <= cl.gen
CountOK == Trusted => cl.recv = Seen(cl.gen)
NoGap   == \A i \in DOMAIN down : down[i].t = "pack" =>
              Seen(down[i].gen) < down[i].seq /\ Joins(down[i].gen, down[i].seq)
LastOK  == LiveConn = cl.conn /\ cl.conn # 0 /\ Known(cl.conn) => Joins(io.gen, io.sent + 1)

OrderInv == Clean => TakenOK /\ CountOK /\ NoGap /\ LastOK

(* The same of the next state. *)
SeenNext(g) == IF taken'.gen = g THEN taken'.seq ELSE 0
JoinsNext(g, k) ==
    k = SeenNext(g) + 1 \/ \E i \in DOMAIN down' : down'[i].t = "pack" /\ down'[i].gen = g /\ k = down'[i].seq + 1

LEMMA TurnResumes ==
    ASSUME TypeInv, Serving, turn'.t = "resume", turn' # turn
    PROVE  UNCHANGED <<io, mishaps>> /\ ~io.unresumable /\ io.acked <= turn'.n /\ turn'.n <= io.sent
<1>0. TypeOK /\ NoTurn.t = "none"
  BY DEF TypeInv, NoTurn
<1> HIDE DEF TypeOK
<1>1. ASSUME NEW t, TakesTurn(t) PROVE Next1 \in Tasks /\ Next1.t = t
  BY <1>0, <1>1, TakesFacts
<1>2. ~RequestStarts
  <2>1. SUFFICES ASSUME RequestStarts PROVE FALSE
    OBVIOUS
  <2>2. SameTask(turn', Next1) /\ Next1.t = "req"
    BY <1>1, <2>1, Marked DEF RequestStarts
  <2> QED BY <2>2 DEF SameTask
<1>3. ~LoginTurn
  <2>1. SUFFICES ASSUME LoginTurn PROVE FALSE
    OBVIOUS
  <2>2. Next1 \in Tasks /\ Next1.t = "login"
    BY <1>1, <2>1 DEF LoginTurn
  <2>3. turn' = [Next1 EXCEPT !.pc = "bound"]
    BY <2>1 DEF LoginTurn, CallsBind
  <2>4. SameTask(turn', Next1)
    BY <2>2, <2>3, Marked
  <2> QED BY <2>2, <2>4 DEF SameTask
<1>4. ResumeTurn
  BY <1>0, <1>2, <1>3 DEF Serving, Entity, Push, RequestRevoked, RequestReturns, RequestThrows, PingTurn, ClosedTurn, Resumes,
     Binds, Unload, LoginReplies, GateForwards, Disconnect, NoticeArrives, server
<1>5. Next1 \in Tasks /\ Resumable(Next1) /\ turn' = [Next1 EXCEPT !.pc = "bound"] /\ UNCHANGED <<io, mishaps>>
  BY <1>1, <1>4 DEF ResumeTurn, CallsBind, history
<1>6. turn'.n = Next1.n
  BY <1>5, Marked DEF SameTask
<1>7. ~io.unresumable /\ Next1.n \in io.acked .. io.sent
  BY <1>5 DEF Resumable
<1>8. io.acked \in Nat /\ io.sent \in Nat
  BY NumberTypes
<1> QED BY <1>5, <1>6, <1>7, <1>8

LEMMA StandsServes ==
    ASSUME TypeInv, CredentialInv, ShapeInv, StandsInv, Serving
    PROVE  StandsInv'
<1> SUFFICES ASSUME turn'.t = "resume", "overflow" \notin mishaps'
             PROVE  ~io'.unresumable /\ io'.acked <= turn'.n /\ turn'.n <= io'.sent
  BY DEF StandsInv
<1>1. CASE turn' # turn
  BY <1>1, TurnResumes
<1>2. CASE turn' = turn
  <2>1. ~io.unresumable /\ io.acked <= turn.n /\ turn.n <= io.sent /\ turn.t = "resume" /\ NoTurn.t = "none"
    BY <1>2, ServingMishaps DEF StandsInv, NoTurn
  <2>2. io.acked \in Nat /\ io.sent \in Nat /\ turn.n \in Nat
    <3>1. turn \in Turns
      BY DEF TypeInv, TypeOK
    <3> QED BY <3>1, NumberTypes, TurnFacts
  <2>3. CASE StreamSends
    <3>1. io'.sent = io.sent + 1 /\ (io'.unresumable = io.unresumable /\ io'.acked = io.acked)
      BY <2>1, <2>3 DEF StreamSends, IoSends
    <3> QED BY <1>2, <2>1, <2>2, <3>1
  <2>4. CASE io' = io
    BY <1>2, <2>1, <2>4
  <2>5. ~PingTurn /\ ~Resumes /\ ~Binds /\ ~Unload
    BY <1>2, <2>1 DEF PingTurn, TakesTurn, Resumes, Binds, Unload
  <2> QED BY <2>3, <2>4, <2>5, ServingStreams DEF StreamQuiet, LoginReplies, server
<1> QED BY <1>1, <1>2

LEMMA StandsClient ==
    ASSUME StandsInv, Client
    PROVE  StandsInv'
<1>1. UNCHANGED <<io, turn>>
  BY ClientServer
<1>2. mishaps \subseteq mishaps'
  BY DEF Client, Connect, Drop, Call, Ping, Receive, Takes, ResumeSucceeds, ResumeFails, LoginSucceeds, LoginFails,
     PingAnswered, history
<1> QED BY <1>1, <1>2 DEF StandsInv

LEMMA StandsStep == TypeInv /\ CredentialInv /\ ShapeInv /\ StandsInv /\ [Next]_vars => StandsInv'
<1>1. UNCHANGED vars /\ StandsInv => StandsInv'
  BY DEF vars, server, history, StandsInv
<1> QED BY <1>1, StandsServes, StandsClient DEF Next, Serving

(* What was on its way stays on its way in the steps of the others.          *)
LEMMA JoinsKept ==
    ASSUME TypeInv, CredentialInv, ShapeInv, Serving, NEW g, NEW k, Joins(g, k)
    PROVE  JoinsNext(g, k)
<1>1. taken' = taken
  BY ServingKeeps
<1>2. \A i \in DOMAIN down : i \in DOMAIN down' /\ down'[i] = down[i]
  <2>1. down \in Seq(Answer)
    BY DownTypes
  <2>2. CASE down' = down
    BY <2>2
  <2>3. ASSUME NEW ms \in Seq(Answer), down' = down \o ms
        PROVE  \A i \in DOMAIN down : i \in DOMAIN down' /\ down'[i] = down[i]
    BY <2>1, <2>3, ConcatAt
  <2> QED BY <2>2, <2>3, ServingGets DEF DownGets
<1> QED BY <1>1, <1>2 DEF Joins, JoinsNext, Seen, SeenNext

(* A replay begins behind what the client has taken.                         *)
LEMMA ReplayJoins ==
    ASSUME TypeInv, CredentialInv, ShapeInv, LoginInv, LinkInv, NumberInv, StandsInv, Clean, CountOK, Resumes,
           turn.c = cl.conn, cl.conn # 0, Known(cl.conn)
    PROVE  /\ io.gen = cl.gen /\ io'.acked = Seen(io.gen) /\ io'.gen = io.gen /\ io'.sent = io.sent
           /\ \A k \in 1 .. (io.sent - io'.acked) : JoinsNext(io.gen, io'.acked + k)
           /\ JoinsNext(io.gen, io.sent + 1)
<1>0. Serving /\ ResumesOf /\ taken' = taken
  BY ResumesFields DEF Serving, Entity, ShapeInv, ResumesOf
<1>1. turn.t = "resume" /\ io.gen = cl.gen /\ io.nonce = cl.nonce /\ io # NoIO /\ turn.n = cl.recv
  <2>1. turn.t = "resume" /\ ~Early
    BY <1>0 DEF ResumesOf, Clean, Early
  <2> QED BY <2>1, ResumeTurnFacts
<1>2. cl.recv = Seen(cl.gen)
  BY <1>1 DEF CountOK, Trusted
<1>3. ~io.unresumable /\ io.acked <= turn.n /\ turn.n <= io.sent
  BY <1>1 DEF StandsInv, Clean
<1>4. io'.acked = Seen(io.gen) /\ io'.gen = io.gen /\ io'.sent = io.sent /\ io'.acked \in Nat /\ io.sent \in Nat /\ io'.acked <= io.sent
  <2>1. io.acked \in Nat /\ io.sent \in Nat /\ turn.n \in Nat
    BY <1>0, NumberTypes DEF ResumesOf
  <2>2. io'.acked = turn.n
    BY <1>0, <1>3, <2>1 DEF ResumesOf
  <2> QED BY <1>0, <1>1, <1>2, <1>3, <2>1, <2>2 DEF ResumesOf
<1> DEFINE ms == Replay(io')
<1>5. /\ ms \in Seq(Answer) /\ DOMAIN ms = 1 .. (io.sent - io'.acked) /\ down' = down \o ms
      /\ \A k \in 1 .. (io.sent - io'.acked) : ms[k].t = "pack" /\ ms[k].gen = io.gen /\ ms[k].seq = io'.acked + k
  BY <1>0 DEF ResumesOf, ToClient
<1> HIDE DEF ms
<1>6. \A k \in 1 .. (io.sent - io'.acked) : Len(down) + k \in DOMAIN down' /\ down'[Len(down) + k] = ms[k]
  <2>1. down \in Seq(Answer)
    BY DownTypes
  <2>2. \A k \in DOMAIN ms : Len(down) + k \in DOMAIN (down \o ms) /\ (down \o ms)[Len(down) + k] = ms[k]
    <3>1. ms \in Seq(Answer)
      BY <1>5
    <3> QED BY <2>1, <3>1, ConcatAt
  <2> QED BY <1>5, <2>2
<1>7. ASSUME NEW k \in 0 .. (io.sent - io'.acked) PROVE JoinsNext(io.gen, io'.acked + (k + 1))
  <2>1. CASE k = 0
    <3>1. io'.acked + (k + 1) = Seen(io.gen) + 1
      BY <1>4, <2>1
    <3> QED BY <1>0, <3>1 DEF JoinsNext, SeenNext, Seen
  <2>2. CASE k # 0
    <3>1. k \in 1 .. (io.sent - io'.acked) /\ io'.acked + (k + 1) = (io'.acked + k) + 1
      BY <1>4, <2>2
    <3>2. /\ Len(down) + k \in DOMAIN down' /\ down'[Len(down) + k].t = "pack" /\ down'[Len(down) + k].gen = io.gen
          /\ down'[Len(down) + k].seq = io'.acked + k
      BY <1>5, <1>6, <3>1
    <3> QED BY <3>1, <3>2 DEF JoinsNext
  <2> QED BY <2>1, <2>2
<1>8. ASSUME NEW k \in 1 .. (io.sent - io'.acked) PROVE JoinsNext(io.gen, io'.acked + k)
  <2>1. k - 1 \in 0 .. (io.sent - io'.acked) /\ (k - 1) + 1 = k
    BY <1>4
  <2>2. JoinsNext(io.gen, io'.acked + ((k - 1) + 1))
    BY <1>7, <2>1
  <2> QED BY <2>1, <2>2
<1>9. JoinsNext(io.gen, io.sent + 1)
  <2>1. io.sent - io'.acked \in 0 .. (io.sent - io'.acked) /\ io'.acked + ((io.sent - io'.acked) + 1) = io.sent + 1
    BY <1>4
  <2>2. JoinsNext(io.gen, io'.acked + ((io.sent - io'.acked) + 1))
    BY <1>7, <2>1
  <2> QED BY <2>1, <2>2
<1> QED BY <1>1, <1>4, <1>8, <1>9

LEMMA CountServes ==
    ASSUME TypeInv, CredentialInv, ShapeInv, LoginInv, LinkInv, CountOK, Serving
    PROVE  CountOK'
<1>0. cl' = cl /\ taken' = taken /\ NoConn.c = 0 /\ cl.nonce # issued + 1
  BY ServingKeeps, LinkTypes DEF NoConn
<1>1. Trusted' => Trusted
  <2> SUFFICES ASSUME Trusted', ~cl.online PROVE Trusted
    BY DEF Trusted
  <2>1. CASE Resumes
    <3>1. turn.t = "resume"
      BY <2>1 DEF Resumes
    <3> QED BY <3>1, ResumeTurnFacts DEF Trusted
  <2>2. \A id : Grant("resume", id)' => Grant("resume", id) \/ Resumes
    BY ServingGrants
  <2>3. CASE Calm
    <3>1. LiveConn' = cl.conn /\ cl.conn # 0 => LiveConn = cl.conn
      BY <1>0, <2>3 DEF Calm, LiveConn
    <3>2. io' # NoIO /\ cl.nonce = io'.nonce => io # NoIO /\ cl.nonce = io.nonce
      BY <2>3 DEF Calm
    <3> QED BY <1>0, <2>1, <2>2, <3>1, <3>2 DEF Trusted
  <2>4. CASE Binds
    <3>1. BindsOf
      BY <2>4, BindsFields
    <3>2. LiveConn' = turn.c /\ io'.nonce = issued + 1 /\ turn.t = "login" /\ turn.c \in Conns
      BY <3>1 DEF BindsOf, LiveConn
    <3>3. turn.c = cl.conn => cl.stage = "login"
      <4>1. Way(turn.c, "login", 0, 0)
        BY <3>2 DEF Way, Fits
      <4> QED BY <3>2, <4>1 DEF LoginInv
    <3> QED BY <1>0, <2>1, <2>2, <3>2, <3>3 DEF Trusted
  <2>5. CASE Unload
    <3>1. io' = NoIO /\ LiveConn' = 0
      BY <1>0, <2>5 DEF Unload, LiveConn
    <3> QED BY <1>0, <2>1, <2>2, <3>1 DEF Trusted
  <2> QED BY <2>1, <2>3, <2>4, <2>5, ServingCalm
<1> QED BY <1>0, <1>1 DEF CountOK, Seen

LEMMA GapServes ==
    ASSUME TypeInv, CredentialInv, ShapeInv, LoginInv, LinkInv, NumberInv, StandsInv, Clean, CountOK, NoGap, LastOK, Serving
    PROVE  NoGap'
<1>0. taken' = taken /\ \A g : SeenNext(g) = Seen(g)
  BY ServingKeeps DEF SeenNext, Seen
<1> SUFFICES ASSUME NEW i \in DOMAIN down', down'[i].t = "pack"
             PROVE  Seen(down'[i].gen) < down'[i].seq /\ JoinsNext(down'[i].gen, down'[i].seq)
  BY <1>0 DEF NoGap, Joins, JoinsNext, Seen, SeenNext
<1>1. CASE i \in DOMAIN down /\ down'[i] = down[i]
  BY <1>1, JoinsKept DEF NoGap
<1>2. CASE i \notin DOMAIN down
  <2>1. io.sent \in Nat /\ Seen(io.gen) \in Nat /\ (io # NoIO => Seen(io.gen) <= io.sent)
    BY NumberTypes DEF NumberInv, GensOK
  <2>2. CASE SentAt(i)
    <3>1. io # NoIO /\ down'[i].gen = io.gen /\ down'[i].seq = io.sent + 1 /\ Joins(io.gen, io.sent + 1)
      BY <2>2 DEF SentAt, LastOK
    <3>2. JoinsNext(io.gen, io.sent + 1)
      BY <3>1, JoinsKept
    <3> QED BY <2>1, <3>1, <3>2
  <2>3. CASE ReplayedAt(i)
    <3>0. Known(cl.conn)
      <4>1. ToClient(turn.c, Replay(io')) /\ turn.c = cl.conn
        BY <2>3 DEF ReplayedAt, ResumesOf
      <4>2. down' # down
        BY <1>2
      <4> QED BY <4>1, <4>2 DEF ToClient
    <3>1. /\ io'.acked = Seen(io.gen)
          /\ \A k \in 1 .. (io.sent - io'.acked) : JoinsNext(io.gen, io'.acked + k)
      BY <2>3, <3>0, ReplayJoins DEF ReplayedAt
    <3>2. PICK k \in 1 .. (io.sent - io'.acked) : down'[i].seq = io'.acked + k
      BY <2>3 DEF ReplayedAt
    <3>3. Seen(io.gen) < io'.acked + k
      BY <2>1, <3>1
    <3>4. JoinsNext(io.gen, io'.acked + k)
      BY <3>1
    <3> QED BY <2>3, <3>2, <3>3, <3>4 DEF ReplayedAt
  <2> QED BY <1>2, <2>2, <2>3, NewPack
<1> QED BY <1>1, <1>2, DownFrom

LEMMA LastServes ==
    ASSUME TypeInv, CredentialInv, ShapeInv, LoginInv, LinkInv, NumberInv, StandsInv, Clean, CountOK, LastOK, Serving
    PROVE  LastOK'
<1>0. cl' = cl /\ taken' = taken /\ NoConn.c = 0 /\ issued \in Nat /\ taken.gen \in Nat /\ taken.gen <= issued
  BY ServingKeeps, NumberTypes DEF NumberInv, GensOK, NoConn
<1> SUFFICES ASSUME LiveConn' = cl.conn, cl.conn # 0, Known(cl.conn)'
             PROVE  JoinsNext(io'.gen, io'.sent + 1)
  BY <1>0 DEF LastOK, Joins, JoinsNext, Seen, SeenNext
<1>1. cl.conn \in Conns /\ Known(cl.conn)
  <2>1. cl.conn \in Conns
    BY ShapeTypes DEF TypeInv
  <2> QED BY <1>0, <2>1, ServingServes DEF Serves, GateMoves, Known
<1>2. CASE StreamSends
  <2>1. LiveConn = cl.conn /\ io'.gen = io.gen /\ io'.sent = io.sent + 1
    BY <1>2 DEF StreamSends, IoSends, LiveConn
  <2>2. PICK x \in Answer : x.t = "pack" /\ x.gen = io.gen /\ x.seq = io.sent + 1 /\ down' = down \o <<x>>
    BY <1>1, <1>2, <2>1, SentPack
  <2>3. Len(down) + 1 \in DOMAIN down' /\ down'[Len(down) + 1] = x
    BY <2>2, DownTypes
  <2> QED BY <2>1, <2>2, <2>3 DEF JoinsNext
<1>3. CASE io'.gen = io.gen /\ io'.sent = io.sent /\ (session' = session \/ session' = NoConn)
  <2>1. LiveConn = cl.conn
    BY <1>0, <1>3 DEF LiveConn
  <2>2. JoinsNext(io.gen, io.sent + 1)
    BY <1>1, <2>1, JoinsKept DEF LastOK
  <2> QED BY <1>3, <2>2
<1>4. CASE Resumes
  <2>1. turn.c = cl.conn
    BY <1>4 DEF Resumes, LiveConn
  <2> QED BY <1>1, <1>4, <2>1, ReplayJoins
<1>5. CASE Binds
  <2>1. io'.gen = issued + 1 /\ io'.sent = 0
    BY <1>5, BindsFields DEF BindsOf
  <2>2. taken.gen # issued + 1
    BY <1>0
  <2> QED BY <1>0, <2>1, <2>2 DEF JoinsNext, SeenNext
<1>6. CASE Unload
  BY <1>0, <1>6 DEF Unload, LiveConn
<1>7. CASE PingTurn
  BY <1>3, <1>7, PingTurnFields DEF PingOf
<1> QED BY <1>2, <1>3, <1>4, <1>5, <1>6, <1>7, ServingStreams DEF StreamQuiet, LoginReplies, server

LEMMA OrderReceive ==
    ASSUME TypeInv, CredentialInv, ShapeInv, LinkInv, NumberInv, OrderInv, Receive, Clean'
    PROVE  (TakenOK /\ CountOK /\ NoGap /\ LastOK)'
<1> DEFINE m == Head(down)
<1>0. /\ TypeOK /\ UNCHANGED <<session, io, queue, turn, issued>> /\ io.gen \in Nat /\ io.sent \in Nat
      /\ down \in Seq(Answer) /\ cl.gen \in Nat /\ taken.gen \in Nat /\ cl.recv \in Nat
      /\ \A i \in DOMAIN down : down[i] \in Answer /\ down[i].gen \in Nat /\ down[i].seq \in Nat /\ i \in Nat
      /\ \A g : Seen(g) \in Nat
  BY ClientServer, DownTypes, NumberTypes DEF TypeInv, Client
<1> HIDE DEF TypeOK
<1>1. ReceiveOf(m)
  BY <1>0, ReceiveFields
<1>2. /\ 1 \in DOMAIN down /\ m = down[1] /\ m \in Answer /\ m.gen \in Nat /\ m.seq \in Nat
      /\ \A i \in DOMAIN down' : i \in Nat /\ i + 1 \in DOMAIN down /\ i + 1 # 1 /\ down'[i] = down[i + 1] /\ 1 < i + 1
      /\ \A i \in DOMAIN down : i # 1 => i - 1 \in DOMAIN down' /\ down'[i - 1] = down[i] /\ 1 < i
  <2>1. /\ 1 \in DOMAIN down /\ m = down[1]
        /\ \A i \in DOMAIN down' : i \in Nat /\ i + 1 \in DOMAIN down /\ i + 1 # 1 /\ down'[i] = down[i + 1]
        /\ \A i \in DOMAIN down : i # 1 => i - 1 \in DOMAIN down' /\ down'[i - 1] = down[i]
    BY <1>0, <1>1, TailAt DEF ReceiveOf
  <2>2. \A i \in Nat : i + 1 # 1 => 1 < i + 1
    OBVIOUS
  <2>3. \A i \in DOMAIN down : i # 1 => 1 < i
    BY <1>0
  <2> QED BY <1>0, <1>1, <2>1, <2>2, <2>3 DEF ReceiveOf
<1>3. /\ SameLink /\ gate' = gate /\ LiveConn' = LiveConn /\ m.t # "stray" /\ Clean
      /\ cl'.recv = (IF Counts(m) THEN cl.recv + 1 ELSE cl.recv) /\ (m.t \notin {"pack", "stray"} => ~Counts(m))
  <2>1. Takes(m) /\ UNCHANGED <<net, server>>
    BY <1>1 DEF ReceiveOf
  <2> HIDE DEF m
  <2>2. Clean
    BY <2>1 DEF Takes, Clean
  <2>3. m.t # "stray"
    BY <1>2, <2>2 DEF LinkInv, Strays, Reaches, Clean, Early
  <2>4. m.t \notin {"pack", "stray"} => ~Counts(m)
    BY <1>2 DEF Answer, Counts, Uncounted
  <2> QED BY <1>1, <2>1, <2>2, <2>3, <2>4 DEF ReceiveOf, net, server, LiveConn
<1>4. TakenOK /\ CountOK /\ NoGap /\ LastOK
  BY <1>3 DEF OrderInv
<1>5. Trusted' => Trusted
  <2>1. \A id : Grant("resume", id)' => Grant("resume", id)
    BY ClientGrants DEF Client
  <2> QED BY <1>0, <1>3, <2>1 DEF Trusted, SameLink
<1> HIDE DEF m
<1>6. CASE m.t # "pack"
  <2>1. taken' = taken /\ cl'.recv = cl.recv
    <3>1. Takes(m)
      BY <1>1 DEF ReceiveOf
    <3> QED BY <1>3, <1>6, <3>1 DEF Takes
  <2>2. ASSUME NEW g, NEW k, Joins(g, k) PROVE JoinsNext(g, k)
    <3>1. CASE k = Seen(g) + 1
      BY <2>1, <3>1 DEF JoinsNext, Seen, SeenNext
    <3>2. ASSUME NEW i \in DOMAIN down, down[i].t = "pack", down[i].gen = g, k = down[i].seq + 1 PROVE JoinsNext(g, k)
      <4>1. i # 1
        BY <1>2, <1>6, <3>2
      <4> QED BY <1>2, <3>2, <4>1 DEF JoinsNext
    <3> QED BY <2>2, <3>1, <3>2 DEF Joins
  <2>3. NoGap'
    <3> SUFFICES ASSUME NEW i \in DOMAIN down', down'[i].t = "pack"
                 PROVE  Seen(down'[i].gen) < down'[i].seq /\ JoinsNext(down'[i].gen, down'[i].seq)
      BY <2>1 DEF NoGap, Joins, JoinsNext, Seen, SeenNext
    <3>1. Seen(down[i + 1].gen) < down[i + 1].seq /\ Joins(down[i + 1].gen, down[i + 1].seq) /\ down'[i] = down[i + 1]
      BY <1>2, <1>4 DEF NoGap
    <3> QED BY <2>2, <3>1
  <2>4. LastOK'
    <3> SUFFICES ASSUME LiveConn = cl.conn, cl.conn # 0, Known(cl.conn) PROVE JoinsNext(io.gen, io.sent + 1)
      BY <1>0, <1>3 DEF LastOK, Joins, JoinsNext, Seen, SeenNext, SameLink, Known
    <3> QED BY <1>4, <2>2 DEF LastOK
  <2>5. TakenOK' /\ CountOK'
    BY <1>3, <1>4, <1>5, <2>1 DEF TakenOK, CountOK, SameLink, Seen
  <2> QED BY <2>3, <2>4, <2>5
<1>7. CASE m.t = "pack"
  <2>1. m.gen = cl.gen /\ taken' = [gen |-> m.gen, seq |-> m.seq, ordered |-> taken.ordered /\ m.seq = Seen(m.gen) + 1]
    <3>1. Takes(m)
      BY <1>1 DEF ReceiveOf
    <3>2. "early push" \notin mishaps'
      BY DEF Clean
    <3>3. m.gen = cl.gen
      BY <1>7, <3>1, <3>2 DEF Takes
    <3>4. taken' = [gen |-> m.gen, seq |-> m.seq, ordered |-> taken.ordered /\ m.seq = Seen(m.gen) + 1]
      BY <1>7, <3>1, Zenon DEF Takes, Seen
    <3> QED BY <3>3, <3>4
  <2>2. m.seq = Seen(cl.gen) + 1
    <3>1. Joins(cl.gen, m.seq)
      BY <1>2, <1>4, <1>7, <2>1 DEF NoGap
    <3>2. ASSUME NEW i \in DOMAIN down, down[i].t = "pack", down[i].gen = cl.gen, m.seq = down[i].seq + 1 PROVE FALSE
      <4>1. i # 1
        BY <1>0, <1>2, <3>2
      <4>2. Behind(down[1], down[i])
        BY <1>2, <4>1 DEF NumberInv, PairsOK
      <4>3. m.seq < down[i].seq
        BY <1>2, <1>7, <2>1, <3>2, <4>2 DEF Behind
      <4> QED BY <1>0, <1>2, <3>2, <4>3
    <3> QED BY <3>1, <3>2 DEF Joins
  <2>3. taken'.gen = cl.gen /\ taken'.seq = m.seq /\ taken'.ordered
    <3>1. (taken.ordered /\ m.seq = Seen(m.gen) + 1) = TRUE
      BY <1>4, <2>1, <2>2 DEF TakenOK
    <3>2. taken' = [gen |-> m.gen, seq |-> m.seq, ordered |-> TRUE]
      BY <2>1, <3>1
    <3> QED BY <2>1, <3>2
  <2>4. TakenOK'
    BY <1>0, <1>3, <2>3 DEF TakenOK, SameLink
  <2>5. CountOK'
    <3> SUFFICES ASSUME Trusted' PROVE cl'.recv = m.seq
      BY <1>3, <2>3 DEF CountOK, Seen, SameLink
    <3>1. cl.recv = Seen(cl.gen)
      BY <1>4, <1>5 DEF CountOK
    <3>2. Counts(m)
      <4>1. SUFFICES ASSUME AnswersLogin(m) PROVE FALSE
        BY <1>7 DEF Counts, Uncounted
      <4>2. cl.stage = "login" /\ ~cl.online
        BY <4>1 DEF AnswersLogin, ShapeInv, ClientForm
      <4>3. io # NoIO /\ cl.nonce = io.nonce
        BY <1>5, <4>2 DEF Trusted
      <4>4. Reaches("pack")
        BY <1>2, <1>7 DEF Reaches
      <4> QED BY <4>2, <4>3, <4>4 DEF LinkInv, LinkOK
    <3> QED BY <1>3, <2>2, <3>1, <3>2
  <2>6. \A g \in Nat : cl.gen <= g /\ g # cl.gen => Seen(g) = 0 /\ SeenNext(g) = 0
    <3>1. \A g \in Nat : cl.gen <= g /\ g # cl.gen => g # taken.gen
      BY <1>0, <1>4 DEF TakenOK
    <3> QED BY <2>3, <3>1 DEF Seen, SeenNext
  <2>7. SeenNext(cl.gen) = m.seq
    BY <2>3 DEF SeenNext
  <2>8. ASSUME NEW g \in Nat, NEW k \in Nat, cl.gen <= g, Joins(g, k), g = cl.gen => m.seq < k PROVE JoinsNext(g, k)
    <3>1. CASE k = Seen(g) + 1
      <4>1. g # cl.gen
        BY <1>2, <2>2, <2>8, <3>1
      <4> QED BY <2>6, <2>8, <3>1, <4>1 DEF JoinsNext
    <3>2. ASSUME NEW i \in DOMAIN down, down[i].t = "pack", down[i].gen = g, k = down[i].seq + 1 PROVE JoinsNext(g, k)
      <4>1. CASE i = 1
        BY <1>2, <2>1, <2>7, <3>2, <4>1 DEF JoinsNext
      <4>2. CASE i # 1
        BY <1>2, <3>2, <4>2 DEF JoinsNext
      <4> QED BY <4>1, <4>2
    <3> QED BY <2>8, <3>1, <3>2 DEF Joins
  <2>9. NoGap'
    <3> SUFFICES ASSUME NEW i \in DOMAIN down', down'[i].t = "pack"
                 PROVE  SeenNext(down'[i].gen) < down'[i].seq /\ JoinsNext(down'[i].gen, down'[i].seq)
      BY DEF NoGap, Joins, JoinsNext, Seen, SeenNext
    <3> DEFINE x == down[i + 1]
    <3>1. /\ x.t = "pack" /\ Seen(x.gen) < x.seq /\ Joins(x.gen, x.seq) /\ down'[i] = x /\ x.gen \in Nat /\ x.seq \in Nat
          /\ cl.gen <= x.gen
      BY <1>0, <1>2, <1>4 DEF NoGap, NumberInv, PacksOK, PackOK
    <3>2. x.gen = cl.gen => m.seq < x.seq
      <4>1. Behind(down[1], down[i + 1])
        BY <1>2 DEF NumberInv, PairsOK
      <4> QED BY <1>2, <1>7, <2>1, <3>1, <4>1 DEF Behind
    <3> HIDE DEF x
    <3>3. JoinsNext(x.gen, x.seq)
      BY <2>8, <3>1, <3>2
    <3>4. SeenNext(x.gen) < x.seq
      <4>1. CASE x.gen = cl.gen
        BY <2>7, <3>2, <4>1
      <4>2. CASE x.gen # cl.gen
        BY <2>6, <3>1, <4>2
      <4> QED BY <4>1, <4>2
    <3> QED BY <3>1, <3>3, <3>4
  <2>10. LastOK'
    <3> SUFFICES ASSUME LiveConn = cl.conn, cl.conn # 0, Known(cl.conn) PROVE JoinsNext(io.gen, io.sent + 1)
      BY <1>0, <1>3 DEF LastOK, Joins, JoinsNext, Seen, SeenNext, SameLink, Known
    <3>1. Joins(io.gen, io.sent + 1) /\ io # NoIO
      BY <1>4, LiveIO DEF LastOK
    <3>2. cl.gen <= io.gen
      BY <3>1 DEF NumberInv, GensOK
    <3>3. io.gen = cl.gen => m.seq <= io.sent
      BY <1>2, <1>7, <2>1, <3>1 DEF NumberInv, PacksOK, PackOK
    <3>4. io.sent + 1 \in Nat /\ (io.gen = cl.gen => m.seq < io.sent + 1)
      BY <1>0, <1>2, <3>3
    <3> QED BY <1>0, <2>8, <3>1, <3>2, <3>4
  <2> QED BY <2>4, <2>5, <2>9, <2>10
<1> QED BY <1>6, <1>7

LEMMA OrderClient ==
    ASSUME TypeInv, CredentialInv, ShapeInv, LinkInv, NumberInv, OrderInv, Client
    PROVE  OrderInv'
<1> SUFFICES ASSUME Clean' PROVE (TakenOK /\ CountOK /\ NoGap /\ LastOK)'
  BY DEF OrderInv
<1>0. /\ TypeOK /\ UNCHANGED <<session, io>> /\ LiveConn' = LiveConn /\ NoIO.nonce = 0 /\ (io # NoIO => io.nonce # 0)
      /\ ShapeInv /\ ClientForm /\ issued \in Nat
  <2>1. TypeOK /\ UNCHANGED <<session, io>> /\ NoIO.nonce = 0
    BY ClientServer, LinkTypes DEF TypeInv
  <2>2. io # NoIO => io.nonce # 0
    BY LinkTypes
  <2> QED BY <2>1, <2>2, DownTypes DEF LiveConn, ShapeInv
<1> HIDE DEF TypeOK
<1>1. Clean
  <2>1. mishaps \subseteq mishaps'
    BY DEF Client, Connect, Drop, Call, Ping, Receive, Takes, ResumeSucceeds, ResumeFails, LoginSucceeds, LoginFails,
       PingAnswered, history
  <2> QED BY <2>1 DEF Clean
<1>2. TakenOK /\ CountOK /\ NoGap /\ LastOK
  BY <1>1 DEF OrderInv
<1>3. \A id : Grant("resume", id)' => Grant("resume", id) /\ ~Connect
  BY ClientGrants
<1>4. ASSUME UNCHANGED <<down, taken>> PROVE NoGap'
  BY <1>2, <1>4 DEF NoGap, Joins, Seen
<1>5. ASSUME UNCHANGED <<down, taken, gate>>, cl'.conn = cl.conn PROVE NoGap' /\ LastOK'
  BY <1>0, <1>2, <1>4, <1>5 DEF LastOK, Joins, Seen, Known
<1>6. ASSUME taken' = taken, cl'.gen = cl.gen, cl'.recv = cl.recv, Trusted' => Trusted PROVE TakenOK' /\ CountOK'
  BY <1>2, <1>6 DEF TakenOK, CountOK, Seen
<1>7. CASE Connect
  <2>1. /\ UNCHANGED <<down, taken>> /\ cl'.gen = cl.gen /\ cl'.recv = cl.recv /\ cl'.nonce = cl.nonce
        /\ cl'.online = cl.online /\ LiveConn # cl'.conn
    BY <1>0, <1>7, ConnectFields, NewConn DEF Connect, history
  <2>2. Trusted' => Trusted
    BY <1>0, <1>3, <1>7, <2>1 DEF Trusted
  <2>3. LastOK'
    BY <1>0, <2>1 DEF LastOK
  <2> QED BY <1>4, <1>6, <2>1, <2>2, <2>3
<1>8. CASE GivesUp
  <2>1. /\ down' = << >> /\ taken' = taken /\ cl'.gen = cl.gen /\ cl'.recv = cl.recv /\ cl'.conn = 0 /\ ~cl'.online
        /\ cl'.nonce = cl.nonce \/ cl'.nonce = 0
    BY <1>8 DEF GivesUp, history
  <2>2. Trusted' => Trusted
    BY <1>0, <2>1 DEF Trusted
  <2>3. NoGap' /\ LastOK'
    BY <2>1 DEF NoGap, LastOK
  <2> QED BY <1>6, <2>1, <2>2, <2>3
<1>9. CASE Steady /\ ~Connect
  <2>1. /\ UNCHANGED <<down, taken>> /\ SameLink /\ cl'.recv = cl.recv
    BY <1>9 DEF Steady
  <2>2. gate' = gate
    BY <1>9, ClientSays DEF Says
  <2>3. Trusted' => Trusted
    BY <1>0, <1>3, <2>1 DEF Trusted, SameLink
  <2> QED BY <1>5, <1>6, <2>1, <2>2, <2>3 DEF SameLink
<1>10. CASE ResumeSucceeds
  <2>1. /\ UNCHANGED <<down, taken, gate>> /\ cl'.gen = cl.gen /\ cl'.recv = cl.recv /\ cl'.conn = cl.conn
        /\ cl.stage = "resume" /\ cl.answer.id # 0
    BY <1>0, <1>10, ResumeSucceedsFields DEF ResumeSucceeds, history
  <2>2. Grant("resume", cl.answer.id)
    BY <2>1 DEF Grant
  <2>3. Trusted
    BY <1>0, <2>1, <2>2 DEF ClientForm, Trusted
  <2> QED BY <1>5, <1>6, <2>1, <2>3
<1>11. CASE ResumeFails
  <2>1. /\ UNCHANGED <<down, taken, gate>> /\ cl'.gen = cl.gen /\ cl'.recv = cl.recv /\ cl'.conn = cl.conn
        /\ cl'.stage = "login" /\ cl'.nonce = cl.nonce /\ cl'.online = cl.online
    BY <1>0, <1>11, ResumeFailsFields DEF ResumeFails, history
  <2>2. Trusted' => Trusted
    BY <1>0, <2>1 DEF Trusted
  <2> QED BY <1>5, <1>6, <2>1, <2>2
<1>12. CASE LoginSucceeds
  <2> DEFINE a == cl.answer.id
  <2>1. /\ UNCHANGED <<down, taken>> /\ cl'.gen = a /\ cl'.recv = 0 /\ Grant("login", a) /\ cl.stage = "login"
        /\ cl'.conn = cl.conn /\ gate' = gate
    BY <1>0, <1>12, LoginSucceedsFields DEF LoginSucceeds, history, net, Grant
  <2>2. cl.gen < a /\ a \in Nat
    BY <1>0, <2>1 DEF LinkInv, GrantsOK, GrantOK
  <2> HIDE DEF a
  <2>3. taken.gen <= a /\ taken.gen # a
    <3>1. taken.gen \in Nat /\ cl.gen \in Nat /\ taken.gen <= cl.gen
      BY <1>2, NumberTypes DEF TakenOK
    <3> QED BY <2>2, <3>1
  <2>4. TakenOK' /\ CountOK'
    BY <1>2, <2>1, <2>3 DEF TakenOK, CountOK, Seen
  <2> QED BY <1>5, <2>1, <2>4
<1> QED BY <1>7, <1>8, <1>9, <1>10, <1>11, <1>12, ClientKinds, OrderReceive

LEMMA OrderStep ==
    TypeInv /\ CredentialInv /\ ShapeInv /\ LoginInv /\ LinkInv /\ NumberInv /\ StandsInv /\ OrderInv /\ [Next]_vars
        => OrderInv'
<1> SUFFICES ASSUME TypeInv, CredentialInv, ShapeInv, LoginInv, LinkInv, NumberInv, StandsInv, OrderInv, [Next]_vars
             PROVE  OrderInv'
  OBVIOUS
<1>1. CASE UNCHANGED vars
  <2>1. UNCHANGED <<reply, down, io, session, cl, taken, mishaps, gate>>
    BY <1>1 DEF vars, net, server, history
  <2>2. (Clean' <=> Clean) /\ (TakenOK' <=> TakenOK) /\ (NoGap' <=> NoGap) /\ (LastOK' <=> LastOK)
    BY <2>1 DEF Clean, TakenOK, NoGap, LastOK, Joins, Seen, LiveConn, Known
  <2>3. CountOK' <=> CountOK
    BY <2>1 DEF CountOK, Trusted, Grant, GrantIn, Seen, LiveConn
  <2> QED BY <2>2, <2>3 DEF OrderInv
<1>2. CASE Serving
  <2> SUFFICES ASSUME Clean' PROVE (TakenOK /\ CountOK /\ NoGap /\ LastOK)'
    BY DEF OrderInv
  <2>1. Clean
    BY <1>2, ServingMishaps DEF Clean
  <2>2. TakenOK /\ CountOK /\ NoGap /\ LastOK
    BY <2>1 DEF OrderInv
  <2>3. TakenOK'
    BY <1>2, <2>2, ServingKeeps DEF TakenOK
  <2> QED BY <1>2, <2>1, <2>2, <2>3, CountServes, GapServes, LastServes
<1> QED BY <1>1, <1>2, OrderClient DEF Next, Serving

LEMMA InitOrder == Init => StandsInv /\ OrderInv
<1> SUFFICES ASSUME Init PROVE StandsInv /\ OrderInv
  OBVIOUS
<1>1. /\ cl.stage = "idle" /\ ~cl.online /\ io = NoIO /\ down = << >> /\ turn = NoTurn /\ cl.conn = 0
      /\ taken.ordered /\ taken.gen = 0 /\ cl.gen = 0
  BY DEF Init
<1>2. NoTurn.t = "none"
  BY DEF NoTurn
<1> QED BY <1>1, <1>2 DEF StandsInv, OrderInv, TakenOK, CountOK, Trusted, NoGap, LastOK

LEMMA OrderHolds == ShapeInv /\ OrderInv => InOrder /\ CountsAgree
BY DEF OrderInv, Clean, TakenOK, CountOK, Trusted, InOrder, CountsAgree, Agree, Seen

-----------------------------------------------------------------------------
(* Requests.  What the client has sent on a connection and the entity has    *)
(* not done yet, and what the session remembers of those that it has done.  *)

Has(c, r) == InUp(c, "req", r) \/ InQueue(c, "req", r) \/ InTurn(c, "req", r)

(* The session s does not take request r any more. *)
DoneIn(s, r) == (\E i \in DOMAIN s.cache : s.cache[i] = r) \/ r < s.minReq

LEMMA HasWay == ASSUME NEW c, NEW r, Has(c, r) PROVE \A n, id : Way(c, "req", n, id)
BY DEF Has, Way, Fits, InUp, InQueue, InTurn, Is

(* What leaves the cache of responses is remembered by minReq. *)
LEMMA CachedRemembers ==
    ASSUME NEW s \in IOs, NEW r \in Reqs
    PROVE  DoneIn(Cached(s, r), r) /\ \A x \in Reqs : DoneIn(s, x) => DoneIn(Cached(s, r), x)
<1> DEFINE q == s.cache
           n == Cached(s, r)
<1>1. q \in Seq(Reqs) /\ s.minReq \in Nat /\ \A x \in Reqs : x \in Nat
  BY DEF IOs, Reqs
<1>2. CASE Len(q) = CacheSize
  <2> DEFINE h == Head(q)
             p == Tail(q)
             k == IF h >= s.minReq THEN h + 1 ELSE s.minReq
  <2>1. n = [s EXCEPT !.cache = Append(p, r), !.minReq = k]
    BY <1>2 DEF Cached
  <2>2. n.cache = Append(p, r) /\ n.minReq = k
    BY <2>1 DEF IOs
  <2>3. q # << >> /\ h \in Reqs /\ p \in Seq(Reqs) /\ h = q[1]
        /\ \A i \in DOMAIN q : i # 1 => i - 1 \in DOMAIN p /\ p[i - 1] = q[i]
    <3>1. q # << >>
      BY <1>1, <1>2
    <3> QED BY <1>1, <3>1, Taken1, TailAt
  <2> HIDE DEF n, p, q, h
  <2>4. /\ \A i \in DOMAIN p : i \in DOMAIN Append(p, r) /\ Append(p, r)[i] = p[i]
        /\ \E i \in DOMAIN Append(p, r) : Append(p, r)[i] = r
    BY <2>3, AppendAt
  <2>5. h \in Nat /\ h < k /\ s.minReq <= k /\ k \in Nat
    BY <1>1, <2>3
  <2>6. ASSUME NEW x \in Reqs, DoneIn(s, x) PROVE DoneIn(n, x)
    <3>1. CASE x < s.minReq
      BY <1>1, <2>2, <2>5, <3>1 DEF DoneIn
    <3>2. ASSUME NEW i \in DOMAIN q, q[i] = x PROVE DoneIn(n, x)
      <4>1. CASE i = 1
        BY <2>2, <2>3, <2>5, <3>2, <4>1 DEF DoneIn
      <4>2. CASE i # 1
        BY <2>2, <2>3, <2>4, <3>2, <4>2 DEF DoneIn
      <4> QED BY <4>1, <4>2
    <3> QED BY <2>6, <3>1, <3>2 DEF DoneIn, q
  <2> QED BY <2>2, <2>4, <2>6 DEF DoneIn, n
<1>3. CASE Len(q) # CacheSize
  <2>1. n.cache = Append(q, r) /\ n.minReq = s.minReq
    BY <1>3 DEF Cached, IOs
  <2>2. /\ \A i \in DOMAIN q : i \in DOMAIN Append(q, r) /\ Append(q, r)[i] = q[i]
        /\ \E i \in DOMAIN Append(q, r) : Append(q, r)[i] = r
    BY <1>1, AppendAt
  <2> HIDE DEF n
  <2>3. DoneIn(n, r) /\ \A x : DoneIn(s, x) => DoneIn(n, x)
    BY <2>1, <2>2 DEF DoneIn
  <2> QED BY <2>3 DEF n
<1> QED BY <1>2, <1>3

LEMMA CountedRemembers ==
    ASSUME NEW s \in IOs, NEW k
    PROVE  \A r : DoneIn(Counted(s, k), r) <=> DoneIn(s, r)
BY CountedFields DEF DoneIn

(* No step of the entity executes a request, or forgets one that was done,   *)
(* but those that have a name; a request whose turn it was is done then,     *)
(* unless its handler has thrown.                                           *)
Executes ==
    /\ runs' = runs
    /\ \A r \in Reqs : DoneIn(io, r) => DoneIn(io', r)
    /\ turn'.t = "req" => turn' = turn
    /\ turn.t = "req" => turn' = turn \/ DoneIn(io', turn.r) \/ "throw" \in mishaps'

LEMMA EntityExecutes ==
    TypeInv /\ CredentialInv /\ Entity => Executes \/ RequestStarts \/ Resumes \/ Binds \/ Unload
<1> SUFFICES ASSUME TypeInv, CredentialInv, Entity PROVE Executes \/ RequestStarts \/ Resumes \/ Binds \/ Unload
  OBVIOUS
<1>0. TypeOK /\ io \in IOs /\ NoTurn.t = "none" /\ turn \in Turns /\ Covers(io)
  BY DEF TypeInv, TypeOK, NoTurn
<1> HIDE DEF TypeOK
<1>1. ASSUME NEW t, TakesTurn(t) PROVE Next1 \in Tasks /\ Next1.t = t /\ turn = NoTurn
  BY <1>0, <1>1, TakesFacts
<1>2. CASE Push
  <2> DEFINE s == [io EXCEPT !.pushed = @ + 1]
  <2>1. io' = Counted(s, 0) /\ UNCHANGED <<runs, turn>>
    BY <1>2 DEF Push, RecordAndSend
  <2>2. s \in IOs /\ s.cache = io.cache /\ s.minReq = io.minReq
    <3>1. io.pushed \in 0 .. MaxSent /\ io.pushed < MaxSent
      BY <1>0, <1>2 DEF Push, IOs
    <3>2. io.pushed + 1 \in 0 .. MaxSent
      BY <3>1
    <3> QED BY <1>0, <3>2 DEF IOs
  <2> HIDE DEF s
  <2>3. io'.cache = io.cache /\ io'.minReq = io.minReq
    BY <2>1, <2>2, CountedFields
  <2> QED BY <2>1, <2>3 DEF Executes, DoneIn
<1>3. CASE RequestRevoked
  <2>1. turn = NoTurn /\ UNCHANGED <<runs, turn>>
    BY <1>1, <1>3 DEF RequestRevoked
  <2>2. io' = io \/ io' = Counted(io, Next1.r)
    BY <1>3 DEF RequestRevoked, RecordAndSend
  <2>3. \A r : DoneIn(io, r) => DoneIn(io', r)
    BY <1>0, <2>2, CountedRemembers
  <2> QED BY <1>0, <2>1, <2>3 DEF Executes
<1>4. CASE RequestReturns
  <2>1. turn.t = "req" /\ turn.r \in Reqs /\ turn' = NoTurn /\ runs' = runs /\ io' = Counted(Cached(io, turn.r), turn.r)
    BY <1>0, <1>4, TurnFacts DEF RequestReturns, RecordAndSend
  <2>2. Cached(io, turn.r) \in IOs
    BY <1>0, <2>1, CachedKeeps
  <2>3. DoneIn(io', turn.r) /\ \A x \in Reqs : DoneIn(io, x) => DoneIn(io', x)
    BY <1>0, <2>1, <2>2, CachedRemembers, CountedRemembers
  <2> QED BY <1>0, <2>1, <2>3 DEF Executes
<1>5. CASE RequestThrows
  <2>1. turn' = NoTurn /\ runs' = runs /\ io' = Counted(io, turn.r) /\ "throw" \in mishaps'
    BY <1>5 DEF RequestThrows
  <2> QED BY <1>0, <2>1, CountedRemembers DEF Executes
<1>6. CASE PingTurn
  <2>1. Next1.n \in Nat /\ Next1.r \in Reqs /\ turn' = turn /\ runs' = runs /\ io' = Cached(Acked(io, Next1.n), Next1.r)
    BY <1>1, <1>6, TaskFacts DEF PingTurn, history
  <2>2. /\ Acked(io, Next1.n) \in IOs /\ Acked(io, Next1.n).cache = io.cache /\ Acked(io, Next1.n).minReq = io.minReq
    BY <1>0, <2>1, AckedKeeps, AckedFields
  <2>3. \A x \in Reqs : DoneIn(io, x) => DoneIn(Acked(io, Next1.n), x)
    BY <2>2 DEF DoneIn
  <2>4. \A x \in Reqs : DoneIn(io, x) => DoneIn(io', x)
    BY <2>1, <2>2, <2>3, CachedRemembers
  <2> QED BY <2>1, <2>4 DEF Executes
<1>7. CASE ClosedTurn
  BY <1>7 DEF ClosedTurn, history, Executes
<1>8. CASE ResumeTurn \/ LoginTurn
  <2>1. UNCHANGED <<io, runs>> /\ turn = NoTurn
    BY <1>1, <1>8 DEF ResumeTurn, LoginTurn, history
  <2>2. Next1 \in Tasks /\ Next1.t \in {"resume", "login"}
    BY <1>1, <1>8 DEF ResumeTurn, LoginTurn
  <2>3. turn' = turn \/ turn' = [Next1 EXCEPT !.pc = "bound"]
    BY <1>8 DEF ResumeTurn, LoginTurn, CallsBind
  <2>4. turn' = turn \/ turn'.t \in {"resume", "login"}
    BY <2>2, <2>3, TurnOf
  <2> QED BY <1>0, <2>1, <2>4 DEF Executes
<1> QED
  BY <1>2, <1>3, <1>4, <1>5, <1>6, <1>7, <1>8 DEF Entity

LEMMA ServingExecutes ==
    TypeInv /\ CredentialInv /\ Serving => Executes \/ RequestStarts \/ Resumes \/ Binds \/ Unload
<1> SUFFICES ASSUME TypeInv, Serving, ~Entity PROVE Executes
  BY EntityExecutes
<1>0. io \in IOs
  BY DEF TypeInv, TypeOK
<1>1. CASE LoginReplies \/ \E c \in Conns : Disconnect(c) \/ NoticeArrives(c)
  BY <1>1 DEF LoginReplies, Disconnect, NoticeArrives, server, history, Executes
<1>2. ASSUME NEW c \in Conns, GateForwards(c) PROVE Executes
  <2>1. UNCHANGED <<runs, turn>>
    BY <1>2 DEF GateForwards
  <2>2. io' = io \/ io' = Counted(io, Head(up[c]).r)
    BY <1>2 DEF GateForwards, EntityReceives, LoginReceives, RecordAndSend
  <2>3. \A r : DoneIn(io, r) => DoneIn(io', r)
    BY <1>0, <2>2, CountedRemembers
  <2> QED BY <2>1, <2>3 DEF Executes
<1> QED BY <1>1, <1>2 DEF Serving

(* Where requests come from. *)
LEMMA HasServes ==
    ASSUME TypeInv, Serves, NEW c \in Conns, NEW r
    PROVE  (InUp(c, "req", r)' => InUp(c, "req", r)) /\ (Has(c, r)' => Has(c, r))
<1>0. TypeOK /\ NoTurn.t = "none" /\ up[c] \in Seq(Messages)
  BY ShapeTypes DEF TypeInv, NoTurn
<1> HIDE DEF TypeOK
<1>1. ASSUME NEW i \in DOMAIN up'[c], Is(up'[c][i], "req", r) PROVE InUp(c, "req", r)
  <2>1. CASE up'[c] = up[c]
    BY <1>1, <2>1 DEF InUp
  <2>2. CASE up'[c] = << >>
    BY <1>1, <2>2
  <2>3. CASE up[c] # << >> /\ up'[c] = Tail(up[c])
    BY <1>0, <1>1, <2>3, TailAt DEF InUp
  <2> QED BY <1>0, <2>1, <2>2, <2>3, UpFrom
<1>2. ASSUME NEW i \in DOMAIN queue', queue'[i].c = c, Is(queue'[i], "req", r) PROVE Has(c, r)
  <2>1. CASE \E j \in DOMAIN queue : queue'[i] = queue[j]
    BY <1>2, <2>1 DEF Has, InQueue
  <2>2. ASSUME NEW d \in Conns, up[d] # << >>, Becomes(Head(up[d]), d, queue'[i]) PROVE Has(c, r)
    <3>1. d = c
      BY <1>2, <2>2 DEF Becomes
    <3>2. 1 \in DOMAIN up[c] /\ Head(up[c]) = up[c][1]
      BY <1>0, <2>2, <3>1, TailAt
    <3>3. Is(up[c][1], "req", r)
      BY <1>2, <2>2, <3>1, <3>2 DEF Becomes, Is
    <3> QED BY <3>2, <3>3 DEF Has, InUp
  <2>3. CASE queue'[i].t = "closed"
    BY <1>2, <2>3 DEF Is
  <2> QED BY <1>0, <2>1, <2>2, <2>3, QueueFrom
<1>3. ASSUME turn'.c = c, Is(turn', "req", r) PROVE Has(c, r)
  <2>1. turn' # NoTurn
    BY <1>0, <1>3 DEF Is
  <2>2. CASE turn' = turn
    BY <1>3, <2>2 DEF Has, InTurn
  <2>3. CASE 1 \in DOMAIN queue /\ SameTask(turn', queue[1])
    BY <1>3, <2>3 DEF Has, InQueue, Is, SameTask
  <2> QED BY <1>0, <2>1, <2>2, <2>3, TurnFrom
<1>4. InUp(c, "req", r)' => InUp(c, "req", r)
  BY <1>1 DEF InUp
<1>5. InQueue(c, "req", r)' => Has(c, r)
  BY <1>2 DEF InQueue
<1>6. InTurn(c, "req", r)' => Has(c, r)
  BY <1>3 DEF InTurn
<1> QED BY <1>4, <1>5, <1>6 DEF Has

(* A request joins the queue only if the session has not done it, and with   *)
(* the credential of the connection that is installed.                      *)
Fresh(q) ==
    q.c = LiveConn /\ q.id = session.id /\ InUp(LiveConn, "req", q.r) /\ ~DoneIn(io, q.r)

LEMMA QueueFresh ==
    ASSUME TypeInv, Serving, NEW i \in DOMAIN queue', queue'[i].t = "req"
    PROVE  (\E j \in DOMAIN queue : queue'[i] = queue[j]) \/ Fresh(queue'[i])
<1>0. TypeOK /\ queue \in Seq(Tasks) /\ up \in [Conns -> Seq(Messages)] /\ session.id \in Nat
  BY DEF TypeInv, TypeOK
<1> HIDE DEF TypeOK
<1>1. ASSUME NEW q \in Tasks, queue' = Append(queue, q), q.t # "req" PROVE \E j \in DOMAIN queue : queue'[i] = queue[j]
  <2>1. (i \in DOMAIN queue /\ queue'[i] = queue[i]) \/ queue'[i] = q
    BY <1>0, <1>1, AppendAt
  <2> QED BY <1>1, <2>1
<1>2. CASE queue' = queue \/ (queue # << >> /\ queue' = Tail(queue))
  BY <1>0, <1>2, TailAt
<1>3. CASE Entity
  <2>1. queue' = queue \/ (queue # << >> /\ queue' = Tail(queue))
    BY <1>3 DEF Entity, Push, RequestStarts, RequestRevoked, RequestReturns, RequestThrows, PingTurn, ClosedTurn,
       ResumeTurn, LoginTurn, Resumes, Binds, Unload, TakesTurn
  <2> QED BY <1>2, <2>1
<1>4. CASE LoginReplies \/ \E c \in Conns : Disconnect(c)
  BY <1>2, <1>4 DEF LoginReplies, Disconnect, server
<1>5. ASSUME NEW c \in Conns, NoticeArrives(c) PROVE \E j \in DOMAIN queue : queue'[i] = queue[j]
  <2> DEFINE q == Task("closed", c, Message("closed", 0, 0, 0))
  <2>1. q \in Tasks /\ q.t = "closed"
    BY DEF Task, Message, Tasks
  <2>2. queue' = queue \/ queue' = Append(queue, q)
    BY <1>5 DEF NoticeArrives, Queue
  <2> HIDE DEF q
  <2> QED BY <1>1, <1>2, <2>1, <2>2
<1>6. ASSUME NEW c \in Conns, GateForwards(c) PROVE (\E j \in DOMAIN queue : queue'[i] = queue[j]) \/ Fresh(queue'[i])
  <2> DEFINE m == Head(up[c])
             k == [m EXCEPT !.id = session.id]
             q == Task(m.t, c, m)
             x == Task(m.t, c, k)
  <2>1. up[c] \in Seq(Messages) /\ up[c] # << >>
    BY <1>0, <1>6 DEF GateForwards
  <2>2. m \in Messages /\ 1 \in DOMAIN up[c] /\ m = up[c][1]
    BY <2>1, Taken1, TailAt
  <2>3. q \in Tasks /\ x \in Tasks
    BY <1>0, <2>2, TaskOf
  <2>4. q.t = m.t /\ x.t = m.t /\ x.r = m.r /\ x.id = session.id /\ x.c = c
    BY <2>2 DEF Task, Messages
  <2>5. \/ queue' = queue
        \/ queue' = Append(queue, q) /\ m.t \in {"login", "resume"}
        \/ queue' = Append(queue, x) /\ LiveConn = c /\ ~DoneIn(io, m.r)
    BY <1>6 DEF GateForwards, EntityReceives, LoginReceives, Queue, InCache, DoneIn
  <2> HIDE DEF m, k, q, x
  <2>6. CASE queue' = Append(queue, x) /\ LiveConn = c /\ ~DoneIn(io, m.r)
    <3>1. (i \in DOMAIN queue /\ queue'[i] = queue[i]) \/ queue'[i] = x
      BY <1>0, <2>3, <2>6, AppendAt
    <3>2. x.t = "req" => Fresh(x)
      BY <2>2, <2>4, <2>6 DEF Fresh, InUp, Is
    <3> QED BY <3>1, <3>2
  <2>7. CASE queue' = Append(queue, q) /\ m.t \in {"login", "resume"}
    BY <1>1, <2>3, <2>4, <2>7
  <2> QED BY <1>2, <2>5, <2>6, <2>7
<1> QED BY <1>3, <1>4, <1>5, <1>6 DEF Serving

RequestStartsOf(q) ==
    /\ queue # << >> /\ queue' = Tail(queue) /\ 1 \in DOMAIN queue /\ q = queue[1] /\ turn = NoTurn
    /\ q \in Tasks /\ q.t = "req" /\ q.r \in Reqs /\ q.c \in Conns /\ q.c = session.c /\ q.id = session.id
    /\ turn'.t = "req" /\ turn'.r = q.r /\ turn'.c = q.c
    /\ runs' = [runs EXCEPT ![q.r] = @ + 1]
    /\ UNCHANGED <<up, session, io, issued, cl, mishaps>>

LEMMA RequestStartsFields == TypeInv /\ RequestStarts => RequestStartsOf(queue[1])
<1> SUFFICES ASSUME TypeInv, RequestStarts PROVE RequestStartsOf(queue[1])
  OBVIOUS
<1>0. TypeOK /\ queue \in Seq(Tasks)
  BY DEF TypeInv, TypeOK
<1>1. Next1 \in Tasks /\ Next1.t = "req" /\ turn = NoTurn /\ queue # << >> /\ queue' = Tail(queue)
  BY <1>0, TakesFacts DEF RequestStarts, TakesTurn
<1>2. 1 \in DOMAIN queue /\ Next1 = queue[1]
  BY <1>0, <1>1, TailAt DEF Next1
<1>3. Next1.c = session.c /\ Next1.id = session.id
  BY DEF RequestStarts, SameConn
<1>4. Next1.r \in Reqs /\ Next1.c \in Conns
  BY <1>1, TaskFacts
<1>5. turn'.t = "req" /\ turn'.r = Next1.r /\ turn'.c = Next1.c
  <2>1. turn' = [Next1 EXCEPT !.pc = "handler"]
    BY DEF RequestStarts
  <2> QED BY <1>1, <2>1, Marked DEF SameTask
<1>6. runs' = [runs EXCEPT ![Next1.r] = @ + 1] /\ UNCHANGED <<up, session, io, issued, cl, mishaps>>
  BY DEF RequestStarts, net
<1> QED BY <1>1, <1>2, <1>3, <1>4, <1>5, <1>6 DEF RequestStartsOf

-----------------------------------------------------------------------------
(* What the client sends: a new request, or all that it waits for again.     *)

Sent(ms) ==
    /\ Sends(ms)
    /\ \A i \in DOMAIN ms : ms[i].t = "req" =>
          (Call /\ ms[i].r = cl.next + 1) \/ (ResumeSucceeds /\ ms[i].r \in cl.pending)
    /\ \A i, j \in DOMAIN ms : ms[i].t = "req" /\ ms[j].t = "req" /\ ms[i].r = ms[j].r => i = j

LEMMA ClientSends == TypeInv /\ Client => Connect \/ up' = up \/ \E ms \in Seq(Messages) : Sent(ms)
<1> SUFFICES ASSUME TypeInv, Client, ~Connect, up' # up PROVE \E ms \in Seq(Messages) : Sent(ms)
  OBVIOUS
<1>0. TypeOK
  BY DEF TypeInv
<1> HIDE DEF TypeOK
<1>1. CASE Call
  <2> DEFINE x == Message("req", cl.next + 1, 0, 0)
  <2>1. <<x>> \in Seq(Messages) /\ Sends(<<x>>)
    BY <1>0, <1>1, CallFields DEF Call
  <2>2. \A i \in DOMAIN <<x>> : i = 1 /\ <<x>>[i].r = cl.next + 1
    BY DEF Message
  <2> HIDE DEF x
  <2> QED BY <1>1, <2>1, <2>2 DEF Sent
<1>2. CASE Ping
  <2> DEFINE x == Message("ping", cl.next + 1, cl.recv, 0)
  <2>1. <<x>> \in Seq(Messages) /\ Sends(<<x>>)
    BY <1>0, <1>2, PingFields DEF Ping
  <2>2. \A i \in DOMAIN <<x>> : <<x>>[i].t = "ping"
    BY DEF Message
  <2> HIDE DEF x
  <2> QED BY <2>1, <2>2 DEF Sent
<1>3. CASE ResumeSucceeds
  <2>1. Resend
    BY <1>3 DEF ResumeSucceeds
  <2>2. PICK ms \in Seq(Messages) :
           /\ Sends(ms)
           /\ \A i \in DOMAIN ms : ms[i].t = "req" /\ ms[i].r \in cl.pending
           /\ \A i, j \in DOMAIN ms : ms[i].r = ms[j].r => i = j
    BY <1>0, <2>1, ResendSends
  <2> QED BY <1>3, <2>2 DEF Sent
<1>4. CASE ResumeFails
  <2>1. Sends(<<Login>>)
    BY <1>4 DEF ResumeFails
  <2>2. Login \in Messages /\ Login.t = "login"
    BY <1>0, ClientFacts DEF Login, Message
  <2>3. <<Login>> \in Seq(Messages) /\ \A i \in DOMAIN <<Login>> : <<Login>>[i].t = "login"
    BY <2>2, OneAt
  <2> QED BY <2>1, <2>3 DEF Sent
<1>5. CASE Drop \/ Receive \/ LoginSucceeds \/ LoginFails \/ PingAnswered
  BY <1>5 DEF Drop, Receive, LoginSucceeds, LoginFails, PingAnswered, net
<1> QED BY <1>1, <1>2, <1>3, <1>4, <1>5 DEF Client

LEMMA InUpClient ==
    ASSUME TypeInv, ShapeInv, Client, NEW c \in Conns, NEW r, InUp(c, "req", r)'
    PROVE  \/ InUp(c, "req", r) /\ ~(Connect /\ c = cl'.conn)
           \/ c = cl.conn /\ ((Call /\ r = cl.next + 1) \/ (ResumeSucceeds /\ r \in cl.pending))
<1>0. TypeOK /\ up[c] \in Seq(Messages) /\ up \in [Conns -> Seq(Messages)] /\ (Connect => cl'.conn # cl.conn)
  <2>1. Connect => cl.conn = 0 /\ cl'.conn # 0
    BY NewConn DEF Connect
  <2> QED BY <2>1, ShapeTypes DEF TypeInv
<1> HIDE DEF TypeOK
<1>1. PICK i \in DOMAIN up'[c] : up'[c][i].t = "req" /\ up'[c][i].r = r
  BY DEF InUp, Is
<1>2. CASE Connect
  <2> DEFINE m == IF cl.nonce # 0 THEN Resume ELSE Login
  <2>1. up' = [up EXCEPT ![cl'.conn] = <<m>>] /\ cl'.conn \in Conns
    <3>1. cl'.conn = cl.opened + 1 /\ cl.opened + 1 \in Conns
      BY <1>2, NewConn
    <3> QED BY <1>2, <3>1 DEF Connect
  <2>2. m.t # "req"
    BY DEF Resume, Login, Message
  <2> HIDE DEF m
  <2>3. CASE c = cl'.conn
    <3>1. up'[c] = <<m>>
      BY <1>0, <2>1, <2>3
    <3> QED BY <1>1, <2>2, <3>1
  <2>4. CASE c # cl'.conn
    <3>1. up'[c] = up[c]
      BY <1>0, <2>1, <2>4
    <3> QED BY <1>1, <2>4, <3>1 DEF InUp, Is
  <2> QED BY <2>3, <2>4
<1>3. CASE up' = up /\ ~Connect
  BY <1>1, <1>3 DEF InUp, Is
<1>4. ASSUME NEW ms \in Seq(Messages), Sent(ms), ~Connect
      PROVE  \/ InUp(c, "req", r)
             \/ c = cl.conn /\ ((Call /\ r = cl.next + 1) \/ (ResumeSucceeds /\ r \in cl.pending))
  <2>1. CASE up'[c] = up[c]
    BY <1>1, <2>1 DEF InUp, Is
  <2>2. CASE c = cl.conn /\ up'[c] = up[c] \o ms
    <3>1. \/ i \in DOMAIN up[c] /\ up'[c][i] = up[c][i]
          \/ i - Len(up[c]) \in DOMAIN ms /\ up'[c][i] = ms[i - Len(up[c])]
      BY <1>0, <2>2, ConcatAt
    <3> QED BY <1>1, <1>4, <2>2, <3>1 DEF InUp, Is, Sent
  <2> QED BY <1>0, <1>4, <2>1, <2>2, SendsAt DEF Sent
<1> QED BY <1>2, <1>3, <1>4, ClientSends

(* Ids are drawn in order; a login forgets what the client waits for.        *)
LEMMA ClientCalls ==
    TypeInv /\ Client =>
        /\ cl.next \in Nat /\ cl'.next \in Nat /\ cl.next <= cl'.next /\ runs' = runs
        /\ \A r \in cl'.pending : r \in cl.pending \/ (Call /\ r = cl.next + 1)
        /\ Call => cl'.next = cl.next + 1
        /\ cl'.gen = cl.gen \/ cl'.pending = {}
<1> SUFFICES ASSUME TypeInv, Client
             PROVE  /\ cl.next \in Nat /\ cl'.next \in Nat /\ cl.next <= cl'.next /\ runs' = runs
                    /\ \A r \in cl'.pending : r \in cl.pending \/ (Call /\ r = cl.next + 1)
                    /\ Call => cl'.next = cl.next + 1
                    /\ cl'.gen = cl.gen \/ cl'.pending = {}
  OBVIOUS
<1>0. TypeOK /\ cl.next \in Nat /\ cl.next <= cl.next + 1 /\ cl.next <= cl.next
  <2>1. TypeOK
    BY DEF TypeInv
  <2>2. cl.next \in Nat
    BY <2>1, ClientFacts
  <2> QED BY <2>1, <2>2
<1> HIDE DEF TypeOK
<1>1. runs' = runs
  BY DEF Client, Connect, Drop, Call, Ping, Receive, ResumeSucceeds, ResumeFails, LoginSucceeds, LoginFails,
     PingAnswered, history
<1>2. CASE Call
  BY <1>0, <1>1, <1>2, CallFields DEF SameLink
<1>3. CASE ~Call
  <2>1. CASE Drop \/ LoginFails \/ (PingAnswered /\ cl.ping.n # cl.recv)
    BY <1>0, <1>1, <1>3, <2>1, GivesUpFields DEF GivesUp
  <2>2. CASE Ping
    BY <1>0, <1>1, <1>3, <2>2, PingFields DEF SameLink
  <2>3. CASE Receive
    BY <1>0, <1>1, <1>3, <2>3, ReceiveFields DEF ReceiveOf, SameLink
  <2>4. CASE Connect \/ ResumeSucceeds \/ ResumeFails \/ LoginSucceeds
    BY <1>0, <1>1, <1>3, <2>4, ConnectFields, ResumeSucceedsFields, ResumeFailsFields, LoginSucceedsFields
  <2>5. CASE PingAnswered /\ cl.ping.n = cl.recv
    BY <1>0, <1>1, <1>3, <2>5, PingAnsweredFields DEF SameLink
  <2> QED BY <1>3, <2>1, <2>2, <2>3, <2>4, <2>5 DEF Client
<1> QED BY <1>2, <1>3

-----------------------------------------------------------------------------
(* Ids of requests and of credentials do not run ahead of their counters,    *)
(* and while a request has its turn its connection stays installed.          *)

IdsInv ==
    /\ session.id <= issued
    /\ \A i \in DOMAIN queue : queue[i].t = "req" => queue[i].id <= issued
    /\ turn.t = "req" => turn.c = session.c
    /\ \A c \in Conns : \A r : Has(c, r) => r <= cl.next
    /\ \A r \in Reqs : runs[r] # 0 => r <= cl.next
    /\ \A r \in cl.pending : r <= cl.next

LEMMA TurnSession == TypeInv /\ Serving /\ turn.t = "req" => session' = session
<1> SUFFICES ASSUME TypeInv, Serving, turn.t = "req" PROVE session' = session
  OBVIOUS
<1>1. turn # NoTurn
  BY DEF NoTurn
<1> QED
  BY <1>1 DEF Serving, Entity, LoginReplies, GateForwards, Disconnect, NoticeArrives, server, Push, RequestStarts,
     RequestRevoked, RequestReturns, RequestThrows, PingTurn, ClosedTurn, ResumeTurn, LoginTurn, Resumes, Binds, Unload, TakesTurn

LEMMA ServingIssues ==
    TypeInv /\ CredentialInv /\ ShapeInv /\ Serving =>
        /\ issued \in Nat /\ issued' \in Nat /\ issued <= issued'
        /\ session' = session \/ session'.c = 0 \/ Resumes \/ Binds
        /\ (session' = session \/ session'.id = 0 \/ session'.id = issued')
<1> SUFFICES ASSUME TypeInv, CredentialInv, ShapeInv, Serving
             PROVE  /\ issued \in Nat /\ issued' \in Nat /\ issued <= issued'
                    /\ session' = session \/ session'.c = 0 \/ Resumes \/ Binds
                    /\ (session' = session \/ session'.id = 0 \/ session'.id = issued')
  OBVIOUS
<1>0. issued \in Nat /\ issued <= issued /\ issued <= issued + 1 /\ NoConn.c = 0 /\ NoConn.id = 0
  BY DownTypes DEF NoConn
<1>1. CASE Calm
  BY <1>0, <1>1 DEF Calm
<1>2. CASE Resumes
  BY <1>0, <1>2 DEF Resumes
<1>3. CASE Binds
  BY <1>0, <1>3 DEF Binds
<1>4. CASE Unload
  BY <1>0, <1>4 DEF Unload
<1> QED BY <1>1, <1>2, <1>3, <1>4, ServingCalm

LEMMA IdsServes ==
    ASSUME TypeInv, CredentialInv, ShapeInv, IdsInv, Serving
    PROVE  IdsInv'
<1>0. TypeOK /\ Serves /\ cl' = cl /\ session.id \in Nat /\ NoTurn.t = "none" /\ runs \in [Reqs -> Nat]
  BY ServingServes DEF TypeInv, TypeOK, Serves, NoTurn
<1> HIDE DEF TypeOK
<1>n. /\ issued \in Nat /\ issued' \in Nat /\ issued <= issued'
      /\ session' = session \/ session'.id = 0 \/ session'.id = issued'
  BY ServingIssues
<1>1. session'.id <= issued'
  BY <1>0, <1>n DEF IdsInv
<1>2. ASSUME NEW i \in DOMAIN queue', queue'[i].t = "req" PROVE queue'[i].id <= issued'
  <2>1. ASSUME NEW j \in DOMAIN queue, queue'[i] = queue[j] PROVE queue'[i].id <= issued'
    <3>1. queue[j].id <= issued /\ queue[j].id \in Nat
      BY <1>0, <1>2, <2>1, ShapeTypes, TaskFacts DEF IdsInv
    <3> QED BY <1>n, <2>1, <3>1
  <2>2. CASE Fresh(queue'[i])
    BY <1>0, <1>n, <2>2 DEF Fresh, IdsInv
  <2> QED BY <1>2, <2>1, <2>2, QueueFresh
<1>3. ASSUME turn'.t = "req" PROVE turn'.c = session'.c
  <2>1. CASE Executes
    BY <1>3, <2>1, TurnSession DEF Executes, IdsInv
  <2>2. CASE RequestStarts
    BY <2>2, RequestStartsFields DEF RequestStartsOf
  <2>3. CASE Resumes \/ Binds \/ Unload
    <3>1. turn' = NoTurn
      BY <2>3 DEF Resumes, Binds, Unload
    <3> QED BY <1>0, <1>3, <3>1
  <2> QED BY <2>1, <2>2, <2>3, ServingExecutes
<1>4. ASSUME NEW c \in Conns, NEW r, Has(c, r)' PROVE r <= cl'.next
  BY <1>0, <1>4, HasServes DEF IdsInv
<1>5. ASSUME NEW r \in Reqs, runs'[r] # 0 PROVE r <= cl'.next
  <2>1. CASE runs' = runs
    BY <1>0, <1>5, <2>1 DEF IdsInv
  <2>2. CASE RequestStarts
    <3>1. PICK q : RequestStartsOf(q)
      BY <2>2, RequestStartsFields
    <3>2. CASE r = q.r
      <4>1. Has(q.c, r)
        BY <3>1, <3>2 DEF RequestStartsOf, Has, InQueue, Is
      <4> QED BY <1>0, <3>1, <4>1 DEF RequestStartsOf, IdsInv
    <3>3. CASE r # q.r
      BY <1>0, <1>5, <3>1, <3>3 DEF RequestStartsOf, IdsInv
    <3> QED BY <3>2, <3>3
  <2>3. CASE Executes \/ Resumes \/ Binds \/ Unload
    BY <2>1, <2>3 DEF Executes, Resumes, Binds, Unload, history
  <2> QED BY <2>2, <2>3, ServingExecutes
<1> QED BY <1>0, <1>1, <1>2, <1>3, <1>4, <1>5 DEF IdsInv

LEMMA IdsClient ==
    ASSUME TypeInv, ShapeInv, IdsInv, Client
    PROVE  IdsInv'
<1>0. /\ UNCHANGED <<session, queue, turn, issued, runs>>
      /\ cl.next \in Nat /\ cl'.next \in Nat /\ cl.next <= cl'.next
      /\ \A r \in cl'.pending : r \in cl.pending \/ (Call /\ r = cl.next + 1)
      /\ Call => cl'.next = cl.next + 1
  BY ClientServer, ClientCalls
<1>1. \A r \in Nat : r <= cl.next => r <= cl'.next
  BY <1>0
<1>2. cl.pending \subseteq Reqs /\ Reqs \subseteq Nat
  BY ClientFacts, ConnsFacts DEF TypeInv
<1>3. ASSUME NEW c \in Conns, NEW r, Has(c, r)' PROVE r <= cl'.next
  <2>0. ASSUME Has(c, r) PROVE r \in Nat
    <3>1. /\ up[c] \in Seq(Messages) /\ turn \in Turns /\ \A i \in DOMAIN queue : queue[i] \in Tasks
      BY ShapeTypes DEF TypeInv
    <3>2. \A i \in DOMAIN up[c] : up[c][i] \in Messages
      BY <3>1
    <3> QED BY <2>0, <3>1, <3>2, MessageFacts, TaskFacts, TurnFacts DEF Has, InUp, InQueue, InTurn, Is
  <2>1. CASE Has(c, r)
    BY <1>1, <2>0, <2>1 DEF IdsInv
  <2>2. CASE (Call /\ r = cl.next + 1) \/ (ResumeSucceeds /\ r \in cl.pending)
    <3>1. CASE Call /\ r = cl.next + 1
      <4>1. r = cl'.next
        BY <1>0, <3>1
      <4> QED BY <1>0, <4>1
    <3>2. CASE r \in cl.pending
      <4>1. r \in Nat /\ r <= cl.next
        BY <1>2, <3>2 DEF IdsInv
      <4> QED BY <1>1, <4>1
    <3> QED BY <2>2, <3>1, <3>2
  <2>3. InQueue(c, "req", r)' \/ InTurn(c, "req", r)' => Has(c, r)
    BY <1>0 DEF Has, InQueue, InTurn
  <2>4. InUp(c, "req", r)' => Has(c, r) \/ (Call /\ r = cl.next + 1) \/ (ResumeSucceeds /\ r \in cl.pending)
    BY InUpClient DEF Has
  <2> QED BY <1>3, <2>1, <2>2, <2>3, <2>4 DEF Has
<1>4. ASSUME NEW r \in cl'.pending PROVE r <= cl'.next
  <2>1. CASE r \in cl.pending
    BY <1>1, <1>2, <2>1 DEF IdsInv
  <2>2. CASE Call /\ r = cl.next + 1
    BY <1>0, <2>2
  <2> QED BY <1>0, <1>4, <2>1, <2>2
<1>5. \A r \in Reqs : runs[r] # 0 => r <= cl'.next
  BY <1>1, <1>2 DEF IdsInv
<1> QED BY <1>0, <1>3, <1>4, <1>5 DEF IdsInv

LEMMA IdsStep == TypeInv /\ CredentialInv /\ ShapeInv /\ IdsInv /\ [Next]_vars => IdsInv'
<1> SUFFICES ASSUME TypeInv, CredentialInv, ShapeInv, IdsInv, [Next]_vars PROVE IdsInv'
  OBVIOUS
<1>1. CASE UNCHANGED vars
  <2>1. UNCHANGED <<up, session, queue, turn, issued, cl, runs>>
    BY <1>1 DEF vars, net, server, history
  <2> QED BY <2>1 DEF IdsInv, Has, InUp, InQueue, InTurn
<1> QED BY <1>1, IdsServes, IdsClient DEF Next, Serving

LEMMA InitIds == Init => IdsInv
<1> SUFFICES ASSUME Init PROVE IdsInv
  OBVIOUS
<1>1. /\ session.id = 0 /\ issued = 0 /\ queue = << >> /\ turn.t = "none" /\ runs = [r \in Reqs |-> 0] /\ cl.pending = {}
      /\ \A c \in Conns : up[c] = << >>
  BY DEF Init, NoConn, NoTurn
<1> QED BY <1>1 DEF IdsInv, Has, InUp, InQueue, InTurn, Is


-----------------------------------------------------------------------------
(* A request is sent once to each connection and executed once.  When it has *)
(* been executed, nothing that the entity would still take can start it      *)
(* again: what waits with the credential of the connection that is           *)
(* installed, what arrives on that connection, and what the client would     *)
(* send again after a resume of this session.                               *)

Regular == mishaps \cap {"early call", "throw"} = {}

QueueSpares(r) ==
    \A i \in DOMAIN queue : ~(queue[i].t = "req" /\ queue[i].r = r /\ queue[i].c = session.c /\ queue[i].id = session.id)
WaySpares(r)   == \A c \in Conns : c = LiveConn /\ InUp(c, "req", r) => DoneIn(io, r)
ResendSpares(r) ==
    r \in cl.pending /\ io # NoIO /\ io.gen = cl.gen => DoneIn(io, r) \/ (turn.t = "req" /\ turn.r = r)

Spared(r) == QueueSpares(r) /\ WaySpares(r) /\ ResendSpares(r)

SinglesOK == \A c \in Conns : \A r \in Reqs : Single(c, "req", r)
RunsOK    == \A r \in Reqs : runs[r] <= 1 /\ (runs[r] # 0 => Spared(r))

OnceInv == Regular => SinglesOK /\ RunsOK

LEMMA RegularBefore ==
    TypeInv /\ CredentialInv /\ ShapeInv /\ (Serving \/ Client) /\ Regular' => Regular /\ ~Early /\ "throw" \notin mishaps'
<1> SUFFICES ASSUME TypeInv, CredentialInv, ShapeInv, Serving \/ Client, Regular'
             PROVE  Regular /\ ~Early /\ "throw" \notin mishaps'
  OBVIOUS
<1>1. mishaps \subseteq mishaps'
  <2>1. CASE Serving
    BY <2>1, ServingMishaps
  <2>2. CASE Client
    BY <2>2 DEF Client, Connect, Drop, Call, Ping, Receive, Takes, ResumeSucceeds, ResumeFails, LoginSucceeds,
       LoginFails, PingAnswered, history
  <2> QED BY <2>1, <2>2
<1> QED BY <1>1 DEF Regular, Early

LEMMA SparedExecutes ==
    ASSUME TypeInv, TypeInv', CredentialInv, ShapeInv, Serving, Calm, Executes, "throw" \notin mishaps',
           NEW r \in Reqs, Spared(r)
    PROVE  Spared(r)'
<1>0. /\ Serves /\ cl' = cl /\ NoConn.c = 0
      /\ \A i \in DOMAIN queue' : queue'[i].c \in Conns /\ queue'[i].c # 0
      /\ DoneIn(io, r) => DoneIn(io', r)
  <2>1. Serves /\ cl' = cl
    BY ServingServes DEF Serves
  <2>2. \A i \in DOMAIN queue' : queue'[i] \in Tasks
    <3>1. queue' \in Seq(Tasks)
      BY DEF TypeInv, TypeOK
    <3> QED BY <3>1
  <2> QED BY <2>1, <2>2, TaskFacts, ConnsFacts DEF NoConn, Executes
<1>1. session' = session \/ session'.c = 0
  BY <1>0 DEF Calm
<1>2. ASSUME NEW i \in DOMAIN queue', queue'[i].t = "req", queue'[i].r = r, queue'[i].c = session'.c, queue'[i].id = session'.id
      PROVE  FALSE
  <2>1. session' = session /\ queue'[i].c \in Conns
    BY <1>0, <1>1, <1>2
  <2>2. CASE \E j \in DOMAIN queue : queue'[i] = queue[j]
    BY <1>2, <2>1, <2>2 DEF Spared, QueueSpares
  <2>3. CASE Fresh(queue'[i])
    BY <1>2, <2>1, <2>3 DEF Fresh, Spared, WaySpares, LiveConn
  <2> QED BY <1>2, <2>2, <2>3, QueueFresh
<1>3. ASSUME NEW c \in Conns, c = session'.c, InUp(c, "req", r)' PROVE DoneIn(io', r)
  <2>1. c # 0
    BY ConnsFacts
  <2>2. InUp(c, "req", r)
    BY <1>0, <1>3, HasServes
  <2> QED BY <1>0, <1>1, <1>3, <2>1, <2>2 DEF Spared, WaySpares, LiveConn
<1>4. ASSUME r \in cl'.pending, io' # NoIO, io'.gen = cl'.gen PROVE DoneIn(io', r) \/ (turn'.t = "req" /\ turn'.r = r)
  <2>1. DoneIn(io, r) \/ (turn.t = "req" /\ turn.r = r)
    BY <1>0, <1>4 DEF Calm, Spared, ResendSpares
  <2> QED BY <1>0, <2>1 DEF Executes
<1> QED BY <1>2, <1>3, <1>4 DEF Spared, QueueSpares, WaySpares, LiveConn, ResendSpares, DoneIn

LEMMA RunsStarts ==
    ASSUME TypeInv, RequestStarts, SinglesOK, RunsOK
    PROVE  RunsOK'
<1>0. PICK q : RequestStartsOf(q)
  BY RequestStartsFields
<1>1. /\ queue \in Seq(Tasks) /\ runs \in [Reqs -> Nat] /\ q.r \in Reqs /\ q.c \in Conns /\ q.c = session.c
      /\ 1 \in DOMAIN queue /\ queue[1] = q /\ NoTurn.t = "none"
      /\ UNCHANGED <<up, session, io, cl>>
  BY <1>0 DEF RequestStartsOf, TypeInv, TypeOK, NoTurn
<1>2. \A i \in DOMAIN queue' : i + 1 \in DOMAIN queue /\ i + 1 # 1 /\ queue'[i] = queue[i + 1]
  BY <1>0, <1>1, TailAt DEF RequestStartsOf
<1>3. runs[q.r] = 0
  BY <1>0, <1>1 DEF RequestStartsOf, RunsOK, Spared, QueueSpares
<1>4. Spared(q.r)'
  <2>1. PICK c : c = q.c
    OBVIOUS
  <2>2. PICK r : r = q.r
    OBVIOUS
  <2>3. Single(c, "req", r) /\ InQueue(c, "req", r)
    BY <1>0, <1>1, <2>1, <2>2 DEF RequestStartsOf, SinglesOK, InQueue, Is
  <2>4. \A i \in DOMAIN queue' : ~(queue'[i].t = "req" /\ queue'[i].r = r /\ queue'[i].c = session'.c)
    BY <1>0, <1>1, <1>2, <2>1, <2>2, <2>3 DEF RequestStartsOf, Single, Is
  <2>5. ~InUp(c, "req", r)
    BY <2>3 DEF Single
  <2>6. turn'.t = "req" /\ turn'.r = r
    BY <1>0, <2>2 DEF RequestStartsOf
  <2>7. Spared(r)'
    BY <1>1, <2>1, <2>4, <2>5, <2>6 DEF Spared, QueueSpares, WaySpares, LiveConn, ResendSpares, InUp
  <2> QED BY <2>2, <2>7
<1>5. ASSUME NEW r \in Reqs, r # q.r, Spared(r) PROVE Spared(r)'
  <2>1. QueueSpares(r)'
    BY <1>1, <1>2, <1>5 DEF Spared, QueueSpares
  <2>2. WaySpares(r)'
    BY <1>1, <1>5 DEF Spared, WaySpares, LiveConn, InUp, DoneIn
  <2>3. ResendSpares(r)'
    BY <1>0, <1>1, <1>5 DEF RequestStartsOf, Spared, ResendSpares, DoneIn
  <2> QED BY <2>1, <2>2, <2>3 DEF Spared
<1>6. ASSUME NEW r \in Reqs PROVE runs'[r] <= 1 /\ (runs'[r] # 0 => Spared(r)')
  <2>1. CASE r = q.r
    <3>1. runs'[r] = 1
      BY <1>0, <1>1, <1>3, <2>1 DEF RequestStartsOf
    <3> QED BY <1>4, <2>1, <3>1
  <2>2. CASE r # q.r
    <3>1. runs'[r] = runs[r]
      BY <1>0, <1>1, <2>2 DEF RequestStartsOf
    <3> QED BY <1>5, <2>2, <3>1 DEF RunsOK
  <2> QED BY <2>1, <2>2
<1> QED BY <1>6 DEF RunsOK

LEMMA SparedResumes ==
    ASSUME TypeInv, CredentialInv, ShapeInv, LinkInv, IdsInv, ~Early, Resumes, NEW r \in Reqs, Spared(r)
    PROVE  Spared(r)'
<1>0. ResumesOf /\ Serves /\ Serving
  BY ResumesFields, ServingServes DEF ShapeInv, Serving, Entity
<1>1. /\ queue' = queue /\ cl' = cl /\ io # NoIO /\ io'.gen = io.gen /\ turn.t = "resume" /\ turn.id = io.nonce
      /\ io'.cache = io.cache /\ io'.minReq = io.minReq
      /\ session'.c = turn.c /\ session'.id = issued + 1 /\ issued \in Nat
  BY <1>0 DEF ResumesOf
<1>2. QueueSpares(r)'
  <2>1. ASSUME NEW i \in DOMAIN queue, queue[i].t = "req", queue[i].id = issued + 1 PROVE FALSE
    <3>1. issued + 1 <= issued
      BY <2>1 DEF IdsInv
    <3> QED BY <1>1, <3>1
  <2> QED BY <1>1, <2>1 DEF QueueSpares
<1>3. ASSUME NEW c \in Conns, c = session'.c, InUp(c, "req", r)' PROVE FALSE
  <2>1. Has(c, r)
    BY <1>0, <1>3, HasServes DEF Has
  <2>2. Way(c, "req", 0, 0)
    BY <2>1, HasWay
  <2>3. Way(c, "resume", turn.n, io.nonce)
    BY <1>1, <1>3 DEF Way, Fits
  <2> QED BY <2>2, <2>3 DEF LinkInv, SentOK
<1>4. ResendSpares(r)'
  BY <1>1 DEF Spared, ResendSpares, DoneIn
<1> QED BY <1>2, <1>3, <1>4 DEF Spared, WaySpares, LiveConn

LEMMA SparedBinds ==
    ASSUME TypeInv, CredentialInv, ShapeInv, LinkInv, IdsInv, ~Early, Binds, NEW r \in Reqs
    PROVE  Spared(r)'
<1>0. BindsOf /\ Serves /\ Serving
  BY BindsFields, ServingServes DEF Serving, Entity
<1>1. /\ queue' = queue /\ cl' = cl /\ io'.gen = issued + 1 /\ turn.t = "login"
      /\ session'.c = turn.c /\ session'.id = issued + 1 /\ issued \in Nat /\ cl.gen \in Nat /\ cl.gen <= issued
  BY <1>0, DownTypes DEF BindsOf, LinkInv, NonceOK
<1>2. QueueSpares(r)'
  <2>1. ASSUME NEW i \in DOMAIN queue, queue[i].t = "req", queue[i].id = issued + 1 PROVE FALSE
    <3>1. issued + 1 <= issued
      BY <2>1 DEF IdsInv
    <3> QED BY <1>1, <3>1
  <2> QED BY <1>1, <2>1 DEF QueueSpares
<1>3. ASSUME NEW c \in Conns, c = session'.c, InUp(c, "req", r)' PROVE FALSE
  <2>1. Has(c, r)
    BY <1>0, <1>3, HasServes DEF Has
  <2>2. Way(c, "req", 0, 0)
    BY <2>1, HasWay
  <2>3. Way(c, "login", 0, 0)
    BY <1>1, <1>3 DEF Way, Fits
  <2> QED BY <2>2, <2>3 DEF LinkInv, SentOK
<1>4. io'.gen # cl'.gen
  BY <1>1
<1> QED BY <1>2, <1>3, <1>4 DEF Spared, WaySpares, LiveConn, ResendSpares

LEMMA SparedUnload ==
    ASSUME TypeInv, Unload, NEW r \in Reqs
    PROVE  Spared(r)'
<1>1. io' = NoIO /\ session'.c = 0 /\ queue' = queue
  BY DEF Unload, NoConn
<1>2. (\A i \in DOMAIN queue : queue[i].c # 0) /\ \A c \in Conns : c # 0
  <2>1. \A i \in DOMAIN queue : queue[i] \in Tasks
    <3>1. queue \in Seq(Tasks)
      BY DEF TypeInv, TypeOK
    <3> QED BY <3>1
  <2> QED BY <2>1, TaskFacts, ConnsFacts
<1> QED BY <1>1, <1>2 DEF Spared, QueueSpares, WaySpares, LiveConn, ResendSpares

LEMMA OnceServes ==
    ASSUME TypeInv, TypeInv', CredentialInv, ShapeInv, LinkInv, IdsInv, OnceInv, Serving
    PROVE  OnceInv'
<1> SUFFICES ASSUME Regular' PROVE SinglesOK' /\ RunsOK'
  BY DEF OnceInv
<1>0. Regular /\ ~Early /\ "throw" \notin mishaps' /\ SinglesOK /\ RunsOK /\ Serves
  BY RegularBefore, ServingServes DEF OnceInv
<1>1. SinglesOK'
  BY <1>0, SingleServes DEF SinglesOK
<1>2. ASSUME runs' = runs, \A r \in Reqs : Spared(r) => Spared(r)' PROVE RunsOK'
  BY <1>0, <1>2 DEF RunsOK
<1>3. CASE Executes /\ Calm
  <2>1. runs' = runs
    BY <1>3 DEF Executes
  <2> QED BY <1>0, <1>1, <1>2, <1>3, <2>1, SparedExecutes
<1>4. CASE RequestStarts
  BY <1>0, <1>1, <1>4, RunsStarts
<1>5. CASE Resumes \/ Binds \/ Unload
  <2>1. runs' = runs
    BY <1>5 DEF Resumes, Binds, Unload, history
  <2> QED BY <1>0, <1>1, <1>2, <1>5, <2>1, SparedResumes, SparedBinds, SparedUnload
<1> QED BY <1>1, <1>3, <1>4, <1>5, ServingExecutes, ServingCalm

LEMMA SinglesClient ==
    ASSUME TypeInv, CredentialInv, ShapeInv, LinkInv, IdsInv, ~Early, SinglesOK, Client
    PROVE  SinglesOK'
<1>0. UNCHANGED <<queue, turn>> /\ cl.next \in Nat
  BY ClientServer, ClientCalls
<1>1. CASE Connect
  BY <1>1, SingleConnect DEF SinglesOK
<1>2. CASE up' = up
  BY <1>0, <1>2 DEF SinglesOK, Single, InUp, InQueue, InTurn
<1>3. ASSUME NEW ms \in Seq(Messages), Sent(ms), NEW c \in Conns, NEW r \in Reqs PROVE Single(c, "req", r)'
  <2>1. Sends(ms) /\ Single(c, "req", r)
    BY <1>3 DEF Sent, SinglesOK
  <2>2. \A i, j \in DOMAIN ms : Is(ms[i], "req", r) /\ Is(ms[j], "req", r) => i = j
    BY <1>3 DEF Sent, Is
  <2>3. ASSUME c = cl.conn, NEW i \in DOMAIN ms, Is(ms[i], "req", r) PROVE ~Has(c, r)
    <3>1. (Call /\ r = cl.next + 1) \/ ResumeSucceeds
      BY <1>3, <2>3 DEF Sent, Is
    <3>2. CASE Call /\ r = cl.next + 1
      <4>1. ~(r <= cl.next)
        BY <1>0, <3>2
      <4> QED BY <4>1 DEF IdsInv
    <3>3. CASE ResumeSucceeds
      <4>1. ~cl.online
        BY <3>3 DEF ResumeSucceeds, ShapeInv, ClientForm
      <4>2. ~Way(c, "req", 0, 0)
        BY <2>3, <4>1 DEF LinkInv, SentOK
      <4> QED BY <4>2, HasWay
    <3> QED BY <3>1, <3>2, <3>3
  <2> QED BY <1>0, <2>1, <2>2, <2>3, SingleSends DEF Has
<1> QED BY <1>1, <1>2, <1>3, ClientSends DEF SinglesOK

(* What the client sends again after a resume is done, or still has its turn *)
(* on another connection.                                                   *)
LEMMA ResentDone ==
    ASSUME TypeInv, CredentialInv, ShapeInv, LinkInv, IdsInv, ~Early, ResumeSucceeds,
           NEW r \in cl.pending, ResendSpares(r), LiveConn = cl.conn
    PROVE  DoneIn(io, r)
<1>0. cl.stage = "resume" /\ cl.answer.id # 0 /\ cl.conn # 0 /\ cl.conn \in Conns /\ ~cl.online
  BY ShapeTypes DEF ResumeSucceeds, ShapeInv, ClientForm, TypeInv
<1>1. io # NoIO
  BY <1>0 DEF CredentialInv, LiveConn
<1>2. PICK id : id = cl.answer.id /\ Grant("resume", id)
  BY <1>0 DEF Grant
<1>3. io.gen = cl.gen
  BY <1>0, <1>1, <1>2 DEF LinkInv, GrantsOK, GrantOK
<1>4. ASSUME turn.t = "req" PROVE FALSE
  <2>1. turn.c = cl.conn
    BY <1>4 DEF IdsInv, LiveConn
  <2>2. PICK c \in Conns : c = cl.conn
    BY <1>0
  <2>3. Way(c, "req", 0, 0)
    BY <1>4, <2>1, <2>2 DEF Way, Fits
  <2> QED BY <1>0, <2>2, <2>3 DEF LinkInv, SentOK
<1> QED BY <1>1, <1>3, <1>4 DEF ResendSpares

LEMMA SparedClient ==
    ASSUME TypeInv, CredentialInv, ShapeInv, LinkInv, IdsInv, ~Early, Client,
           NEW r \in Reqs, runs[r] # 0, Spared(r)
    PROVE  Spared(r)'
<1>0. /\ UNCHANGED <<session, io, queue, turn>> /\ cl.next \in Nat
      /\ \A x \in cl'.pending : x \in cl.pending \/ (Call /\ x = cl.next + 1)
      /\ cl'.gen = cl.gen \/ cl'.pending = {}
  BY ClientServer, ClientCalls
<1>1. r # cl.next + 1
  <2>1. r <= cl.next
    BY DEF IdsInv
  <2> QED BY <1>0, <2>1
<1>2. QueueSpares(r)'
  BY <1>0 DEF Spared, QueueSpares
<1>3. ASSUME NEW c \in Conns, c = LiveConn, InUp(c, "req", r)' PROVE DoneIn(io, r)
  <2>1. CASE InUp(c, "req", r)
    BY <1>3, <2>1 DEF Spared, WaySpares, LiveConn
  <2>2. CASE c = cl.conn /\ ResumeSucceeds /\ r \in cl.pending
    BY <1>3, <2>2, ResentDone DEF Spared
  <2> QED BY <1>1, <1>3, <2>1, <2>2, InUpClient
<1>4. WaySpares(r)'
  BY <1>0, <1>3 DEF WaySpares, LiveConn, DoneIn
<1>5. ResendSpares(r)'
  BY <1>0, <1>1 DEF Spared, ResendSpares, DoneIn
<1> QED BY <1>2, <1>4, <1>5 DEF Spared

LEMMA OnceStep ==
    TypeInv /\ TypeInv' /\ CredentialInv /\ ShapeInv /\ LinkInv /\ IdsInv /\ OnceInv /\ [Next]_vars => OnceInv'
<1> SUFFICES ASSUME TypeInv, TypeInv', CredentialInv, ShapeInv, LinkInv, IdsInv, OnceInv, [Next]_vars PROVE OnceInv'
  OBVIOUS
<1>1. CASE UNCHANGED vars
  <2>1. UNCHANGED <<up, session, io, queue, turn, cl, runs, mishaps>>
    BY <1>1 DEF vars, net, server, history
  <2> QED
    BY <2>1 DEF OnceInv, Regular, SinglesOK, RunsOK, Single, InUp, InQueue, InTurn, Spared, QueueSpares, WaySpares, LiveConn,
       ResendSpares, DoneIn
<1>2. CASE Client
  <2> SUFFICES ASSUME Regular' PROVE SinglesOK' /\ RunsOK'
    BY DEF OnceInv
  <2>1. ~Early /\ SinglesOK /\ RunsOK /\ runs' = runs
    BY <1>2, RegularBefore, ClientCalls DEF OnceInv
  <2>2. RunsOK'
    BY <1>2, <2>1, SparedClient DEF RunsOK
  <2> QED BY <1>2, <2>1, <2>2, SinglesClient
<1> QED BY <1>1, <1>2, OnceServes DEF Next, Serving

LEMMA InitOnce == Init => OnceInv
<1> SUFFICES ASSUME Init PROVE OnceInv
  OBVIOUS
<1>1. queue = << >> /\ turn.t = "none" /\ turn.c = 0 /\ runs = [r \in Reqs |-> 0] /\ \A c \in Conns : up[c] = << >>
  BY DEF Init, NoTurn
<1> QED BY <1>1 DEF OnceInv, SinglesOK, RunsOK, Single, InUp, InQueue, InTurn, Is

-----------------------------------------------------------------------------
(* The theorems *)

OrderedInv ==
    /\ TypeInv /\ CredentialInv /\ ShapeInv /\ LoginInv /\ LinkInv
    /\ NumberInv /\ AckInv /\ StandsInv /\ OrderInv

LEMMA InitOrdered == Init => OrderedInv
<1>1. Init => CredentialInv
  BY DEF Init, CredentialInv, NoConn, NoTurn
<1> QED BY <1>1, InitTypes, InitShape, InitLogin, InitLink, InitNumber, InitAck, InitOrder DEF OrderedInv

LEMMA OrderedStep == OrderedInv /\ [Next]_vars => OrderedInv'
<1> SUFFICES ASSUME OrderedInv, [Next]_vars PROVE OrderedInv'
  OBVIOUS
<1>1. TypeInv /\ CredentialInv /\ ShapeInv /\ LoginInv /\ LinkInv /\ NumberInv /\ AckInv /\ StandsInv /\ OrderInv
  BY DEF OrderedInv
<1>2. TypeInv'
  BY <1>1, StepTypes
<1>3. CredentialInv' /\ ShapeInv' /\ LoginInv' /\ LinkInv'
  BY <1>1, CredentialStep, ShapeStep, LoginStep, LinkStep
<1>4. NumberInv' /\ AckInv' /\ StandsInv' /\ OrderInv'
  BY <1>1, <1>2, NumberStep, AckStep, StandsStep, OrderStep
<1> QED BY <1>2, <1>3, <1>4 DEF OrderedInv

LEMMA OrderedAlways == Spec => []OrderedInv
BY InitOrdered, OrderedStep, PTL DEF Spec

(* The connection whose login or resume the client has completed last stays  *)
(* installed in the entity for as long as the gate keeps it bound: the end   *)
(* of an older connection, or an operation of one that comes late, never     *)
(* takes it away (on_conn_closed, bind and resume in session.lua).           *)
THEOREM LiveConnKeptAlways == Spec => []LiveConnKept
<1>1. OrderedInv => LiveConnKept
  BY LinkKept DEF OrderedInv
<1> QED BY <1>1, OrderedAlways, PTL

(* A ping, or the count that a resume names, acknowledges only packages that *)
(* the client has taken: what has left the replay buffer of a session that   *)
(* can still be resumed is not missed (cmds.ping, process_ack and            *)
(* record_and_send in session.lua).                                          *)
THEOREM NothingTrimmedUnseenAlways == Spec => []NothingTrimmedUnseen
<1>1. OrderedInv => NothingTrimmedUnseen
  BY AckTrims DEF OrderedInv
<1> QED BY <1>1, OrderedAlways, PTL

(* Over all connections of a session, however often it is resumed, the       *)
(* client takes its packages one after the other, without a gap and none     *)
(* twice (replay and resume in session.lua, handle in sdk/ts/src/session.ts): *)
(* unless the buffer overflows while a resume waits for the gate, the        *)
(* application calls during the handshake, or a package of a session arrives *)
(* before the client has seen the login that opened it.                      *)
THEOREM InOrderAlways == Spec => []InOrder
<1>1. OrderedInv => InOrder
  BY OrderHolds DEF OrderedInv
<1> QED BY <1>1, OrderedAlways, PTL

(* Under the same conditions the number of packages that a client online     *)
(* counts is that of the last one that it took, so what it reports in pings  *)
(* and resumes is what it has (handle and resume in sdk/ts/src/session.ts).  *)
THEOREM CountsAgreeAlways == Spec => []CountsAgree
<1>1. OrderedInv => CountsAgree
  BY OrderHolds DEF OrderedInv
<1> QED BY <1>1, OrderedAlways, PTL

(* With the ids of requests, and what has become of those executed.          *)
OnceAllInv == OrderedInv /\ IdsInv /\ OnceInv

LEMMA OnceAllStep == OnceAllInv /\ [Next]_vars => OnceAllInv'
<1> SUFFICES ASSUME OnceAllInv, [Next]_vars PROVE OnceAllInv'
  OBVIOUS
<1>1. OrderedInv'
  BY OrderedStep DEF OnceAllInv
<1> QED BY <1>1, IdsStep, OnceStep DEF OnceAllInv, OrderedInv

LEMMA OnceAlways == Spec => []OnceAllInv
<1>1. Init => OnceAllInv
  BY InitOrdered, InitIds, InitOnce DEF OnceAllInv
<1> QED BY <1>1, OnceAllStep, PTL DEF Spec

(* However often a request is sent, over however many connections, it is     *)
(* executed once, unless its handler throws or the application calls while   *)
(* login or resume is under way (with_request and cache_response in          *)
(* lualib/skyext/entity/session.lua, resendPending in                        *)
(* sdk/ts/src/session.ts).                                                   *)
THEOREM AtMostOnceAlways == Spec => []AtMostOnce
<1>1. OnceAllInv => AtMostOnce
  BY DEF OnceAllInv, OnceInv, Regular, RunsOK, AtMostOnce
<1> QED BY <1>1, OnceAlways, PTL
=============================================================================
