--------------------------- MODULE SessionProofs ---------------------------
(***************************************************************************)
(* Proofs about Session for any buffer, cache and bounds: what is known of  *)
(* the types, the replay buffer, credentials, and dead connections.         *)
(***************************************************************************)
EXTENDS Session, FiniteSetTheorems, TLAPS

(* The buffer of s covers what is not acknowledged. *)
Covers(s) == s.acked <= s.sent /\ {p.seq : p \in s.out} = (s.acked + 1) .. s.sent

(* A connection, a request that is executed and a resume that is under way   *)
(* have a session; its credential has resumed nothing yet, and does not      *)
(* change before the resume is done.                                         *)
CredentialInv ==
    /\ used \subseteq 1 .. issued
    /\ io # NoIO => io.nonce \in 1 .. issued /\ io.nonce \notin used
    /\ session.c # 0 \/ turn.t \in {"req", "resume"} => io # NoIO
    /\ turn.t = "resume" => turn.id = io.nonce

(* Somebody will tell the entity that connection c is closed, or it is not. *)
Accounted(c) ==
    \/ gate[c] = "bound" \/ c \in notices \/ "overtaken" \in mishaps
    \/ \E i \in DOMAIN queue : queue[i].t = "closed" /\ queue[i].c = c

ConnInv ==
    /\ session.c # 0 => Accounted(session.c)
    /\ turn.pc = "bound" => Accounted(turn.c)
    /\ \A c \in Conns : c > cl.opened => gate[c] = "none"

USE SessionAssumption

-----------------------------------------------------------------------------
(* What the operators on session_io keep. *)

LEMMA CountedKeeps ==
    ASSUME NEW s \in IOs, NEW r \in Nat, Covers(s)
    PROVE  /\ Counted(s, r) \in IOs /\ Covers(Counted(s, r)) /\ Counted(s, r).nonce = s.nonce
<1> DEFINE p == Pack(s.gen, s.sent + 1, r)
           t == [s EXCEPT !.sent = s.sent + 1, !.out = @ \cup {p}]
<1>1. s.sent \in Nat /\ s.acked \in Nat /\ s.gen \in Nat /\ s.out \subseteq Answer
  BY DEF IOs
<1>2. p \in Answer /\ p.seq = s.sent + 1
  BY <1>1 DEF Pack, Answer
<1>3. t \in IOs /\ t.sent = s.sent + 1 /\ t.out = s.out \cup {p} /\ t.acked = s.acked /\ t.nonce = s.nonce
  <2>1. s.sent + 1 \in Nat /\ s.out \cup {p} \in SUBSET Answer
    BY <1>1, <1>2
  <2> HIDE DEF p
  <2> QED
    BY <2>1 DEF IOs
<1>4. {q.seq : q \in t.out} = (t.acked + 1) .. t.sent
  <2>1. {q.seq : q \in t.out} = {q.seq : q \in s.out} \cup {p.seq}
    BY <1>3
  <2> QED
    BY <2>1, <1>1, <1>2, <1>3 DEF Covers
<1>5. Covers(t)
  BY <1>1, <1>3, <1>4 DEF Covers
<1>6. /\ DropReplay(t) \in IOs /\ DropReplay(t).acked = t.sent /\ DropReplay(t).sent = t.sent
      /\ DropReplay(t).out = {} /\ DropReplay(t).nonce = s.nonce
  BY <1>1, <1>3 DEF DropReplay, IOs
<1>7. Covers(DropReplay(t))
  BY <1>1, <1>3, <1>6 DEF Covers
<1> QED
  BY <1>3, <1>5, <1>6, <1>7 DEF Counted

LEMMA AckedKeeps ==
    ASSUME NEW s \in IOs, NEW recv \in Nat, Covers(s)
    PROVE  /\ Acked(s, recv) \in IOs /\ Covers(Acked(s, recv)) /\ Acked(s, recv).nonce = s.nonce
<1>1. s.sent \in Nat /\ s.acked \in Nat /\ s.out \subseteq Answer
  BY DEF IOs
<1>2. CASE recv < s.acked \/ recv > s.sent
  <2>1. Acked(s, recv) = [s EXCEPT !.unresumable = TRUE]
    BY <1>2 DEF Acked
  <2> QED
    BY <2>1 DEF IOs, Covers
<1>3. CASE recv >= s.acked /\ recv <= s.sent
  <2> DEFINE t == [s EXCEPT !.acked = recv, !.out = {p \in @ : p.seq > recv}]
  <2>1. Acked(s, recv) = t
    BY <1>1, <1>3 DEF Acked
  <2>2. /\ t \in IOs /\ t.acked = recv /\ t.out = {p \in s.out : p.seq > recv} /\ t.sent = s.sent
        /\ t.nonce = s.nonce
    BY <1>1 DEF IOs
  <2>3. {p.seq : p \in {q \in s.out : q.seq > recv}} = {k \in {p.seq : p \in s.out} : k > recv}
    OBVIOUS
  <2>4. {k \in (s.acked + 1) .. s.sent : k > recv} = (recv + 1) .. s.sent
    BY <1>1, <1>3
  <2> QED
    BY <1>3, <2>1, <2>2, <2>3, <2>4 DEF Covers
<1> QED
  BY <1>1, <1>2, <1>3

LEMMA CachedKeeps ==
    ASSUME NEW s \in IOs, NEW r \in Reqs, Covers(s)
    PROVE  /\ Cached(s, r) \in IOs /\ Covers(Cached(s, r)) /\ Cached(s, r).nonce = s.nonce
<1>1. s.cache \in Seq(Reqs) /\ s.minReq \in Nat
  BY DEF IOs
<1>2. CASE Len(s.cache) = CacheSize
  <2>1. Head(s.cache) \in Reqs /\ Tail(s.cache) \in Seq(Reqs)
    BY <1>1, <1>2
  <2>2. Append(Tail(s.cache), r) \in Seq(Reqs) /\ Head(s.cache) + 1 \in Nat
    BY <2>1 DEF Reqs
  <2> DEFINE k == IF Head(s.cache) >= s.minReq THEN Head(s.cache) + 1 ELSE s.minReq
             t == [s EXCEPT !.cache = Append(Tail(s.cache), r), !.minReq = k]
  <2>3. k \in Nat
    BY <1>1, <2>2
  <2>4. Cached(s, r) = t
    BY <1>2 DEF Cached
  <2> HIDE DEF k
  <2> QED
    BY <2>2, <2>3, <2>4 DEF IOs, Covers
<1>3. CASE Len(s.cache) # CacheSize
  <2>1. Cached(s, r) = [s EXCEPT !.cache = Append(s.cache, r)] /\ Append(s.cache, r) \in Seq(Reqs)
    BY <1>1, <1>3 DEF Cached
  <2> QED
    BY <2>1 DEF IOs, Covers
<1> QED
  BY <1>2, <1>3

LEMMA RotatedKeeps ==
    ASSUME NEW s \in IOs, issued \in Nat, Covers(s)
    PROVE  /\ Rotated(s) \in IOs /\ Covers(Rotated(s)) /\ Rotated(s).nonce = issued + 1
<1>1. Rotated(s) = [s EXCEPT !.nonce = issued + 1] /\ issued + 1 \in Nat
  BY DEF Rotated
<1> QED
  BY <1>1 DEF IOs, Covers

LEMMA ReplayType ==
    ASSUME NEW s \in IOs, Covers(s)
    PROVE  Replay(s) \in Seq(Answer)
<1>1. s.sent \in Nat /\ s.acked \in Nat /\ s.out \subseteq Answer /\ s.sent - s.acked \in Nat
  BY DEF IOs, Covers
<1>2. ASSUME NEW i \in 1 .. (s.sent - s.acked)
      PROVE  (CHOOSE p \in s.out : p.seq = s.acked + i) \in Answer
  <2>1. s.acked + i \in (s.acked + 1) .. s.sent
    BY <1>1
  <2>2. s.acked + i \in {p.seq : p \in s.out}
    BY <2>1 DEF Covers
  <2>3. \E p \in s.out : p.seq = s.acked + i
    BY <2>2
  <2> QED
    BY <2>3, <1>1
<1> DEFINE n == s.sent - s.acked
           e(i) == CHOOSE p \in s.out : p.seq = s.acked + i
<1>3. \A i \in 1 .. n : e(i) \in Answer
  BY <1>2
<1> HIDE DEF e
<1>4. [i \in 1 .. n |-> e(i)] \in Seq(Answer)
  BY <1>1, <1>3
<1> QED
  BY <1>4 DEF Replay, e

-----------------------------------------------------------------------------
(* What the operators on the variables keep. *)

LEMMA Answers1 ==
    ASSUME NEW k \in Nat, NEW r \in Nat, NEW g \in Nat, NEW t \in {"login", "resume"}
    PROVE  /\ Pack(g, k, r) \in Answer /\ Pong(k, r) \in Answer /\ Stray(r) \in Answer
           /\ Granted(t, k) \in Answer
BY DEF Pack, Pong, Stray, Granted, Answer

LEMMA Joined ==
    ASSUME NEW S, NEW s \in Seq(S), NEW t \in Seq(S), NEW x \in S
    PROVE  s \o t \in Seq(S) /\ Append(s, x) \in Seq(S) /\ <<x>> \in Seq(S) /\ << >> \in Seq(S)
OBVIOUS

LEMMA Taken1 ==
    ASSUME NEW S, NEW s \in Seq(S), s # << >>
    PROVE  Head(s) \in S /\ Tail(s) \in Seq(S)
OBVIOUS

LEMMA ToClientKeeps ==
    ASSUME down \in Seq(Answer), NEW ms \in Seq(Answer), NEW c, ToClient(c, ms)
    PROVE  down' \in Seq(Answer)
BY Joined DEF ToClient

(* io stays, or goes on with the same credential. *)
SameSession == io' = io \/ (io # NoIO /\ io'.nonce = io.nonce)

Mishaps == {"overflow", "overtaken", "early push", "early call", "throw"}

LEMMA SentKeeps ==
    ASSUME NEW s \in IOs, NEW r \in Nat, Covers(s), down \in Seq(Answer), NEW c,
           io' = Counted(s, r), ToClient(c, <<Pack(s.gen, s.sent + 1, r)>>)
    PROVE  io' \in IOs /\ Covers(io') /\ io'.nonce = s.nonce /\ down' \in Seq(Answer)
<1>1. s.gen \in Nat /\ s.sent + 1 \in Nat
  BY DEF IOs
<1>2. <<Pack(s.gen, s.sent + 1, r)>> \in Seq(Answer)
  BY <1>1, Answers1, Joined
<1>3. io' \in IOs /\ io'.nonce = s.nonce /\ Covers(Counted(s, r))
  BY CountedKeeps
<1> QED
  BY <1>2, <1>3, ToClientKeeps

LEMMA RecordKeeps ==
    ASSUME TypeOK, NEW s \in IOs, NEW r \in Nat, Covers(s), RecordAndSend(s, r)
    PROVE  /\ io' \in IOs /\ Covers(io') /\ io'.nonce = s.nonce /\ down' \in Seq(Answer)
           /\ mishaps \subseteq mishaps' /\ mishaps' \subseteq Mishaps
BY SentKeeps DEF RecordAndSend, TypeOK, Mishaps

LEMMA KickKeeps ==
    ASSUME TypeOK, NEW c, Kick(c)
    PROVE  /\ gate' \in [Conns -> {"none", "open", "bound", "closed"}]
           /\ up' \in [Conns -> Seq(Messages)] /\ notices' \subseteq Conns
           /\ \A d \in Conns : gate[d] = "bound" => gate'[d] = "bound" \/ d \in notices'
           /\ \A d \in Conns : gate[d] = "none" => gate'[d] = "none"
           /\ notices \subseteq notices'
<1> DEFINE K == Kicked(c)
<1>1. K \subseteq Conns /\ \A d \in K : gate[d] # "none"
  BY DEF Kicked, Known
<1> HIDE DEF K
<1>2. << >> \in Seq(Messages)
  OBVIOUS
<1>3. /\ gate' = [d \in Conns |-> IF d \in K THEN "closed" ELSE gate[d]]
      /\ up' = [d \in Conns |-> IF d \in K THEN << >> ELSE up[d]]
      /\ notices' = notices \cup {d \in K : gate[d] = "bound"}
  BY DEF Kick, Forgets, ClosedGate, K
<1>4. /\ gate \in [Conns -> {"none", "open", "bound", "closed"}]
      /\ up \in [Conns -> Seq(Messages)] /\ notices \subseteq Conns
  BY DEF TypeOK
<1>5. up' \in [Conns -> Seq(Messages)]
  BY <1>2, <1>3, <1>4
<1> QED
  BY <1>1, <1>3, <1>4, <1>5

LEMMA ConnsFacts == Conns \subseteq Nat \ {0} /\ Reqs \subseteq Nat \ {0} /\ LoginId \in Nat
BY DEF Conns, Reqs, LoginId

LEMMA MessageFacts ==
    ASSUME NEW m \in Messages
    PROVE  /\ m.t \in {"req", "ping", "login", "resume"} /\ m.r \in Nat /\ m.n \in Nat /\ m.id \in Nat
           /\ m.t \in {"req", "ping"} => m.r \in Reqs
BY ConnsFacts DEF Messages

LEMMA TaskFacts ==
    ASSUME NEW q \in Tasks
    PROVE  /\ q.t \in {"req", "ping", "login", "resume", "closed"} /\ q.r \in Nat /\ q.n \in Nat
           /\ q.id \in Nat /\ q.c \in Conns
           /\ q.t \in {"req", "ping"} => q.r \in Reqs
BY ConnsFacts DEF Tasks

LEMMA TaskOf ==
    ASSUME NEW m \in Messages, NEW c \in Conns, NEW i \in Nat
    PROVE  /\ Task(m.t, c, m) \in Tasks /\ Task(m.t, c, [m EXCEPT !.id = i]) \in Tasks
           /\ Task("closed", c, Message("closed", 0, 0, 0)) \in Tasks
<1>1. Task("closed", c, Message("closed", 0, 0, 0)) \in Tasks
  BY DEF Task, Message, Tasks
<1>2. [m EXCEPT !.id = i] \in Messages /\ [m EXCEPT !.id = i].t = m.t
  BY DEF Messages
<1>3. ASSUME NEW k \in Messages
      PROVE  Task(k.t, c, k) \in Tasks
  BY MessageFacts DEF Task, Tasks
<1> QED
  BY <1>1, <1>2, <1>3

LEMMA TurnFacts ==
    ASSUME NEW q \in Turns
    PROVE  /\ q # NoTurn => q.c \in Conns
           /\ q.r \in Nat /\ q.n \in Nat /\ q.id \in Nat
           /\ q.t = "req" => q.r \in Reqs /\ q.pc = "handler"
           /\ q.t \in {"login", "resume"} => q.pc = "bound" /\ q.c \in Conns
           /\ q.t \in {"none", "req", "login", "resume"}
           /\ q.pc = "bound" => q.c \in Conns /\ q.t \in {"login", "resume"}
<1>1. CASE q = NoTurn
  BY <1>1 DEF NoTurn
<1>2. CASE q \in [t : {"req"}, r : Reqs, n : Nat, id : Nat, c : Conns, pc : {"handler"}]
  BY <1>2, ConnsFacts DEF NoTurn
<1>3. CASE q \in [t : {"login", "resume"}, r : Nat, n : Nat, id : Nat, c : Conns, pc : {"bound"}]
  BY <1>3, ConnsFacts DEF NoTurn
<1> QED
  BY <1>1, <1>2, <1>3 DEF Turns

LEMMA TurnOf ==
    ASSUME NEW q \in Tasks
    PROVE  /\ NoTurn \in Turns
           /\ q.t = "req" => [q EXCEPT !.pc = "handler"] \in Turns
           /\ q.t \in {"login", "resume"} => [q EXCEPT !.pc = "bound"] \in Turns
           /\ [q EXCEPT !.pc = "handler"].t = q.t /\ [q EXCEPT !.pc = "handler"].pc = "handler"
           /\ [q EXCEPT !.pc = "bound"].t = q.t /\ [q EXCEPT !.pc = "bound"].id = q.id
           /\ [q EXCEPT !.pc = "bound"].c = q.c
BY DEF Tasks, Turns

LEMMA TakesFacts ==
    ASSUME TypeOK, NEW t, TakesTurn(t)
    PROVE  /\ Next1 \in Tasks /\ Next1.t = t /\ queue' \in Seq(Tasks)
           /\ turn = NoTurn
BY Taken1 DEF TakesTurn, Next1, TypeOK

-----------------------------------------------------------------------------
(* Type correctness, and what the buffer covers. *)

TypeInv == TypeOK /\ Covers(io)

LEMMA InitTypes == Init => TypeInv
<1> SUFFICES ASSUME Init PROVE TypeInv
  OBVIOUS
<1>1. NoIO \in IOs /\ Covers(NoIO)
  BY DEF NoIO, IOs, Covers
<1>2. NoConn \in [c : 0 .. MaxConn, id : Nat] /\ NoTurn \in Turns /\ NoIO.nonce = 0
  BY DEF NoConn, Turns, NoIO
<1>3. cl \in Clients
  BY DEF Init, Clients, NoAnswer, NoPing
<1>4. << >> \in Seq(Messages) /\ << >> \in Seq(Answer) /\ << >> \in Seq(Tasks)
  OBVIOUS
<1> QED
  BY <1>1, <1>2, <1>3, <1>4 DEF Init, TypeInv, TypeOK

LEMMA PushTypes == TypeInv /\ Push => TypeInv'
<1> SUFFICES ASSUME TypeInv, Push PROVE TypeInv'
  OBVIOUS
<1> DEFINE s == [io EXCEPT !.pushed = @ + 1]
<1>1. s \in IOs /\ Covers(s) /\ s.nonce = io.nonce
  <2>1. io \in IOs /\ Covers(io)
    BY DEF TypeInv, TypeOK
  <2>2. io.pushed \in 0 .. MaxSent /\ io.pushed < MaxSent
    BY <2>1 DEF Push, IOs
  <2>3. io.pushed + 1 \in 0 .. MaxSent
    BY <2>2
  <2> QED
    BY <2>1, <2>3 DEF IOs, Covers
<1> HIDE DEF s
<1>2. RecordAndSend(s, 0)
  BY DEF Push, s
<1> QED
  BY <1>1, <1>2, RecordKeeps DEF Push, TypeInv, TypeOK, Mishaps, net

LEMMA RequestTypes ==
    TypeInv /\ (RequestStarts \/ RequestRevoked \/ RequestReturns \/ RequestThrows) => TypeInv'
<1> SUFFICES ASSUME TypeInv PROVE RequestStarts \/ RequestRevoked \/ RequestReturns \/ RequestThrows => TypeInv'
  OBVIOUS
<1>0. io \in IOs /\ Covers(io) /\ down \in Seq(Answer)
  BY DEF TypeInv, TypeOK
<1>1. ASSUME RequestStarts PROVE TypeInv'
  <2>1. Next1 \in Tasks /\ Next1.t = "req" /\ queue' \in Seq(Tasks)
    BY <1>1, TakesFacts DEF RequestStarts, TypeInv
  <2>2. turn' \in Turns /\ Next1.r \in Reqs
    BY <1>1, <2>1, TurnOf, TaskFacts DEF RequestStarts
  <2>3. runs' \in [Reqs -> Nat]
    <3>1. runs \in [Reqs -> Nat] /\ runs' = [runs EXCEPT ![Next1.r] = @ + 1]
      BY <1>1 DEF RequestStarts, TypeInv, TypeOK
    <3> QED
      BY <2>2, <3>1
  <2> QED
    BY <1>1, <2>1, <2>2, <2>3 DEF RequestStarts, TypeInv, TypeOK, net
<1>2. ASSUME RequestRevoked PROVE TypeInv'
  <2>1. Next1 \in Tasks /\ queue' \in Seq(Tasks)
    BY <1>2, TakesFacts DEF RequestRevoked, TypeInv
  <2>2. Next1.r \in Nat
    BY <2>1, TaskFacts
  <2>3. CASE LiveConn # Next1.c
    BY <1>2, <2>1, <2>3 DEF RequestRevoked, TypeInv, TypeOK
  <2>4. CASE LiveConn = Next1.c /\ Next1.t = "req"
    <3>1. RecordAndSend(io, Next1.r) /\ UNCHANGED <<gate, up, notices>>
      BY <1>2, <2>4 DEF RequestRevoked
    <3> QED
      BY <1>0, <1>2, <2>1, <2>2, <3>1, RecordKeeps DEF RequestRevoked, TypeInv, TypeOK, Mishaps
  <2>5. CASE LiveConn = Next1.c /\ Next1.t # "req"
    <3>1. Kick(Next1.c) /\ UNCHANGED <<down, io, mishaps>>
      BY <1>2, <2>5 DEF RequestRevoked
    <3> QED
      BY <1>2, <2>1, <3>1, KickKeeps DEF RequestRevoked, TypeInv, TypeOK
  <2> QED
    BY <2>3, <2>4, <2>5
<1>3. ASSUME RequestReturns PROVE TypeInv'
  <2>1. turn.r \in Reqs /\ turn.r \in Nat
    BY <1>3, TurnFacts DEF RequestReturns, TypeInv, TypeOK
  <2>2. Cached(io, turn.r) \in IOs /\ Covers(Cached(io, turn.r)) /\ Cached(io, turn.r).nonce = io.nonce
    BY <1>0, <2>1, CachedKeeps
  <2>3. NoTurn \in Turns
    BY DEF Turns
  <2>4. RecordAndSend(Cached(io, turn.r), turn.r) /\ turn' = NoTurn /\ UNCHANGED <<net, session, queue, issued, cl, taken, runs, used>>
    BY <1>3 DEF RequestReturns
  <2> QED
    BY <2>1, <2>2, <2>3, <2>4, RecordKeeps DEF TypeInv, TypeOK, Mishaps, net
<1>4. ASSUME RequestThrows PROVE TypeInv'
  <2>1. turn.r \in Nat /\ NoTurn \in Turns
    BY <1>4, TurnFacts DEF RequestThrows, TypeInv, TypeOK, Turns
  <2>2. io' \in IOs /\ Covers(io') /\ io'.nonce = io.nonce /\ down' \in Seq(Answer)
    BY <1>0, <1>4, <2>1, SentKeeps DEF RequestThrows
  <2> QED
    BY <1>4, <2>1, <2>2 DEF RequestThrows, TypeInv, TypeOK, net
<1> QED
  BY <1>1, <1>2, <1>3, <1>4

LEMMA PingTypes == TypeInv /\ PingTurn => TypeInv'
<1> SUFFICES ASSUME TypeInv, PingTurn PROVE TypeInv'
  OBVIOUS
<1>0. io \in IOs /\ Covers(io) /\ down \in Seq(Answer) /\ io.sent \in Nat
  BY DEF TypeInv, TypeOK, IOs
<1>1. Next1 \in Tasks /\ Next1.t = "ping" /\ queue' \in Seq(Tasks)
  BY TakesFacts DEF PingTurn, TypeInv
<1>2. Next1.n \in Nat /\ Next1.r \in Reqs /\ Next1.r \in Nat
  BY <1>1, TaskFacts
<1>3. Acked(io, Next1.n) \in IOs /\ Covers(Acked(io, Next1.n)) /\ Acked(io, Next1.n).nonce = io.nonce
  BY <1>0, <1>2, AckedKeeps
<1>4. io' \in IOs /\ Covers(io') /\ io'.nonce = io.nonce
  BY <1>2, <1>3, CachedKeeps DEF PingTurn
<1>5. <<Pong(io.sent, Next1.r)>> \in Seq(Answer)
  BY <1>0, <1>2, Answers1, Joined
<1>6. down' \in Seq(Answer)
  BY <1>0, <1>5, ToClientKeeps DEF PingTurn
<1> QED
  BY <1>1, <1>4, <1>6 DEF PingTurn, TypeInv, TypeOK, net, history

LEMMA Unbound ==
    ASSUME TypeOK, NEW c, Unbind(c)
    PROVE  session' \in [c : 0 .. MaxConn, id : Nat]
<1>1. NoConn \in [c : 0 .. MaxConn, id : Nat]
  BY DEF NoConn
<1> QED
  BY <1>1 DEF Unbind, TypeOK

LEMMA ClosedTypes == TypeInv /\ ClosedTurn => TypeInv'
<1> SUFFICES ASSUME TypeInv, ClosedTurn PROVE TypeInv'
  OBVIOUS
<1>1. queue' \in Seq(Tasks)
  BY TakesFacts DEF ClosedTurn, TypeInv
<1>2. session' \in [c : 0 .. MaxConn, id : Nat]
  BY Unbound DEF ClosedTurn, TypeInv
<1> QED
  BY <1>1, <1>2 DEF ClosedTurn, TypeInv, TypeOK, net, history

LEMMA NoticeTypes == ASSUME TypeInv, NEW c \in Conns, NoticeArrives(c) PROVE TypeInv'
<1>1. CASE LiveConn = c
  <2>1. Task("closed", c, Message("closed", 0, 0, 0)) \in Tasks
    BY DEF Task, Message, Tasks
  <2>2. queue' \in Seq(Tasks)
    <3>1. queue \in Seq(Tasks) /\ queue' = Append(queue, Task("closed", c, Message("closed", 0, 0, 0)))
      BY <1>1 DEF NoticeArrives, Queue, TypeInv, TypeOK
    <3> QED
      BY <2>1, <3>1
  <2> QED
    BY <1>1, <2>2 DEF NoticeArrives, TypeInv, TypeOK
<1>2. CASE LiveConn # c
  BY <1>2 DEF NoticeArrives, TypeInv, TypeOK
<1> QED
  BY <1>1, <1>2

LEMMA ForwardTypes == ASSUME TypeInv, NEW c \in Conns, GateForwards(c) PROVE TypeInv'
<1> DEFINE m == Head(up[c])
<1>0. /\ io \in IOs /\ Covers(io) /\ down \in Seq(Answer) /\ up \in [Conns -> Seq(Messages)]
      /\ queue \in Seq(Tasks) /\ session.id \in Nat /\ mishaps \subseteq Mishaps
  BY DEF TypeInv, TypeOK, Mishaps
<1>1. m \in Messages /\ Tail(up[c]) \in Seq(Messages)
  <2>1. up[c] \in Seq(Messages) /\ up[c] # << >>
    BY <1>0 DEF GateForwards
  <2> QED
    BY <2>1
<1>2. up' \in [Conns -> Seq(Messages)]
  BY <1>0, <1>1 DEF GateForwards
<1> HIDE DEF m
<1>3. m.r \in Nat /\ Task(m.t, c, m) \in Tasks /\ Task(m.t, c, [m EXCEPT !.id = session.id]) \in Tasks
  BY <1>0, <1>1, MessageFacts, TaskOf
<1>4. /\ io' \in IOs /\ Covers(io') /\ io'.nonce = io.nonce /\ down' \in Seq(Answer)
      /\ queue' \in Seq(Tasks) /\ mishaps' \subseteq Mishaps
  <2>1. CASE EntityReceives(c, m)
    <3>1. CASE UNCHANGED <<down, io, queue, mishaps>>
      BY <1>0, <3>1
    <3>2. CASE RecordAndSend(io, m.r) /\ UNCHANGED queue
      BY <1>0, <1>3, <3>2, RecordKeeps DEF TypeInv
    <3>3. CASE Queue(Task(m.t, c, [m EXCEPT !.id = session.id])) /\ UNCHANGED <<down, io, mishaps>>
      BY <1>0, <1>3, <3>3 DEF Queue
    <3> QED
      BY <2>1, <3>1, <3>2, <3>3 DEF EntityReceives
  <2>2. CASE LoginReceives(c, m)
    <3>1. CASE Queue(Task(m.t, c, m)) /\ UNCHANGED <<down, io, mishaps>>
      BY <1>0, <1>3, <3>1 DEF Queue
    <3>2. CASE /\ ToClient(c, <<IF m.t = "ping" THEN Pong(0, m.r) ELSE Stray(m.r)>>)
               /\ UNCHANGED <<queue, io, mishaps>>
      <4>1. <<IF m.t = "ping" THEN Pong(0, m.r) ELSE Stray(m.r)>> \in Seq(Answer)
        <5>1. Pong(0, m.r) \in Answer /\ Stray(m.r) \in Answer
          BY <1>3 DEF Pong, Stray, Answer
        <5> QED
          BY <5>1
      <4> QED
        BY <1>0, <3>2, <4>1, ToClientKeeps
    <3> QED
      BY <2>2, <3>1, <3>2 DEF LoginReceives
  <2> QED
    BY <2>1, <2>2 DEF GateForwards, m
<1> QED
  BY <1>2, <1>4 DEF GateForwards, TypeInv, TypeOK, Mishaps

LEMMA DisconnectTypes == ASSUME TypeInv, NEW c \in Conns, Disconnect(c) PROVE TypeInv'
BY KickKeeps DEF Disconnect, TypeInv, TypeOK, server, history

LEMMA LoginRepliesTypes == TypeInv /\ LoginReplies => TypeInv'
<1> SUFFICES ASSUME TypeInv, LoginReplies PROVE TypeInv'
  OBVIOUS
<1>1. reply \in Seq(Answer) /\ reply # << >> /\ down \in Seq(Answer)
  BY DEF LoginReplies, TypeInv, TypeOK
<1>2. Head(reply) \in Answer /\ reply' \in Seq(Answer) /\ <<Head(reply)>> \in Seq(Answer)
  BY <1>1 DEF LoginReplies
<1>3. down' \in Seq(Answer)
  BY <1>1, <1>2, ToClientKeeps DEF LoginReplies
<1> QED
  BY <1>2, <1>3 DEF LoginReplies, TypeInv, TypeOK, server, history

LEMMA AnswersKeeps ==
    ASSUME TypeOK, NEW t \in {"login", "resume"}, NEW c, NEW id \in Nat, Answers(t, c, id)
    PROVE  reply' \in Seq(Answer)
<1>1. Granted(t, id) \in Answer /\ reply \in Seq(Answer)
  BY DEF Granted, Answer, TypeOK
<1> QED
  BY <1>1 DEF Answers

LEMMA CallsBindKeeps ==
    ASSUME TypeOK, NEW q \in Tasks, q.t \in {"login", "resume"}, turn = NoTurn,
           NEW K \in SUBSET {d \in Conns : Known(d)}, CallsBind(q, K)
    PROVE  /\ gate' \in [Conns -> {"none", "open", "bound", "closed"}]
           /\ up' \in [Conns -> Seq(Messages)] /\ notices' \subseteq Conns
           /\ reply' \in Seq(Answer) /\ turn' \in Turns
           /\ \A d \in Conns : gate[d] = "bound" => gate'[d] = "bound" \/ d \in notices'
           /\ \A d \in Conns : gate[d] = "none" => gate'[d] = "none"
           /\ notices \subseteq notices'
           /\ \/ turn' = turn
              \/ turn' = [q EXCEPT !.pc = "bound"] /\ gate'[q.c] = "bound"
<1>1. /\ gate \in [Conns -> {"none", "open", "bound", "closed"}]
      /\ up \in [Conns -> Seq(Messages)] /\ notices \subseteq Conns
      /\ reply \in Seq(Answer) /\ turn \in Turns /\ q.c \in Conns
  BY TaskFacts DEF TypeOK
<1>2. /\ up' = [d \in Conns |-> IF d \in K THEN << >> ELSE up[d]]
      /\ notices' = notices \cup {d \in K : gate[d] = "bound"}
  BY DEF CallsBind, Forgets
<1>3. up' \in [Conns -> Seq(Messages)] /\ notices' \subseteq Conns
  <2>1. << >> \in Seq(Messages)
    OBVIOUS
  <2> QED
    BY <1>1, <1>2, <2>1
<1>4. CASE Known(q.c)
  <2>1. /\ gate' = [[d \in Conns |-> IF d \in K THEN "closed" ELSE gate[d]] EXCEPT ![q.c] = "bound"]
        /\ turn' = [q EXCEPT !.pc = "bound"] /\ reply' = reply
    BY <1>4 DEF CallsBind, ClosedGate
  <2>2. turn' \in Turns
    BY <2>1, TurnOf
  <2>3. \A d \in Conns : gate[d] = "none" => gate'[d] = "none"
    BY <1>1, <1>4, <2>1 DEF Known
  <2>4. \A d \in Conns : gate[d] = "bound" => gate'[d] = "bound" \/ d \in notices'
    BY <1>1, <1>2, <2>1
  <2> QED
    BY <1>1, <1>2, <1>3, <2>1, <2>2, <2>3, <2>4
<1>5. CASE ~Known(q.c)
  <2>1. /\ gate' = [d \in Conns |-> IF d \in K THEN "closed" ELSE gate[d]]
        /\ turn' = turn /\ Answers(q.t, q.c, 0)
    BY <1>5 DEF CallsBind, ClosedGate
  <2>2. reply' \in Seq(Answer)
    BY <2>1, AnswersKeeps
  <2>3. gate' \in [Conns -> {"none", "open", "bound", "closed"}]
    BY <1>1, <2>1
  <2>4. \A d \in Conns : gate[d] = "bound" => gate'[d] = "bound" \/ d \in notices'
    BY <1>1, <1>2, <2>1
  <2>5. turn' \in Turns /\ turn' = turn /\ notices \subseteq notices'
    BY <1>1, <1>2, <2>1
  <2>6. \A d \in Conns : gate[d] = "none" => gate'[d] = "none"
    BY <1>1, <2>1 DEF Known
  <2> QED
    BY <1>3, <2>2, <2>3, <2>4, <2>5, <2>6
<1> QED
  BY <1>4, <1>5

LEMMA ResumeTurnTypes == TypeInv /\ ResumeTurn => TypeInv'
<1> SUFFICES ASSUME TypeInv, ResumeTurn PROVE TypeInv'
  OBVIOUS
<1>1. Next1 \in Tasks /\ Next1.t = "resume" /\ queue' \in Seq(Tasks) /\ turn = NoTurn
  BY TakesFacts DEF ResumeTurn, TypeInv
<1>2. CASE CallsBind(Next1, {})
  <2>1. /\ gate' \in [Conns -> {"none", "open", "bound", "closed"}]
        /\ up' \in [Conns -> Seq(Messages)] /\ notices' \subseteq Conns
        /\ reply' \in Seq(Answer) /\ turn' \in Turns
    BY <1>1, <1>2, CallsBindKeeps DEF TypeInv
  <2> QED
    BY <1>1, <2>1 DEF ResumeTurn, TypeInv, TypeOK, history
<1>3. CASE Answers("resume", Next1.c, 0) /\ UNCHANGED <<gate, up, notices, turn>>
  <2>1. reply' \in Seq(Answer)
    BY <1>3, AnswersKeeps DEF TypeInv
  <2> QED
    BY <1>1, <1>3, <2>1 DEF ResumeTurn, TypeInv, TypeOK, history
<1> QED
  BY <1>2, <1>3 DEF ResumeTurn

LEMMA LoginTurnTypes == TypeInv /\ LoginTurn => TypeInv'
<1> SUFFICES ASSUME TypeInv, LoginTurn PROVE TypeInv'
  OBVIOUS
<1>1. Next1 \in Tasks /\ Next1.t = "login" /\ queue' \in Seq(Tasks) /\ turn = NoTurn
  BY TakesFacts DEF LoginTurn, TypeInv
<1>2. PICK K \in SUBSET {d \in Conns : Known(d)} : CallsBind(Next1, K)
  BY DEF LoginTurn, Kicked
<1>3. session' \in [c : 0 .. MaxConn, id : Nat]
  BY Unbound DEF LoginTurn, TypeInv, TypeOK
<1>4. /\ gate' \in [Conns -> {"none", "open", "bound", "closed"}]
      /\ up' \in [Conns -> Seq(Messages)] /\ notices' \subseteq Conns
      /\ reply' \in Seq(Answer) /\ turn' \in Turns
  BY <1>1, <1>2, CallsBindKeeps DEF TypeInv
<1> QED
  BY <1>1, <1>3, <1>4 DEF LoginTurn, TypeInv, TypeOK, history

LEMMA ResumesTypes == TypeInv /\ Resumes => TypeInv' /\ io'.nonce = issued + 1
<1> SUFFICES ASSUME TypeInv, Resumes PROVE TypeInv' /\ io'.nonce = issued + 1
  OBVIOUS
<1>1. turn.n \in Nat /\ turn.id \in Nat /\ turn.c \in Conns /\ NoTurn \in Turns
  BY TurnFacts DEF Resumes, TypeInv, TypeOK, Turns
<1>2. Acked(io, turn.n) \in IOs /\ Covers(Acked(io, turn.n))
  BY <1>1, AckedKeeps DEF TypeInv, TypeOK
<1>3. io' \in IOs /\ Covers(io') /\ io'.nonce = issued + 1
  BY <1>2, RotatedKeeps DEF Resumes, TypeInv, TypeOK
<1>4. Replay(io') \in Seq(Answer)
  BY <1>3, ReplayType
<1>5. down' \in Seq(Answer)
  BY <1>4, ToClientKeeps DEF Resumes, TypeInv, TypeOK
<1>6. issued' = issued + 1 /\ issued + 1 \in Nat /\ issued' \in Nat
  <2>1. issued \in Nat
    BY DEF TypeInv, TypeOK
  <2>2. issued' = issued + 1
    BY DEF Resumes
  <2> QED
    BY <2>1, <2>2
<1>7. reply' \in Seq(Answer)
  BY <1>3, <1>6, AnswersKeeps DEF Resumes, TypeInv
<1>8. session' \in [c : 0 .. MaxConn, id : Nat]
  BY <1>1, <1>6 DEF Resumes, Conns
<1>9. used' \subseteq Nat
  <2>1. used \subseteq Nat
    BY DEF TypeInv, TypeOK
  <2>2. used' = used \cup {0} \/ used' = used \cup {turn.id}
    BY DEF Resumes
  <2>3. ASSUME NEW k \in Nat PROVE used \cup {k} \subseteq Nat
    BY <2>1
  <2>4. used \cup {0} \subseteq Nat /\ used \cup {turn.id} \subseteq Nat
    BY <1>1, <2>3
  <2> QED
    BY <2>2, <2>4
<1>10. /\ gate' \in [Conns -> {"none", "open", "bound", "closed"}]
       /\ up' \in [Conns -> Seq(Messages)] /\ notices' \subseteq Conns
  <2> DEFINE c == IF LiveConn = turn.c THEN 0 ELSE LiveConn
  <2>1. Kick(c)
    BY DEF Resumes
  <2> HIDE DEF c
  <2> QED
    BY <2>1, KickKeeps DEF TypeInv
<1>11. turn' = NoTurn /\ UNCHANGED <<queue, cl, taken, runs, mishaps>>
  BY DEF Resumes
<1>12. io'.nonce <= issued'
  BY <1>3, <1>6
<1> QED
  BY <1>1, <1>3, <1>5, <1>6, <1>7, <1>8, <1>9, <1>10, <1>11, <1>12 DEF TypeInv, TypeOK

LEMMA BindsTypes == TypeInv /\ Binds => TypeInv' /\ io'.nonce = issued + 1
<1> SUFFICES ASSUME TypeInv, Binds PROVE TypeInv' /\ io'.nonce = issued + 1
  OBVIOUS
<1>1. turn.c \in Conns /\ NoTurn \in Turns
  BY TurnFacts DEF Binds, TypeInv, TypeOK, Turns
<1>2. issued' = issued + 1 /\ issued + 1 \in Nat /\ issued' \in Nat
  <2>1. issued \in Nat
    BY DEF TypeInv, TypeOK
  <2>2. issued' = issued + 1
    BY DEF Binds
  <2> QED
    BY <2>1, <2>2
<1>3. io' \in IOs /\ Covers(io') /\ io'.nonce = issued + 1
  <2>1. io' = [NoIO EXCEPT !.gen = issued + 1, !.nonce = issued + 1]
    BY DEF Binds
  <2>2. /\ io'.gen = issued + 1 /\ io'.nonce = issued + 1 /\ io'.sent = 0 /\ io'.acked = 0 /\ io'.out = {}
        /\ io' = [gen |-> issued + 1, nonce |-> issued + 1, sent |-> 0, acked |-> 0, out |-> {},
                  cache |-> << >>, minReq |-> 0, unresumable |-> FALSE, pushed |-> 0]
    BY <2>1 DEF NoIO
  <2>3. << >> \in Seq(Reqs)
    OBVIOUS
  <2>4. io' \in IOs
    BY <1>2, <2>2, <2>3 DEF IOs
  <2>5. {p.seq : p \in {}} = (0 + 1) .. 0
    OBVIOUS
  <2> QED
    BY <2>2, <2>4, <2>5 DEF Covers
<1>4. reply' \in Seq(Answer)
  BY <1>2, AnswersKeeps DEF Binds, TypeInv
<1>5. session' \in [c : 0 .. MaxConn, id : Nat]
  BY <1>1, <1>2 DEF Binds, Conns
<1>6. turn' = NoTurn /\ UNCHANGED <<gate, up, notices, down, queue, cl, history>>
  BY DEF Binds
<1>7. io'.nonce <= issued'
  BY <1>2, <1>3
<1> QED
  BY <1>1, <1>2, <1>3, <1>4, <1>5, <1>6, <1>7 DEF TypeInv, TypeOK, history

LEMMA UnloadTypes == TypeInv /\ Unload => TypeInv'
<1> SUFFICES ASSUME TypeInv, Unload PROVE TypeInv'
  OBVIOUS
<1>1. NoIO \in IOs /\ Covers(NoIO) /\ NoIO.nonce = 0
  BY DEF NoIO, IOs, Covers
<1>2. NoConn \in [c : 0 .. MaxConn, id : Nat]
  BY DEF NoConn
<1>3. /\ gate' \in [Conns -> {"none", "open", "bound", "closed"}]
      /\ up' \in [Conns -> Seq(Messages)] /\ notices' \subseteq Conns
  BY KickKeeps DEF Unload, TypeInv
<1>4. io' = NoIO /\ session' = NoConn /\ UNCHANGED <<reply, down, queue, turn, issued, cl, history>>
  BY DEF Unload
<1>5. io'.nonce <= issued'
  <2>1. issued \in Nat
    BY DEF TypeInv, TypeOK
  <2> QED
    BY <1>1, <1>4, <2>1
<1>6. io' \in IOs /\ Covers(io') /\ session' \in [c : 0 .. MaxConn, id : Nat]
  BY <1>1, <1>2, <1>4
<1> QED
  BY <1>3, <1>4, <1>5, <1>6 DEF TypeInv, TypeOK, history

(* The client *)

LEMMA SendsKeeps ==
    ASSUME TypeOK, NEW ms \in Seq(Messages), Sends(ms)
    PROVE  up' \in [Conns -> Seq(Messages)]
<1>1. up \in [Conns -> Seq(Messages)]
  BY DEF TypeOK
<1>2. CASE up' = up
  BY <1>1, <1>2
<1>3. CASE cl.conn # 0 /\ Known(cl.conn)
  <2>1. up' = [up EXCEPT ![cl.conn] = @ \o ms]
    BY <1>3 DEF Sends
  <2>2. \A c \in Conns : up[c] \o ms \in Seq(Messages)
    BY <1>1
  <2> QED
    BY <1>1, <2>1, <2>2
<1> QED
  BY <1>2, <1>3 DEF Sends

LEMMA ClientFacts ==
    ASSUME TypeOK
    PROVE  /\ cl \in Clients /\ cl.recv \in Nat /\ cl.nonce \in Nat /\ cl.gen \in Nat
           /\ cl.next \in 0 .. MaxReq /\ cl.pending \subseteq Reqs /\ cl.answer.id \in Nat
           /\ cl.conn \in 0 .. MaxConn /\ cl.opened \in 0 .. MaxConn
           /\ NoAnswer \in [got : BOOLEAN, id : Nat]
           /\ NoPing \in [r : 0 .. MaxReq, got : BOOLEAN, n : Nat]
           /\ Login \in Messages /\ Resume \in Messages
<1>1. /\ cl \in Clients /\ cl.recv \in Nat /\ cl.nonce \in Nat /\ cl.gen \in Nat
      /\ cl.next \in 0 .. MaxReq /\ cl.pending \subseteq Reqs /\ cl.answer.id \in Nat
      /\ cl.conn \in 0 .. MaxConn /\ cl.opened \in 0 .. MaxConn
  BY DEF TypeOK, Clients
<1>2. NoAnswer \in [got : BOOLEAN, id : Nat] /\ NoPing \in [r : 0 .. MaxReq, got : BOOLEAN, n : Nat]
  BY DEF NoAnswer, NoPing
<1>3. Login \in Messages /\ Resume \in Messages
  BY <1>1, ConnsFacts DEF Login, Resume, Message, Messages
<1> QED
  BY <1>1, <1>2, <1>3

LEMMA NoMessages == << >> \in Seq(Answer) /\ << >> \in Seq(Messages)
OBVIOUS

LEMMA DroppedType == ASSUME TypeOK PROVE Dropped(cl) \in Clients
<1>1. cl \in Clients /\ NoPing \in [r : 0 .. MaxReq, got : BOOLEAN, n : Nat] /\ 0 \in 0 .. MaxConn
  BY ClientFacts
<1> HIDE DEF TypeOK
<1> DEFINE p == NoPing
<1>2. p \in [r : 0 .. MaxReq, got : BOOLEAN, n : Nat]
  BY <1>1
<1> HIDE DEF p
<1>3. [cl EXCEPT !.conn = 0, !.online = FALSE, !.ping = p] \in Clients
  BY <1>1, <1>2 DEF Clients
<1> QED
  BY <1>3 DEF Dropped, p

LEMMA ConnectTypes == TypeInv /\ Connect => TypeInv'
<1> SUFFICES ASSUME TypeInv, Connect PROVE TypeInv'
  OBVIOUS
<1> DEFINE c == cl.opened + 1
           m == IF cl.nonce # 0 THEN Resume ELSE Login
<1>1. TypeOK /\ cl.opened < MaxConn
  BY DEF TypeInv, Connect
<1>2. c \in Conns /\ c \in 0 .. MaxConn
  <2>1. cl.opened \in 0 .. MaxConn
    BY <1>1, ClientFacts
  <2> QED
    BY <1>1, <2>1 DEF Conns
<1>3. m \in Messages
  BY <1>1, ClientFacts
<1> HIDE DEF m, c
<1>4. <<m>> \in Seq(Messages)
  BY <1>3
<1>5. /\ gate' = [gate EXCEPT ![c] = "open"] /\ up' = [up EXCEPT ![c] = <<m>>]
      /\ cl' = [cl EXCEPT !.conn = c, !.opened = c,
                          !.stage = IF cl.nonce # 0 THEN "resume" ELSE "login"]
  BY DEF Connect, c, m
<1>6. cl' \in Clients
  BY <1>1, <1>2, <1>5, ClientFacts DEF Clients
<1>7. gate' \in [Conns -> {"none", "open", "bound", "closed"}] /\ up' \in [Conns -> Seq(Messages)]
  BY <1>1, <1>4, <1>5 DEF TypeOK
<1> QED
  BY <1>6, <1>7 DEF Connect, TypeInv, TypeOK, server, history

LEMMA DropTypes == TypeInv /\ (Drop \/ LoginFails) => TypeInv'
<1> SUFFICES ASSUME TypeInv, Drop \/ LoginFails PROVE TypeInv'
  OBVIOUS
<1>1. Dropped(cl) \in Clients /\ NoAnswer \in [got : BOOLEAN, id : Nat]
  BY DroppedType, ClientFacts DEF TypeInv
<1>2. cl' = Dropped(cl) \/ cl' = [Dropped(cl) EXCEPT !.stage = "idle", !.answer = NoAnswer]
  BY DEF Drop, LoginFails
<1>3. cl' \in Clients
  <2> DEFINE d == Dropped(cl)
  <2>1. d \in Clients /\ (cl' = d \/ cl' = [d EXCEPT !.stage = "idle", !.answer = NoAnswer])
    BY <1>1, <1>2
  <2> HIDE DEF d, TypeInv
  <2>2. [d EXCEPT !.stage = "idle", !.answer = NoAnswer] \in Clients
    BY <1>1, <2>1 DEF Clients
  <2> QED BY <2>1, <2>2
<1>4. down' = << >> /\ reply' = << >> /\ UNCHANGED <<gate, up, notices, server, history>>
  BY DEF Drop, LoginFails
<1> QED
  BY <1>3, <1>4, NoMessages DEF TypeInv, TypeOK, server, history

LEMMA CallTypes == TypeInv /\ (Call \/ Ping) => TypeInv'
<1> SUFFICES ASSUME TypeInv, Call \/ Ping PROVE TypeInv'
  OBVIOUS
<1> DEFINE r == cl.next + 1
<1>1. TypeOK /\ cl.next < MaxReq
  BY DEF TypeInv, Call, Ping
<1>2. r \in Reqs /\ r \in 0 .. MaxReq
  <2>1. cl.next \in 0 .. MaxReq
    BY <1>1, ClientFacts
  <2> QED
    BY <1>1, <2>1 DEF Reqs
<1>3. /\ Message("req", r, 0, 0) \in Messages /\ Message("ping", r, cl.recv, 0) \in Messages
  <2>1. cl.recv \in Nat
    BY <1>1, ClientFacts
  <2> HIDE DEF r
  <2> QED
    BY <1>2, <2>1 DEF Message, Messages
<1>4. <<Message("req", r, 0, 0)>> \in Seq(Messages) /\ <<Message("ping", r, cl.recv, 0)>> \in Seq(Messages)
  BY <1>3
<1> HIDE DEF r
<1>5. CASE Call
  <2>1. cl' = [cl EXCEPT !.next = r, !.pending = @ \cup {r}] /\ Sends(<<Message("req", r, 0, 0)>>)
    BY <1>5 DEF Call, r
  <2>2. cl' \in Clients
    BY <1>1, <1>2, <2>1, ClientFacts DEF Clients
  <2>3. up' \in [Conns -> Seq(Messages)]
    BY <1>1, <1>4, <2>1, SendsKeeps
  <2> QED
    BY <1>5, <2>2, <2>3 DEF Call, TypeInv, TypeOK, server
<1>6. CASE Ping
  <2>1. /\ cl' = [cl EXCEPT !.next = r, !.ping = [NoPing EXCEPT !.r = r]]
        /\ Sends(<<Message("ping", r, cl.recv, 0)>>)
    BY <1>6 DEF Ping, r
  <2>2. [NoPing EXCEPT !.r = r] \in [r : 0 .. MaxReq, got : BOOLEAN, n : Nat]
    BY <1>2 DEF NoPing
  <2>3. cl' \in Clients
    BY <1>1, <1>2, <2>1, <2>2, ClientFacts DEF Clients
  <2>4. up' \in [Conns -> Seq(Messages)]
    BY <1>1, <1>4, <2>1, SendsKeeps
  <2> QED
    BY <1>6, <2>3, <2>4 DEF Ping, TypeInv, TypeOK, server, history
<1> QED
  BY <1>5, <1>6

LEMMA HandledType == ASSUME TypeOK, NEW m \in Answer PROVE Handled(m) \in Clients
<1>1. m.gen \in Nat /\ m.seq \in Nat /\ cl \in Clients
  BY ClientFacts DEF Answer
<1>2. [cl EXCEPT !.answer = [got |-> TRUE, id |-> 0]] \in Clients
  BY <1>1 DEF Clients
<1>3. [cl EXCEPT !.answer = [got |-> TRUE, id |-> m.gen]] \in Clients
  BY <1>1 DEF Clients
<1>4. [cl EXCEPT !.ping.got = TRUE, !.ping.n = m.seq] \in Clients
  BY <1>1 DEF Clients
<1>5. [cl EXCEPT !.pending = @ \ {m.r}] \in Clients
  BY <1>1 DEF Clients
<1> QED
  BY <1>2, <1>3, <1>4, <1>5 DEF Handled

LEMMA TakesKeeps ==
    ASSUME TypeOK, NEW m \in Answer, Takes(m)
    PROVE  taken' \in [gen : Nat, seq : Nat, ordered : BOOLEAN] /\ mishaps \subseteq mishaps' /\ mishaps' \subseteq Mishaps
<1>1. m.gen \in Nat /\ m.seq \in Nat
  BY DEF Answer
<1>2. mishaps \subseteq Mishaps /\ taken \in [gen : Nat, seq : Nat, ordered : BOOLEAN]
  BY DEF TypeOK, Mishaps
<1>3. mishaps' = mishaps \/ mishaps' = mishaps \cup {"early push"}
  BY DEF Takes
<1>4. \/ taken' = taken
      \/ taken' = [gen |-> m.gen, seq |-> m.seq,
                   ordered |-> taken.ordered /\ m.seq = (IF taken.gen = m.gen THEN taken.seq ELSE 0) + 1]
  BY DEF Takes
<1>5. mishaps \subseteq mishaps' /\ mishaps' \subseteq Mishaps
  BY <1>2, <1>3 DEF Mishaps
<1>6. taken' \in [gen : Nat, seq : Nat, ordered : BOOLEAN]
  <2> DEFINE b == taken.ordered /\ m.seq = (IF taken.gen = m.gen THEN taken.seq ELSE 0) + 1
  <2>1. b \in BOOLEAN
    OBVIOUS
  <2> HIDE DEF b
  <2>2. taken' = taken \/ taken' = [gen |-> m.gen, seq |-> m.seq, ordered |-> b]
    BY <1>4 DEF b
  <2> QED
    BY <1>1, <1>2, <2>1, <2>2
<1> QED
  BY <1>5, <1>6

LEMMA ReceiveTypes == TypeInv /\ Receive => TypeInv'
<1> SUFFICES ASSUME TypeInv, Receive PROVE TypeInv'
  OBVIOUS
<1> DEFINE m == Head(down)
<1>1. m \in Answer /\ down' \in Seq(Answer)
  <2>1. down \in Seq(Answer) /\ down # << >> /\ down' = Tail(down)
    BY DEF Receive, TypeInv, TypeOK
  <2> QED
    BY <2>1
<1>2. Handled(m) \in Clients
  BY <1>1, HandledType DEF TypeInv
<1>3. [Handled(m) EXCEPT !.recv = @ + 1] \in Clients
  BY <1>2 DEF Clients
<1>4. cl' \in Clients /\ Takes(m)
  BY <1>2, <1>3 DEF Receive
<1>5. taken' \in [gen : Nat, seq : Nat, ordered : BOOLEAN] /\ mishaps' \subseteq Mishaps
  BY <1>1, <1>4, TakesKeeps DEF TypeInv
<1>6. UNCHANGED <<net, server, runs, used>>
  BY DEF Receive
<1> QED
  BY <1>1, <1>4, <1>5, <1>6 DEF TypeInv, TypeOK, net, server, Mishaps

LEMMA ResumeFailsTypes == TypeInv /\ ResumeFails => TypeInv'
<1> SUFFICES ASSUME TypeInv, ResumeFails PROVE TypeInv'
  OBVIOUS
<1>1. cl' \in Clients
  BY ClientFacts DEF ResumeFails, TypeInv, Clients
<1>2. <<Login>> \in Seq(Messages)
  BY ClientFacts DEF TypeInv
<1>3. up' \in [Conns -> Seq(Messages)]
  BY <1>2, SendsKeeps DEF ResumeFails, TypeInv
<1> QED
  BY <1>1, <1>3 DEF ResumeFails, TypeInv, TypeOK, server, history

LEMMA ResendKeeps == ASSUME TypeOK, Resend PROVE up' \in [Conns -> Seq(Messages)]
<1>1. cl.pending \subseteq Reqs
  BY ClientFacts
<1>2. Cardinality(cl.pending) \in Nat
  <2>1. IsFiniteSet(Reqs)
    BY FS_Interval DEF Reqs
  <2> QED
    BY <1>1, <2>1, FS_Subset, FS_CardinalityType
<1>3. PICK s \in Orders(cl.pending) : Sends([i \in DOMAIN s |-> Message("req", s[i], 0, 0)])
  BY DEF Resend
<1> DEFINE n == Cardinality(cl.pending)
           f == [i \in DOMAIN s |-> Message("req", s[i], 0, 0)]
<1>4. s \in [1 .. n -> cl.pending]
  BY DEF Orders
<1>5. \A i \in 1 .. n : Message("req", s[i], 0, 0) \in Messages
  BY <1>1, <1>4 DEF Message, Messages
<1>6. f \in [1 .. n -> Messages]
  BY <1>4, <1>5
<1>7. f \in Seq(Messages)
  <2> HIDE DEF f, n
  <2>1. n \in Nat
    BY <1>2 DEF n
  <2> QED
    BY <1>6, <2>1
<1> HIDE DEF f
<1>8. Sends(f)
  BY <1>3 DEF f
<1> QED
  BY <1>7, <1>8, SendsKeeps

LEMMA ResumeSucceedsTypes == TypeInv /\ ResumeSucceeds => TypeInv'
<1> SUFFICES ASSUME TypeInv, ResumeSucceeds PROVE TypeInv'
  OBVIOUS
<1>1. cl' \in Clients
  BY ClientFacts DEF ResumeSucceeds, TypeInv, Clients
<1>2. up' \in [Conns -> Seq(Messages)]
  BY ResendKeeps DEF ResumeSucceeds, TypeInv
<1> QED
  BY <1>1, <1>2 DEF ResumeSucceeds, TypeInv, TypeOK, server, history

LEMMA LoginSucceedsTypes == TypeInv /\ LoginSucceeds => TypeInv'
<1> SUFFICES ASSUME TypeInv, LoginSucceeds PROVE TypeInv'
  OBVIOUS
<1>1. cl' \in Clients
  BY ClientFacts DEF LoginSucceeds, TypeInv, Clients
<1> QED
  BY <1>1 DEF LoginSucceeds, TypeInv, TypeOK, net, server, history

LEMMA PingAnsweredTypes == TypeInv /\ PingAnswered => TypeInv'
<1> SUFFICES ASSUME TypeInv, PingAnswered PROVE TypeInv'
  OBVIOUS
<1>1. [cl EXCEPT !.ping = NoPing] \in Clients
  BY ClientFacts DEF TypeInv, Clients
<1>2. [Dropped(cl) EXCEPT !.nonce = 0] \in Clients
  BY DroppedType DEF TypeInv, Clients
<1>3. cl' \in Clients
  BY <1>1, <1>2 DEF PingAnswered
<1>4. \/ UNCHANGED <<down, reply>>
      \/ down' = << >> /\ reply' = << >>
  BY DEF PingAnswered
<1> QED
  BY <1>3, <1>4, NoMessages DEF PingAnswered, TypeInv, TypeOK, server, history

LEMMA StepTypes == TypeInv /\ [Next]_vars => TypeInv'
<1> SUFFICES ASSUME TypeInv, [Next]_vars PROVE TypeInv'
  OBVIOUS
<1>1. CASE Entity
  BY <1>1, PushTypes, RequestTypes, PingTypes, ClosedTypes, ResumeTurnTypes, LoginTurnTypes,
     ResumesTypes, BindsTypes, UnloadTypes DEF Entity
<1>2. CASE Client
  BY <1>2, ConnectTypes, DropTypes, CallTypes, ReceiveTypes, ResumeSucceedsTypes, ResumeFailsTypes,
     LoginSucceedsTypes, PingAnsweredTypes DEF Client
<1>3. CASE LoginReplies
  BY <1>3, LoginRepliesTypes
<1>4. CASE \E c \in Conns : GateForwards(c) \/ Disconnect(c) \/ NoticeArrives(c)
  BY <1>4, ForwardTypes, DisconnectTypes, NoticeTypes
<1>5. CASE UNCHANGED vars
  BY <1>5 DEF vars, net, server, history, TypeInv, TypeOK, Covers
<1> QED
  BY <1>1, <1>2, <1>3, <1>4, <1>5 DEF Next

(* The variables hold what the code puts there: in particular the credential of *)
(* a session is one that has been drawn (session.lua).                       *)
THEOREM TypeCorrect == Spec => []TypeOK
<1>1. Spec => []TypeInv
  BY InitTypes, StepTypes, PTL DEF Spec
<1>2. TypeInv => TypeOK
  BY DEF TypeInv
<1> QED
  BY <1>1, <1>2, PTL

(* However pushes, answers, acknowledgements and overflows follow each other, *)
(* the replay buffer of a session holds exactly what is sent and not           *)
(* acknowledged, so a replay never has a gap (record_and_send, drop_replay,    *)
(* process_ack and replay in session.lua).                                   *)
THEOREM BufferCoversAlways == Spec => []BufferCovers
<1>1. Spec => []TypeInv
  BY InitTypes, StepTypes, PTL DEF Spec
<1>2. TypeInv => BufferCovers
  BY DEF TypeInv, Covers, BufferCovers
<1> QED
  BY <1>1, <1>2, PTL

-----------------------------------------------------------------------------
(* Credentials *)

(* What most steps leave of a credential: it stays, and so does what uses it. *)
CredentialStays ==
    /\ SameSession /\ UNCHANGED <<issued, used>>
    /\ session'.c # 0 => session.c # 0
    /\ turn' = turn \/ turn'.t \notin {"req", "resume"}

LEMMA CredentialKept ==
    ASSUME CredentialInv, SameSession, UNCHANGED <<issued, used>>,
           session'.c # 0 \/ turn'.t \in {"req", "resume"} => io # NoIO,
           turn'.t = "resume" => turn'.id = io.nonce
    PROVE  CredentialInv'
<1>1. io # NoIO => io.nonce \in 1 .. issued
  BY DEF CredentialInv
<1>2. NoIO.nonce = 0
  BY DEF NoIO
<1>3. io # NoIO => io' # NoIO
  <2>1. CASE io # NoIO /\ io'.nonce = io.nonce
    BY <1>1, <1>2, <2>1
  <2> QED
    BY <2>1 DEF SameSession
<1>4. io' # NoIO => io # NoIO /\ io'.nonce = io.nonce
  BY DEF SameSession
<1>5. io'.nonce = io.nonce
  BY DEF SameSession
<1> QED
  BY <1>3, <1>4, <1>5 DEF CredentialInv

LEMMA CredentialStaysKept == CredentialInv /\ CredentialStays => CredentialInv'
<1> SUFFICES ASSUME CredentialInv, CredentialStays PROVE CredentialInv'
  OBVIOUS
<1>1. session'.c # 0 \/ turn'.t \in {"req", "resume"} => io # NoIO
  BY DEF CredentialStays, CredentialInv
<1>2. turn'.t = "resume" => turn'.id = io.nonce
  BY DEF CredentialStays, CredentialInv
<1> QED
  BY <1>1, <1>2, CredentialKept DEF CredentialStays

LEMMA LiveSession ==
    ASSUME TypeInv, CredentialInv, NEW c \in Conns, LiveConn = c
    PROVE  io # NoIO
BY ConnsFacts DEF CredentialInv, LiveConn

LEMMA CredentialStep ==
    TypeInv /\ CredentialInv /\ [Next]_vars => CredentialInv'
<1> SUFFICES ASSUME TypeInv, CredentialInv, [Next]_vars PROVE CredentialInv'
  OBVIOUS
<1>0. TypeOK /\ io \in IOs /\ Covers(io) /\ NoTurn.t = "none"
  BY DEF TypeInv, TypeOK, NoTurn
<1>1. CASE Push
  <2> DEFINE s == [io EXCEPT !.pushed = @ + 1]
  <2>1. RecordAndSend(s, 0) /\ io # NoIO
    BY <1>1 DEF Push
  <2>2. s \in IOs /\ Covers(s) /\ s.nonce = io.nonce
    <3>1. io.pushed \in 0 .. MaxSent /\ io.pushed < MaxSent
      BY <1>0, <1>1 DEF Push, IOs
    <3>2. io.pushed + 1 \in 0 .. MaxSent
      BY <3>1
    <3> QED
      BY <1>0, <3>2 DEF IOs, Covers
  <2> HIDE DEF s
  <2>3. SameSession
    BY <1>0, <2>1, <2>2, RecordKeeps DEF SameSession
  <2> QED
    BY <1>1, <2>3, CredentialStaysKept DEF Push, CredentialStays
<1>2. CASE RequestStarts
  <2>1. Next1 \in Tasks /\ Next1.t = "req" /\ SameConn(Next1)
    BY <1>0, <1>2, TakesFacts DEF RequestStarts
  <2>2. LiveConn = Next1.c /\ Next1.c \in Conns
    BY <2>1, TaskFacts DEF SameConn, LiveConn
  <2>3. io # NoIO
    BY <2>2, LiveSession
  <2>4. turn'.t = "req"
    BY <1>2, <2>1, TurnOf DEF RequestStarts
  <2> QED
    BY <1>2, <2>3, <2>4, CredentialKept DEF RequestStarts, SameSession
<1>3. CASE RequestRevoked
  <2>1. Next1 \in Tasks
    BY <1>0, <1>3, TakesFacts DEF RequestRevoked
  <2>2. Next1.c \in Conns /\ Next1.r \in Nat
    BY <2>1, TaskFacts
  <2>3. CASE UNCHANGED io
    BY <1>3, <2>3, CredentialStaysKept DEF RequestRevoked, CredentialStays, SameSession
  <2>4. CASE LiveConn = Next1.c /\ RecordAndSend(io, Next1.r)
    <3>1. SameSession
      BY <1>0, <2>2, <2>4, LiveSession, RecordKeeps DEF SameSession
    <3> QED
      BY <1>3, <3>1, CredentialStaysKept DEF RequestRevoked, CredentialStays
  <2> QED
    BY <1>3, <2>3, <2>4 DEF RequestRevoked
<1>4. CASE RequestReturns
  <2>1. turn.t = "req" /\ turn \in Turns /\ io # NoIO
    BY <1>0, <1>4 DEF RequestReturns, CredentialInv, TypeOK
  <2>2. turn.r \in Reqs /\ turn.r \in Nat
    BY <2>1, TurnFacts
  <2>3. Cached(io, turn.r) \in IOs /\ Covers(Cached(io, turn.r)) /\ Cached(io, turn.r).nonce = io.nonce
    BY <1>0, <2>2, CachedKeeps
  <2>4. RecordAndSend(Cached(io, turn.r), turn.r)
    BY <1>4 DEF RequestReturns
  <2>5. SameSession
    BY <1>0, <2>1, <2>2, <2>3, <2>4, RecordKeeps DEF SameSession
  <2> QED
    BY <1>0, <1>4, <2>5, CredentialStaysKept DEF RequestReturns, CredentialStays
<1>5. CASE RequestThrows
  <2>1. turn.t = "req" /\ turn \in Turns /\ io # NoIO
    BY <1>0, <1>5 DEF RequestThrows, CredentialInv, TypeOK
  <2>2. turn.r \in Nat
    BY <2>1, TurnFacts
  <2>3. SameSession
    BY <1>0, <1>5, <2>1, <2>2, CountedKeeps DEF RequestThrows, SameSession
  <2> QED
    BY <1>0, <1>5, <2>3, CredentialStaysKept DEF RequestThrows, CredentialStays
<1>6. CASE PingTurn
  <2>1. Next1 \in Tasks /\ Next1.t = "ping" /\ SameConn(Next1)
    BY <1>0, <1>6, TakesFacts DEF PingTurn
  <2>2. LiveConn = Next1.c /\ Next1.c \in Conns /\ Next1.r \in Reqs /\ Next1.n \in Nat
    BY <2>1, TaskFacts DEF SameConn, LiveConn
  <2>3. io # NoIO
    BY <2>2, LiveSession
  <2>4. Acked(io, Next1.n) \in IOs /\ Covers(Acked(io, Next1.n)) /\ Acked(io, Next1.n).nonce = io.nonce
    BY <1>0, <2>2, AckedKeeps
  <2>5. io'.nonce = io.nonce
    BY <1>6, <2>2, <2>4, CachedKeeps DEF PingTurn
  <2> QED
    BY <1>6, <2>3, <2>5, CredentialStaysKept DEF PingTurn, CredentialStays, SameSession, history
<1>7. CASE ClosedTurn
  BY <1>7, CredentialStaysKept DEF ClosedTurn, Unbind, NoConn, CredentialStays, SameSession, history
<1>8. CASE ResumeTurn
  <2>1. Next1 \in Tasks /\ Next1.t = "resume" /\ turn = NoTurn
    BY <1>0, <1>8, TakesFacts DEF ResumeTurn
  <2>2. UNCHANGED <<down, session, io, issued, cl, history>>
    BY <1>8 DEF ResumeTurn
  <2>3. CASE turn' = turn
    BY <2>2, <2>3, CredentialStaysKept DEF CredentialStays, SameSession, history
  <2>4. CASE Resumable(Next1) /\ CallsBind(Next1, {}) /\ turn' # turn
    <3>1. turn' = [Next1 EXCEPT !.pc = "bound"]
      BY <1>0, <2>1, <2>4, CallsBindKeeps
    <3>2. turn'.t = "resume" /\ turn'.id = Next1.id
      BY <2>1, <3>1, TurnOf
    <3> QED
      BY <2>2, <2>4, <3>2, CredentialKept DEF SameSession, Resumable, history
  <2> QED
    BY <1>8, <2>3, <2>4 DEF ResumeTurn
<1>9. CASE LoginTurn
  <2>1. Next1 \in Tasks /\ Next1.t = "login" /\ turn = NoTurn
    BY <1>0, <1>9, TakesFacts DEF LoginTurn
  <2>2. PICK K \in SUBSET {d \in Conns : Known(d)} : CallsBind(Next1, K)
    BY <1>9 DEF LoginTurn, Kicked
  <2>3. turn' = turn \/ turn' = [Next1 EXCEPT !.pc = "bound"]
    BY <1>0, <2>1, <2>2, CallsBindKeeps
  <2>4. turn'.t \notin {"req", "resume"}
    BY <1>0, <2>1, <2>3, TurnOf
  <2>5. session'.c # 0 => session.c # 0
    BY <1>9 DEF LoginTurn, Unbind, NoConn
  <2> QED
    BY <1>9, <2>4, <2>5, CredentialStaysKept DEF LoginTurn, CredentialStays, SameSession, history
<1>10. CASE Resumes
  <2>1. turn.t = "resume" /\ io # NoIO /\ turn.id = io.nonce
    BY <1>10 DEF Resumes, CredentialInv
  <2>2. io.nonce \in 1 .. issued /\ io.nonce \notin used /\ used \subseteq 1 .. issued /\ issued \in Nat
    BY <1>0, <2>1 DEF CredentialInv, TypeOK
  <2>3. used' = used \cup {io.nonce} /\ issued' = issued + 1 /\ turn' = NoTurn
    BY <1>10, <2>1, <2>2 DEF Resumes
  <2>4. io'.nonce = issued + 1
    BY <1>10, ResumesTypes
  <2>5. io' # NoIO
    BY <2>2, <2>4 DEF NoIO
  <2>6. used' \subseteq 1 .. issued' /\ io'.nonce \in 1 .. issued' /\ io'.nonce \notin used'
    <3>1. \A k \in 1 .. issued : k \in 1 .. (issued + 1) /\ k # issued + 1
      BY <2>2
    <3>2. used' \subseteq 1 .. issued
      BY <2>2, <2>3
    <3>3. issued + 1 \in 1 .. (issued + 1)
      BY <2>2
    <3>4. issued + 1 \notin used'
      BY <3>1, <3>2
    <3>5. used' \subseteq 1 .. (issued + 1)
      BY <3>1, <3>2
    <3> QED
      BY <2>3, <2>4, <3>3, <3>4, <3>5
  <2> QED
    BY <1>0, <2>3, <2>5, <2>6 DEF CredentialInv
<1>11. CASE Binds
  <2>1. used \subseteq 1 .. issued /\ issued \in Nat
    BY <1>0 DEF CredentialInv, TypeOK
  <2>2. used' = used /\ issued' = issued + 1 /\ turn' = NoTurn
    BY <1>11 DEF Binds, history
  <2>3. io'.nonce = issued + 1
    BY <1>11, BindsTypes
  <2>4. io' # NoIO
    BY <2>1, <2>3 DEF NoIO
  <2>5. used' \subseteq 1 .. issued' /\ io'.nonce \in 1 .. issued' /\ io'.nonce \notin used'
    BY <2>1, <2>2, <2>3
  <2> QED
    BY <1>0, <2>2, <2>4, <2>5 DEF CredentialInv
<1>12. CASE Unload
  <2>1. io' = NoIO /\ session' = NoConn /\ turn' = NoTurn /\ UNCHANGED <<issued, used>>
    BY <1>12 DEF Unload, history
  <2> QED
    BY <1>0, <2>1 DEF CredentialInv, NoConn
<1>13. ASSUME NEW c \in Conns, GateForwards(c) PROVE CredentialInv'
  <2>1. UNCHANGED <<session, turn, issued, used>>
    BY <1>13 DEF GateForwards
  <2>2. CASE UNCHANGED io
    BY <2>1, <2>2, CredentialStaysKept DEF CredentialStays, SameSession
  <2>3. CASE EntityReceives(c, Head(up[c])) /\ ~UNCHANGED io
    <3> DEFINE m == Head(up[c])
    <3>1. m \in Messages
      <4>1. up[c] \in Seq(Messages) /\ up[c] # << >>
        BY <1>0, <1>13 DEF GateForwards, TypeOK
      <4> QED
        BY <4>1
    <3>2. m.r \in Nat
      BY <3>1, MessageFacts
    <3>3. LiveConn = c /\ RecordAndSend(io, m.r)
      BY <2>3 DEF EntityReceives
    <3> HIDE DEF m
    <3>4. SameSession
      BY <1>0, <3>2, <3>3, LiveSession, RecordKeeps DEF SameSession
    <3> QED
      BY <2>1, <3>4, CredentialStaysKept DEF CredentialStays
  <2>4. CASE LoginReceives(c, Head(up[c]))
    BY <2>2, <2>4 DEF LoginReceives
  <2> QED
    BY <1>13, <2>2, <2>3, <2>4 DEF GateForwards
<1>14. ASSUME UNCHANGED <<io, issued, used, session, turn>> PROVE CredentialInv'
  BY <1>14, CredentialStaysKept DEF CredentialStays, SameSession
<1>15. CASE Client \/ LoginReplies \/ UNCHANGED vars
  <2>1. UNCHANGED <<io, issued, used, session, turn>>
    BY <1>15 DEF Client, Connect, Drop, Call, Ping, Receive, ResumeSucceeds, ResumeFails, LoginSucceeds,
       LoginFails, PingAnswered, LoginReplies, vars, server, history
  <2> QED
    BY <2>1, <1>14
<1>16. ASSUME NEW c \in Conns, Disconnect(c) \/ NoticeArrives(c) PROVE CredentialInv'
  <2>1. UNCHANGED <<io, issued, used, session, turn>>
    BY <1>16 DEF Disconnect, NoticeArrives, server, history
  <2> QED
    BY <2>1, <1>14
<1> QED
  BY <1>1, <1>2, <1>3, <1>4, <1>5, <1>6, <1>7, <1>8, <1>9, <1>10, <1>11, <1>12, <1>13, <1>15, <1>16
  DEF Next, Entity

(* No credential resumes a session twice, although the check of the credential *)
(* and its rotation are separated by a call of the gate (resume in session.lua). *)
THEOREM CredentialUsedOnceAlways == Spec => []CredentialUsedOnce
<1>1. Init => CredentialInv
  BY DEF Init, CredentialInv, NoConn, NoTurn
<1>2. Spec => [](TypeInv /\ CredentialInv)
  BY <1>1, InitTypes, StepTypes, CredentialStep, PTL DEF Spec
<1>3. CredentialInv => CredentialUsedOnce
  <2>1. used \subseteq 1 .. issued => 0 \notin used
    OBVIOUS
  <2> QED
    BY <2>1 DEF CredentialInv, CredentialUsedOnce
<1> QED
  BY <1>2, <1>3, PTL

-----------------------------------------------------------------------------
(* Dead connections *)

Waits(q, c) == \E i \in DOMAIN q : q[i].t = "closed" /\ q[i].c = c

LEMMA WaitsTail ==
    ASSUME NEW q \in Seq(Tasks), q # << >>, NEW c, Waits(q, c), Head(q).t # "closed" \/ Head(q).c # c
    PROVE  Waits(Tail(q), c)
<1>1. PICK i \in DOMAIN q : q[i].t = "closed" /\ q[i].c = c
  BY DEF Waits
<1>2. i \in 1 .. Len(q) /\ i # 1
  BY <1>1
<1>3. i - 1 \in DOMAIN Tail(q) /\ Tail(q)[i - 1] = q[i]
  BY <1>2
<1> QED
  BY <1>1, <1>3 DEF Waits

LEMMA WaitsAppend ==
    ASSUME NEW q \in Seq(Tasks), NEW x \in Tasks, NEW c
    PROVE  /\ Waits(q, c) => Waits(Append(q, x), c)
           /\ x.t = "closed" /\ x.c = c => Waits(Append(q, x), c)
<1>1. DOMAIN Append(q, x) = 1 .. (Len(q) + 1) /\ DOMAIN q = 1 .. Len(q) /\ Len(q) \in Nat
  OBVIOUS
<1>2. \A i \in DOMAIN q : i \in DOMAIN Append(q, x) /\ Append(q, x)[i] = q[i]
  BY <1>1
<1>3. Len(q) + 1 \in DOMAIN Append(q, x) /\ Append(q, x)[Len(q) + 1] = x
  BY <1>1
<1> QED
  BY <1>2, <1>3 DEF Waits

(* What most steps leave of connections: who knows of one that is closed     *)
(* still does.                                                               *)
StillKnown ==
    /\ \A d \in Conns : gate[d] = "bound" => gate'[d] = "bound" \/ d \in notices'
    /\ \A d \in Conns : gate[d] = "none" => gate'[d] = "none"
    /\ notices \subseteq notices' /\ mishaps \subseteq mishaps'
    /\ \A d \in Conns : Waits(queue, d) => Waits(queue', d)

AccountedNext(c) ==
    \/ gate'[c] = "bound" \/ c \in notices' \/ "overtaken" \in mishaps'
    \/ \E i \in DOMAIN queue' : queue'[i].t = "closed" /\ queue'[i].c = c

LEMMA AccountedKept == StillKnown => \A c \in Conns : Accounted(c) => AccountedNext(c)
BY DEF StillKnown, Accounted, AccountedNext, Waits

LEMMA ConnKept ==
    ASSUME TypeInv, ConnInv, StillKnown,
           session'.c \in {0, session.c} \/ (session'.c = turn.c /\ turn.pc = "bound"),
           turn' = turn \/ turn'.pc # "bound" \/ (turn'.c \in Conns /\ gate'[turn'.c] = "bound"),
           cl'.opened = cl.opened
    PROVE  ConnInv'
<1>1. session.c \in 0 .. MaxConn /\ (turn.pc = "bound" => turn.c \in Conns)
  BY TurnFacts DEF TypeInv, TypeOK
<1>2. session.c # 0 => AccountedNext(session.c)
  <2>1. session.c # 0 => session.c \in Conns
    BY <1>1 DEF Conns
  <2> QED
    BY <2>1, AccountedKept DEF ConnInv
<1>3. turn.pc = "bound" => AccountedNext(turn.c)
  BY <1>1, AccountedKept DEF ConnInv
<1>4. session'.c # 0 => AccountedNext(session'.c)
  BY <1>2, <1>3
<1>5. turn'.pc = "bound" => AccountedNext(turn'.c)
  BY <1>3 DEF AccountedNext
<1>6. \A c \in Conns : c > cl'.opened => gate'[c] = "none"
  BY DEF ConnInv, StillKnown
<1> QED
  BY <1>4, <1>5, <1>6 DEF ConnInv, Accounted, AccountedNext

LEMMA ConnStep == TypeInv /\ ConnInv /\ [Next]_vars => ConnInv'
<1> SUFFICES ASSUME TypeInv, ConnInv, [Next]_vars PROVE ConnInv'
  OBVIOUS
<1>0. /\ TypeOK /\ queue \in Seq(Tasks) /\ io \in IOs /\ Covers(io) /\ turn \in Turns
      /\ mishaps \subseteq Mishaps /\ NoTurn.pc = "none" /\ notices \subseteq Conns
  BY DEF TypeInv, TypeOK, NoTurn, Mishaps
<1> DEFINE Same == \A d \in Conns : Waits(queue, d) => Waits(queue', d)
<1>1. CASE Push
  <2> DEFINE s == [io EXCEPT !.pushed = @ + 1]
  <2>1. RecordAndSend(s, 0)
    BY <1>1 DEF Push
  <2>2. mishaps \subseteq mishaps'
    BY <2>1 DEF RecordAndSend
  <2> QED
    BY <1>1, <2>2, ConnKept DEF Push, StillKnown, net
<1>2. ASSUME NEW t \in {"req", "ping", "resume", "login"}, TakesTurn(t) PROVE Same
  <2>1. queue # << >> /\ Head(queue).t = t /\ queue' = Tail(queue)
    BY <1>2 DEF TakesTurn, Next1
  <2> QED
    BY <1>0, <2>1, WaitsTail
<1>3. CASE RequestStarts
  <2>1. Same
    BY <1>2, <1>3 DEF RequestStarts
  <2>2. Next1 \in Tasks
    BY <1>0, <1>3, TakesFacts DEF RequestStarts
  <2>3. turn'.pc # "bound"
    BY <1>3, <2>2, TurnOf DEF RequestStarts
  <2> QED
    BY <1>3, <2>1, <2>3, ConnKept DEF RequestStarts, StillKnown, net
<1>4. CASE RequestRevoked
  <2>1. Same
    BY <1>2, <1>4 DEF RequestRevoked
  <2>2. UNCHANGED <<gate, notices>> \/ Kick(Next1.c)
    BY <1>4 DEF RequestRevoked
  <2>3. mishaps \subseteq mishaps'
    BY <1>4 DEF RequestRevoked, RecordAndSend
  <2>4. StillKnown
    BY <1>0, <2>1, <2>2, <2>3, KickKeeps DEF StillKnown
  <2> QED
    BY <1>4, <2>4, ConnKept DEF RequestRevoked
<1>5. CASE RequestReturns \/ RequestThrows
  <2>1. mishaps \subseteq mishaps'
    BY <1>5 DEF RequestReturns, RequestThrows, RecordAndSend
  <2> QED
    BY <1>0, <1>5, <2>1, ConnKept DEF RequestReturns, RequestThrows, StillKnown, net
<1>6. CASE PingTurn
  <2>1. Same
    BY <1>2, <1>6 DEF PingTurn
  <2> QED
    BY <1>6, <2>1, ConnKept DEF PingTurn, StillKnown, net, history
<1>7. CASE ClosedTurn
  <2>1. queue # << >> /\ queue' = Tail(queue) /\ turn = NoTurn
    BY <1>7 DEF ClosedTurn, TakesTurn
  <2>2. UNCHANGED <<gate, notices, mishaps, turn, cl>>
    BY <1>7 DEF ClosedTurn, net, history
  <2>3. session' = NoConn \/ (session' = session /\ session.c # Next1.c)
    BY <1>7 DEF ClosedTurn, Unbind, LiveConn
  <2>4. session'.c # 0 => AccountedNext(session'.c)
    <3> SUFFICES ASSUME session' = session, session.c # Next1.c, session.c # 0
                 PROVE  AccountedNext(session.c)
      BY <2>3 DEF NoConn
    <3>1. Accounted(session.c)
      BY DEF ConnInv
    <3>2. Waits(queue, session.c) => Waits(queue', session.c)
      BY <1>0, <2>1, WaitsTail DEF Next1
    <3> QED
      BY <2>2, <3>1, <3>2 DEF Accounted, AccountedNext, Waits
  <2>5. turn'.pc # "bound"
    BY <1>0, <2>1, <2>2
  <2>6. (\A c \in Conns : c > cl.opened => gate[c] = "none")'
    BY <2>2 DEF ConnInv
  <2> QED
    BY <2>4, <2>5, <2>6 DEF ConnInv, Accounted, AccountedNext
<1>8. CASE ResumeTurn
  <2>1. Same
    BY <1>2, <1>8 DEF ResumeTurn
  <2>2. Next1 \in Tasks /\ Next1.t = "resume" /\ turn = NoTurn
    BY <1>0, <1>8, TakesFacts DEF ResumeTurn
  <2>3. Next1.c \in Conns /\ [Next1 EXCEPT !.pc = "bound"].c = Next1.c
    BY <2>2, TaskFacts, TurnOf
  <2>4. CASE CallsBind(Next1, {})
    <3>1. /\ \A d \in Conns : gate[d] = "bound" => gate'[d] = "bound" \/ d \in notices'
          /\ \A d \in Conns : gate[d] = "none" => gate'[d] = "none"
          /\ notices \subseteq notices'
          /\ \/ turn' = turn
             \/ turn' = [Next1 EXCEPT !.pc = "bound"] /\ gate'[Next1.c] = "bound"
      BY <1>0, <2>2, <2>4, CallsBindKeeps
    <3>2. UNCHANGED <<session, mishaps, cl>>
      BY <1>8 DEF ResumeTurn, history
    <3>3. StillKnown
      BY <2>1, <3>1, <3>2 DEF StillKnown
    <3>4. turn' = turn \/ (turn'.c \in Conns /\ gate'[turn'.c] = "bound")
      BY <2>3, <3>1
    <3> QED
      BY <3>2, <3>3, <3>4, ConnKept
  <2>5. CASE UNCHANGED <<gate, up, notices, turn>>
    <3>1. UNCHANGED <<session, mishaps, cl>>
      BY <1>8 DEF ResumeTurn, history
    <3>2. StillKnown
      BY <2>1, <2>5, <3>1 DEF StillKnown
    <3> QED
      BY <2>5, <3>1, <3>2, ConnKept
  <2> QED
    BY <1>8, <2>4, <2>5 DEF ResumeTurn
<1>9. CASE LoginTurn
  <2>1. Same
    BY <1>2, <1>9 DEF LoginTurn
  <2>2. Next1 \in Tasks /\ Next1.t = "login" /\ turn = NoTurn
    BY <1>0, <1>9, TakesFacts DEF LoginTurn
  <2>3. Next1.c \in Conns /\ [Next1 EXCEPT !.pc = "bound"].c = Next1.c
    BY <2>2, TaskFacts, TurnOf
  <2>4. PICK K \in SUBSET {d \in Conns : Known(d)} : CallsBind(Next1, K)
    BY <1>9 DEF LoginTurn, Kicked
  <2>5. /\ \A d \in Conns : gate[d] = "bound" => gate'[d] = "bound" \/ d \in notices'
        /\ \A d \in Conns : gate[d] = "none" => gate'[d] = "none"
        /\ notices \subseteq notices'
        /\ \/ turn' = turn
           \/ turn' = [Next1 EXCEPT !.pc = "bound"] /\ gate'[Next1.c] = "bound"
    BY <1>0, <2>2, <2>4, CallsBindKeeps
  <2>6. UNCHANGED <<mishaps, cl>>
    BY <1>9 DEF LoginTurn, history
  <2>7. session'.c \in {0, session.c}
    BY <1>9 DEF LoginTurn, Unbind, NoConn
  <2>8. StillKnown
    BY <2>1, <2>5, <2>6 DEF StillKnown
  <2>9. turn' = turn \/ (turn'.c \in Conns /\ gate'[turn'.c] = "bound")
    BY <2>3, <2>5
  <2> QED
    BY <2>6, <2>7, <2>8, <2>9, ConnKept
<1>10. CASE Resumes
  <2> DEFINE c == IF LiveConn = turn.c THEN 0 ELSE LiveConn
  <2>1. Kick(c) /\ UNCHANGED <<queue, mishaps, cl>>
    BY <1>10 DEF Resumes
  <2> HIDE DEF c
  <2>2. StillKnown
    BY <1>0, <2>1, KickKeeps DEF StillKnown
  <2>3. turn.pc = "bound" /\ session' = [c |-> turn.c, id |-> issued + 1] /\ turn' = NoTurn
    BY <1>10 DEF Resumes
  <2>4. session'.c = turn.c
    BY <2>3
  <2> QED
    BY <1>0, <2>1, <2>2, <2>3, <2>4, ConnKept
<1>11. CASE Binds
  <2>1. turn.pc = "bound" /\ session' = [c |-> turn.c, id |-> issued + 1] /\ turn' = NoTurn
    BY <1>11 DEF Binds
  <2>2. session'.c = turn.c
    BY <2>1
  <2>3. UNCHANGED <<gate, notices, queue, mishaps, cl>>
    BY <1>11 DEF Binds, history
  <2>4. StillKnown
    BY <2>3 DEF StillKnown
  <2> QED
    BY <1>0, <2>1, <2>2, <2>3, <2>4, ConnKept
<1>12. CASE Unload
  <2>1. Kick(LiveConn) /\ session' = NoConn /\ UNCHANGED <<queue, turn, mishaps, cl>>
    BY <1>12 DEF Unload, history
  <2>2. StillKnown
    BY <1>0, <2>1, KickKeeps DEF StillKnown
  <2> QED
    BY <2>1, <2>2, ConnKept DEF NoConn
<1>13. CASE Connect
  <2> DEFINE c == cl.opened + 1
  <2>1. c \in Conns /\ cl.opened \in 0 .. MaxConn
    <3>1. cl.opened \in 0 .. MaxConn /\ cl.opened < MaxConn
      BY <1>0, <1>13, ClientFacts DEF Connect
    <3> QED
      BY <3>1 DEF Conns
  <2>2. gate[c] = "none" /\ gate \in [Conns -> {"none", "open", "bound", "closed"}]
    <3>1. gate \in [Conns -> {"none", "open", "bound", "closed"}]
      BY <1>0 DEF TypeOK
    <3>2. c > cl.opened
      BY <2>1
    <3>3. c \in Conns
      BY <2>1
    <3> HIDE DEF c
    <3> QED
      BY <3>1, <3>2, <3>3 DEF ConnInv
  <2>3. gate' = [gate EXCEPT ![c] = "open"] /\ cl'.opened = c
    <3>1. cl \in Clients
      BY <1>0, ClientFacts
    <3> QED
      BY <1>13, <3>1 DEF Connect, Clients
  <2>4. UNCHANGED <<notices, mishaps, queue, session, turn>>
    BY <1>13 DEF Connect, server, history
  <2>5. \A d \in Conns : Accounted(d) => AccountedNext(d)
    BY <2>1, <2>2, <2>3, <2>4 DEF Accounted, AccountedNext
  <2>6. session.c \in 0 .. MaxConn /\ (turn.pc = "bound" => turn.c \in Conns)
    BY <1>0, TurnFacts DEF TypeOK
  <2>7. session'.c # 0 => AccountedNext(session'.c)
    BY <2>4, <2>5, <2>6 DEF ConnInv, Conns
  <2>8. turn'.pc = "bound" => AccountedNext(turn'.c)
    BY <2>4, <2>5, <2>6 DEF ConnInv
  <2>9. \A d \in Conns : d > cl'.opened => gate'[d] = "none"
    <3> SUFFICES ASSUME NEW d \in Conns, d > cl'.opened PROVE gate'[d] = "none"
      OBVIOUS
    <3>1. d > cl.opened /\ d # c
      BY <2>1, <2>3 DEF Conns
    <3> QED
      BY <2>2, <2>3, <3>1 DEF ConnInv
  <2> QED
    BY <2>7, <2>8, <2>9 DEF ConnInv, Accounted, AccountedNext
<1>14. ASSUME UNCHANGED <<gate, notices, queue, session, turn>>, mishaps \subseteq mishaps', cl'.opened = cl.opened
       PROVE  ConnInv'
  <2>1. StillKnown
    BY <1>14 DEF StillKnown
  <2> QED
    BY <1>14, <2>1, ConnKept
<1>15. CASE Client /\ ~Connect
  <2>1. cl \in Clients
    BY <1>0, ClientFacts
  <2>2. cl'.opened = cl.opened
    <3>1. CASE Drop \/ LoginFails \/ PingAnswered
      BY <2>1, <3>1 DEF Drop, LoginFails, PingAnswered, Dropped, Clients
    <3>2. CASE Call \/ Ping
      BY <2>1, <3>2 DEF Call, Ping, Clients
    <3>3. CASE Receive
      <4>1. Handled(Head(down)).opened = cl.opened
        BY <2>1 DEF Handled, Clients
      <4>2. cl' = Handled(Head(down)) \/ cl' = [Handled(Head(down)) EXCEPT !.recv = @ + 1]
        BY <3>3 DEF Receive
      <4>3. Head(down) \in Answer
        <5>1. down \in Seq(Answer) /\ down # << >>
          BY <1>0, <3>3 DEF Receive, TypeOK
        <5> QED
          BY <5>1
      <4>4. Handled(Head(down)) \in Clients
        BY <1>0, <4>3, HandledType
      <4> QED
        BY <4>1, <4>2, <4>4 DEF Clients
    <3>4. CASE ResumeSucceeds \/ ResumeFails \/ LoginSucceeds
      BY <2>1, <3>4 DEF ResumeSucceeds, ResumeFails, LoginSucceeds, Clients
    <3> QED
      BY <1>15, <3>1, <3>2, <3>3, <3>4 DEF Client
  <2>3. mishaps \subseteq mishaps'
    BY <1>15 DEF Client, Drop, Call, Ping, Receive, Takes, ResumeSucceeds, ResumeFails, LoginSucceeds,
       LoginFails, PingAnswered, history
  <2>4. UNCHANGED <<gate, notices, queue, session, turn>>
    BY <1>15 DEF Client, Drop, Call, Ping, Receive, ResumeSucceeds, ResumeFails, LoginSucceeds,
       LoginFails, PingAnswered, net, server
  <2> QED
    BY <1>14, <2>2, <2>3, <2>4
<1>16. CASE LoginReplies \/ UNCHANGED vars
  <2>1. UNCHANGED <<gate, notices, queue, session, turn, mishaps, cl>>
    BY <1>16 DEF LoginReplies, vars, net, server, history
  <2> QED
    BY <1>14, <2>1
<1>17. ASSUME NEW c \in Conns, GateForwards(c) PROVE ConnInv'
  <2> DEFINE m == Head(up[c])
  <2>1. m \in Messages /\ session.id \in Nat
    <3>1. up[c] \in Seq(Messages) /\ up[c] # << >> /\ session.id \in Nat
      BY <1>0, <1>17 DEF GateForwards, TypeOK
    <3> QED
      BY <3>1
  <2>2. EntityReceives(c, m) \/ LoginReceives(c, m)
    BY <1>17 DEF GateForwards
  <2> HIDE DEF m
  <2>3. queue' = queue \/ \E x \in Tasks : queue' = Append(queue, x)
    BY <2>1, <2>2, TaskOf DEF EntityReceives, LoginReceives, Queue
  <2>4. Same
    <3>1. CASE queue' = queue
      BY <3>1
    <3>2. ASSUME NEW x \in Tasks, queue' = Append(queue, x) PROVE Same
      <4>1. queue \in Seq(Tasks)
        BY <1>0 DEF TypeOK
      <4> QED BY <3>2, <4>1, WaitsAppend
    <3> QED BY <2>3, <3>1, <3>2
  <2>5. mishaps \subseteq mishaps'
    BY <2>2 DEF EntityReceives, LoginReceives, RecordAndSend
  <2>6. UNCHANGED <<gate, notices, session, turn, cl>>
    BY <1>17 DEF GateForwards
  <2>7. StillKnown
    BY <2>4, <2>5, <2>6 DEF StillKnown
  <2> QED
    BY <2>6, <2>7, ConnKept
<1>18. ASSUME NEW c \in Conns, Disconnect(c) PROVE ConnInv'
  <2>1. Kick(c) /\ UNCHANGED <<queue, session, turn, mishaps, cl>>
    BY <1>18 DEF Disconnect, server, history
  <2>2. StillKnown
    BY <1>0, <2>1, KickKeeps DEF StillKnown
  <2> QED
    BY <2>1, <2>2, ConnKept
<1>19. ASSUME NEW c \in Conns, NoticeArrives(c) PROVE ConnInv'
  <2>1. UNCHANGED <<gate, session, turn, cl>> /\ notices' = notices \ {c}
    BY <1>19 DEF NoticeArrives
  <2> DEFINE x == Task("closed", c, Message("closed", 0, 0, 0))
  <2>2. x \in Tasks /\ x.t = "closed" /\ x.c = c
    BY DEF Task, Message, Tasks
  <2> HIDE DEF x
  <2>3. CASE LiveConn = c
    <3>1. queue' = Append(queue, x) /\ mishaps' = mishaps
      BY <1>19, <2>3 DEF NoticeArrives, Queue, x
    <3>2. \A d \in Conns : Accounted(d) => AccountedNext(d)
      <4>1. Same /\ Waits(queue', c)
        BY <1>0, <2>2, <3>1, WaitsAppend
      <4> QED
        BY <2>1, <3>1, <4>1 DEF Accounted, AccountedNext, Waits
    <3>3. session.c \in 0 .. MaxConn /\ (turn.pc = "bound" => turn.c \in Conns)
      BY <1>0, TurnFacts DEF TypeOK
    <3>4. session'.c # 0 => AccountedNext(session'.c)
      BY <2>1, <3>2, <3>3 DEF ConnInv, Conns
    <3>5. turn'.pc = "bound" => AccountedNext(turn'.c)
      BY <2>1, <3>2, <3>3 DEF ConnInv
    <3>6. (\A d \in Conns : d > cl.opened => gate[d] = "none")'
      BY <2>1 DEF ConnInv
    <3> QED
      BY <3>4, <3>5, <3>6 DEF ConnInv, Accounted, AccountedNext
  <2>4. CASE LiveConn # c
    <3>1. queue' = queue /\ mishaps \subseteq mishaps'
      BY <1>19, <2>4 DEF NoticeArrives
    <3>2. turn.pc = "bound" /\ turn.c = c => "overtaken" \in mishaps'
      BY <1>19, <2>4 DEF NoticeArrives
    <3>3. \A d : d # c /\ Accounted(d) => AccountedNext(d)
      BY <2>1, <3>1 DEF Accounted, AccountedNext
    <3>4. session'.c # 0 => AccountedNext(session'.c)
      BY <2>1, <2>4, <3>3 DEF ConnInv, LiveConn
    <3>5. turn'.pc = "bound" => AccountedNext(turn'.c)
      BY <2>1, <3>2, <3>3 DEF ConnInv, AccountedNext
    <3>6. (\A d \in Conns : d > cl.opened => gate[d] = "none")'
      BY <2>1 DEF ConnInv
    <3> QED
      BY <3>4, <3>5, <3>6 DEF ConnInv, Accounted, AccountedNext
  <2> QED
    BY <2>3, <2>4
<1> QED
  BY <1>1, <1>3, <1>4, <1>5, <1>6, <1>7, <1>8, <1>9, <1>10, <1>11, <1>12, <1>13, <1>15, <1>16, <1>17,
     <1>18, <1>19 DEF Next, Entity

(* An entity whose connection is gone has been told, or will be, so that it     *)
(* does not keep a dead connection for its own: unless session_closed overtook  *)
(* the answer to bind (on_conn_closed in session.lua, closeclient in the gates). *)
THEOREM NoDeadConnAlways == Spec => []NoDeadConn
<1>1. Init => ConnInv
  BY DEF Init, ConnInv, NoConn, NoTurn
<1>2. Spec => [](TypeInv /\ ConnInv)
  BY <1>1, InitTypes, StepTypes, ConnStep, PTL DEF Spec
<1>3. ConnInv => NoDeadConn
  BY DEF ConnInv, Accounted, NoDeadConn, LiveConn
<1> QED
  BY <1>2, <1>3, PTL
=============================================================================
