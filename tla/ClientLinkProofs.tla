-------------------------- MODULE ClientLinkProofs --------------------------
(***************************************************************************)
(* ClientLink's types and its safety invariants, for any number of gates,   *)
(* sockets, calls and missed pings.                                         *)
(*                                                                         *)
(* That no socket is left behind rests on what establish may take for       *)
(* granted while it waits: supervisor calls it only while there is no       *)
(* connection, so that the one it makes replaces none (Establishing); and   *)
(* an answer is handled in the task in which it arrives, so that its        *)
(* connection is still the client's when the handshake goes on (Handed).    *)
(***************************************************************************)
EXTENDS ClientLink, TLAPS

ClType == [closed : BOOLEAN, conn : Socks \cup {None}, online : BOOLEAN, nonce : {"none", "fresh"}]
EstType == [pc : {"off", "gates", "connect", "resume", "param", "login", "sleep", "done"},
            first : BOOLEAN, list : Lists, c : Socks \cup {None},
            ans : {"none", "wait", "ok", "bad", "null"}]
HbType == [pc : {"off", "sleep", "ping", "done"}, misses : 0 .. Tolerance - 1,
           c : Socks \cup {None}, ans : {"none", "wait", "same", "other", "null"}]
CallType == [Calls -> {"new", "queued", "sent", "done", "failed"}]
SockType == [Socks -> {"opening", "open", "hole", "closing", "dead"}]

(* While establish looks for a connection there is none; while it makes its  *)
(* handshake, there is its own or none.                                      *)
Establishing ==
    /\ est.pc \in {"off", "gates", "connect"} => cl.conn = None
    /\ est.pc \in {"connect", "resume", "param", "login"} => est.c \in Socks
    /\ est.pc \in {"resume", "param", "login"} => cl.conn \in {None, est.c}

(* Between an answer and what follows it, nothing happens. *)
Handed ==
    /\ est.ans # "none" => est.pc \in {"resume", "login"}
    /\ est.ans \in {"ok", "bad"} => cl.conn = est.c /\ hb.ans \in {"none", "wait"}

IInv == TypeOK /\ NoLeak /\ ConnNotDead /\ ClosedForGood /\ Establishing /\ Handed

Safe == NoLeak /\ ConnNotDead /\ ClosedForGood /\ Establishing /\ Handed

-----------------------------------------------------------------------------
(* The pieces *)

LEMMA Types ==
    TypeOK <=> /\ cl \in ClType /\ est \in EstType /\ hb \in HbType /\ calls \in CallType
               /\ sock \in SockType /\ cached \in Lists /\ named \in Lists /\ calm \in BOOLEAN
BY DEF TypeOK, ClType, EstType, HbType, CallType, SockType

LEMMA TypesNext ==
    ASSUME cl' \in ClType, est' \in EstType, hb' \in HbType, calls' \in CallType,
           sock' \in SockType, cached' \in Lists, named' \in Lists, calm' \in BOOLEAN
    PROVE  TypeOK'
BY DEF TypeOK, ClType, EstType, HbType, CallType, SockType

(* What is left of a list is a list. *)
LEMMA TailIsList ==
    ASSUME NEW l \in Lists, Len(l) > 1
    PROVE  Tail(l) \in Lists
<1>1. CASE l = <<>>
  BY <1>1
<1>2. CASE \E g \in Gates : l = <<g>>
  BY <1>2
<1>3. CASE \E g, h \in Gates : l = <<g, h>>
  <2>1. PICK g \in Gates, h \in Gates : l = <<g, h>>
    BY <1>3
  <2>2. Tail(l) = <<h>>
    BY <2>1
  <2> QED BY <2>2 DEF Lists
<1> QED BY <1>1, <1>2, <1>3 DEF Lists

LEMMA EmptyIsList == <<>> \in Lists
BY DEF Lists

LEMMA NoneIsNoSock == None \notin Socks
BY LinkAssumption

(* establish returns: it waits for nothing, and is called again at once only *)
(* by a supervisor that begins, of a client that is not closed.              *)
LEMMA ReturnsFacts ==
    ASSUME NEW ok \in BOOLEAN, est \in EstType, hb \in HbType, cl \in ClType, Returns(ok)
    PROVE  /\ est' \in EstType /\ hb' \in HbType
           /\ est'.pc \in {"sleep", "done", "gates"}
           /\ est'.pc = "gates" => ~ok
           /\ est'.ans = "none" /\ est'.c = None
<1> DEFINE next == CASE ~est.first \/ ok              -> "sleep"
                     [] est.first /\ ~ok /\ cl.closed  -> "done"
                     [] est.first /\ ~ok /\ ~cl.closed -> "gates"
<1>1. next \in {"sleep", "done", "gates"} /\ (next = "gates" => ~ok)
  BY DEF EstType, ClType
<1>2. est' = [est EXCEPT !.pc = next, !.first = FALSE, !.list = <<>>, !.c = None, !.ans = "none"]
  BY DEF Returns
<1>3. est' \in EstType /\ est'.pc = next /\ est'.ans = "none" /\ est'.c = None
  <2> HIDE DEF next
  <2> QED BY <1>1, <1>2, EmptyIsList DEF EstType
<1>4. hb' \in HbType
  <2>1. Nulled(hb) \in HbType
    BY DEF Nulled, HbType
  <2> QED BY <2>1 DEF Returns, HbType
<1> QED BY <1>1, <1>3, <1>4

(* drop: the connection is the client's no more, and is closed. *)
LEMMA DroppedFacts ==
    ASSUME NEW s \in Socks \cup {None}, IInv, Dropped(s)
    PROVE  /\ cl' \in ClType /\ sock' \in SockType /\ calls' \in CallType
           /\ cl'.conn \in {None, cl.conn} /\ (cl.conn = s => cl'.conn = None)
           /\ cl'.closed = cl.closed
           /\ cl'.online => cl.online /\ cl'.conn = cl.conn
           /\ \A t \in Socks : sock'[t] = sock[t] \/ (sock'[t] = "closing" /\ t = cl.conn /\ cl'.conn = None)
           /\ \A t \in Socks : sock'[t] \in {"opening", "open", "hole"} /\ t = cl.conn => cl'.conn = cl.conn
<1> USE NoneIsNoSock
<1>0. cl \in ClType /\ calls \in CallType /\ sock \in SockType
  BY Types DEF IInv
<1>1. CASE IsConn(s)
  <2>1. cl' = [cl EXCEPT !.conn = None, !.online = FALSE] /\ sock' = SockClosed(cl.conn) /\ calls' = Unsent
    BY <1>1 DEF Dropped
  <2>2. calls' \in CallType
    BY <2>1, <1>0 DEF CallType, Unsent
  <2>3. cl.conn \in Socks /\ cl.conn = s /\ Live(cl.conn)
    BY <1>1, <1>0 DEF IsConn, IInv, ConnNotDead, ClType
  <2>4. sock' = [sock EXCEPT ![s] = "closing"]
    BY <2>1, <2>3 DEF SockClosed
  <2>5. sock' \in SockType /\ \A t \in Socks : sock'[t] = IF t = s THEN "closing" ELSE sock[t]
    BY <2>4, <1>0 DEF SockType
  <2>6. cl' \in ClType /\ cl'.conn = None /\ ~cl'.online /\ cl'.closed = cl.closed
    BY <2>1, <1>0 DEF ClType
  <2> QED BY <2>2, <2>3, <2>5, <2>6
<1>2. CASE ~IsConn(s)
  <2>1. cl' = cl /\ sock' = sock /\ calls' = calls
    BY <1>2 DEF Dropped
  <2>2. cl.conn = s => cl.conn = None
    BY <1>2 DEF IsConn
  <2> QED BY <2>1, <2>2, <1>0
<1> QED BY <1>1, <1>2

LEMMA NoMisses == 0 \in 0 .. Tolerance - 1
BY LinkAssumption

LEMMA BeatenType ==
    ASSUME NEW n \in 0 .. Tolerance - 1, hb \in HbType, Beaten(n)
    PROVE  hb' \in HbType /\ hb'.ans = "none"
<1>1. {"sleep", "done"} \subseteq {"off", "sleep", "ping", "done"}
  OBVIOUS
<1> QED BY <1>1 DEF Beaten, HbType

LEMMA SockClosedType ==
    ASSUME NEW s \in Socks \cup {None}, sock \in SockType
    PROVE  /\ SockClosed(s) \in SockType
           /\ \A t \in Socks : SockClosed(s)[t] = IF t = s /\ sock[s] \in {"open", "hole"} THEN "closing" ELSE sock[t]
BY NoneIsNoSock DEF SockClosed, SockType, Live

-----------------------------------------------------------------------------
(* Every action keeps the invariant *)

LEMMA StartKeeps ==
    ASSUME IInv, Start
    PROVE  IInv'
<1> USE NoneIsNoSock
<1>0. /\ cl \in ClType /\ est \in EstType /\ hb \in HbType /\ calls \in CallType
      /\ sock \in SockType /\ cached \in Lists /\ named \in Lists /\ calm \in BOOLEAN
  BY Types DEF IInv
<1>8. TypeOK'
  <2>1. /\ cl' \in ClType /\ est' \in EstType /\ hb' \in HbType /\ calls' \in CallType
        /\ sock' \in SockType
    BY <1>0 DEF Start, ClType, EstType, HbType, CallType, SockType
  <2>2. cached' \in Lists /\ named' \in Lists /\ calm' \in BOOLEAN
    BY <1>0 DEF Start
  <2> QED BY <2>1, <2>2, TypesNext
<1>9. Safe'
  BY <1>0 DEF Start, IInv, Safe, NoLeak, ConnNotDead, ClosedForGood, Establishing, Handed, Live, ClType, EstType, HbType, SockType
<1> QED BY <1>8, <1>9 DEF IInv, Safe

LEMMA SockOpensKeeps ==
    ASSUME IInv, SockOpens
    PROVE  IInv'
<1> USE NoneIsNoSock
<1>0. /\ cl \in ClType /\ est \in EstType /\ hb \in HbType /\ calls \in CallType
      /\ sock \in SockType /\ cached \in Lists /\ named \in Lists /\ calm \in BOOLEAN
  BY Types DEF IInv
<1>1. est.c \in Socks
  BY DEF SockOpens, IInv, Establishing
<1>8. TypeOK'
  <2>1. /\ cl' \in ClType /\ est' \in EstType /\ hb' \in HbType /\ calls' \in CallType
        /\ sock' \in SockType
    BY <1>0, <1>1 DEF SockOpens, ClType, EstType, HbType, CallType, SockType
  <2>2. cached' \in Lists /\ named' \in Lists /\ calm' \in BOOLEAN
    BY <1>0, <1>1 DEF SockOpens
  <2> QED BY <2>1, <2>2, TypesNext
<1>9. Safe'
  BY <1>0, <1>1 DEF SockOpens, IInv, Safe, NoLeak, ConnNotDead, ClosedForGood, Establishing, Handed, Live, ClType, EstType, HbType, SockType
<1> QED BY <1>8, <1>9 DEF IInv, Safe

LEMMA HandshakeAnsweredKeeps ==
    ASSUME IInv, HandshakeAnswered
    PROVE  IInv'
<1> USE NoneIsNoSock
<1>0. /\ cl \in ClType /\ est \in EstType /\ hb \in HbType /\ calls \in CallType
      /\ sock \in SockType /\ cached \in Lists /\ named \in Lists /\ calm \in BOOLEAN
  BY Types DEF IInv
<1>8. TypeOK'
  <2>1. /\ cl' \in ClType /\ est' \in EstType /\ hb' \in HbType /\ calls' \in CallType
        /\ sock' \in SockType
    BY <1>0 DEF HandshakeAnswered, ClType, EstType, HbType, CallType, SockType, Settled, MayAnswer, Handles
  <2>2. cached' \in Lists /\ named' \in Lists /\ calm' \in BOOLEAN
    BY <1>0 DEF HandshakeAnswered
  <2> QED BY <2>1, <2>2, TypesNext
<1>9. Safe'
  BY <1>0 DEF HandshakeAnswered, IInv, Safe, NoLeak, ConnNotDead, ClosedForGood, Establishing, Handed, Live, ClType, EstType, HbType, SockType, Settled, MayAnswer, Handles
<1> QED BY <1>8, <1>9 DEF IInv, Safe

LEMMA HandshakeTimesOutKeeps ==
    ASSUME IInv, HandshakeTimesOut
    PROVE  IInv'
<1> USE NoneIsNoSock
<1>0. /\ cl \in ClType /\ est \in EstType /\ hb \in HbType /\ calls \in CallType
      /\ sock \in SockType /\ cached \in Lists /\ named \in Lists /\ calm \in BOOLEAN
  BY Types DEF IInv
<1>8. TypeOK'
  <2>1. /\ cl' \in ClType /\ est' \in EstType /\ hb' \in HbType /\ calls' \in CallType
        /\ sock' \in SockType
    BY <1>0 DEF HandshakeTimesOut, ClType, EstType, HbType, CallType, SockType, Settled
  <2>2. cached' \in Lists /\ named' \in Lists /\ calm' \in BOOLEAN
    BY <1>0 DEF HandshakeTimesOut
  <2> QED BY <2>1, <2>2, TypesNext
<1>9. Safe'
  BY <1>0 DEF HandshakeTimesOut, IInv, Safe, NoLeak, ConnNotDead, ClosedForGood, Establishing, Handed, Live, ClType, EstType, HbType, SockType, Settled
<1> QED BY <1>8, <1>9 DEF IInv, Safe

LEMMA ParamGivenKeeps ==
    ASSUME IInv, ParamGiven
    PROVE  IInv'
<1> USE NoneIsNoSock
<1>0. /\ cl \in ClType /\ est \in EstType /\ hb \in HbType /\ calls \in CallType
      /\ sock \in SockType /\ cached \in Lists /\ named \in Lists /\ calm \in BOOLEAN
  BY Types DEF IInv
<1>8. TypeOK'
  <2>1. /\ cl' \in ClType /\ est' \in EstType /\ hb' \in HbType /\ calls' \in CallType
        /\ sock' \in SockType
    BY <1>0 DEF ParamGiven, ClType, EstType, HbType, CallType, SockType, Settled
  <2>2. cached' \in Lists /\ named' \in Lists /\ calm' \in BOOLEAN
    BY <1>0 DEF ParamGiven
  <2> QED BY <2>1, <2>2, TypesNext
<1>9. Safe'
  BY <1>0 DEF ParamGiven, IInv, Safe, NoLeak, ConnNotDead, ClosedForGood, Establishing, Handed, Live, ClType, EstType, HbType, SockType, Settled
<1> QED BY <1>8, <1>9 DEF IInv, Safe

LEMMA WakesKeeps ==
    ASSUME IInv, Wakes
    PROVE  IInv'
<1> USE NoneIsNoSock
<1>0. /\ cl \in ClType /\ est \in EstType /\ hb \in HbType /\ calls \in CallType
      /\ sock \in SockType /\ cached \in Lists /\ named \in Lists /\ calm \in BOOLEAN
  BY Types DEF IInv
<1>8. TypeOK'
  <2>1. /\ cl' \in ClType /\ est' \in EstType /\ hb' \in HbType /\ calls' \in CallType
        /\ sock' \in SockType
    BY <1>0 DEF Wakes, ClType, EstType, HbType, CallType, SockType, Settled
  <2>2. cached' \in Lists /\ named' \in Lists /\ calm' \in BOOLEAN
    BY <1>0 DEF Wakes
  <2> QED BY <2>1, <2>2, TypesNext
<1>9. Safe'
  BY <1>0 DEF Wakes, IInv, Safe, NoLeak, ConnNotDead, ClosedForGood, Establishing, Handed, Live, ClType, EstType, HbType, SockType, Settled
<1> QED BY <1>8, <1>9 DEF IInv, Safe

LEMMA PingSentKeeps ==
    ASSUME IInv, PingSent
    PROVE  IInv'
<1> USE NoneIsNoSock
<1>0. /\ cl \in ClType /\ est \in EstType /\ hb \in HbType /\ calls \in CallType
      /\ sock \in SockType /\ cached \in Lists /\ named \in Lists /\ calm \in BOOLEAN
  BY Types DEF IInv
<1>8. TypeOK'
  <2>1. /\ cl' \in ClType /\ est' \in EstType /\ hb' \in HbType /\ calls' \in CallType
        /\ sock' \in SockType
    BY <1>0 DEF PingSent, ClType, EstType, HbType, CallType, SockType, Settled
  <2>2. cached' \in Lists /\ named' \in Lists /\ calm' \in BOOLEAN
    BY <1>0 DEF PingSent
  <2> QED BY <2>1, <2>2, TypesNext
<1>9. Safe'
  BY <1>0 DEF PingSent, IInv, Safe, NoLeak, ConnNotDead, ClosedForGood, Establishing, Handed, Live, ClType, EstType, HbType, SockType, Settled
<1> QED BY <1>8, <1>9 DEF IInv, Safe

LEMMA PingAnsweredKeeps ==
    ASSUME IInv, PingAnswered
    PROVE  IInv'
<1> USE NoneIsNoSock
<1>0. /\ cl \in ClType /\ est \in EstType /\ hb \in HbType /\ calls \in CallType
      /\ sock \in SockType /\ cached \in Lists /\ named \in Lists /\ calm \in BOOLEAN
  BY Types DEF IInv
<1>8. TypeOK'
  <2>1. /\ cl' \in ClType /\ est' \in EstType /\ hb' \in HbType /\ calls' \in CallType
        /\ sock' \in SockType
    BY <1>0 DEF PingAnswered, ClType, EstType, HbType, CallType, SockType, Settled
  <2>2. cached' \in Lists /\ named' \in Lists /\ calm' \in BOOLEAN
    BY <1>0 DEF PingAnswered
  <2> QED BY <2>1, <2>2, TypesNext
<1>9. Safe'
  BY <1>0 DEF PingAnswered, IInv, Safe, NoLeak, ConnNotDead, ClosedForGood, Establishing, Handed, Live, ClType, EstType, HbType, SockType, Settled
<1> QED BY <1>8, <1>9 DEF IInv, Safe

LEMMA PingTimesOutKeeps ==
    ASSUME IInv, PingTimesOut
    PROVE  IInv'
<1> USE NoneIsNoSock
<1>0. /\ cl \in ClType /\ est \in EstType /\ hb \in HbType /\ calls \in CallType
      /\ sock \in SockType /\ cached \in Lists /\ named \in Lists /\ calm \in BOOLEAN
  BY Types DEF IInv
<1>8. TypeOK'
  <2>1. /\ cl' \in ClType /\ est' \in EstType /\ hb' \in HbType /\ calls' \in CallType
        /\ sock' \in SockType
    BY <1>0 DEF PingTimesOut, ClType, EstType, HbType, CallType, SockType, Settled
  <2>2. cached' \in Lists /\ named' \in Lists /\ calm' \in BOOLEAN
    BY <1>0 DEF PingTimesOut
  <2> QED BY <2>1, <2>2, TypesNext
<1>9. Safe'
  BY <1>0 DEF PingTimesOut, IInv, Safe, NoLeak, ConnNotDead, ClosedForGood, Establishing, Handed, Live, ClType, EstType, HbType, SockType, Settled
<1> QED BY <1>8, <1>9 DEF IInv, Safe

LEMMA ResumeFailsKeeps ==
    ASSUME IInv, ResumeFails
    PROVE  IInv'
<1> USE NoneIsNoSock
<1>0. /\ cl \in ClType /\ est \in EstType /\ hb \in HbType /\ calls \in CallType
      /\ sock \in SockType /\ cached \in Lists /\ named \in Lists /\ calm \in BOOLEAN
  BY Types DEF IInv
<1>8. TypeOK'
  <2>1. /\ cl' \in ClType /\ est' \in EstType /\ hb' \in HbType /\ calls' \in CallType
        /\ sock' \in SockType
    BY <1>0 DEF ResumeFails, ClType, EstType, HbType, CallType, SockType
  <2>2. cached' \in Lists /\ named' \in Lists /\ calm' \in BOOLEAN
    BY <1>0 DEF ResumeFails
  <2> QED BY <2>1, <2>2, TypesNext
<1>9. Safe'
  BY <1>0 DEF ResumeFails, IInv, Safe, NoLeak, ConnNotDead, ClosedForGood, Establishing, Handed, Live, ClType, EstType, HbType, SockType
<1> QED BY <1>8, <1>9 DEF IInv, Safe

LEMMA CalmsDownKeeps ==
    ASSUME IInv, CalmsDown
    PROVE  IInv'
<1> USE NoneIsNoSock
<1>0. /\ cl \in ClType /\ est \in EstType /\ hb \in HbType /\ calls \in CallType
      /\ sock \in SockType /\ cached \in Lists /\ named \in Lists /\ calm \in BOOLEAN
  BY Types DEF IInv
<1>8. TypeOK'
  <2>1. /\ cl' \in ClType /\ est' \in EstType /\ hb' \in HbType /\ calls' \in CallType
        /\ sock' \in SockType
    BY <1>0 DEF CalmsDown, ClType, EstType, HbType, CallType, SockType
  <2>2. cached' \in Lists /\ named' \in Lists /\ calm' \in BOOLEAN
    BY <1>0 DEF CalmsDown
  <2> QED BY <2>1, <2>2, TypesNext
<1>9. Safe'
  BY <1>0 DEF CalmsDown, IInv, Safe, NoLeak, ConnNotDead, ClosedForGood, Establishing, Handed, Live, ClType, EstType, HbType, SockType
<1> QED BY <1>8, <1>9 DEF IInv, Safe

LEMMA InvalidateNonceKeeps ==
    ASSUME IInv, InvalidateNonce
    PROVE  IInv'
<1> USE NoneIsNoSock
<1>0. /\ cl \in ClType /\ est \in EstType /\ hb \in HbType /\ calls \in CallType
      /\ sock \in SockType /\ cached \in Lists /\ named \in Lists /\ calm \in BOOLEAN
  BY Types DEF IInv
<1>8. TypeOK'
  <2>1. /\ cl' \in ClType /\ est' \in EstType /\ hb' \in HbType /\ calls' \in CallType
        /\ sock' \in SockType
    BY <1>0 DEF InvalidateNonce, ClType, EstType, HbType, CallType, SockType, Settled
  <2>2. cached' \in Lists /\ named' \in Lists /\ calm' \in BOOLEAN
    BY <1>0 DEF InvalidateNonce
  <2> QED BY <2>1, <2>2, TypesNext
<1>9. Safe'
  BY <1>0 DEF InvalidateNonce, IInv, Safe, NoLeak, ConnNotDead, ClosedForGood, Establishing, Handed, Live, ClType, EstType, HbType, SockType, Settled
<1> QED BY <1>8, <1>9 DEF IInv, Safe

LEMMA BlackHoleKeeps ==
    ASSUME IInv, NEW s \in Socks, BlackHole(s)
    PROVE  IInv'
<1> USE NoneIsNoSock
<1>0. /\ cl \in ClType /\ est \in EstType /\ hb \in HbType /\ calls \in CallType
      /\ sock \in SockType /\ cached \in Lists /\ named \in Lists /\ calm \in BOOLEAN
  BY Types DEF IInv
<1>8. TypeOK'
  <2>1. /\ cl' \in ClType /\ est' \in EstType /\ hb' \in HbType /\ calls' \in CallType
        /\ sock' \in SockType
    BY <1>0 DEF BlackHole, ClType, EstType, HbType, CallType, SockType
  <2>2. cached' \in Lists /\ named' \in Lists /\ calm' \in BOOLEAN
    BY <1>0 DEF BlackHole
  <2> QED BY <2>1, <2>2, TypesNext
<1>9. Safe'
  BY <1>0 DEF BlackHole, IInv, Safe, NoLeak, ConnNotDead, ClosedForGood, Establishing, Handed, Live, ClType, EstType, HbType, SockType
<1> QED BY <1>8, <1>9 DEF IInv, Safe

LEMMA CallAnsweredKeeps ==
    ASSUME IInv, NEW k \in Calls, CallAnswered(k)
    PROVE  IInv'
<1> USE NoneIsNoSock
<1>0. /\ cl \in ClType /\ est \in EstType /\ hb \in HbType /\ calls \in CallType
      /\ sock \in SockType /\ cached \in Lists /\ named \in Lists /\ calm \in BOOLEAN
  BY Types DEF IInv
<1>8. TypeOK'
  <2>1. /\ cl' \in ClType /\ est' \in EstType /\ hb' \in HbType /\ calls' \in CallType
        /\ sock' \in SockType
    BY <1>0 DEF CallAnswered, ClType, EstType, HbType, CallType, SockType, Settled
  <2>2. cached' \in Lists /\ named' \in Lists /\ calm' \in BOOLEAN
    BY <1>0 DEF CallAnswered
  <2> QED BY <2>1, <2>2, TypesNext
<1>9. Safe'
  BY <1>0 DEF CallAnswered, IInv, Safe, NoLeak, ConnNotDead, ClosedForGood, Establishing, Handed, Live, ClType, EstType, HbType, SockType, Settled
<1> QED BY <1>8, <1>9 DEF IInv, Safe

LEMMA CallKeeps ==
    ASSUME IInv, NEW k \in Calls, Call(k)
    PROVE  IInv'
<1> USE NoneIsNoSock
<1>0. /\ cl \in ClType /\ est \in EstType /\ hb \in HbType /\ calls \in CallType
      /\ sock \in SockType /\ cached \in Lists /\ named \in Lists /\ calm \in BOOLEAN
  BY Types DEF IInv
<1>8. TypeOK'
  <2>1. /\ cl' \in ClType /\ est' \in EstType /\ hb' \in HbType /\ calls' \in CallType
        /\ sock' \in SockType
    BY <1>0 DEF Call, ClType, EstType, HbType, CallType, SockType, Settled
  <2>2. cached' \in Lists /\ named' \in Lists /\ calm' \in BOOLEAN
    BY <1>0 DEF Call
  <2> QED BY <2>1, <2>2, TypesNext
<1>9. Safe'
  BY <1>0 DEF Call, IInv, Safe, NoLeak, ConnNotDead, ClosedForGood, Establishing, Handed, Live, ClType, EstType, HbType, SockType, Settled
<1> QED BY <1>8, <1>9 DEF IInv, Safe

(* Returns, after a failure in which the connection is dropped.              *)
LEMMA GivesUpKeeps ==
    ASSUME IInv, est.pc \in {"param", "login"}, Returns(FALSE), Dropped(est.c), UNCHANGED <<cached, named, calm>>
    PROVE  IInv'
<1> USE NoneIsNoSock
<1>0. /\ cl \in ClType /\ est \in EstType /\ hb \in HbType /\ calls \in CallType
      /\ sock \in SockType /\ cached \in Lists /\ named \in Lists /\ calm \in BOOLEAN
  BY Types DEF IInv
<1>1. est.c \in Socks /\ cl.conn \in {None, est.c}
  BY DEF IInv, Establishing
<1>2. /\ est' \in EstType /\ hb' \in HbType
      /\ est'.pc \in {"sleep", "done", "gates"} /\ est'.ans = "none"
  BY <1>0, ReturnsFacts
<1>3. /\ cl' \in ClType /\ sock' \in SockType /\ calls' \in CallType
      /\ cl'.conn = None /\ cl'.closed = cl.closed /\ ~cl'.online
      /\ \A t \in Socks : sock'[t] \in {"opening", "open", "hole"} => t # cl.conn /\ sock'[t] = sock[t]
  <2>1. /\ cl' \in ClType /\ sock' \in SockType /\ calls' \in CallType
        /\ cl'.conn \in {None, cl.conn} /\ (cl.conn = est.c => cl'.conn = None)
        /\ cl'.closed = cl.closed
        /\ cl'.online => cl.online /\ cl'.conn = cl.conn
        /\ \A t \in Socks : sock'[t] = sock[t] \/ (sock'[t] = "closing" /\ t = cl.conn /\ cl'.conn = None)
        /\ \A t \in Socks : sock'[t] \in {"opening", "open", "hole"} /\ t = cl.conn => cl'.conn = cl.conn
    BY <1>1, DroppedFacts
  <2> QED BY <2>1, <1>1 DEF IInv, ConnNotDead
<1>8. TypeOK'
  <2>1. cached' \in Lists /\ named' \in Lists /\ calm' \in BOOLEAN
    BY <1>0
  <2> QED BY <2>1, <1>2, <1>3, TypesNext
<1>9. Safe'
  BY <1>1, <1>2, <1>3 DEF IInv, Safe, NoLeak, ConnNotDead, ClosedForGood, Establishing, Handed, Live
<1> QED BY <1>8, <1>9 DEF IInv, Safe

LEMMA ParamFailsKeeps ==
    ASSUME IInv, ParamFails
    PROVE  IInv'
BY GivesUpKeeps DEF ParamFails

LEMMA LoginFailsKeeps ==
    ASSUME IInv, LoginFails
    PROVE  IInv'
BY GivesUpKeeps DEF LoginFails

(* resume or login has succeeded *)
LEMMA SucceedsKeeps ==
    ASSUME IInv, est.ans = "ok", Returns(TRUE), calls' \in CallType,
           cl' = [cl EXCEPT !.nonce = "fresh", !.online = TRUE],
           UNCHANGED <<sock, cached, named, calm>>
    PROVE  IInv'
<1> USE NoneIsNoSock
<1>0. /\ cl \in ClType /\ est \in EstType /\ hb \in HbType /\ calls \in CallType
      /\ sock \in SockType /\ cached \in Lists /\ named \in Lists /\ calm \in BOOLEAN
  BY Types DEF IInv
<1>1. est.pc \in {"resume", "login"} /\ cl.conn = est.c /\ est.c \in Socks
  BY DEF IInv, Establishing, Handed
<1>2. /\ est' \in EstType /\ hb' \in HbType
      /\ est'.pc \in {"sleep", "done"} /\ est'.ans = "none"
  BY <1>0, ReturnsFacts
<1>3. /\ cl' \in ClType /\ cl'.conn = cl.conn /\ cl'.closed = cl.closed
  BY <1>0 DEF ClType
<1>8. TypeOK'
  <2>1. sock' \in SockType /\ cached' \in Lists /\ named' \in Lists /\ calm' \in BOOLEAN
    BY <1>0
  <2> QED BY <2>1, <1>2, <1>3, TypesNext
<1>9. Safe'
  BY <1>0, <1>1, <1>2, <1>3 DEF IInv, Safe, NoLeak, ConnNotDead, ClosedForGood, Establishing, Handed, Live
<1> QED BY <1>8, <1>9 DEF IInv, Safe

LEMMA ResumeSucceedsKeeps ==
    ASSUME IInv, ResumeSucceeds
    PROVE  IInv'
<1>1. Resent \in CallType
  BY Types DEF IInv, Resent, CallType
<1> QED BY <1>1, SucceedsKeeps DEF ResumeSucceeds

LEMMA LoginSucceedsKeeps ==
    ASSUME IInv, LoginSucceeds
    PROVE  IInv'
<1>1. Failed \in CallType
  BY Types DEF IInv, Failed, CallType
<1> QED BY <1>1, SucceedsKeeps DEF LoginSucceeds

(* establish returns without a connection: there was none to begin with.     *)
LEMMA ReturnsEmptyKeeps ==
    ASSUME IInv, est.pc \in {"gates", "connect"}, Returns(FALSE), UNCHANGED <<cl, calls, calm>>,
           cached' \in Lists, named' \in Lists, sock' \in SockType,
           \A t \in Socks : sock'[t] = sock[t] \/ sock'[t] \in {"closing", "dead"},
           est.pc = "connect" => sock'[est.c] \in {"closing", "dead"}
    PROVE  IInv'
<1> USE NoneIsNoSock
<1>0. /\ cl \in ClType /\ est \in EstType /\ hb \in HbType /\ calls \in CallType
      /\ sock \in SockType /\ cached \in Lists /\ named \in Lists /\ calm \in BOOLEAN
  BY Types DEF IInv
<1>1. cl.conn = None /\ (est.pc = "connect" => est.c \in Socks)
  BY DEF IInv, Establishing
<1>2. /\ est' \in EstType /\ hb' \in HbType
      /\ est'.pc \in {"sleep", "done", "gates"} /\ est'.ans = "none"
  BY <1>0, ReturnsFacts
<1>8. TypeOK'
  <2>1. cl' \in ClType /\ calls' \in CallType /\ calm' \in BOOLEAN
    BY <1>0
  <2> QED BY <2>1, <1>2, TypesNext
<1>9. Safe'
  <2>1. \A t \in Socks : sock'[t] \notin {"opening", "open", "hole"}
    BY <1>0, <1>1 DEF IInv, NoLeak
  <2> QED BY <2>1, <1>0, <1>1, <1>2 DEF IInv, Safe, NoLeak, ConnNotDead, ClosedForGood, Establishing, Handed, Live
<1> QED BY <1>8, <1>9 DEF IInv, Safe

(* establish tries a gate with a socket that nobody uses.                    *)
LEMMA TriesGateKeeps ==
    ASSUME IInv, est.pc \in {"gates", "connect"}, UNCHANGED <<cl, hb, calls, calm>>,
           NEW s \in Socks, est' \in EstType, est'.pc = "connect", est'.c = s, est'.ans = est.ans,
           cached' \in Lists, named' \in Lists, sock' \in SockType,
           \A t \in Socks \ {s} : sock'[t] = IF est.pc = "connect" /\ t = est.c THEN "dead" ELSE sock[t]
    PROVE  IInv'
<1> USE NoneIsNoSock
<1>0. /\ cl \in ClType /\ est \in EstType /\ hb \in HbType /\ calls \in CallType
      /\ sock \in SockType /\ cached \in Lists /\ named \in Lists /\ calm \in BOOLEAN
  BY Types DEF IInv
<1>1. cl.conn = None
  BY DEF IInv, Establishing
<1>2. est.ans = "none"
  BY <1>0 DEF IInv, Handed, EstType
<1>8. TypeOK'
  <2>1. cl' \in ClType /\ hb' \in HbType /\ calls' \in CallType /\ calm' \in BOOLEAN
    BY <1>0
  <2> QED BY <2>1, TypesNext
<1>9. Safe'
  <2>1. \A t \in Socks \ {s} : sock'[t] \notin {"opening", "open", "hole"}
    BY <1>0, <1>1 DEF IInv, NoLeak
  <2> QED BY <2>1, <1>0, <1>1, <1>2 DEF IInv, Safe, NoLeak, ConnNotDead, ClosedForGood, Establishing, Handed, Live
<1> QED BY <1>8, <1>9 DEF IInv, Safe

LEMMA EndpointsResolvedKeeps ==
    ASSUME IInv, EndpointsResolved
    PROVE  IInv'
<1>0. /\ cl \in ClType /\ est \in EstType /\ hb \in HbType /\ calls \in CallType
      /\ sock \in SockType /\ cached \in Lists /\ named \in Lists /\ calm \in BOOLEAN
  BY Types DEF IInv
<1>1. PICK fresh \in Lists :
        /\ named' = IF fresh # <<>> THEN fresh ELSE named
        /\ cached' = Caches(fresh)
        /\ IF cached' # <<>> THEN Opens(cached') ELSE Returns(FALSE) /\ UNCHANGED sock
  BY DEF EndpointsResolved
<1>2. est.pc = "gates" /\ UNCHANGED <<cl, calls, calm>>
  BY DEF EndpointsResolved
<1>3. cached' \in Lists /\ named' \in Lists
  BY <1>0, <1>1 DEF Caches
<1>4. CASE cached' # <<>>
  <2>1. PICK s \in Socks :
          /\ sock' = [sock EXCEPT ![s] = "opening"]
          /\ est' = [est EXCEPT !.pc = "connect", !.list = cached', !.c = s]
          /\ UNCHANGED hb
    BY <1>1, <1>4 DEF Opens
  <2>2. est' \in EstType /\ est'.pc = "connect" /\ est'.c = s /\ est'.ans = est.ans
    BY <2>1, <1>0, <1>3 DEF EstType
  <2>3. sock' \in SockType /\ \A t \in Socks \ {s} : sock'[t] = sock[t]
    BY <2>1, <1>0 DEF SockType
  <2> QED BY <1>2, <1>3, <2>1, <2>2, <2>3, TriesGateKeeps
<1>5. CASE cached' = <<>>
  BY <1>0, <1>1, <1>2, <1>3, <1>5, ReturnsEmptyKeeps
<1> QED BY <1>4, <1>5

LEMMA ConnectFailsKeeps ==
    ASSUME IInv, ConnectFails
    PROVE  IInv'
<1>0. /\ cl \in ClType /\ est \in EstType /\ hb \in HbType /\ calls \in CallType
      /\ sock \in SockType /\ cached \in Lists /\ named \in Lists /\ calm \in BOOLEAN
  BY Types DEF IInv
<1>1. est.pc = "connect" /\ est.c \in Socks /\ UNCHANGED <<cl, calls, cached, named, calm>>
  BY DEF ConnectFails, IInv, Establishing
<1>2. CASE Len(est.list) > 1
  <2>1. PICK s \in Socks :
          /\ sock' = [sock EXCEPT ![est.c] = "dead", ![s] = "opening"]
          /\ est' = [est EXCEPT !.list = Tail(@), !.c = s]
          /\ UNCHANGED hb
    BY <1>2 DEF ConnectFails
  <2>2. Tail(est.list) \in Lists
    BY <1>0, <1>2, TailIsList DEF EstType
  <2>3. est' \in EstType /\ est'.pc = "connect" /\ est'.c = s /\ est'.ans = est.ans
    BY <2>1, <2>2, <1>0, <1>1 DEF EstType
  <2>4. sock' \in SockType /\ \A t \in Socks \ {s} : sock'[t] = IF est.pc = "connect" /\ t = est.c THEN "dead" ELSE sock[t]
    BY <2>1, <1>0, <1>1 DEF SockType
  <2>5. cached' \in Lists /\ named' \in Lists
    BY <1>0, <1>1
  <2> QED BY <1>1, <2>1, <2>3, <2>4, <2>5, TriesGateKeeps
<1>3. CASE ~(Len(est.list) > 1)
  <2>1. Returns(FALSE) /\ sock' = [sock EXCEPT ![est.c] = "dead"]
    BY <1>3 DEF ConnectFails
  <2>2. sock' \in SockType /\ \A t \in Socks : sock'[t] = IF t = est.c THEN "dead" ELSE sock[t]
    BY <2>1, <1>0, <1>1 DEF SockType
  <2>3. cached' \in Lists /\ named' \in Lists
    BY <1>0, <1>1
  <2> QED BY <1>1, <2>1, <2>2, <2>3, ReturnsEmptyKeeps
<1> QED BY <1>2, <1>3

LEMMA ConnectedKeeps ==
    ASSUME IInv, Connected
    PROVE  IInv'
<1> USE NoneIsNoSock
<1>0. /\ cl \in ClType /\ est \in EstType /\ hb \in HbType /\ calls \in CallType
      /\ sock \in SockType /\ cached \in Lists /\ named \in Lists /\ calm \in BOOLEAN
  BY Types DEF IInv
<1>1. /\ est.pc = "connect" /\ est.c \in Socks /\ sock[est.c] \in {"open", "hole", "dead"}
      /\ cl.conn = None /\ UNCHANGED <<cached, named, calm>> /\ est.ans = "none"
  BY DEF Connected, IInv, Establishing
<1>2. CASE Unwanted
  <2>1. Returns(FALSE) /\ sock' = SockClosed(est.c) /\ UNCHANGED <<cl, calls>>
    BY <1>2 DEF Connected
  <2>2. sock' \in SockType /\ \A t \in Socks : sock'[t] = IF t = est.c /\ sock[est.c] \in {"open", "hole"} THEN "closing" ELSE sock[t]
    BY <2>1, <1>0, <1>1, SockClosedType
  <2>3. cached' \in Lists /\ named' \in Lists /\ sock'[est.c] \in {"closing", "dead"}
    BY <1>0, <1>1, <2>2
  <2> QED BY <1>1, <2>1, <2>2, <2>3, ReturnsEmptyKeeps
<1>3. CASE ~Unwanted
  <2>1. Registers(est.c) /\ TriesResume /\ UNCHANGED hb
    BY <1>3 DEF Connected
  <2>2. /\ cl' \in ClType /\ cl'.conn = (IF sock[est.c] = "dead" THEN None ELSE est.c)
        /\ cl'.closed = FALSE /\ cl'.online = FALSE
    BY <2>1, <1>0, <1>1, <1>3 DEF Registers, Unwanted, ClType, IInv, ConnNotDead
  <2>3. /\ est' \in EstType /\ est'.pc \in {"param", "resume"} /\ est'.c = est.c
        /\ est'.ans \in {"none", "wait"} /\ (est'.pc = "param" => est'.ans = "none")
    BY <2>1, <1>0, EmptyIsList DEF TriesResume, EstType
  <2>8. TypeOK'
    <3>1. /\ hb' \in HbType /\ sock' \in SockType /\ calls' \in CallType
          /\ cached' \in Lists /\ named' \in Lists /\ calm' \in BOOLEAN
      BY <1>0, <1>1, <2>1 DEF Registers
    <3> QED BY <3>1, <2>2, <2>3, TypesNext
  <2>9. Safe'
    <3>1. sock' = sock
      BY <2>1 DEF Registers
    <3>2. \A t \in Socks : sock[t] \in {"opening", "open", "hole"} => t = est.c
      BY <1>1 DEF IInv, NoLeak
    <3> QED BY <1>0, <1>1, <2>2, <2>3, <3>1, <3>2 DEF Safe, NoLeak, ConnNotDead, ClosedForGood, Establishing, Handed, Live
  <2> QED BY <2>8, <2>9 DEF IInv, Safe
<1> QED BY <1>2, <1>3

(* A drop while establish and the handshakes go on.                          *)
LEMMA DropKeeps ==
    ASSUME IInv, NEW s \in Socks \cup {None}, Dropped(s), est.ans \notin {"ok", "bad"}, est' = est,
           hb' \in HbType, UNCHANGED <<cached, named, calm>>
    PROVE  IInv'
<1> USE NoneIsNoSock
<1>0. /\ cl \in ClType /\ est \in EstType /\ hb \in HbType /\ calls \in CallType
      /\ sock \in SockType /\ cached \in Lists /\ named \in Lists /\ calm \in BOOLEAN
  BY Types DEF IInv
<1>1. /\ cl' \in ClType /\ sock' \in SockType /\ calls' \in CallType
      /\ cl'.conn \in {None, cl.conn} /\ cl'.closed = cl.closed
      /\ cl'.online => cl.online /\ cl'.conn = cl.conn
      /\ \A t \in Socks : sock'[t] = sock[t] \/ (sock'[t] = "closing" /\ t = cl.conn /\ cl'.conn = None)
      /\ \A t \in Socks : sock'[t] \in {"opening", "open", "hole"} /\ t = cl.conn => cl'.conn = cl.conn
  BY DroppedFacts
<1>8. TypeOK'
  <2>1. est' \in EstType /\ cached' \in Lists /\ named' \in Lists /\ calm' \in BOOLEAN
    BY <1>0
  <2> QED BY <2>1, <1>1, TypesNext
<1>9. Safe'
  <2>1. NoLeak' /\ ClosedForGood' /\ Establishing' /\ Handed'
    BY <1>0, <1>1 DEF IInv, NoLeak, ClosedForGood, Establishing, Handed, ClType
  <2>2. ConnNotDead'
    BY <1>0, <1>1 DEF IInv, ConnNotDead, Live, ClType, SockType
  <2> QED BY <2>1, <2>2 DEF Safe
<1> QED BY <1>8, <1>9 DEF IInv, Safe

LEMMA ReconnectKeeps ==
    ASSUME IInv, Reconnect
    PROVE  IInv'
<1>1. cl.conn \in Socks \cup {None} /\ hb' \in HbType
  BY Types DEF IInv, ClType, Reconnect
<1>2. est.ans \notin {"ok", "bad"}
  BY DEF Reconnect, Settled
<1> QED BY <1>1, <1>2, DropKeeps DEF Reconnect

LEMMA PingCountedKeeps ==
    ASSUME IInv, PingCounted
    PROVE  IInv'
<1> USE NoneIsNoSock
<1>0. /\ cl \in ClType /\ est \in EstType /\ hb \in HbType /\ calls \in CallType
      /\ sock \in SockType /\ cached \in Lists /\ named \in Lists /\ calm \in BOOLEAN
  BY Types DEF IInv
<1>1. /\ hb.ans \in {"same", "other", "null"} /\ hb.c \in Socks \cup {None}
      /\ UNCHANGED <<est, cached, named, calm>>
  BY <1>0 DEF PingCounted, HbType
<1>2. CASE hb.ans = "same"
  <2>1. Beaten(0) /\ UNCHANGED <<cl, sock, calls>>
    BY <1>2 DEF PingCounted
  <2>2. hb' \in HbType /\ hb'.ans = "none"
    BY <2>1, <1>0, NoMisses, BeatenType
  <2>3. TypeOK'
    <3>1. /\ cl' \in ClType /\ est' \in EstType /\ calls' \in CallType /\ sock' \in SockType
          /\ cached' \in Lists /\ named' \in Lists /\ calm' \in BOOLEAN
      BY <1>0, <1>1, <2>1
    <3> QED BY <3>1, <2>2, TypesNext
  <2> QED BY <1>1, <2>1, <2>2, <2>3 DEF IInv, NoLeak, ConnNotDead, ClosedForGood, Establishing, Handed, Live
<1>3. CASE hb.ans = "null"
  <2>1. est.ans \notin {"ok", "bad"}
    BY <1>3 DEF IInv, Handed
  <2>2. CASE ~TooMany
    <3>1. Beaten(Misses) /\ UNCHANGED <<cl, sock, calls>>
      BY <1>3, <2>2 DEF PingCounted
    <3>2. Misses \in 0 .. Tolerance - 1
      BY <1>0, <2>2, LinkAssumption DEF TooMany, Misses, HbType
    <3>3. hb' \in HbType /\ hb'.ans = "none"
      BY <3>1, <3>2, <1>0 DEF Beaten, HbType
    <3>4. TypeOK'
      <4>1. /\ cl' \in ClType /\ est' \in EstType /\ calls' \in CallType /\ sock' \in SockType
            /\ cached' \in Lists /\ named' \in Lists /\ calm' \in BOOLEAN
        BY <1>0, <1>1, <3>1
      <4> QED BY <4>1, <3>3, TypesNext
    <3> QED BY <1>1, <3>1, <3>3, <3>4 DEF IInv, NoLeak, ConnNotDead, ClosedForGood, Establishing, Handed, Live
  <2>3. CASE TooMany
    <3>1. Beaten(0) /\ Dropped(hb.c)
      BY <1>3, <2>3 DEF PingCounted
    <3>2. hb' \in HbType
      BY <3>1, <1>0, NoMisses, BeatenType
    <3> QED BY <1>1, <2>1, <3>1, <3>2, DropKeeps
  <2> QED BY <2>2, <2>3
<1>4. CASE hb.ans = "other"
  <2>1. est.ans \notin {"ok", "bad"}
    BY <1>4 DEF IInv, Handed
  <2>2. hb' \in HbType
    <3>1. Beaten(0)
      BY <1>4 DEF PingCounted
    <3> QED BY <3>1, <1>0, NoMisses, BeatenType
  <2>3. CASE IsConn(hb.c)
    <3>1. /\ cl' = [cl EXCEPT !.nonce = "none", !.conn = None, !.online = FALSE]
          /\ sock' = SockClosed(hb.c) /\ calls' = Unsent
      BY <1>4, <2>3 DEF PingCounted
    <3>2. cl' \in ClType /\ cl'.conn = None /\ ~cl'.online /\ cl'.closed = cl.closed
      BY <3>1, <1>0 DEF ClType
    <3>3. hb.c \in Socks /\ cl.conn = hb.c /\ sock[hb.c] \in {"open", "hole"}
      BY <1>1, <2>3 DEF IsConn, IInv, ConnNotDead, Live
    <3>4. sock' \in SockType /\ \A t \in Socks : sock'[t] = IF t = hb.c /\ sock[hb.c] \in {"open", "hole"} THEN "closing" ELSE sock[t]
      BY <3>1, <1>0, <1>1, SockClosedType
    <3>5. calls' \in CallType
      BY <3>1, <1>0 DEF CallType, Unsent
    <3>6. TypeOK'
      <4>1. est' \in EstType /\ cached' \in Lists /\ named' \in Lists /\ calm' \in BOOLEAN
        BY <1>0, <1>1
      <4> QED BY <4>1, <3>2, <3>4, <3>5, <2>2, TypesNext
    <3> QED BY <1>1, <2>1, <3>2, <3>3, <3>4, <3>6 DEF IInv, NoLeak, ConnNotDead, ClosedForGood, Establishing, Handed
  <2>4. CASE ~IsConn(hb.c)
    <3>1. cl' = [cl EXCEPT !.nonce = "none"] /\ UNCHANGED <<sock, calls>>
      BY <1>4, <2>4 DEF PingCounted
    <3>2. cl' \in ClType /\ cl'.conn = cl.conn /\ cl'.online = cl.online /\ cl'.closed = cl.closed
      BY <3>1, <1>0 DEF ClType
    <3>3. TypeOK'
      <4>1. /\ est' \in EstType /\ calls' \in CallType /\ sock' \in SockType
            /\ cached' \in Lists /\ named' \in Lists /\ calm' \in BOOLEAN
        BY <1>0, <1>1, <3>1
      <4> QED BY <4>1, <3>2, <2>2, TypesNext
    <3> QED BY <1>1, <2>1, <3>1, <3>2, <3>3 DEF IInv, NoLeak, ConnNotDead, ClosedForGood, Establishing, Handed, Live
  <2> QED BY <2>3, <2>4
<1> QED BY <1>1, <1>2, <1>3, <1>4

(* A connection is gone; the client hears of it if it is the client's.       *)
LEMMA NotifiesKeeps ==
    ASSUME IInv, NEW s \in Socks, est.ans \notin {"ok", "bad"}, NotifiesClosed(s)
    PROVE  IInv'
<1> USE NoneIsNoSock
<1>0. /\ cl \in ClType /\ est \in EstType /\ hb \in HbType /\ calls \in CallType
      /\ sock \in SockType /\ cached \in Lists /\ named \in Lists /\ calm \in BOOLEAN
  BY Types DEF IInv
<1>1. /\ sock' \in SockType /\ \A t \in Socks : sock'[t] = IF t = s THEN "dead" ELSE sock[t]
      /\ UNCHANGED <<est, hb, cached, named, calm>>
  BY <1>0 DEF NotifiesClosed, SockType
<1>2. /\ cl' \in ClType /\ calls' \in CallType /\ cl'.closed = cl.closed
      /\ cl'.conn = IF cl.conn = s THEN None ELSE cl.conn
      /\ cl'.online = IF cl.conn = s THEN FALSE ELSE cl.online
  <2>1. CASE IsConn(s)
    <3>1. cl' = [cl EXCEPT !.conn = None, !.online = FALSE] /\ calls' = Unsent /\ cl.conn = s
      BY <2>1 DEF NotifiesClosed, IsConn
    <3>2. calls' \in CallType
      BY <3>1, <1>0 DEF CallType, Unsent
    <3> QED BY <3>1, <3>2, <1>0 DEF ClType
  <2>2. CASE ~IsConn(s)
    BY <1>0, <2>2 DEF NotifiesClosed, IsConn, ClType, CallType
  <2> QED BY <2>1, <2>2
<1>8. TypeOK'
  <2>1. est' \in EstType /\ hb' \in HbType /\ cached' \in Lists /\ named' \in Lists /\ calm' \in BOOLEAN
    BY <1>0, <1>1
  <2> QED BY <2>1, <1>1, <1>2, TypesNext
<1>9. Safe'
  BY <1>0, <1>1, <1>2 DEF IInv, Safe, NoLeak, ConnNotDead, ClosedForGood, Establishing, Handed, Live, ClType
<1> QED BY <1>8, <1>9 DEF IInv, Safe

LEMMA SockBreaksKeeps ==
    ASSUME IInv, NEW s \in Socks, SockBreaks(s)
    PROVE  IInv'
<1>1. est.ans \notin {"ok", "bad"}
  BY DEF SockBreaks, Settled, IInv, Handed
<1> QED BY <1>1, NotifiesKeeps DEF SockBreaks

LEMMA CloseEventKeeps ==
    ASSUME IInv, NEW s \in Socks, CloseEvent(s)
    PROVE  IInv'
<1>1. est.ans \notin {"ok", "bad"}
  BY DEF CloseEvent, Settled
<1> QED BY <1>1, NotifiesKeeps DEF CloseEvent

LEMMA CloseKeeps ==
    ASSUME IInv, Close
    PROVE  IInv'
<1> USE NoneIsNoSock
<1>0. /\ cl \in ClType /\ est \in EstType /\ hb \in HbType /\ calls \in CallType
      /\ sock \in SockType /\ cached \in Lists /\ named \in Lists /\ calm \in BOOLEAN
  BY Types DEF IInv
<1>1. /\ cl' = [cl EXCEPT !.closed = TRUE, !.conn = None, !.online = FALSE]
      /\ sock' = SockClosed(cl.conn) /\ calls' = Failed
      /\ est' = Woken(est) /\ hb' = Woken(hb)
      /\ UNCHANGED <<cached, named, calm>>
  BY DEF Close
<1>2. cl' \in ClType /\ cl'.conn = None /\ cl'.closed /\ ~cl'.online
  BY <1>0, <1>1 DEF ClType
<1>3. /\ sock' \in SockType
      /\ \A t \in Socks : sock'[t] = IF t = cl.conn /\ sock[cl.conn] \in {"open", "hole"} THEN "closing" ELSE sock[t]
  <2>1. cl.conn \in Socks \cup {None}
    BY <1>0 DEF ClType
  <2> QED BY <1>0, <1>1, <2>1, SockClosedType
<1>4. calls' \in CallType
  BY <1>0, <1>1 DEF CallType, Failed
<1>5. /\ est' \in EstType /\ est'.c = est.c /\ est'.pc \in {est.pc, "done"}
      /\ est'.ans \in {est.ans, "null"} /\ (est.ans = "none" => est'.ans = "none")
      /\ est.pc # "sleep" => est'.pc = est.pc
  BY <1>0, <1>1 DEF Woken, Nulled, EstType
<1>6. hb' \in HbType
  BY <1>0, <1>1 DEF Woken, Nulled, HbType
<1>7. est.ans \notin {"ok", "bad"}
  BY DEF Close, Settled
<1>8. TypeOK'
  <2>1. cached' \in Lists /\ named' \in Lists /\ calm' \in BOOLEAN
    BY <1>0, <1>1
  <2> QED BY <2>1, <1>2, <1>3, <1>4, <1>5, <1>6, TypesNext
<1>9. Safe'
  <2>1. cl.conn # None => sock[cl.conn] \in {"open", "hole"}
    BY DEF IInv, ConnNotDead, Live
  <2>2. NoLeak' /\ ConnNotDead' /\ ClosedForGood'
    BY <1>2, <1>3, <1>5, <2>1 DEF IInv, NoLeak, ConnNotDead, ClosedForGood, Live
  <2>3. Establishing' /\ Handed'
    BY <1>2, <1>5, <1>7 DEF IInv, Establishing, Handed
  <2> QED BY <2>2, <2>3 DEF Safe
<1> QED BY <1>8, <1>9 DEF IInv, Safe

-----------------------------------------------------------------------------
LEMMA Initially == Init => IInv
<1> SUFFICES ASSUME Init PROVE IInv
  OBVIOUS
<1>1. TypeOK
  <2>1. cl \in ClType /\ calls \in CallType /\ sock \in SockType
    BY DEF Init, ClType, CallType, SockType
  <2>2. est \in EstType /\ hb \in HbType
    BY EmptyIsList, NoMisses DEF Init, EstType, HbType
  <2>3. cached \in Lists /\ named \in Lists /\ calm \in BOOLEAN
    BY EmptyIsList DEF Init
  <2> QED BY <2>1, <2>2, <2>3, Types
<1>2. Safe
  BY NoneIsNoSock DEF Init, Safe, NoLeak, ConnNotDead, ClosedForGood, Establishing, Handed, Live
<1> QED BY <1>1, <1>2 DEF IInv, Safe

LEMMA StutterKeeps ==
    ASSUME IInv, UNCHANGED vars
    PROVE  IInv'
BY DEF IInv, TypeOK, NoLeak, ConnNotDead, ClosedForGood, Establishing, Handed, Live, vars

LEMMA Inductive == IInv /\ [Next]_vars => IInv'
<1> SUFFICES ASSUME IInv, [Next]_vars PROVE IInv'
  OBVIOUS
<1>1. CASE Continues
  BY <1>1, ConnectedKeeps, ResumeSucceedsKeeps, ResumeFailsKeeps, LoginSucceedsKeeps, LoginFailsKeeps DEF Continues
<1>2. CASE PingCounted
  BY <1>2, PingCountedKeeps
<1>3. CASE Timers
  BY <1>3, HandshakeTimesOutKeeps, WakesKeeps DEF Timers
<1>4. CASE HbTimers
  BY <1>4, PingTimesOutKeeps, PingSentKeeps DEF HbTimers
<1>5. CASE App
  BY <1>5, StartKeeps, ReconnectKeeps, InvalidateNonceKeeps, CloseKeeps, CallKeeps DEF App
<1>6. CASE World
  <2>1. CASE EndpointsResolved \/ ConnectFails \/ SockOpens \/ HandshakeAnswered
    BY <2>1, EndpointsResolvedKeeps, ConnectFailsKeeps, SockOpensKeeps, HandshakeAnsweredKeeps
  <2>2. CASE ParamGiven \/ ParamFails \/ PingAnswered \/ CalmsDown
    BY <2>2, ParamGivenKeeps, ParamFailsKeeps, PingAnsweredKeeps, CalmsDownKeeps
  <2>3. CASE \E s \in Socks : SockBreaks(s) \/ CloseEvent(s) \/ BlackHole(s)
    BY <2>3, SockBreaksKeeps, CloseEventKeeps, BlackHoleKeeps
  <2>4. CASE \E k \in Calls : CallAnswered(k)
    BY <2>4, CallAnsweredKeeps
  <2> QED BY <1>6, <2>1, <2>2, <2>3, <2>4 DEF World
<1>7. CASE UNCHANGED vars
  BY <1>7, StutterKeeps
<1> QED BY <1>1, <1>2, <1>3, <1>4, <1>5, <1>6, <1>7 DEF Next

LEMMA Invariant == Spec => []IInv
BY Initially, Inductive, PTL DEF Spec

(* FairSpec, which the run checks, is Spec with fairness. *)
LEMMA FairSpecIsSpec == FairSpec => Spec
BY PTL DEF FairSpec

(* Types, and pings that miss fewer than pingTolerance times in a row. *)
THEOREM TypeCorrect == Spec => []TypeOK
<1>1. IInv => TypeOK
  BY DEF IInv
<1> QED BY <1>1, Invariant, PTL

(* No socket is left behind by a failed connect, a timeout, a drop or close  *)
(* (session.ts: establish, drop, close).                                     *)
THEOREM NoLeakAlways == Spec => []NoLeak
<1>1. IInv => NoLeak
  BY DEF IInv
<1> QED BY <1>1, Invariant, PTL

(* What the client takes for its connection has not been reported closed,    *)
(* and it is online only with one (transport.ts: notifyClosed and onClosed). *)
THEOREM ConnNotDeadAlways == Spec => []ConnNotDead
<1>1. IInv => ConnNotDead
  BY DEF IInv
<1> QED BY <1>1, Invariant, PTL

(* A closed client stays without a connection (session.ts: close, establish).*)
THEOREM ClosedForGoodAlways == Spec => []ClosedForGood
<1>1. IInv => ClosedForGood
  BY DEF IInv
<1> QED BY <1>1, Invariant, PTL
=============================================================================
