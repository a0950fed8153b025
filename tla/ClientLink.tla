----------------------------- MODULE ClientLink -----------------------------
(***************************************************************************)
(* The TypeScript client (sdk/ts/src): how it finds a gate, connects,       *)
(* resumes or logs in, notices that a connection is dead, and ends.         *)
(* SkyextClient (client.ts) over SessionClient (session.ts), its coroutines *)
(* of start, supervisor and heartbeat, over wsTransport (transport.ts).     *)
(* AccountClient, which it asks for the gates, is the module Account.       *)
(*                                                                         *)
(* What the packages say and how they are counted is Session's subject;     *)
(* here an answer is good, refuses or reports another count, and comes on   *)
(* the connection that the request went out on, or not at all.              *)
(*                                                                         *)
(* JavaScript runs one task to its end.  What an await lets continue goes   *)
(* on in a step of its own, and before any other event (Settled).           *)
(*                                                                         *)
(* calm is the point from which the world is kind: no connection breaks,    *)
(* the gate UpGate accepts, the server answers in time and lets clients in. *)
(* Other gates may still fail, and so may the account once it has named     *)
(* UpGate.                                                                  *)
(***************************************************************************)
EXTENDS Naturals, Sequences

CONSTANTS
    Gates, UpGate,   \* the gates, and the one that accepts when all is calm
    Socks, None,     \* WebSockets; one that is dead and not referred to is used again
    Calls,           \* calls of the application
    Tolerance        \* pingTolerance

ASSUME LinkAssumption ==
    /\ UpGate \in Gates /\ None \notin Socks /\ Tolerance \in Nat \ {0}

VARIABLES
    cl,      \* SessionClient: closed, conn, online and nonce
    est,     \* the coroutine of start and establish, then of supervisor
    hb,      \* the coroutine of heartbeat
    calls,   \* what has become of each call
    sock,    \* WebSockets
    cached,  \* enterGame: the gates that the account last named
    named,   \* history: what the account last named
    calm

vars == <<cl, est, hb, calls, sock, cached, named, calm>>

(* Lists of gates; the empty one stands for no list. *)
Lists == {<<>>} \cup {l \in Gates \X Gates : l[1] # l[2]} \cup {<<g>> : g \in Gates}

Init ==
    /\ cl = [closed |-> FALSE, conn |-> None, online |-> FALSE, nonce |-> "none"]
    /\ est = [pc |-> "off", first |-> TRUE, list |-> <<>>, c |-> None, ans |-> "none"]
    /\ hb = [pc |-> "off", misses |-> 0, c |-> None, ans |-> "none"]
    /\ calls = [k \in Calls |-> "new"]
    /\ sock = [s \in Socks |-> "dead"]
    /\ cached = <<>> /\ named = <<>> /\ calm = FALSE

-----------------------------------------------------------------------------
(* Pieces of SessionClient *)

(* Nothing that was awaited is there to be continued. *)
Settled == est.ans \in {"none", "wait"} /\ hb.ans \in {"none", "wait"}

Live(s) == s # None /\ sock[s] \in {"open", "hole"}

(* conn.close(): the close event comes later. *)
SockClosed(s) == IF Live(s) THEN [sock EXCEPT ![s] = "closing"] ELSE sock

(* A call that was sent on a connection that is gone has to be sent again.   *)
Unsent == [k \in Calls |-> IF calls[k] = "sent" THEN "queued" ELSE calls[k]]

(* Mutant: an old connection takes the new one down with it. *)
IsConnAny(s) == s # None

IsConn(s) == s # None /\ cl.conn = s

(* drop *)
Dropped(s) ==
    IF IsConn(s)
      THEN /\ cl' = [cl EXCEPT !.conn = None, !.online = FALSE]
           /\ sock' = SockClosed(cl.conn)
           /\ calls' = Unsent
      ELSE UNCHANGED <<cl, sock, calls>>

(* failPending resolves what waits with null: calls, and a handshake or ping *)
(* (its own entry in pending is gone when doLogin gets here).                *)
Failed == [k \in Calls |-> IF calls[k] \in {"queued", "sent"} THEN "failed" ELSE calls[k]]
Nulled(co) == IF co.ans = "wait" THEN [co EXCEPT !.ans = "null"] ELSE co

(* Mutant: only calls that were never sent are sent. *)
ResentNot == calls

(* resendPending *)
Resent == [k \in Calls |-> IF calls[k] = "queued" THEN "sent" ELSE calls[k]]

-----------------------------------------------------------------------------
(* establish *)

(* establish returns.  supervisor sleeps; start begins the loops, and        *)
(* supervisor's first round is at once another establish if this one failed. *)
Returns(ok) ==
    /\ est' = [est EXCEPT !.pc = CASE ~est.first \/ ok              -> "sleep"
                                   [] est.first /\ ~ok /\ cl.closed  -> "done"
                                   [] est.first /\ ~ok /\ ~cl.closed -> "gates",
                          !.first = FALSE, !.list = <<>>, !.c = None, !.ans = "none"]
    /\ hb' = LET h == IF ok THEN Nulled(hb) ELSE hb
             IN  IF est.first THEN [h EXCEPT !.pc = IF cl.closed THEN "done" ELSE "sleep"] ELSE h

(* enterGame, start: the account is asked for the gates (resolveEndpoints).  *)
Start ==
    /\ est.pc = "off"
    /\ est' = [est EXCEPT !.pc = "gates"]
    /\ UNCHANGED <<cl, hb, calls, sock, cached, named, calm>>

Free(s) == sock[s] = "dead" /\ s \notin {cl.conn, est.c, hb.c}

(* new WebSocket of the first gate in the list *)
Opens(list) ==
    \E s \in Socks :
        /\ Free(s)
        /\ sock' = [sock EXCEPT ![s] = "opening"]
        /\ est' = [est EXCEPT !.pc = "connect", !.list = list, !.c = s]
        /\ UNCHANGED hb

(* Mutant: an empty answer replaces the list that is at hand. *)
CachesAll(fresh) == fresh

(* The gates of this round, kept for a round in which the account is silent. *)
Caches(fresh) == IF fresh # <<>> THEN fresh ELSE cached

Names(list) == \E i \in DOMAIN list : list[i] = UpGate

(* The account's answer; <<>>: none, an error, or no gate with a ws_url.     *)
EndpointsResolved ==
    /\ Settled /\ est.pc = "gates"
    /\ \E fresh \in Lists :
         /\ calm => Names(fresh) \/ (fresh = <<>> /\ Names(named))
         /\ named' = IF fresh # <<>> THEN fresh ELSE named
         /\ cached' = Caches(fresh)
         /\ IF cached' # <<>> THEN Opens(cached') ELSE Returns(FALSE) /\ UNCHANGED sock
    /\ UNCHANGED <<cl, calls, calm>>

(* onerror or onclose before onopen: the next gate. *)
ConnectFails ==
    /\ Settled /\ est.pc = "connect" /\ sock[est.c] = "opening"
    /\ calm => Head(est.list) # UpGate
    /\ IF Len(est.list) > 1
         THEN \E s \in Socks :
                /\ s = est.c \/ Free(s)
                /\ sock' = [sock EXCEPT ![est.c] = "dead", ![s] = "opening"]
                /\ est' = [est EXCEPT !.list = Tail(@), !.c = s]
                /\ UNCHANGED hb
         ELSE Returns(FALSE) /\ sock' = [sock EXCEPT ![est.c] = "dead"]
    /\ UNCHANGED <<cl, calls, cached, named, calm>>

SockOpens ==
    /\ Settled /\ est.pc = "connect" /\ sock[est.c] = "opening"
    /\ sock' = [sock EXCEPT ![est.c] = "open"]
    /\ UNCHANGED <<cl, est, hb, calls, cached, named, calm>>

(* tryResume and doLogin up to their first await *)
TriesResume == est' = [est EXCEPT !.list = <<>>,
                                  !.pc = IF cl.nonce = "none" THEN "param" ELSE "resume",
                                  !.ans = IF cl.nonce = "none" THEN "none" ELSE "wait"]

(* Mutants: connect came back, and closed is not looked at; onClosed only    *)
(* notes the callback.                                                       *)
UnwantedNever == FALSE
RegistersOnly(s) == cl' = [cl EXCEPT !.conn = s] /\ UNCHANGED <<sock, calls>>

Unwanted == cl.closed

(* onMessage and onClosed; a close event that is already there calls back at *)
(* once, so that the connection is dropped again.                            *)
Registers(s) ==
    /\ cl' = [cl EXCEPT !.conn = IF sock[s] = "dead" THEN None ELSE s]
    /\ UNCHANGED <<sock, calls>>

Connected ==
    /\ est.pc = "connect" /\ est.ans = "none" /\ sock[est.c] \in {"open", "hole", "dead"}
    /\ IF Unwanted
         THEN Returns(FALSE) /\ sock' = SockClosed(est.c) /\ UNCHANGED <<cl, calls>>
         ELSE Registers(est.c) /\ TriesResume /\ UNCHANGED hb
    /\ UNCHANGED <<cached, named, calm>>

(* The server can answer what was sent on s, and the answer is handled: s is *)
(* still the connection (the check before handle).                           *)
MayAnswer(s) == s # None /\ sock[s] \in {"open", "closing"}

Handles(s) == cl.conn = s

(* The answer to resume or login: OK, or another code. *)
HandshakeAnswered ==
    /\ Settled /\ est.ans = "wait" /\ MayAnswer(est.c) /\ Handles(est.c)
    /\ \E a \in {"ok", "bad"} :
         /\ calm /\ est.pc = "login" => a = "ok"
         /\ est' = [est EXCEPT !.ans = a]
    /\ UNCHANGED <<cl, hb, calls, sock, cached, named, calm>>

(* handshakeTimeoutMs *)
HandshakeTimesOut ==
    /\ Settled /\ est.ans = "wait"
    /\ ~(calm /\ MayAnswer(est.c) /\ Handles(est.c))
    /\ est' = [est EXCEPT !.ans = "null"]
    /\ UNCHANGED <<cl, hb, calls, sock, cached, named, calm>>

ResumeSucceeds ==
    /\ est.pc = "resume" /\ est.ans = "ok"
    /\ cl' = [cl EXCEPT !.nonce = "fresh", !.online = TRUE]
    /\ calls' = Resent
    /\ Returns(TRUE)
    /\ UNCHANGED <<sock, cached, named, calm>>

(* Refused or too late: on to doLogin.  The credential stays. *)
ResumeFails ==
    /\ est.pc = "resume" /\ est.ans \in {"bad", "null"}
    /\ est' = [est EXCEPT !.pc = "param", !.ans = "none"]
    /\ UNCHANGED <<cl, hb, calls, sock, cached, named, calm>>

(* loginParam: the application's token, or none. *)
ParamGiven ==
    /\ Settled /\ est.pc = "param"
    /\ est' = [est EXCEPT !.pc = "login", !.ans = "wait"]
    /\ UNCHANGED <<cl, hb, calls, sock, cached, named, calm>>

ParamFails ==
    /\ Settled /\ est.pc = "param" /\ ~calm
    /\ Returns(FALSE) /\ Dropped(est.c)
    /\ UNCHANGED <<cached, named, calm>>

LoginSucceeds ==
    /\ est.pc = "login" /\ est.ans = "ok"
    /\ cl' = [cl EXCEPT !.nonce = "fresh", !.online = TRUE]
    /\ calls' = Failed
    /\ Returns(TRUE)
    /\ UNCHANGED <<sock, cached, named, calm>>

LoginFails ==
    /\ est.pc = "login" /\ est.ans \in {"bad", "null"}
    /\ Returns(FALSE) /\ Dropped(est.c)
    /\ UNCHANGED <<cached, named, calm>>

-----------------------------------------------------------------------------
(* supervisor and heartbeat *)

(* reconnectDelayMs, then the head of supervisor's loop; while there is a    *)
(* connection, it sleeps again.                                              *)
Wakes ==
    /\ Settled /\ est.pc = "sleep"
    /\ \/ cl.closed /\ est' = [est EXCEPT !.pc = "done"]
       \/ ~cl.closed /\ cl.conn = None /\ est' = [est EXCEPT !.pc = "gates"]
    /\ UNCHANGED <<cl, hb, calls, sock, cached, named, calm>>

(* pingIntervalMs: a ping; nobody is pinged while the client is offline.     *)
PingSent ==
    /\ Settled /\ hb.pc = "sleep" /\ cl.online
    /\ hb' = [hb EXCEPT !.pc = "ping", !.c = cl.conn, !.ans = "wait"]
    /\ UNCHANGED <<cl, est, calls, sock, cached, named, calm>>

PingAnswered ==
    /\ Settled /\ hb.ans = "wait" /\ MayAnswer(hb.c) /\ Handles(hb.c)
    /\ \E a \in {"same", "other"} :
         /\ calm => a = "same"
         /\ hb' = [hb EXCEPT !.ans = a]
    /\ UNCHANGED <<cl, est, calls, sock, cached, named, calm>>

PingTimesOut ==
    /\ Settled /\ hb.ans = "wait"
    /\ ~(calm /\ MayAnswer(hb.c) /\ Handles(hb.c))
    /\ hb' = [hb EXCEPT !.ans = "null"]
    /\ UNCHANGED <<cl, est, calls, sock, cached, named, calm>>

(* Mutant: a ping without an answer is not remembered. *)
MissesNot == 0

Misses == hb.misses + 1

TooMany == Misses >= Tolerance

(* and on to the head of the loop *)
Beaten(n) == hb' = [hb EXCEPT !.pc = IF cl.closed THEN "done" ELSE "sleep", !.misses = n,
                              !.c = None, !.ans = "none"]

(* The counts agree; they differ, and the credential is worth nothing; no    *)
(* answer, once more or once too often.                                      *)
PingCounted ==
    /\ hb.ans \notin {"none", "wait"}
    /\ CASE hb.ans = "same" -> Beaten(0) /\ UNCHANGED <<cl, sock, calls>>
         [] hb.ans = "other" ->
              /\ Beaten(0)
              /\ cl' = IF IsConn(hb.c) THEN [cl EXCEPT !.nonce = "none", !.conn = None, !.online = FALSE]
                                       ELSE [cl EXCEPT !.nonce = "none"]
              /\ IF IsConn(hb.c) THEN sock' = SockClosed(hb.c) /\ calls' = Unsent
                                 ELSE UNCHANGED <<sock, calls>>
         [] hb.ans = "null" /\ ~TooMany -> Beaten(Misses) /\ UNCHANGED <<cl, sock, calls>>
         [] hb.ans = "null" /\ TooMany -> Beaten(0) /\ Dropped(hb.c)
    /\ UNCHANGED <<est, cached, named, calm>>

-----------------------------------------------------------------------------
(* The transport and the server *)

(* onclose and notifyClosed: drop, if onClosed has been called and this is   *)
(* still the connection.                                                     *)
NotifiesClosed(s) ==
    /\ sock' = [sock EXCEPT ![s] = "dead"]
    /\ IF IsConn(s) THEN cl' = [cl EXCEPT !.conn = None, !.online = FALSE] /\ calls' = Unsent
                    ELSE UNCHANGED <<cl, calls>>
    /\ UNCHANGED <<est, hb, cached, named, calm>>

(* A connection breaks, possibly before establish goes on after connect.     *)
SockBreaks(s) ==
    /\ Live(s) /\ ~calm
    /\ Settled \/ (est.pc = "connect" /\ est.c = s)
    /\ NotifiesClosed(s)

(* The close event of a connection that the client has closed. *)
CloseEvent(s) == Settled /\ sock[s] = "closing" /\ NotifiesClosed(s)

(* Nothing arrives any more, in either direction, and nobody is told. *)
BlackHole(s) ==
    /\ sock[s] = "open" /\ ~calm
    /\ sock' = [sock EXCEPT ![s] = "hole"]
    /\ UNCHANGED <<cl, est, hb, calls, cached, named, calm>>

CallAnswered(k) ==
    /\ Settled /\ calls[k] = "sent" /\ MayAnswer(cl.conn)
    /\ calls' = [calls EXCEPT ![k] = "done"]
    /\ UNCHANGED <<cl, est, hb, sock, cached, named, calm>>

CalmsDown ==
    /\ ~calm /\ calm' = TRUE
    /\ UNCHANGED <<cl, est, hb, calls, sock, cached, named>>

-----------------------------------------------------------------------------
(* The application *)

(* request without a timeout *)
Call(k) ==
    /\ Settled /\ est.pc # "off" /\ ~cl.closed /\ calls[k] = "new"
    /\ calls' = [calls EXCEPT ![k] = IF cl.conn # None THEN "sent" ELSE "queued"]
    /\ UNCHANGED <<cl, est, hb, sock, cached, named, calm>>

Reconnect ==
    /\ Settled /\ cl.conn # None /\ ~calm
    /\ Dropped(cl.conn)
    /\ UNCHANGED <<est, hb, cached, named, calm>>

InvalidateNonce ==
    /\ Settled /\ cl.nonce # "none"
    /\ cl' = [cl EXCEPT !.nonce = "none"]
    /\ UNCHANGED <<est, hb, calls, sock, cached, named, calm>>

(* Mutant: the sleepers sleep on, and what waits waits on. *)
WokenNot(co) == co

(* What waits gets null; a sleeper is woken, and ends its loop. *)
Woken(co) == IF co.pc = "sleep" THEN [co EXCEPT !.pc = "done"] ELSE Nulled(co)

Close ==
    /\ Settled /\ est.pc # "off" /\ ~cl.closed
    /\ cl' = [cl EXCEPT !.closed = TRUE, !.conn = None, !.online = FALSE]
    /\ sock' = SockClosed(cl.conn)
    /\ calls' = Failed
    /\ est' = Woken(est) /\ hb' = Woken(hb)
    /\ UNCHANGED <<cached, named, calm>>

-----------------------------------------------------------------------------
Continues  == \/ Connected \/ ResumeSucceeds \/ ResumeFails \/ LoginSucceeds \/ LoginFails
Timers     == HandshakeTimesOut \/ Wakes
HbTimers   == PingTimesOut \/ PingSent
App == \/ Start \/ Reconnect \/ InvalidateNonce \/ Close \/ \E k \in Calls : Call(k)
World == \/ EndpointsResolved \/ ConnectFails \/ SockOpens \/ HandshakeAnswered
         \/ ParamGiven \/ ParamFails \/ PingAnswered \/ CalmsDown
         \/ \E s \in Socks : SockBreaks(s) \/ CloseEvent(s) \/ BlackHole(s)
         \/ \E k \in Calls : CallAnswered(k)

Next == \/ Continues \/ PingCounted \/ Timers \/ HbTimers \/ App \/ World

Spec == Init /\ [][Next]_vars

(* Timers fire, an HTTP request and a connection attempt end one way or the  *)
(* other, the application's loginParam returns; and once all is calm the     *)
(* server answers.                                                           *)
FairSpec ==
    /\ Spec
    /\ WF_vars(Continues) /\ WF_vars(PingCounted)
    /\ WF_vars(Timers) /\ WF_vars(HbTimers)
    /\ WF_vars(EndpointsResolved)
    /\ WF_vars(ConnectFails \/ SockOpens)
    /\ WF_vars(ParamGiven \/ ParamFails)
    /\ WF_vars(HandshakeAnswered /\ calm) /\ WF_vars(PingAnswered /\ calm)
    /\ \A s \in Socks : WF_vars(CloseEvent(s))
    /\ \A k \in Calls : SF_vars(CallAnswered(k) /\ calm)

-----------------------------------------------------------------------------
TypeOK ==
    /\ cl \in [closed : BOOLEAN, conn : Socks \cup {None}, online : BOOLEAN,
               nonce : {"none", "fresh"}]
    /\ est \in [pc : {"off", "gates", "connect", "resume", "param", "login", "sleep", "done"},
                first : BOOLEAN, list : Lists, c : Socks \cup {None},
                ans : {"none", "wait", "ok", "bad", "null"}]
    /\ hb \in [pc : {"off", "sleep", "ping", "done"}, misses : 0 .. Tolerance - 1,
               c : Socks \cup {None}, ans : {"none", "wait", "same", "other", "null"}]
    /\ calls \in [Calls -> {"new", "queued", "sent", "done", "failed"}]
    /\ sock \in [Socks -> {"opening", "open", "hole", "closing", "dead"}]
    /\ cached \in Lists /\ named \in Lists /\ calm \in BOOLEAN

(* Every socket that is open or being opened is the client's connection or   *)
(* the one it is about to have: whatever fails, times out, is closed or      *)
(* dropped in between, none is left behind for the server to keep.           *)
NoLeak ==
    \A s \in Socks : sock[s] \in {"opening", "open", "hole"} =>
        s = cl.conn \/ (est.pc = "connect" /\ est.c = s)

(* A connection whose close event has come is not the client's connection,   *)
(* even when it came before onClosed was registered; and an answer that      *)
(* arrives after its connection was dropped brings nobody online.            *)
ConnNotDead == (cl.conn # None => Live(cl.conn)) /\ (cl.online => cl.conn # None)

(* A client that was closed gets no connection from a connect, a resume or a *)
(* login that was under way.                                                 *)
ClosedForGood == cl.closed => cl.conn = None /\ ~cl.online

Up == cl.online /\ cl.conn # None /\ sock[cl.conn] = "open"

(* From wherever it is, the client is online again when the world is kind,   *)
(* and stays so (supervisor, heartbeat); without the account too, if it has  *)
(* named a gate that accepts (cached in enterGame).                          *)
Recovers == <>[](~calm \/ est.pc = "off" \/ cl.closed \/ Up)

(* A connection that has silently died is given up (heartbeat). *)
BlackHoleLeft == \A s \in Socks : (cl.conn = s /\ sock[s] = "hole") ~> (cl.conn # s)

(* A call without a timeout is answered or failed in the end, across any     *)
(* number of reconnects (comment at request).                                *)
CallsEnd == <>[](~calm \/ \A k \in Calls : calls[k] \notin {"queued", "sent"})

(* Closing ends the coroutines. *)
CloseEnds == cl.closed ~> est.pc = "done" /\ hb.pc = "done"
=============================================================================
