---------------------------- MODULE ReliableMsg ----------------------------
(***************************************************************************)
(* Reliable messages to one entity: their records in MongoDB                *)
(* (lualib/skyext/entity/reliable_msg.lua), the wake-up that follows a save *)
(* (router.lua, service/entity_agent.lua), their delivery through the       *)
(* entity's gate (entitymgr.lua), and the dead letter queue                 *)
(* (service/entity_dlq.lua).                                                *)
(*                                                                         *)
(* How the entity is locked, loaded, stored and recovered is EntityStore's  *)
(* subject.  Here a node whose entity is valid has the key, a document is   *)
(* the set of messages whose effect it contains, and a write is applied if  *)
(* the writer was the last to load the document and knows what is in it.    *)
(*                                                                         *)
(* A handler applies its message once (it must be idempotent, by msg_id),   *)
(* and may throw before or after it has done so.                            *)
(***************************************************************************)
EXTENDS Naturals, FiniteSets

CONSTANTS
    Nodes, Msgs,
    None, Orphan,    \* no node, no message; a key whose node has been restarted
    MaxAttempts,     \* reliable_msg_max_attempts
    Page,            \* DEFAULT_PAGE_SIZE
    MaxParts,        \* bound: nodes and messages that take part, together
    MaxMishaps       \* bound: requests and wake-ups that fail, nodes that crash,
                     \* leases that are lost, and dead letters that are replayed

ASSUME ReliableAssumption ==
    /\ None \notin Nodes /\ Orphan \notin Nodes /\ None # Orphan
    /\ IsFiniteSet(Nodes) /\ IsFiniteSet(Msgs) /\ None \notin Msgs
    /\ MaxAttempts \in Nat \ {0} /\ Page \in Nat \ {0}
    /\ MaxParts \in Nat /\ MaxMishaps \in Nat

VARIABLES
    msg,      \* MongoDB: entity_msg
    seq,      \* entity_msg_seq: the numbers given to the messages, 0 if none
    stray,    \* MongoDB: updates of messages whose sender has given up on them
    doc,      \* MongoDB: the entity's document
    key,      \* etcd: who has the entity's key
    ent,      \* entitymgr: entities[id] with its delivery_retry
    waiting,  \* operations that wait for the entity's gate
    job,      \* the operation that has it
    homes,    \* the nodes that members of the cluster take for the entity's
    hist,     \* history: what handlers threw, wake-ups that were lost, late verdicts
    mishaps   \* what is left of MaxMishaps

vars == <<msg, seq, stray, doc, key, ent, waiting, job, homes, hist, mishaps>>

NoEnt == [state |-> "none", mem |-> {}, base |-> {}, retry |-> FALSE]
Idle  == [pc |-> "idle", kind |-> "none", batch |-> {}, cur |-> None, again |-> FALSE]

Init ==
    /\ msg = [m \in Msgs |-> [at |-> "none", attempts |-> 0]]
    /\ seq = [m \in Msgs |-> 0] /\ stray = {}
    /\ doc \in [exists : BOOLEAN, made : {{}}, fence : {None}]
    /\ key = None
    /\ ent = [n \in Nodes |-> NoEnt]
    /\ homes \in (SUBSET Nodes) \ {{}}
    /\ waiting = {} /\ job = [n \in Nodes |-> Idle]
    /\ hist = [threw |-> [m \in Msgs |-> 0], unpoked |-> {}, excused |-> {}]
    /\ mishaps = MaxMishaps

-----------------------------------------------------------------------------
(* Messages *)

Pending == {m \in Msgs : msg[m].at = "pending"}

Numbered == {m \in Msgs : seq[m] > 0}

First(S) == {m \in S : \A k \in S : seq[m] <= seq[k]}

(* What a read returns: the first Page of those that are pending, by seq. *)
IsPage(B) ==
    /\ B \subseteq Pending
    /\ \A m \in B, k \in Pending \ B : seq[m] < seq[k]
    /\ B = Pending \/ Cardinality(B) = Page
    /\ Cardinality(B) <= Page

Mishap == mishaps > 0 /\ mishaps' = mishaps - 1

(* Jobs that wait for the gate.  Equal ones count as one: the second would  *)
(* find what the first has left.                                            *)
Job(n, kind, from) == [node |-> n, kind |-> kind, from |-> from]
Poked(n) == Job(n, "poke", None)
Local(n) == Job(n, "local", None)

(* transition: only a message with the status that is expected changes.     *)
(* attempts are of use while it is pending, and start anew with a replay.   *)
Moved(m, from, to) == IF msg[m].at = from THEN [msg EXCEPT ![m] = [at |-> to, attempts |-> 0]] ELSE msg

(* record_failure *)
Counted(m) == IF msg[m].at = "pending" THEN [msg EXCEPT ![m].attempts = @ + 1] ELSE msg

Executed(op, m) ==
    CASE op = "ack"    -> Moved(m, "pending", "delivered")
      [] op = "dead"   -> Moved(m, "pending", "dead")
      [] op = "record" -> Counted(m)

-----------------------------------------------------------------------------
(* reliable_send: a number, the record, the wake-up *)

NextSeq(m) ==
    /\ msg[m].at = "none" /\ Cardinality(homes) + Cardinality(Numbered) < MaxParts
    /\ msg' = [msg EXCEPT ![m].at = "numbered"]
    /\ seq' = [seq EXCEPT ![m] = Cardinality(Numbered) + 1]
    /\ UNCHANGED <<homes, stray, doc, key, ent, waiting, job, hist, mishaps>>

(* poke_reliable.  A wake-up that is lost is remembered, for nothing makes   *)
(* up for it while the entity stays loaded.                                 *)
Poke(ms) ==
    \/ /\ \E n \in homes : waiting' = waiting \cup {Poked(n)}
       /\ UNCHANGED <<hist, mishaps>>
    \/ /\ Mishap
       /\ hist' = [hist EXCEPT !.unpoked = @ \cup ms]
       /\ UNCHANGED waiting

Save(m) ==
    /\ msg[m].at = "numbered"
    /\ msg' = [msg EXCEPT ![m].at = "pending"]
    /\ Poke({m})
    /\ UNCHANGED <<homes, seq, stray, doc, key, ent, job>>

-----------------------------------------------------------------------------
(* The entity, as far as delivery sees it *)

Valid(n)  == key = n
Usable(n) == ent[n].state = "loaded" /\ Valid(n)

(* Someone else inserts the document of a type without auto_create. *)
Create ==
    /\ ~doc.exists
    /\ doc' = [doc EXCEPT !.exists = TRUE]
    /\ UNCHANGED <<homes, msg, seq, stray, key, ent, waiting, job, hist, mishaps>>

(* save_doc: the update is guarded by fence and version. *)
Matches(n) == doc.fence = n /\ doc.made = ent[n].base

SweepSaves(n) ==
    /\ Usable(n) /\ ent[n].mem # ent[n].base /\ job[n].pc \notin {"save"}
    /\ Matches(n)
    /\ doc' = [doc EXCEPT !.made = ent[n].mem]
    /\ ent' = [ent EXCEPT ![n].base = ent[n].mem]
    /\ UNCHANGED <<homes, msg, seq, stray, key, waiting, job, hist, mishaps>>

(* The lease ends, with it the key; a node that lives is told.              *)
LoseLease ==
    /\ key # None
    /\ IF key = Orphan THEN UNCHANGED mishaps ELSE Mishap
    /\ key' = None
    /\ ent' = [n \in Nodes |-> IF key = n /\ ent[n].state # "none"
                               THEN [ent[n] EXCEPT !.state = "invalid", !.retry = FALSE] ELSE ent[n]]
    /\ UNCHANGED <<homes, msg, seq, stray, doc, waiting, job, hist>>

(* _unload_entity: stored and released, or retried later. *)
Unload(n) ==
    /\ job[n].pc = "idle" /\ ent[n].state \in {"loaded", "unloading"} /\ Valid(n)
    /\ \/ /\ ent[n].mem = ent[n].base \/ Matches(n)
          /\ doc' = IF ent[n].mem = ent[n].base THEN doc ELSE [doc EXCEPT !.made = ent[n].mem]
          /\ ent' = [ent EXCEPT ![n] = NoEnt] /\ key' = None
          /\ UNCHANGED mishaps
       \/ /\ \/ ent[n].mem # ent[n].base /\ ~Matches(n) /\ UNCHANGED mishaps
             \/ Mishap
          /\ ent' = [ent EXCEPT ![n].state = "unloading", ![n].retry = FALSE]
          /\ UNCHANGED <<doc, key>>
    /\ UNCHANGED <<homes, msg, seq, stray, waiting, job, hist>>

(* An entity that lost its lease leaves memory: its changes are given up,   *)
(* or stored under a new lock if nobody has written the document since.     *)
Leave(n) ==
    /\ job[n].pc = "idle" /\ ent[n].state = "invalid"
    /\ ent' = [ent EXCEPT ![n] = NoEnt]
    /\ \/ UNCHANGED doc
       \/ /\ key = None /\ Matches(n)
          /\ doc' = [doc EXCEPT !.made = ent[n].mem]
    /\ UNCHANGED <<homes, msg, seq, stray, key, waiting, job, hist, mishaps>>

(* What the process had asked MongoDB for may still be executed; a save     *)
(* that is, is one that was before the crash.  Wake-ups are gone.           *)
Crash(n) ==
    /\ Mishap
    /\ ent[n] # NoEnt \/ job[n] # Idle
    /\ ent' = [ent EXCEPT ![n] = NoEnt] /\ job' = [job EXCEPT ![n] = Idle]
    /\ key' = IF key = n THEN Orphan ELSE key
    /\ stray' = stray \cup (IF job[n].pc \in {"ack", "record", "dead"} THEN {[op |-> job[n].pc, m |-> job[n].cur]} ELSE {})
    /\ waiting' = {[w EXCEPT !.from = IF @ = n THEN None ELSE @] : w \in {w \in waiting : w.node # n}}
    /\ hist' = IF \E w \in waiting : w.node = n THEN [hist EXCEPT !.unpoked = @ \cup Pending] ELSE hist
    /\ UNCHANGED <<homes, msg, seq, doc>>

-----------------------------------------------------------------------------
(* deliver_pending: how it begins.  The gate is with_entity's, or that of   *)
(* with_loaded_entity for a wake-up from the node that was asked first.     *)

To(n, pc) == job' = [job EXCEPT ![n].pc = pc]

(* The gate is given to w; it begins at pc. *)
Takes(w, pc) ==
    /\ waiting' = waiting \ {w}
    /\ job' = [job EXCEPT ![w.node] = [Idle EXCEPT !.pc = pc, !.kind = IF w.kind = "missing" THEN "missing" ELSE "deliver"]]

Waits(w) == w \in waiting /\ job[w.node].pc = "idle"

Begin(w) ==
    /\ Waits(w) /\ w.kind # "missing" /\ Usable(w.node)
    /\ Takes(w, "find")
    /\ UNCHANGED <<homes, msg, seq, stray, doc, key, ent, hist, mishaps>>

(* _ensure_loaded: the key is free. *)
Lock(w) ==
    /\ Waits(w) /\ w.kind \in {"poke", "local"} /\ ent[w.node].state = "none" /\ key = None
    /\ key' = w.node
    /\ Takes(w, "load")
    /\ UNCHANGED <<homes, msg, seq, stray, doc, ent, hist, mishaps>>

(* sticky: the holder of the key is asked, or cannot be. *)
Forward(w) ==
    /\ Waits(w) /\ w.kind = "poke" /\ ent[w.node].state = "none" /\ key \in Nodes \ {w.node}
    /\ \/ /\ waiting' = (waiting \ {w}) \cup {Job(key, "loaded", w.node)}
          /\ UNCHANGED <<hist, mishaps>>
       \/ /\ Mishap
          /\ waiting' = waiting \ {w}
          /\ hist' = [hist EXCEPT !.unpoked = @ \cup Pending]
    /\ UNCHANGED <<homes, msg, seq, stray, doc, key, ent, job>>

(* Nothing can be delivered here.  NOT_LOADED sends the wake-up back.       *)
Refuse(w) ==
    /\ Waits(w) /\ w.kind \in {"poke", "local", "loaded"} /\ ~Usable(w.node)
    /\ (w.kind # "loaded" /\ ent[w.node].state = "none") => (key = Orphan \/ (w.kind = "local" /\ key # None))
    /\ waiting' = (waiting \ {w}) \cup (IF w.kind = "loaded" /\ w.from # None THEN {Local(w.from)} ELSE {})
    /\ hist' = IF ent[w.node].state = "invalid" /\ w.kind # "loaded" THEN [hist EXCEPT !.unpoked = @ \cup Pending] ELSE hist
    /\ UNCHANGED <<homes, msg, seq, stray, doc, key, ent, job, mishaps>>

(* A request makes the entity load. *)
Request(n) ==
    /\ n \in homes /\ job[n].pc = "idle" /\ ent[n].state = "none" /\ key = None
    /\ key' = n
    /\ job' = [job EXCEPT ![n] = [Idle EXCEPT !.pc = "load", !.kind = "request"]]
    /\ UNCHANGED <<homes, msg, seq, stray, doc, ent, waiting, hist, mishaps>>

(* The document is read and claimed; a fork delivers what is pending.       *)
Load(n) ==
    /\ job[n].pc = "load" /\ Valid(n) /\ doc.exists
    /\ doc' = [doc EXCEPT !.fence = n]
    /\ ent' = [ent EXCEPT ![n] = [state |-> "loaded", mem |-> doc.made, base |-> doc.made, retry |-> FALSE]]
    /\ waiting' = waiting \cup {Local(n)}
    /\ IF job[n].kind = "request" THEN job' = [job EXCEPT ![n] = Idle] ELSE To(n, "find")
    /\ UNCHANGED <<homes, msg, seq, stray, key, hist, mishaps>>

(* No document, or no lease, or a request that failed.                      *)
LoadFails(n) ==
    /\ job[n].pc = "load"
    /\ \/ (~doc.exists \/ ~Valid(n)) /\ UNCHANGED mishaps
       \/ Mishap
    /\ key' = IF Valid(n) THEN None ELSE key
    /\ job' = [job EXCEPT ![n] = Idle]
    /\ waiting' = waiting \cup (IF ~doc.exists /\ Valid(n) /\ job[n].kind # "request" THEN {Job(n, "missing", None)} ELSE {})
    /\ UNCHANGED <<homes, msg, seq, stray, doc, ent, hist>>

-----------------------------------------------------------------------------
(* _deliver_pending_msgs and what follows in deliver_pending *)

(* Mutant: what was not delivered waits for the next load.                  *)
RetriedByLoad(n) == ent

(* It did not deliver everything: _schedule_delivery_retry.                 *)
Retried(n) == [ent EXCEPT ![n].retry = @ \/ Usable(n)]

Fail(n) == job' = [job EXCEPT ![n] = Idle] /\ ent' = Retried(n)

(* The loop goes on with what is left of the batch.  At its end the retry   *)
(* is cancelled if the entity is still the node's; the fork for another     *)
(* round does not depend on that.                                           *)
Continue(n, batch, again) ==
    \/ /\ Usable(n)
       /\ \E m \in First(batch) :
              job' = [job EXCEPT ![n].pc = "handler", ![n].batch = batch, ![n].cur = m, ![n].again = again]
       /\ UNCHANGED <<ent, waiting>>
    \/ /\ batch # {} /\ ~Usable(n)
       /\ Fail(n) /\ UNCHANGED waiting
    \/ /\ batch = {}
       /\ job' = [job EXCEPT ![n] = Idle]
       /\ ent' = [ent EXCEPT ![n].retry = @ /\ ~Usable(n)]
       /\ waiting' = IF again THEN waiting \cup {Local(n)} ELSE waiting

(* On to the next message; quarantined ones make another round necessary.   *)
Pass(n, quarantined) == Continue(n, job[n].batch \ {job[n].cur}, job[n].again \/ quarantined)

Find(n) ==
    /\ job[n].pc = "find" /\ job[n].kind # "missing"
    /\ \/ /\ \E B \in SUBSET Pending :
               /\ IsPage(B)
               /\ Continue(n, B, Cardinality(B) = Page)
               /\ hist' = IF Usable(n) THEN [hist EXCEPT !.unpoked = @ \ B] ELSE hist
          /\ UNCHANGED mishaps
       \/ Mishap /\ Fail(n) /\ UNCHANGED <<waiting, hist>>
    /\ UNCHANGED <<homes, msg, seq, stray, doc, key>>

(* Mutant: the save wheel will store it. *)
AfterHandlerAcks(n) == "ack"

(* Where a handler that returned leads: _deliver_one stores the entity      *)
(* before it acknowledges.  save_doc has nothing to write for a clean one.  *)
AfterHandler(n) == IF ent'[n].mem = ent[n].base THEN "ack" ELSE "save"

HandlerReturns(n) ==
    /\ job[n].pc = "handler"
    /\ LET m == job[n].cur
           changed == [ent EXCEPT ![n].mem = @ \cup {m}]
       IN IF Usable(n)
          THEN ent' = changed /\ To(n, AfterHandler(n))
          ELSE ent' = changed /\ job' = [job EXCEPT ![n] = Idle]
    /\ UNCHANGED <<homes, msg, seq, stray, doc, key, waiting, hist, mishaps>>

HandlerThrows(n) ==
    /\ job[n].pc = "handler"
    /\ LET m == job[n].cur IN
        /\ ent' \in {ent, [ent EXCEPT ![n].mem = @ \cup {m}]}
        /\ hist' = [hist EXCEPT !.threw[m] = IF @ < MaxAttempts THEN @ + 1 ELSE @]
    /\ To(n, "record")
    /\ UNCHANGED <<homes, msg, seq, stray, doc, key, waiting, mishaps>>

(* MongoDB executes the update; its answer may be lost, or come after the   *)
(* lease.                                                                   *)
SaveExecuted(n) ==
    /\ job[n].pc = "save" /\ Matches(n)
    /\ doc' = [doc EXCEPT !.made = ent[n].mem]
    /\ \/ /\ Usable(n) /\ UNCHANGED mishaps
          /\ ent' = [ent EXCEPT ![n].base = ent[n].mem] /\ To(n, "ack")
       \/ /\ \/ ~Usable(n) /\ UNCHANGED mishaps
             \/ Mishap
          /\ Fail(n)
    /\ UNCHANGED <<homes, msg, seq, stray, key, waiting, hist>>

(* Mutant: a save that fails counts as a failure of the message. *)
SaveRefusedCounts(n) ==
    /\ job[n].pc = "save"
    /\ \/ ~Matches(n) /\ UNCHANGED mishaps
       \/ Mishap
    /\ To(n, "record")
    /\ UNCHANGED <<homes, msg, seq, stray, doc, key, ent, waiting, hist>>

SaveRefused(n) ==
    /\ job[n].pc = "save"
    /\ \/ ~Matches(n) /\ UNCHANGED mishaps
       \/ Mishap
    /\ Fail(n)
    /\ UNCHANGED <<homes, msg, seq, stray, doc, key, waiting, hist>>

(* A request that updates a message fails, and may be executed later.       *)
GiveUp(n, op) ==
    /\ Mishap /\ Fail(n)
    /\ stray' \in {stray, stray \cup {[op |-> op, m |-> job[n].cur]}}
    /\ UNCHANGED <<homes, msg, waiting>>

(* mark_delivered; "already delivered" is as good. *)
Ack(n) ==
    /\ job[n].pc = "ack"
    /\ \/ /\ msg' = Executed("ack", job[n].cur)
          /\ Pass(n, FALSE) /\ UNCHANGED <<stray, mishaps>>
       \/ GiveUp(n, "ack")
    /\ UNCHANGED <<homes, seq, doc, key, hist>>

(* Mutant: one that failed does not hold up the others. *)
BlocksNobody(n) == Pass(n, FALSE)

(* _quarantine, record_failure: the message blocks the queue until it has   *)
(* failed often enough.                                                     *)
Blocks(n) == Fail(n) /\ UNCHANGED waiting

RecordFailure(n) ==
    /\ job[n].pc = "record"
    /\ LET m == job[n].cur IN
       \/ /\ msg' = Executed("record", m)
          /\ IF msg[m].at = "pending" /\ msg'[m].attempts >= MaxAttempts
             THEN To(n, "dead") /\ UNCHANGED <<ent, waiting>>
             ELSE Blocks(n)
          /\ UNCHANGED <<stray, mishaps>>
       \/ GiveUp(n, "record")
    /\ UNCHANGED <<homes, seq, doc, key, hist>>

(* _quarantine, mark_dead *)
MarkDead(n) ==
    /\ job[n].pc = "dead" /\ job[n].kind # "missing"
    /\ LET m == job[n].cur IN
       \/ /\ msg' = Executed("dead", m)
          /\ IF msg[m].at = "pending" THEN Pass(n, TRUE) ELSE Fail(n) /\ UNCHANGED waiting
          /\ UNCHANGED <<stray, mishaps>>
       \/ GiveUp(n, "dead")
    /\ UNCHANGED <<homes, seq, doc, key, hist>>

Retry(n) ==
    /\ ent[n].retry
    /\ ent' = [ent EXCEPT ![n].retry = FALSE]
    /\ waiting' = waiting \cup {Local(n)}
    /\ UNCHANGED <<homes, msg, seq, stray, doc, key, job, hist, mishaps>>

-----------------------------------------------------------------------------
(* _dead_letter_missing: there is no document, so nothing can be delivered. *)
(* Only whether THIS node has loaded the entity meanwhile is looked at.     *)

BeginMissing(w) ==
    /\ Waits(w) /\ w.kind = "missing"
    /\ IF ent[w.node].state = "none" THEN Takes(w, "find") ELSE waiting' = waiting \ {w} /\ UNCHANGED job
    /\ UNCHANGED <<homes, msg, seq, stray, doc, key, ent, hist, mishaps>>

(* Page by page, one after the other. *)
NextMissing(n, batch, again) ==
    /\ \/ \E m \in First(batch) :
              job' = [job EXCEPT ![n].pc = "dead", ![n].batch = batch, ![n].cur = m, ![n].again = again]
       \/ /\ batch = {}
          /\ job' = [job EXCEPT ![n] = IF again THEN [Idle EXCEPT !.pc = "find", !.kind = "missing"] ELSE Idle]
    /\ hist' = [hist EXCEPT !.excused = @ \cup batch]

FindMissing(n) ==
    /\ job[n].pc = "find" /\ job[n].kind = "missing"
    /\ \/ /\ \E B \in SUBSET Pending : IsPage(B) /\ NextMissing(n, B, Cardinality(B) = Page)
          /\ UNCHANGED <<ent, mishaps>>
       \/ Mishap /\ Fail(n) /\ UNCHANGED hist
    /\ UNCHANGED <<homes, msg, seq, stray, doc, key, waiting>>

MarkMissing(n) ==
    /\ job[n].pc = "dead" /\ job[n].kind = "missing"
    /\ LET m == job[n].cur IN
       \/ /\ msg' = Executed("dead", m)
          /\ NextMissing(n, job[n].batch \ {m}, job[n].again)
          /\ UNCHANGED <<stray, ent, waiting, mishaps>>
       \/ GiveUp(n, "dead") /\ UNCHANGED hist
    /\ UNCHANGED <<homes, seq, doc, key>>

-----------------------------------------------------------------------------
(* Dead letters *)

(* What is still to be done to m by operations that have not finished, or   *)
(* by requests that were given up.                                          *)
Outstanding(op, m) ==
    {n \in Nodes : job[n].pc = op /\ job[n].cur = m} \cup
    (IF [op |-> op, m |-> m] \in stray THEN {None} ELSE {})

(* dlq_replay.  What is outstanding will be held against it once more.      *)
Replay(m) ==
    /\ msg[m].at = "dead" /\ Mishap
    /\ msg' = [msg EXCEPT ![m] = [at |-> "pending", attempts |-> 0]]
    /\ LET h == [hist EXCEPT !.threw[m] = Cardinality(Outstanding("record", m)), 
                             !.excused = IF Outstanding("dead", m) = {} THEN @ \ {m} ELSE @ \cup {m}]
       IN \/ /\ \E n \in homes : waiting' = waiting \cup {Poked(n)}
             /\ hist' = h
          \/ /\ hist' = [h EXCEPT !.unpoked = @ \cup {m}] /\ UNCHANGED waiting
    /\ UNCHANGED <<homes, seq, stray, doc, key, ent, job>>

(* dlq_discard *)
Discard(m) ==
    /\ msg[m].at = "dead"
    /\ msg' = Moved(m, "dead", "discarded")
    /\ UNCHANGED <<homes, seq, stray, doc, key, ent, waiting, job, hist, mishaps>>

StrayExecuted ==
    /\ \E s \in stray : stray' = stray \ {s} /\ msg' = Executed(s.op, s.m)
    /\ UNCHANGED <<homes, seq, doc, key, ent, waiting, job, hist, mishaps>>

-----------------------------------------------------------------------------
Start(n) == \E w \in waiting : w.node = n /\ (Begin(w) \/ Lock(w) \/ Forward(w) \/ Refuse(w) \/ BeginMissing(w))

Step(n) ==
    \/ Load(n) \/ LoadFails(n) \/ Find(n) \/ HandlerReturns(n) \/ HandlerThrows(n)
    \/ SaveExecuted(n) \/ SaveRefused(n) \/ Ack(n) \/ RecordFailure(n) \/ MarkDead(n)
    \/ FindMissing(n) \/ MarkMissing(n)

Next ==
    \/ \E m \in Msgs : NextSeq(m) \/ Save(m) \/ Replay(m) \/ Discard(m)
    \/ \E n \in Nodes : \/ Start(n) \/ Step(n) \/ Retry(n)
                        \/ SweepSaves(n) \/ Unload(n) \/ Leave(n) \/ Crash(n) \/ Request(n)
    \/ Create \/ LoseLease \/ StrayExecuted

Spec == Init /\ [][Next]_vars

-----------------------------------------------------------------------------
(* Type correctness *)
Message   == [at : {"none", "numbered", "pending", "delivered", "dead", "discarded"}, attempts : Nat]
Update    == [op : {"ack", "record", "dead"}, m : Msgs]
Document  == [exists : BOOLEAN, made : SUBSET Msgs, fence : Nodes \cup {None}]
Entity    == [state : {"none", "loaded", "unloading", "invalid"}, mem : SUBSET Msgs,
              base : SUBSET Msgs, retry : BOOLEAN]
Waiting   == [node : Nodes, kind : {"poke", "local", "loaded", "missing"}, from : Nodes \cup {None}]
Operation == [pc : {"idle", "load", "find", "handler", "save", "ack", "record", "dead"},
              kind : {"none", "request", "deliver", "missing"},
              batch : SUBSET Msgs, cur : Msgs \cup {None}, again : BOOLEAN]
History   == [threw : [Msgs -> Nat], unpoked : SUBSET Msgs, excused : SUBSET Msgs]

TypeOK ==
    /\ msg \in [Msgs -> Message] /\ seq \in [Msgs -> Nat]
    /\ stray \subseteq Update
    /\ doc \in Document /\ key \in Nodes \cup {None, Orphan}
    /\ ent \in [Nodes -> Entity]
    /\ waiting \subseteq Waiting /\ job \in [Nodes -> Operation]
    /\ homes \in (SUBSET Nodes) \ {{}}
    /\ hist \in History
    /\ mishaps \in Nat

(* A message that is delivered has its effect in the stored document: no    *)
(* crash, lost lease or late request leaves it acknowledged without.        *)
AckedIsDurable == \A m \in Msgs : msg[m].at = "delivered" => m \in doc.made

(* A message is a dead letter only if its handler has thrown as often as    *)
(* allowed since it was last replayed, or its entity did not exist, or a    *)
(* verdict from before the replay came late.                                *)
DeadByPolicy ==
    \A m \in Msgs : msg[m].at = "dead" =>
        hist.threw[m] >= MaxAttempts \/ m \in hist.excused

(* When a handler runs, what stood before its message in the queue is       *)
(* settled: a message that failed is not skipped.                           *)
InOrder ==
    [][\A n \in Nodes : job'[n].pc = "handler" => (job[n].batch \ job'[n].batch) \cap Pending' = {}]_vars

(* A message whose wake-up was not lost is not forgotten by a node that     *)
(* serves the entity: an operation has it, or waits for the gate, or the    *)
(* retry timer runs.                                                        *)
Coming(n) ==
    \/ ent[n].retry
    \/ \E w \in waiting : (w.node = n /\ w.kind # "missing") \/ w.kind = "poke"
    \/ job[n].kind # "missing" /\ (job[n].pc = "find" \/ job[n].again)

NeverForgotten ==
    \A m \in Pending \ hist.unpoked, n \in Nodes : Usable(n) => Coming(n) \/ m \in job[n].batch
=============================================================================
