------------------------- MODULE ReliableMsgProofs -------------------------
(***************************************************************************)
(* ReliableMsg for any nodes, messages, page size and number of attempts.   *)
(***************************************************************************)
EXTENDS ReliableMsg, FiniteSetTheorems, TLAPS

(* An operation has a batch while it works on it, and then a current message. *)
Working(n) == job[n].pc \in {"handler", "save", "ack", "record", "dead"}

Batches ==
    \A n \in Nodes :
        /\ Working(n) => job[n].cur \in Msgs
        /\ ~Working(n) => job[n].batch = {} /\ ~job[n].again

TypeInv == TypeOK /\ Batches

USE ReliableAssumption

-----------------------------------------------------------------------------
(* Records that the actions build *)

LEMMA Initials ==
    /\ NoEnt \in Entity /\ Idle \in Operation
    /\ \A n \in Nodes : Poked(n) \in Waiting /\ Local(n) \in Waiting
    /\ \A n \in Nodes : Job(n, "missing", None) \in Waiting
    /\ \A n \in Nodes, k \in Nodes : Job(n, "loaded", k) \in Waiting
BY DEF NoEnt, Entity, Idle, Operation, Poked, Local, Job, Waiting

LEMMA Entities ==
    ASSUME NEW e \in Entity, NEW b \in BOOLEAN, NEW S \in SUBSET Msgs
    PROVE  /\ [e EXCEPT !.retry = b] \in Entity
           /\ [e EXCEPT !.state = "invalid", !.retry = FALSE] \in Entity
           /\ [e EXCEPT !.state = "unloading", !.retry = FALSE] \in Entity
           /\ [e EXCEPT !.mem = S] \in Entity
           /\ [e EXCEPT !.base = S] \in Entity
           /\ e.mem \in SUBSET Msgs /\ e.base \in SUBSET Msgs /\ e.retry \in BOOLEAN
BY DEF Entity

Pcs == {"idle", "load", "find", "handler", "save", "ack", "record", "dead"}

LEMMA Operations ==
    ASSUME NEW j \in Operation, NEW pc \in Pcs
    PROVE  /\ [j EXCEPT !.pc = pc] \in Operation
           /\ j.batch \in SUBSET Msgs /\ j.again \in BOOLEAN
BY DEF Operation, Pcs

LEMMA Batched ==
    ASSUME NEW j \in Operation, NEW pc \in Pcs, NEW B \in SUBSET Msgs, NEW m \in Msgs, NEW a \in BOOLEAN
    PROVE  [j EXCEPT !.pc = pc, !.batch = B, !.cur = m, !.again = a] \in Operation
BY DEF Operation, Pcs

(* Updates of messages are safe whatever the message's status is. *)
LEMMA Updates ==
    ASSUME msg \in [Msgs -> Message], NEW m \in Msgs,
           NEW op \in {"ack", "record", "dead"}
    PROVE  Executed(op, m) \in [Msgs -> Message]
BY DEF Executed, Moved, Counted, Message

LEMMA Discards ==
    ASSUME msg \in [Msgs -> Message], NEW m \in Msgs
    PROVE  Moved(m, "dead", "discarded") \in [Msgs -> Message]
BY DEF Moved, Message

LEMMA HistorySets ==
    ASSUME NEW h \in History, NEW S \in SUBSET Msgs
    PROVE  /\ [h EXCEPT !.unpoked = S] \in History
           /\ [h EXCEPT !.excused = S] \in History
           /\ h.unpoked \in SUBSET Msgs /\ h.excused \in SUBSET Msgs /\ h.threw \in [Msgs -> Nat]
BY DEF History

LEMMA HistoryCounts ==
    ASSUME NEW h \in History, NEW m \in Msgs, NEW k \in Nat
    PROVE  [h EXCEPT !.threw[m] = k] \in History
BY DEF History

LEMMA MishapType == ASSUME mishaps \in Nat, Mishap PROVE mishaps' \in Nat
BY DEF Mishap

LEMMA SendType == ASSUME TypeInv, NEW m \in Msgs, NextSeq(m) \/ Save(m) PROVE TypeInv'
<1>1. CASE NextSeq(m)
  <2>1. Cardinality(Numbered) \in Nat
    BY FS_Subset, FS_CardinalityType DEF Numbered
  <2> QED BY <1>1, <2>1 DEF NextSeq, TypeInv, TypeOK, Batches, Working, Message
<1>2. CASE Save(m)
  <2>1. msg' \in [Msgs -> Message] /\ UNCHANGED <<homes, seq, stray, doc, key, ent, job>>
    BY <1>2 DEF Save, TypeInv, TypeOK, Message
  <2>2. waiting' \subseteq Waiting /\ hist' \in History /\ mishaps' \in Nat
    <3>1. CASE \E n \in homes : waiting' = waiting \cup {Poked(n)} /\ UNCHANGED <<hist, mishaps>>
      BY <3>1, Initials DEF TypeInv, TypeOK
    <3>2. CASE Mishap /\ hist' = [hist EXCEPT !.unpoked = @ \cup {m}] /\ UNCHANGED waiting
      <4>1. hist.unpoked \cup {m} \in SUBSET Msgs
        BY HistorySets DEF TypeInv, TypeOK
      <4> QED BY <3>2, <4>1, HistorySets, MishapType DEF TypeInv, TypeOK
    <3> QED BY <1>2, <3>1, <3>2 DEF Save, Poke
  <2> QED BY <2>1, <2>2 DEF TypeInv, TypeOK, Batches, Working
<1> QED BY <1>1, <1>2

(* Actions of the entity and its environment leave operations alone. *)
LEMMA EntityType ==
    ASSUME TypeInv, NEW n \in Nodes,
           Create \/ SweepSaves(n) \/ LoseLease \/ Unload(n) \/ Leave(n) \/ Retry(n) \/ StrayExecuted
    PROVE  TypeInv'
<1> USE DEF TypeInv, TypeOK
<1>1. ent[n] \in Entity
  OBVIOUS
<1>2. CASE Create
  BY <1>2 DEF Create, Document, Batches, Working
<1>3. CASE SweepSaves(n)
  BY <1>1, <1>3, Entities DEF SweepSaves, Document, Batches, Working
<1>4. CASE LoseLease
  <2>1. mishaps' \in Nat
    BY <1>4, MishapType DEF LoseLease
  <2>2. ent' \in [Nodes -> Entity]
    BY <1>4, Entities DEF LoseLease
  <2> QED BY <1>4, <2>1, <2>2 DEF LoseLease, Batches, Working
<1>5. CASE Unload(n)
  <2>1. mishaps' \in Nat
    BY <1>5, MishapType DEF Unload
  <2>2. ent' \in [Nodes -> Entity]
    BY <1>1, <1>5, Entities, Initials DEF Unload
  <2>3. doc' \in Document /\ key' \in Nodes \cup {None, Orphan}
    BY <1>1, <1>5, Entities DEF Unload, Document
  <2> QED BY <1>5, <2>1, <2>2, <2>3 DEF Unload, Batches, Working
<1>6. CASE Leave(n)
  BY <1>1, <1>6, Entities, Initials DEF Leave, Document, Batches, Working
<1>7. CASE Retry(n)
  BY <1>1, <1>7, Entities, Initials DEF Retry, Batches, Working
<1>8. CASE StrayExecuted
  <2>1. PICK s \in stray : stray' = stray \ {s} /\ msg' = Executed(s.op, s.m)
    BY <1>8 DEF StrayExecuted
  <2>2. s.op \in {"ack", "record", "dead"} /\ s.m \in Msgs
    BY DEF Update
  <2> QED BY <1>8, <2>1, <2>2, Updates DEF StrayExecuted, Batches, Working
<1> QED BY <1>2, <1>3, <1>4, <1>5, <1>6, <1>7, <1>8

LEMMA CrashType == ASSUME TypeInv, NEW n \in Nodes, Crash(n) PROVE TypeInv'
<1> USE DEF TypeInv, TypeOK
<1>1. mishaps' \in Nat
  BY MishapType DEF Crash
<1>2. ent' \in [Nodes -> Entity] /\ job' \in [Nodes -> Operation] /\ key' \in Nodes \cup {None, Orphan}
  BY Initials DEF Crash
<1>3. stray' \subseteq Update
  BY DEF Crash, Update, Batches, Working
<1>4. waiting' \subseteq Waiting
  BY DEF Crash, Waiting
<1>5. hist' \in History
  BY HistorySets DEF Crash, Pending
<1>6. Batches'
  BY DEF Crash, Batches, Working, Idle
<1> QED BY <1>1, <1>2, <1>3, <1>4, <1>5, <1>6 DEF Crash

(* The gate is given away, or a wake-up goes somewhere else. *)
LEMMA StartType == ASSUME TypeInv, NEW n \in Nodes, Start(n) PROVE TypeInv'
<1> USE DEF TypeInv, TypeOK
<1>1. PICK w \in waiting : w.node = n /\ (Begin(w) \/ Lock(w) \/ Forward(w) \/ Refuse(w) \/ BeginMissing(w))
  BY DEF Start
<1>2. w \in Waiting /\ waiting \ {w} \subseteq Waiting
  OBVIOUS
<1>3. ASSUME NEW pc \in {"load", "find"}, Takes(w, pc)
      PROVE  waiting' \subseteq Waiting /\ job' \in [Nodes -> Operation] /\ Batches'
  <2>1. job' = [job EXCEPT ![n] = [Idle EXCEPT !.pc = pc, !.kind = IF w.kind = "missing" THEN "missing" ELSE "deliver"]]
    BY <1>1, <1>3 DEF Takes
  <2>2. [Idle EXCEPT !.pc = pc, !.kind = IF w.kind = "missing" THEN "missing" ELSE "deliver"] \in Operation
    BY Initials DEF Operation
  <2>3. waiting' = waiting \ {w}
    BY <1>3 DEF Takes
  <2> QED BY <2>1, <2>2, <2>3, <1>2 DEF Batches, Working, Idle
<1>4. CASE Begin(w)
  BY <1>3, <1>4 DEF Begin
<1>5. CASE Lock(w)
  BY <1>1, <1>3, <1>5 DEF Lock
<1>6. CASE Forward(w)
  <2>1. waiting' \subseteq Waiting
    BY <1>1, <1>2, <1>6, Initials DEF Forward
  <2>2. hist.unpoked \cup Pending \in SUBSET Msgs
    BY HistorySets DEF Pending
  <2>3. hist' \in History
    <3>1. hist' = hist \/ hist' = [hist EXCEPT !.unpoked = hist.unpoked \cup Pending]
      BY <1>6 DEF Forward
    <3>2. [hist EXCEPT !.unpoked = hist.unpoked \cup Pending] \in History
      BY ONLY <2>2, hist \in History, HistorySets
    <3> QED BY <3>1, <3>2
  <2>4. mishaps' \in Nat
    BY <1>6, MishapType DEF Forward
  <2> QED BY <1>6, <2>1, <2>3, <2>4 DEF Forward, Batches, Working
<1>7. CASE Refuse(w)
  <2>1. w.from \in Nodes \cup {None}
    BY <1>2 DEF Waiting
  <2>2. waiting' \subseteq Waiting
    BY <1>2, <1>7, <2>1, Initials DEF Refuse
  <2>3. hist' \in History
    BY <1>7, HistorySets DEF Refuse, Pending
  <2> QED BY <1>7, <2>2, <2>3 DEF Refuse, Batches, Working
<1>8. CASE BeginMissing(w)
  <2>1. CASE ent[w.node].state = "none"
    BY <1>3, <1>8, <2>1 DEF BeginMissing
  <2>2. CASE ent[w.node].state # "none"
    BY <1>2, <1>8, <2>2 DEF BeginMissing, Batches, Working
  <2> QED BY <2>1, <2>2
<1> QED BY <1>1, <1>4, <1>5, <1>6, <1>7, <1>8

-----------------------------------------------------------------------------
(* Operations *)

LEMMA FailType ==
    ASSUME TypeInv, NEW n \in Nodes, Fail(n)
    PROVE  job' \in [Nodes -> Operation] /\ ent' \in [Nodes -> Entity] /\ Batches'
BY Initials, Entities DEF Fail, Retried, Usable, Valid, TypeInv, TypeOK, Batches, Working, Idle

LEMMA ContinueType ==
    ASSUME TypeInv, NEW n \in Nodes, NEW B \in SUBSET Msgs, NEW a \in BOOLEAN, Continue(n, B, a)
    PROVE  /\ job' \in [Nodes -> Operation] /\ ent' \in [Nodes -> Entity]
           /\ waiting' \subseteq Waiting /\ Batches'
<1> USE DEF TypeInv, TypeOK
<1>1. CASE Usable(n) /\ UNCHANGED <<ent, waiting>>
           /\ \E m \in First(B) : job' = [job EXCEPT ![n].pc = "handler", ![n].batch = B, ![n].cur = m, ![n].again = a]
  <2>1. PICK m \in First(B) : job' = [job EXCEPT ![n].pc = "handler", ![n].batch = B, ![n].cur = m, ![n].again = a]
    BY <1>1
  <2>2. m \in Msgs
    BY DEF First
  <2>3. job' = [job EXCEPT ![n] = [job[n] EXCEPT !.pc = "handler", !.batch = B, !.cur = m, !.again = a]]
    BY <2>1
  <2>4. job' \in [Nodes -> Operation]
    BY <2>2, <2>3, Batched DEF Pcs
  <2>5. Batches'
    BY <2>1, <2>2 DEF Batches, Working, Operation
  <2> QED BY <1>1, <2>4, <2>5
<1>2. CASE Fail(n) /\ UNCHANGED waiting
  BY <1>2, FailType
<1>3. CASE /\ job' = [job EXCEPT ![n] = Idle]
           /\ ent' = [ent EXCEPT ![n].retry = @ /\ ~Usable(n)]
           /\ waiting' = IF a THEN waiting \cup {Local(n)} ELSE waiting
  <2>1. job' \in [Nodes -> Operation] /\ Batches'
    BY <1>3, Initials DEF Batches, Working, Idle
  <2>2. ent' \in [Nodes -> Entity]
    BY <1>3, Entities DEF Usable, Valid
  <2>3. waiting' \subseteq Waiting
    BY <1>3, Initials
  <2> QED BY <2>1, <2>2, <2>3
<1> QED BY <1>1, <1>2, <1>3 DEF Continue

LEMMA GiveUpType ==
    ASSUME TypeInv, NEW n \in Nodes, NEW op \in {"ack", "record", "dead"}, job[n].pc = op, GiveUp(n, op)
    PROVE  /\ job' \in [Nodes -> Operation] /\ ent' \in [Nodes -> Entity] /\ Batches'
           /\ stray' \subseteq Update /\ mishaps' \in Nat
<1>1. stray' \subseteq Update
  BY DEF GiveUp, Update, TypeInv, TypeOK, Batches, Working
<1> QED BY <1>1, FailType, MishapType DEF GiveUp, TypeInv, TypeOK

(* An operation goes to another step with the message it has. *)
LEMMA ToType ==
    ASSUME TypeInv, NEW n \in Nodes, NEW pc \in {"handler", "save", "ack", "record", "dead"}, Working(n), To(n, pc)
    PROVE  job' \in [Nodes -> Operation] /\ Batches'
<1> USE DEF TypeInv, TypeOK
<1>1. job' = [job EXCEPT ![n] = [job[n] EXCEPT !.pc = pc]]
  BY DEF To
<1>2. job' \in [Nodes -> Operation]
  BY <1>1, Operations DEF Pcs
<1> QED BY <1>1, <1>2 DEF Batches, Working, Operation

LEMMA NextMissingType ==
    ASSUME TypeInv, NEW n \in Nodes, NEW B \in SUBSET Msgs, NEW a \in BOOLEAN, NextMissing(n, B, a)
    PROVE  job' \in [Nodes -> Operation] /\ hist' \in History /\ Batches'
<1> USE DEF TypeInv, TypeOK
<1>1. hist' \in History
  BY HistorySets DEF NextMissing
<1>2. CASE \E m \in First(B) : job' = [job EXCEPT ![n].pc = "dead", ![n].batch = B, ![n].cur = m, ![n].again = a]
  <2>1. PICK m \in First(B) : job' = [job EXCEPT ![n].pc = "dead", ![n].batch = B, ![n].cur = m, ![n].again = a]
    BY <1>2
  <2>2. m \in Msgs
    BY DEF First
  <2>3. job' = [job EXCEPT ![n] = [job[n] EXCEPT !.pc = "dead", !.batch = B, !.cur = m, !.again = a]]
    BY <2>1
  <2>4. job' \in [Nodes -> Operation]
    BY <2>2, <2>3, Batched DEF Pcs
  <2>5. Batches'
    BY <2>1, <2>2 DEF Batches, Working, Operation
  <2> QED BY <1>1, <2>4, <2>5
<1>3. CASE job' = [job EXCEPT ![n] = IF a THEN [Idle EXCEPT !.pc = "find", !.kind = "missing"] ELSE Idle]
  <2>1. [Idle EXCEPT !.pc = "find", !.kind = "missing"] \in Operation
    BY Initials DEF Operation
  <2> QED BY <1>1, <1>3, <2>1, Initials DEF Batches, Working, Idle
<1> QED BY <1>1, <1>2, <1>3 DEF NextMissing

LEMMA LoadType ==
    ASSUME TypeInv, NEW n \in Nodes, Request(n) \/ Load(n) \/ LoadFails(n)
    PROVE  TypeInv'
<1> USE DEF TypeInv, TypeOK
<1>1. CASE Request(n)
  <2>1. [Idle EXCEPT !.pc = "load", !.kind = "request"] \in Operation
    BY Initials DEF Operation
  <2> QED BY <1>1, <2>1 DEF Request, Batches, Working, Idle
<1>2. CASE Load(n)
  <2>1. doc' \in Document /\ ent' \in [Nodes -> Entity]
    BY <1>2 DEF Load, Document, Entity
  <2>2. waiting' \subseteq Waiting
    BY <1>2, Initials DEF Load
  <2>3. job' = [job EXCEPT ![n] = Idle] \/ job' = [job EXCEPT ![n] = [job[n] EXCEPT !.pc = "find"]]
    BY <1>2 DEF Load, To
  <2>4. job' \in [Nodes -> Operation]
    <3>1. [job[n] EXCEPT !.pc = "find"] \in Operation
      BY Operations DEF Pcs
    <3> QED BY <2>3, <3>1, Initials
  <2>5. Batches'
    BY <1>2, <2>3 DEF Load, Batches, Working, Idle, Operation
  <2> QED BY <1>2, <2>1, <2>2, <2>4, <2>5 DEF Load
<1>3. CASE LoadFails(n)
  <2>1. job' \in [Nodes -> Operation] /\ waiting' \subseteq Waiting /\ mishaps' \in Nat
    BY <1>3, Initials, MishapType DEF LoadFails
  <2> QED BY <1>3, <2>1 DEF LoadFails, Batches, Working, Idle
<1> QED BY <1>1, <1>2, <1>3

LEMMA FindType ==
    ASSUME TypeInv, NEW n \in Nodes, Find(n) \/ FindMissing(n)
    PROVE  TypeInv'
<1> USE DEF TypeInv, TypeOK
<1>1. CASE Find(n)
  <2>1. CASE \E B \in SUBSET Pending :
                 /\ IsPage(B) /\ Continue(n, B, Cardinality(B) = Page) /\ UNCHANGED mishaps
                 /\ hist' = IF Usable(n) THEN [hist EXCEPT !.unpoked = @ \ B] ELSE hist
    <3>1. PICK B \in SUBSET Pending :
                 /\ IsPage(B) /\ Continue(n, B, Cardinality(B) = Page) /\ UNCHANGED mishaps
                 /\ hist' = IF Usable(n) THEN [hist EXCEPT !.unpoked = @ \ B] ELSE hist
      BY <2>1
    <3>2. B \in SUBSET Msgs
      BY DEF Pending
    <3>3. hist' \in History
      BY <3>1, HistorySets
    <3> QED BY <1>1, <3>1, <3>2, <3>3, ContinueType DEF Find
  <2>2. CASE Mishap /\ Fail(n) /\ UNCHANGED <<waiting, hist>>
    BY <1>1, <2>2, FailType, MishapType DEF Find
  <2> QED BY <1>1, <2>1, <2>2 DEF Find
<1>2. CASE FindMissing(n)
  <2>1. CASE \E B \in SUBSET Pending : NextMissing(n, B, Cardinality(B) = Page) /\ UNCHANGED <<ent, mishaps>>
    <3>1. PICK B \in SUBSET Pending : NextMissing(n, B, Cardinality(B) = Page) /\ UNCHANGED <<ent, mishaps>>
      BY <2>1
    <3>2. B \in SUBSET Msgs
      BY DEF Pending
    <3> QED BY <1>2, <3>1, <3>2, NextMissingType DEF FindMissing
  <2>2. CASE Mishap /\ Fail(n) /\ UNCHANGED hist
    BY <1>2, <2>2, FailType, MishapType DEF FindMissing
  <2> QED BY <1>2, <2>1, <2>2 DEF FindMissing
<1> QED BY <1>1, <1>2

(* A handler ends, and the requests that follow it. *)
LEMMA HandlerType ==
    ASSUME TypeInv, NEW n \in Nodes, HandlerReturns(n) \/ HandlerThrows(n)
    PROVE  TypeInv'
<1> USE DEF TypeInv, TypeOK
<1> DEFINE m == job[n].cur
<1>1. Working(n) /\ m \in Msgs
  BY DEF HandlerReturns, HandlerThrows, Working, Batches
<1>2. [ent EXCEPT ![n].mem = @ \cup {m}] \in [Nodes -> Entity]
  BY <1>1, Entities
<1>3. CASE HandlerReturns(n)
  <2>1. CASE Usable(n)
    <3>1. PICK pc \in {"ack", "save"} : To(n, pc)
      BY <1>3, <2>1 DEF HandlerReturns, AfterHandler
    <3> QED BY <1>1, <1>2, <1>3, <2>1, <3>1, ToType DEF HandlerReturns
  <2>2. CASE ~Usable(n)
    <3>1. job' \in [Nodes -> Operation] /\ Batches'
      <4>1. job' = [job EXCEPT ![n] = Idle]
        BY <1>3, <2>2 DEF HandlerReturns
      <4> QED BY <4>1, Initials DEF Batches, Working, Idle
    <3> QED BY <1>2, <1>3, <2>2, <3>1 DEF HandlerReturns
  <2> QED BY <2>1, <2>2
<1>4. CASE HandlerThrows(n)
  <2>1. job' \in [Nodes -> Operation] /\ Batches'
    BY <1>1, <1>4, ToType DEF HandlerThrows
  <2>2. hist' = [hist EXCEPT !.threw[m] = IF hist.threw[m] < MaxAttempts THEN hist.threw[m] + 1 ELSE hist.threw[m]]
    BY <1>4 DEF HandlerThrows
  <2>3. hist.threw[m] \in Nat
    BY <1>1 DEF History
  <2>4. hist' \in History
    <3>1. hist \in History
      OBVIOUS
    <3> DEFINE k == IF hist.threw[m] < MaxAttempts THEN hist.threw[m] + 1 ELSE hist.threw[m]
    <3>2. k \in Nat
      BY ONLY <2>3
    <3>3. hist' = [hist EXCEPT !.threw[m] = k]
      BY <2>2
    <3> HIDE DEF TypeInv, TypeOK, m, k
    <3>4. [hist EXCEPT !.threw[m] = k] \in History
      BY <1>1, <3>1, <3>2, HistoryCounts
    <3> QED BY <3>3, <3>4
  <2>5. ent' \in [Nodes -> Entity]
    BY <1>2, <1>4 DEF HandlerThrows
  <2>6. UNCHANGED <<homes, msg, seq, stray, doc, key, waiting, mishaps>>
    BY <1>4 DEF HandlerThrows
  <2> QED BY <2>1, <2>4, <2>5, <2>6
<1> QED BY <1>3, <1>4

LEMMA SaveType ==
    ASSUME TypeInv, NEW n \in Nodes, SaveExecuted(n) \/ SaveRefused(n)
    PROVE  TypeInv'
<1> USE DEF TypeInv, TypeOK
<1>1. CASE SaveExecuted(n)
  <2>1. doc' \in Document
    BY <1>1, Entities DEF SaveExecuted, Document
  <2>2. CASE UNCHANGED mishaps /\ ent' = [ent EXCEPT ![n].base = ent[n].mem] /\ To(n, "ack")
    <3>1. job' \in [Nodes -> Operation] /\ Batches'
      BY <1>1, <2>2, ToType DEF SaveExecuted, Working
    <3>2. ent' \in [Nodes -> Entity]
      BY <2>2, Entities
    <3> QED BY <1>1, <2>1, <2>2, <3>1, <3>2 DEF SaveExecuted
  <2>3. CASE (UNCHANGED mishaps \/ Mishap) /\ Fail(n)
    BY <1>1, <2>1, <2>3, FailType, MishapType DEF SaveExecuted
  <2> QED BY <1>1, <2>2, <2>3 DEF SaveExecuted
<1>2. CASE SaveRefused(n)
  BY <1>2, FailType, MishapType DEF SaveRefused
<1> QED BY <1>1, <1>2

LEMMA UpdateType ==
    ASSUME TypeInv, NEW n \in Nodes, Ack(n) \/ RecordFailure(n) \/ MarkDead(n) \/ MarkMissing(n)
    PROVE  TypeInv'
<1> USE DEF TypeInv, TypeOK
<1> DEFINE m == job[n].cur
           left == job[n].batch \ {m}
<1>1. m \in Msgs /\ Working(n)
  BY DEF Ack, RecordFailure, MarkDead, MarkMissing, Batches, Working
<1>2. left \in SUBSET Msgs /\ job[n].again \in BOOLEAN
  BY Operations DEF Operation
<1>3. \A op \in {"ack", "record", "dead"} : Executed(op, m) \in [Msgs -> Message]
  BY <1>1, Updates
<1>4. ASSUME NEW q \in BOOLEAN, Pass(n, q)
      PROVE  /\ job' \in [Nodes -> Operation] /\ ent' \in [Nodes -> Entity]
             /\ waiting' \subseteq Waiting /\ Batches'
  <2>1. (job[n].again \/ q) \in BOOLEAN
    OBVIOUS
  <2> QED BY <1>2, <1>4, <2>1, ContinueType DEF Pass
<1>5. CASE Ack(n)
  <2>1. CASE msg' = Executed("ack", m) /\ Pass(n, FALSE) /\ UNCHANGED <<stray, mishaps>>
    BY <1>3, <1>4, <1>5, <2>1 DEF Ack
  <2>2. CASE GiveUp(n, "ack")
    BY <1>5, <2>2, GiveUpType DEF Ack, GiveUp
  <2> QED BY <1>5, <2>1, <2>2 DEF Ack
<1>6. CASE RecordFailure(n)
  <2>1. CASE msg' = Executed("record", m) /\ To(n, "dead") /\ UNCHANGED <<ent, waiting, stray, mishaps>>
    BY <1>1, <1>3, <1>6, <2>1, ToType DEF RecordFailure
  <2>2. CASE msg' = Executed("record", m) /\ Blocks(n) /\ UNCHANGED <<stray, mishaps>>
    BY <1>3, <1>6, <2>2, FailType DEF RecordFailure, Blocks
  <2>3. CASE GiveUp(n, "record")
    BY <1>6, <2>3, GiveUpType DEF RecordFailure, GiveUp
  <2> QED BY <1>6, <2>1, <2>2, <2>3 DEF RecordFailure
<1>7. CASE MarkDead(n)
  <2>1. CASE msg' = Executed("dead", m) /\ Pass(n, TRUE) /\ UNCHANGED <<stray, mishaps>>
    BY <1>3, <1>4, <1>7, <2>1 DEF MarkDead
  <2>2. CASE msg' = Executed("dead", m) /\ Fail(n) /\ UNCHANGED <<waiting, stray, mishaps>>
    BY <1>3, <1>7, <2>2, FailType DEF MarkDead
  <2>3. CASE GiveUp(n, "dead")
    BY <1>7, <2>3, GiveUpType DEF MarkDead, GiveUp
  <2> QED BY <1>7, <2>1, <2>2, <2>3 DEF MarkDead
<1>8. CASE MarkMissing(n)
  <2>1. CASE msg' = Executed("dead", m) /\ NextMissing(n, left, job[n].again) /\ UNCHANGED <<stray, ent, waiting, mishaps>>
    BY <1>2, <1>3, <1>8, <2>1, NextMissingType DEF MarkMissing
  <2>2. CASE GiveUp(n, "dead") /\ UNCHANGED hist
    BY <1>8, <2>2, GiveUpType DEF MarkMissing, GiveUp
  <2> QED BY <1>8, <2>1, <2>2 DEF MarkMissing
<1> QED BY <1>5, <1>6, <1>7, <1>8

LEMMA OutstandingFinite ==
    ASSUME NEW op, NEW m
    PROVE  IsFiniteSet(Outstanding(op, m)) /\ Cardinality(Outstanding(op, m)) \in Nat
<1>1. IsFiniteSet({n \in Nodes : job[n].pc = op /\ job[n].cur = m})
  BY FS_Subset
<1>2. IsFiniteSet(IF [op |-> op, m |-> m] \in stray THEN {None} ELSE {})
  BY FS_Singleton, FS_EmptySet
<1>3. IsFiniteSet(Outstanding(op, m))
  BY <1>1, <1>2, FS_Union DEF Outstanding
<1> QED BY <1>3, FS_CardinalityType

LEMMA DeadLetterType ==
    ASSUME TypeInv, NEW m \in Msgs, Replay(m) \/ Discard(m)
    PROVE  TypeInv'
<1> USE DEF TypeInv, TypeOK
<1>1. CASE Replay(m)
  <2> DEFINE h == [hist EXCEPT !.threw[m] = Cardinality(Outstanding("record", m)),
                               !.excused = IF Outstanding("dead", m) = {} THEN @ \ {m} ELSE @ \cup {m}]
  <2>1. Cardinality(Outstanding("record", m)) \in Nat
    BY OutstandingFinite
  <2>2. h \in History
    BY <2>1 DEF History
  <2>3. [h EXCEPT !.unpoked = @ \cup {m}] \in History
    BY <2>2 DEF History
  <2>4. hist' \in History
    BY <1>1, <2>2, <2>3 DEF Replay
  <2>5. waiting' \subseteq Waiting
    BY <1>1, Initials DEF Replay
  <2>6. msg' \in [Msgs -> Message] /\ mishaps' \in Nat
    BY <1>1, MishapType DEF Replay, Message
  <2> QED BY <1>1, <2>4, <2>5, <2>6 DEF Replay, Batches, Working
<1>2. CASE Discard(m)
  BY <1>2, Discards DEF Discard, Batches, Working
<1> QED BY <1>1, <1>2

LEMMA InitType == Init => TypeInv
<1> SUFFICES ASSUME Init PROVE TypeInv
  OBVIOUS
<1>1. doc \in Document /\ hist \in History
  BY DEF Init, Document, History
<1>2. ent \in [Nodes -> Entity] /\ job \in [Nodes -> Operation]
  BY Initials DEF Init
<1> QED BY <1>1, <1>2 DEF Init, TypeInv, TypeOK, Batches, Working, Idle, Message

LEMMA StepType == TypeInv /\ [Next]_vars => TypeInv'
<1> SUFFICES ASSUME TypeInv, [Next]_vars PROVE TypeInv'
  OBVIOUS
<1>1. CASE UNCHANGED vars
  BY <1>1 DEF vars, TypeInv, TypeOK, Batches, Working
<1>2. ASSUME NEW m \in Msgs, NextSeq(m) \/ Save(m) \/ Replay(m) \/ Discard(m) PROVE TypeInv'
  BY <1>2, SendType, DeadLetterType
<1>3. ASSUME NEW n \in Nodes, Step(n) PROVE TypeInv'
  BY <1>3, LoadType, FindType, HandlerType, SaveType, UpdateType DEF Step
<1>4. ASSUME NEW n \in Nodes,
             Start(n) \/ Retry(n) \/ SweepSaves(n) \/ Unload(n) \/ Leave(n) \/ Crash(n) \/ Request(n)
      PROVE  TypeInv'
  BY <1>4, StartType, EntityType, CrashType, LoadType
<1>5. CASE Create \/ LoseLease \/ StrayExecuted
  <2>1. PICK n \in Nodes : TRUE
    BY DEF TypeInv, TypeOK
  <2> QED BY <1>5, <2>1, EntityType
<1> QED BY <1>1, <1>2, <1>3, <1>4, <1>5 DEF Next

(* Messages, the entity, the operations at its gate and what is remembered  *)
(* of them have their types, whatever is lost, crashes or comes late.       *)
THEOREM TypeCorrect == Spec => []TypeOK
<1>1. TypeInv => TypeOK
  BY DEF TypeInv
<1> QED BY <1>1, InitType, StepType, PTL DEF Spec

-----------------------------------------------------------------------------
(* What is acknowledged is stored.  A node's picture of the document is not *)
(* ahead of it, and the document only grows: so does, with it, everything   *)
(* that an acknowledgement, also a late one, relies on.                     *)

Pictured == \A n \in Nodes : ent[n].base \subseteq ent[n].mem /\ ent[n].base \subseteq doc.made

Stored ==
    /\ \A n \in Nodes : job[n].pc = "save" => job[n].cur \in ent[n].mem
    /\ \A n \in Nodes : job[n].pc = "ack" => job[n].cur \in doc.made
    /\ \A s \in stray : s.op = "ack" => s.m \in doc.made

Durable == Pictured /\ Stored /\ AckedIsDurable

LEMMA WriteGrows ==
    ASSUME Pictured, NEW n \in Nodes, Matches(n)
    PROVE  doc.made \subseteq ent[n].mem
BY DEF Pictured, Matches

(* The document keeps what it has. *)
LEMMA DocumentGrows ==
    ASSUME TypeInv, Pictured, Next
    PROVE  doc.made \subseteq doc'.made
<1> USE DEF TypeInv, TypeOK, Document
<1>1. ASSUME NEW n \in Nodes, SweepSaves(n) \/ Unload(n) \/ Leave(n) \/ Load(n) \/ SaveExecuted(n)
      PROVE  doc.made \subseteq doc'.made
  BY <1>1, WriteGrows DEF SweepSaves, Unload, Leave, Load, SaveExecuted
<1>2. CASE Create
  BY <1>2 DEF Create
<1>3. CASE UNCHANGED doc
  BY <1>3
<1> QED
  BY <1>1, <1>2, <1>3
  DEF Next, Step, Start, NextSeq, Save, Replay, Discard, LoadFails, Find, HandlerReturns, HandlerThrows,
      SaveRefused, Ack, RecordFailure, MarkDead, FindMissing, MarkMissing, Begin, Lock, Forward, Refuse,
      BeginMissing, Retry, Crash, Request, LoseLease, StrayExecuted

(* An entity's picture changes when it is loaded or stored. *)
LEMMA PictureKept ==
    ASSUME TypeInv, Pictured, Next
    PROVE  Pictured'
<1> USE DEF TypeInv, TypeOK
<1>1. doc.made \subseteq doc'.made
  BY DocumentGrows
<1>3. ASSUME NEW n \in Nodes, SweepSaves(n) \/ SaveExecuted(n) \/ Load(n)
      PROVE  Pictured'
  <2>1. ent[n] \in Entity /\ doc \in Document
    OBVIOUS
  <2>2. CASE SweepSaves(n)
    BY <1>1, <2>1, <2>2 DEF SweepSaves, Pictured, Entity, Document
  <2>3. CASE SaveExecuted(n)
    <3>1. \/ ent' = [ent EXCEPT ![n].base = ent[n].mem]
          \/ \E b : ent' = [ent EXCEPT ![n].retry = b]
      BY <2>3 DEF SaveExecuted, Fail, Retried
    <3>2. doc'.made = ent[n].mem
      BY <2>1, <2>3 DEF SaveExecuted, Document
    <3> QED BY <1>1, <2>1, <3>1, <3>2 DEF Pictured, Entity
  <2>4. CASE Load(n)
    <3>1. ent' = [ent EXCEPT ![n] = [state |-> "loaded", mem |-> doc.made, base |-> doc.made, retry |-> FALSE]]
      BY <2>4 DEF Load
    <3> QED BY <1>1, <3>1 DEF Pictured
  <2> QED BY <1>3, <2>2, <2>3, <2>4
<1>4. ASSUME NEW n \in Nodes, Fail(n) \/ (\E B, a : Continue(n, B, a)) \/ HandlerReturns(n) \/ HandlerThrows(n)
      PROVE  Pictured'
  <2>1. ent[n] \in Entity
    OBVIOUS
  <2>2. \/ ent' = ent
        \/ \E b : ent' = [ent EXCEPT ![n].retry = b]
        \/ \E m : ent' = [ent EXCEPT ![n].mem = @ \cup {m}]
    BY <1>4 DEF Fail, Retried, Continue, HandlerReturns, HandlerThrows
  <2> QED BY <1>1, <2>1, <2>2 DEF Pictured, Entity
<1>5. ASSUME NEW n \in Nodes, Unload(n) \/ Leave(n) \/ Retry(n) \/ Crash(n) \/ LoseLease
      PROVE  Pictured'
  <2>1. ent[n] \in Entity
    OBVIOUS
  <2>2. CASE LoseLease
    <3>1. ASSUME NEW k \in Nodes PROVE ent'[k].base = ent[k].base /\ ent'[k].mem = ent[k].mem
      <4>1. ent[k] \in Entity
        OBVIOUS
      <4>2. ent'[k] = ent[k] \/ ent'[k] = [ent[k] EXCEPT !.state = "invalid", !.retry = FALSE]
        BY <2>2 DEF LoseLease
      <4> HIDE DEF TypeInv
      <4> QED BY <4>1, <4>2 DEF Entity
    <3> QED BY <1>1, <3>1 DEF Pictured
  <2>3. CASE Retry(n)
    BY <1>1, <2>1, <2>3 DEF Retry, Pictured, Entity
  <2>4. CASE ent' = [ent EXCEPT ![n] = NoEnt]
    BY <1>1, <2>4 DEF Pictured, NoEnt
  <2>5. CASE ent' = [ent EXCEPT ![n].state = "unloading", ![n].retry = FALSE]
    <3>1. \A k \in Nodes : ent'[k].base = ent[k].base /\ ent'[k].mem = ent[k].mem
      BY <2>5 DEF Entity
    <3> QED BY <1>1, <3>1 DEF Pictured
  <2> QED BY <1>5, <2>2, <2>3, <2>4, <2>5 DEF Unload, Leave, Crash
<1>6. CASE UNCHANGED ent
  BY <1>1, <1>6 DEF Pictured
<1>7. ASSUME NEW n \in Nodes, Step(n) PROVE Pictured'
  BY <1>3, <1>4, <1>6, <1>7
  DEF Step, LoadFails, Find, SaveRefused, Ack, RecordFailure, MarkDead, FindMissing, MarkMissing, GiveUp,
      Pass, Blocks
<1> QED
  BY <1>3, <1>5, <1>6, <1>7
  DEF Next, Start, NextSeq, Save, Replay, Discard, Begin, Lock, Forward, Refuse, BeginMissing, Request,
      Create, StrayExecuted, TypeInv, TypeOK

(* An entity stays while an operation works on a message, and what was done *)
(* in memory stays with it.                                                 *)
LEMMA OperationKept ==
    ASSUME TypeInv, Next, NEW n \in Nodes, job'[n].pc \in {"save", "ack"}
    PROVE  \/ job'[n].pc = job[n].pc /\ job'[n].cur = job[n].cur /\ ent[n].mem \subseteq ent'[n].mem
           \/ HandlerReturns(n) \/ SaveExecuted(n)
<1> USE DEF TypeInv, TypeOK
<1> DEFINE Kept == job'[n] = job[n] /\ ent[n].mem \subseteq ent'[n].mem
<1>1. ASSUME job' = job, ent'[n].mem = ent[n].mem PROVE Kept
  BY <1>1
<1>2. ASSUME NEW k \in Nodes, k # n, NEW j, NEW e, job' = [job EXCEPT ![k] = j], ent' = [ent EXCEPT ![k] = e]
      PROVE  Kept
  BY <1>2
<1>3. ASSUME NEW k \in Nodes, SweepSaves(k) \/ Unload(k) \/ Leave(k) \/ Retry(k) PROVE Kept
  <2>1. CASE k = n
    BY <1>3, <2>1 DEF SweepSaves, Unload, Leave, Retry, Entity
  <2>2. CASE k # n
    BY <1>3, <2>2 DEF SweepSaves, Unload, Leave, Retry
  <2> QED BY <2>1, <2>2
<1>4. ASSUME LoseLease PROVE Kept
  <2>1. ent[n] \in Entity /\ job' = job
    BY <1>4 DEF LoseLease
  <2>2. ent'[n] = ent[n] \/ ent'[n] = [ent[n] EXCEPT !.state = "invalid", !.retry = FALSE]
    BY <1>4 DEF LoseLease
  <2>3. ent'[n].mem = ent[n].mem
    BY <2>1, <2>2 DEF Entity
  <2> QED BY <2>1, <2>3
<1>a. ASSUME NEW k \in Nodes, NEW j, job' = [job EXCEPT ![k] = j], j.pc \notin {"save", "ack"}
      PROVE  k # n /\ job'[n] = job[n]
  BY <1>a
<1>b. ASSUME NEW k \in Nodes, NEW j, job' = [job EXCEPT ![k] = j], j.pc \notin {"save", "ack"},
              ent' = ent \/ \E e : ent' = [ent EXCEPT ![k] = e]
      PROVE  Kept
  BY <1>a, <1>b
<1>5. ASSUME NEW k \in Nodes, Crash(k) \/ Request(k) \/ Load(k) \/ LoadFails(k) PROVE Kept
  <2>1. ent' = ent \/ \E e : ent' = [ent EXCEPT ![k] = e]
    BY <1>5 DEF Crash, Request, Load, LoadFails
  <2>2. job[k] \in Operation
    OBVIOUS
  <2>3. CASE job' = [job EXCEPT ![k] = Idle]
    BY <1>b, <2>1, <2>3 DEF Idle
  <2>4. CASE job' = [job EXCEPT ![k] = [Idle EXCEPT !.pc = "load", !.kind = "request"]]
    BY <1>b, <2>1, <2>4 DEF Idle
  <2>5. CASE job' = [job EXCEPT ![k] = [job[k] EXCEPT !.pc = "find"]]
    <3>1. [job[k] EXCEPT !.pc = "find"].pc = "find"
      BY <2>2 DEF Operation
    <3> QED BY <1>b, <2>1, <2>5, <3>1
  <2> QED BY <1>5, <2>3, <2>4, <2>5 DEF Crash, Request, Load, LoadFails, To
<1>6. ASSUME NEW k \in Nodes, Start(k) PROVE Kept
  <2>1. PICK w \in waiting : w.node = k /\ (Begin(w) \/ Lock(w) \/ Forward(w) \/ Refuse(w) \/ BeginMissing(w))
    BY <1>6 DEF Start
  <2>2. UNCHANGED ent
    BY <2>1 DEF Begin, Lock, Forward, Refuse, BeginMissing
  <2>3. CASE UNCHANGED job
    BY <1>1, <2>2, <2>3
  <2>4. ASSUME NEW pc \in {"load", "find"}, Takes(w, pc) PROVE Kept
    <3> DEFINE j == [Idle EXCEPT !.pc = pc, !.kind = IF w.kind = "missing" THEN "missing" ELSE "deliver"]
    <3>1. job' = [job EXCEPT ![k] = j] /\ j.pc \notin {"save", "ack"}
      BY <2>1, <2>4 DEF Takes, Idle
    <3> QED BY <1>b, <2>2, <3>1
  <2> QED BY <2>1, <2>3, <2>4 DEF Begin, Lock, Forward, Refuse, BeginMissing
<1>7. ASSUME NEW k \in Nodes, \/ Fail(k) \/ \E B, a : Continue(k, B, a)
                              \/ To(k, "dead") /\ UNCHANGED ent
                              \/ (\E B, a : NextMissing(k, B, a)) /\ UNCHANGED ent
      PROVE  Kept
  <2>1. job[k] \in Operation
    OBVIOUS
  <2>2. ent' = ent \/ \E e : ent' = [ent EXCEPT ![k] = e]
    BY <1>7 DEF Fail, Retried, Continue
  <2>3. CASE To(k, "dead")
    <3>1. [job[k] EXCEPT !.pc = "dead"].pc = "dead"
      BY <2>1 DEF Operation
    <3> QED BY <1>b, <2>2, <2>3, <3>1 DEF To
  <2>4. ASSUME NEW pc \in {"handler", "dead"}, NEW B, NEW m, NEW a,
               job' = [job EXCEPT ![k].pc = pc, ![k].batch = B, ![k].cur = m, ![k].again = a]
        PROVE  \E j : job' = [job EXCEPT ![k] = j] /\ j.pc \notin {"save", "ack"}
    <3> DEFINE j == [job[k] EXCEPT !.pc = pc, !.batch = B, !.cur = m, !.again = a]
    <3>1. job' = [job EXCEPT ![k] = j]
      BY <2>4
    <3>2. j.pc = pc
      BY <2>1 DEF Operation
    <3> QED BY <3>1, <3>2
  <2>5. CASE job' = [job EXCEPT ![k] = Idle] \/ job' = [job EXCEPT ![k] = [Idle EXCEPT !.pc = "find", !.kind = "missing"]]
    BY <1>b, <2>2, <2>5 DEF Idle
  <2>6. CASE \E B, a : Continue(k, B, a)
    BY <1>b, <2>2, <2>4, <2>5, <2>6 DEF Continue, Fail
  <2>7. CASE \E B, a : NextMissing(k, B, a)
    BY <1>b, <2>2, <2>4, <2>5, <2>7 DEF NextMissing
  <2> QED BY <1>7, <2>3, <2>5, <2>6, <2>7 DEF Fail
<1>8. ASSUME NEW k \in Nodes, k # n, HandlerReturns(k) \/ SaveExecuted(k) PROVE Kept
  BY <1>8 DEF HandlerReturns, SaveExecuted, To, Fail, Retried
<1>9. ASSUME NEW k \in Nodes, Step(k) PROVE Kept \/ HandlerReturns(n) \/ SaveExecuted(n)
  <2>1. CASE HandlerReturns(k) \/ SaveExecuted(k)
    BY <1>8, <2>1
  <2>2. CASE Find(k) \/ Ack(k) \/ MarkDead(k)
    BY <1>7, <2>2 DEF Find, Ack, MarkDead, GiveUp, Pass
  <2>3. CASE FindMissing(k) \/ MarkMissing(k) \/ SaveRefused(k)
    BY <1>7, <2>3 DEF FindMissing, MarkMissing, SaveRefused, GiveUp
  <2>4. CASE RecordFailure(k)
    BY <1>7, <2>4 DEF RecordFailure, GiveUp, Blocks
  <2>5. CASE HandlerThrows(k)
    <3>1. job[k] \in Operation /\ [job[k] EXCEPT !.pc = "record"].pc = "record"
      BY DEF Operation
    <3>2. ent' = ent \/ \E e : ent' = [ent EXCEPT ![k] = e]
      BY <2>5 DEF HandlerThrows
    <3>3. job' = [job EXCEPT ![k] = [job[k] EXCEPT !.pc = "record"]]
      BY <2>5 DEF HandlerThrows, To
    <3> QED BY <1>b, <3>1, <3>2, <3>3
  <2>6. CASE Load(k) \/ LoadFails(k)
    BY <1>5, <2>6
  <2> QED BY <1>9, <2>1, <2>2, <2>3, <2>4, <2>5, <2>6 DEF Step
<1>10. CASE UNCHANGED <<job, ent>>
  BY <1>1, <1>10
<1> QED
  BY <1>3, <1>4, <1>5, <1>6, <1>9, <1>10
  DEF Next, NextSeq, Save, Replay, Discard, Create, StrayExecuted

LEMMA StrayAcks ==
    ASSUME TypeInv, Next, NEW s \in stray', s.op = "ack"
    PROVE  s \in stray \/ (\E n \in Nodes : job[n].pc = "ack" /\ s.m = job[n].cur)
<1>1. ASSUME NEW n \in Nodes, Crash(n) PROVE s \in stray \/ (job[n].pc = "ack" /\ s.m = job[n].cur)
  BY <1>1 DEF Crash
<1>2. ASSUME NEW n \in Nodes, NEW op, job[n].pc = op, GiveUp(n, op)
      PROVE  s \in stray \/ (job[n].pc = "ack" /\ s.m = job[n].cur)
  BY <1>2 DEF GiveUp
<1>3. CASE StrayExecuted
  BY <1>3 DEF StrayExecuted
<1>4. CASE UNCHANGED stray
  BY <1>4
<1>5. ASSUME NEW n \in Nodes, Ack(n) \/ RecordFailure(n) \/ MarkDead(n) \/ MarkMissing(n)
      PROVE  s \in stray \/ (job[n].pc = "ack" /\ s.m = job[n].cur)
  BY <1>2, <1>4, <1>5 DEF Ack, RecordFailure, MarkDead, MarkMissing
<1>6. ASSUME NEW n \in Nodes,
             \/ Load(n) \/ LoadFails(n) \/ Find(n) \/ HandlerReturns(n) \/ HandlerThrows(n)
             \/ SaveExecuted(n) \/ SaveRefused(n) \/ FindMissing(n) \/ Start(n) \/ Retry(n)
             \/ SweepSaves(n) \/ Unload(n) \/ Leave(n) \/ Request(n)
      PROVE  UNCHANGED stray
  BY <1>6
  DEF Load, LoadFails, Find, HandlerReturns, HandlerThrows, SaveExecuted, SaveRefused, FindMissing, Start,
      Begin, Lock, Forward, Refuse, BeginMissing, Retry, SweepSaves, Unload, Leave, Request
<1> QED
  BY <1>1, <1>3, <1>4, <1>5, <1>6 DEF Next, Step, NextSeq, Save, Replay, Discard, Create, LoseLease

LEMMA StoredKept ==
    ASSUME TypeInv, Pictured, Stored, Next
    PROVE  Stored'
<1> USE DEF TypeInv, TypeOK
<1>1. doc.made \subseteq doc'.made
  BY DocumentGrows
<1>2. ASSUME NEW n \in Nodes, HandlerReturns(n), job'[n].pc \in {"save", "ack"}
      PROVE  /\ job'[n].cur = job[n].cur /\ job[n].cur \in ent'[n].mem
             /\ job'[n].pc = "ack" => ent'[n].mem = ent[n].base
  <2>1. ent' = [ent EXCEPT ![n].mem = @ \cup {job[n].cur}]
    BY <1>2 DEF HandlerReturns
  <2>2. job[n].cur \in ent'[n].mem
    BY <2>1 DEF Entity
  <2>3. CASE Usable(n)
    <3>1. job' = [job EXCEPT ![n] = [job[n] EXCEPT !.pc = AfterHandler(n)]]
      BY <1>2, <2>3 DEF HandlerReturns, To
    <3>2. job'[n].pc = AfterHandler(n) /\ job'[n].cur = job[n].cur
      BY <3>1 DEF Operation
    <3> QED BY <2>2, <3>2 DEF AfterHandler
  <2>4. CASE ~Usable(n)
    BY <1>2, <2>4 DEF HandlerReturns, Idle
  <2> QED BY <2>3, <2>4
<1>3. ASSUME NEW n \in Nodes, SaveExecuted(n), job'[n].pc \in {"save", "ack"}
      PROVE  job'[n].pc = "ack" /\ job'[n].cur = job[n].cur /\ doc'.made = ent[n].mem
  <2>1. doc'.made = ent[n].mem
    BY <1>3 DEF SaveExecuted, Document
  <2>2. CASE To(n, "ack")
    BY <2>1, <2>2 DEF To, Operation
  <2>3. CASE Fail(n)
    BY <1>3, <2>3 DEF Fail, Idle
  <2> QED BY <1>3, <2>2, <2>3 DEF SaveExecuted
<1>4. ASSUME NEW n \in Nodes, job'[n].pc = "save" PROVE job'[n].cur \in ent'[n].mem
  BY <1>2, <1>3, <1>4, OperationKept DEF Stored
<1>5. ASSUME NEW n \in Nodes, job'[n].pc = "ack" PROVE job'[n].cur \in doc'.made
  <2>1. CASE job[n].pc = "ack" /\ job'[n].cur = job[n].cur
    BY <1>1, <2>1 DEF Stored
  <2>2. CASE HandlerReturns(n)
    BY <1>1, <1>2, <1>5, <2>2 DEF Pictured
  <2>3. CASE SaveExecuted(n)
    BY <1>3, <1>5, <2>3 DEF Stored, SaveExecuted
  <2> QED BY <1>5, <2>1, <2>2, <2>3, OperationKept
<1>6. ASSUME NEW s \in stray', s.op = "ack" PROVE s.m \in doc'.made
  BY <1>1, <1>6, StrayAcks DEF Stored
<1> QED BY <1>4, <1>5, <1>6 DEF Stored

(* Whoever acknowledges has that on his hands before. *)
LEMMA Acknowledged ==
    ASSUME TypeInv, Next, NEW m \in Msgs, msg'[m].at = "delivered"
    PROVE  \/ msg[m].at = "delivered"
           \/ \E n \in Nodes : job[n].pc = "ack" /\ job[n].cur = m
           \/ \E s \in stray : s.op = "ack" /\ s.m = m
<1> USE DEF TypeInv, TypeOK
<1> DEFINE Before == msg[m].at = "delivered"
<1>1. ASSUME NEW k \in Msgs, NEW op \in {"ack", "record", "dead"}, msg' = Executed(op, k)
      PROVE  Before \/ (op = "ack" /\ k = m)
  BY <1>1 DEF Executed, Moved, Counted, Message
<1>2. ASSUME NEW n \in Nodes, Ack(n) \/ RecordFailure(n) \/ MarkDead(n) \/ MarkMissing(n)
      PROVE  Before \/ (job[n].pc = "ack" /\ job[n].cur = m)
  <2>1. job[n].cur \in Msgs
    BY <1>2 DEF Ack, RecordFailure, MarkDead, MarkMissing, Batches, Working
  <2>2. CASE UNCHANGED msg
    BY <2>2
  <2>3. \/ job[n].pc = "ack" /\ (msg' = Executed("ack", job[n].cur) \/ UNCHANGED msg)
        \/ msg' = Executed("record", job[n].cur) \/ msg' = Executed("dead", job[n].cur) \/ UNCHANGED msg
    BY <1>2 DEF Ack, RecordFailure, MarkDead, MarkMissing, GiveUp
  <2> QED BY <1>1, <2>1, <2>2, <2>3
<1>3. CASE StrayExecuted
  <2>1. PICK s \in stray : msg' = Executed(s.op, s.m)
    BY <1>3 DEF StrayExecuted
  <2>2. s.op \in {"ack", "record", "dead"} /\ s.m \in Msgs
    BY DEF Update
  <2> QED BY <1>1, <2>1, <2>2
<1>4. ASSUME NEW k \in Msgs, NextSeq(k) \/ Save(k) \/ Replay(k) \/ Discard(k) PROVE Before
  BY <1>4 DEF NextSeq, Save, Replay, Discard, Moved, Message
<1>5. CASE UNCHANGED msg
  BY <1>5
<1>6. ASSUME NEW n \in Nodes,
             \/ Load(n) \/ LoadFails(n) \/ Find(n) \/ HandlerReturns(n) \/ HandlerThrows(n)
             \/ SaveExecuted(n) \/ SaveRefused(n) \/ FindMissing(n) \/ Start(n) \/ Retry(n)
             \/ SweepSaves(n) \/ Unload(n) \/ Leave(n) \/ Crash(n) \/ Request(n)
      PROVE  UNCHANGED msg
  BY <1>6
  DEF Load, LoadFails, Find, HandlerReturns, HandlerThrows, SaveExecuted, SaveRefused, FindMissing, Start,
      Begin, Lock, Forward, Refuse, BeginMissing, Retry, SweepSaves, Unload, Leave, Crash, Request
<1> QED BY <1>2, <1>3, <1>4, <1>5, <1>6 DEF Next, Step, Create, LoseLease

LEMMA DurableKept == TypeInv /\ Durable /\ [Next]_vars => Durable'
<1> SUFFICES ASSUME TypeInv, Durable, [Next]_vars PROVE Durable'
  OBVIOUS
<1>1. CASE UNCHANGED vars
  BY <1>1 DEF vars, Durable, Pictured, Stored, AckedIsDurable
<1>2. CASE Next
  <2>1. Pictured' /\ Stored' /\ doc.made \subseteq doc'.made
    BY <1>2, PictureKept, StoredKept, DocumentGrows DEF Durable
  <2>2. AckedIsDurable'
    BY <1>2, <2>1, Acknowledged DEF Durable, Stored, AckedIsDurable
  <2> QED BY <2>1, <2>2 DEF Durable
<1> QED BY <1>1, <1>2

(* Wherever a node crashes, loses the lease or gives up on a request: a      *)
(* message that is acknowledged has its effect in the stored document.      *)
THEOREM AckedIsDurableAlways == Spec => []AckedIsDurable
<1>1. Init => Durable
  BY DEF Init, Durable, Pictured, Stored, AckedIsDurable, NoEnt, Idle
<1>2. Durable => AckedIsDurable
  BY DEF Durable
<1> QED BY <1>1, <1>2, InitType, StepType, DurableKept, PTL DEF Spec

-----------------------------------------------------------------------------
(* A node whose entity is in memory has the key; where an operation loads   *)
(* the entity, or moves its messages away because there is no document, it  *)
(* is not in memory.                                                        *)

Holders ==
    \A n \in Nodes :
        /\ ent[n].state \in {"loaded", "unloading"} => key = n
        /\ (job[n].pc = "load" \/ job[n].kind = "missing") => ent[n].state = "none"
        /\ job[n].pc = "load" => job[n].kind # "missing"

(* What the steps of an operation do to its node, apart from Load, which     *)
(* fills the entity in, and LoadFails, which gives the key back.             *)
LEMMA StepLocal ==
    ASSUME TypeInv, NEW n \in Nodes, Step(n), ~Load(n), ~LoadFails(n)
    PROVE  /\ UNCHANGED key
           /\ \A k \in Nodes : ent'[k].state = ent[k].state
           /\ \A k \in Nodes \ {n} : job'[k] = job[k] /\ ent'[k] = ent[k]
           /\ job'[n].kind = job[n].kind \/ job'[n] = Idle \/ job[n].kind = "missing"
           /\ job'[n].pc # "load"
<1> USE DEF TypeInv, TypeOK
<1>1. job[n] \in Operation /\ ent[n] \in Entity
  OBVIOUS
<1> DEFINE EntLocal == /\ \A k \in Nodes : ent'[k].state = ent[k].state
                       /\ \A k \in Nodes \ {n} : ent'[k] = ent[k]
           JobLocal == /\ \A k \in Nodes \ {n} : job'[k] = job[k]
                       /\ job'[n].kind = job[n].kind \/ job'[n] = Idle \/ job[n].kind = "missing"
                       /\ job'[n].pc # "load"
<1>2. UNCHANGED ent => EntLocal
  OBVIOUS
<1>3. ASSUME NEW b, ent' = [ent EXCEPT ![n].retry = b] PROVE EntLocal
  BY <1>1, <1>3 DEF Entity
<1>4. ASSUME NEW S, ent' = [ent EXCEPT ![n].mem = S] \/ ent' = [ent EXCEPT ![n].base = S] PROVE EntLocal
  BY <1>1, <1>4 DEF Entity
<1>5. ASSUME job' = [job EXCEPT ![n] = Idle] PROVE JobLocal
  BY <1>5 DEF Idle
<1>6. ASSUME NEW pc, pc # "load", To(n, pc) PROVE JobLocal
  BY <1>1, <1>6 DEF To, Operation
<1>7. ASSUME NEW pc, pc # "load", NEW B, NEW m, NEW a,
             job' = [job EXCEPT ![n].pc = pc, ![n].batch = B, ![n].cur = m, ![n].again = a]
      PROVE  JobLocal
  BY <1>1, <1>7 DEF Operation
<1>8. ASSUME Fail(n) PROVE EntLocal /\ JobLocal
  BY <1>3, <1>5, <1>8 DEF Fail, Retried
<1>9. ASSUME NEW B, NEW a, Continue(n, B, a) PROVE EntLocal /\ JobLocal
  <2>1. CASE Fail(n)
    BY <1>8, <2>1
  <2>2. CASE job' = [job EXCEPT ![n] = Idle] /\ ent' = [ent EXCEPT ![n].retry = @ /\ ~Usable(n)]
    BY <1>3, <1>5, <2>2
  <2>3. CASE UNCHANGED ent /\ \E m : job' = [job EXCEPT ![n].pc = "handler", ![n].batch = B, ![n].cur = m, ![n].again = a]
    <3>1. PICK m : job' = [job EXCEPT ![n].pc = "handler", ![n].batch = B, ![n].cur = m, ![n].again = a]
      BY <2>3
    <3>2. JobLocal
      BY <1>7, <3>1
    <3> QED BY <1>2, <2>3, <3>2
  <2> QED BY <1>9, <2>1, <2>2, <2>3 DEF Continue
<1>10. ASSUME NEW B, NEW a, job[n].kind = "missing", NextMissing(n, B, a) PROVE JobLocal
  <2>1. CASE \E m : job' = [job EXCEPT ![n].pc = "dead", ![n].batch = B, ![n].cur = m, ![n].again = a]
    BY <1>7, <2>1
  <2>2. CASE job' = [job EXCEPT ![n] = IF a THEN [Idle EXCEPT !.pc = "find", !.kind = "missing"] ELSE Idle]
    BY <1>10, <2>2 DEF Idle
  <2> QED BY <1>10, <2>1, <2>2 DEF NextMissing
<1>11. CASE Find(n) \/ Ack(n) \/ MarkDead(n)
  BY <1>8, <1>9, <1>11 DEF Find, Ack, MarkDead, GiveUp, Pass
<1>12. CASE FindMissing(n) \/ MarkMissing(n)
  BY <1>2, <1>8, <1>10, <1>12 DEF FindMissing, MarkMissing, GiveUp
<1>13. CASE RecordFailure(n)
  BY <1>2, <1>6, <1>8, <1>13 DEF RecordFailure, GiveUp, Blocks
<1>14. CASE SaveExecuted(n)
  <2>1. CASE ent' = [ent EXCEPT ![n].base = ent[n].mem] /\ To(n, "ack")
    BY <1>4, <1>6, <1>14, <2>1 DEF SaveExecuted
  <2> QED BY <1>8, <1>14, <2>1 DEF SaveExecuted
<1>15. CASE SaveRefused(n)
  BY <1>8, <1>15 DEF SaveRefused
<1>16. CASE HandlerReturns(n)
  <2>1. ent' = [ent EXCEPT ![n].mem = @ \cup {job[n].cur}] /\ UNCHANGED key
    BY <1>16 DEF HandlerReturns
  <2>2. EntLocal
    BY <1>4, <2>1
  <2>3. CASE job' = [job EXCEPT ![n] = Idle]
    BY <1>5, <2>1, <2>2, <2>3
  <2>4. ASSUME NEW pc \in {"ack", "save"}, To(n, pc) PROVE JobLocal
    BY <1>6, <2>4
  <2> QED BY <1>16, <2>1, <2>2, <2>3, <2>4 DEF HandlerReturns, AfterHandler
<1>17. CASE HandlerThrows(n)
  <2>1. UNCHANGED ent \/ ent' = [ent EXCEPT ![n].mem = @ \cup {job[n].cur}]
    BY <1>17 DEF HandlerThrows
  <2>2. EntLocal
    BY <1>2, <1>4, <2>1
  <2>3. JobLocal /\ UNCHANGED key
    BY <1>6, <1>17 DEF HandlerThrows
  <2> QED BY <2>2, <2>3
<1> QED BY <1>11, <1>12, <1>13, <1>14, <1>15, <1>16, <1>17 DEF Step

LEMMA HoldersKept == ASSUME TypeInv, Holders, Next PROVE Holders'
<1> USE DEF TypeInv, TypeOK
<1>1. CASE UNCHANGED <<key, ent, job>>
  BY <1>1 DEF Holders
<1>2. ASSUME NEW n \in Nodes, Step(n), ~Load(n), ~LoadFails(n) PROVE Holders'
  <2>1. \A k \in Nodes : ent'[k].state \in {"loaded", "unloading"} => key' = k
    BY <1>2, StepLocal DEF Holders
  <2>2. ASSUME NEW k \in Nodes
        PROVE  /\ (job'[k].pc = "load" \/ job'[k].kind = "missing") => ent'[k].state = "none"
               /\ job'[k].pc = "load" => job'[k].kind # "missing"
    <3>1. CASE k = n
      BY <1>2, <3>1, StepLocal DEF Holders, Idle
    <3>2. CASE k # n
      BY <1>2, <3>2, StepLocal DEF Holders
    <3> QED BY <3>1, <3>2
  <2> QED BY <2>1, <2>2 DEF Holders
<1>3. ASSUME NEW n \in Nodes, Load(n) \/ LoadFails(n) PROVE Holders'
  <2>1. CASE Load(n)
    <3>1. ent' = [ent EXCEPT ![n] = [state |-> "loaded", mem |-> doc.made, base |-> doc.made, retry |-> FALSE]]
      BY <2>1 DEF Load
    <3>2. UNCHANGED key /\ key = n /\ job[n].pc = "load"
      BY <2>1 DEF Load, Valid
    <3>3. job' = [job EXCEPT ![n] = Idle] \/ job' = [job EXCEPT ![n] = [job[n] EXCEPT !.pc = "find"]]
      BY <2>1 DEF Load, To
    <3>4. job'[n].kind # "missing" /\ job'[n].pc # "load"
      BY <3>2, <3>3 DEF Holders, Idle, Operation
    <3>5. \A k \in Nodes \ {n} : job'[k] = job[k] /\ ent'[k] = ent[k]
      BY <3>1, <3>3
    <3>6. ent'[n].state = "loaded"
      BY <3>1
    <3> QED BY <3>2, <3>4, <3>5, <3>6 DEF Holders
  <2>2. CASE LoadFails(n)
    <3>1. UNCHANGED ent /\ job' = [job EXCEPT ![n] = Idle] /\ (key = key' \/ key = n) /\ job[n].pc = "load"
      BY <2>2 DEF LoadFails, Valid
    <3> QED BY <3>1 DEF Holders, Idle
  <2> QED BY <1>3, <2>1, <2>2
<1>4. ASSUME NEW n \in Nodes, Start(n) PROVE Holders'
  <2>1. PICK w \in waiting : w.node = n /\ (Begin(w) \/ Lock(w) \/ Forward(w) \/ Refuse(w) \/ BeginMissing(w))
    BY <1>4 DEF Start
  <2>2. w \in Waiting
    OBVIOUS
  <2>3. CASE Begin(w)
    BY <2>1, <2>3 DEF Begin, Takes, Holders, Idle
  <2>4. CASE Lock(w)
    <3>1. w.kind # "missing" /\ ent[n].state = "none" /\ key = None /\ key' = n /\ UNCHANGED ent
      BY <2>1, <2>4 DEF Lock
    <3>2. job' = [job EXCEPT ![n] = [Idle EXCEPT !.pc = "load", !.kind = "deliver"]]
      BY <2>1, <2>4, <3>1 DEF Lock, Takes
    <3>3. \A k \in Nodes : ent[k].state \notin {"loaded", "unloading"}
      BY <3>1 DEF Holders
    <3> QED BY <3>1, <3>2, <3>3 DEF Holders, Idle
  <2>5. CASE Forward(w) \/ Refuse(w)
    BY <1>1, <2>5 DEF Forward, Refuse
  <2>6. CASE BeginMissing(w)
    <3>1. CASE UNCHANGED job
      BY <1>1, <2>6, <3>1 DEF BeginMissing
    <3>2. CASE ent[n].state = "none" /\ \E kind : job' = [job EXCEPT ![n] = [Idle EXCEPT !.pc = "find", !.kind = kind]]
      BY <2>6, <3>2 DEF BeginMissing, Holders, Idle
    <3> QED BY <2>1, <2>6, <3>1, <3>2 DEF BeginMissing, Takes
  <2> QED BY <2>1, <2>3, <2>4, <2>5, <2>6
<1>5. ASSUME NEW n \in Nodes, Request(n) PROVE Holders'
  <2>1. \A k \in Nodes : ent[k].state \notin {"loaded", "unloading"}
    BY <1>5 DEF Request, Holders
  <2> QED BY <1>5, <2>1 DEF Request, Holders, Idle
<1>6. ASSUME NEW n \in Nodes, SweepSaves(n) \/ Retry(n) PROVE Holders'
  <2>1. ent[n] \in Entity
    OBVIOUS
  <2>2. ent' = [ent EXCEPT ![n].base = ent[n].mem] \/ ent' = [ent EXCEPT ![n].retry = FALSE]
    BY <1>6 DEF SweepSaves, Retry
  <2>3. ASSUME NEW k \in Nodes PROVE ent'[k].state = ent[k].state
    <3>1. \/ ent'[k] = ent[k]
          \/ k = n /\ (ent'[k] = [ent[n] EXCEPT !.base = ent[n].mem] \/ ent'[k] = [ent[n] EXCEPT !.retry = FALSE])
      BY <2>2
    <3> HIDE DEF TypeInv
    <3> QED BY <2>1, <3>1 DEF Entity
  <2>4. UNCHANGED <<key, job>>
    BY <1>6 DEF SweepSaves, Retry
  <2> QED BY <2>3, <2>4 DEF Holders
<1>7. ASSUME NEW n \in Nodes, Unload(n) PROVE Holders'
  <2>1. UNCHANGED job /\ key = n
    BY <1>7 DEF Unload, Valid
  <2>2. CASE ent' = [ent EXCEPT ![n] = NoEnt]
    BY <1>7, <2>1, <2>2 DEF Unload, Holders, NoEnt
  <2>3. CASE ent' = [ent EXCEPT ![n].state = "unloading", ![n].retry = FALSE] /\ UNCHANGED key
    <3>1. \A k \in Nodes : ent'[k].state = IF k = n THEN "unloading" ELSE ent[k].state
      BY <2>3 DEF Entity
    <3>2. ent[n].state # "none"
      BY <1>7 DEF Unload
    <3> QED BY <2>1, <2>3, <3>1, <3>2 DEF Holders
  <2> QED BY <1>7, <2>2, <2>3 DEF Unload
<1>8. ASSUME NEW n \in Nodes, Leave(n) PROVE Holders'
  BY <1>8 DEF Leave, Holders, NoEnt
<1>9. ASSUME NEW n \in Nodes, Crash(n) PROVE Holders'
  BY <1>9 DEF Crash, Holders, NoEnt, Idle
<1>10. CASE LoseLease
  <2>1. UNCHANGED job /\ key' = None
    BY <1>10 DEF LoseLease
  <2>2. ASSUME NEW k \in Nodes
        PROVE  /\ ent'[k].state \notin {"loaded", "unloading"}
               /\ ent[k].state = "none" => ent'[k].state = "none"
    <3>1. CASE key = k /\ ent[k].state # "none"
      <4>1. ent'[k].state = "invalid"
        BY <1>10, <3>1 DEF LoseLease, Entity
      <4> QED BY <3>1, <4>1
    <3>2. CASE ~(key = k /\ ent[k].state # "none")
      <4>1. ent'[k] = ent[k]
        BY <1>10, <3>2 DEF LoseLease
      <4> QED BY <3>2, <4>1 DEF Holders
    <3> QED BY <3>1, <3>2
  <2> QED BY <2>1, <2>2 DEF Holders
<1> QED
  BY <1>1, <1>2, <1>3, <1>4, <1>5, <1>6, <1>7, <1>8, <1>9, <1>10
  DEF Next, NextSeq, Save, Replay, Discard, Create, StrayExecuted

-----------------------------------------------------------------------------
(* Nothing is forgotten.  While an operation works, only what it has in its  *)
(* batch, another round, or a wake-up that waits will bring a message: the  *)
(* retry of an earlier operation is cancelled when this one is through.     *)

Awaited(n) == \E w \in waiting : (w.node = n /\ w.kind # "missing") \/ w.kind = "poke"

Awaits(n, m) ==
    \/ Awaited(n)
    \/ job[n].pc = "find"
    \/ Working(n) /\ (job[n].again \/ m \in job[n].batch)
    \/ ~Working(n) /\ ent[n].retry

Expected == \A n \in Nodes : Usable(n) => \A m \in Pending \ hist.unpoked : Awaits(n, m)

LEMMA Undisturbed ==
    ASSUME NEW n \in Nodes, NEW m, Awaits(n, m), job'[n] = job[n], ent'[n].retry = ent[n].retry,
           Awaited(n) => Awaited(n)'
    PROVE  Awaits(n, m)'
BY DEF Awaits, Working

LEMMA Locally == ASSUME NEW n \in Nodes, Local(n) \in waiting PROVE Awaited(n)
BY DEF Local, Job, Awaited

LEMMA ExecutedSettles ==
    ASSUME msg \in [Msgs -> Message], NEW op \in {"ack", "record", "dead"}, NEW m \in Msgs, msg' = Executed(op, m)
    PROVE  /\ Pending' \subseteq Pending
           /\ op # "record" => m \notin Pending'
BY DEF Executed, Moved, Counted, Pending, Message

(* What the steps of an operation do to what others wait for. *)
LEMMA StepGrows ==
    ASSUME TypeInv, NEW n \in Nodes, Step(n)
    PROVE  /\ waiting \subseteq waiting' /\ Pending' \subseteq Pending
           /\ hist'.unpoked = hist.unpoked \/ (Find(n) /\ Usable(n))
<1> USE DEF TypeInv, TypeOK
<1>1. waiting \subseteq waiting'
  <2>1. \A B, a : Continue(n, B, a) => waiting \subseteq waiting'
    BY DEF Continue
  <2> QED
    BY <2>1
    DEF Step, Load, LoadFails, Find, HandlerReturns, HandlerThrows, SaveExecuted, SaveRefused, Ack,
        RecordFailure, MarkDead, FindMissing, MarkMissing, GiveUp, Pass, Blocks
<1>2. Pending' \subseteq Pending
  <2>1. CASE Ack(n) \/ RecordFailure(n) \/ MarkDead(n) \/ MarkMissing(n)
    <3>1. job[n].cur \in Msgs
      BY <2>1 DEF Ack, RecordFailure, MarkDead, MarkMissing, Batches, Working
    <3>2. UNCHANGED msg \/ \E op \in {"ack", "record", "dead"} : msg' = Executed(op, job[n].cur)
      BY <2>1 DEF Ack, RecordFailure, MarkDead, MarkMissing, GiveUp
    <3> QED BY <3>1, <3>2, ExecutedSettles DEF Pending
  <2>2. CASE UNCHANGED msg
    BY <2>2 DEF Pending
  <2> QED
    BY <2>1, <2>2
    DEF Step, Load, LoadFails, Find, HandlerReturns, HandlerThrows, SaveExecuted, SaveRefused, FindMissing
<1>3. hist'.unpoked = hist.unpoked \/ (Find(n) /\ Usable(n))
  <2>1. CASE UNCHANGED hist
    BY <2>1
  <2>2. CASE Find(n) /\ ~Usable(n)
    BY <2>2 DEF Find
  <2>3. CASE HandlerThrows(n)
    BY <2>3 DEF HandlerThrows, History
  <2>4. CASE \E B, a : NextMissing(n, B, a)
    BY <2>4 DEF NextMissing, History
  <2>5. CASE FindMissing(n) \/ MarkMissing(n)
    BY <2>1, <2>4, <2>5 DEF FindMissing, MarkMissing
  <2> QED
    BY <2>1, <2>2, <2>3, <2>5
    DEF Step, Load, LoadFails, HandlerReturns, SaveExecuted, SaveRefused, Ack, RecordFailure, MarkDead
<1> QED BY <1>1, <1>2, <1>3

(* An operation at another node. *)
LEMMA ExpectedElsewhere ==
    ASSUME TypeInv, Expected, NEW n \in Nodes, NEW k \in Nodes, k # n, Step(k), Usable(n)',
           NEW m \in Pending' \ hist'.unpoked
    PROVE  Awaits(n, m)'
<1> USE DEF TypeInv, TypeOK
<1>1. job'[n] = job[n] /\ ent'[n] = ent[n] /\ (key' = key \/ key' = None)
  <2>1. CASE Load(k)
    <3>1. job' = [job EXCEPT ![k] = Idle] \/ job' = [job EXCEPT ![k].pc = "find"]
      BY <2>1 DEF Load, To
    <3> QED BY <2>1, <3>1 DEF Load
  <2>2. CASE LoadFails(k)
    BY <2>2 DEF LoadFails
  <2> QED BY <2>1, <2>2, StepLocal
<1>2. key = n /\ Usable(n)
  BY <1>1 DEF Usable, Valid
<1>3. ~Usable(k)
  BY <1>2 DEF Usable, Valid
<1>4. m \in Pending \ hist.unpoked /\ waiting \subseteq waiting'
  BY <1>3, StepGrows
<1>5. Awaited(n) => Awaited(n)'
  BY <1>4 DEF Awaited
<1> QED BY <1>1, <1>2, <1>4, <1>5, Undisturbed DEF Expected

(* How an operation ends, and how it goes on. *)
LEMMA FailArms ==
    ASSUME TypeInv, NEW n \in Nodes, Fail(n), Usable(n)', UNCHANGED key, NEW m
    PROVE  Awaits(n, m)'
<1>1. ent' = [ent EXCEPT ![n].retry = @ \/ Usable(n)] /\ job'[n] = Idle
  BY DEF Fail, Retried, TypeInv, TypeOK
<1>2. Usable(n)
  BY <1>1 DEF Usable, Valid, TypeInv, TypeOK, Entity
<1>3. ent'[n].retry
  BY <1>1, <1>2 DEF TypeInv, TypeOK, Entity
<1> QED BY <1>1, <1>3 DEF Awaits, Working, Idle

LEMMA ContinueBrings ==
    ASSUME TypeInv, NEW n \in Nodes, NEW B, NEW a, Continue(n, B, a), Usable(n)', UNCHANGED key,
           NEW m, m \in B \/ a
    PROVE  Awaits(n, m)'
<1> USE DEF TypeInv, TypeOK
<1>1. CASE Fail(n)
  BY <1>1, FailArms
<1>2. CASE \E k : job' = [job EXCEPT ![n].pc = "handler", ![n].batch = B, ![n].cur = k, ![n].again = a]
  <2>1. job'[n].pc = "handler" /\ job'[n].batch = B /\ job'[n].again = a
    BY <1>2 DEF Operation
  <2> QED BY <2>1 DEF Awaits, Working
<1>3. CASE B = {} /\ waiting' = IF a THEN waiting \cup {Local(n)} ELSE waiting
  <2>1. Local(n)' \in waiting'
    BY <1>3 DEF Local, Job
  <2> QED BY <2>1 DEF Awaits, Awaited, Local, Job
<1> QED BY <1>1, <1>2, <1>3 DEF Continue

LEMMA ExpectedHere ==
    ASSUME TypeInv, Holders, Expected, NEW n \in Nodes, Step(n), Usable(n)',
           NEW m \in Pending' \ hist'.unpoked
    PROVE  Awaits(n, m)'
<1> USE DEF TypeInv, TypeOK
<1>1. waiting \subseteq waiting' /\ m \in Pending
  BY StepGrows
<1>2. Awaited(n) => Awaited(n)'
  BY <1>1 DEF Awaited
<1>3. CASE Load(n)
  <2>1. Local(n) \in waiting'
    BY <1>3 DEF Load
  <2> QED BY <2>1 DEF Awaits, Awaited, Local, Job
<1>4. CASE LoadFails(n)
  BY <1>4 DEF LoadFails, Usable, Holders
<1>5. CASE ~Load(n) /\ ~LoadFails(n)
  <2>1. UNCHANGED key /\ ent'[n].state = ent[n].state
    BY <1>5, StepLocal
  <2>2. Usable(n)
    BY <2>1 DEF Usable, Valid
  <2>3. job[n].kind # "missing"
    BY <2>2 DEF Usable, Holders
  <2>4. CASE Fail(n)
    BY <2>1, <2>4, FailArms
  <2>5. CASE Find(n) /\ ~Fail(n)
    <3>1. PICK B \in SUBSET Pending : IsPage(B) /\ Continue(n, B, Cardinality(B) = Page)
      BY <2>5 DEF Find
    <3>2. m \in B \/ Cardinality(B) = Page
      BY <1>1, <3>1 DEF IsPage
    <3> QED BY <2>1, <3>1, <3>2, ContinueBrings
  <2>6. hist'.unpoked = hist.unpoked => Awaits(n, m)
    BY <1>1, <2>2 DEF Expected
  <2>7. ASSUME Working(n), hist'.unpoked = hist.unpoked, job'[n].batch = job[n].batch,
               job'[n].again = job[n].again, Working(n)'
        PROVE  Awaits(n, m)'
    BY <1>2, <2>6, <2>7 DEF Awaits, Working
  <2>8. ASSUME NEW pc \in {"save", "ack", "record", "dead"}, To(n, pc), Working(n), hist'.unpoked = hist.unpoked
        PROVE  Awaits(n, m)'
    <3>1. job'[n].pc = pc /\ job'[n].batch = job[n].batch /\ job'[n].again = job[n].again
      BY <2>8 DEF To, Operation
    <3> QED BY <2>7, <2>8, <3>1 DEF Working
  <2>9. ASSUME Working(n), hist'.unpoked = hist.unpoked, m # job[n].cur, NEW q \in BOOLEAN, Pass(n, q)
        PROVE  Awaits(n, m)'
    <3>1. Awaited(n) \/ job[n].again \/ m \in job[n].batch
      BY <2>6, <2>9 DEF Awaits, Working
    <3>2. CASE Awaited(n)
      BY <1>2, <3>2 DEF Awaits
    <3>3. CASE (job[n].again \/ q) \/ m \in job[n].batch \ {job[n].cur}
      BY <2>1, <2>9, <3>3, ContinueBrings DEF Pass
    <3> QED BY <2>9, <3>1, <3>2, <3>3
  <2>10. hist'.unpoked = hist.unpoked \/ Find(n)
    BY StepGrows
  <2>11. CASE HandlerReturns(n)
    <3>1. PICK pc \in {"save", "ack"} : To(n, pc)
      BY <2>2, <2>11 DEF HandlerReturns, AfterHandler
    <3> QED BY <2>8, <2>11, <3>1 DEF HandlerReturns, Working
  <2>12. CASE HandlerThrows(n)
    <3>1. To(n, "record") /\ Working(n) /\ hist'.unpoked = hist.unpoked
      BY <2>12 DEF HandlerThrows, Working, History
    <3> QED BY <2>8, <3>1
  <2>13. CASE (SaveExecuted(n) \/ SaveRefused(n)) /\ ~Fail(n)
    BY <2>8, <2>13 DEF SaveExecuted, SaveRefused, Working
  <2>14. CASE Ack(n) /\ ~Fail(n)
    <3>1. msg' = Executed("ack", job[n].cur) /\ Pass(n, FALSE) /\ Working(n) /\ UNCHANGED hist
      BY <2>14 DEF Ack, GiveUp, Working
    <3>2. m # job[n].cur
      BY <3>1, ExecutedSettles DEF Batches
    <3> QED BY <2>9, <3>1, <3>2
  <2>15. CASE RecordFailure(n) /\ ~Fail(n)
    <3>1. To(n, "dead") /\ Working(n) /\ UNCHANGED hist
      BY <2>15 DEF RecordFailure, GiveUp, Blocks, Working
    <3> QED BY <2>8, <3>1
  <2>16. CASE MarkDead(n) /\ ~Fail(n)
    <3>1. msg' = Executed("dead", job[n].cur) /\ Pass(n, TRUE) /\ Working(n) /\ UNCHANGED hist
      BY <2>16 DEF MarkDead, GiveUp, Working
    <3>2. m # job[n].cur
      BY <3>1, ExecutedSettles DEF Batches
    <3> QED BY <2>9, <3>1, <3>2
  <2>17. CASE FindMissing(n) \/ MarkMissing(n)
    BY <2>3, <2>17 DEF FindMissing, MarkMissing
  <2> QED
    BY <1>5, <2>4, <2>5, <2>11, <2>12, <2>13, <2>14, <2>15, <2>16, <2>17 DEF Step
<1> QED BY <1>3, <1>4, <1>5

(* Messages and dead letters, the entity, and the environment. *)
LEMMA ExpectedOutside ==
    ASSUME TypeInv, Holders, Expected, NEW n \in Nodes, Usable(n)', NEW m \in Pending' \ hist'.unpoked,
           NEW k \in Nodes, NEW l \in Msgs,
           \/ NextSeq(l) \/ Save(l) \/ Replay(l) \/ Discard(l) \/ Create \/ StrayExecuted
           \/ SweepSaves(k) \/ Unload(k) \/ Leave(k) \/ Retry(k) \/ Crash(k) \/ Request(k) \/ LoseLease
    PROVE  Awaits(n, m)'
<1> USE DEF TypeInv, TypeOK
<1>1. ASSUME Usable(n), m \in Pending \ hist.unpoked, job'[n] = job[n], ent'[n].retry = ent[n].retry,
             Awaited(n) => Awaited(n)'
      PROVE  Awaits(n, m)'
  BY <1>1, Undisturbed DEF Expected
<1>2. CASE NextSeq(l) \/ Discard(l) \/ Create
  <2>1. UNCHANGED <<hist, waiting, job, ent, key>>
    BY <1>2 DEF NextSeq, Discard, Create
  <2>2. m \in Pending
    BY <1>2 DEF NextSeq, Discard, Create, Pending, Moved, Message
  <2> QED BY <1>1, <2>1, <2>2 DEF Usable, Valid, Awaited
<1>3. CASE StrayExecuted
  <2>1. PICK s \in stray : msg' = Executed(s.op, s.m)
    BY <1>3 DEF StrayExecuted
  <2>2. s.op \in {"ack", "record", "dead"} /\ s.m \in Msgs
    BY DEF Update
  <2>3. m \in Pending
    BY <2>1, <2>2, ExecutedSettles
  <2> QED BY <1>1, <1>3, <2>3 DEF StrayExecuted, Usable, Valid, Awaited
<1>4. CASE Save(l) \/ Replay(l)
  <2>1. UNCHANGED <<job, ent, key>> /\ waiting \subseteq waiting'
    BY <1>4 DEF Save, Replay, Poke
  <2>2. CASE m \in Pending \ hist.unpoked
    BY <1>1, <2>1, <2>2 DEF Usable, Valid, Awaited
  <2>3. CASE \E h \in homes : Poked(h) \in waiting'
    BY <2>3 DEF Awaits, Awaited, Poked, Job
  <2>4. CASE ~\E h \in homes : Poked(h) \in waiting'
    <3>1. hist'.unpoked = hist.unpoked \cup {l}
      BY <1>4, <2>4 DEF Save, Replay, Poke, History
    <3>2. m # l => m \in Pending
      BY <1>4 DEF Save, Replay, Pending, Message
    <3> QED BY <2>2, <3>1, <3>2
  <2> QED BY <2>3, <2>4
<1>5. CASE SweepSaves(k)
  <2>1. \A i \in Nodes : ent'[i].state = ent[i].state /\ ent'[i].retry = ent[i].retry
    BY <1>5 DEF SweepSaves, Entity
  <2> QED BY <1>1, <1>5, <2>1 DEF SweepSaves, Usable, Valid, Awaited, Pending
<1>6. CASE Unload(k)
  <2>1. key = k
    BY <1>6 DEF Unload, Valid
  <2>2. CASE ent' = [ent EXCEPT ![k] = NoEnt] /\ key' = None
    BY <2>2 DEF Usable, Valid
  <2>3. CASE ent' = [ent EXCEPT ![k].state = "unloading", ![k].retry = FALSE] /\ UNCHANGED key
    BY <2>1, <2>3 DEF Usable, Valid, Entity
  <2> QED BY <1>6, <2>2, <2>3 DEF Unload
<1>7. CASE Leave(k)
  BY <1>1, <1>7 DEF Leave, Usable, Valid, Awaited, Pending, NoEnt
<1>8. CASE Retry(k)
  <2>1. CASE n = k
    <3>1. Local(n) \in waiting'
      BY <1>8, <2>1 DEF Retry
    <3>2. Local(n).node = n /\ Local(n).kind = "local"
      BY DEF Local, Job
    <3>3. Awaited(n)'
      BY <3>1, <3>2 DEF Awaited
    <3> QED BY <3>3 DEF Awaits
  <2>2. CASE n # k
    BY <1>1, <1>8, <2>2 DEF Retry, Usable, Valid, Awaited, Pending
  <2> QED BY <2>1, <2>2
<1>9. CASE Crash(k)
  <2>1. n # k /\ Usable(n) /\ job'[n] = job[n] /\ ent'[n] = ent[n] /\ m \in Pending
    BY <1>9 DEF Crash, Usable, Valid, NoEnt, Pending
  <2>2. ~\E w \in waiting : w.node = k
    BY <1>9, <2>1 DEF Crash, History, Pending
  <2>3. hist' = hist
    BY <1>9, <2>2 DEF Crash
  <2>4. ASSUME NEW w \in waiting
        PROVE  \E v \in waiting' : v.node = w.node /\ v.kind = w.kind
    <3> DEFINE v == [w EXCEPT !.from = IF @ = k THEN None ELSE @]
    <3>1. v \in waiting'
      BY <1>9, <2>2 DEF Crash
    <3>2. v.node = w.node /\ v.kind = w.kind
      BY DEF Waiting
    <3> QED BY <3>1, <3>2
  <2>5. Awaited(n) => Awaited(n)'
    BY <2>4 DEF Awaited
  <2> QED BY <1>1, <2>1, <2>3, <2>5
<1>10. CASE Request(k)
  <2>1. n = k => ~Usable(n)'
    BY <1>10 DEF Request, Usable
  <2>2. n # k => ~Usable(n)'
    BY <1>10 DEF Request, Usable, Valid
  <2> QED BY <2>1, <2>2
<1>11. CASE LoseLease
  BY <1>11 DEF LoseLease, Usable, Valid
<1> QED BY <1>2, <1>3, <1>4, <1>5, <1>6, <1>7, <1>8, <1>9, <1>10, <1>11

(* The gate is given away, or a wake-up goes somewhere else. *)
LEMMA ExpectedStart ==
    ASSUME TypeInv, Holders, Expected, NEW n \in Nodes, Usable(n)', NEW m \in Pending' \ hist'.unpoked,
           NEW k \in Nodes, Start(k)
    PROVE  Awaits(n, m)'
<1> USE DEF TypeInv, TypeOK
<1>1. PICK w \in waiting : w.node = k /\ (Begin(w) \/ Lock(w) \/ Forward(w) \/ Refuse(w) \/ BeginMissing(w))
  BY DEF Start
<1>2. UNCHANGED <<ent, msg>> /\ w \in Waiting
  BY <1>1 DEF Begin, Lock, Forward, Refuse, BeginMissing
<1>3. CASE Lock(w)
  BY <1>1, <1>2, <1>3 DEF Lock, Usable, Valid
<1>4. CASE ~Lock(w)
  <2>1. UNCHANGED key /\ Usable(n) /\ key = n
    BY <1>1, <1>2, <1>4 DEF Begin, Forward, Refuse, BeginMissing, Usable, Valid
  <2>2. waiting \ {w} \subseteq waiting'
    BY <1>1, <1>4 DEF Begin, Forward, Refuse, BeginMissing, Takes
  <2>3. m \in Pending
    BY <1>2 DEF Pending
  <2>4. ASSUME job'[n] = job[n], hist' = hist, w.kind # "poke", w.node # n \/ w.kind = "missing"
        PROVE  Awaits(n, m)'
    <3>1. Awaited(n) => Awaited(n)'
      BY <2>2, <2>4 DEF Awaited
    <3> QED BY <1>2, <2>1, <2>3, <2>4, <3>1, Undisturbed DEF Expected
  <2>5. CASE Begin(w)
    <3>1. k = n
      BY <1>1, <2>1, <2>5 DEF Begin, Usable, Valid
    <3>2. job'[n].pc = "find"
      BY <1>1, <2>5, <3>1 DEF Begin, Takes, Idle
    <3> QED BY <3>2 DEF Awaits
  <2>6. CASE Forward(w)
    <3>1. CASE waiting' = (waiting \ {w}) \cup {Job(key, "loaded", w.node)}
      <4> DEFINE v == Job(n, "loaded", w.node)
      <4>1. v \in waiting'
        BY <2>1, <3>1
      <4>2. v.node = n /\ v.kind = "loaded"
        BY DEF Job
      <4> HIDE DEF v
      <4>3. Awaited(n)'
        BY <4>1, <4>2 DEF Awaited
      <4> QED BY <4>3 DEF Awaits
    <3>2. CASE hist' = [hist EXCEPT !.unpoked = @ \cup Pending]
      BY <2>3, <3>2 DEF History
    <3> QED BY <2>6, <3>1, <3>2 DEF Forward
  <2>7. CASE Refuse(w)
    <3>1. w.node # n
      BY <2>1, <2>7 DEF Refuse
    <3>2. UNCHANGED job
      BY <2>7 DEF Refuse
    <3>3. hist' = hist
      BY <2>3, <2>7 DEF Refuse, History
    <3>4. w.kind # "poke"
      <4>1. SUFFICES ASSUME w.kind = "poke" PROVE FALSE
        OBVIOUS
      <4>2. ent[k].state # "invalid"
        BY <1>1, <2>3, <2>7, <4>1 DEF Refuse, History
      <4>3. ent[k].state # "none"
        BY <1>1, <2>1, <2>7, <4>1 DEF Refuse
      <4>4. ent[k].state \in {"loaded", "unloading"}
        BY <4>2, <4>3 DEF Entity
      <4> QED BY <1>1, <2>1, <3>1, <4>4 DEF Holders
    <3> QED BY <2>4, <3>1, <3>2, <3>3, <3>4
  <2>8. CASE BeginMissing(w)
    <3>1. w.kind = "missing" /\ hist' = hist
      BY <2>8 DEF BeginMissing, Waits
    <3>2. ent[n].state = "loaded"
      BY <2>1 DEF Usable
    <3>3. job'[n] = job[n]
      BY <1>1, <2>8, <3>2 DEF BeginMissing, Takes
    <3> QED BY <2>4, <3>1, <3>3
  <2> QED BY <1>1, <1>4, <2>5, <2>6, <2>7, <2>8
<1> QED BY <1>3, <1>4

LEMMA ExpectedKept == TypeInv /\ Holders /\ Expected /\ [Next]_vars => Holders' /\ Expected'
<1> SUFFICES ASSUME TypeInv, Holders, Expected, [Next]_vars PROVE Holders' /\ Expected'
  OBVIOUS
<1>1. CASE UNCHANGED vars
  BY <1>1 DEF vars, Holders, Expected, Awaits, Awaited, Working, Usable, Valid, Pending
<1>2. CASE Next
  <2>1. Holders'
    BY <1>2, HoldersKept
  <2>2. SUFFICES ASSUME NEW n \in Nodes, Usable(n)', NEW m \in Pending' \ hist'.unpoked PROVE Awaits(n, m)'
    BY <2>1 DEF Expected
  <2>3. m \in Msgs
    BY DEF Pending
  <2>4. ASSUME NEW k \in Nodes, Step(k) PROVE Awaits(n, m)'
    BY <2>2, <2>4, ExpectedElsewhere, ExpectedHere
  <2>5. ASSUME NEW k \in Nodes, Start(k) PROVE Awaits(n, m)'
    BY <2>2, <2>5, ExpectedStart
  <2> QED BY <1>2, <2>2, <2>3, <2>4, <2>5, ExpectedOutside DEF Next
<1> QED BY <1>1, <1>2

(* A message whose wake-up was not lost is not forgotten by a node that      *)
(* serves the entity, whatever failed, moved or waited in between.          *)
THEOREM NeverForgottenAlways == Spec => []NeverForgotten
<1>1. Init => Holders /\ Expected
  BY DEF Init, Holders, Expected, Usable, NoEnt, Idle
<1>2. TypeInv /\ Holders /\ Expected => NeverForgotten
  <2> SUFFICES ASSUME TypeInv, Holders, Expected, NEW m \in Pending \ hist.unpoked, NEW n \in Nodes, Usable(n)
               PROVE  Coming(n) \/ m \in job[n].batch
    BY DEF NeverForgotten
  <2>1. Awaits(n, m) /\ job[n].kind # "missing"
    BY DEF Expected, Holders, Usable
  <2> QED BY <2>1 DEF Awaits, Awaited, Coming
<1> QED BY <1>1, <1>2, InitType, StepType, ExpectedKept, PTL DEF Spec

-----------------------------------------------------------------------------
(* Order *)

LEMMA OrderKept ==
    ASSUME TypeInv, Next, NEW n \in Nodes, job'[n].pc = "handler"
    PROVE  (job[n].batch \ job'[n].batch) \cap Pending' = {}
<1> USE DEF TypeInv, TypeOK
<1> DEFINE Settled == (job[n].batch \ job'[n].batch) \cap Pending' = {}
<1>1. CASE job'[n] = job[n]
  BY <1>1
<1>2. ASSUME NEW q \in BOOLEAN, Pass(n, q), job[n].cur \notin Pending' PROVE Settled
  <2>1. \E m : job' = [job EXCEPT ![n].pc = "handler", ![n].batch = job[n].batch \ {job[n].cur}, ![n].cur = m,
                                  ![n].again = job[n].again \/ q]
    <3>1. Continue(n, job[n].batch \ {job[n].cur}, job[n].again \/ q)
      BY <1>2 DEF Pass
    <3>2. job' # [job EXCEPT ![n] = Idle]
      BY DEF Idle
    <3> QED BY <3>1, <3>2 DEF Continue, Fail
  <2>2. job'[n].batch = job[n].batch \ {job[n].cur}
    BY <2>1 DEF Operation
  <2> QED BY <1>2, <2>2
<1>3. ASSUME job' = [job EXCEPT ![n] = Idle] PROVE FALSE
  BY <1>3 DEF Idle
<1>4. ASSUME NEW pc, pc # "handler", To(n, pc) PROVE FALSE
  BY <1>4 DEF To, Operation
<1>5. CASE Step(n)
  <2>1. CASE Fail(n)
    BY <1>3, <2>1 DEF Fail
  <2>2. CASE Load(n) \/ LoadFails(n)
    BY <1>3, <1>4, <2>2 DEF Load, LoadFails
  <2>3. CASE Find(n) \/ FindMissing(n)
    BY <2>3 DEF Find, FindMissing, Batches, Working
  <2>4. CASE HandlerReturns(n)
    BY <1>3, <1>4, <2>4 DEF HandlerReturns, AfterHandler
  <2>5. CASE HandlerThrows(n)
    BY <1>4, <2>5 DEF HandlerThrows
  <2>6. CASE (SaveExecuted(n) \/ SaveRefused(n)) /\ ~Fail(n)
    BY <1>4, <2>6 DEF SaveExecuted, SaveRefused
  <2>7. CASE Ack(n) /\ ~Fail(n)
    <3>1. msg' = Executed("ack", job[n].cur) /\ Pass(n, FALSE) /\ Working(n)
      BY <2>7 DEF Ack, GiveUp, Working
    <3> QED BY <1>2, <3>1, ExecutedSettles DEF Batches
  <2>8. CASE RecordFailure(n) /\ ~Fail(n)
    BY <1>4, <2>8 DEF RecordFailure, GiveUp, Blocks
  <2>9. CASE MarkDead(n) /\ ~Fail(n)
    <3>1. msg' = Executed("dead", job[n].cur) /\ Pass(n, TRUE) /\ Working(n)
      BY <2>9 DEF MarkDead, GiveUp, Working
    <3> QED BY <1>2, <3>1, ExecutedSettles DEF Batches
  <2>10. CASE MarkMissing(n)
    <3>1. CASE \E m : job' = [job EXCEPT ![n].pc = "dead", ![n].batch = job[n].batch \ {job[n].cur}, ![n].cur = m,
                                         ![n].again = job[n].again]
      BY <3>1 DEF Operation
    <3>2. CASE \E k \in {"find"} : job' = [job EXCEPT ![n] = [Idle EXCEPT !.pc = k, !.kind = "missing"]]
      BY <3>2 DEF Idle
    <3> QED BY <1>3, <2>1, <2>10, <3>1, <3>2 DEF MarkMissing, NextMissing, GiveUp
  <2> QED
    BY <1>5, <2>1, <2>2, <2>3, <2>4, <2>5, <2>6, <2>7, <2>8, <2>9, <2>10 DEF Step
<1>6. ASSUME NEW k \in Nodes, k # n, Step(k) PROVE job'[n] = job[n]
  <2>1. CASE Load(k) \/ LoadFails(k)
    BY <1>6, <2>1 DEF Load, LoadFails, To
  <2> QED BY <1>6, <2>1, StepLocal
<1>7. ASSUME NEW k \in Nodes, Start(k) PROVE job'[n] = job[n]
  <2>1. PICK w \in waiting : w.node = k /\ (Begin(w) \/ Lock(w) \/ Forward(w) \/ Refuse(w) \/ BeginMissing(w))
    BY <1>7 DEF Start
  <2>2. ASSUME NEW pc \in {"load", "find"}, Takes(w, pc) PROVE job'[n] = job[n]
    BY <2>1, <2>2 DEF Takes, Idle
  <2>3. CASE UNCHANGED job
    BY <2>3
  <2> QED BY <2>1, <2>2, <2>3 DEF Begin, Lock, Forward, Refuse, BeginMissing
<1>8. ASSUME NEW k \in Nodes, Crash(k) \/ Request(k) PROVE job'[n] = job[n]
  <2>1. ASSUME NEW idle, idle.pc # "handler", job' = [job EXCEPT ![k] = idle] PROVE job'[n] = job[n]
    BY <2>1
  <2>2. CASE Crash(k)
    BY <2>1, <2>2 DEF Crash, Idle
  <2>3. CASE Request(k)
    <3> DEFINE loading == [Idle EXCEPT !.pc = "load", !.kind = "request"]
    <3>1. loading.pc # "handler" /\ job' = [job EXCEPT ![k] = loading]
      BY <2>3 DEF Request, Idle
    <3> HIDE DEF loading
    <3> QED BY <2>1, <3>1
  <2> QED BY <1>8, <2>2, <2>3
<1>9. ASSUME NEW k \in Nodes, SweepSaves(k) \/ Unload(k) \/ Leave(k) \/ Retry(k) PROVE job'[n] = job[n]
  BY <1>9 DEF SweepSaves, Unload, Leave, Retry
<1> QED
  BY <1>1, <1>5, <1>6, <1>7, <1>8, <1>9
  DEF Next, NextSeq, Save, Replay, Discard, Create, LoseLease, StrayExecuted

(* When a handler runs, what stood before its message in the queue is        *)
(* settled.                                                                 *)
THEOREM InOrderAlways == Spec => InOrder
<1>1. TypeInv /\ [Next]_vars
      => [\A n \in Nodes : job'[n].pc = "handler" => (job[n].batch \ job'[n].batch) \cap Pending' = {}]_vars
  BY OrderKept
<1> QED BY <1>1, InitType, StepType, PTL DEF Spec, InOrder

-----------------------------------------------------------------------------
(* Dead letters.  What a handler threw covers the failures that are counted  *)
(* and those that may still be, late ones included; so whoever is about to   *)
(* move a message away, or may do so late, has a reason.                     *)

Failures(m) == Cardinality(Outstanding("record", m))

Covered(m) == msg[m].attempts + Failures(m) <= hist.threw[m] \/ hist.threw[m] >= MaxAttempts

Justified(m) == hist.threw[m] >= MaxAttempts \/ m \in hist.excused

Policy(m) ==
    /\ Covered(m)
    /\ Outstanding("dead", m) # {} => Justified(m)
    /\ msg[m].at = "dead" => Justified(m)

LEMMA OutstandingFiniteNext ==
    ASSUME NEW op, NEW m
    PROVE  IsFiniteSet(Outstanding(op, m)') /\ Cardinality(Outstanding(op, m)') \in Nat
<1>1. IsFiniteSet({n \in Nodes : job'[n].pc = op /\ job'[n].cur = m})
  BY FS_Subset
<1>2. IsFiniteSet(IF [op |-> op, m |-> m] \in stray' THEN {None} ELSE {})
  BY FS_Singleton, FS_EmptySet
<1>3. IsFiniteSet(Outstanding(op, m)')
  BY <1>1, <1>2, FS_Union DEF Outstanding
<1> QED BY <1>3, FS_CardinalityType

(* An operation that goes on, or gives up, adds nothing: what it was about   *)
(* to have done is done, or may be done late.                               *)
LEMMA Leaves ==
    ASSUME NEW n \in Nodes, NEW op, NEW m,
           \A k \in Nodes \ {n} : job'[k] = job[k],
           ~(job'[n].pc = op /\ job'[n].cur = m),
           stray' \subseteq stray \cup {[op |-> job[n].pc, m |-> job[n].cur]}
    PROVE  /\ Cardinality(Outstanding(op, m)') <= Cardinality(Outstanding(op, m))
           /\ Outstanding(op, m) = {} => Outstanding(op, m)' = {}
<1> DEFINE O == Outstanding(op, m)
           P == Outstanding(op, m)'
<1>1. P = {k \in Nodes : job'[k].pc = op /\ job'[k].cur = m} \cup
          (IF [op |-> op, m |-> m] \in stray' THEN {None} ELSE {})
  BY DEF Outstanding
<1>2. {k \in Nodes : job'[k].pc = op /\ job'[k].cur = m} \subseteq O \ {n}
  BY DEF Outstanding
<1>3. IsFiniteSet(O) /\ IsFiniteSet(P) /\ Cardinality(O) \in Nat /\ Cardinality(P) \in Nat
  BY OutstandingFinite, OutstandingFiniteNext
<1>4. CASE P \subseteq O
  <2>1. Cardinality(P) <= Cardinality(O)
    BY <1>3, <1>4, FS_Subset
  <2> QED BY <1>4, <2>1
<1>5. CASE ~(P \subseteq O)
  <2>1. [op |-> op, m |-> m] \in stray' /\ None \notin O
    BY <1>1, <1>2, <1>5
  <2>2. [op |-> op, m |-> m] \notin stray
    BY <2>1 DEF Outstanding
  <2>3. [op |-> op, m |-> m] = [op |-> job[n].pc, m |-> job[n].cur]
    BY <2>1, <2>2
  <2>4. job[n].pc = op /\ job[n].cur = m
    BY <2>3
  <2>5. n \in O
    BY <2>4 DEF Outstanding
  <2>6. P \subseteq (O \ {n}) \cup {None}
    BY <1>1, <1>2
  <2> HIDE DEF O, P
  <2>7. Cardinality(O \ {n}) = Cardinality(O) - 1 /\ IsFiniteSet(O \ {n})
    BY <1>3, <2>5, FS_RemoveElement
  <2>8. Cardinality((O \ {n}) \cup {None}) = Cardinality(O) /\ IsFiniteSet((O \ {n}) \cup {None})
    <3> DEFINE Q == O \ {n}
    <3>1. None \notin Q
      BY <2>1
    <3> HIDE DEF Q
    <3>2. Cardinality(Q \cup {None}) = Cardinality(Q) + 1 /\ IsFiniteSet(Q \cup {None})
      BY <2>7, <3>1, FS_AddElement DEF Q
    <3> QED BY <1>3, <2>7, <3>2 DEF O, P, Q
  <2>9. Cardinality(P) <= Cardinality((O \ {n}) \cup {None})
    BY <2>6, <2>8, FS_Subset
  <2> QED BY <2>5, <2>8, <2>9 DEF O, P
<1> QED BY <1>4, <1>5

(* What an operation has done is no longer outstanding. *)
LEMMA DoneByOperation ==
    ASSUME NEW n \in Nodes, NEW op, NEW m,
           \A k \in Nodes \ {n} : job'[k] = job[k],
           ~(job'[n].pc = op /\ job'[n].cur = m),
           job[n].pc = op, job[n].cur = m, stray' = stray
    PROVE  Cardinality(Outstanding(op, m)') + 1 <= Cardinality(Outstanding(op, m))
<1> DEFINE O == Outstanding(op, m)
           P == Outstanding(op, m)'
<1>1. n \in O /\ P \subseteq O \ {n}
  BY DEF Outstanding
<1>2. IsFiniteSet(O) /\ Cardinality(O) \in Nat /\ Cardinality(P) \in Nat
  BY OutstandingFinite, OutstandingFiniteNext
<1> HIDE DEF O, P
<1>3. Cardinality(O \ {n}) = Cardinality(O) - 1 /\ IsFiniteSet(O \ {n})
  BY <1>1, <1>2, FS_RemoveElement
<1>4. Cardinality(P) <= Cardinality(O \ {n})
  BY <1>1, <1>3, FS_Subset
<1> QED BY <1>2, <1>3, <1>4 DEF O, P

LEMMA DoneLate ==
    ASSUME NEW s \in stray, NEW op, NEW m, s = [op |-> op, m |-> m], stray' = stray \ {s}, job' = job
    PROVE  Cardinality(Outstanding(op, m)') + 1 <= Cardinality(Outstanding(op, m))
<1> DEFINE O == Outstanding(op, m)
           P == Outstanding(op, m)'
<1>1. None \in O /\ P \subseteq O \ {None}
  BY DEF Outstanding
<1>2. IsFiniteSet(O) /\ Cardinality(O) \in Nat /\ Cardinality(P) \in Nat
  BY OutstandingFinite, OutstandingFiniteNext
<1> HIDE DEF O, P
<1>3. Cardinality(O \ {None}) = Cardinality(O) - 1 /\ IsFiniteSet(O \ {None})
  BY <1>1, <1>2, FS_RemoveElement
<1>4. Cardinality(P) <= Cardinality(O \ {None})
  BY <1>1, <1>3, FS_Subset
<1> QED BY <1>2, <1>3, <1>4 DEF O, P

LEMMA Unmoved ==
    ASSUME NEW op, NEW m, job' = job, stray' \subseteq stray
    PROVE  /\ Cardinality(Outstanding(op, m)') <= Cardinality(Outstanding(op, m))
           /\ Outstanding(op, m) = {} => Outstanding(op, m)' = {}
<1>1. Outstanding(op, m)' \subseteq Outstanding(op, m)
  BY DEF Outstanding
<1>2. IsFiniteSet(Outstanding(op, m))
  BY OutstandingFinite
<1>3. Cardinality(Outstanding(op, m)') <= Cardinality(Outstanding(op, m))
  BY <1>1, <1>2, FS_Subset
<1> QED BY <1>1, <1>3

(* Steps that count no failure that was not to be, and move nothing away     *)
(* without a reason.                                                        *)
LEMMA PolicyCalm ==
    ASSUME TypeInv, TypeInv', NEW m \in Msgs, Policy(m),
           msg'[m].attempts + Failures(m)' <= msg[m].attempts + Failures(m),
           Outstanding("dead", m)' # {} => Outstanding("dead", m) # {} \/ Justified(m),
           msg'[m].at = "dead" => msg[m].at = "dead" \/ Justified(m),
           hist'.threw[m] = hist.threw[m], m \in hist.excused => m \in hist'.excused
    PROVE  Policy(m)'
<1>1. /\ msg[m].attempts \in Nat /\ msg'[m].attempts \in Nat /\ hist.threw[m] \in Nat
      /\ Failures(m) \in Nat /\ Failures(m)' \in Nat
  BY OutstandingFinite, OutstandingFiniteNext DEF TypeInv, TypeOK, Message, History, Failures
<1>2. Covered(m)'
  BY <1>1 DEF Policy, Covered
<1>3. Justified(m) => Justified(m)'
  BY DEF Justified
<1> QED BY <1>2, <1>3 DEF Policy

(* An operation ends, or goes on to something else than a verdict. *)
LEMMA PolicyLeaves ==
    ASSUME TypeInv, TypeInv', NEW m \in Msgs, Policy(m), NEW n \in Nodes,
           \A k \in Nodes \ {n} : job'[k] = job[k],
           job'[n].pc \notin {"record", "dead"},
           stray' \subseteq stray \cup {[op |-> job[n].pc, m |-> job[n].cur]},
           msg'[m].attempts <= msg[m].attempts,
           msg'[m].at = "dead" => msg[m].at = "dead" \/ Justified(m),
           hist'.threw[m] = hist.threw[m], m \in hist.excused => m \in hist'.excused
    PROVE  Policy(m)'
<1>1. Failures(m)' <= Failures(m)
  BY Leaves DEF Failures
<1>2. Outstanding("dead", m) = {} => Outstanding("dead", m)' = {}
  BY Leaves
<1>3. /\ msg[m].attempts \in Nat /\ msg'[m].attempts \in Nat
      /\ Failures(m) \in Nat /\ Failures(m)' \in Nat
  BY OutstandingFinite, OutstandingFiniteNext DEF TypeInv, TypeOK, Message, Failures
<1>4. msg'[m].attempts + Failures(m)' <= msg[m].attempts + Failures(m)
  BY <1>1, <1>3
<1> QED BY <1>2, <1>4, PolicyCalm

LEMMA ExecutedMoves ==
    ASSUME TypeInv, NEW k \in Msgs, NEW m \in Msgs, NEW op \in {"ack", "dead"}, msg' = Executed(op, k)
    PROVE  /\ msg'[m].attempts <= msg[m].attempts
           /\ msg'[m].at = "dead" => msg[m].at = "dead" \/ (op = "dead" /\ k = m)
BY DEF Executed, Moved, TypeInv, TypeOK, Message

LEMMA ExecutedCounts ==
    ASSUME TypeInv, NEW k \in Msgs, NEW m \in Msgs, msg' = Executed("record", k)
    PROVE  /\ m # k => msg'[m] = msg[m]
           /\ msg'[m].at = msg[m].at
           /\ msg'[m].attempts \in {msg[m].attempts, msg[m].attempts + 1}
BY DEF Executed, Counted, TypeInv, TypeOK, Message

(* Where an operation is after it has passed a message, or failed. *)
LEMMA Onward ==
    ASSUME TypeInv, NEW n \in Nodes, NEW B, NEW a, Fail(n) \/ Continue(n, B, a)
    PROVE  job'[n].pc \in {"idle", "handler"} /\ \A k \in Nodes \ {n} : job'[k] = job[k]
<1> USE DEF TypeInv, TypeOK
<1>1. CASE job' = [job EXCEPT ![n] = Idle]
  BY <1>1 DEF Idle
<1>2. ASSUME NEW m, job' = [job EXCEPT ![n].pc = "handler", ![n].batch = B, ![n].cur = m, ![n].again = a]
      PROVE  job'[n].pc = "handler" /\ \A k \in Nodes \ {n} : job'[k] = job[k]
  BY <1>2 DEF Operation
<1> QED BY <1>1, <1>2 DEF Fail, Continue

LEMMA Turns ==
    ASSUME TypeInv, NEW n \in Nodes, NEW pc, To(n, pc)
    PROVE  job'[n].pc = pc /\ job'[n].cur = job[n].cur /\ \A k \in Nodes \ {n} : job'[k] = job[k]
BY DEF To, TypeInv, TypeOK, Operation

(* The handler has thrown once more, and one more failure is to be counted. *)
LEMMA PolicyThrows ==
    ASSUME TypeInv, TypeInv', NEW m \in Msgs, Policy(m), NEW n \in Nodes, HandlerThrows(n)
    PROVE  Policy(m)'
<1> USE DEF TypeInv, TypeOK
<1>1. /\ job[n].pc = "handler" /\ job'[n].pc = "record" /\ job'[n].cur = job[n].cur
      /\ \A k \in Nodes \ {n} : job'[k] = job[k]
  BY Turns DEF HandlerThrows
<1>2. UNCHANGED <<msg, stray>>
  BY DEF HandlerThrows
<1>3. CASE m # job[n].cur
  <2>1. hist'.threw[m] = hist.threw[m] /\ hist'.excused = hist.excused
    BY <1>3 DEF HandlerThrows, History
  <2>2. Outstanding("record", m)' = Outstanding("record", m) /\ Outstanding("dead", m)' = Outstanding("dead", m)
    BY <1>1, <1>2, <1>3 DEF Outstanding
  <2> QED BY <1>2, <2>1, <2>2 DEF Policy, Covered, Justified, Failures
<1>4. CASE m = job[n].cur
  <2> DEFINE O == Outstanding("record", m)
             threw == hist.threw[m]
  <2>1. hist'.threw[m] = (IF threw < MaxAttempts THEN threw + 1 ELSE threw) /\ hist'.excused = hist.excused
    BY <1>4 DEF HandlerThrows, History
  <2>2. Outstanding("record", m)' = O \cup {n} /\ n \notin O
    BY <1>1, <1>2, <1>4 DEF Outstanding
  <2>3. Outstanding("dead", m)' = Outstanding("dead", m)
    BY <1>1, <1>2 DEF Outstanding
  <2>4. IsFiniteSet(O) /\ Cardinality(O) \in Nat
    BY OutstandingFinite
  <2>5. Failures(m)' = Failures(m) + 1
    <3> HIDE DEF O
    <3>1. Cardinality(O \cup {n}) = Cardinality(O) + 1
      BY <2>2, <2>4, FS_AddElement
    <3> QED BY <2>2, <3>1 DEF Failures, O
  <2>6. threw \in Nat /\ Failures(m) \in Nat /\ msg[m].attempts \in Nat
    BY <2>4 DEF History, Message, Failures
  <2>7. Covered(m)'
    BY <1>2, <2>1, <2>5, <2>6 DEF Policy, Covered
  <2>8. Justified(m) => Justified(m)'
    BY <2>1, <2>6 DEF Justified
  <2> QED BY <1>2, <2>3, <2>7, <2>8 DEF Policy
<1> QED BY <1>3, <1>4

(* A failure that was to be counted is; a message that has failed often     *)
(* enough has been thrown at as often.                                      *)
LEMMA PolicyRecords ==
    ASSUME TypeInv, TypeInv', NEW m \in Msgs, Policy(m), NEW n \in Nodes,
           RecordFailure(n), msg' = Executed("record", job[n].cur), UNCHANGED stray
    PROVE  Policy(m)'
<1> USE DEF TypeInv, TypeOK
<1> DEFINE cur == job[n].cur
<1>1. job[n].pc = "record" /\ cur \in Msgs /\ UNCHANGED hist
  BY DEF RecordFailure, Batches, Working
<1>2. /\ m # cur => msg'[m] = msg[m]
      /\ msg'[m].at = msg[m].at
      /\ msg'[m].attempts \in {msg[m].attempts, msg[m].attempts + 1}
  BY <1>1, ExecutedCounts
<1>3. /\ msg[m].attempts \in Nat /\ msg'[m].attempts \in Nat /\ hist.threw[m] \in Nat
      /\ Failures(m) \in Nat /\ Failures(m)' \in Nat
  BY OutstandingFinite, OutstandingFiniteNext DEF Message, History, Failures
<1>4. /\ job'[n].pc \in {"idle", "handler"} \/ (job'[n].pc = "dead" /\ job'[n].cur = cur /\ msg'[cur].attempts >= MaxAttempts)
      /\ \A k \in Nodes \ {n} : job'[k] = job[k]
  BY Turns, Onward DEF RecordFailure, Blocks, GiveUp
<1>5. msg'[m].attempts + Failures(m)' <= msg[m].attempts + Failures(m)
  <2>1. CASE m = cur
    <3>1. Failures(m)' + 1 <= Failures(m)
      BY <1>1, <1>4, <2>1, DoneByOperation DEF Failures
    <3> QED BY <1>2, <1>3, <3>1
  <2>2. CASE m # cur
    <3>1. Failures(m)' <= Failures(m)
      BY <1>1, <1>4, <2>2, Leaves DEF Failures
    <3> QED BY <1>2, <1>3, <2>2, <3>1
  <2> QED BY <2>1, <2>2
<1>6. Outstanding("dead", m)' # {} => Outstanding("dead", m) # {} \/ Justified(m)
  <2>1. CASE job'[n].pc = "dead" /\ m = cur
    <3>1. msg'[m].attempts >= MaxAttempts
      BY <1>4, <2>1
    <3>2. hist.threw[m] >= MaxAttempts
      BY <1>3, <1>5, <3>1 DEF Policy, Covered
    <3> QED BY <3>2 DEF Justified
  <2>2. CASE ~(job'[n].pc = "dead" /\ m = cur)
    <3>1. Outstanding("dead", m) = {} => Outstanding("dead", m)' = {}
      BY <1>1, <1>4, <2>2, Leaves
    <3> QED BY <3>1
  <2> QED BY <2>1, <2>2
<1> QED BY <1>1, <1>2, <1>5, <1>6, PolicyCalm

(* What has no document may be moved away, until it is replayed. *)
LEMMA PolicyMissing ==
    ASSUME TypeInv, TypeInv', NEW m \in Msgs, Policy(m), NEW n \in Nodes, NEW B \in SUBSET Msgs, NEW a,
           job[n].pc \notin {"ack", "record"}, NextMissing(n, B, a), UNCHANGED stray,
           msg'[m].attempts <= msg[m].attempts,
           msg'[m].at = "dead" => msg[m].at = "dead" \/ Justified(m)
    PROVE  Policy(m)'
<1> USE DEF TypeInv, TypeOK
<1>1. hist'.threw[m] = hist.threw[m] /\ hist'.excused = hist.excused \cup B
  BY DEF NextMissing, History
<1>2. CASE \E k \in First(B) : job' = [job EXCEPT ![n].pc = "dead", ![n].batch = B, ![n].cur = k, ![n].again = a]
  <2>1. PICK k \in First(B) : job' = [job EXCEPT ![n].pc = "dead", ![n].batch = B, ![n].cur = k, ![n].again = a]
    BY <1>2
  <2>2. /\ job'[n].pc = "dead" /\ job'[n].cur = k /\ k \in B
        /\ \A j \in Nodes \ {n} : job'[j] = job[j]
    BY <2>1 DEF Operation, First
  <2>3. Failures(m)' <= Failures(m)
    BY <2>2, Leaves DEF Failures
  <2>4. /\ msg[m].attempts \in Nat /\ msg'[m].attempts \in Nat /\ hist.threw[m] \in Nat
        /\ Failures(m) \in Nat /\ Failures(m)' \in Nat
    BY OutstandingFinite, OutstandingFiniteNext DEF Message, History, Failures
  <2>5. CASE m = k
    <3>1. Justified(m)'
      BY <1>1, <2>2, <2>5 DEF Justified
    <3>2. Covered(m)'
      BY <1>1, <2>3, <2>4 DEF Policy, Covered
    <3> QED BY <3>1, <3>2 DEF Policy
  <2>6. CASE m # k
    <3>1. Outstanding("dead", m) = {} => Outstanding("dead", m)' = {}
      BY <2>2, <2>6, Leaves
    <3> QED BY <1>1, <2>3, <2>4, <3>1, PolicyCalm
  <2> QED BY <2>5, <2>6
<1>3. CASE job' = [job EXCEPT ![n] = IF a THEN [Idle EXCEPT !.pc = "find", !.kind = "missing"] ELSE Idle]
  <2>1. job'[n].pc \in {"idle", "find"} /\ \A j \in Nodes \ {n} : job'[j] = job[j]
    BY <1>3 DEF Idle
  <2> QED BY <1>1, <2>1, PolicyLeaves
<1> QED BY <1>2, <1>3 DEF NextMissing

(* The operation whose turn it is to move a message away has a reason.      *)
LEMMA Deadly ==
    ASSUME NEW n \in Nodes, job[n].pc = "dead", Policy(job[n].cur) PROVE Justified(job[n].cur)
<1>1. n \in Outstanding("dead", job[n].cur)
  BY DEF Outstanding
<1> QED BY <1>1 DEF Policy

LEMMA PolicyStep ==
    ASSUME TypeInv, TypeInv', \A k \in Msgs : Policy(k), NEW m \in Msgs, NEW n \in Nodes, Step(n)
    PROVE  Policy(m)'
<1> USE DEF TypeInv, TypeOK
<1> DEFINE Calm == UNCHANGED <<msg, stray>> /\ hist'.threw = hist.threw /\ hist'.excused = hist.excused
           Quiet == job'[n].pc \notin {"record", "dead"} /\ \A k \in Nodes \ {n} : job'[k] = job[k]
<1>1. ASSUME Calm, Quiet PROVE Policy(m)'
  <2>1. msg[m].attempts \in Nat
    BY DEF Message
  <2> QED BY <1>1, <2>1, PolicyLeaves
<1>2. CASE Load(n) \/ LoadFails(n)
  <2>1. job' = [job EXCEPT ![n] = Idle] => Quiet
    BY DEF Idle
  <2> QED BY <1>1, <1>2, <2>1, Turns DEF Load, LoadFails
<1>3. CASE Find(n)
  <2>1. Quiet
    BY <1>3, Onward DEF Find
  <2>2. Calm
    BY <1>3 DEF Find, History
  <2> QED BY <1>1, <2>1, <2>2
<1>4. CASE HandlerReturns(n)
  <2>1. job' = [job EXCEPT ![n] = Idle] => Quiet
    BY DEF Idle
  <2>2. Quiet
    BY <1>4, <2>1, Turns DEF HandlerReturns, AfterHandler
  <2>3. Calm
    BY <1>4 DEF HandlerReturns
  <2> QED BY <1>1, <2>2, <2>3
<1>5. CASE SaveExecuted(n) \/ SaveRefused(n)
  <2>1. Quiet
    BY <1>5, Onward, Turns DEF SaveExecuted, SaveRefused
  <2>2. Calm
    BY <1>5 DEF SaveExecuted, SaveRefused
  <2> QED BY <1>1, <2>1, <2>2
<1>6. ASSUME GiveUp(n, job[n].pc), UNCHANGED hist PROVE Policy(m)'
  <2>1. Quiet
    BY <1>6, Onward DEF GiveUp
  <2>2. UNCHANGED <<msg, hist>> /\ stray' \subseteq stray \cup {[op |-> job[n].pc, m |-> job[n].cur]}
    BY <1>6 DEF GiveUp
  <2>3. msg[m].attempts \in Nat
    BY DEF Message
  <2> QED BY <2>1, <2>2, <2>3, PolicyLeaves
<1>7. ASSUME NEW op \in {"ack", "dead"}, job[n].pc = op, msg' = Executed(op, job[n].cur), UNCHANGED stray
      PROVE  /\ msg'[m].attempts <= msg[m].attempts
             /\ msg'[m].at = "dead" => msg[m].at = "dead" \/ Justified(m)
  <2>1. job[n].cur \in Msgs
    BY <1>7 DEF Batches, Working
  <2> QED BY <1>7, <2>1, ExecutedMoves, Deadly
<1>8. CASE Ack(n)
  <2>1. CASE msg' = Executed("ack", job[n].cur) /\ Pass(n, FALSE) /\ UNCHANGED stray
    <3>1. Quiet
      BY <2>1, Onward DEF Pass
    <3> QED BY <1>7, <1>8, <2>1, <3>1, PolicyLeaves DEF Ack
  <2> QED BY <1>6, <1>8, <2>1 DEF Ack
<1>9. CASE MarkDead(n)
  <2>1. CASE msg' = Executed("dead", job[n].cur) /\ (Pass(n, TRUE) \/ Fail(n)) /\ UNCHANGED stray
    <3>1. Quiet
      BY <2>1, Onward DEF Pass
    <3> QED BY <1>7, <1>9, <2>1, <3>1, PolicyLeaves DEF MarkDead
  <2> QED BY <1>6, <1>9, <2>1 DEF MarkDead
<1>10. CASE RecordFailure(n)
  <2>1. CASE msg' = Executed("record", job[n].cur) /\ UNCHANGED stray
    BY <1>10, <2>1, PolicyRecords
  <2> QED BY <1>6, <1>10, <2>1 DEF RecordFailure
<1>11. CASE FindMissing(n)
  <2>1. CASE \E B \in SUBSET Pending : NextMissing(n, B, Cardinality(B) = Page)
    <3>1. PICK B \in SUBSET Pending : NextMissing(n, B, Cardinality(B) = Page)
      BY <2>1
    <3>2. msg[m].attempts \in Nat /\ B \in SUBSET Msgs
      BY DEF Message, Pending
    <3>3. UNCHANGED <<msg, stray>> /\ job[n].pc = "find"
      BY <1>11 DEF FindMissing
    <3> QED BY <3>1, <3>2, <3>3, PolicyMissing
  <2>2. CASE Fail(n) /\ UNCHANGED hist
    BY <1>1, <1>11, <2>2, Onward DEF FindMissing
  <2> QED BY <1>11, <2>1, <2>2 DEF FindMissing
<1>12. CASE MarkMissing(n)
  <2>1. CASE msg' = Executed("dead", job[n].cur) /\ NextMissing(n, job[n].batch \ {job[n].cur}, job[n].again) /\ UNCHANGED stray
    <3>1. job[n].batch \ {job[n].cur} \in SUBSET Msgs /\ job[n].pc = "dead"
      BY <1>12 DEF MarkMissing, Operation
    <3> QED BY <1>7, <2>1, <3>1, PolicyMissing
  <2> QED BY <1>6, <1>12, <2>1 DEF MarkMissing
<1>13. CASE HandlerThrows(n)
  BY <1>13, PolicyThrows
<1> QED BY <1>2, <1>3, <1>4, <1>5, <1>8, <1>9, <1>10, <1>11, <1>12, <1>13 DEF Step

(* A wake-up, a request or a crash takes the gate, or gives it back.        *)
LEMMA PolicyOutside ==
    ASSUME TypeInv, TypeInv', NEW m \in Msgs, Policy(m), NEW n \in Nodes,
           Start(n) \/ Request(n) \/ Crash(n)
    PROVE  Policy(m)'
<1> USE DEF TypeInv, TypeOK
<1>1. msg[m].attempts \in Nat
  BY DEF Message
<1>2. ASSUME NEW j, j.pc \notin {"record", "dead"}, job' = [job EXCEPT ![n] = j] \/ job' = job,
             UNCHANGED msg, hist'.threw = hist.threw, hist'.excused = hist.excused,
             stray' \subseteq stray \cup (IF job' = job THEN {} ELSE {[op |-> job[n].pc, m |-> job[n].cur]})
      PROVE  Policy(m)'
  <2>1. CASE job' = [job EXCEPT ![n] = j] /\ job' # job
    <3>1. job'[n] = j /\ \A k \in Nodes \ {n} : job'[k] = job[k]
      BY <2>1
    <3> QED BY <1>1, <1>2, <2>1, <3>1, PolicyLeaves
  <2>2. CASE job' = job
    <3>1. Failures(m)' <= Failures(m) /\ (Outstanding("dead", m) = {} => Outstanding("dead", m)' = {})
      BY <1>2, <2>2, Unmoved DEF Failures
    <3>2. Failures(m) \in Nat /\ Failures(m)' \in Nat
      BY OutstandingFinite, OutstandingFiniteNext DEF Failures
    <3> QED BY <1>1, <1>2, <3>1, <3>2, PolicyCalm
  <2> QED BY <1>2, <2>1, <2>2
<1>3. CASE Start(n)
  <2>1. PICK w \in waiting : w.node = n /\ (Begin(w) \/ Lock(w) \/ Forward(w) \/ Refuse(w) \/ BeginMissing(w))
    BY <1>3 DEF Start
  <2>2. UNCHANGED <<msg, stray>> /\ hist'.threw = hist.threw /\ hist'.excused = hist.excused
    BY <2>1 DEF Begin, Lock, Forward, Refuse, BeginMissing, History
  <2>3. Idle.pc \notin {"record", "dead"}
    BY DEF Idle
  <2>4. CASE UNCHANGED job
    BY <1>2, <2>2, <2>3, <2>4
  <2>5. ASSUME NEW pc \in {"load", "find"}, Takes(w, pc) PROVE Policy(m)'
    <3> DEFINE j == [Idle EXCEPT !.pc = pc, !.kind = IF w.kind = "missing" THEN "missing" ELSE "deliver"]
    <3>1. j.pc \notin {"record", "dead"} /\ job' = [job EXCEPT ![n] = j]
      BY <2>1, <2>5 DEF Takes, Idle
    <3> HIDE DEF j
    <3> QED BY <1>2, <2>2, <3>1
  <2> QED BY <2>1, <2>4, <2>5 DEF Begin, Lock, Forward, Refuse, BeginMissing
<1>4. CASE Request(n)
  <2> DEFINE j == [Idle EXCEPT !.pc = "load", !.kind = "request"]
  <2>1. j.pc \notin {"record", "dead"} /\ job' = [job EXCEPT ![n] = j] /\ UNCHANGED <<msg, hist, stray>>
    BY <1>4 DEF Request, Idle
  <2> HIDE DEF j
  <2> QED BY <1>2, <2>1
<1>5. CASE Crash(n)
  <2>1. Idle.pc \notin {"record", "dead"} /\ job' = [job EXCEPT ![n] = Idle] /\ UNCHANGED msg
    BY <1>5 DEF Crash, Idle
  <2>2. hist'.threw = hist.threw /\ hist'.excused = hist.excused
    BY <1>5 DEF Crash, History
  <2>3. /\ stray' \subseteq stray \cup {[op |-> job[n].pc, m |-> job[n].cur]}
        /\ job' = job => stray' = stray
    BY <1>5, <2>1 DEF Crash, Idle
  <2>4. stray' \subseteq stray \cup (IF job' = job THEN {} ELSE {[op |-> job[n].pc, m |-> job[n].cur]})
    BY <2>3
  <2> QED BY <1>2, <2>1, <2>2, <2>4
<1> QED BY <1>3, <1>4, <1>5

(* A replay begins with what will still be held against the message.        *)
LEMMA PolicyReplay ==
    ASSUME TypeInv, TypeInv', NEW m \in Msgs, Policy(m), NEW k \in Msgs, Replay(k)
    PROVE  Policy(m)'
<1> USE DEF TypeInv, TypeOK
<1> DEFINE h == [hist EXCEPT !.threw[k] = Cardinality(Outstanding("record", k)),
                             !.excused = IF Outstanding("dead", k) = {} THEN @ \ {k} ELSE @ \cup {k}]
<1>1. /\ hist'.threw = [hist.threw EXCEPT ![k] = Failures(k)]
      /\ hist'.excused = IF Outstanding("dead", k) = {} THEN hist.excused \ {k} ELSE hist.excused \cup {k}
  <2>1. hist' = h \/ hist' = [h EXCEPT !.unpoked = @ \cup {k}]
    BY DEF Replay
  <2>2. /\ h.threw = [hist.threw EXCEPT ![k] = Failures(k)]
        /\ h.excused = IF Outstanding("dead", k) = {} THEN hist.excused \ {k} ELSE hist.excused \cup {k}
    BY DEF History, Failures
  <2>3. h \in History
    <3>1. Cardinality(Outstanding("record", k)) \in Nat
      BY OutstandingFinite
    <3> QED BY <3>1 DEF History
  <2> HIDE DEF h
  <2> QED BY <2>1, <2>2, <2>3 DEF History
<1>2. UNCHANGED <<job, stray>> /\ msg' = [msg EXCEPT ![k] = [at |-> "pending", attempts |-> 0]]
  BY DEF Replay
<1>3. Outstanding("record", m)' = Outstanding("record", m) /\ Outstanding("dead", m)' = Outstanding("dead", m)
  BY <1>2 DEF Outstanding
<1>4. Failures(m) \in Nat /\ Failures(m)' = Failures(m)
  BY <1>3, OutstandingFinite DEF Failures
<1>5. CASE m = k
  <2>1. hist'.threw[m] = Failures(m) /\ msg'[m] = [at |-> "pending", attempts |-> 0]
    BY <1>1, <1>2, <1>5 DEF History
  <2>2. Covered(m)'
    BY <1>4, <2>1 DEF Covered
  <2>3. Outstanding("dead", m) # {} => m \in hist'.excused
    BY <1>1, <1>5
  <2> QED BY <1>3, <2>1, <2>2, <2>3 DEF Policy, Justified
<1>6. CASE m # k
  <2>1. hist'.threw[m] = hist.threw[m] /\ (m \in hist.excused => m \in hist'.excused) /\ msg'[m] = msg[m]
    BY <1>1, <1>2, <1>6 DEF History
  <2>2. msg[m].attempts \in Nat
    BY DEF Message
  <2> QED BY <1>3, <1>4, <2>1, <2>2, PolicyCalm
<1> QED BY <1>5, <1>6

(* A verdict of a request that was given up is outstanding until it comes.  *)
LEMMA PolicyStray ==
    ASSUME TypeInv, TypeInv', NEW m \in Msgs, Policy(m), StrayExecuted
    PROVE  Policy(m)'
<1> USE DEF TypeInv, TypeOK
<1>1. PICK s \in stray : stray' = stray \ {s} /\ msg' = Executed(s.op, s.m)
  BY DEF StrayExecuted
<1>2. /\ s.op \in {"ack", "record", "dead"} /\ s.m \in Msgs /\ s = [op |-> s.op, m |-> s.m]
      /\ UNCHANGED <<job, hist>>
  BY DEF Update, StrayExecuted
<1>3. /\ Failures(m)' <= Failures(m)
      /\ Outstanding("dead", m) = {} => Outstanding("dead", m)' = {}
  BY <1>1, <1>2, Unmoved DEF Failures
<1>4. /\ msg[m].attempts \in Nat /\ msg'[m].attempts \in Nat
      /\ Failures(m) \in Nat /\ Failures(m)' \in Nat
  BY OutstandingFinite, OutstandingFiniteNext DEF Message, Failures
<1>5. CASE s.op = "record"
  <2>1. msg'[m].at = msg[m].at /\ (m # s.m => msg'[m] = msg[m])
        /\ msg'[m].attempts \in {msg[m].attempts, msg[m].attempts + 1}
    BY <1>1, <1>2, <1>5, ExecutedCounts
  <2>2. m = s.m => Failures(m)' + 1 <= Failures(m)
    BY <1>1, <1>2, <1>5, DoneLate DEF Failures
  <2>3. msg'[m].attempts + Failures(m)' <= msg[m].attempts + Failures(m)
    BY <1>3, <1>4, <2>1, <2>2
  <2> QED BY <1>2, <1>3, <2>1, <2>3, PolicyCalm
<1>6. CASE s.op # "record"
  <2>1. /\ msg'[m].attempts <= msg[m].attempts
        /\ msg'[m].at = "dead" => msg[m].at = "dead" \/ (s.op = "dead" /\ s.m = m)
    BY <1>1, <1>2, <1>6, ExecutedMoves
  <2>2. s.op = "dead" /\ s.m = m => Justified(m)
    <3>1. s.op = "dead" /\ s.m = m => None \in Outstanding("dead", m)
      BY <1>2 DEF Outstanding
    <3> QED BY <3>1 DEF Policy
  <2> QED BY <1>2, <1>3, <1>4, <2>1, <2>2, PolicyCalm
<1> QED BY <1>5, <1>6

LEMMA PolicyElsewhere ==
    ASSUME TypeInv, TypeInv', NEW m \in Msgs, Policy(m),
           \/ \E k \in Msgs : NextSeq(k) \/ Save(k) \/ Discard(k)
           \/ \E n \in Nodes : Retry(n) \/ SweepSaves(n) \/ Unload(n) \/ Leave(n)
           \/ Create \/ LoseLease
    PROVE  Policy(m)'
<1> USE DEF TypeInv, TypeOK
<1>1. UNCHANGED <<job, stray>>
  BY DEF NextSeq, Save, Discard, Retry, SweepSaves, Unload, Leave, Create, LoseLease
<1>2. /\ Failures(m)' <= Failures(m)
      /\ Outstanding("dead", m) = {} => Outstanding("dead", m)' = {}
  BY <1>1, Unmoved DEF Failures
<1>3. /\ msg[m].attempts \in Nat /\ msg'[m].attempts \in Nat
      /\ Failures(m) \in Nat /\ Failures(m)' \in Nat
  BY OutstandingFinite, OutstandingFiniteNext DEF Message, Failures
<1>4. hist'.threw = hist.threw /\ hist'.excused = hist.excused
  BY DEF NextSeq, Save, Poke, Discard, Retry, SweepSaves, Unload, Leave, Create, LoseLease, History
<1>5. msg'[m].attempts <= msg[m].attempts /\ (msg'[m].at = "dead" => msg[m].at = "dead")
  <2>1. CASE UNCHANGED msg
    BY <1>3, <2>1
  <2>2. ASSUME NEW k \in Msgs, NextSeq(k) \/ Save(k)
        PROVE  msg'[m].attempts = msg[m].attempts /\ msg'[m].at \in {msg[m].at, "numbered", "pending"}
    BY <2>2 DEF NextSeq, Save, Message
  <2>3. ASSUME NEW k \in Msgs, Discard(k)
        PROVE  msg'[m].attempts \in {0, msg[m].attempts} /\ msg'[m].at \in {msg[m].at, "discarded"}
    BY <2>3 DEF Discard, Moved, Message
  <2>4. CASE \E k \in Msgs : NextSeq(k) \/ Save(k)
    BY <1>3, <2>2, <2>4
  <2>5. CASE \E k \in Msgs : Discard(k)
    BY <1>3, <2>3, <2>5
  <2>6. ASSUME NEW n \in Nodes, Retry(n) \/ SweepSaves(n) \/ Unload(n) \/ Leave(n)
        PROVE  msg' = msg
    BY <2>6 DEF Retry, SweepSaves, Unload, Leave
  <2>7. CASE Create \/ LoseLease
    BY <2>1, <2>7 DEF Create, LoseLease
  <2>8. CASE \E n \in Nodes : Retry(n) \/ SweepSaves(n) \/ Unload(n) \/ Leave(n)
    BY <2>1, <2>6, <2>8
  <2> QED BY <2>4, <2>5, <2>7, <2>8
<1>6. msg'[m].attempts + Failures(m)' <= msg[m].attempts + Failures(m)
  BY <1>2, <1>3, <1>5
<1> QED BY <1>2, <1>4, <1>5, <1>6, PolicyCalm

LEMMA PolicyKept == TypeInv /\ TypeInv' /\ (\A m \in Msgs : Policy(m)) /\ [Next]_vars => \A m \in Msgs : Policy(m)'
<1> SUFFICES ASSUME TypeInv, TypeInv', \A k \in Msgs : Policy(k), [Next]_vars, NEW m \in Msgs PROVE Policy(m)'
  OBVIOUS
<1>1. CASE UNCHANGED vars
  BY <1>1 DEF vars, Policy, Covered, Justified, Failures, Outstanding
<1>2. CASE Next
  BY <1>2, PolicyStep, PolicyOutside, PolicyReplay, PolicyStray, PolicyElsewhere DEF Next
<1> QED BY <1>1, <1>2

(* A dead letter has a reason: its handler has thrown as often as allowed    *)
(* since it was last replayed, or its entity did not exist, or a verdict    *)
(* from before the replay came late.                                        *)
THEOREM DeadByPolicyAlways == Spec => []DeadByPolicy
<1> DEFINE Reasoned == \A m \in Msgs : Policy(m)
<1>1. Init => Reasoned
  <2> SUFFICES ASSUME Init, NEW m \in Msgs PROVE Policy(m)
    OBVIOUS
  <2>1. msg[m].attempts = 0 /\ msg[m].at = "none" /\ hist.threw[m] = 0
    BY DEF Init
  <2>2. \A op \in {"record", "dead"} : Outstanding(op, m) = {}
    BY DEF Init, Outstanding, Idle
  <2>3. Failures(m) = 0
    BY <2>2, FS_EmptySet DEF Failures
  <2> QED BY <2>1, <2>2, <2>3 DEF Policy, Covered
<1>2. Reasoned => DeadByPolicy
  BY DEF Policy, Justified, DeadByPolicy
<1>3. TypeInv /\ TypeInv' /\ Reasoned /\ [Next]_vars => Reasoned'
  BY PolicyKept
<1> HIDE DEF Reasoned
<1> QED BY <1>1, <1>2, <1>3, InitType, StepType, PTL DEF Spec
=============================================================================
