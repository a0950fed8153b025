---------------------------- MODULE EntityStore ----------------------------
(***************************************************************************)
(* One entity and the nodes that want it: the lock in etcd                  *)
(* (lualib/skyext/distributed_lock.lua), the cached and fenced document in  *)
(* MongoDB (lualib/skyext/dbmgr.lua) and the life of the entity in memory   *)
(* (lualib/skyext/entity/entitymgr.lua).                                    *)
(*                                                                         *)
(* The entity's gate (a skynet.queue) runs one operation at a time on a     *)
(* node; the save wheel runs beside it and meets it at the document's row   *)
(* lock.  Every request to etcd or MongoDB is a step at the server and a    *)
(* later step where the answer is used: anything may happen in between.     *)
(*                                                                         *)
(* A document's content is the set of mutations it includes.  A write       *)
(* REPLACES the content by what the writer's memory holds, as $set does     *)
(* when all mutations touch one field: overwriting somebody else's change   *)
(* shows as a mutation that disappears.                                     *)
(*                                                                         *)
(* The node lease is what NodeLease provides: a node that finds its lease   *)
(* valid holds one that etcd keeps (ValidLeaseIsLive).  Leases stand for    *)
(* their epochs, since every lease has its own.                             *)
(***************************************************************************)
EXTENDS Naturals

CONSTANTS
    Nodes,
    Mutations,       \* what handlers do to the document, each at most once
    ClaimAttempts,   \* FENCE_CLAIM_ATTEMPTS
    MaxTries,        \* DIRTY_RECOVERY_MAX_ATTEMPTS
    AutoCreate,      \* type_config.auto_create
    MaxLease,        \* bound: leases granted; the last one is not lost
    MaxRev,          \* bound: times the lock key is created
    MaxFaults        \* bound: failed requests and hooks, and crashes

ASSUME StoreAssumption ==
    /\ ClaimAttempts \in Nat \ {0} /\ MaxTries \in Nat \ {0} /\ AutoCreate \in BOOLEAN
    /\ MaxLease \in Nat /\ MaxRev \in Nat /\ MaxFaults \in Nat

VARIABLES
    alive,    \* etcd: the leases it keeps
    granted,  \* etcd: leases 1..granted have been created
    key,      \* etcd: the entity's lock key
    rev,      \* etcd: the revision of the last creation of the key
    stray,    \* etcd: requests whose sender has given up on them
    revoked,  \* history: the revisions of the key that late unlocks have deleted
    doc,      \* MongoDB: the entity's document
    late,     \* MongoDB: writes whose sender has given up on them
    view,     \* node_lease as each node sees it
    lock,     \* distributed_lock: g_locks of each node for this key
    cache,    \* dbmgr: g_cache_collection of each node for this document
    row,      \* dbmgr: the row lock, and the MongoDB request its holder waits for
    ent,      \* entitymgr: entities[id]
    gate,     \* entitymgr: the operation in the entity's gate
    made,     \* the mutations that have been made
    acked,    \* history: the mutations that a save has reported stored
    writer,   \* history: the node that wrote the document last
    faults    \* requests and hooks that failed, nodes that crashed

etcd  == <<alive, granted, key, rev, stray, revoked>>
mongo == <<doc, late, writer>>
vars  == <<etcd, mongo, view, lock, cache, row, ent, gate, made, acked, faults>>

Leases  == 1 .. MaxLease
Revs    == 1 .. MaxRev
NoKey   == [lease |-> 0, rev |-> 0]
Key     == {NoKey} \cup [lease : Leases, rev : Revs]

(* Lock handles are compared by identity, which id stands for. *)
NoHandle == [id |-> 0, lease |-> 0, fence |-> 0]
Handle   == [id : 1 .. 4, lease : Leases, fence : Revs]
Handle0  == Handle \cup {NoHandle}

Contents == SUBSET Mutations
Doc      == [exists : BOOLEAN, version : Nat, fence : 0 .. MaxRev, content : Contents]

NoCache == [handle |-> NoHandle, version |-> 0, base |-> {}, dirty |-> {}, wheel |-> FALSE]
Cache   == [handle : Handle0, version : Nat, base : Contents, dirty : Contents, wheel : BOOLEAN]

(* A request to MongoDB: "claim" is findAndModify on the fence, "resolve"   *)
(* what follows when it matched nothing, "save" the guarded update.         *)
FreeRow == [by |-> "none", op |-> "none", handle |-> NoHandle, write |-> {}, reply |-> "none",
            version |-> 0, content |-> {}, tries |-> 0]
Row     == [by : {"none", "gate", "sweep"}, op : {"none", "claim", "resolve", "save"},
            handle : Handle0, write : Contents, reply : {"none", "ok", "no", "missing", "failed"},
            version : Nat, content : Contents, tries : 0 .. ClaimAttempts]

NoEnt  == [handle |-> NoHandle, invalid |-> FALSE, unloading |-> FALSE, persisted |-> FALSE,
           hooked |-> FALSE, armed |-> FALSE, tries |-> 0]
Ent    == [handle : Handle0, invalid : BOOLEAN, unloading : BOOLEAN, persisted : BOOLEAN,
           hooked : BOOLEAN, armed : BOOLEAN, tries : Nat]

Idle   == [pc |-> "idle", for |-> "load", handle |-> NoHandle, lease |-> 0, reply |-> "none",
           fence |-> 0]
Gate   == [pc : {"idle", "lock", "load", "init", "handler", "save", "discard", "hooks", "flush",
                 "recover", "unlock"},
           for : {"load", "recover", "release", "superseded"}, handle : Handle0,
           lease : 0 .. MaxLease, reply : {"none", "ok", "no", "failed"}, fence : 0 .. MaxRev]

Stray  == [op : {"lock", "unlock"}, arg : Nat]
Writes == [op : {"claim", "create", "save"}, node : Nodes, fence : Revs, version : Nat, content : Contents]

-----------------------------------------------------------------------------
(* distributed_lock.is_valid, and what follows from losing the lease *)

Valid(n, h) == h # NoHandle /\ lock[n] = h /\ view[n].valid /\ h.lease = view[n].lease

InMemory(n) == ent[n] # NoEnt
Cached(n)   == cache[n] # NoCache
Dirty(n)    == cache[n].dirty # {}

(* A table that is equal to no other one that is still referenced. *)
FreshId(n) ==
    CHOOSE i \in 1 .. 4 : i \notin {cache[n].handle.id, ent[n].handle.id, lock[n].id}

(* Mutants: only an entity that does nothing is quarantined; the fork is     *)
(* forgotten.                                                                *)
OnLockExpiredWhenIdle(n, h) ==
    IF InMemory(n) /\ ent[n].handle = h /\ ~ent[n].invalid /\ gate[n].pc = "idle"
      THEN ent' = [ent EXCEPT ![n].invalid = TRUE, ![n].armed = TRUE]
      ELSE UNCHANGED ent

OnLockExpiredNoFork(n, h) ==
    IF InMemory(n) /\ ent[n].handle = h /\ ~ent[n].invalid
      THEN ent' = [ent EXCEPT ![n].invalid = TRUE]
      ELSE UNCHANGED ent

(* _on_lock_expired: quarantine the entity and fork its unload. *)
OnLockExpired(n, h) ==
    IF InMemory(n) /\ ent[n].handle = h /\ ~ent[n].invalid
      THEN ent' = [ent EXCEPT ![n].invalid = TRUE, ![n].armed = TRUE]
      ELSE UNCHANGED ent

(* node_lease reports the loss; invalidate_all drops every lock. *)
LoseLease(n) ==
    /\ view[n].valid /\ granted < MaxLease
    /\ view' = [view EXCEPT ![n].valid = FALSE]
    /\ lock' = [lock EXCEPT ![n] = NoHandle]
    /\ OnLockExpired(n, lock[n])
    /\ UNCHANGED <<etcd, mongo, cache, row, gate, made, acked, faults>>

(* The deadline passed here before a late renewal of the same lease. *)
Resurrect(n) ==
    /\ ~view[n].valid /\ view[n].lease \in alive
    /\ view' = [view EXCEPT ![n].valid = TRUE]
    /\ UNCHANGED <<etcd, mongo, lock, cache, row, ent, gate, made, acked, faults>>

NewLease(n) ==
    /\ ~view[n].valid /\ granted < MaxLease
    /\ granted' = granted + 1
    /\ alive' = alive \cup {granted + 1}
    /\ view' = [view EXCEPT ![n] = [lease |-> granted + 1, valid |-> TRUE]]
    /\ UNCHANGED <<key, rev, stray, revoked, mongo, lock, cache, row, ent, gate, made, acked, faults>>

ExpireLease(l) ==
    /\ l \in alive /\ \A n \in Nodes : ~(view[n].valid /\ view[n].lease = l)
    /\ alive' = alive \ {l}
    /\ key' = IF key.lease = l THEN NoKey ELSE key
    /\ UNCHANGED <<granted, rev, stray, revoked, mongo, view, lock, cache, row, ent, gate, made, acked, faults>>

Fault == faults < MaxFaults /\ faults' = faults + 1

-----------------------------------------------------------------------------
(* etcd: the transactions of try_lock and unlock.  A request that fails may *)
(* have been executed before its answer was lost.                           *)

Waiting(n, pc) == gate[n].pc = pc /\ gate[n].reply = "none"

CanPut(l)    == l \in alive /\ rev < MaxRev  \* mutant: a key that exists is overwritten
CanCreate(l) == key = NoKey /\ l \in alive /\ rev < MaxRev
CreateKey(l) == rev' = rev + 1 /\ key' = [lease |-> l, rev |-> rev + 1]
DeleteKey(f) == key' = IF key.rev = f THEN NoKey ELSE key

EtcdLock(n) ==
    /\ Waiting(n, "lock")
    /\ IF CanCreate(gate[n].lease)
         THEN /\ CreateKey(gate[n].lease)
              /\ gate' = [gate EXCEPT ![n].reply = "ok", ![n].fence = rev + 1]
         ELSE /\ gate' = IF key = NoKey THEN [gate EXCEPT ![n].reply = "failed"]
                         ELSE IF key.lease = gate[n].lease
                           THEN [gate EXCEPT ![n].reply = "ok", ![n].fence = key.rev]
                         ELSE [gate EXCEPT ![n].reply = "no"]
              /\ UNCHANGED <<key, rev>>
    /\ UNCHANGED <<alive, granted, stray, revoked, mongo, view, lock, cache, row, ent, made, acked, faults>>

EtcdUnlock(n) ==
    /\ Waiting(n, "unlock")
    /\ gate' = [gate EXCEPT ![n].reply = IF key.rev = gate[n].handle.fence THEN "ok" ELSE "no"]
    /\ DeleteKey(gate[n].handle.fence)
    /\ UNCHANGED <<alive, granted, rev, stray, revoked, mongo, view, lock, cache, row, ent, made, acked, faults>>

RequestOf(n) == [op |-> gate[n].pc,
                 arg |-> IF gate[n].pc = "lock" THEN gate[n].lease ELSE gate[n].handle.fence]

LeavesStray(n) ==
    /\ Waiting(n, "lock") \/ Waiting(n, "unlock")
    /\ stray' = stray \cup {RequestOf(n)}

EtcdFails(n) ==
    /\ Fault
    /\ gate[n].pc \in {"lock", "unlock"} /\ gate[n].reply # "failed"
    /\ gate' = [gate EXCEPT ![n].reply = "failed", ![n].fence = 0]
    /\ UNCHANGED stray \/ LeavesStray(n)
    /\ UNCHANGED <<alive, granted, key, rev, revoked, mongo, view, lock, cache, row, ent, made, acked>>

(* One endpoint has not answered in time, and the request is sent to the    *)
(* next: whatever the first still does with it, nobody waits for it.        *)
EtcdRetries(n) ==
    /\ Fault
    /\ LeavesStray(n)
    /\ UNCHANGED <<alive, granted, key, rev, revoked, mongo, view, lock, cache, row, ent, gate, made, acked>>

EtcdStray(q) ==
    /\ q \in stray
    /\ stray' = stray \ {q}
    /\ IF q.op = "unlock" THEN DeleteKey(q.arg) /\ UNCHANGED rev
       ELSE IF CanCreate(q.arg) THEN CreateKey(q.arg)
       ELSE UNCHANGED <<key, rev>>
    /\ revoked' = IF key # NoKey /\ key' = NoKey THEN revoked \cup {key.rev} ELSE revoked
    /\ UNCHANGED <<alive, granted, mongo, view, lock, cache, row, ent, gate, made, acked, faults>>

-----------------------------------------------------------------------------
(* MongoDB *)

(* Mutants: a claim that a higher fence does not stop, a write that another *)
(* version, or another fence, does not stop.                                *)
ClaimableAlways(f)    == doc.exists
MatchesFenceOnly(w)   == doc.exists /\ doc.fence = w.fence
MatchesVersionOnly(w) == doc.exists /\ doc.version = w.version

Claimable(f) == doc.exists /\ doc.fence <= f
Matches(w)   == doc.exists /\ doc.version = w.version /\ doc.fence = w.fence

Claim(f)  == doc' = [doc EXCEPT !.fence = f]
Create(f) == doc' = [exists |-> TRUE, version |-> 0, fence |-> f, content |-> {}]
Write(w)  == /\ doc' = [doc EXCEPT !.version = @ + 1, !.content = w.content]
             /\ writer' = {w.node}

Pending(n, op) == row[n].op = op /\ row[n].reply = "none"

Answer(n, st, d) ==
    row' = [row EXCEPT ![n].reply = st, ![n].version = d.version, ![n].content = d.content]

MongoClaim(n) ==
    /\ Pending(n, "claim")
    /\ IF Claimable(row[n].handle.fence)
         THEN /\ Claim(row[n].handle.fence)
              /\ Answer(n, "ok", doc)
         ELSE /\ row' = [row EXCEPT ![n].op = "resolve", ![n].tries = @ + 1]
              /\ UNCHANGED doc
    /\ UNCHANGED <<etcd, late, writer, view, lock, cache, ent, gate, made, acked, faults>>

Creates(n) == AutoCreate \/ gate[n].pc = "recover"

(* resolve_unclaimed: read the document, or create it; then give up, or     *)
(* claim again while attempts are left.                                     *)
MongoResolve(n) ==
    /\ Pending(n, "resolve")
    /\ IF ~doc.exists /\ Creates(n)
         THEN /\ Create(row[n].handle.fence)
              /\ Answer(n, "ok", [version |-> 0, content |-> {}])
         ELSE /\ IF ~doc.exists
                   THEN row' = [row EXCEPT ![n].reply = "missing"]
                 ELSE IF Creates(n) /\ doc.fence = row[n].handle.fence
                   THEN Answer(n, "ok", doc)
                 ELSE IF doc.fence > row[n].handle.fence \/ row[n].tries = ClaimAttempts
                   THEN row' = [row EXCEPT ![n].reply = "no"]
                   ELSE row' = [row EXCEPT ![n].op = "claim"]
              /\ UNCHANGED doc
    /\ UNCHANGED <<etcd, late, writer, view, lock, cache, ent, gate, made, acked, faults>>

SaveOf(n) == [op |-> "save", node |-> n, fence |-> row[n].handle.fence, version |-> cache[n].version,
              content |-> cache[n].base \cup row[n].write]

MongoSave(n) ==
    /\ Pending(n, "save")
    /\ IF Matches(SaveOf(n))
         THEN /\ Write(SaveOf(n))
              /\ row' = [row EXCEPT ![n].reply = "ok"]
         ELSE /\ row' = [row EXCEPT ![n].reply = "no"]
              /\ UNCHANGED <<doc, writer>>
    /\ UNCHANGED <<etcd, late, view, lock, cache, ent, gate, made, acked, faults>>

(* What the request that waits would do if it arrived later. *)
WriteOf(n) ==
    IF row[n].op = "save" THEN SaveOf(n)
    ELSE [op |-> IF row[n].op = "claim" THEN "claim" ELSE "create", node |-> n,
          fence |-> row[n].handle.fence, version |-> 0, content |-> {}]

LeavesLate(n) ==
    /\ row[n].op # "none" /\ row[n].reply = "none"
    /\ row[n].op = "resolve" => Creates(n)
    /\ late' = late \cup {WriteOf(n)}

(* The connection breaks: the answer is lost, or the request is, or it is   *)
(* still on its way to the server.                                          *)
MongoFails(n) ==
    /\ Fault
    /\ row[n].op # "none" /\ row[n].reply # "failed"
    /\ row' = [row EXCEPT ![n].reply = "failed", ![n].version = 0, ![n].content = {}]
    /\ \/ UNCHANGED late
       \/ LeavesLate(n)
    /\ UNCHANGED <<etcd, doc, writer, view, lock, cache, ent, gate, made, acked>>

LateWrite(w) ==
    /\ w \in late
    /\ late' = late \ {w}
    /\ CASE w.op = "claim" /\ Claimable(w.fence) -> Claim(w.fence) /\ UNCHANGED writer
         [] w.op = "create" /\ ~doc.exists       -> Create(w.fence) /\ UNCHANGED writer
         [] w.op = "save" /\ Matches(w)          -> Write(w)
         [] OTHER                                -> UNCHANGED <<doc, writer>>
    /\ UNCHANGED <<etcd, view, lock, cache, row, ent, gate, made, acked, faults>>

-----------------------------------------------------------------------------
(* The gate's operation moves on, ends, or forgets the entity. *)

To(n, pc, h)  == gate' = [gate EXCEPT ![n] = [Idle EXCEPT !.pc = pc, !.handle = h]]
EndGate(n)    == gate' = [gate EXCEPT ![n] = Idle]
SendLock(n, for) ==
    gate' = [gate EXCEPT ![n] = [Idle EXCEPT !.pc = "lock", !.for = for, !.lease = view[n].lease]]
SendUnlock(n, for, h) ==
    gate' = [gate EXCEPT ![n] = [Idle EXCEPT !.pc = "unlock", !.for = for, !.handle = h]]
Forget(n)     == ent' = [ent EXCEPT ![n] = NoEnt]
NoRetry(n)    == UNCHANGED ent  \* mutant: the retry is not scheduled
ArmRetry(n)   == ent' = [ent EXCEPT ![n].armed = TRUE]
DropCache(n)  == cache' = [cache EXCEPT ![n] = NoCache]

(* dbmgr: take the row lock and send a request to MongoDB. *)
RowFree(n) == row[n] = FreeRow
FreeTheRow(n) == row' = [row EXCEPT ![n] = FreeRow]
SendClaim(n, h) == row' = [row EXCEPT ![n] = [FreeRow EXCEPT !.by = "gate", !.op = "claim", !.handle = h]]
SendSave(n, by, h) ==
    row' = [row EXCEPT ![n] = [FreeRow EXCEPT !.by = by, !.op = "save", !.handle = h,
                                              !.write = cache[n].dirty]]
Answered(n, pc) == gate[n].pc = pc /\ row[n].by = "gate" /\ row[n].reply # "none"

(* Mutant: the count of updated documents is not looked at. *)
SavedUnchecked(n) == row[n].reply # "failed" /\ Valid(n, row[n].handle)

(* save_doc after the answer: true only under a lease that is still valid.  *)
Saved(n) == row[n].reply = "ok" /\ Valid(n, row[n].handle)

(* Mutant: changes made during the save are taken for saved. *)
AckedAll(n) == [cache[n] EXCEPT !.version = @ + 1, !.base = @ \cup row[n].write, !.dirty = {}]

(* ack_mongo: clean, unless the document changed since the snapshot. *)
Acked(n) == [cache[n] EXCEPT !.version = @ + 1, !.base = @ \cup row[n].write,
                             !.dirty = IF @ = row[n].write THEN {} ELSE @]
Ack(n) == acked' = acked \cup row[n].write

-----------------------------------------------------------------------------
(* Serving a request: with_entity and _ensure_loaded *)

(* _ensure_loaded also quarantines an entity whose handle is not valid: by  *)
(* then the report of the loss has done so (UsableIsLocked).                *)
Serve(n) ==
    /\ gate[n].pc = "idle" /\ InMemory(n)
    /\ ~ent[n].invalid /\ ~ent[n].unloading /\ Valid(n, ent[n].handle)
    /\ To(n, "handler", ent[n].handle)
    /\ UNCHANGED <<etcd, mongo, view, lock, cache, row, ent, made, acked, faults>>

StartLoad(n) ==
    /\ gate[n].pc = "idle" /\ ~InMemory(n) /\ view[n].valid
    /\ IF Valid(n, lock[n]) THEN To(n, "load", lock[n]) ELSE SendLock(n, "load")
    /\ UNCHANGED <<etcd, mongo, view, lock, cache, row, ent, made, acked, faults>>

Same(n) == cache[n].handle = ent[n].handle

(* _recover_dirty gives up after MaxTries (discard), and tries again later  *)
(* before; the cache has left the save wheel by then (quarantine).          *)
RecoveryFailed(n, tries) ==
    /\ row[n].by # "sweep"
    /\ IF tries >= MaxTries
         THEN Forget(n) /\ IF Same(n) THEN DropCache(n) ELSE UNCHANGED cache
         ELSE /\ ent' = [ent EXCEPT ![n].armed = TRUE, ![n].tries = tries]
              /\ cache' = IF Same(n) THEN [cache EXCEPT ![n].wheel = FALSE] ELSE cache

(* The transaction succeeded or found the key under this lease, and the     *)
(* lease is still the one it was sent with.                                 *)
LockAccepted(n) == gate[n].reply = "ok" /\ view[n].valid /\ view[n].lease = gate[n].lease

(* try_lock after the transaction. *)
LockReturns(n) ==
    /\ gate[n].pc = "lock" /\ gate[n].reply # "none"
    /\ IF LockAccepted(n)
         THEN LET h == [id |-> FreshId(n), lease |-> gate[n].lease, fence |-> gate[n].fence] IN
              /\ lock' = [lock EXCEPT ![n] = h]
              /\ To(n, gate[n].for, h)
              /\ UNCHANGED <<cache, ent>>
         ELSE /\ IF gate[n].for = "recover" THEN RecoveryFailed(n, ent[n].tries)
                                            ELSE UNCHANGED <<cache, ent>>
              /\ EndGate(n)
              /\ UNCHANGED lock
    /\ UNCHANGED <<etcd, mongo, view, row, made, acked, faults>>

LoadFails(n) ==
    IF Valid(n, gate[n].handle) THEN SendUnlock(n, "load", gate[n].handle) ELSE EndGate(n)

Enter(n) ==
    /\ ent' = [ent EXCEPT ![n] = [NoEnt EXCEPT !.handle = gate[n].handle]]
    /\ To(n, "init", gate[n].handle)

(* dbmgr.load up to its first request. *)
LoadBegins(n) ==
    /\ gate[n].pc = "load" /\ RowFree(n)
    /\ IF ~Valid(n, gate[n].handle) \/ (cache[n].handle # gate[n].handle /\ Dirty(n))
         THEN LoadFails(n) /\ UNCHANGED <<cache, row, ent>>
       ELSE IF cache[n].handle = gate[n].handle
         THEN Enter(n) /\ UNCHANGED <<cache, row>>
         ELSE /\ DropCache(n)
              /\ SendClaim(n, gate[n].handle)
              /\ UNCHANGED <<ent, gate>>
    /\ UNCHANGED <<etcd, mongo, view, lock, made, acked, faults>>

LoadReturns(n) ==
    /\ Answered(n, "load")
    /\ IF row[n].reply = "ok" /\ Valid(n, gate[n].handle)
         THEN /\ cache' = [cache EXCEPT ![n] =
                     [handle |-> gate[n].handle, version |-> row[n].version,
                      base |-> row[n].content, dirty |-> {}, wheel |-> TRUE]]
              /\ Enter(n)
         ELSE LoadFails(n) /\ UNCHANGED <<cache, ent>>
    /\ FreeTheRow(n)
    /\ UNCHANGED <<etcd, mongo, view, lock, made, acked, faults>>

Mutate(n, m) ==
    /\ gate[n].pc \in {"init", "handler", "hooks"} /\ m \notin made
    /\ made' = made \cup {m}
    /\ cache' = [cache EXCEPT ![n].dirty = @ \cup {m}]
    /\ UNCHANGED <<etcd, mongo, view, lock, row, ent, gate, acked, faults>>

HandlerReturns(n) ==
    /\ gate[n].pc = "handler"
    /\ IF Valid(n, ent[n].handle) THEN UNCHANGED ent ELSE OnLockExpired(n, ent[n].handle)
    /\ EndGate(n)
    /\ UNCHANGED <<etcd, mongo, view, lock, cache, row, made, acked, faults>>

-----------------------------------------------------------------------------
(* dbmgr.save, called by a handler's caller, and by the save wheel *)

CanSave(n) == RowFree(n) /\ Cached(n) /\ Dirty(n) /\ Valid(n, cache[n].handle)

HandlerSaves(n) ==
    /\ gate[n].pc = "handler" /\ CanSave(n)
    /\ SendSave(n, "gate", cache[n].handle)
    /\ gate' = [gate EXCEPT ![n].pc = "save"]
    /\ UNCHANGED <<etcd, mongo, view, lock, cache, ent, made, acked, faults>>

SweepSaves(n) ==
    /\ cache[n].wheel /\ CanSave(n)
    /\ SendSave(n, "sweep", cache[n].handle)
    /\ UNCHANGED <<etcd, mongo, view, lock, cache, ent, gate, made, acked, faults>>

SaveReturns(n) ==
    /\ Answered(n, "save") \/ (row[n].by = "sweep" /\ row[n].reply # "none")
    /\ IF Saved(n) THEN Ack(n) /\ cache' = [cache EXCEPT ![n] = Acked(n)]
                   ELSE UNCHANGED <<cache, acked>>
    /\ FreeTheRow(n)
    /\ gate' = IF row[n].by = "gate" THEN [gate EXCEPT ![n].pc = "handler"] ELSE gate
    /\ UNCHANGED <<etcd, mongo, view, lock, ent, made, faults>>

-----------------------------------------------------------------------------
(* Leaving memory: _unload_entity, _release_lock, _recover_dirty *)

(* _release_lock: e is the entity, stored and out of dbmgr's cache. *)
Release(n, e) ==
    IF Valid(n, e.handle)
      THEN SendUnlock(n, "release", e.handle) /\ ent' = [ent EXCEPT ![n] = e]
      ELSE EndGate(n) /\ Forget(n)

(* The retry timer is cancelled; what happens next depends on how far an    *)
(* earlier attempt came.                                                    *)
UnloadEntity(n) ==
    LET e == [ent[n] EXCEPT !.unloading = TRUE, !.armed = FALSE] IN
    IF e.persisted THEN Release(n, e)
    ELSE IF e.invalid \/ ~Valid(n, e.handle)
      THEN /\ ent' = [ent EXCEPT ![n] = [e EXCEPT !.invalid = TRUE]]
           /\ To(n, "discard", e.handle)
      ELSE /\ ent' = [ent EXCEPT ![n] = e]
           /\ To(n, IF e.hooked THEN "flush" ELSE "hooks", e.handle)

(* The idle timer, a retry, a handoff, the fork of _on_lock_expired. *)
Unload(n) ==
    /\ gate[n].pc = "idle" /\ InMemory(n)
    /\ UnloadEntity(n)
    /\ UNCHANGED <<etcd, mongo, view, lock, cache, row, made, acked, faults>>

(* The rest of _ensure_loaded, after the on_load hooks. *)
InitReturns(n) ==
    /\ gate[n].pc = "init"
    /\ \/ Valid(n, ent[n].handle) /\ To(n, "handler", ent[n].handle) /\ UNCHANGED ent
       \/ UnloadEntity(n)
    /\ UNCHANGED <<etcd, mongo, view, lock, cache, row, made, acked, faults>>

HooksReturn(n) ==
    /\ gate[n].pc = "hooks"
    /\ \/ ent' = [ent EXCEPT ![n].hooked = TRUE] /\ To(n, "flush", ent[n].handle) /\ UNCHANGED faults
       \/ Fault /\ ArmRetry(n) /\ EndGate(n)
    /\ UNCHANGED <<etcd, mongo, view, lock, cache, row, made, acked>>

Persisted(n) == Release(n, [ent[n] EXCEPT !.persisted = TRUE])
Abort(n)     == ArmRetry(n) /\ EndGate(n)

(* dbmgr.unload *)
FlushBegins(n) ==
    /\ gate[n].pc = "flush" /\ RowFree(n)
    /\ IF ~Cached(n) \/ ~Valid(n, cache[n].handle) THEN Abort(n) /\ UNCHANGED <<cache, row>>
       ELSE IF Dirty(n)
         THEN SendSave(n, "gate", cache[n].handle) /\ UNCHANGED <<cache, ent, gate>>
         ELSE DropCache(n) /\ Persisted(n) /\ UNCHANGED row
    /\ UNCHANGED <<etcd, mongo, view, lock, made, acked, faults>>

FlushReturns(n) ==
    /\ Answered(n, "flush")
    /\ IF ~Saved(n) THEN Abort(n) /\ UNCHANGED <<cache, acked>>
       ELSE /\ Ack(n)
            /\ IF Acked(n).dirty = {} THEN DropCache(n) /\ Persisted(n)
                                      ELSE cache' = [cache EXCEPT ![n] = Acked(n)] /\ Abort(n)
    /\ FreeTheRow(n)
    /\ UNCHANGED <<etcd, mongo, view, lock, made, faults>>

(* The lease is lost: a clean cache is dropped, a dirty one leaves the save *)
(* wheel and waits for a new lock.                                          *)
Discard(n) ==
    /\ gate[n].pc = "discard" /\ RowFree(n)
    /\ IF Same(n) /\ ~Dirty(n) THEN DropCache(n) /\ Forget(n) /\ EndGate(n)
       ELSE LET tries == ent[n].tries + 1 IN
            IF view[n].valid
              THEN /\ cache' = IF Same(n) THEN [cache EXCEPT ![n].wheel = FALSE] ELSE cache
                   /\ ent' = [ent EXCEPT ![n].tries = tries]
                   /\ IF Valid(n, lock[n]) THEN To(n, "recover", lock[n]) ELSE SendLock(n, "recover")
              ELSE RecoveryFailed(n, tries) /\ EndGate(n)
    /\ UNCHANGED <<etcd, mongo, view, lock, row, made, acked, faults>>

(* _recover_dirty after dbmgr.recover returned false: give the new lock     *)
(* back if it is still ours, then drop the entity or try again.             *)
RecoverFails(n) ==
    IF Valid(n, gate[n].handle)
      THEN SendUnlock(n, "recover", gate[n].handle) /\ UNCHANGED <<cache, ent>>
      ELSE RecoveryFailed(n, ent[n].tries) /\ EndGate(n)

Superseded(n) ==
    IF Valid(n, gate[n].handle)
      THEN SendUnlock(n, "superseded", gate[n].handle) /\ UNCHANGED ent
      ELSE Forget(n) /\ EndGate(n)

Recovered(n) ==
    /\ DropCache(n)
    /\ Release(n, [ent[n] EXCEPT !.handle = gate[n].handle, !.invalid = FALSE, !.persisted = TRUE])

(* dbmgr.recover up to its first request. *)
RecoverBegins(n) ==
    /\ gate[n].pc = "recover" /\ RowFree(n)
    /\ IF cache[n].handle # ent[n].handle THEN Superseded(n) /\ UNCHANGED <<cache, row>>
       ELSE IF ~Dirty(n) THEN Recovered(n) /\ UNCHANGED row
       ELSE IF ~Valid(n, gate[n].handle) THEN RecoverFails(n) /\ UNCHANGED row
       ELSE SendClaim(n, gate[n].handle) /\ UNCHANGED <<cache, ent, gate>>
    /\ UNCHANGED <<etcd, mongo, view, lock, made, acked, faults>>

(* Claimed: only an unchanged version lets the changes be written. *)
RecoverClaimed(n) ==
    /\ Answered(n, "recover") /\ row[n].op # "save"
    /\ IF row[n].reply # "ok" THEN FreeTheRow(n) /\ RecoverFails(n)
       ELSE IF row[n].version # cache[n].version THEN FreeTheRow(n) /\ DropCache(n) /\ Superseded(n)
       ELSE IF ~Valid(n, gate[n].handle) THEN FreeTheRow(n) /\ RecoverFails(n)
       ELSE SendSave(n, "gate", gate[n].handle) /\ UNCHANGED <<cache, ent, gate>>
    /\ UNCHANGED <<etcd, mongo, view, lock, made, acked, faults>>

RecoverSaved(n) ==
    /\ Answered(n, "recover") /\ row[n].op = "save"
    /\ IF Saved(n) THEN Ack(n) /\ Recovered(n) ELSE RecoverFails(n) /\ UNCHANGED acked
    /\ FreeTheRow(n)
    /\ UNCHANGED <<etcd, mongo, view, lock, made, faults>>

(* unlock after the transaction, and what its callers do next. *)
UnlockReturns(n) ==
    /\ gate[n].pc = "unlock" /\ gate[n].reply # "none"
    /\ LET h        == gate[n].handle
           released == gate[n].reply = "ok" /\ Valid(n, h)
           notified == gate[n].reply # "ok" /\ lock[n] = h
       IN /\ lock' = IF released \/ notified THEN [lock EXCEPT ![n] = NoHandle] ELSE lock
          /\ CASE gate[n].for = "load" -> UNCHANGED <<cache, ent>>
               [] gate[n].for = "superseded" -> Forget(n) /\ UNCHANGED cache
               [] gate[n].for = "recover" -> RecoveryFailed(n, ent[n].tries)
               [] gate[n].for = "release" ->
                    /\ IF released THEN Forget(n)
                       ELSE ent' = [ent EXCEPT ![n].armed = TRUE, ![n].invalid = @ \/ notified]
                    /\ UNCHANGED cache
    /\ EndGate(n)
    /\ UNCHANGED <<etcd, mongo, view, row, made, acked, faults>>

(* The process dies: etcd and MongoDB, and what it has sent them, remain.   *)
Crash(n) ==
    /\ Fault /\ granted < MaxLease
    /\ view[n].lease # 0
    /\ view' = [view EXCEPT ![n] = [lease |-> 0, valid |-> FALSE]]
    /\ lock' = [lock EXCEPT ![n] = NoHandle]
    /\ DropCache(n) /\ FreeTheRow(n) /\ Forget(n) /\ EndGate(n)
    /\ UNCHANGED late \/ LeavesLate(n)
    /\ UNCHANGED stray \/ LeavesStray(n)
    /\ UNCHANGED <<alive, granted, key, rev, revoked, doc, writer, made, acked>>

-----------------------------------------------------------------------------
Init ==
    /\ alive = {} /\ granted = 0 /\ key = NoKey /\ rev = 0 /\ stray = {} /\ revoked = {}
    /\ \E e \in BOOLEAN : doc = [exists |-> e, version |-> 0, fence |-> 0, content |-> {}]
    /\ late = {} /\ writer = {}
    /\ view  = [n \in Nodes |-> [lease |-> 0, valid |-> FALSE]]
    /\ lock  = [n \in Nodes |-> NoHandle]
    /\ cache = [n \in Nodes |-> NoCache]
    /\ row   = [n \in Nodes |-> FreeRow]
    /\ ent   = [n \in Nodes |-> NoEnt]
    /\ gate  = [n \in Nodes |-> Idle]
    /\ made = {} /\ acked = {} /\ faults = 0

(* What a node does next with a request, or with the answer to one. *)
Lease(n)   == LoseLease(n) \/ Resurrect(n) \/ NewLease(n)
Answers(n) == EtcdLock(n) \/ EtcdUnlock(n) \/ MongoClaim(n) \/ MongoResolve(n) \/ MongoSave(n)
Fails(n)   == EtcdFails(n) \/ EtcdRetries(n) \/ MongoFails(n) \/ Crash(n)
Loads(n)   == LockReturns(n) \/ LoadBegins(n) \/ LoadReturns(n) \/ InitReturns(n)
Serves(n)  == HandlerReturns(n) \/ SaveReturns(n)
Leaves(n)  == \/ HooksReturn(n) \/ FlushBegins(n) \/ FlushReturns(n) \/ Discard(n)
              \/ RecoverBegins(n) \/ RecoverClaimed(n) \/ RecoverSaved(n) \/ UnlockReturns(n)
Starts(n)  == Serve(n) \/ StartLoad(n) \/ HandlerSaves(n) \/ SweepSaves(n) \/ Unload(n)

Next ==
    \/ \E n \in Nodes : Lease(n) \/ Answers(n) \/ Fails(n) \/ Loads(n) \/ Serves(n) \/ Leaves(n) \/ Starts(n)
    \/ \E n \in Nodes, m \in Mutations : Mutate(n, m)
    \/ \E l \in Leases : ExpireLease(l)
    \/ \E q \in stray : EtcdStray(q)
    \/ \E w \in late : LateWrite(w)

Spec == Init /\ [][Next]_vars

(* Every request is answered or fails, coroutines that can run do run, and  *)
(* the timers and forks that will call unload get to it.  Nothing is assumed *)
(* of leases, of callers, or of the save wheel.                              *)
Progress(n) == Answers(n) \/ Loads(n) \/ Serves(n) \/ Leaves(n)
Retries(n)  == ent[n].armed /\ Unload(n)

FairSpec == Spec /\ \A n \in Nodes : WF_vars(Progress(n)) /\ WF_vars(Retries(n))

-----------------------------------------------------------------------------
TypeOK ==
    /\ alive \subseteq Leases /\ granted \in 0 .. MaxLease
    /\ key \in Key /\ rev \in 0 .. MaxRev /\ stray \subseteq Stray /\ revoked \subseteq Revs
    /\ doc \in Doc /\ late \subseteq Writes /\ writer \subseteq Nodes
    /\ view  \in [Nodes -> [lease : 0 .. MaxLease, valid : BOOLEAN]]
    /\ lock  \in [Nodes -> Handle0]
    /\ cache \in [Nodes -> Cache]
    /\ row   \in [Nodes -> Row]
    /\ ent   \in [Nodes -> Ent]
    /\ gate  \in [Nodes -> Gate]
    /\ made \subseteq Mutations /\ acked \subseteq Mutations
    /\ faults \in 0 .. MaxFaults

(* No write to MongoDB, however late and from whichever owner, undoes a     *)
(* change that the document already has: save_doc replaces the fields, and  *)
(* only the version and the fence in its filter protect them.               *)
NoLostUpdate == [][doc.content \subseteq doc'.content]_vars

(* The document as FencedDoc describes it, whatever the nodes do. *)
Document == INSTANCE FencedDoc WITH Fences <- Revs
ImplementsFencedDoc == Document!Spec

(* What a save has reported stored is in the document for good, and so is    *)
(* nowhere but in a document that exists: ack_mongo forgets the change.     *)
AckedDurable == acked \subseteq doc.content

Owns(n) == Cached(n) /\ Valid(n, cache[n].handle)

(* A late unlock has deleted the key under the handle that the node caches:  *)
(* an unlock that failed is executed after the node, under the same lease,   *)
(* has taken the key for its own again (try_lock's branch for a key that     *)
(* exists), and leaves it with a valid handle and no key.                    *)
Ousted(n) == cache[n].handle.fence \in revoked

(* The same entity is never on two nodes at once (docs/overview.md:133),     *)
(* unless a late unlock has taken the key of one of them, which the code     *)
(* does not exclude.  Otherwise is_valid on one excludes it on another, with *)
(* requests that etcd executes late or twice, from the read of the document  *)
(* until the cache is dropped, before the key is given back (header of       *)
(* distributed_lock).                                                        *)
OneOwner == \A n, m \in Nodes : Owns(n) /\ Owns(m) => n = m \/ Ousted(n) \/ Ousted(m)

(* Nobody else writes the document while a valid handle caches it, unless a  *)
(* late unlock has taken its key: the claim of the fence and the read of the *)
(* document are one findAndModify, so the owner's version is behind only     *)
(* after a write of its own whose answer it did not get (comment above       *)
(* claim_with_fence).                                                        *)
NotOvertaken ==
    \A n \in Nodes :
        Owns(n) /\ doc.version # cache[n].version => writer = {n} \/ Ousted(n)

(* A change that the document lacks leaves a node's memory only when the     *)
(* process dies, or after its lease was lost: when the attempts are used up, *)
(* or when the claim found another version (unload, discard_clean, recover). *)
DroppedByPolicy(n) ==
    /\ ~Valid(n, cache[n].handle)
    /\ \/ ent[n].tries >= MaxTries \/ ent[n].tries + 1 = MaxTries
       \/ row[n].op \in {"claim", "resolve"} /\ row[n].version # cache[n].version
ChangesKept ==
    [][\A n \in Nodes : cache[n].dirty \subseteq cache'[n].dirty \cup doc'.content
          \/ DroppedByPolicy(n) \/ (view[n].lease # 0 /\ view'[n].lease = 0)]_vars

(* An entity that would still serve has its lock: whatever invalidates the   *)
(* handle, before or while the entity is loaded, keeps it from being entered *)
(* or quarantines it (_ensure_loaded, _on_lock_expired).                     *)
UsableIsLocked ==
    \A n \in Nodes : InMemory(n) /\ ~ent[n].invalid /\ ~ent[n].unloading => Valid(n, ent[n].handle)

(* An entity that no longer serves and that nothing works on has something   *)
(* that will call unload again: a retry timer or the fork of the expiry      *)
(* callback (comment above _schedule_unload_retry).                          *)
NeverStranded ==
    \A n \in Nodes : InMemory(n) /\ (ent[n].invalid \/ ent[n].unloading) /\ gate[n].pc = "idle"
        => ent[n].armed

(* Whichever way recovery goes, a quarantined entity leaves memory (comment  *)
(* above _recover_dirty).                                                    *)
QuarantineEnds == \A n \in Nodes : ent[n].invalid ~> ~InMemory(n)

(* An unload that has begun is finished by its retries (comment above        *)
(* _schedule_unload_retry).                                                  *)
UnloadEnds == \A n \in Nodes : ent[n].unloading ~> ~InMemory(n)
=============================================================================
