------------------------- MODULE EntityStoreProofs -------------------------
(***************************************************************************)
(* Proofs about EntityStore for any nodes, mutations and bounds: with stray *)
(* requests to etcd, with late writes to MongoDB, with crashes. First the   *)
(* document, then the entity in memory and its lock.                        *)
(***************************************************************************)
EXTENDS EntityStore, TLAPS

(* A request to MongoDB carries a fence, and a granted lock a lease and one. *)
RowOK(n) ==
    /\ row[n].op # "none" => row[n].handle # NoHandle
    /\ row[n].op = "claim" => row[n].tries < ClaimAttempts
GateOK(n) ==
    gate[n].pc = "lock" =>
        /\ gate[n].for \in {"load", "recover"}
        /\ gate[n].reply = "ok" => gate[n].lease \in Leases /\ gate[n].fence \in Revs

TypeInv == TypeOK /\ \A n \in Nodes : RowOK(n) /\ GateOK(n)

USE StoreAssumption

-----------------------------------------------------------------------------
(* Records that the actions build. *)

LEMMA Nulls ==
    /\ NoHandle \in Handle0 /\ NoCache \in Cache /\ FreeRow \in Row /\ NoEnt \in Ent
    /\ Idle \in Gate /\ NoKey \in Key
BY DEF Handle0, NoHandle, NoCache, Cache, FreeRow, Row, NoEnt, Ent, Idle, Gate, NoKey, Key,
       Contents

LEMMA EntFlags ==
    ASSUME NEW e \in Ent
    PROVE  /\ [e EXCEPT !.armed = TRUE] \in Ent
           /\ [e EXCEPT !.invalid = TRUE] \in Ent
           /\ [e EXCEPT !.hooked = TRUE] \in Ent
           /\ [e EXCEPT !.persisted = TRUE] \in Ent
           /\ [e EXCEPT !.unloading = TRUE, !.armed = FALSE] \in Ent
           /\ [e EXCEPT !.invalid = TRUE, !.armed = TRUE] \in Ent
           /\ e.handle \in Handle0 /\ e.tries \in Nat
BY DEF Ent

LEMMA EntChanges ==
    ASSUME NEW e \in Ent, NEW h \in Handle0, NEW k \in Nat, NEW b \in BOOLEAN
    PROVE  /\ [e EXCEPT !.handle = h, !.invalid = FALSE, !.persisted = TRUE] \in Ent
           /\ [e EXCEPT !.handle = h] \in Ent
           /\ [e EXCEPT !.tries = k] \in Ent
           /\ [e EXCEPT !.armed = TRUE, !.tries = k] \in Ent
           /\ [e EXCEPT !.armed = TRUE, !.invalid = b] \in Ent
BY DEF Ent

Pcs  == {"idle", "lock", "load", "init", "handler", "save", "discard", "hooks", "flush", "recover",
         "unlock"}
Fors == {"load", "recover", "release", "superseded"}

LEMMA GateChanges ==
    ASSUME NEW h \in Handle0, NEW l \in 0 .. MaxLease, NEW for \in Fors, NEW pc \in Pcs
    PROVE  /\ [Idle EXCEPT !.pc = pc, !.handle = h] \in Gate
           /\ [Idle EXCEPT !.pc = "lock", !.for = for, !.lease = l] \in Gate
           /\ [Idle EXCEPT !.pc = "unlock", !.for = for, !.handle = h] \in Gate
<1>1. NoHandle \in Handle0
  BY Nulls
<1>2. 0 \in 0 .. MaxLease /\ 0 \in 0 .. MaxRev
  OBVIOUS
<1> QED  BY <1>1, <1>2 DEF Gate, Idle, Pcs, Fors

LEMMA GateReplies ==
    ASSUME NEW g \in Gate, NEW f \in 0 .. MaxRev, NEW r \in {"ok", "no", "failed"}
    PROVE  /\ [g EXCEPT !.reply = r] \in Gate
           /\ [g EXCEPT !.reply = r, !.fence = f] \in Gate
           /\ [g EXCEPT !.pc = "save"] \in Gate /\ [g EXCEPT !.pc = "handler"] \in Gate
           /\ g.handle \in Handle0 /\ g.lease \in 0 .. MaxLease /\ g.fence \in 0 .. MaxRev
           /\ g.for \in Fors /\ g.pc \in Pcs
BY DEF Gate, Fors, Pcs

LEMMA NewRequests ==
    ASSUME NEW h \in Handle0, NEW w \in Contents, NEW by \in {"gate", "sweep"}
    PROVE  /\ [FreeRow EXCEPT !.by = by, !.op = "save", !.handle = h, !.write = w] \in Row
           /\ [FreeRow EXCEPT !.by = "gate", !.op = "claim", !.handle = h] \in Row
<1>1. NoHandle \in Handle0 /\ {} \in Contents
  BY Nulls DEF Contents
<1>2. 0 \in 0 .. ClaimAttempts /\ 0 \in Nat
  OBVIOUS
<1> QED  BY <1>1, <1>2 DEF Row, FreeRow

Replies == {"ok", "no", "missing", "failed"}

LEMMA RowChanges ==
    ASSUME NEW r \in Row, NEW st \in Replies, NEW v \in Nat, NEW c \in Contents
    PROVE  /\ [r EXCEPT !.reply = st, !.version = v, !.content = c] \in Row
           /\ [r EXCEPT !.reply = st] \in Row
           /\ r.tries < ClaimAttempts => [r EXCEPT !.op = "resolve", !.tries = @ + 1] \in Row
           /\ [r EXCEPT !.op = "claim"] \in Row
           /\ r.handle \in Handle0 /\ r.write \in Contents /\ r.version \in Nat
           /\ r.content \in Contents /\ r.tries \in 0 .. ClaimAttempts
<1>1. r.handle \in Handle0 /\ r.write \in Contents /\ r.version \in Nat
      /\ r.content \in Contents /\ r.tries \in 0 .. ClaimAttempts
  BY DEF Row
<1>2. [r EXCEPT !.reply = st, !.version = v, !.content = c] \in Row
  BY DEF Row, Replies
<1>3. [r EXCEPT !.reply = st] \in Row /\ [r EXCEPT !.op = "claim"] \in Row
  BY DEF Row, Replies
<1>4. ASSUME r.tries < ClaimAttempts
      PROVE  [r EXCEPT !.op = "resolve", !.tries = @ + 1] \in Row
  <2>1. r.tries + 1 \in 0 .. ClaimAttempts
    BY <1>1, <1>4
  <2> QED  BY <2>1 DEF Row
<1> QED  BY <1>1, <1>2, <1>3, <1>4

LEMMA CacheChanges ==
    ASSUME NEW c \in Cache, NEW h \in Handle0, NEW v \in Nat, NEW x \in Contents,
           NEW d \in Contents
    PROVE  /\ [c EXCEPT !.wheel = FALSE] \in Cache
           /\ [c EXCEPT !.dirty = @ \cup d] \in Cache
           /\ [handle |-> h, version |-> v, base |-> x, dirty |-> {}, wheel |-> TRUE] \in Cache
           /\ [c EXCEPT !.version = @ + 1, !.base = @ \cup x,
                        !.dirty = IF @ = x THEN {} ELSE @] \in Cache
           /\ c.handle \in Handle0 /\ c.version \in Nat /\ c.base \in Contents /\ c.dirty \in Contents
<1>1. c.handle \in Handle0 /\ c.version \in Nat /\ c.base \in Contents /\ c.dirty \in Contents
  BY DEF Cache
<1>2. {} \in Contents /\ c.base \cup x \in Contents /\ c.dirty \cup d \in Contents
  BY <1>1 DEF Contents
<1>3. c.version + 1 \in Nat /\ (IF c.dirty = x THEN {} ELSE c.dirty) \in Contents
  BY <1>1, <1>2
<1>4. [c EXCEPT !.wheel = FALSE] \in Cache
  BY DEF Cache
<1>5. [c EXCEPT !.dirty = @ \cup d] \in Cache
  BY <1>2 DEF Cache
<1>6. [handle |-> h, version |-> v, base |-> x, dirty |-> {}, wheel |-> TRUE] \in Cache
  BY <1>2 DEF Cache
<1>7. [c EXCEPT !.version = @ + 1, !.base = @ \cup x, !.dirty = IF @ = x THEN {} ELSE @] \in Cache
  BY <1>2, <1>3 DEF Cache
<1> QED  BY <1>1, <1>4, <1>5, <1>6, <1>7

LEMMA HandleParts ==
    ASSUME NEW h \in Handle0
    PROVE  /\ h # NoHandle => h.lease \in Leases /\ h.fence \in Revs
           /\ h.fence \in 0 .. MaxRev /\ h.fence \in Nat /\ h.lease \in 0 .. MaxLease
           /\ h.id \in 0 .. 4
BY DEF Handle0, Handle, NoHandle, Leases, Revs

-----------------------------------------------------------------------------
(* The steps that actions are built from keep the types. *)

EntTyped   == ent \in [Nodes -> Ent]
CacheTyped == cache \in [Nodes -> Cache]

(* The gate of n moves on, with no answer yet to a request. *)
GateMoves(n) ==
    /\ gate' \in [Nodes -> Gate]
    /\ \A m \in Nodes : m # n => gate'[m] = gate[m]
    /\ gate'[n].pc = "lock" => gate'[n].reply = "none" /\ gate'[n].for \in {"load", "recover"}

(* The row of n is freed, or a request is sent that carries a fence. *)
RowMoves(n) ==
    /\ row' \in [Nodes -> Row]
    /\ \A m \in Nodes : m # n => row'[m] = row[m]
    /\ RowOK(n)'

LEMMA VarTypes ==
    ASSUME TypeOK
    PROVE  /\ EntTyped /\ CacheTyped
           /\ gate \in [Nodes -> Gate] /\ row \in [Nodes -> Row] /\ lock \in [Nodes -> Handle0]
           /\ view \in [Nodes -> [lease : 0 .. MaxLease, valid : BOOLEAN]]
BY DEF TypeOK, EntTyped, CacheTyped

LEMMA GateSteps ==
    ASSUME TypeOK, NEW n \in Nodes, NEW h \in Handle0, NEW pc \in Pcs, NEW for \in Fors
    PROVE  /\ pc # "lock" /\ To(n, pc, h) => GateMoves(n)
           /\ EndGate(n) => GateMoves(n)
           /\ for \in {"load", "recover"} /\ SendLock(n, for) => GateMoves(n)
           /\ SendUnlock(n, for, h) => GateMoves(n)
<1>1. gate \in [Nodes -> Gate] /\ view[n].lease \in 0 .. MaxLease
  BY DEF TypeOK
<1>2. /\ [Idle EXCEPT !.pc = pc, !.handle = h] \in Gate
      /\ [Idle EXCEPT !.pc = "lock", !.for = for, !.lease = view[n].lease] \in Gate
      /\ [Idle EXCEPT !.pc = "unlock", !.for = for, !.handle = h] \in Gate
      /\ Idle \in Gate
  BY <1>1, GateChanges, Nulls
<1>3. /\ pc # "lock" => [Idle EXCEPT !.pc = pc, !.handle = h].pc # "lock"
      /\ [Idle EXCEPT !.pc = "lock", !.for = for, !.lease = view[n].lease].reply = "none"
      /\ [Idle EXCEPT !.pc = "lock", !.for = for, !.lease = view[n].lease].for = for
      /\ [Idle EXCEPT !.pc = "unlock", !.for = for, !.handle = h].pc = "unlock"
      /\ Idle.pc = "idle"
  BY DEF Idle
<1>4. ASSUME NEW g \in Gate, gate' = [gate EXCEPT ![n] = g],
             g.pc = "lock" => g.reply = "none" /\ g.for \in {"load", "recover"}
      PROVE  GateMoves(n)
  BY <1>1, <1>4 DEF GateMoves
<1>5. pc # "lock" /\ To(n, pc, h) => GateMoves(n)
  BY <1>2, <1>3, <1>4 DEF To
<1>6. EndGate(n) => GateMoves(n)
  BY <1>2, <1>3, <1>4 DEF EndGate
<1>7. for \in {"load", "recover"} /\ SendLock(n, for) => GateMoves(n)
  BY <1>2, <1>3, <1>4 DEF SendLock
<1>8. SendUnlock(n, for, h) => GateMoves(n)
  BY <1>2, <1>3, <1>4 DEF SendUnlock
<1> QED  BY <1>5, <1>6, <1>7, <1>8

LEMMA RowSteps ==
    ASSUME TypeOK, NEW n \in Nodes, NEW h \in Handle0, NEW by \in {"gate", "sweep"}
    PROVE  /\ FreeTheRow(n) => RowMoves(n)
           /\ h # NoHandle /\ SendClaim(n, h) => RowMoves(n)
           /\ h # NoHandle /\ SendSave(n, by, h) => RowMoves(n)
<1>1. row \in [Nodes -> Row] /\ cache[n] \in Cache
  BY DEF TypeOK
<1>2. cache[n].dirty \in Contents
  BY <1>1 DEF Cache
<1>3. /\ FreeRow \in Row
      /\ [FreeRow EXCEPT !.by = "gate", !.op = "claim", !.handle = h] \in Row
      /\ [FreeRow EXCEPT !.by = by, !.op = "save", !.handle = h, !.write = cache[n].dirty] \in Row
  BY <1>2, NewRequests, Nulls
<1>4. ASSUME NEW r \in Row, row' = [row EXCEPT ![n] = r],
             r.op # "none" => r.handle # NoHandle, r.op = "claim" => r.tries < ClaimAttempts
      PROVE  RowMoves(n)
  BY <1>1, <1>4 DEF RowMoves, RowOK
<1>5. FreeRow.op = "none"
  BY DEF FreeRow
<1>6. /\ [FreeRow EXCEPT !.by = "gate", !.op = "claim", !.handle = h].handle = h
      /\ [FreeRow EXCEPT !.by = "gate", !.op = "claim", !.handle = h].tries = 0
      /\ [FreeRow EXCEPT !.by = by, !.op = "save", !.handle = h, !.write = cache[n].dirty].handle = h
      /\ [FreeRow EXCEPT !.by = by, !.op = "save", !.handle = h, !.write = cache[n].dirty].op = "save"
  BY DEF FreeRow
<1>7. 0 < ClaimAttempts
  OBVIOUS
<1>8. FreeTheRow(n) => RowMoves(n)
  BY <1>3, <1>4, <1>5 DEF FreeTheRow
<1>9. h # NoHandle /\ SendClaim(n, h) => RowMoves(n)
  BY <1>3, <1>4, <1>6, <1>7 DEF SendClaim
<1>10. h # NoHandle /\ SendSave(n, by, h) => RowMoves(n)
  BY <1>3, <1>4, <1>6 DEF SendSave
<1> QED  BY <1>8, <1>9, <1>10

LEMMA EntSteps ==
    ASSUME TypeOK, NEW n \in Nodes, NEW h
    PROVE  /\ OnLockExpired(n, h) => EntTyped'
           /\ Forget(n) => EntTyped'
           /\ ArmRetry(n) => EntTyped'
           /\ UNCHANGED ent => EntTyped'
           /\ DropCache(n) => CacheTyped'
           /\ UNCHANGED cache => CacheTyped'
           /\ \A e \in Ent : ent' = [ent EXCEPT ![n] = e] => EntTyped'
           /\ \A c \in Cache : cache' = [cache EXCEPT ![n] = c] => CacheTyped'
<1>1. ent \in [Nodes -> Ent] /\ cache \in [Nodes -> Cache] /\ ent[n] \in Ent
  BY DEF TypeOK
<1>2. \A e \in Ent : ent' = [ent EXCEPT ![n] = e] => EntTyped'
  BY <1>1 DEF EntTyped
<1>3. \A c \in Cache : cache' = [cache EXCEPT ![n] = c] => CacheTyped'
  BY <1>1 DEF CacheTyped
<1>4. [ent[n] EXCEPT !.armed = TRUE] \in Ent /\ [ent[n] EXCEPT !.invalid = TRUE, !.armed = TRUE] \in Ent
  BY <1>1, EntFlags
<1>5. UNCHANGED ent => EntTyped'
  BY <1>1 DEF EntTyped
<1>6. OnLockExpired(n, h) => EntTyped'
  <2>1. CASE InMemory(n) /\ ent[n].handle = h /\ ~ent[n].invalid
    <3>1. OnLockExpired(n, h) => ent' = [ent EXCEPT ![n] = [ent[n] EXCEPT !.invalid = TRUE, !.armed = TRUE]]
      BY <1>1, <2>1 DEF OnLockExpired, EntTyped
    <3> QED  BY <3>1, <1>2, <1>4
  <2>2. CASE ~(InMemory(n) /\ ent[n].handle = h /\ ~ent[n].invalid)
    BY <2>2, <1>5 DEF OnLockExpired
  <2> QED  BY <2>1, <2>2
<1>7. Forget(n) => EntTyped'
  BY <1>2, Nulls DEF Forget
<1>8. ArmRetry(n) => EntTyped'
  BY <1>2, <1>4 DEF ArmRetry
<1>9. DropCache(n) => CacheTyped'
  BY <1>3, Nulls DEF DropCache
<1>10. UNCHANGED cache => CacheTyped'
  BY <1>1 DEF CacheTyped
<1> QED  BY <1>2, <1>3, <1>5, <1>6, <1>7, <1>8, <1>9, <1>10

LEMMA Members ==
    ASSUME TypeInv, NEW n \in Nodes
    PROVE  /\ ent[n] \in Ent /\ gate[n] \in Gate /\ row[n] \in Row /\ cache[n] \in Cache
           /\ lock[n] \in Handle0 /\ ent[n].handle \in Handle0 /\ gate[n].handle \in Handle0
           /\ cache[n].handle \in Handle0 /\ row[n].handle \in Handle0
           /\ ent[n].tries \in Nat /\ gate[n].for \in Fors /\ view[n].lease \in 0 .. MaxLease
           /\ view[n].valid \in BOOLEAN
           /\ TypeOK /\ EntTyped /\ CacheTyped /\ RowOK(n) /\ GateOK(n)
<1>1. TypeOK /\ EntTyped /\ CacheTyped /\ RowOK(n) /\ GateOK(n)
  BY VarTypes DEF TypeInv
<1>2. /\ ent[n] \in Ent /\ gate[n] \in Gate /\ row[n] \in Row /\ cache[n] \in Cache
      /\ lock[n] \in Handle0
      /\ view[n].lease \in 0 .. MaxLease /\ view[n].valid \in BOOLEAN
  BY <1>1, VarTypes DEF EntTyped, CacheTyped
<1>3. ent[n].handle \in Handle0 /\ ent[n].tries \in Nat
  BY <1>2, EntFlags
<1>4. gate[n].handle \in Handle0 /\ gate[n].for \in Fors
  BY <1>2 DEF Gate, Fors
<1>5. cache[n].handle \in Handle0
  BY <1>2 DEF Cache
<1>6. row[n].handle \in Handle0
  BY <1>2 DEF Row
<1> QED  BY <1>1, <1>2, <1>3, <1>4, <1>5, <1>6

LEMMA ReleaseTypes ==
    ASSUME TypeInv, NEW n \in Nodes, NEW e \in Ent, Release(n, e)
    PROVE  EntTyped' /\ GateMoves(n)
<1>1. TypeOK /\ e.handle \in Handle0 /\ "release" \in Fors /\ "idle" \in Pcs
  BY Members, EntFlags DEF Fors, Pcs
<1>2. CASE Valid(n, e.handle)
  <2>1. SendUnlock(n, "release", e.handle) /\ ent' = [ent EXCEPT ![n] = e]
    BY <1>2 DEF Release
  <2> QED  BY <1>1, <2>1, GateSteps, EntSteps
<1>3. CASE ~Valid(n, e.handle)
  <2>1. EndGate(n) /\ Forget(n)
    BY <1>3 DEF Release
  <2> QED  BY <1>1, <2>1, GateSteps, EntSteps
<1> QED  BY <1>2, <1>3

LEMMA UnloadTypes ==
    ASSUME TypeInv, NEW n \in Nodes, UnloadEntity(n)
    PROVE  EntTyped' /\ GateMoves(n)
<1> DEFINE e == [ent[n] EXCEPT !.unloading = TRUE, !.armed = FALSE]
<1>1. e \in Ent /\ TypeOK /\ "release" \in Fors
  BY Members, EntFlags DEF Fors
<1>2. e.handle \in Handle0 /\ [e EXCEPT !.invalid = TRUE] \in Ent
  BY <1>1, EntFlags
<1> HIDE DEF e
<1>3. CASE e.persisted
  BY <1>1, <1>3, ReleaseTypes DEF UnloadEntity, e
<1>4. CASE ~e.persisted /\ (e.invalid \/ ~Valid(n, e.handle))
  <2>1. ent' = [ent EXCEPT ![n] = [e EXCEPT !.invalid = TRUE]] /\ To(n, "discard", e.handle)
    BY <1>4 DEF UnloadEntity, e
  <2>2. "discard" \in Pcs
    BY DEF Pcs
  <2> QED  BY <1>1, <1>2, <2>1, <2>2, GateSteps, EntSteps
<1>5. CASE ~e.persisted /\ ~(e.invalid \/ ~Valid(n, e.handle))
  <2>1. ent' = [ent EXCEPT ![n] = e] /\ To(n, IF e.hooked THEN "flush" ELSE "hooks", e.handle)
    BY <1>5 DEF UnloadEntity, e
  <2>2. (IF e.hooked THEN "flush" ELSE "hooks") \in Pcs
    BY DEF Pcs
  <2> QED  BY <1>1, <1>2, <2>1, <2>2, GateSteps, EntSteps
<1> QED  BY <1>3, <1>4, <1>5

LEMMA RecoveryFailedTypes ==
    ASSUME TypeInv, NEW n \in Nodes, NEW k \in Nat, RecoveryFailed(n, k)
    PROVE  EntTyped' /\ CacheTyped'
<1>1. TypeOK /\ ent[n] \in Ent /\ cache[n] \in Cache /\ {} \in Contents /\ NoHandle \in Handle0
  BY Members, Nulls DEF Contents
<1>2. [ent[n] EXCEPT !.armed = TRUE, !.tries = k] \in Ent
  BY <1>1, EntChanges
<1>3. [cache[n] EXCEPT !.wheel = FALSE] \in Cache
  BY <1>1, CacheChanges
<1>4. CASE k >= MaxTries
  <2>1. Forget(n) /\ (DropCache(n) \/ UNCHANGED cache)
    BY <1>4 DEF RecoveryFailed
  <2> QED  BY <1>1, <2>1, EntSteps
<1>5. CASE ~(k >= MaxTries)
  <2>1. ent' = [ent EXCEPT ![n].armed = TRUE, ![n].tries = k]
        /\ (cache' = [cache EXCEPT ![n].wheel = FALSE] \/ UNCHANGED cache)
    BY <1>5 DEF RecoveryFailed
  <2>2. ent' = [ent EXCEPT ![n] = [ent[n] EXCEPT !.armed = TRUE, !.tries = k]]
    BY <1>1, <2>1, VarTypes DEF EntTyped
  <2>3. EntTyped'
    BY <1>1, <1>2, <2>2, EntSteps
  <2>4. CacheTyped'
    BY <1>1, <1>3, <2>1, EntSteps
  <2> QED  BY <2>3, <2>4
<1> QED  BY <1>4, <1>5

LEMMA RecoverTypes ==
    ASSUME TypeInv, NEW n \in Nodes
    PROVE  /\ RecoverFails(n) => EntTyped' /\ CacheTyped' /\ GateMoves(n)
           /\ Superseded(n) => EntTyped' /\ GateMoves(n)
           /\ Recovered(n) => EntTyped' /\ CacheTyped' /\ GateMoves(n)
           /\ Abort(n) => EntTyped' /\ GateMoves(n)
           /\ Persisted(n) => EntTyped' /\ GateMoves(n)
           /\ LoadFails(n) => GateMoves(n)
           /\ Enter(n) => EntTyped' /\ GateMoves(n)
<1>1. /\ TypeOK /\ gate[n].handle \in Handle0 /\ ent[n] \in Ent /\ ent[n].tries \in Nat
      /\ {"recover", "superseded", "load"} \subseteq Fors /\ {"idle", "init"} \subseteq Pcs
  BY Members DEF Fors, Pcs
<1>2. /\ [ent[n] EXCEPT !.handle = gate[n].handle, !.invalid = FALSE, !.persisted = TRUE] \in Ent
      /\ [ent[n] EXCEPT !.persisted = TRUE] \in Ent
      /\ [NoEnt EXCEPT !.handle = gate[n].handle] \in Ent
  BY <1>1, EntChanges, EntFlags, Nulls
<1>3. /\ EndGate(n) => GateMoves(n)
      /\ SendUnlock(n, "recover", gate[n].handle) => GateMoves(n)
      /\ SendUnlock(n, "superseded", gate[n].handle) => GateMoves(n)
      /\ SendUnlock(n, "load", gate[n].handle) => GateMoves(n)
      /\ To(n, "init", gate[n].handle) => GateMoves(n)
  BY <1>1, GateSteps
<1>4. RecoverFails(n) => EntTyped' /\ CacheTyped' /\ GateMoves(n)
  <2>1. CASE Valid(n, gate[n].handle)
    BY <1>1, <1>3, <2>1, EntSteps DEF RecoverFails
  <2>2. CASE ~Valid(n, gate[n].handle)
    BY <1>1, <1>3, <2>2, RecoveryFailedTypes DEF RecoverFails
  <2> QED  BY <2>1, <2>2
<1>5. Superseded(n) => EntTyped' /\ GateMoves(n)
  BY <1>1, <1>3, EntSteps DEF Superseded
<1>6. Recovered(n) => EntTyped' /\ CacheTyped' /\ GateMoves(n)
  BY <1>1, <1>2, ReleaseTypes, EntSteps DEF Recovered
<1>7. Abort(n) => EntTyped' /\ GateMoves(n)
  BY <1>1, <1>3, EntSteps DEF Abort
<1>8. Persisted(n) => EntTyped' /\ GateMoves(n)
  BY <1>2, ReleaseTypes DEF Persisted
<1>9. LoadFails(n) => GateMoves(n)
  BY <1>3 DEF LoadFails
<1>10. Enter(n) => EntTyped' /\ GateMoves(n)
  BY <1>1, <1>2, <1>3, EntSteps DEF Enter
<1> QED  BY <1>4, <1>5, <1>6, <1>7, <1>8, <1>9, <1>10

-----------------------------------------------------------------------------
(* Every action keeps the types. *)

(* What a step of n may change without touching etcd or MongoDB. *)
LocalStep(n) ==
    /\ EntTyped' /\ CacheTyped'
    /\ GateMoves(n) \/ UNCHANGED gate
    /\ RowMoves(n) \/ UNCHANGED row
    /\ lock' \in [Nodes -> Handle0]
    /\ acked' \subseteq Mutations /\ made' \subseteq Mutations /\ faults' \in 0 .. MaxFaults
    /\ view' \in [Nodes -> [lease : 0 .. MaxLease, valid : BOOLEAN]]

LEMMA RowsAfter ==
    ASSUME TypeInv, NEW n \in Nodes, RowMoves(n) \/ UNCHANGED row
    PROVE  row' \in [Nodes -> Row] /\ \A m \in Nodes : RowOK(m)'
<1>1. row \in [Nodes -> Row] /\ \A m \in Nodes : RowOK(m)
  BY DEF TypeInv, TypeOK
<1>2. CASE UNCHANGED row
  BY <1>1, <1>2 DEF RowOK
<1>3. CASE RowMoves(n)
  <2>1. ASSUME NEW m \in Nodes, m # n PROVE RowOK(m)'
    BY <1>1, <1>3, <2>1 DEF RowMoves, RowOK
  <2> QED  BY <1>3, <2>1 DEF RowMoves
<1> QED  BY <1>2, <1>3

LEMMA GatesAfter ==
    ASSUME TypeInv, NEW n \in Nodes, GateMoves(n) \/ UNCHANGED gate
    PROVE  gate' \in [Nodes -> Gate] /\ \A m \in Nodes : GateOK(m)'
<1>1. gate \in [Nodes -> Gate] /\ \A m \in Nodes : GateOK(m)
  BY DEF TypeInv, TypeOK
<1>2. CASE UNCHANGED gate
  BY <1>1, <1>2 DEF GateOK
<1>3. CASE GateMoves(n)
  <2>1. ASSUME NEW m \in Nodes, m # n PROVE GateOK(m)'
    BY <1>1, <1>3, <2>1 DEF GateMoves, GateOK
  <2>2. GateOK(n)'
    BY <1>3 DEF GateMoves, GateOK
  <2> QED  BY <1>3, <2>1, <2>2 DEF GateMoves
<1> QED  BY <1>2, <1>3

LEMMA LocalTypes ==
    ASSUME TypeInv, NEW n \in Nodes, LocalStep(n), UNCHANGED <<etcd, mongo>>
    PROVE  TypeInv'
<1>1. row' \in [Nodes -> Row] /\ \A m \in Nodes : RowOK(m)'
  BY RowsAfter DEF LocalStep
<1>2. gate' \in [Nodes -> Gate] /\ \A m \in Nodes : GateOK(m)'
  BY GatesAfter DEF LocalStep
<1>3. /\ alive' \subseteq Leases /\ granted' \in 0 .. MaxLease
      /\ key' \in Key /\ rev' \in 0 .. MaxRev /\ stray' \subseteq Stray /\ revoked' \subseteq Revs
      /\ doc' \in Doc /\ late' \subseteq Writes /\ writer' \subseteq Nodes
  BY DEF TypeInv, TypeOK, etcd, mongo
<1> QED  BY <1>1, <1>2, <1>3 DEF LocalStep, TypeInv, TypeOK, EntTyped, CacheTyped

(* The history variables that most actions leave alone. *)
LEMMA Unchanged ==
    ASSUME TypeInv
    PROVE  /\ UNCHANGED lock => lock' \in [Nodes -> Handle0]
           /\ UNCHANGED acked => acked' \subseteq Mutations
           /\ UNCHANGED made => made' \subseteq Mutations
           /\ UNCHANGED faults => faults' \in 0 .. MaxFaults
           /\ UNCHANGED view => view' \in [Nodes -> [lease : 0 .. MaxLease, valid : BOOLEAN]]
           /\ UNCHANGED ent => EntTyped'
           /\ UNCHANGED cache => CacheTyped'
BY DEF TypeInv, TypeOK, EntTyped, CacheTyped

LEMMA ValidHandle ==
    ASSUME NEW n, NEW h, Valid(n, h)
    PROVE  h # NoHandle
BY DEF Valid

LEMMA StartsTypes ==
    ASSUME TypeInv, NEW n \in Nodes, Starts(n)
    PROVE  TypeInv'
<1> USE Unchanged, Members
<1>0. /\ TypeOK /\ {"handler", "load"} \subseteq Pcs /\ {"load", "recover"} \subseteq Fors
      /\ lock[n] \in Handle0 /\ ent[n].handle \in Handle0 /\ cache[n].handle \in Handle0
  BY DEF Pcs, Fors
<1>2. ASSUME Serve(n) PROVE TypeInv'
  <2>1. GateMoves(n)
    BY <1>0, <1>2, GateSteps DEF Serve
  <2>2. LocalStep(n) /\ UNCHANGED <<etcd, mongo>>
    BY <1>2, <2>1 DEF Serve, LocalStep
  <2> QED  BY <2>2, LocalTypes
<1>3. ASSUME StartLoad(n) PROVE TypeInv'
  <2>1. GateMoves(n)
    BY <1>0, <1>3, GateSteps DEF StartLoad
  <2>2. LocalStep(n) /\ UNCHANGED <<etcd, mongo>>
    BY <1>3, <2>1 DEF StartLoad, LocalStep
  <2> QED  BY <2>2, LocalTypes
<1>4. ASSUME HandlerSaves(n) PROVE TypeInv'
  <2>1. RowMoves(n)
    BY <1>0, <1>4, RowSteps, ValidHandle DEF HandlerSaves, CanSave
  <2>2. GateMoves(n)
    <3>1. gate[n] \in Gate /\ gate \in [Nodes -> Gate]
      BY <1>0, VarTypes
    <3>2. [gate[n] EXCEPT !.pc = "save"] \in Gate
      BY <3>1 DEF Gate
    <3> QED  BY <1>4, <3>1, <3>2 DEF HandlerSaves, GateMoves
  <2>3. LocalStep(n) /\ UNCHANGED <<etcd, mongo>>
    BY <1>4, <2>1, <2>2 DEF HandlerSaves, LocalStep
  <2> QED  BY <2>3, LocalTypes
<1>5. ASSUME SweepSaves(n) PROVE TypeInv'
  <2>1. RowMoves(n)
    BY <1>0, <1>5, RowSteps, ValidHandle DEF SweepSaves, CanSave
  <2>2. LocalStep(n) /\ UNCHANGED <<etcd, mongo>>
    BY <1>5, <2>1 DEF SweepSaves, LocalStep
  <2> QED  BY <2>2, LocalTypes
<1>6. ASSUME Unload(n) PROVE TypeInv'
  <2>1. EntTyped' /\ GateMoves(n)
    BY <1>6, UnloadTypes DEF Unload
  <2>2. LocalStep(n) /\ UNCHANGED <<etcd, mongo>>
    BY <1>6, <2>1 DEF Unload, LocalStep
  <2> QED  BY <2>2, LocalTypes
<1> QED  BY <1>2, <1>3, <1>4, <1>5, <1>6 DEF Starts

(* Three handles are referenced at most, so a fourth is new. *)
LEMMA FourthNumber ==
    ASSUME NEW a \in 0 .. 4, NEW b \in 0 .. 4, NEW c \in 0 .. 4
    PROVE  \E i \in 1 .. 4 : i \notin {a, b, c}
<1>1. 1 \notin {a, b, c} \/ 2 \notin {a, b, c} \/ 3 \notin {a, b, c} \/ 4 \notin {a, b, c}
  OBVIOUS
<1> QED  BY <1>1

LEMMA FreshHandle ==
    ASSUME TypeInv, NEW n \in Nodes
    PROVE  FreshId(n) \in 1 .. 4
<1>1. cache[n].handle.id \in 0 .. 4 /\ ent[n].handle.id \in 0 .. 4 /\ lock[n].id \in 0 .. 4
  BY Members, HandleParts
<1>2. \E i \in 1 .. 4 : i \notin {cache[n].handle.id, ent[n].handle.id, lock[n].id}
  BY <1>1, FourthNumber
<1> QED  BY <1>2 DEF FreshId

LEMMA LoadsTypes ==
    ASSUME TypeInv, NEW n \in Nodes, Loads(n)
    PROVE  TypeInv'
<1> USE Unchanged, Members
<1>0. /\ TypeOK /\ {"handler", "load", "recover"} \subseteq Pcs /\ "load" \in Fors
      /\ gate[n].handle \in Handle0 /\ ent[n].tries \in Nat /\ ent[n].handle \in Handle0
  BY DEF Pcs, Fors
<1>1. ASSUME LockReturns(n) PROVE TypeInv'
  <2>1. CASE LockAccepted(n)
    <3> DEFINE h == [id |-> FreshId(n), lease |-> gate[n].lease, fence |-> gate[n].fence]
    <3>1. gate[n].lease \in Leases /\ gate[n].fence \in Revs
      BY <1>1, <2>1 DEF GateOK, LockReturns, LockAccepted
    <3>2. h \in Handle0
      BY <3>1, FreshHandle DEF Handle0, Handle
    <3>3. lock' = [lock EXCEPT ![n] = h] /\ \E pc \in Pcs \ {"lock"} : To(n, pc, h)
      <4>1. gate[n].pc = "lock" /\ lock' = [lock EXCEPT ![n] = h] /\ To(n, gate[n].for, h)
        BY <1>1, <2>1 DEF LockReturns
      <4>2. gate[n].for \in Pcs \ {"lock"}
        BY <1>1, Members DEF Pcs, GateOK, LockReturns
      <4> QED  BY <4>1, <4>2
    <3>4. lock' \in [Nodes -> Handle0]
      BY <3>2, <3>3, VarTypes
    <3>5. GateMoves(n)
      BY <1>0, <3>2, <3>3, GateSteps
    <3>6. LocalStep(n) /\ UNCHANGED <<etcd, mongo>>
      BY <1>1, <2>1, <3>4, <3>5 DEF LockReturns, LocalStep
    <3> QED  BY <3>6, LocalTypes
  <2>2. CASE ~LockAccepted(n)
    <3>1. EndGate(n) /\ (RecoveryFailed(n, ent[n].tries) \/ UNCHANGED <<cache, ent>>)
      BY <1>1, <2>2 DEF LockReturns
    <3>2. EntTyped' /\ CacheTyped'
      BY <1>0, <3>1, RecoveryFailedTypes
    <3>3. GateMoves(n)
      BY <1>0, <3>1, GateSteps
    <3>4. LocalStep(n) /\ UNCHANGED <<etcd, mongo>>
      BY <1>1, <2>2, <3>2, <3>3 DEF LockReturns, LocalStep
    <3> QED  BY <3>4, LocalTypes
  <2> QED  BY <2>1, <2>2
<1>2. ASSUME LoadBegins(n) PROVE TypeInv'
  <2>1. CASE ~Valid(n, gate[n].handle) \/ (cache[n].handle # gate[n].handle /\ Dirty(n))
    <3>1. LoadFails(n) /\ UNCHANGED <<cache, row, ent>>
      BY <1>2, <2>1 DEF LoadBegins
    <3>2. GateMoves(n)
      BY <3>1, RecoverTypes
    <3>3. LocalStep(n) /\ UNCHANGED <<etcd, mongo>>
      BY <1>2, <3>1, <3>2 DEF LoadBegins, LocalStep
    <3> QED  BY <3>3, LocalTypes
  <2>2. CASE /\ ~(~Valid(n, gate[n].handle) \/ (cache[n].handle # gate[n].handle /\ Dirty(n)))
             /\ cache[n].handle = gate[n].handle
    <3>1. Enter(n) /\ UNCHANGED <<cache, row>>
      BY <1>2, <2>2 DEF LoadBegins
    <3>2. EntTyped' /\ GateMoves(n)
      BY <3>1, RecoverTypes
    <3>3. LocalStep(n) /\ UNCHANGED <<etcd, mongo>>
      BY <1>2, <3>1, <3>2 DEF LoadBegins, LocalStep
    <3> QED  BY <3>3, LocalTypes
  <2>3. CASE /\ ~(~Valid(n, gate[n].handle) \/ (cache[n].handle # gate[n].handle /\ Dirty(n)))
             /\ cache[n].handle # gate[n].handle
    <3>1. DropCache(n) /\ SendClaim(n, gate[n].handle) /\ UNCHANGED <<ent, gate>>
      BY <1>2, <2>3 DEF LoadBegins
    <3>2. CacheTyped' /\ RowMoves(n)
      BY <1>0, <2>3, <3>1, EntSteps, RowSteps, ValidHandle
    <3>3. LocalStep(n) /\ UNCHANGED <<etcd, mongo>>
      BY <1>2, <3>1, <3>2 DEF LoadBegins, LocalStep
    <3> QED  BY <3>3, LocalTypes
  <2> QED  BY <2>1, <2>2, <2>3
<1>3. ASSUME LoadReturns(n) PROVE TypeInv'
  <2>1. RowMoves(n)
    BY <1>0, <1>3, RowSteps DEF LoadReturns
  <2>2. CASE row[n].reply = "ok" /\ Valid(n, gate[n].handle)
    <3> DEFINE c == [handle |-> gate[n].handle, version |-> row[n].version,
                     base |-> row[n].content, dirty |-> {}, wheel |-> TRUE]
    <3>1. cache' = [cache EXCEPT ![n] = c] /\ Enter(n)
      BY <1>3, <2>2 DEF LoadReturns
    <3>2. row[n].version \in Nat /\ row[n].content \in Contents /\ {} \in Contents
      BY DEF Row, Contents
    <3>3. c \in Cache
      BY <1>0, <3>2, CacheChanges
    <3>4. EntTyped' /\ GateMoves(n) /\ CacheTyped'
      BY <1>0, <3>1, <3>3, RecoverTypes, EntSteps
    <3>5. LocalStep(n) /\ UNCHANGED <<etcd, mongo>>
      BY <1>3, <2>1, <3>4 DEF LoadReturns, LocalStep
    <3> QED  BY <3>5, LocalTypes
  <2>3. CASE ~(row[n].reply = "ok" /\ Valid(n, gate[n].handle))
    <3>1. LoadFails(n) /\ UNCHANGED <<cache, ent>>
      BY <1>3, <2>3 DEF LoadReturns
    <3>2. GateMoves(n)
      BY <3>1, RecoverTypes
    <3>3. LocalStep(n) /\ UNCHANGED <<etcd, mongo>>
      BY <1>3, <2>1, <3>1, <3>2 DEF LoadReturns, LocalStep
    <3> QED  BY <3>3, LocalTypes
  <2> QED  BY <2>2, <2>3
<1>4. ASSUME InitReturns(n) PROVE TypeInv'
  <2>1. CASE Valid(n, ent[n].handle) /\ To(n, "handler", ent[n].handle) /\ UNCHANGED ent
    <3>1. EntTyped' /\ GateMoves(n)
      BY <1>0, <2>1, GateSteps
    <3>2. LocalStep(n) /\ UNCHANGED <<etcd, mongo>>
      BY <1>4, <3>1 DEF InitReturns, LocalStep
    <3> QED  BY <3>2, LocalTypes
  <2>2. CASE UnloadEntity(n)
    <3>1. EntTyped' /\ GateMoves(n)
      BY <2>2, UnloadTypes
    <3>2. LocalStep(n) /\ UNCHANGED <<etcd, mongo>>
      BY <1>4, <3>1 DEF InitReturns, LocalStep
    <3> QED  BY <3>2, LocalTypes
  <2> QED  BY <1>4, <2>1, <2>2 DEF InitReturns
<1> QED  BY <1>1, <1>2, <1>3, <1>4 DEF Loads

LEMMA AckTypes ==
    ASSUME TypeInv, NEW n \in Nodes
    PROVE  Acked(n) \in Cache /\ (Ack(n) => acked' \subseteq Mutations)
<1>1. row[n].write \in Contents /\ cache[n] \in Cache /\ acked \subseteq Mutations
      /\ NoHandle \in Handle0 /\ 0 \in Nat /\ {} \in Contents
  BY Members, Nulls DEF Row, TypeOK, Contents
<1>2. Acked(n) \in Cache
  BY <1>1, CacheChanges DEF Acked
<1>3. Ack(n) => acked' \subseteq Mutations
  BY <1>1 DEF Ack, Contents
<1> QED  BY <1>2, <1>3

LEMMA ServesTypes ==
    ASSUME TypeInv, NEW n \in Nodes, Serves(n) \/ \E m \in Mutations : Mutate(n, m)
    PROVE  TypeInv'
<1> USE Unchanged, Members
<1>0. TypeOK /\ ent[n].handle \in Handle0 /\ "gate" \in {"gate", "sweep"} /\ NoHandle \in Handle0
      /\ "idle" \in Pcs /\ "load" \in Fors
  BY Nulls DEF Pcs, Fors
<1>1. ASSUME HandlerReturns(n) PROVE TypeInv'
  <2>1. EntTyped' /\ GateMoves(n)
    BY <1>0, <1>1, EntSteps, GateSteps DEF HandlerReturns
  <2>2. LocalStep(n) /\ UNCHANGED <<etcd, mongo>>
    BY <1>1, <2>1 DEF HandlerReturns, LocalStep
  <2> QED  BY <2>2, LocalTypes
<1>2. ASSUME SaveReturns(n) PROVE TypeInv'
  <2>1. RowMoves(n)
    BY <1>0, <1>2, RowSteps DEF SaveReturns
  <2>2. CacheTyped' /\ acked' \subseteq Mutations
    BY <1>0, <1>2, AckTypes, EntSteps DEF SaveReturns
  <2>3. GateMoves(n) \/ UNCHANGED gate
    <3>1. gate[n] \in Gate /\ gate \in [Nodes -> Gate]
      BY <1>0, VarTypes
    <3>2. [gate[n] EXCEPT !.pc = "handler"] \in Gate
      BY <3>1 DEF Gate
    <3>3. [gate[n] EXCEPT !.pc = "handler"].pc = "handler"
      BY <3>1 DEF Gate
    <3>4. CASE row[n].by = "gate"
      <4>1. gate' = [gate EXCEPT ![n] = [gate[n] EXCEPT !.pc = "handler"]]
        BY <1>2, <3>4 DEF SaveReturns
      <4> QED  BY <3>1, <3>2, <3>3, <4>1 DEF GateMoves
    <3> QED  BY <1>2, <3>4 DEF SaveReturns
  <2>4. LocalStep(n) /\ UNCHANGED <<etcd, mongo>>
    BY <1>2, <2>1, <2>2, <2>3 DEF SaveReturns, LocalStep
  <2> QED  BY <2>4, LocalTypes
<1>3. ASSUME NEW m \in Mutations, Mutate(n, m) PROVE TypeInv'
  <2>1. {m} \in Contents /\ cache[n] \in Cache /\ made \subseteq Mutations /\ {} \in Contents
    BY DEF Contents, TypeOK
  <2>2. [cache[n] EXCEPT !.dirty = @ \cup {m}] \in Cache
    BY <1>0, <2>1, CacheChanges
  <2>3. cache' = [cache EXCEPT ![n] = [cache[n] EXCEPT !.dirty = @ \cup {m}]]
    BY <1>3 DEF Mutate
  <2>4. CacheTyped' /\ made' \subseteq Mutations
    BY <1>0, <1>3, <2>1, <2>2, <2>3, EntSteps DEF Mutate
  <2>5. LocalStep(n) /\ UNCHANGED <<etcd, mongo>>
    BY <1>3, <2>4 DEF Mutate, LocalStep
  <2> QED  BY <2>5, LocalTypes
<1> QED  BY <1>1, <1>2, <1>3 DEF Serves

LEMMA LeavesTypes ==
    ASSUME TypeInv, NEW n \in Nodes, Leaves(n)
    PROVE  TypeInv'
<1> USE Unchanged, Members
<1>0. /\ TypeOK /\ ent[n].handle \in Handle0 /\ gate[n].handle \in Handle0
      /\ cache[n].handle \in Handle0 /\ lock[n] \in Handle0 /\ NoHandle \in Handle0
      /\ {"flush", "recover", "idle"} \subseteq Pcs /\ {"load", "recover"} \subseteq Fors
      /\ ent[n] \in Ent /\ cache[n] \in Cache /\ ent[n].tries \in Nat /\ ent[n].tries + 1 \in Nat
  BY Nulls DEF Pcs, Fors
<1>1. ASSUME HooksReturn(n) PROVE TypeInv'
  <2>1. EntTyped' /\ GateMoves(n) /\ faults' \in 0 .. MaxFaults
    <3>1. CASE ent' = [ent EXCEPT ![n].hooked = TRUE] /\ To(n, "flush", ent[n].handle) /\ UNCHANGED faults
      <4>1. ent' = [ent EXCEPT ![n] = [ent[n] EXCEPT !.hooked = TRUE]]
        BY <3>1
      <4>2. [ent[n] EXCEPT !.hooked = TRUE] \in Ent
        BY <1>0, EntFlags
      <4> QED  BY <1>0, <3>1, <4>1, <4>2, EntSteps, GateSteps
    <3>2. CASE Fault /\ ArmRetry(n) /\ EndGate(n)
      <4>1. faults' \in 0 .. MaxFaults
        BY <3>2 DEF Fault, TypeOK
      <4> QED  BY <1>0, <3>2, <4>1, EntSteps, GateSteps
    <3> QED  BY <1>1, <3>1, <3>2 DEF HooksReturn
  <2>2. LocalStep(n) /\ UNCHANGED <<etcd, mongo>>
    BY <1>1, <2>1 DEF HooksReturn, LocalStep
  <2> QED  BY <2>2, LocalTypes
<1>2. ASSUME FlushBegins(n) PROVE TypeInv'
  <2>1. EntTyped' /\ CacheTyped' /\ (GateMoves(n) \/ UNCHANGED gate) /\ (RowMoves(n) \/ UNCHANGED row)
    <3>1. CASE Abort(n) /\ UNCHANGED <<cache, row>>
      BY <3>1, RecoverTypes
    <3>2. CASE SendSave(n, "gate", cache[n].handle) /\ UNCHANGED <<cache, ent, gate>>
               /\ Valid(n, cache[n].handle)
      BY <1>0, <3>2, RowSteps, ValidHandle
    <3>3. CASE DropCache(n) /\ Persisted(n) /\ UNCHANGED row
      BY <1>0, <3>3, RecoverTypes, EntSteps
    <3> QED  BY <1>2, <3>1, <3>2, <3>3 DEF FlushBegins
  <2>2. LocalStep(n) /\ UNCHANGED <<etcd, mongo>>
    BY <1>2, <2>1 DEF FlushBegins, LocalStep
  <2> QED  BY <2>2, LocalTypes
<1>3. ASSUME FlushReturns(n) PROVE TypeInv'
  <2>1. RowMoves(n)
    BY <1>0, <1>3, RowSteps DEF FlushReturns
  <2>2. EntTyped' /\ CacheTyped' /\ GateMoves(n) /\ acked' \subseteq Mutations
    <3>1. CASE Abort(n) /\ UNCHANGED <<cache, acked>>
      BY <3>1, RecoverTypes
    <3>2. CASE Ack(n) /\ DropCache(n) /\ Persisted(n)
      BY <1>0, <3>2, RecoverTypes, EntSteps, AckTypes
    <3>3. CASE Ack(n) /\ cache' = [cache EXCEPT ![n] = Acked(n)] /\ Abort(n)
      BY <1>0, <3>3, RecoverTypes, EntSteps, AckTypes
    <3> QED  BY <1>3, <3>1, <3>2, <3>3 DEF FlushReturns
  <2>3. LocalStep(n) /\ UNCHANGED <<etcd, mongo>>
    BY <1>3, <2>1, <2>2 DEF FlushReturns, LocalStep
  <2> QED  BY <2>3, LocalTypes
<1>4. ASSUME Discard(n) PROVE TypeInv'
  <2>1. EntTyped' /\ CacheTyped' /\ GateMoves(n)
    <3>1. CASE DropCache(n) /\ Forget(n) /\ EndGate(n)
      BY <1>0, <3>1, EntSteps, GateSteps
    <3>2. CASE /\ cache' = [cache EXCEPT ![n].wheel = FALSE] \/ UNCHANGED cache
               /\ ent' = [ent EXCEPT ![n].tries = ent[n].tries + 1]
               /\ To(n, "recover", lock[n]) \/ SendLock(n, "recover")
      <4>1. [ent[n] EXCEPT !.tries = ent[n].tries + 1] \in Ent
        BY <1>0, EntChanges
      <4>2. ent' = [ent EXCEPT ![n] = [ent[n] EXCEPT !.tries = ent[n].tries + 1]]
        BY <3>2
      <4>3. [cache[n] EXCEPT !.wheel = FALSE] \in Cache
        BY <1>0 DEF Cache
      <4>4. EntTyped' /\ CacheTyped'
        BY <1>0, <3>2, <4>1, <4>2, <4>3, EntSteps
      <4>5. GateMoves(n)
        BY <1>0, <3>2, GateSteps
      <4> QED  BY <4>4, <4>5
    <3>3. CASE RecoveryFailed(n, ent[n].tries + 1) /\ EndGate(n)
      BY <1>0, <3>3, RecoveryFailedTypes, GateSteps
    <3> QED  BY <1>4, <3>1, <3>2, <3>3 DEF Discard
  <2>2. LocalStep(n) /\ UNCHANGED <<etcd, mongo>>
    BY <1>4, <2>1 DEF Discard, LocalStep
  <2> QED  BY <2>2, LocalTypes
<1>5. ASSUME RecoverBegins(n) PROVE TypeInv'
  <2>1. EntTyped' /\ CacheTyped' /\ (GateMoves(n) \/ UNCHANGED gate) /\ (RowMoves(n) \/ UNCHANGED row)
    <3>1. CASE Superseded(n) /\ UNCHANGED <<cache, row>>
      BY <3>1, RecoverTypes
    <3>2. CASE Recovered(n) /\ UNCHANGED row
      BY <3>2, RecoverTypes
    <3>3. CASE RecoverFails(n) /\ UNCHANGED row
      BY <3>3, RecoverTypes
    <3>4. CASE SendClaim(n, gate[n].handle) /\ UNCHANGED <<cache, ent, gate>> /\ Valid(n, gate[n].handle)
      BY <1>0, <3>4, RowSteps, ValidHandle
    <3> QED  BY <1>5, <3>1, <3>2, <3>3, <3>4 DEF RecoverBegins
  <2>2. LocalStep(n) /\ UNCHANGED <<etcd, mongo>>
    BY <1>5, <2>1 DEF RecoverBegins, LocalStep
  <2> QED  BY <2>2, LocalTypes
<1>6. ASSUME RecoverClaimed(n) PROVE TypeInv'
  <2>1. EntTyped' /\ CacheTyped' /\ (GateMoves(n) \/ UNCHANGED gate) /\ RowMoves(n)
    <3>1. CASE FreeTheRow(n) /\ RecoverFails(n)
      BY <1>0, <3>1, RecoverTypes, RowSteps
    <3>2. CASE FreeTheRow(n) /\ DropCache(n) /\ Superseded(n)
      BY <1>0, <3>2, RecoverTypes, RowSteps, EntSteps
    <3>3. CASE SendSave(n, "gate", gate[n].handle) /\ UNCHANGED <<cache, ent, gate>>
               /\ Valid(n, gate[n].handle)
      BY <1>0, <3>3, RowSteps, ValidHandle
    <3> QED  BY <1>6, <3>1, <3>2, <3>3 DEF RecoverClaimed
  <2>2. LocalStep(n) /\ UNCHANGED <<etcd, mongo>>
    BY <1>6, <2>1 DEF RecoverClaimed, LocalStep
  <2> QED  BY <2>2, LocalTypes
<1>7. ASSUME RecoverSaved(n) PROVE TypeInv'
  <2>1. RowMoves(n)
    BY <1>0, <1>7, RowSteps DEF RecoverSaved
  <2>2. EntTyped' /\ CacheTyped' /\ GateMoves(n) /\ acked' \subseteq Mutations
    <3>1. CASE Ack(n) /\ Recovered(n)
      BY <3>1, RecoverTypes, AckTypes
    <3>2. CASE RecoverFails(n) /\ UNCHANGED acked
      BY <3>2, RecoverTypes
    <3> QED  BY <1>7, <3>1, <3>2 DEF RecoverSaved
  <2>3. LocalStep(n) /\ UNCHANGED <<etcd, mongo>>
    BY <1>7, <2>1, <2>2 DEF RecoverSaved, LocalStep
  <2> QED  BY <2>3, LocalTypes
<1>8. ASSUME UnlockReturns(n) PROVE TypeInv'
  <2>1. GateMoves(n)
    BY <1>0, <1>8, GateSteps DEF UnlockReturns
  <2>2. lock' \in [Nodes -> Handle0]
    <3>1. lock' = [lock EXCEPT ![n] = NoHandle] \/ UNCHANGED lock
      BY <1>8 DEF UnlockReturns
    <3> QED  BY <1>0, <3>1, VarTypes
  <2>3. EntTyped' /\ CacheTyped'
    <3> DEFINE h == gate[n].handle
               released == gate[n].reply = "ok" /\ Valid(n, h)
               notified == gate[n].reply # "ok" /\ lock[n] = h
    <3>0. CASE gate[n].for = "load"
      BY <1>8, <3>0 DEF UnlockReturns
    <3>1. CASE gate[n].for = "superseded"
      <4>1. Forget(n) /\ UNCHANGED cache
        BY <1>8, <3>1 DEF UnlockReturns
      <4> QED  BY <1>0, <4>1, EntSteps
    <3>2. CASE gate[n].for = "recover"
      <4>1. RecoveryFailed(n, ent[n].tries)
        BY <1>8, <3>2 DEF UnlockReturns
      <4> QED  BY <1>0, <4>1, RecoveryFailedTypes
    <3>3. CASE gate[n].for = "release"
      <4>1. /\ UNCHANGED cache
            /\ \/ Forget(n)
               \/ ent' = [ent EXCEPT ![n].armed = TRUE, ![n].invalid = @ \/ notified]
        BY <1>8, <3>3 DEF UnlockReturns
      <4>2. ent[n].invalid \in BOOLEAN
        BY <1>0 DEF Ent
      <4>3. [ent[n] EXCEPT !.armed = TRUE, !.invalid = @ \/ notified] \in Ent
        <5> DEFINE b == ent[n].invalid \/ notified
        <5>1. b \in BOOLEAN
          BY <4>2
        <5>2. [ent[n] EXCEPT !.armed = TRUE, !.invalid = b] \in Ent
          <6> HIDE DEF b
          <6> QED  BY <1>0, <5>1, EntChanges
        <5> QED  BY <5>2
      <4>4. ent' = [ent EXCEPT ![n].armed = TRUE, ![n].invalid = @ \/ notified] =>
              ent' = [ent EXCEPT ![n] = [ent[n] EXCEPT !.armed = TRUE, !.invalid = @ \/ notified]]
        OBVIOUS
      <4> QED  BY <1>0, <4>1, <4>3, <4>4, EntSteps
    <3>4. gate[n].for \in Fors
      BY Members
    <3> QED  BY <3>0, <3>1, <3>2, <3>3, <3>4 DEF Fors
  <2>4. LocalStep(n) /\ UNCHANGED <<etcd, mongo>>
    BY <1>8, <2>1, <2>2, <2>3 DEF UnlockReturns, LocalStep
  <2> QED  BY <2>4, LocalTypes
<1> QED  BY <1>1, <1>2, <1>3, <1>4, <1>5, <1>6, <1>7, <1>8 DEF Leaves

-----------------------------------------------------------------------------
(* Steps of etcd, of MongoDB, and failures. *)

LEMMA LeaseTypes ==
    ASSUME TypeInv, NEW n \in Nodes, Lease(n)
    PROVE  TypeInv'
<1> USE Unchanged, Members
<1>0. TypeOK /\ NoHandle \in Handle0 /\ lock[n] \in Handle0
  BY Nulls
<1>1. ASSUME LoseLease(n) PROVE TypeInv'
  <2>1. EntTyped'
    BY <1>0, <1>1, EntSteps DEF LoseLease
  <2>2. lock' \in [Nodes -> Handle0]
    BY <1>0, <1>1, VarTypes DEF LoseLease
  <2>3. view' \in [Nodes -> [lease : 0 .. MaxLease, valid : BOOLEAN]]
    BY <1>0, <1>1, VarTypes DEF LoseLease
  <2>4. LocalStep(n) /\ UNCHANGED <<etcd, mongo>>
    BY <1>1, <2>1, <2>2, <2>3 DEF LoseLease, LocalStep
  <2> QED  BY <2>4, LocalTypes
<1>2. ASSUME Resurrect(n) PROVE TypeInv'
  <2>1. view' \in [Nodes -> [lease : 0 .. MaxLease, valid : BOOLEAN]]
    BY <1>0, <1>2, VarTypes DEF Resurrect
  <2>2. LocalStep(n) /\ UNCHANGED <<etcd, mongo>>
    BY <1>2, <2>1 DEF Resurrect, LocalStep
  <2> QED  BY <2>2, LocalTypes
<1>3. ASSUME NewLease(n) PROVE TypeInv'
  <2>1. granted \in 0 .. MaxLease /\ granted < MaxLease /\ alive \subseteq Leases
    BY <1>0, <1>3 DEF NewLease, TypeOK
  <2>2. granted + 1 \in Leases /\ granted + 1 \in 0 .. MaxLease
    BY <2>1 DEF Leases
  <2>3. granted' \in 0 .. MaxLease /\ alive' \subseteq Leases
    BY <1>3, <2>1, <2>2 DEF NewLease
  <2>4. view' \in [Nodes -> [lease : 0 .. MaxLease, valid : BOOLEAN]]
    BY <1>0, <1>3, <2>2, VarTypes DEF NewLease
  <2>5. \A m \in Nodes : RowOK(m)' /\ GateOK(m)'
    BY <1>3 DEF NewLease, RowOK, GateOK, TypeInv
  <2>6. TypeOK'
    BY <1>0, <1>3, <2>3, <2>4 DEF NewLease, TypeOK, mongo
  <2> QED  BY <2>5, <2>6 DEF TypeInv
<1> QED  BY <1>1, <1>2, <1>3 DEF Lease

LEMMA ExpireTypes ==
    ASSUME TypeInv, NEW l \in Leases, ExpireLease(l)
    PROVE  TypeInv'
<1>1. TypeOK /\ alive' \subseteq Leases /\ key' \in Key
  BY Nulls DEF ExpireLease, TypeInv, TypeOK
<1>2. TypeOK'
  BY <1>1 DEF ExpireLease, TypeOK, mongo
<1>3. \A m \in Nodes : RowOK(m)' /\ GateOK(m)'
  BY DEF ExpireLease, RowOK, GateOK, TypeInv
<1> QED  BY <1>2, <1>3 DEF TypeInv

(* What remains typed when a step of n changes etcd, or MongoDB, as it may. *)
LEMMA ServerTypes ==
    ASSUME TypeInv, NEW n \in Nodes, LocalStep(n),
           alive' \subseteq Leases, granted' \in 0 .. MaxLease, key' \in Key,
           rev' \in 0 .. MaxRev, stray' \subseteq Stray, revoked' \subseteq Revs,
           doc' \in Doc, late' \subseteq Writes, writer' \subseteq Nodes
    PROVE  TypeInv'
<1>1. row' \in [Nodes -> Row] /\ \A m \in Nodes : RowOK(m)'
  BY RowsAfter DEF LocalStep
<1>2. gate' \in [Nodes -> Gate] /\ \A m \in Nodes : GateOK(m)'
  BY GatesAfter DEF LocalStep
<1> QED  BY <1>1, <1>2 DEF LocalStep, TypeInv, TypeOK, EntTyped, CacheTyped

LEMMA EtcdTypes ==
    ASSUME TypeInv
    PROVE  /\ UNCHANGED <<alive, granted>> => alive' \subseteq Leases /\ granted' \in 0 .. MaxLease
           /\ UNCHANGED <<key, rev>> => key' \in Key /\ rev' \in 0 .. MaxRev
           /\ UNCHANGED stray => stray' \subseteq Stray
           /\ UNCHANGED revoked => revoked' \subseteq Revs
           /\ UNCHANGED doc => doc' \in Doc
           /\ UNCHANGED late => late' \subseteq Writes
           /\ UNCHANGED writer => writer' \subseteq Nodes
           /\ Fault => faults' \in 0 .. MaxFaults
BY DEF TypeInv, TypeOK, Fault

LEMMA KeyTypes ==
    ASSUME TypeInv
    PROVE  /\ \A l : CanCreate(l) /\ CreateKey(l) =>
                key' \in Key /\ rev' \in 0 .. MaxRev /\ rev + 1 \in Revs /\ l \in Leases
           /\ \A f : DeleteKey(f) => key' \in Key
<1>1. alive \subseteq Leases /\ key \in Key /\ rev \in 0 .. MaxRev
  BY DEF TypeInv, TypeOK
<1>2. ASSUME NEW l, CanCreate(l), CreateKey(l)
      PROVE  key' \in Key /\ rev' \in 0 .. MaxRev /\ rev + 1 \in Revs /\ l \in Leases
  <2>1. l \in Leases /\ rev < MaxRev
    BY <1>1, <1>2 DEF CanCreate
  <2>2. rev + 1 \in Revs
    BY <1>1, <2>1 DEF Revs
  <2>3. key' = [lease |-> l, rev |-> rev + 1] /\ rev' = rev + 1
    BY <1>2 DEF CreateKey
  <2>4. key' \in Key
    BY <2>1, <2>2, <2>3 DEF Key
  <2> QED  BY <2>1, <2>2, <2>3, <2>4 DEF Revs
<1>3. ASSUME NEW f, DeleteKey(f) PROVE key' \in Key
  BY <1>1, <1>3, Nulls DEF DeleteKey
<1> QED  BY <1>2, <1>3

LEMMA GateAnswers ==
    ASSUME TypeInv, NEW n \in Nodes, NEW g \in Gate,
           gate' = [gate EXCEPT ![n] = g],
           g.pc = "lock" => /\ g.for \in {"load", "recover"}
                            /\ g.reply = "ok" => g.lease \in Leases /\ g.fence \in Revs
    PROVE  gate' \in [Nodes -> Gate] /\ \A m \in Nodes : GateOK(m)'
<1>1. gate \in [Nodes -> Gate] /\ \A m \in Nodes : GateOK(m)
  BY DEF TypeInv, TypeOK
<1>2. gate' \in [Nodes -> Gate] /\ gate'[n] = g /\ \A m \in Nodes : m # n => gate'[m] = gate[m]
  BY <1>1
<1>3. GateOK(n)'
  BY <1>2 DEF GateOK
<1>4. ASSUME NEW m \in Nodes, m # n PROVE GateOK(m)'
  BY <1>1, <1>2, <1>4 DEF GateOK
<1> QED  BY <1>2, <1>3, <1>4

LEMMA RowAnswers ==
    ASSUME TypeInv, NEW n \in Nodes, NEW r \in Row,
           row' = [row EXCEPT ![n] = r],
           r.op # "none" => r.handle # NoHandle,
           r.op = "claim" => r.tries < ClaimAttempts
    PROVE  RowMoves(n)
<1>1. row \in [Nodes -> Row]
  BY DEF TypeInv, TypeOK
<1> QED  BY <1>1 DEF RowMoves, RowOK

LEMMA AnswersTypes ==
    ASSUME TypeInv, NEW n \in Nodes, Answers(n)
    PROVE  TypeInv'
<1> USE Unchanged, Members, EtcdTypes
<1>0. /\ TypeOK /\ gate[n] \in Gate /\ row[n] \in Row /\ cache[n] \in Cache /\ doc \in Doc
      /\ gate[n].handle \in Handle0 /\ row[n].handle \in Handle0
      /\ \A m \in Nodes : RowOK(m)
  BY DEF TypeInv, TypeOK
<1>1. ASSUME EtcdLock(n) PROVE TypeInv'
  <2>1. /\ key' \in Key /\ rev' \in 0 .. MaxRev
        /\ \E g \in Gate : /\ gate' = [gate EXCEPT ![n] = g]
                           /\ g.for = gate[n].for
                           /\ g.reply = "ok" => g.lease \in Leases /\ g.fence \in Revs
    <3>1. CASE CanCreate(gate[n].lease)
      <4> DEFINE g == [gate[n] EXCEPT !.reply = "ok", !.fence = rev + 1]
      <4>1. CreateKey(gate[n].lease) /\ gate' = [gate EXCEPT ![n] = g]
        BY <1>1, <3>1 DEF EtcdLock
      <4>2. key' \in Key /\ rev' \in 0 .. MaxRev /\ rev + 1 \in Revs /\ gate[n].lease \in Leases
        BY <3>1, <4>1, KeyTypes
      <4>3. rev + 1 \in 0 .. MaxRev
        BY <4>2 DEF Revs
      <4>4. g \in Gate
        BY <1>0, <4>3, GateReplies
      <4>5. g.for = gate[n].for /\ g.lease = gate[n].lease /\ g.fence = rev + 1
        BY <1>0 DEF Gate
      <4> HIDE DEF g
      <4> QED  BY <4>1, <4>2, <4>4, <4>5
    <3>2. CASE ~CanCreate(gate[n].lease)
      <4>0. key' \in Key /\ rev' \in 0 .. MaxRev
        BY <1>1, <3>2 DEF EtcdLock
      <4>1. CASE key # NoKey /\ key.lease = gate[n].lease
        <5> DEFINE g == [gate[n] EXCEPT !.reply = "ok", !.fence = key.rev]
        <5>1. gate' = [gate EXCEPT ![n] = g]
          BY <1>1, <3>2, <4>1 DEF EtcdLock
        <5>2. key.lease \in Leases /\ key.rev \in Revs
          BY <1>0, <4>1 DEF TypeOK, Key
        <5>3. key.rev \in 0 .. MaxRev
          BY <5>2 DEF Revs
        <5>4. g \in Gate
          BY <1>0, <5>3, GateReplies
        <5>5. g.for = gate[n].for /\ g.lease = gate[n].lease /\ g.fence = key.rev
          BY <1>0 DEF Gate
        <5> HIDE DEF g
        <5> QED  BY <4>0, <4>1, <5>1, <5>2, <5>4, <5>5
      <4>2. CASE ~(key # NoKey /\ key.lease = gate[n].lease)
        <5>1. \E r \in {"failed", "no"} : gate' = [gate EXCEPT ![n] = [gate[n] EXCEPT !.reply = r]]
          BY <1>1, <3>2, <4>2 DEF EtcdLock
        <5>2. PICK r \in {"failed", "no"} : gate' = [gate EXCEPT ![n] = [gate[n] EXCEPT !.reply = r]]
          BY <5>1
        <5> DEFINE g == [gate[n] EXCEPT !.reply = r]
        <5>3. g \in Gate
          BY <1>0 DEF Gate
        <5>4. g.for = gate[n].for /\ g.reply = r
          BY <1>0 DEF Gate
        <5> HIDE DEF g
        <5>5. gate' = [gate EXCEPT ![n] = g]
          BY <5>2 DEF g
        <5> QED  BY <4>0, <5>3, <5>4, <5>5
      <4> QED  BY <4>1, <4>2
    <3> QED  BY <3>1, <3>2
  <2>2. gate[n].for \in {"load", "recover"}
    BY <1>0, <1>1 DEF EtcdLock, Waiting, GateOK
  <2>3. gate' \in [Nodes -> Gate] /\ \A m \in Nodes : GateOK(m)'
    BY <2>1, <2>2, GateAnswers
  <2>4. \A m \in Nodes : RowOK(m)'
    BY <1>0, <1>1 DEF EtcdLock, RowOK
  <2>5. TypeOK'
    BY <1>0, <1>1, <2>1, <2>3 DEF EtcdLock, TypeOK, mongo
  <2> QED  BY <2>3, <2>4, <2>5 DEF TypeInv
<1>2. ASSUME EtcdUnlock(n) PROVE TypeInv'
  <2>1. PICK r \in {"ok", "no"} : gate' = [gate EXCEPT ![n].reply = r]
    BY <1>2 DEF EtcdUnlock
  <2> DEFINE g == [gate[n] EXCEPT !.reply = r]
  <2>2. g \in Gate /\ g.pc = "unlock"
    BY <1>0, <1>2 DEF Gate, EtcdUnlock, Waiting
  <2>3. gate' = [gate EXCEPT ![n] = g]
    BY <2>1
  <2> HIDE DEF g
  <2>4. gate' \in [Nodes -> Gate] /\ \A m \in Nodes : GateOK(m)'
    BY <2>2, <2>3, GateAnswers
  <2>5. key' \in Key
    BY <1>2, KeyTypes DEF EtcdUnlock
  <2>6. \A m \in Nodes : RowOK(m)'
    BY <1>0, <1>2 DEF EtcdUnlock, RowOK
  <2>7. TypeOK'
    BY <1>0, <1>2, <2>4, <2>5 DEF EtcdUnlock, TypeOK, mongo
  <2> QED  BY <2>4, <2>6, <2>7 DEF TypeInv
<1>3. ASSUME MongoClaim(n) PROVE TypeInv'
  <2>0. /\ row[n].op = "claim" /\ row[n].handle # NoHandle /\ row[n].tries < ClaimAttempts
        /\ row[n].handle.fence \in 0 .. MaxRev
    BY <1>0, <1>3, HandleParts DEF MongoClaim, Pending, RowOK
  <2>1. RowMoves(n) /\ doc' \in Doc
    <3>1. CASE Claimable(row[n].handle.fence)
      <4> DEFINE r == [row[n] EXCEPT !.reply = "ok", !.version = doc.version, !.content = doc.content]
      <4>1. Claim(row[n].handle.fence) /\ row' = [row EXCEPT ![n] = r]
        BY <1>3, <3>1 DEF MongoClaim, Answer
      <4>2. doc.version \in Nat /\ doc.content \in Contents
        BY <1>0 DEF Doc
      <4>3. r \in Row
        BY <1>0, <4>2, RowChanges DEF Replies
      <4>4. r.op = "claim" /\ r.handle # NoHandle /\ r.tries < ClaimAttempts
        BY <1>0, <2>0 DEF Row
      <4>5. doc' \in Doc
        BY <1>0, <2>0, <4>1 DEF Claim, Doc
      <4> HIDE DEF r
      <4> QED  BY <4>1, <4>3, <4>4, <4>5, RowAnswers
    <3>2. CASE ~Claimable(row[n].handle.fence)
      <4> DEFINE r == [row[n] EXCEPT !.op = "resolve", !.tries = @ + 1]
      <4>1. UNCHANGED doc /\ row' = [row EXCEPT ![n] = r]
        BY <1>3, <3>2 DEF MongoClaim
      <4>2. r \in Row
        <5>1. "ok" \in Replies /\ doc.version \in Nat /\ doc.content \in Contents
          BY <1>0 DEF Replies, Doc
        <5> QED  BY <1>0, <2>0, <5>1, RowChanges
      <4>3. r.op = "resolve" /\ r.handle # NoHandle
        BY <1>0, <2>0 DEF Row
      <4> HIDE DEF r
      <4> QED  BY <4>1, <4>2, <4>3, RowAnswers
    <3> QED  BY <3>1, <3>2
  <2>2. LocalStep(n)
    BY <1>3, <2>1 DEF MongoClaim, LocalStep, etcd
  <2> QED  BY <1>3, <2>1, <2>2, ServerTypes DEF MongoClaim, etcd
<1>4. ASSUME MongoResolve(n) PROVE TypeInv'
  <2>0. /\ row[n].op = "resolve" /\ row[n].handle # NoHandle
        /\ row[n].handle.fence \in 0 .. MaxRev /\ row[n].tries \in 0 .. ClaimAttempts
        /\ 0 \in Nat /\ {} \in Contents /\ doc.version \in Nat /\ doc.content \in Contents
    BY <1>0, <1>4, HandleParts DEF MongoResolve, Pending, RowOK, Row, Doc, Contents
  <2>1. ASSUME NEW d, d.version \in Nat, d.content \in Contents, Answer(n, "ok", d)
        PROVE  RowMoves(n)
    <3> DEFINE r == [row[n] EXCEPT !.reply = "ok", !.version = d.version, !.content = d.content]
    <3>1. r \in Row /\ row' = [row EXCEPT ![n] = r]
      BY <1>0, <2>1, RowChanges DEF Replies, Answer
    <3>2. r.op = "resolve" /\ r.handle # NoHandle
      BY <1>0, <2>0 DEF Row
    <3> HIDE DEF r
    <3> QED  BY <3>1, <3>2, RowAnswers
  <2>2. ASSUME NEW st \in {"missing", "no"}, row' = [row EXCEPT ![n].reply = st]
        PROVE  RowMoves(n)
    <3> DEFINE r == [row[n] EXCEPT !.reply = st]
    <3>1. r \in Row /\ row' = [row EXCEPT ![n] = r]
      BY <1>0, <2>0, <2>2, RowChanges DEF Replies
    <3>2. r.op = "resolve" /\ r.handle # NoHandle
      BY <1>0, <2>0 DEF Row
    <3> HIDE DEF r
    <3> QED  BY <3>1, <3>2, RowAnswers
  <2>3. ASSUME row' = [row EXCEPT ![n].op = "claim"], row[n].tries # ClaimAttempts
        PROVE  RowMoves(n)
    <3> DEFINE r == [row[n] EXCEPT !.op = "claim"]
    <3>1. "ok" \in Replies
      BY DEF Replies
    <3>2. r \in Row /\ row' = [row EXCEPT ![n] = r]
      BY <1>0, <2>0, <2>3, <3>1, RowChanges
    <3>3. r.handle = row[n].handle /\ r.tries = row[n].tries
      BY <1>0 DEF Row
    <3>4. row[n].tries < ClaimAttempts
      BY <2>0, <2>3
    <3> HIDE DEF r
    <3> QED  BY <2>0, <3>2, <3>3, <3>4, RowAnswers
  <2>4. RowMoves(n) /\ doc' \in Doc
    <3>1. CASE ~doc.exists /\ Creates(n)
      <4>1. Create(row[n].handle.fence) /\ Answer(n, "ok", [version |-> 0, content |-> {}])
        BY <1>4, <3>1 DEF MongoResolve
      <4>2. RowMoves(n)
        BY <2>0, <2>1, <4>1
      <4>3. doc' \in Doc
        BY <2>0, <4>1 DEF Create, Doc
      <4> QED  BY <4>2, <4>3
    <3>2. CASE ~(~doc.exists /\ Creates(n))
      <4>1. UNCHANGED doc
        BY <1>4, <3>2 DEF MongoResolve
      <4>2. \/ Answer(n, "ok", doc)
            \/ \E st \in {"missing", "no"} : row' = [row EXCEPT ![n].reply = st]
            \/ row' = [row EXCEPT ![n].op = "claim"] /\ row[n].tries # ClaimAttempts
        BY <1>4, <3>2 DEF MongoResolve
      <4> QED  BY <2>0, <2>1, <2>2, <2>3, <4>1, <4>2
    <3> QED  BY <3>1, <3>2
  <2>5. LocalStep(n)
    BY <1>4, <2>4 DEF MongoResolve, LocalStep, etcd
  <2>6. /\ UNCHANGED <<alive, granted>> /\ UNCHANGED <<key, rev>>
        /\ UNCHANGED stray /\ UNCHANGED revoked /\ UNCHANGED late /\ UNCHANGED writer
    BY <1>4 DEF MongoResolve, etcd
  <2> QED  BY <2>4, <2>5, <2>6, ServerTypes
<1>5. ASSUME MongoSave(n) PROVE TypeInv'
  <2>0. row[n].op = "save" /\ row[n].handle # NoHandle
    BY <1>0, <1>5 DEF MongoSave, Pending, RowOK
  <2>1. PICK st \in {"ok", "no"} : row' = [row EXCEPT ![n].reply = st]
    BY <1>5 DEF MongoSave
  <2>2. RowMoves(n)
    <3> DEFINE r == [row[n] EXCEPT !.reply = st]
    <3>1. r \in Row /\ row' = [row EXCEPT ![n] = r]
      BY <1>0, <2>1 DEF Row
    <3>2. r.op = "save" /\ r.handle # NoHandle
      BY <1>0, <2>0 DEF Row
    <3> HIDE DEF r
    <3> QED  BY <3>1, <3>2, RowAnswers
  <2>3. cache[n].base \cup row[n].write \in Contents
    BY <1>0 DEF Cache, Row, Contents
  <2>4. doc' \in Doc /\ writer' \subseteq Nodes
    <3>1. CASE UNCHANGED <<doc, writer>>
      BY <3>1
    <3>2. CASE Write(SaveOf(n))
      <4>1. doc.version + 1 \in Nat
        BY <1>0 DEF Doc
      <4>2. doc' = [doc EXCEPT !.version = doc.version + 1, !.content = cache[n].base \cup row[n].write]
            /\ writer' = {n}
        BY <3>2 DEF Write, SaveOf
      <4> QED  BY <1>0, <2>3, <4>1, <4>2 DEF Doc
    <3> QED  BY <1>5, <3>1, <3>2 DEF MongoSave
  <2>5. LocalStep(n)
    BY <1>5, <2>2 DEF MongoSave, LocalStep, etcd
  <2>6. UNCHANGED <<alive, granted>> /\ UNCHANGED <<key, rev>> /\ UNCHANGED stray /\ UNCHANGED revoked /\ UNCHANGED late
    BY <1>5 DEF MongoSave, etcd
  <2> QED  BY <2>4, <2>5, <2>6, ServerTypes
<1> QED  BY <1>1, <1>2, <1>3, <1>4, <1>5 DEF Answers

(* What a failed request may leave behind is a request. *)
LEMMA LeftBehind ==
    ASSUME TypeInv, NEW n \in Nodes
    PROVE  /\ UNCHANGED late \/ LeavesLate(n) => late' \subseteq Writes
           /\ UNCHANGED stray \/ LeavesStray(n) => stray' \subseteq Stray
<1>1. ASSUME LeavesLate(n) PROVE WriteOf(n) \in Writes
  <2>1. /\ row[n] \in Row /\ cache[n] \in Cache /\ row[n].handle \in Handle0
        /\ row[n].op # "none" => row[n].handle # NoHandle
    BY Members DEF RowOK
  <2>2. row[n].handle.fence \in Revs
    BY <1>1, <2>1, HandleParts DEF LeavesLate
  <2>3. /\ cache[n].base \cup row[n].write \in Contents /\ {} \in Contents
        /\ cache[n].version \in Nat /\ 0 \in Nat
    BY <2>1 DEF Cache, Row, Contents
  <2>4. SaveOf(n) \in Writes
    BY <2>2, <2>3 DEF SaveOf, Writes
  <2> QED  BY <2>2, <2>3, <2>4 DEF WriteOf, Writes
<1>2. ASSUME LeavesStray(n) PROVE RequestOf(n) \in Stray
  <2>1. gate[n] \in Gate /\ gate[n].lease \in Nat /\ gate[n].handle.fence \in Nat
    BY Members, HandleParts DEF Gate
  <2>2. gate[n].pc \in {"lock", "unlock"}
    BY <1>2 DEF LeavesStray, Waiting
  <2> QED  BY <2>1, <2>2 DEF RequestOf, Stray
<1>3. late \subseteq Writes /\ stray \subseteq Stray
  BY DEF TypeInv, TypeOK
<1> QED  BY <1>1, <1>2, <1>3 DEF LeavesLate, LeavesStray

LEMMA FailsTypes ==
    ASSUME TypeInv, NEW n \in Nodes, Fails(n)
    PROVE  TypeInv'
<1> USE Unchanged, Members, EtcdTypes
<1>0. /\ TypeOK /\ gate[n] \in Gate /\ row[n] \in Row /\ NoHandle \in Handle0 /\ {} \in Contents
      /\ "gate" \in {"gate", "sweep"} /\ "idle" \in Pcs /\ "load" \in Fors
  BY Nulls DEF Contents, Pcs, Fors
<1>1. ASSUME EtcdFails(n) PROVE TypeInv'
  <2> DEFINE g == [gate[n] EXCEPT !.reply = "failed", !.fence = 0]
  <2>0. 0 \in 0 .. MaxRev
    OBVIOUS
  <2>1. g \in Gate /\ gate' = [gate EXCEPT ![n] = g]
    <3>1. g \in Gate
      BY <1>0, <2>0 DEF Gate
    <3> QED BY <1>1, <3>1 DEF EtcdFails
  <2>2. g.pc = gate[n].pc /\ g.for = gate[n].for /\ g.reply = "failed"
    BY <1>0 DEF Gate
  <2> HIDE DEF g
  <2>3. g.pc = "lock" => g.for \in {"load", "recover"}
    BY <1>0, <2>2 DEF GateOK
  <2>4. gate' \in [Nodes -> Gate] /\ \A m \in Nodes : GateOK(m)'
    BY <2>1, <2>2, <2>3, GateAnswers
  <2>5. stray' \subseteq Stray /\ faults' \in 0 .. MaxFaults
    BY <1>1, LeftBehind DEF EtcdFails
  <2>6. \A m \in Nodes : RowOK(m)'
    BY <1>1 DEF EtcdFails, RowOK, TypeInv
  <2>7. TypeOK'
    BY <1>0, <1>1, <2>4, <2>5 DEF EtcdFails, TypeOK, mongo
  <2> QED  BY <2>4, <2>6, <2>7 DEF TypeInv
<1>2. ASSUME MongoFails(n) PROVE TypeInv'
  <2> DEFINE r == [row[n] EXCEPT !.reply = "failed", !.version = 0, !.content = {}]
  <2>1. r \in Row /\ row' = [row EXCEPT ![n] = r]
    <3>1. r \in Row
      BY <1>0 DEF Row
    <3> QED BY <1>2, <3>1 DEF MongoFails
  <2>2. r.op = row[n].op /\ r.handle = row[n].handle /\ r.tries = row[n].tries
    BY <1>0 DEF Row
  <2> HIDE DEF r
  <2>3. RowMoves(n)
    BY <1>0, <2>1, <2>2, RowAnswers DEF RowOK
  <2>4. late' \subseteq Writes /\ faults' \in 0 .. MaxFaults
    BY <1>2, LeftBehind DEF MongoFails
  <2>5. LocalStep(n)
    BY <1>2, <2>3, <2>4 DEF MongoFails, LocalStep, etcd
  <2>6. /\ UNCHANGED <<alive, granted>> /\ UNCHANGED <<key, rev>>
        /\ UNCHANGED stray /\ UNCHANGED revoked /\ UNCHANGED doc /\ UNCHANGED writer
    BY <1>2 DEF MongoFails, etcd
  <2> QED  BY <2>4, <2>5, <2>6, ServerTypes
<1>3. ASSUME Crash(n) PROVE TypeInv'
  <2>1. EntTyped' /\ CacheTyped' /\ RowMoves(n) /\ GateMoves(n)
    BY <1>0, <1>3, EntSteps, RowSteps, GateSteps DEF Crash
  <2>2. view' \in [Nodes -> [lease : 0 .. MaxLease, valid : BOOLEAN]]
    BY <1>0, <1>3, VarTypes DEF Crash
  <2>3. lock' \in [Nodes -> Handle0]
    BY <1>0, <1>3, VarTypes DEF Crash
  <2>4. stray' \subseteq Stray /\ late' \subseteq Writes /\ faults' \in 0 .. MaxFaults
    BY <1>3, LeftBehind DEF Crash
  <2>5. LocalStep(n)
    BY <1>3, <2>1, <2>2, <2>3, <2>4 DEF Crash, LocalStep
  <2>6. UNCHANGED <<alive, granted>> /\ UNCHANGED <<key, rev>> /\ UNCHANGED revoked /\ UNCHANGED doc /\ UNCHANGED writer
    BY <1>3 DEF Crash
  <2> QED  BY <2>4, <2>5, <2>6, ServerTypes
<1>4. ASSUME EtcdRetries(n) PROVE TypeInv'
  <2>1. stray' \subseteq Stray /\ faults' \in 0 .. MaxFaults
    BY <1>4, LeftBehind DEF EtcdRetries
  <2>2. TypeOK'
    BY <1>0, <1>4, <2>1 DEF EtcdRetries, TypeOK, mongo
  <2>3. \A m \in Nodes : RowOK(m)' /\ GateOK(m)'
    BY <1>4 DEF EtcdRetries, RowOK, GateOK, TypeInv
  <2> QED  BY <2>2, <2>3 DEF TypeInv
<1> QED  BY <1>1, <1>2, <1>3, <1>4 DEF Fails

LEMMA StrayTypes ==
    ASSUME TypeInv, NEW q \in stray, EtcdStray(q)
    PROVE  TypeInv'
<1>0. TypeOK /\ key \in Key
  BY DEF TypeInv, TypeOK
<1>1. key' \in Key /\ rev' \in 0 .. MaxRev /\ stray' \subseteq Stray /\ revoked' \subseteq Revs /\ TypeOK
  <2>1. key' \in Key /\ rev' \in 0 .. MaxRev /\ stray' \subseteq Stray
    BY <1>0, KeyTypes, EtcdTypes DEF EtcdStray, TypeInv, TypeOK
  <2>2. key # NoKey => key.rev \in Revs
    BY <1>0 DEF Key
  <2> QED  BY <1>0, <2>1, <2>2 DEF EtcdStray, TypeOK
<1>2. TypeOK'
  BY <1>1 DEF EtcdStray, TypeOK, mongo
<1>3. \A m \in Nodes : RowOK(m)' /\ GateOK(m)'
  BY DEF EtcdStray, RowOK, GateOK, TypeInv
<1> QED  BY <1>2, <1>3 DEF TypeInv

LEMMA LateTypes ==
    ASSUME TypeInv, NEW w \in late, LateWrite(w)
    PROVE  TypeInv'
<1>1. /\ TypeOK /\ w \in Writes /\ doc \in Doc /\ late \subseteq Writes /\ writer \subseteq Nodes
      /\ doc.version + 1 \in Nat /\ 0 \in Nat /\ {} \in Contents
  BY DEF TypeInv, TypeOK, Doc, Contents
<1>2. /\ w.fence \in 0 .. MaxRev /\ w.content \in Contents /\ w.node \in Nodes
  BY <1>1 DEF Writes, Revs
<1>3. /\ Claim(w.fence) => doc' \in Doc
      /\ Create(w.fence) => doc' \in Doc
      /\ Write(w) => doc' \in Doc /\ writer' \subseteq Nodes
  <2>1. Claim(w.fence) => doc' \in Doc
    BY <1>1, <1>2 DEF Claim, Doc
  <2>2. Create(w.fence) => doc' \in Doc
    BY <1>1, <1>2 DEF Create, Doc
  <2>3. Write(w) => doc' \in Doc /\ writer' \subseteq Nodes
    <3>1. Write(w) => doc' = [doc EXCEPT !.version = doc.version + 1, !.content = w.content]
                      /\ writer' = {w.node}
      BY DEF Write
    <3>2. [doc EXCEPT !.version = doc.version + 1, !.content = w.content] \in Doc
      BY <1>1, <1>2 DEF Doc
    <3> QED  BY <1>2, <3>1, <3>2
  <2> QED  BY <2>1, <2>2, <2>3
<1>4. late' \subseteq Writes /\ doc' \in Doc /\ writer' \subseteq Nodes
  BY <1>1, <1>3 DEF LateWrite
<1>5. TypeOK'
  BY <1>1, <1>4 DEF LateWrite, TypeOK, etcd
<1>6. \A m \in Nodes : RowOK(m)' /\ GateOK(m)'
  BY DEF LateWrite, RowOK, GateOK, TypeInv
<1> QED  BY <1>5, <1>6 DEF TypeInv

LEMMA InitTypes == Init => TypeInv
<1> SUFFICES ASSUME Init PROVE TypeInv
  OBVIOUS
<1>1. 0 \in 0 .. MaxLease /\ 0 \in 0 .. MaxRev /\ 0 \in 0 .. MaxFaults /\ 0 \in Nat /\ {} \in Contents
  BY DEF Contents
<1>2. doc \in Doc
  BY <1>1 DEF Init, Doc
<1>3. view \in [Nodes -> [lease : 0 .. MaxLease, valid : BOOLEAN]]
  BY <1>1 DEF Init
<1>4. TypeOK
  BY <1>1, <1>2, <1>3, Nulls DEF Init, TypeOK
<1>5. \A n \in Nodes : RowOK(n) /\ GateOK(n)
  BY DEF Init, RowOK, GateOK, FreeRow, Idle
<1> QED  BY <1>4, <1>5 DEF TypeInv

LEMMA StepTypes == TypeInv /\ [Next]_vars => TypeInv'
<1> SUFFICES ASSUME TypeInv, [Next]_vars PROVE TypeInv'
  OBVIOUS
<1>1. ASSUME NEW n \in Nodes, Lease(n) \/ Answers(n) \/ Fails(n) \/ Loads(n) \/ Serves(n)
                              \/ Leaves(n) \/ Starts(n)
      PROVE  TypeInv'
  BY <1>1, LeaseTypes, AnswersTypes, FailsTypes, LoadsTypes, ServesTypes, LeavesTypes, StartsTypes
<1>2. ASSUME NEW n \in Nodes, NEW m \in Mutations, Mutate(n, m) PROVE TypeInv'
  BY <1>2, ServesTypes
<1>3. ASSUME NEW l \in Leases, ExpireLease(l) PROVE TypeInv'
  BY <1>3, ExpireTypes
<1>4. ASSUME NEW q \in stray, EtcdStray(q) PROVE TypeInv'
  BY <1>4, StrayTypes
<1>5. ASSUME NEW w \in late, LateWrite(w) PROVE TypeInv'
  BY <1>5, LateTypes
<1>6. ASSUME UNCHANGED vars PROVE TypeInv'
  BY <1>6 DEF vars, etcd, mongo, TypeInv, TypeOK, RowOK, GateOK
<1> QED  BY <1>1, <1>2, <1>3, <1>4, <1>5, <1>6 DEF Next

(* The types are invariant: in particular every request that MongoDB gets,  *)
(* and everything a crash leaves on its way, carries a fence that etcd has  *)
(* given out, and a handle is only built from a granted lease and a fence.  *)
THEOREM TypeCorrect == Spec => []TypeOK
<1>1. Spec => []TypeInv
  BY InitTypes, StepTypes, PTL DEF Spec
<1>2. TypeInv => TypeOK
  BY DEF TypeInv
<1> QED  BY <1>1, <1>2, PTL

-----------------------------------------------------------------------------
(* Why no write undoes another: the document that a node has in memory, that *)
(* an answer carries, or that a late write builds on, is one that MongoDB    *)
(* had at that version.                                                     *)

Snapshot(v, c) ==
    doc.exists /\ v <= doc.version /\ c \subseteq doc.content /\ (v = doc.version => c = doc.content)

CacheInv(n) == cache[n].handle # NoHandle => Snapshot(cache[n].version, cache[n].base)

RowInv(n) ==
    /\ row[n].op \in {"claim", "resolve"} /\ row[n].reply = "ok" =>
          Snapshot(row[n].version, row[n].content)
    /\ row[n].op = "save" => cache[n].handle # NoHandle
    /\ row[n].op = "save" /\ row[n].reply = "ok" =>
          Snapshot(cache[n].version + 1, cache[n].base \cup row[n].write)

LateInv == \A w \in late : w.op = "save" =>
    doc.exists /\ w.version <= doc.version /\ (w.version = doc.version => doc.content \subseteq w.content)

(* Who holds the row lock, and the operations that have the entity in hand. *)
Requests(pc) == CASE pc = "load" -> {"claim", "resolve"}
                  [] pc \in {"save", "flush"} -> {"save"}
                  [] pc = "recover" -> {"claim", "resolve", "save"}
                  [] OTHER -> {}
NeedsEnt(g) ==
    \/ g.pc \in {"init", "discard", "hooks", "flush", "recover"}
    \/ g.pc = "lock" /\ g.for = "recover"
    \/ g.pc = "unlock" /\ g.for \in {"recover", "release"}

FlowInv(n) ==
    /\ row[n].by = "none" => row[n].op = "none"
    /\ row[n].by = "sweep" => row[n].op = "save"
    /\ row[n].by = "gate" => row[n].op \in Requests(gate[n].pc)
    /\ row[n].by = "gate" /\ gate[n].pc = "recover" => cache[n].handle # NoHandle
    /\ ent[n] # NoEnt => ent[n].handle # NoHandle
    /\ NeedsEnt(gate[n]) => ent[n].handle # NoHandle

Absent == ~doc.exists => doc.version = 0 /\ doc.content = {}

NodeInv(n) == CacheInv(n) /\ RowInv(n) /\ FlowInv(n)

StoreInv == Absent /\ LateInv /\ \A n \in Nodes : NodeInv(n)

Inv == TypeInv /\ StoreInv /\ AckedDurable

HasEnt(n) == ent[n].handle # NoHandle
EntOK(n)  == ent[n] # NoEnt => HasEnt(n)
EntAfter(n) == EntOK(n)' /\ (NeedsEnt(gate'[n]) => HasEnt(n)')

SameDoc(n) ==
    /\ cache'[n].handle = cache[n].handle /\ cache'[n].version = cache[n].version
    /\ cache'[n].base = cache[n].base

(* A step of n leaves the other nodes alone. *)
OthersKept(n) == \A m \in Nodes : m # n =>
    row'[m] = row[m] /\ cache'[m] = cache[m] /\ gate'[m] = gate[m] /\ ent'[m] = ent[m]

LEMMA KeptByParts ==
    ASSUME TypeInv, NEW n \in Nodes
    PROVE  /\ \A pc, h : To(n, pc, h) => \A m \in Nodes : m # n => gate'[m] = gate[m]
           /\ EndGate(n) => \A m \in Nodes : m # n => gate'[m] = gate[m]
           /\ \A for : SendLock(n, for) => \A m \in Nodes : m # n => gate'[m] = gate[m]
           /\ \A for, h : SendUnlock(n, for, h) => \A m \in Nodes : m # n => gate'[m] = gate[m]
           /\ \A h : OnLockExpired(n, h) => \A m \in Nodes : m # n => ent'[m] = ent[m]
           /\ Forget(n) => \A m \in Nodes : m # n => ent'[m] = ent[m]
           /\ ArmRetry(n) => \A m \in Nodes : m # n => ent'[m] = ent[m]
           /\ DropCache(n) => \A m \in Nodes : m # n => cache'[m] = cache[m]
           /\ FreeTheRow(n) => \A m \in Nodes : m # n => row'[m] = row[m]
           /\ \A h : SendClaim(n, h) => \A m \in Nodes : m # n => row'[m] = row[m]
           /\ \A by, h : SendSave(n, by, h) => \A m \in Nodes : m # n => row'[m] = row[m]
<1>1. /\ gate \in [Nodes -> Gate] /\ ent \in [Nodes -> Ent] /\ cache \in [Nodes -> Cache]
      /\ row \in [Nodes -> Row]
  BY DEF TypeInv, TypeOK
<1> QED
  BY <1>1 DEF To, EndGate, SendLock, SendUnlock, OnLockExpired, Forget, ArmRetry, DropCache,
              FreeTheRow, SendClaim, SendSave

LEMMA LeavesKeeps ==
    ASSUME TypeInv, NEW n \in Nodes, Leaves(n)
    PROVE  OthersKept(n)
<1> USE KeptByParts
<1>1. /\ gate \in [Nodes -> Gate] /\ ent \in [Nodes -> Ent] /\ cache \in [Nodes -> Cache]
      /\ row \in [Nodes -> Row]
  BY DEF TypeInv, TypeOK
<1>2. ASSUME NEW k, RecoveryFailed(n, k) PROVE \A m \in Nodes : m # n => ent'[m] = ent[m] /\ cache'[m] = cache[m]
  BY <1>1, <1>2 DEF RecoveryFailed
<1>3. ASSUME NEW e, Release(n, e) PROVE \A m \in Nodes : m # n => ent'[m] = ent[m] /\ gate'[m] = gate[m]
  BY <1>1, <1>3 DEF Release
<1>4. HooksReturn(n) => OthersKept(n)
  BY <1>1 DEF HooksReturn, OthersKept
<1>5. FlushBegins(n) => OthersKept(n)
  BY <1>1, <1>3 DEF FlushBegins, OthersKept, Abort, Persisted
<1>6. FlushReturns(n) => OthersKept(n)
  BY <1>1, <1>3 DEF FlushReturns, OthersKept, Abort, Persisted
<1>7. Discard(n) => OthersKept(n)
  BY <1>1, <1>2 DEF Discard, OthersKept
<1>8. RecoverFails(n) => \A m \in Nodes : m # n => ent'[m] = ent[m] /\ gate'[m] = gate[m] /\ cache'[m] = cache[m]
  BY <1>2 DEF RecoverFails
<1>9. Superseded(n) => \A m \in Nodes : m # n => ent'[m] = ent[m] /\ gate'[m] = gate[m]
  BY DEF Superseded
<1>10. RecoverBegins(n) => OthersKept(n)
  BY <1>1, <1>3, <1>8, <1>9 DEF RecoverBegins, OthersKept, Recovered
<1>11. RecoverClaimed(n) => OthersKept(n)
  BY <1>1, <1>8, <1>9 DEF RecoverClaimed, OthersKept
<1>12. RecoverSaved(n) => OthersKept(n)
  BY <1>1, <1>3, <1>8 DEF RecoverSaved, OthersKept, Recovered
<1>13. UnlockReturns(n) => OthersKept(n)
  <2>1. ASSUME UnlockReturns(n)
        PROVE  \A m \in Nodes : m # n => ent'[m] = ent[m] /\ cache'[m] = cache[m]
    <3>1. gate[n].for \in Fors
      BY Members
    <3>2. CASE gate[n].for = "load"
      BY <2>1, <3>2 DEF UnlockReturns
    <3>3. CASE gate[n].for = "superseded"
      BY <2>1, <3>3 DEF UnlockReturns
    <3>4. CASE gate[n].for = "recover"
      BY <1>2, <2>1, <3>4 DEF UnlockReturns
    <3>5. CASE gate[n].for = "release"
      BY <1>1, <2>1, <3>5 DEF UnlockReturns
    <3> QED  BY <3>1, <3>2, <3>3, <3>4, <3>5 DEF Fors
  <2>2. ASSUME UnlockReturns(n) PROVE EndGate(n) /\ UNCHANGED row
    BY <2>2 DEF UnlockReturns
  <2> QED  BY <2>1, <2>2 DEF OthersKept
<1> QED  BY <1>4, <1>5, <1>6, <1>7, <1>10, <1>11, <1>12, <1>13 DEF Leaves

LEMMA StepsKeep ==
    ASSUME TypeInv, NEW n \in Nodes,
           Loads(n) \/ Serves(n) \/ Starts(n) \/ Lease(n) \/ \E m \in Mutations : Mutate(n, m)
    PROVE  OthersKept(n)
<1> USE KeptByParts
<1>1. /\ gate \in [Nodes -> Gate] /\ ent \in [Nodes -> Ent] /\ cache \in [Nodes -> Cache]
      /\ row \in [Nodes -> Row]
  BY DEF TypeInv, TypeOK
<1>2. ASSUME NEW k, RecoveryFailed(n, k) PROVE \A m \in Nodes : m # n => ent'[m] = ent[m] /\ cache'[m] = cache[m]
  BY <1>1, <1>2 DEF RecoveryFailed
<1>3. ASSUME NEW e, Release(n, e) PROVE \A m \in Nodes : m # n => ent'[m] = ent[m] /\ gate'[m] = gate[m]
  BY <1>1, <1>3 DEF Release
<1>4. ASSUME UnloadEntity(n) PROVE \A m \in Nodes : m # n => ent'[m] = ent[m] /\ gate'[m] = gate[m]
  BY <1>1, <1>3, <1>4 DEF UnloadEntity
<1>5. Enter(n) => \A m \in Nodes : m # n => ent'[m] = ent[m] /\ gate'[m] = gate[m]
  BY <1>1 DEF Enter
<1>6. Loads(n) => OthersKept(n)
  <2>1. LockReturns(n) => OthersKept(n)
    BY <1>1, <1>2 DEF LockReturns, OthersKept
  <2>2. LoadBegins(n) => OthersKept(n)
    BY <1>1, <1>5 DEF LoadBegins, LoadFails, OthersKept
  <2>3. LoadReturns(n) => OthersKept(n)
    BY <1>1, <1>5 DEF LoadReturns, LoadFails, OthersKept
  <2>4. InitReturns(n) => OthersKept(n)
    BY <1>4 DEF InitReturns, OthersKept
  <2> QED  BY <2>1, <2>2, <2>3, <2>4 DEF Loads
<1>7. Serves(n) => OthersKept(n)
  BY <1>1 DEF Serves, HandlerReturns, SaveReturns, OthersKept
<1>8. Starts(n) => OthersKept(n)
  <2>1. Unload(n) => OthersKept(n)
    BY <1>4 DEF Unload, OthersKept
  <2>2. Serve(n) \/ StartLoad(n) => OthersKept(n)
    BY DEF Serve, StartLoad, OthersKept
  <2>3. HandlerSaves(n) \/ SweepSaves(n) => OthersKept(n)
    BY <1>1 DEF HandlerSaves, SweepSaves, OthersKept
  <2> QED  BY <2>1, <2>2, <2>3 DEF Starts
<1>9. Lease(n) => OthersKept(n)
  BY DEF Lease, LoseLease, Resurrect, NewLease, OthersKept
<1>10. ASSUME NEW m \in Mutations, Mutate(n, m) PROVE OthersKept(n)
  BY <1>1, <1>10 DEF Mutate, OthersKept
<1> QED  BY <1>6, <1>7, <1>8, <1>9, <1>10

(* The row after a step of n that asks MongoDB for nothing, or for something. *)
RowAfter(n) ==
    \/ row'[n] = FreeRow
    \/ row'[n] = row[n] /\ row[n].by # "gate" /\ (row[n].op = "save" => SameDoc(n))
    \/ /\ row'[n].reply = "none" /\ row'[n].by = "gate" /\ row'[n].op \in Requests(gate'[n].pc)
       /\ row'[n].op = "save" \/ gate'[n].pc = "recover" => cache'[n].handle # NoHandle
    \/ /\ row'[n].reply = "none" /\ row'[n].by = "sweep" /\ row'[n].op = "save"
       /\ cache'[n].handle # NoHandle

LEMMA NodeAfter ==
    ASSUME TypeInv, NEW n \in Nodes, NodeInv(n), UNCHANGED doc, EntAfter(n), CacheInv(n)', RowAfter(n)
    PROVE  NodeInv(n)'
<1>1. FlowInv(n)'
  <2>1. CASE row'[n] = FreeRow
    BY <2>1 DEF FlowInv, EntAfter, EntOK, HasEnt, FreeRow
  <2>2. CASE row'[n] = row[n] /\ row[n].by # "gate" /\ (row[n].op = "save" => SameDoc(n))
    BY <2>2 DEF FlowInv, EntAfter, EntOK, HasEnt, NodeInv
  <2>3. CASE row'[n].by = "gate" /\ row'[n].op \in Requests(gate'[n].pc)
             /\ (row'[n].op = "save" \/ gate'[n].pc = "recover" => cache'[n].handle # NoHandle)
    BY <2>3 DEF FlowInv, EntAfter, EntOK, HasEnt
  <2>4. CASE row'[n].by = "sweep" /\ row'[n].op = "save"
    BY <2>4 DEF FlowInv, EntAfter, EntOK, HasEnt
  <2> QED  BY <2>1, <2>2, <2>3, <2>4 DEF RowAfter
<1>2. RowInv(n)'
  <2>1. CASE row'[n] = FreeRow
    BY <2>1 DEF RowInv, FreeRow
  <2>2. CASE row'[n] = row[n] /\ row[n].by # "gate" /\ (row[n].op = "save" => SameDoc(n))
    <3>1. row[n].op \notin {"claim", "resolve"}
      <4>1. row[n].by \in {"none", "gate", "sweep"}
        BY Members DEF Row
      <4> QED  BY <2>2, <4>1 DEF NodeInv, FlowInv
    <3>2. UNCHANGED doc
      OBVIOUS
    <3>3. \A v, c : Snapshot(v, c) => (Snapshot(v, c))'
      BY <3>2 DEF Snapshot
    <3>4. row[n].op = "save" /\ row[n].reply = "ok" =>
            (Snapshot(cache[n].version + 1, cache[n].base \cup row[n].write))'
      BY <2>2, <3>2 DEF NodeInv, RowInv, SameDoc, Snapshot
    <3> QED  BY <2>2, <3>1, <3>4 DEF NodeInv, RowInv, SameDoc
  <2>3. CASE row'[n].reply = "none" /\ (row'[n].op = "save" => cache'[n].handle # NoHandle)
    BY <2>3 DEF RowInv
  <2> QED  BY <2>1, <2>2, <2>3 DEF RowAfter
<1> QED  BY <1>1, <1>2 DEF NodeInv

LEMMA CacheAfter ==
    ASSUME NEW n, CacheInv(n), UNCHANGED doc,
           \/ cache'[n] = NoCache
           \/ SameDoc(n)
           \/ Snapshot(cache'[n].version, cache'[n].base)
    PROVE  CacheInv(n)'
<1>1. CASE cache'[n] = NoCache
  BY <1>1 DEF CacheInv, NoCache
<1>2. CASE SameDoc(n)
  BY <1>2 DEF CacheInv, SameDoc, Snapshot
<1>3. CASE Snapshot(cache'[n].version, cache'[n].base)
  BY <1>3 DEF CacheInv, Snapshot
<1> QED  BY <1>1, <1>2, <1>3

(* What the parts of an action do to their own node. *)
LEMMA Effects ==
    ASSUME TypeInv, NEW n \in Nodes
    PROVE  /\ EndGate(n) => ~NeedsEnt(gate'[n])
           /\ \A pc, h : To(n, pc, h) => gate'[n].pc = pc
           /\ \A for : SendLock(n, for) => gate'[n].pc = "lock" /\ gate'[n].for = for
           /\ \A for, h : SendUnlock(n, for, h) => gate'[n].pc = "unlock" /\ gate'[n].for = for
           /\ \A h : OnLockExpired(n, h) /\ EntOK(n) => EntOK(n)' /\ (HasEnt(n) => HasEnt(n)')
           /\ UNCHANGED ent /\ EntOK(n) => EntOK(n)' /\ (HasEnt(n) => HasEnt(n)')
           /\ Forget(n) => EntOK(n)'
           /\ ArmRetry(n) /\ HasEnt(n) => HasEnt(n)'
           /\ HasEnt(n) => EntOK(n)
           /\ HasEnt(n)' => EntOK(n)'
           /\ DropCache(n) => cache'[n] = NoCache
           /\ UNCHANGED cache => SameDoc(n)
           /\ FreeTheRow(n) => row'[n] = FreeRow
<1>1. /\ gate \in [Nodes -> Gate] /\ ent \in [Nodes -> Ent] /\ cache \in [Nodes -> Cache]
      /\ row \in [Nodes -> Row] /\ ent[n] \in Ent
  BY DEF TypeInv, TypeOK
<1>2. EndGate(n) => ~NeedsEnt(gate'[n])
  BY <1>1 DEF EndGate, NeedsEnt, Idle
<1>3. \A pc, h : To(n, pc, h) => gate'[n].pc = pc
  BY <1>1 DEF To, Idle
<1>4. \A for : SendLock(n, for) => gate'[n].pc = "lock" /\ gate'[n].for = for
  BY <1>1 DEF SendLock, Idle
<1>5. \A for, h : SendUnlock(n, for, h) => gate'[n].pc = "unlock" /\ gate'[n].for = for
  BY <1>1 DEF SendUnlock, Idle
<1>6. \A h : OnLockExpired(n, h) /\ EntOK(n) => EntOK(n)' /\ (HasEnt(n) => HasEnt(n)')
  <2>1. ASSUME NEW h, OnLockExpired(n, h) PROVE ent'[n] = ent[n] \/ (InMemory(n) /\ ent'[n].handle = ent[n].handle)
    BY <1>1, <2>1 DEF OnLockExpired, Ent
  <2> QED  BY <2>1 DEF EntOK, HasEnt, InMemory
<1>7. ArmRetry(n) /\ HasEnt(n) => HasEnt(n)'
  BY <1>1 DEF ArmRetry, HasEnt, Ent
<1>8. Forget(n) => EntOK(n)'
  BY <1>1 DEF Forget, EntOK
<1>9. DropCache(n) => cache'[n] = NoCache
  BY <1>1 DEF DropCache
<1>10. FreeTheRow(n) => row'[n] = FreeRow
  BY <1>1 DEF FreeTheRow
<1>11. /\ UNCHANGED ent /\ EntOK(n) => EntOK(n)' /\ (HasEnt(n) => HasEnt(n)')
       /\ HasEnt(n) => EntOK(n)
       /\ HasEnt(n)' => EntOK(n)'
       /\ UNCHANGED cache => SameDoc(n)
  BY DEF EntOK, HasEnt, SameDoc
<1> QED  BY <1>2, <1>3, <1>4, <1>5, <1>6, <1>7, <1>8, <1>9, <1>10, <1>11

LEMMA RecoveryEffects ==
    ASSUME TypeInv, NEW n \in Nodes, NEW k, RecoveryFailed(n, k), HasEnt(n)
    PROVE  EntOK(n)' /\ (cache'[n] = NoCache \/ SameDoc(n)) /\ row[n].by # "sweep"
<1>1. ent \in [Nodes -> Ent] /\ ent[n] \in Ent /\ cache \in [Nodes -> Cache] /\ cache[n] \in Cache
  BY DEF TypeInv, TypeOK
<1>2. CASE k >= MaxTries
  BY <1>2, Effects DEF RecoveryFailed
<1>3. CASE ~(k >= MaxTries)
  <2>1. HasEnt(n)'
    BY <1>1, <1>3 DEF RecoveryFailed, HasEnt, Ent
  <2>2. SameDoc(n)
    BY <1>1, <1>3 DEF RecoveryFailed, SameDoc, Cache
  <2>3. row[n].by # "sweep"
    BY DEF RecoveryFailed
  <2> QED  BY <2>1, <2>2, <2>3, Effects
<1> QED  BY <1>2, <1>3 DEF RecoveryFailed

LEMMA ReleaseEffects ==
    ASSUME TypeInv, NEW n \in Nodes, NEW e, Release(n, e)
    PROVE  EntAfter(n)
<1>1. ent \in [Nodes -> Ent]
  BY DEF TypeInv, TypeOK
<1>2. CASE Valid(n, e.handle)
  <2>1. ent'[n] = e
    BY <1>1, <1>2 DEF Release
  <2> QED  BY <1>2, <2>1 DEF EntAfter, EntOK, HasEnt, Valid
<1>3. CASE ~Valid(n, e.handle)
  BY <1>3, Effects DEF Release, EntAfter
<1> QED  BY <1>2, <1>3

LEMMA UnloadEffects ==
    ASSUME TypeInv, NEW n \in Nodes, UnloadEntity(n), HasEnt(n)
    PROVE  EntAfter(n)
<1> DEFINE e == [ent[n] EXCEPT !.unloading = TRUE, !.armed = FALSE]
<1>1. ent \in [Nodes -> Ent] /\ ent[n] \in Ent
  BY DEF TypeInv, TypeOK
<1>2. e.handle = ent[n].handle /\ [e EXCEPT !.invalid = TRUE].handle = ent[n].handle
  BY <1>1 DEF Ent
<1>3. Release(n, e) \/ ent' = [ent EXCEPT ![n] = e] \/ ent' = [ent EXCEPT ![n] = [e EXCEPT !.invalid = TRUE]]
  BY DEF UnloadEntity
<1> HIDE DEF e
<1>4. Release(n, e) \/ HasEnt(n)'
  BY <1>1, <1>2, <1>3 DEF HasEnt
<1> QED  BY <1>4, ReleaseEffects, Effects DEF EntAfter

LEMMA StepEffects ==
    ASSUME TypeInv, NEW n \in Nodes
    PROVE  /\ RecoverFails(n) /\ HasEnt(n) => EntAfter(n) /\ (cache'[n] = NoCache \/ SameDoc(n))
           /\ Superseded(n) /\ HasEnt(n) => EntAfter(n)
           /\ Recovered(n) => EntAfter(n) /\ cache'[n] = NoCache
           /\ Abort(n) /\ HasEnt(n) => EntAfter(n)
           /\ Persisted(n) => EntAfter(n)
           /\ LoadFails(n) /\ UNCHANGED ent /\ EntOK(n) => EntAfter(n)
           /\ Enter(n) /\ gate[n].handle # NoHandle => EntAfter(n)
<1> USE Effects
<1>1. RecoverFails(n) /\ HasEnt(n) => EntAfter(n) /\ (cache'[n] = NoCache \/ SameDoc(n))
  <2>1. CASE Valid(n, gate[n].handle)
    BY <2>1 DEF RecoverFails, EntAfter
  <2>2. CASE ~Valid(n, gate[n].handle)
    BY <2>2, RecoveryEffects DEF RecoverFails, EntAfter
  <2> QED  BY <2>1, <2>2
<1>2. Superseded(n) /\ HasEnt(n) => EntAfter(n)
  BY DEF Superseded, EntAfter
<1>3. Recovered(n) => EntAfter(n) /\ cache'[n] = NoCache
  BY ReleaseEffects DEF Recovered
<1>4. Abort(n) /\ HasEnt(n) => EntAfter(n)
  BY DEF Abort, EntAfter
<1>5. Persisted(n) => EntAfter(n)
  BY ReleaseEffects DEF Persisted
<1>6. LoadFails(n) /\ UNCHANGED ent /\ EntOK(n) => EntAfter(n)
  <2>1. CASE Valid(n, gate[n].handle)
    <3>1. LoadFails(n) => gate'[n].pc = "unlock" /\ gate'[n].for = "load"
      BY <2>1 DEF LoadFails
    <3> QED  BY <3>1 DEF EntAfter, NeedsEnt
  <2>2. CASE ~Valid(n, gate[n].handle)
    BY <2>2 DEF LoadFails, EntAfter
  <2> QED  BY <2>1, <2>2
<1>7. Enter(n) /\ gate[n].handle # NoHandle => EntAfter(n)
  <2>1. ent \in [Nodes -> Ent]
    BY DEF TypeInv, TypeOK
  <2>2. Enter(n) => ent'[n].handle = gate[n].handle
    BY <2>1 DEF Enter, NoEnt
  <2> QED  BY <2>2 DEF EntAfter, HasEnt
<1> QED  BY <1>1, <1>2, <1>3, <1>4, <1>5, <1>6, <1>7

(* Requests that are sent. *)
LEMMA SendEffects ==
    ASSUME TypeInv, NEW n \in Nodes
    PROVE  /\ \A h : SendClaim(n, h) =>
                row'[n].reply = "none" /\ row'[n].by = "gate" /\ row'[n].op = "claim"
           /\ \A by, h : SendSave(n, by, h) =>
                row'[n].reply = "none" /\ row'[n].by = by /\ row'[n].op = "save"
<1>1. row \in [Nodes -> Row]
  BY DEF TypeInv, TypeOK
<1> QED  BY <1>1 DEF SendClaim, SendSave, FreeRow

LEMMA NodeFacts ==
    ASSUME TypeInv, NEW n \in Nodes, NodeInv(n)
    PROVE  /\ EntOK(n) /\ CacheInv(n)
           /\ NeedsEnt(gate[n]) => HasEnt(n)
           /\ Requests(gate[n].pc) = {} => row[n].by # "gate"
           /\ RowFree(n) => row[n].by # "gate" /\ row[n].op # "save"
           /\ row[n].by # "gate" /\ row[n].by # "sweep" => row[n].op # "save"
<1>1. row[n].by \in {"none", "gate", "sweep"}
  BY Members DEF Row
<1> QED  BY <1>1 DEF NodeInv, FlowInv, EntOK, HasEnt, RowFree, FreeRow

LEMMA LeavesInv ==
    ASSUME TypeInv, NEW n \in Nodes, NodeInv(n), Leaves(n)
    PROVE  NodeInv(n)'
<1> USE Effects, NodeFacts, StepEffects
<1>0. UNCHANGED doc
  BY DEF Leaves, HooksReturn, FlushBegins, FlushReturns, Discard, RecoverBegins, RecoverClaimed,
         RecoverSaved, UnlockReturns, mongo
<1>1. ASSUME HooksReturn(n) PROVE NodeInv(n)'
  <2>1. Requests(gate[n].pc) = {} /\ NeedsEnt(gate[n])
    BY <1>1 DEF HooksReturn, Requests, NeedsEnt
  <2>2. EntAfter(n)
    <3>1. ent \in [Nodes -> Ent] /\ ent[n] \in Ent
      BY DEF TypeInv, TypeOK
    <3>2. HasEnt(n)'
      BY <1>1, <2>1, <3>1 DEF HooksReturn, HasEnt, Ent, ArmRetry
    <3> QED  BY <3>2 DEF EntAfter
  <2>3. RowAfter(n) /\ SameDoc(n)
    BY <1>1, <2>1 DEF HooksReturn, RowAfter, SameDoc
  <2> QED  BY <1>0, <2>2, <2>3, CacheAfter, NodeAfter
<1>2. ASSUME FlushBegins(n) PROVE NodeInv(n)'
  <2>1. NeedsEnt(gate[n]) /\ RowFree(n) /\ HasEnt(n) /\ gate[n].pc = "flush"
    BY <1>2 DEF FlushBegins, NeedsEnt
  <2>2. CASE Abort(n) /\ UNCHANGED <<cache, row>>
    <3>1. EntAfter(n) /\ SameDoc(n) /\ RowAfter(n)
      BY <2>1, <2>2 DEF RowAfter
    <3> QED  BY <1>0, <3>1, CacheAfter, NodeAfter
  <2>3. CASE SendSave(n, "gate", cache[n].handle) /\ UNCHANGED <<cache, ent, gate>>
             /\ Valid(n, cache[n].handle)
    <3>1. EntAfter(n) /\ SameDoc(n)
      BY <2>1, <2>3 DEF EntAfter
    <3>2. "save" \in Requests("flush")
      BY DEF Requests
    <3>3. RowAfter(n)
      BY <2>1, <2>3, <3>2, SendEffects, ValidHandle DEF RowAfter
    <3> QED  BY <1>0, <3>1, <3>3, CacheAfter, NodeAfter
  <2>4. CASE DropCache(n) /\ Persisted(n) /\ UNCHANGED row
    <3>1. EntAfter(n) /\ cache'[n] = NoCache /\ RowAfter(n)
      BY <2>1, <2>4 DEF RowAfter
    <3> QED  BY <1>0, <3>1, CacheAfter, NodeAfter
  <2> QED  BY <1>2, <2>2, <2>3, <2>4 DEF FlushBegins
<1>3. ASSUME FlushReturns(n) PROVE NodeInv(n)'
  <2>1. NeedsEnt(gate[n]) /\ HasEnt(n) /\ row[n].op = "save" /\ cache[n].handle # NoHandle
    BY <1>3 DEF FlushReturns, Answered, NeedsEnt, NodeInv, FlowInv, Requests, RowInv
  <2>2. RowAfter(n)
    BY <1>3 DEF FlushReturns, RowAfter
  <2>3. EntAfter(n)
    BY <1>3, <2>1 DEF FlushReturns
  <2>4. \/ cache'[n] = NoCache \/ SameDoc(n)
        \/ Snapshot(cache'[n].version, cache'[n].base)
    <3>1. CASE ~Saved(n)
      BY <1>3, <3>1 DEF FlushReturns
    <3>2. CASE Saved(n) /\ DropCache(n)
      BY <3>2
    <3>3. CASE Saved(n) /\ cache' = [cache EXCEPT ![n] = Acked(n)]
      <4>1. Snapshot(cache[n].version + 1, cache[n].base \cup row[n].write)
        BY <2>1, <3>3 DEF Saved, NodeInv, RowInv
      <4>2. cache \in [Nodes -> Cache] /\ cache[n] \in Cache
        BY DEF TypeInv, TypeOK
      <4>3. Acked(n).version = cache[n].version + 1 /\ Acked(n).base = cache[n].base \cup row[n].write
        BY <4>2 DEF Acked, Cache
      <4> QED  BY <3>3, <4>1, <4>2, <4>3
    <3> QED  BY <1>3, <3>1, <3>2, <3>3 DEF FlushReturns
  <2> QED  BY <1>0, <2>2, <2>3, <2>4, CacheAfter, NodeAfter
<1>4. ASSUME Discard(n) PROVE NodeInv(n)'
  <2>1. NeedsEnt(gate[n]) /\ HasEnt(n) /\ RowFree(n) /\ UNCHANGED row
    BY <1>4 DEF Discard, NeedsEnt
  <2>2. EntAfter(n) /\ (cache'[n] = NoCache \/ SameDoc(n))
    <3>1. CASE DropCache(n) /\ Forget(n) /\ EndGate(n)
      BY <3>1 DEF EntAfter
    <3>2. CASE /\ cache' = [cache EXCEPT ![n].wheel = FALSE] \/ UNCHANGED cache
               /\ ent' = [ent EXCEPT ![n].tries = ent[n].tries + 1]
      <4>1. ent \in [Nodes -> Ent] /\ ent[n] \in Ent /\ cache \in [Nodes -> Cache] /\ cache[n] \in Cache
        BY DEF TypeInv, TypeOK
      <4>2. HasEnt(n)'
        BY <2>1, <3>2, <4>1 DEF HasEnt, Ent
      <4>3. SameDoc(n)
        BY <3>2, <4>1 DEF SameDoc, Cache
      <4> QED  BY <4>2, <4>3 DEF EntAfter
    <3>3. CASE RecoveryFailed(n, ent[n].tries + 1) /\ EndGate(n)
      BY <2>1, <3>3, RecoveryEffects DEF EntAfter
    <3> QED  BY <1>4, <3>1, <3>2, <3>3 DEF Discard
  <2>3. RowAfter(n)
    BY <2>1 DEF RowAfter
  <2> QED  BY <1>0, <2>2, <2>3, CacheAfter, NodeAfter
<1>5. ASSUME RecoverBegins(n) PROVE NodeInv(n)'
  <2>1. NeedsEnt(gate[n]) /\ HasEnt(n) /\ RowFree(n) /\ gate[n].pc = "recover"
    BY <1>5 DEF RecoverBegins, NeedsEnt
  <2>2. CASE Superseded(n) /\ UNCHANGED <<cache, row>>
    <3>1. EntAfter(n) /\ SameDoc(n) /\ RowAfter(n)
      BY <2>1, <2>2 DEF RowAfter
    <3> QED  BY <1>0, <3>1, CacheAfter, NodeAfter
  <2>3. CASE Recovered(n) /\ UNCHANGED row
    <3>1. EntAfter(n) /\ cache'[n] = NoCache /\ RowAfter(n)
      BY <2>1, <2>3 DEF RowAfter
    <3> QED  BY <1>0, <3>1, CacheAfter, NodeAfter
  <2>4. CASE RecoverFails(n) /\ UNCHANGED row
    <3>1. EntAfter(n) /\ (cache'[n] = NoCache \/ SameDoc(n)) /\ RowAfter(n)
      BY <2>1, <2>4 DEF RowAfter
    <3> QED  BY <1>0, <3>1, CacheAfter, NodeAfter
  <2>5. CASE /\ SendClaim(n, gate[n].handle) /\ UNCHANGED <<cache, ent, gate>>
             /\ cache[n].handle = ent[n].handle
    <3>1. EntAfter(n) /\ SameDoc(n)
      BY <2>1, <2>5 DEF EntAfter
    <3>2. "claim" \in Requests("recover")
      BY DEF Requests
    <3>3. RowAfter(n)
      BY <2>1, <2>5, <3>2, SendEffects DEF RowAfter, HasEnt
    <3> QED  BY <1>0, <3>1, <3>3, CacheAfter, NodeAfter
  <2> QED  BY <1>5, <2>2, <2>3, <2>4, <2>5 DEF RecoverBegins
<1>6. ASSUME RecoverClaimed(n) PROVE NodeInv(n)'
  <2>1. /\ NeedsEnt(gate[n]) /\ HasEnt(n) /\ gate[n].pc = "recover" /\ row[n].by = "gate"
        /\ cache[n].handle # NoHandle
    BY <1>6 DEF RecoverClaimed, Answered, NeedsEnt, NodeInv, FlowInv
  <2>2. CASE FreeTheRow(n) /\ RecoverFails(n)
    <3>1. EntAfter(n) /\ (cache'[n] = NoCache \/ SameDoc(n)) /\ RowAfter(n)
      BY <2>1, <2>2 DEF RowAfter
    <3> QED  BY <1>0, <3>1, CacheAfter, NodeAfter
  <2>3. CASE FreeTheRow(n) /\ DropCache(n) /\ Superseded(n)
    <3>1. EntAfter(n) /\ cache'[n] = NoCache /\ RowAfter(n)
      BY <2>1, <2>3 DEF RowAfter
    <3> QED  BY <1>0, <3>1, CacheAfter, NodeAfter
  <2>4. CASE SendSave(n, "gate", gate[n].handle) /\ UNCHANGED <<cache, ent, gate>>
    <3>1. EntAfter(n) /\ SameDoc(n)
      BY <2>1, <2>4 DEF EntAfter
    <3>2. "save" \in Requests("recover")
      BY DEF Requests
    <3>3. RowAfter(n)
      BY <2>1, <2>4, <3>2, SendEffects DEF RowAfter
    <3> QED  BY <1>0, <3>1, <3>3, CacheAfter, NodeAfter
  <2> QED  BY <1>6, <2>2, <2>3, <2>4 DEF RecoverClaimed
<1>7. ASSUME RecoverSaved(n) PROVE NodeInv(n)'
  <2>1. NeedsEnt(gate[n]) /\ HasEnt(n)
    BY <1>7 DEF RecoverSaved, Answered, NeedsEnt
  <2>2. EntAfter(n) /\ (cache'[n] = NoCache \/ SameDoc(n))
    BY <1>7, <2>1 DEF RecoverSaved
  <2>3. RowAfter(n)
    BY <1>7 DEF RecoverSaved, RowAfter
  <2> QED  BY <1>0, <2>2, <2>3, CacheAfter, NodeAfter
<1>8. ASSUME UnlockReturns(n) PROVE NodeInv(n)'
  <2>1. gate[n].pc = "unlock" /\ EndGate(n) /\ UNCHANGED row /\ gate[n].for \in Fors
    BY <1>8, Members DEF UnlockReturns
  <2>2. row[n].by # "gate"
    BY <2>1 DEF Requests
  <2>3. EntOK(n)' /\ (\/ SameDoc(n)
                      \/ (cache'[n] = NoCache \/ SameDoc(n)) /\ row[n].by # "sweep")
    <3>1. CASE gate[n].for = "load"
      BY <1>8, <3>1 DEF UnlockReturns
    <3>2. CASE gate[n].for = "superseded"
      BY <1>8, <3>2 DEF UnlockReturns
    <3>3. CASE gate[n].for = "recover"
      <4>1. RecoveryFailed(n, ent[n].tries) /\ HasEnt(n)
        BY <1>8, <2>1, <3>3 DEF UnlockReturns, NeedsEnt
      <4> QED  BY <4>1, RecoveryEffects
    <3>4. CASE gate[n].for = "release"
      <4>1. HasEnt(n)
        BY <2>1, <3>4 DEF NeedsEnt
      <4>2. ent \in [Nodes -> Ent] /\ ent[n] \in Ent
        BY DEF TypeInv, TypeOK
      <4>3. (Forget(n) \/ ent'[n].handle = ent[n].handle) /\ UNCHANGED cache
        BY <1>8, <3>4, <4>2 DEF UnlockReturns, Ent
      <4> QED  BY <4>1, <4>3 DEF HasEnt
    <3> QED  BY <2>1, <3>1, <3>2, <3>3, <3>4 DEF Fors
  <2>4. EntAfter(n) /\ RowAfter(n)
    BY <2>1, <2>2, <2>3 DEF EntAfter, RowAfter
  <2> QED  BY <1>0, <2>3, <2>4, CacheAfter, NodeAfter
<1> QED  BY <1>1, <1>2, <1>3, <1>4, <1>5, <1>6, <1>7, <1>8 DEF Leaves

LEMMA LoadsInv ==
    ASSUME TypeInv, NEW n \in Nodes, NodeInv(n), Loads(n)
    PROVE  NodeInv(n)'
<1> USE Effects, NodeFacts, StepEffects
<1>0. UNCHANGED doc
  BY DEF Loads, LockReturns, LoadBegins, LoadReturns, InitReturns, mongo
<1>1. ASSUME LockReturns(n) PROVE NodeInv(n)'
  <2>1. gate[n].pc = "lock" /\ UNCHANGED row /\ row[n].by # "gate"
    BY <1>1 DEF LockReturns, Requests
  <2>2. CASE LockAccepted(n)
    <3>1. UNCHANGED <<cache, ent>> /\ gate'[n].pc = gate[n].for /\ gate[n].for \in {"load", "recover"}
      BY <1>1, <2>2, Members DEF LockReturns, GateOK
    <3>2. EntAfter(n)
      BY <2>1, <3>1 DEF EntAfter, NeedsEnt
    <3>3. RowAfter(n)
      BY <2>1, <3>1 DEF RowAfter
    <3> QED  BY <1>0, <3>1, <3>2, <3>3, CacheAfter, NodeAfter
  <2>3. CASE ~LockAccepted(n)
    <3>1. /\ EndGate(n)
          /\ \/ gate[n].for = "recover" /\ RecoveryFailed(n, ent[n].tries)
             \/ UNCHANGED <<cache, ent>>
      BY <1>1, <2>3 DEF LockReturns
    <3>2. gate[n].for = "recover" => HasEnt(n)
      BY <2>1 DEF NeedsEnt
    <3>3. EntOK(n)' /\ (\/ SameDoc(n)
                        \/ (cache'[n] = NoCache \/ SameDoc(n)) /\ row[n].by # "sweep")
      BY <3>1, <3>2, RecoveryEffects
    <3>4. EntAfter(n) /\ RowAfter(n)
      BY <2>1, <3>1, <3>3 DEF EntAfter, RowAfter
    <3> QED  BY <1>0, <3>3, <3>4, CacheAfter, NodeAfter
  <2> QED  BY <2>2, <2>3
<1>2. ASSUME LoadBegins(n) PROVE NodeInv(n)'
  <2>1. gate[n].pc = "load" /\ RowFree(n)
    BY <1>2 DEF LoadBegins
  <2>2. CASE LoadFails(n) /\ UNCHANGED <<cache, row, ent>>
    <3>1. EntAfter(n) /\ SameDoc(n) /\ RowAfter(n)
      BY <2>1, <2>2 DEF RowAfter
    <3> QED  BY <1>0, <3>1, CacheAfter, NodeAfter
  <2>3. CASE Enter(n) /\ UNCHANGED <<cache, row>> /\ Valid(n, gate[n].handle)
    <3>1. EntAfter(n) /\ SameDoc(n) /\ RowAfter(n)
      BY <2>1, <2>3, ValidHandle DEF RowAfter
    <3> QED  BY <1>0, <3>1, CacheAfter, NodeAfter
  <2>4. CASE DropCache(n) /\ SendClaim(n, gate[n].handle) /\ UNCHANGED <<ent, gate>>
    <3>1. EntAfter(n) /\ cache'[n] = NoCache
      BY <2>1, <2>4 DEF EntAfter
    <3>2. "claim" \in Requests("load")
      BY DEF Requests
    <3>3. RowAfter(n)
      BY <2>1, <2>4, <3>2, SendEffects DEF RowAfter
    <3> QED  BY <1>0, <3>1, <3>3, CacheAfter, NodeAfter
  <2> QED  BY <1>2, <2>2, <2>3, <2>4 DEF LoadBegins
<1>3. ASSUME LoadReturns(n) PROVE NodeInv(n)'
  <2>1. gate[n].pc = "load" /\ row[n].by = "gate" /\ row[n].op \in {"claim", "resolve"}
    BY <1>3 DEF LoadReturns, Answered, NodeInv, FlowInv, Requests
  <2>2. RowAfter(n)
    BY <1>3 DEF LoadReturns, RowAfter
  <2>3. CASE row[n].reply = "ok" /\ Valid(n, gate[n].handle)
    <3>1. Snapshot(row[n].version, row[n].content)
      BY <2>1, <2>3 DEF NodeInv, RowInv
    <3>2. cache'[n].version = row[n].version /\ cache'[n].base = row[n].content
      <4>1. cache \in [Nodes -> Cache]
        BY DEF TypeInv, TypeOK
      <4> QED  BY <1>3, <2>3, <4>1 DEF LoadReturns
    <3>3. EntAfter(n)
      BY <1>3, <2>3, ValidHandle DEF LoadReturns
    <3> QED  BY <1>0, <2>2, <3>1, <3>2, <3>3, CacheAfter, NodeAfter
  <2>4. CASE ~(row[n].reply = "ok" /\ Valid(n, gate[n].handle))
    <3>1. EntAfter(n) /\ SameDoc(n)
      BY <1>3, <2>4 DEF LoadReturns
    <3> QED  BY <1>0, <2>2, <3>1, CacheAfter, NodeAfter
  <2> QED  BY <2>3, <2>4
<1>4. ASSUME InitReturns(n) PROVE NodeInv(n)'
  <2>1. gate[n].pc = "init" /\ UNCHANGED row /\ row[n].by # "gate" /\ HasEnt(n) /\ SameDoc(n)
    BY <1>4 DEF InitReturns, Requests, NeedsEnt
  <2>2. EntAfter(n)
    <3>1. CASE To(n, "handler", ent[n].handle) /\ UNCHANGED ent
      BY <2>1, <3>1 DEF EntAfter, NeedsEnt
    <3>2. CASE UnloadEntity(n)
      BY <2>1, <3>2, UnloadEffects
    <3> QED  BY <1>4, <3>1, <3>2 DEF InitReturns
  <2>3. RowAfter(n)
    BY <2>1 DEF RowAfter
  <2> QED  BY <1>0, <2>1, <2>2, <2>3, CacheAfter, NodeAfter
<1> QED  BY <1>1, <1>2, <1>3, <1>4 DEF Loads

LEMMA ServesInv ==
    ASSUME TypeInv, NEW n \in Nodes, NodeInv(n), Serves(n) \/ \E m \in Mutations : Mutate(n, m)
    PROVE  NodeInv(n)'
<1> USE Effects, NodeFacts
<1>0. UNCHANGED doc
  BY DEF Serves, HandlerReturns, SaveReturns, Mutate, mongo
<1>1. cache \in [Nodes -> Cache] /\ cache[n] \in Cache /\ gate \in [Nodes -> Gate] /\ gate[n] \in Gate
  BY DEF TypeInv, TypeOK
<1>2. ASSUME HandlerReturns(n) PROVE NodeInv(n)'
  <2>1. EntAfter(n) /\ SameDoc(n)
    BY <1>2 DEF HandlerReturns, EntAfter
  <2>2. RowAfter(n)
    BY <1>2, <2>1 DEF HandlerReturns, RowAfter, Requests
  <2> QED  BY <1>0, <2>1, <2>2, CacheAfter, NodeAfter
<1>3. ASSUME SaveReturns(n) PROVE NodeInv(n)'
  <2>1. row[n].op = "save" /\ RowAfter(n)
    BY <1>3 DEF SaveReturns, Answered, NodeInv, FlowInv, Requests, RowAfter
  <2>2. EntAfter(n)
    <3>1. gate'[n] = gate[n] \/ gate'[n].pc = "handler"
      BY <1>1, <1>3 DEF SaveReturns, Gate
    <3>2. NeedsEnt(gate'[n]) => NeedsEnt(gate[n])
      BY <3>1 DEF NeedsEnt
    <3> QED  BY <1>3, <3>2 DEF SaveReturns, EntAfter
  <2>3. SameDoc(n) \/ Snapshot(cache'[n].version, cache'[n].base)
    <3>1. CASE Saved(n)
      <4>1. Snapshot(cache[n].version + 1, cache[n].base \cup row[n].write)
        BY <2>1, <3>1 DEF Saved, NodeInv, RowInv
      <4>2. Acked(n).version = cache[n].version + 1 /\ Acked(n).base = cache[n].base \cup row[n].write
        BY <1>1 DEF Acked, Cache
      <4>3. cache'[n] = Acked(n)
        BY <1>1, <1>3, <3>1 DEF SaveReturns
      <4> QED  BY <4>1, <4>2, <4>3
    <3> QED  BY <1>3, <3>1 DEF SaveReturns
  <2> QED  BY <1>0, <2>1, <2>2, <2>3, CacheAfter, NodeAfter
<1>4. ASSUME NEW m \in Mutations, Mutate(n, m) PROVE NodeInv(n)'
  <2>1. SameDoc(n)
    BY <1>1, <1>4 DEF Mutate, SameDoc, Cache
  <2>2. EntAfter(n) /\ RowAfter(n)
    BY <1>4, <2>1 DEF Mutate, EntAfter, RowAfter, Requests
  <2> QED  BY <1>0, <2>1, <2>2, CacheAfter, NodeAfter
<1> QED  BY <1>2, <1>3, <1>4 DEF Serves

(* Steps that leave the row as it is, whoever holds it. *)
LEMMA RowIdle ==
    ASSUME TypeInv, NEW n \in Nodes, NodeInv(n), UNCHANGED doc, UNCHANGED <<row, cache>>,
           gate'[n].pc = gate[n].pc, gate'[n].for = gate[n].for,
           EntOK(n)', HasEnt(n) => HasEnt(n)'
    PROVE  NodeInv(n)'
<1>1. CacheInv(n)'
  BY CacheAfter DEF NodeInv, SameDoc
<1>2. RowInv(n)'
  BY DEF NodeInv, RowInv, Snapshot
<1>3. FlowInv(n)'
  BY DEF NodeInv, FlowInv, NeedsEnt, EntOK, HasEnt
<1> QED  BY <1>1, <1>2, <1>3 DEF NodeInv

LEMMA StartsInv ==
    ASSUME TypeInv, NEW n \in Nodes, NodeInv(n), Starts(n) \/ Lease(n)
    PROVE  NodeInv(n)'
<1> USE Effects, NodeFacts
<1>0. UNCHANGED doc
  BY DEF Starts, Serve, StartLoad, HandlerSaves, SweepSaves, Unload, Lease,
         LoseLease, Resurrect, NewLease, mongo
<1>1. ASSUME LoseLease(n) \/ Resurrect(n) \/ NewLease(n) PROVE NodeInv(n)'
  <2>1. EntOK(n)' /\ (HasEnt(n) => HasEnt(n)') /\ UNCHANGED <<row, cache, gate>>
    BY <1>1 DEF LoseLease, Resurrect, NewLease
  <2> QED  BY <1>0, <2>1, RowIdle
<1>2. ASSUME Serve(n) \/ StartLoad(n) PROVE NodeInv(n)'
  <2>1. gate[n].pc = "idle" /\ UNCHANGED <<row, cache, ent>>
    BY <1>2 DEF Serve, StartLoad
  <2>2. ~NeedsEnt(gate'[n])
    <3>1. gate'[n].pc \in {"handler", "load"} \/ (gate'[n].pc = "lock" /\ gate'[n].for = "load")
      BY <1>2 DEF Serve, StartLoad
    <3> QED  BY <3>1 DEF NeedsEnt
  <2>3. EntAfter(n) /\ SameDoc(n)
    BY <2>1, <2>2 DEF EntAfter
  <2>4. RowAfter(n)
    BY <2>1, <2>3 DEF RowAfter, Requests
  <2> QED  BY <1>0, <2>3, <2>4, CacheAfter, NodeAfter
<1>3. ASSUME HandlerSaves(n) PROVE NodeInv(n)'
  <2>1. gate \in [Nodes -> Gate] /\ gate[n] \in Gate
    BY DEF TypeInv, TypeOK
  <2>2. gate'[n].pc = "save" /\ UNCHANGED <<cache, ent>> /\ cache[n].handle # NoHandle
    BY <1>3, <2>1, ValidHandle DEF HandlerSaves, CanSave, Gate
  <2>3. EntAfter(n) /\ SameDoc(n)
    BY <2>2 DEF EntAfter, NeedsEnt
  <2>4. "save" \in Requests("save")
    BY DEF Requests
  <2>5. RowAfter(n)
    BY <1>3, <2>2, <2>4, SendEffects DEF HandlerSaves, RowAfter
  <2> QED  BY <1>0, <2>3, <2>5, CacheAfter, NodeAfter
<1>4. ASSUME SweepSaves(n) PROVE NodeInv(n)'
  <2>1. UNCHANGED <<cache, ent, gate>> /\ cache[n].handle # NoHandle
    BY <1>4, ValidHandle DEF SweepSaves, CanSave
  <2>2. EntAfter(n) /\ SameDoc(n)
    BY <2>1 DEF EntAfter
  <2>3. RowAfter(n)
    BY <1>4, <2>1, SendEffects DEF SweepSaves, RowAfter
  <2> QED  BY <1>0, <2>2, <2>3, CacheAfter, NodeAfter
<1>5. ASSUME Unload(n) PROVE NodeInv(n)'
  <2>1. gate[n].pc = "idle" /\ UnloadEntity(n) /\ UNCHANGED <<row, cache>> /\ HasEnt(n)
    BY <1>5 DEF Unload, InMemory, EntOK
  <2>2. EntAfter(n) /\ SameDoc(n)
    BY <2>1, UnloadEffects
  <2>3. RowAfter(n)
    BY <2>1, <2>2 DEF RowAfter, Requests
  <2> QED  BY <1>0, <2>2, <2>3, CacheAfter, NodeAfter
<1> QED  BY <1>1, <1>2, <1>3, <1>4, <1>5 DEF Starts, Lease

-----------------------------------------------------------------------------
(* Steps of MongoDB only add to the document. *)

DocGrows ==
    /\ doc.exists => doc'.exists
    /\ doc.version <= doc'.version /\ doc.content \subseteq doc'.content
    /\ doc'.version = doc.version => doc'.content = doc.content

LEMMA SnapshotStays ==
    ASSUME TypeInv, DocGrows, doc' \in Doc, NEW v \in Nat, NEW c, Snapshot(v, c)
    PROVE  doc'.exists /\ v <= doc'.version /\ c \subseteq doc'.content
           /\ (v = doc'.version => c = doc'.content)
<1>1. doc.version \in Nat /\ doc'.version \in Nat
  BY DEF TypeInv, TypeOK, Doc
<1> QED  BY <1>1 DEF DocGrows, Snapshot

LEMMA NodeStays ==
    ASSUME TypeInv, TypeInv', DocGrows, NEW n \in Nodes, NodeInv(n),
           row'[n] = row[n], cache'[n] = cache[n], ent'[n] = ent[n],
           gate'[n].pc = gate[n].pc, gate'[n].for = gate[n].for
    PROVE  NodeInv(n)'
<1>1. doc' \in Doc /\ row[n] \in Row /\ cache[n] \in Cache
  BY DEF TypeInv, TypeOK
<1>2. cache[n].version \in Nat /\ cache[n].version + 1 \in Nat /\ row[n].version \in Nat
  BY <1>1 DEF Row, Cache
<1>3. \A v \in Nat : \A c : Snapshot(v, c) =>
         doc'.exists /\ v <= doc'.version /\ c \subseteq doc'.content
         /\ (v = doc'.version => c = doc'.content)
  BY <1>1, SnapshotStays
<1>4. CacheInv(n)'
  BY <1>2, <1>3 DEF NodeInv, CacheInv, Snapshot
<1>5. RowInv(n)'
  BY <1>2, <1>3 DEF NodeInv, RowInv, Snapshot
<1>6. FlowInv(n)'
  BY DEF NodeInv, FlowInv, NeedsEnt
<1> QED  BY <1>4, <1>5, <1>6 DEF NodeInv

LEMMA LateStays ==
    ASSUME TypeInv, TypeInv', DocGrows, LateInv, late' \subseteq late
    PROVE  LateInv'
<1> SUFFICES ASSUME NEW w \in late', w.op = "save"
             PROVE  /\ doc'.exists /\ w.version <= doc'.version
                    /\ w.version = doc'.version => doc'.content \subseteq w.content
  BY DEF LateInv
<1>1. w.version \in Nat /\ doc.version \in Nat /\ doc'.version \in Nat
  BY DEF TypeInv, TypeOK, Writes, Doc
<1>2. doc.exists /\ w.version <= doc.version /\ (w.version = doc.version => doc.content \subseteq w.content)
  BY DEF LateInv
<1> QED  BY <1>1, <1>2 DEF DocGrows

LEMMA LateGrows ==
    ASSUME TypeInv, NEW n \in Nodes, NodeInv(n), LateInv, UNCHANGED doc, LeavesLate(n)
    PROVE  LateInv'
<1>1. ASSUME row[n].op = "save"
      PROVE  LET w == WriteOf(n) IN
             doc.exists /\ w.version <= doc.version /\ (w.version = doc.version => doc.content \subseteq w.content)
  <2>1. Snapshot(cache[n].version, cache[n].base)
    BY <1>1 DEF NodeInv, RowInv, CacheInv
  <2>2. WriteOf(n) = SaveOf(n)
    BY <1>1 DEF WriteOf
  <2> QED  BY <2>1, <2>2 DEF SaveOf, Snapshot
<1>2. row[n].op # "save" => WriteOf(n).op # "save"
  BY DEF WriteOf
<1> QED  BY <1>1, <1>2 DEF LateInv, LeavesLate

LEMMA NoChange ==
    ASSUME TypeInv, UNCHANGED doc
    PROVE  DocGrows
BY DEF DocGrows, TypeInv, TypeOK, Doc

(* Every request that MongoDB executes. *)
LEMMA Claims ==
    ASSUME TypeInv, NEW f, Claimable(f), Claim(f)
    PROVE  DocGrows /\ doc'.exists /\ doc'.version = doc.version /\ doc'.content = doc.content
<1>1. doc \in Doc
  BY DEF TypeInv, TypeOK
<1> QED  BY <1>1 DEF Claimable, Claim, DocGrows, Doc

LEMMA Creations ==
    ASSUME TypeInv, Absent, NEW f, ~doc.exists, Create(f)
    PROVE  DocGrows /\ doc'.exists /\ doc'.version = 0 /\ doc'.content = {}
BY DEF Create, Absent, DocGrows

LEMMA Saves ==
    ASSUME TypeInv, NEW w, Matches(w), Write(w),
           w.version = doc.version => doc.content \subseteq w.content
    PROVE  /\ DocGrows /\ doc'.exists /\ doc'.version = w.version + 1 /\ doc'.content = w.content
           /\ doc.content \subseteq w.content
<1>1. doc \in Doc /\ doc.version \in Nat
  BY DEF TypeInv, TypeOK, Doc
<1>2. doc'.version = doc.version + 1 /\ doc'.content = w.content /\ doc'.exists = doc.exists
  BY <1>1 DEF Write, Doc
<1> QED  BY <1>1, <1>2 DEF Matches, DocGrows

(* MongoDB answers the request that n waits for. *)
LEMMA RowAnswered ==
    ASSUME TypeInv, TypeInv', DocGrows, NEW n \in Nodes, \A m \in Nodes : NodeInv(m),
           NEW r, row' = [row EXCEPT ![n] = r], UNCHANGED <<cache, ent, gate>>,
           r.by = row[n].by, r.write = row[n].write,
           \/ r.op = row[n].op
           \/ row[n].by = "gate" /\ {r.op, row[n].op} \subseteq {"claim", "resolve"},
           r.reply = "ok" /\ r.op # "save" =>
             doc'.exists /\ r.version = doc'.version /\ r.content = doc'.content,
           r.reply = "ok" /\ r.op = "save" =>
             /\ doc'.exists /\ cache[n].version + 1 = doc'.version
             /\ cache[n].base \cup r.write = doc'.content
    PROVE  \A m \in Nodes : NodeInv(m)'
<1>0. /\ gate \in [Nodes -> Gate] /\ row \in [Nodes -> Row] /\ row[n] \in Row /\ gate[n] \in Gate
      /\ doc \in Doc /\ doc' \in Doc /\ cache[n] \in Cache
  BY DEF TypeInv, TypeOK
<1>1. ASSUME NEW m \in Nodes, m # n PROVE NodeInv(m)'
  BY <1>0, <1>1, NodeStays
<1>2. row'[n] = r
  BY <1>0
<1>3. CacheInv(n)'
  <2>1. cache[n].version \in Nat
    BY <1>0 DEF Cache
  <2>2. cache[n].handle # NoHandle => (Snapshot(cache[n].version, cache[n].base))'
    BY <1>0, <2>1, SnapshotStays DEF NodeInv, CacheInv, Snapshot
  <2> QED  BY <2>2 DEF CacheInv
<1>4. RowInv(n)'
  <2>1. r.version \in Nat \/ r.reply # "ok" \/ r.op = "save"
    BY <1>0 DEF Doc
  <2>2. cache[n].version + 1 \in Nat
    BY <1>0 DEF Cache
  <2>3. \A v \in Nat : v <= v
    OBVIOUS
  <2>4. r.op = "save" => cache'[n].handle # NoHandle
    BY DEF NodeInv, RowInv
  <2> QED  BY <1>2, <2>1, <2>2, <2>3, <2>4 DEF RowInv, Snapshot
<1>5. FlowInv(n)'
  <2>1. r.op \in {"claim", "resolve"} /\ row[n].op \in {"claim", "resolve"} =>
           (row[n].op \in Requests(gate[n].pc) => r.op \in Requests(gate[n].pc))
    BY DEF Requests
  <2> QED  BY <1>2, <2>1 DEF NodeInv, FlowInv
<1> QED  BY <1>1, <1>3, <1>4, <1>5 DEF NodeInv

LEMMA AnswersInv ==
    ASSUME TypeInv, TypeInv', Absent, NEW n \in Nodes, \A m \in Nodes : NodeInv(m), Answers(n)
    PROVE  DocGrows /\ Absent' /\ \A m \in Nodes : NodeInv(m)'
<1> USE NoChange
<1>0. /\ gate \in [Nodes -> Gate] /\ row \in [Nodes -> Row] /\ row[n] \in Row /\ gate[n] \in Gate
      /\ doc \in Doc /\ doc' \in Doc /\ cache[n] \in Cache
  BY DEF TypeInv, TypeOK
<1>1. ASSUME EtcdLock(n) \/ EtcdUnlock(n) PROVE DocGrows /\ Absent' /\ \A m \in Nodes : NodeInv(m)'
  <2>1. UNCHANGED <<doc, row, cache, ent>>
    BY <1>1 DEF EtcdLock, EtcdUnlock, mongo
  <2>2. \A m \in Nodes : gate'[m].pc = gate[m].pc /\ gate'[m].for = gate[m].for
    BY <1>0, <1>1 DEF EtcdLock, EtcdUnlock, Gate
  <2>3. \A m \in Nodes : NodeInv(m)'
    BY <2>1, <2>2, NodeStays
  <2> QED  BY <2>1, <2>3 DEF Absent
<1>2. row[n].op \in {"claim", "resolve"} => row[n].by = "gate"
  <2>1. row[n].by \in {"none", "gate", "sweep"}
    BY <1>0 DEF Row
  <2> QED  BY <2>1 DEF NodeInv, FlowInv
<1>3. ASSUME MongoClaim(n) PROVE DocGrows /\ Absent' /\ \A m \in Nodes : NodeInv(m)'
  <2>1. row[n].op = "claim" /\ row[n].reply = "none" /\ UNCHANGED <<cache, ent, gate>>
    BY <1>3 DEF MongoClaim, Pending
  <2>2. CASE Claimable(row[n].handle.fence)
    <3> DEFINE r == [row[n] EXCEPT !.reply = "ok", !.version = doc.version, !.content = doc.content]
    <3>1. Claim(row[n].handle.fence) /\ row' = [row EXCEPT ![n] = r]
      BY <1>3, <2>2 DEF MongoClaim, Answer
    <3>2. DocGrows /\ doc'.exists /\ doc'.version = doc.version /\ doc'.content = doc.content
      BY <2>2, <3>1, Claims
    <3>3. /\ r.by = row[n].by /\ r.write = row[n].write /\ r.op = row[n].op
          /\ r.version = doc.version /\ r.content = doc.content
      BY <1>0 DEF Row
    <3> HIDE DEF r
    <3>4. \A m \in Nodes : NodeInv(m)'
      BY <2>1, <3>1, <3>2, <3>3, RowAnswered
    <3> QED  BY <3>2, <3>4 DEF Absent
  <2>3. CASE ~Claimable(row[n].handle.fence)
    <3> DEFINE r == [row[n] EXCEPT !.op = "resolve", !.tries = @ + 1]
    <3>1. UNCHANGED doc /\ row' = [row EXCEPT ![n] = r]
      BY <1>3, <2>3 DEF MongoClaim
    <3>2. r.by = row[n].by /\ r.write = row[n].write /\ r.op = "resolve" /\ r.reply = "none"
      BY <1>0, <2>1 DEF Row
    <3> HIDE DEF r
    <3>3. DocGrows /\ Absent'
      BY <3>1 DEF Absent
    <3>4. \A m \in Nodes : NodeInv(m)'
      BY <1>2, <2>1, <3>1, <3>2, <3>3, RowAnswered
    <3> QED  BY <3>3, <3>4
  <2> QED  BY <2>2, <2>3
<1>4. ASSUME MongoResolve(n) PROVE DocGrows /\ Absent' /\ \A m \in Nodes : NodeInv(m)'
  <2>1. row[n].op = "resolve" /\ row[n].reply = "none" /\ UNCHANGED <<cache, ent, gate>>
    BY <1>4 DEF MongoResolve, Pending
  <2>2. CASE ~doc.exists /\ Creates(n)
    <3> DEFINE r == [row[n] EXCEPT !.reply = "ok", !.version = 0, !.content = {}]
    <3>1. Create(row[n].handle.fence) /\ row' = [row EXCEPT ![n] = r]
      BY <1>4, <2>2 DEF MongoResolve, Answer
    <3>2. DocGrows /\ doc'.exists /\ doc'.version = 0 /\ doc'.content = {}
      BY <2>2, <3>1, Creations
    <3>3. /\ r.by = row[n].by /\ r.write = row[n].write /\ r.op = row[n].op
          /\ r.version = 0 /\ r.content = {}
      BY <1>0 DEF Row
    <3> HIDE DEF r
    <3>4. \A m \in Nodes : NodeInv(m)'
      BY <2>1, <3>1, <3>2, <3>3, RowAnswered
    <3> QED  BY <3>2, <3>4 DEF Absent
  <2>3. CASE ~(~doc.exists /\ Creates(n))
    <3>1. UNCHANGED doc /\ DocGrows /\ Absent'
      BY <1>4, <2>3 DEF MongoResolve, Absent
    <3>2. \/ doc.exists /\ Answer(n, "ok", doc)
          \/ \E st \in {"missing", "no"} : row' = [row EXCEPT ![n].reply = st]
          \/ row' = [row EXCEPT ![n].op = "claim"]
      BY <1>4, <2>3 DEF MongoResolve
    <3>3. CASE doc.exists /\ Answer(n, "ok", doc)
      <4> DEFINE r == [row[n] EXCEPT !.reply = "ok", !.version = doc.version, !.content = doc.content]
      <4>1. row' = [row EXCEPT ![n] = r]
        BY <3>3 DEF Answer
      <4>2. /\ r.by = row[n].by /\ r.write = row[n].write /\ r.op = row[n].op
            /\ r.version = doc.version /\ r.content = doc.content
        BY <1>0 DEF Row
      <4> HIDE DEF r
      <4> QED  BY <2>1, <3>1, <3>3, <4>1, <4>2, RowAnswered
    <3>4. ASSUME NEW st \in {"missing", "no"}, row' = [row EXCEPT ![n].reply = st]
          PROVE  \A m \in Nodes : NodeInv(m)'
      <4> DEFINE r == [row[n] EXCEPT !.reply = st]
      <4>1. row' = [row EXCEPT ![n] = r]
        BY <3>4
      <4>2. r.by = row[n].by /\ r.write = row[n].write /\ r.op = row[n].op /\ r.reply # "ok"
        BY <1>0 DEF Row
      <4> HIDE DEF r
      <4> QED  BY <2>1, <3>1, <4>1, <4>2, RowAnswered
    <3>5. CASE row' = [row EXCEPT ![n].op = "claim"]
      <4> DEFINE r == [row[n] EXCEPT !.op = "claim"]
      <4>1. row' = [row EXCEPT ![n] = r]
        BY <3>5
      <4>2. r.by = row[n].by /\ r.write = row[n].write /\ r.op = "claim" /\ r.reply = "none"
        BY <1>0, <2>1 DEF Row
      <4> HIDE DEF r
      <4> QED  BY <1>2, <2>1, <3>1, <4>1, <4>2, RowAnswered
    <3> QED  BY <3>1, <3>2, <3>3, <3>4, <3>5
  <2> QED  BY <2>2, <2>3
<1>5. ASSUME MongoSave(n) PROVE DocGrows /\ Absent' /\ \A m \in Nodes : NodeInv(m)'
  <2>1. row[n].op = "save" /\ row[n].reply = "none" /\ UNCHANGED <<cache, ent, gate>>
    BY <1>5 DEF MongoSave, Pending
  <2>2. Snapshot(cache[n].version, cache[n].base)
    BY <2>1 DEF NodeInv, CacheInv, RowInv
  <2>3. CASE Matches(SaveOf(n))
    <3> DEFINE r == [row[n] EXCEPT !.reply = "ok"]
    <3>1. Write(SaveOf(n)) /\ row' = [row EXCEPT ![n] = r]
      BY <1>5, <2>3 DEF MongoSave
    <3>2. SaveOf(n).version = cache[n].version /\ SaveOf(n).content = cache[n].base \cup row[n].write
      BY DEF SaveOf
    <3>3. SaveOf(n).version = doc.version => doc.content \subseteq SaveOf(n).content
      BY <2>2, <3>2 DEF Snapshot
    <3>4. /\ DocGrows /\ doc'.exists /\ doc'.version = cache[n].version + 1
          /\ doc'.content = cache[n].base \cup row[n].write
      BY <2>3, <3>1, <3>2, <3>3, Saves
    <3>5. r.by = row[n].by /\ r.write = row[n].write /\ r.op = "save"
      BY <1>0, <2>1 DEF Row
    <3> HIDE DEF r
    <3>6. \A m \in Nodes : NodeInv(m)'
      BY <2>1, <3>1, <3>4, <3>5, RowAnswered
    <3> QED  BY <3>4, <3>6 DEF Absent
  <2>4. CASE ~Matches(SaveOf(n))
    <3> DEFINE r == [row[n] EXCEPT !.reply = "no"]
    <3>1. UNCHANGED doc /\ row' = [row EXCEPT ![n] = r]
      BY <1>5, <2>4 DEF MongoSave
    <3>2. r.by = row[n].by /\ r.write = row[n].write /\ r.op = row[n].op /\ r.reply # "ok"
      BY <1>0 DEF Row
    <3> HIDE DEF r
    <3>3. DocGrows /\ Absent'
      BY <3>1 DEF Absent
    <3>4. \A m \in Nodes : NodeInv(m)'
      BY <2>1, <3>1, <3>2, <3>3, RowAnswered
    <3> QED  BY <3>3, <3>4
  <2> QED  BY <2>3, <2>4
<1> QED  BY <1>1, <1>3, <1>4, <1>5 DEF Answers

LEMMA FailsInv ==
    ASSUME TypeInv, TypeInv', Absent, LateInv, NEW n \in Nodes, \A m \in Nodes : NodeInv(m), Fails(n)
    PROVE  UNCHANGED doc /\ LateInv' /\ \A m \in Nodes : NodeInv(m)'
<1>0. /\ gate \in [Nodes -> Gate] /\ row \in [Nodes -> Row] /\ row[n] \in Row /\ gate[n] \in Gate
      /\ cache \in [Nodes -> Cache] /\ ent \in [Nodes -> Ent]
  BY DEF TypeInv, TypeOK
<1>1. UNCHANGED doc
  BY DEF Fails, EtcdFails, EtcdRetries, MongoFails, Crash, mongo
<1>2. DocGrows
  BY <1>1, NoChange
<1>3. LateInv'
  <2>1. UNCHANGED late \/ LeavesLate(n)
    BY DEF Fails, EtcdFails, EtcdRetries, MongoFails, Crash, mongo
  <2> QED  BY <1>1, <1>2, <2>1, LateStays, LateGrows
<1>4. ASSUME EtcdFails(n) \/ EtcdRetries(n) PROVE \A m \in Nodes : NodeInv(m)'
  <2>1. UNCHANGED <<row, cache, ent>>
    BY <1>4 DEF EtcdFails, EtcdRetries
  <2>2. \A m \in Nodes : gate'[m].pc = gate[m].pc /\ gate'[m].for = gate[m].for
    BY <1>0, <1>4 DEF EtcdFails, EtcdRetries, Gate
  <2> QED  BY <1>2, <2>1, <2>2, NodeStays
<1>5. ASSUME MongoFails(n) PROVE \A m \in Nodes : NodeInv(m)'
  <2> DEFINE r == [row[n] EXCEPT !.reply = "failed", !.version = 0, !.content = {}]
  <2>1. row' = [row EXCEPT ![n] = r] /\ UNCHANGED <<cache, ent, gate>>
    BY <1>5 DEF MongoFails
  <2>2. r.by = row[n].by /\ r.write = row[n].write /\ r.op = row[n].op /\ r.reply # "ok"
    BY <1>0 DEF Row
  <2> HIDE DEF r
  <2> QED  BY <1>2, <2>1, <2>2, RowAnswered
<1>6. ASSUME Crash(n) PROVE \A m \in Nodes : NodeInv(m)'
  <2>1. cache'[n] = NoCache /\ row'[n] = FreeRow /\ ent'[n] = NoEnt /\ gate'[n] = Idle
    BY <1>0, <1>6 DEF Crash, DropCache, FreeTheRow, Forget, EndGate
  <2>2. EntAfter(n) /\ RowAfter(n)
    BY <2>1 DEF EntAfter, RowAfter, EntOK, NeedsEnt, Idle
  <2>3. NodeInv(n)'
    BY <1>1, <2>1, <2>2, NodeFacts, CacheAfter, NodeAfter
  <2>4. OthersKept(n)
    BY <1>6, KeptByParts DEF Crash, OthersKept
  <2>5. ASSUME NEW m \in Nodes, m # n PROVE NodeInv(m)'
    BY <1>2, <2>4, <2>5, NodeStays DEF OthersKept
  <2> QED  BY <2>3, <2>5
<1> QED  BY <1>1, <1>3, <1>4, <1>5, <1>6 DEF Fails

LEMMA LateWriteInv ==
    ASSUME TypeInv, TypeInv', StoreInv, NEW w \in late, LateWrite(w)
    PROVE  DocGrows /\ StoreInv'
<1>1. w \in Writes /\ doc \in Doc
  BY DEF TypeInv, TypeOK
<1>2. DocGrows /\ Absent'
  <2>1. CASE w.op = "claim" /\ Claimable(w.fence) /\ Claim(w.fence)
    BY <2>1, Claims DEF Absent
  <2>2. CASE w.op = "create" /\ ~doc.exists /\ Create(w.fence)
    BY <2>2, Creations DEF Absent, StoreInv
  <2>3. CASE w.op = "save" /\ Matches(w) /\ Write(w)
    <3>1. w.version = doc.version => doc.content \subseteq w.content
      BY <2>3 DEF StoreInv, LateInv
    <3> QED  BY <2>3, <3>1, Saves DEF Absent
  <2>4. CASE UNCHANGED doc
    BY <2>4, NoChange DEF Absent, StoreInv
  <2> QED  BY <2>1, <2>2, <2>3, <2>4 DEF LateWrite
<1>3. late' \subseteq late /\ UNCHANGED <<row, cache, ent, gate>>
  BY DEF LateWrite
<1>4. LateInv'
  BY <1>2, <1>3, LateStays DEF StoreInv
<1>5. \A m \in Nodes : NodeInv(m)'
  BY <1>2, <1>3, NodeStays DEF StoreInv
<1> QED  BY <1>2, <1>4, <1>5 DEF StoreInv

LEMMA EtcdInv ==
    ASSUME TypeInv, TypeInv', StoreInv,
           (\E l \in Leases : ExpireLease(l)) \/ (\E q \in stray : EtcdStray(q)) \/ UNCHANGED vars
    PROVE  UNCHANGED doc /\ StoreInv'
<1>1. UNCHANGED <<doc, late, row, cache, ent, gate>>
  BY DEF ExpireLease, EtcdStray, vars, mongo
<1>2. DocGrows
  BY <1>1, NoChange
<1>3. LateInv' /\ Absent'
  BY <1>1, <1>2, LateStays DEF StoreInv, Absent
<1>4. \A m \in Nodes : NodeInv(m)'
  BY <1>1, <1>2, NodeStays DEF StoreInv
<1> QED  BY <1>1, <1>3, <1>4 DEF StoreInv

LEMMA LocalInv ==
    ASSUME TypeInv, TypeInv', StoreInv, NEW n \in Nodes,
           \/ Loads(n) \/ Serves(n) \/ Leaves(n) \/ Starts(n) \/ Lease(n)
           \/ \E m \in Mutations : Mutate(n, m)
    PROVE  UNCHANGED doc /\ StoreInv'
<1>1. UNCHANGED <<doc, late>>
  <2>1. Loads(n) => UNCHANGED <<doc, late>>
    BY DEF Loads, LockReturns, LoadBegins, LoadReturns, InitReturns, mongo
  <2>2. Serves(n) \/ (\E m \in Mutations : Mutate(n, m)) => UNCHANGED <<doc, late>>
    BY DEF Serves, HandlerReturns, SaveReturns, Mutate, mongo
  <2>3. Leaves(n) => UNCHANGED <<doc, late>>
    BY DEF Leaves, HooksReturn, FlushBegins, FlushReturns, Discard, RecoverBegins,
           RecoverClaimed, RecoverSaved, UnlockReturns, mongo
  <2>4. Starts(n) \/ Lease(n) => UNCHANGED <<doc, late>>
    BY DEF Starts, Serve, StartLoad, HandlerSaves, SweepSaves, Unload, Lease,
           LoseLease, Resurrect, NewLease, mongo
  <2> QED  BY <2>1, <2>2, <2>3, <2>4
<1>2. DocGrows
  BY <1>1, NoChange
<1>3. LateInv' /\ Absent'
  BY <1>1, <1>2, LateStays DEF StoreInv, Absent
<1>4. NodeInv(n)'
  BY LoadsInv, ServesInv, LeavesInv, StartsInv DEF StoreInv
<1>5. OthersKept(n)
  BY LeavesKeeps, StepsKeep
<1>6. ASSUME NEW m \in Nodes, m # n PROVE NodeInv(m)'
  BY <1>2, <1>5, <1>6, NodeStays DEF StoreInv, OthersKept
<1> QED  BY <1>1, <1>3, <1>4, <1>6 DEF StoreInv

LEMMA StepStore ==
    ASSUME TypeInv, TypeInv', StoreInv, [Next]_vars
    PROVE  DocGrows /\ StoreInv'
<1>1. ASSUME NEW n \in Nodes, \/ Loads(n) \/ Serves(n) \/ Leaves(n) \/ Starts(n) \/ Lease(n)
                              \/ \E m \in Mutations : Mutate(n, m)
      PROVE  DocGrows /\ StoreInv'
  BY <1>1, LocalInv, NoChange
<1>2. ASSUME NEW n \in Nodes, Answers(n) PROVE DocGrows /\ StoreInv'
  <2>1. UNCHANGED late
    BY <1>2 DEF Answers, EtcdLock, EtcdUnlock, MongoClaim, MongoResolve, MongoSave, mongo
  <2>2. DocGrows /\ Absent' /\ \A m \in Nodes : NodeInv(m)'
    BY <1>2, AnswersInv DEF StoreInv
  <2> QED  BY <2>1, <2>2, LateStays DEF StoreInv
<1>3. ASSUME NEW n \in Nodes, Fails(n) PROVE DocGrows /\ StoreInv'
  BY <1>3, FailsInv, NoChange DEF StoreInv, Absent
<1>4. ASSUME NEW w \in late, LateWrite(w) PROVE DocGrows /\ StoreInv'
  BY <1>4, LateWriteInv
<1>5. ASSUME (\E l \in Leases : ExpireLease(l)) \/ (\E q \in stray : EtcdStray(q)) \/ UNCHANGED vars
      PROVE  DocGrows /\ StoreInv'
  BY <1>5, EtcdInv, NoChange
<1> QED  BY <1>1, <1>2, <1>3, <1>4, <1>5 DEF Next

(* A save reports stored what the document has. *)
LEMMA StepAcked ==
    ASSUME TypeInv, StoreInv, AckedDurable, DocGrows, [Next]_vars
    PROVE  AckedDurable'
<1>1. ASSUME UNCHANGED acked PROVE AckedDurable'
  BY <1>1 DEF AckedDurable, DocGrows
<1>2. ASSUME NEW n \in Nodes, Saved(n), row[n].op = "save", Ack(n) PROVE AckedDurable'
  <2>1. row[n].write \subseteq doc.content
    BY <1>2 DEF Saved, StoreInv, NodeInv, RowInv, Snapshot
  <2> QED  BY <1>2, <2>1 DEF AckedDurable, DocGrows, Ack
<1>3. ASSUME NEW n \in Nodes, SaveReturns(n) PROVE AckedDurable'
  <2>1. row[n].op = "save"
    BY <1>3 DEF SaveReturns, Answered, StoreInv, NodeInv, FlowInv, Requests
  <2>2. (Saved(n) /\ Ack(n)) \/ UNCHANGED acked
    BY <1>3 DEF SaveReturns
  <2> QED  BY <1>1, <1>2, <2>1, <2>2
<1>4. ASSUME NEW n \in Nodes, FlushReturns(n) PROVE AckedDurable'
  <2>1. row[n].op = "save"
    BY <1>4 DEF FlushReturns, Answered, StoreInv, NodeInv, FlowInv, Requests
  <2>2. (Saved(n) /\ Ack(n)) \/ UNCHANGED acked
    BY <1>4 DEF FlushReturns
  <2> QED  BY <1>1, <1>2, <2>1, <2>2
<1>5. ASSUME NEW n \in Nodes, RecoverSaved(n) PROVE AckedDurable'
  <2>1. row[n].op = "save" /\ ((Saved(n) /\ Ack(n)) \/ UNCHANGED acked)
    BY <1>5 DEF RecoverSaved
  <2> QED  BY <1>1, <1>2, <2>1
<1>6. ASSUME NEW n \in Nodes, Lease(n) \/ Answers(n) \/ Fails(n) \/ Loads(n) PROVE UNCHANGED acked
  BY <1>6 DEF Lease, LoseLease, Resurrect, NewLease, Answers, EtcdLock, EtcdUnlock, MongoClaim,
     MongoResolve, MongoSave, Fails, EtcdFails, EtcdRetries, MongoFails, Crash, Loads, LockReturns, LoadBegins,
     LoadReturns, InitReturns
<1>7. ASSUME NEW n \in Nodes, Starts(n) \/ \E m \in Mutations : Mutate(n, m) PROVE UNCHANGED acked
  BY <1>7 DEF Starts, Serve, StartLoad, HandlerSaves, SweepSaves, Unload, Mutate
<1>8. ASSUME NEW n \in Nodes, Serves(n) PROVE SaveReturns(n) \/ UNCHANGED acked
  BY <1>8 DEF Serves, HandlerReturns
<1>9. ASSUME NEW n \in Nodes, Leaves(n) PROVE FlushReturns(n) \/ RecoverSaved(n) \/ UNCHANGED acked
  BY <1>9 DEF Leaves, HooksReturn, FlushBegins, Discard, RecoverBegins, RecoverClaimed, UnlockReturns
<1>10. ASSUME (\E l \in Leases : ExpireLease(l)) \/ (\E q \in stray : EtcdStray(q))
              \/ (\E w \in late : LateWrite(w)) \/ UNCHANGED vars
       PROVE  UNCHANGED acked
  BY <1>10 DEF ExpireLease, EtcdStray, LateWrite, vars
<1> QED  BY <1>1, <1>3, <1>4, <1>5, <1>6, <1>7, <1>8, <1>9, <1>10 DEF Next

LEMMA InitStore == Init => StoreInv /\ AckedDurable
<1> SUFFICES ASSUME Init PROVE StoreInv /\ AckedDurable
  OBVIOUS
<1>1. Absent /\ LateInv /\ AckedDurable
  BY DEF Init, Absent, LateInv, AckedDurable
<1>2. ASSUME NEW n \in Nodes PROVE NodeInv(n)
  BY DEF Init, NodeInv, CacheInv, RowInv, FlowInv, NoCache, FreeRow, NoEnt, Idle, NeedsEnt
<1> QED  BY <1>1, <1>2 DEF StoreInv

LEMMA InvHolds == Spec => []Inv
<1>1. Init => Inv
  BY InitTypes, InitStore DEF Inv
<1>2. Inv /\ [Next]_vars => Inv'
  BY StepTypes, StepStore, StepAcked DEF Inv
<1> QED  BY <1>1, <1>2, PTL DEF Spec

(* What a save has reported stored is in the document, and stays there.     *)
THEOREM AckedDurableAlways == Spec => []AckedDurable
<1>1. Inv => AckedDurable
  BY DEF Inv
<1> QED  BY <1>1, InvHolds, PTL

(* No write, however late and from whichever owner, undoes a change that the *)
(* document has.                                                            *)
THEOREM NoUpdateLost == Spec => NoLostUpdate
<1>1. Inv /\ [Next]_vars => [doc.content \subseteq doc'.content]_vars
  BY StepTypes, StepStore DEF Inv, DocGrows
<1> QED  BY <1>1, InvHolds, PTL DEF Spec, NoLostUpdate

(* A step that changes the document is a step of FencedDoc: it creates the   *)
(* document, claims it with a fence that is not lower, or writes what it has *)
(* and more.                                                                *)
LEMMA WriteSteps ==
    ASSUME TypeInv, NEW w, w.fence \in Revs, w.content \in Contents, Matches(w), Write(w),
           w.version = doc.version => doc.content \subseteq w.content
    PROVE  Document!Next
<1>1. doc \in Doc /\ doc.content \subseteq w.content
  BY DEF TypeInv, TypeOK, Matches
<1>2. doc' = [doc EXCEPT !.version = doc.version + 1, !.content = w.content]
  BY DEF Write
<1>3. doc.content \cup w.content = w.content
  BY <1>1
<1>4. Document!Write(w.content)
  BY <1>2, <1>3 DEF Document!Write, Matches
<1>5. w.content \in SUBSET Mutations
  BY DEF Contents
<1> QED  BY <1>4, <1>5 DEF Document!Next

LEMMA FenceSteps ==
    ASSUME NEW f \in Revs
    PROVE  /\ Claimable(f) /\ Claim(f) => Document!Next
           /\ ~doc.exists /\ Create(f) => Document!Next
<1>1. Claimable(f) /\ Claim(f) => Document!Claim(f)
  BY DEF Claimable, Claim, Document!Claim
<1>2. ~doc.exists /\ Create(f) => Document!Create(f)
  BY DEF Create, Document!Create
<1> QED  BY <1>1, <1>2 DEF Document!Next

LEMMA StepDocument ==
    ASSUME TypeInv, TypeInv', StoreInv, [Next]_vars
    PROVE  [Document!Next]_doc
<1>1. ASSUME NEW n \in Nodes, Answers(n) PROVE [Document!Next]_doc
  <2>1. row[n] \in Row /\ cache[n] \in Cache /\ row[n].handle \in Handle0
    BY Members
  <2>2. row[n].op # "none" => row[n].handle.fence \in Revs
    BY <2>1, HandleParts DEF TypeInv, RowOK
  <2>3. MongoClaim(n) => [Document!Next]_doc
    BY <2>2, FenceSteps DEF MongoClaim, Pending
  <2>4. MongoResolve(n) => [Document!Next]_doc
    BY <2>2, FenceSteps DEF MongoResolve, Pending
  <2>5. ASSUME MongoSave(n), Matches(SaveOf(n)), Write(SaveOf(n)) PROVE Document!Next
    <3>1. Snapshot(cache[n].version, cache[n].base) /\ row[n].op = "save"
      BY <2>5 DEF MongoSave, Pending, StoreInv, NodeInv, RowInv, CacheInv
    <3>2. /\ SaveOf(n).fence \in Revs /\ SaveOf(n).version = cache[n].version
          /\ SaveOf(n).content = cache[n].base \cup row[n].write
      BY <2>2, <3>1 DEF SaveOf
    <3>3. cache[n].base \cup row[n].write \in Contents
      BY <2>1 DEF Cache, Row, Contents
    <3>4. SaveOf(n).version = doc.version => doc.content \subseteq SaveOf(n).content
      BY <3>1, <3>2 DEF Snapshot
    <3> QED  BY <2>5, <3>2, <3>3, <3>4, WriteSteps
  <2>6. MongoSave(n) => [Document!Next]_doc
    BY <2>5 DEF MongoSave
  <2>7. EtcdLock(n) \/ EtcdUnlock(n) => UNCHANGED doc
    BY DEF EtcdLock, EtcdUnlock, mongo
  <2> QED  BY <1>1, <2>3, <2>4, <2>6, <2>7 DEF Answers
<1>2. ASSUME NEW w \in late, LateWrite(w) PROVE [Document!Next]_doc
  <2>1. w \in Writes /\ w.fence \in Revs /\ w.content \in Contents
    BY DEF TypeInv, TypeOK, Writes
  <2>2. w.op = "save" /\ w.version = doc.version => doc.content \subseteq w.content
    BY DEF StoreInv, LateInv
  <2> QED  BY <1>2, <2>1, <2>2, FenceSteps, WriteSteps DEF LateWrite
<1>3. ASSUME NEW n \in Nodes,
             \/ Loads(n) \/ Serves(n) \/ Leaves(n) \/ Starts(n) \/ Lease(n)
             \/ \E m \in Mutations : Mutate(n, m)
      PROVE  UNCHANGED doc
  BY <1>3, LocalInv
<1>4. ASSUME NEW n \in Nodes, Fails(n) PROVE UNCHANGED doc
  BY <1>4, FailsInv DEF StoreInv
<1>5. ASSUME (\E l \in Leases : ExpireLease(l)) \/ (\E q \in stray : EtcdStray(q)) \/ UNCHANGED vars
      PROVE  UNCHANGED doc
  BY <1>5, EtcdInv
<1> QED  BY <1>1, <1>2, <1>3, <1>4, <1>5 DEF Next

(* EntityStore implements FencedDoc.                                        *)
THEOREM DocumentFenced == Spec => ImplementsFencedDoc
<1>1. Init => Document!Init
  BY DEF Init, Document!Init
<1>2. Inv /\ [Next]_vars => [Document!Next]_doc
  BY StepTypes, StepDocument DEF Inv
<1> QED  BY <1>1, <1>2, InvHolds, PTL DEF Spec, ImplementsFencedDoc, Document!Spec

-----------------------------------------------------------------------------
(***************************************************************************)
(* The life of an entity in memory: whether what serves has its lock,       *)
(* whether what has stopped serving is brought out of memory, whether there *)
(* is one owner, whether anybody else writes the document the owner has in  *)
(* memory, and when a change that the document lacks may be dropped.        *)
(***************************************************************************)

Serving(n) == InMemory(n) /\ ~ent[n].invalid /\ ~ent[n].unloading

(* What the gate's operation is there for. *)
Loading(g) == g.pc = "load" \/ (g.pc \in {"lock", "unlock"} /\ g.for = "load")
Leaving(g) == \/ g.pc \in {"hooks", "flush", "discard", "recover"}
              \/ g.pc = "lock" /\ g.for = "recover"
              \/ g.pc = "unlock" /\ g.for \in {"recover", "release"}
Resting(g) == g.pc \in {"idle", "init", "handler", "save"}

LifeInv(n) ==
    /\ Serving(n) => Valid(n, ent[n].handle)
    /\ Loading(gate[n]) => ~InMemory(n)
    /\ Leaving(gate[n]) => ent[n].unloading
    /\ Resting(gate[n]) /\ InMemory(n) /\ (ent[n].invalid \/ ent[n].unloading) => ent[n].armed

(* A step of another node, of etcd or of MongoDB. *)
SameLife(n) == ent'[n] = ent[n] /\ gate'[n] = gate[n] /\ lock'[n] = lock[n] /\ view'[n] = view[n]

LEMMA LifeElsewhere ==
    ASSUME NEW n, LifeInv(n), SameLife(n)
    PROVE  LifeInv(n)'
BY DEF LifeInv, SameLife, Serving, InMemory, Valid

(* The parts of actions. *)
LEMMA LifeParts ==
    ASSUME TypeInv, NEW n \in Nodes
    PROVE  /\ EndGate(n) => gate'[n].pc = "idle"
           /\ \A pc, h : To(n, pc, h) => gate'[n].pc = pc
           /\ \A for : SendLock(n, for) => gate'[n].pc = "lock" /\ gate'[n].for = for
           /\ \A for, h : SendUnlock(n, for, h) => gate'[n].pc = "unlock" /\ gate'[n].for = for
           /\ Forget(n) => ent'[n] = NoEnt
           /\ ArmRetry(n) => ent'[n].armed /\ ent'[n].unloading = ent[n].unloading /\ ent'[n].invalid = ent[n].invalid
           /\ ent[n] \in Ent
<1>1. ent \in [Nodes -> Ent] /\ gate \in [Nodes -> Gate]
  BY DEF TypeInv, TypeOK
<1>2. EndGate(n) => gate'[n].pc = "idle"
  BY <1>1 DEF EndGate, Idle
<1>7. \A pc, h : To(n, pc, h) => gate'[n].pc = pc
  BY <1>1 DEF To, Idle
<1>3. \A for : SendLock(n, for) => gate'[n].pc = "lock" /\ gate'[n].for = for
  BY <1>1 DEF SendLock, Idle
<1>4. \A for, h : SendUnlock(n, for, h) => gate'[n].pc = "unlock" /\ gate'[n].for = for
  BY <1>1 DEF SendUnlock, Idle
<1>5. Forget(n) => ent'[n] = NoEnt
  BY <1>1 DEF Forget
<1>6. ArmRetry(n) => ent'[n].armed /\ ent'[n].unloading = ent[n].unloading /\ ent'[n].invalid = ent[n].invalid
  BY <1>1 DEF ArmRetry, Ent
<1> QED BY <1>1, <1>2, <1>3, <1>4, <1>5, <1>6, <1>7

(* An operation that ends with the entity out of memory, or with a timer. *)
LEMMA LifeEnds ==
    ASSUME NEW n, gate'[n].pc = "idle",
           ent'[n] = NoEnt \/ (ent'[n].armed /\ ent'[n].unloading)
    PROVE  LifeInv(n)'
BY DEF LifeInv, Serving, Loading, Leaving, Resting, InMemory, NoEnt

LEMMA LifeLeaves ==
    ASSUME NEW n, Leaving(gate'[n]), ent'[n].unloading
    PROVE  LifeInv(n)'
BY DEF LifeInv, Serving, Loading, Leaving, Resting, InMemory

LEMMA ReleaseLife ==
    ASSUME TypeInv, NEW n \in Nodes, NEW e, e.unloading, Release(n, e)
    PROVE  LifeInv(n)'
<1>1. CASE Valid(n, e.handle)
  <2>1. ent'[n] = e
    BY <1>1 DEF Release, TypeInv, TypeOK
  <2> QED BY <1>1, <2>1, LifeParts, LifeLeaves DEF Release, Leaving
<1>2. CASE ~Valid(n, e.handle)
  BY <1>2, LifeParts, LifeEnds DEF Release
<1> QED BY <1>1, <1>2

LEMMA UnloadLife ==
    ASSUME TypeInv, NEW n \in Nodes, UnloadEntity(n)
    PROVE  LifeInv(n)'
<1> DEFINE e == [ent[n] EXCEPT !.unloading = TRUE, !.armed = FALSE]
           x == [e EXCEPT !.invalid = TRUE]
<1>1. e.unloading /\ x.unloading /\ ent \in [Nodes -> Ent]
  BY DEF TypeInv, TypeOK, Ent
<1>2. CASE Release(n, e)
  BY <1>1, <1>2, ReleaseLife
<1>3. CASE ent' = [ent EXCEPT ![n] = x] /\ To(n, "discard", e.handle)
  <2>1. ent'[n] = x /\ gate'[n].pc = "discard"
    BY <1>1, <1>3, LifeParts
  <2> QED BY <1>1, <2>1, LifeLeaves DEF Leaving
<1>4. CASE ent' = [ent EXCEPT ![n] = e] /\ To(n, IF e.hooked THEN "flush" ELSE "hooks", e.handle)
  <2>1. ent'[n] = e /\ gate'[n].pc \in {"flush", "hooks"}
    BY <1>1, <1>4, LifeParts
  <2> QED BY <1>1, <2>1, LifeLeaves DEF Leaving
<1> QED BY <1>2, <1>3, <1>4 DEF UnloadEntity

LEMMA RecoveryLife ==
    ASSUME TypeInv, NEW n \in Nodes, NEW k, ent[n].unloading, RecoveryFailed(n, k), EndGate(n)
    PROVE  LifeInv(n)'
<1>1. CASE k >= MaxTries
  BY <1>1, LifeParts, LifeEnds DEF RecoveryFailed
<1>2. CASE ~(k >= MaxTries)
  <2>1. ent'[n].armed /\ ent'[n].unloading
    BY <1>2 DEF RecoveryFailed, TypeInv, TypeOK, Ent
  <2> QED BY <2>1, LifeParts, LifeEnds
<1> QED BY <1>1, <1>2

LEMMA LeaseLife ==
    ASSUME TypeInv, NEW n \in Nodes, LifeInv(n), Lease(n)
    PROVE  LifeInv(n)'
<1>1. ent \in [Nodes -> Ent] /\ lock \in [Nodes -> Handle0] /\ view \in [Nodes -> [lease : 0 .. MaxLease, valid : BOOLEAN]]
  BY DEF TypeInv, TypeOK
<1>2. CASE LoseLease(n)
  <2>1. UNCHANGED gate
    BY <1>2 DEF LoseLease
  <2>2. CASE InMemory(n) /\ ent[n].handle = lock[n] /\ ~ent[n].invalid
    <3>1. ent'[n].invalid /\ ent'[n].armed /\ ent'[n].unloading = ent[n].unloading
      BY <1>1, <1>2, <2>2 DEF LoseLease, OnLockExpired, Ent
    <3> QED BY <2>1, <2>2, <3>1 DEF LifeInv, Serving
  <2>3. CASE ~(InMemory(n) /\ ent[n].handle = lock[n] /\ ~ent[n].invalid)
    <3>1. UNCHANGED ent
      BY <1>2, <2>3 DEF LoseLease, OnLockExpired
    <3> QED BY <2>1, <2>3, <3>1 DEF LifeInv, Serving, InMemory, Valid
  <2> QED BY <2>2, <2>3
<1>3. CASE Resurrect(n) \/ NewLease(n)
  <2>1. ~view[n].valid /\ UNCHANGED <<ent, gate>>
    BY <1>3 DEF Resurrect, NewLease
  <2> QED BY <2>1 DEF LifeInv, Serving, InMemory, Valid
<1> QED BY <1>2, <1>3 DEF Lease

LEMMA LoadsLife ==
    ASSUME TypeInv, NEW n \in Nodes, LifeInv(n), Loads(n)
    PROVE  LifeInv(n)'
<1> USE LifeParts
<1>1. ASSUME Enter(n), Valid(n, gate[n].handle), UNCHANGED <<lock, view>> PROVE LifeInv(n)'
  <2>1. /\ ent'[n].handle = gate[n].handle /\ ~ent'[n].invalid /\ ~ent'[n].unloading
        /\ gate'[n].pc = "init"
    BY <1>1 DEF Enter, NoEnt, TypeInv, TypeOK
  <2> QED BY <1>1, <2>1 DEF LifeInv, Serving, Loading, Leaving, Resting, InMemory, Valid
<1>2. ASSUME LoadFails(n), UNCHANGED ent, gate[n].pc = "load" PROVE LifeInv(n)'
  <2>1. ~InMemory(n)' /\ ent'[n] = NoEnt
    BY <1>2 DEF LifeInv, Loading, InMemory
  <2>2. gate'[n].pc = "idle" \/ (gate'[n].pc = "unlock" /\ gate'[n].for = "load")
    BY <1>2 DEF LoadFails
  <2> QED BY <2>1, <2>2 DEF LifeInv, Serving, Leaving, NoEnt
<1>3. CASE LockReturns(n)
  <2>1. gate[n].for \in {"load", "recover"} /\ gate[n].pc = "lock"
    BY <1>3 DEF LockReturns, TypeInv, GateOK
  <2>2. CASE gate[n].for = "load"
    <3>1. UNCHANGED ent /\ ent[n] = NoEnt
      BY <1>3, <2>1, <2>2 DEF LockReturns, LifeInv, Loading, InMemory
    <3>2. gate'[n].pc \in {"idle", "load"}
      BY <1>3, <2>2 DEF LockReturns
    <3> QED BY <3>1, <3>2 DEF LifeInv, Serving, Leaving, InMemory, NoEnt
  <2>3. CASE gate[n].for = "recover"
    <3>1. ent[n].unloading
      BY <2>1, <2>3 DEF LifeInv, Leaving
    <3>2. CASE LockAccepted(n)
      <4>1. UNCHANGED ent /\ gate'[n].pc = "recover"
        BY <1>3, <2>3, <3>2 DEF LockReturns
      <4> QED BY <3>1, <4>1, LifeLeaves DEF Leaving
    <3>3. CASE ~LockAccepted(n)
      BY <1>3, <2>3, <3>1, <3>3, RecoveryLife DEF LockReturns
    <3> QED BY <3>2, <3>3
  <2> QED BY <2>1, <2>2, <2>3
<1>4. CASE LoadBegins(n)
  <2>1. CASE UNCHANGED <<ent, gate>>
    BY <1>4, <2>1, LifeElsewhere DEF LoadBegins, SameLife
  <2> QED BY <1>1, <1>2, <1>4, <2>1 DEF LoadBegins
<1>5. CASE LoadReturns(n)
  BY <1>1, <1>2, <1>5 DEF LoadReturns, Answered
<1>6. CASE InitReturns(n)
  <2>1. CASE Valid(n, ent[n].handle) /\ To(n, "handler", ent[n].handle) /\ UNCHANGED ent
    <3>1. gate[n].pc = "init" /\ UNCHANGED <<lock, view>> /\ gate'[n].pc = "handler"
      BY <1>6, <2>1 DEF InitReturns
    <3> QED BY <2>1, <3>1 DEF LifeInv, Serving, Loading, Leaving, Resting, InMemory, Valid
  <2> QED BY <1>6, <2>1, UnloadLife DEF InitReturns
<1> QED BY <1>3, <1>4, <1>5, <1>6 DEF Loads

LEMMA ServesLife ==
    ASSUME TypeInv, NEW n \in Nodes, LifeInv(n), Serves(n) \/ Starts(n)
    PROVE  LifeInv(n)'
<1> USE LifeParts
<1>1. ASSUME UNCHANGED <<ent, lock, view>>, Resting(gate[n]), Resting(gate'[n]) PROVE LifeInv(n)'
  BY <1>1 DEF LifeInv, Serving, Loading, Leaving, Resting, InMemory, Valid
<1>2. CASE HandlerReturns(n)
  <2>1. CASE UNCHANGED ent
    BY <1>1, <1>2, <2>1 DEF HandlerReturns, Resting
  <2>2. CASE OnLockExpired(n, ent[n].handle)
    <3>1. ent'[n] = ent[n] \/ (ent'[n].invalid /\ ent'[n].armed)
      BY <2>2 DEF OnLockExpired, TypeInv, TypeOK, Ent
    <3>2. gate'[n].pc = "idle" /\ gate[n].pc = "handler" /\ UNCHANGED <<lock, view>>
      BY <1>2 DEF HandlerReturns
    <3> QED BY <3>1, <3>2 DEF LifeInv, Serving, Loading, Leaving, Resting, InMemory, Valid
  <2> QED BY <1>2, <2>1, <2>2 DEF HandlerReturns
<1>3. CASE SaveReturns(n)
  <2>1. CASE row[n].by = "gate"
    <3>1. gate[n].pc = "save" /\ gate'[n].pc = "handler"
      BY <1>3, <2>1 DEF SaveReturns, Answered, TypeInv, TypeOK, Gate
    <3> QED BY <1>1, <1>3, <3>1 DEF SaveReturns, Resting
  <2>2. CASE row[n].by # "gate"
    BY <1>3, <2>2, LifeElsewhere DEF SaveReturns, SameLife
  <2> QED BY <2>1, <2>2
<1>4. CASE Serve(n)
  BY <1>1, <1>4 DEF Serve, Resting
<1>5. CASE StartLoad(n)
  <2>1. gate'[n].pc = "load" \/ (gate'[n].pc = "lock" /\ gate'[n].for = "load")
    BY <1>5 DEF StartLoad
  <2>2. ~InMemory(n) /\ ent'[n] = NoEnt
    BY <1>5 DEF StartLoad, InMemory
  <2> QED BY <2>1, <2>2 DEF LifeInv, Serving, Leaving, Resting, InMemory
<1>6. CASE HandlerSaves(n)
  <2>1. gate[n].pc = "handler" /\ gate'[n].pc = "save"
    BY <1>6 DEF HandlerSaves, TypeInv, TypeOK, Gate
  <2> QED BY <1>1, <1>6, <2>1 DEF HandlerSaves, Resting
<1>7. CASE SweepSaves(n)
  BY <1>7, LifeElsewhere DEF SweepSaves, SameLife
<1>8. CASE Unload(n)
  BY <1>8, UnloadLife DEF Unload
<1> QED BY <1>2, <1>3, <1>4, <1>5, <1>6, <1>7, <1>8 DEF Serves, Starts

LEMMA LeavesLife ==
    ASSUME TypeInv, NEW n \in Nodes, LifeInv(n), Leaves(n)
    PROVE  LifeInv(n)'
<1> USE LifeParts
<1>1. ent \in [Nodes -> Ent] /\ ent[n] \in Ent
  BY DEF TypeInv, TypeOK
<1>2. ASSUME Leaving(gate[n]) PROVE ent[n].unloading
  BY <1>2 DEF LifeInv
<1>3. ASSUME Leaving(gate[n]), Persisted(n) PROVE LifeInv(n)'
  <2> DEFINE e == [ent[n] EXCEPT !.persisted = TRUE]
  <2>1. e.unloading
    BY <1>1, <1>2, <1>3 DEF Ent
  <2> QED BY <1>3, <2>1, ReleaseLife DEF Persisted
<1>4. ASSUME Leaving(gate[n]), Recovered(n) PROVE LifeInv(n)'
  <2> DEFINE e == [ent[n] EXCEPT !.handle = gate[n].handle, !.invalid = FALSE, !.persisted = TRUE]
  <2>1. e.unloading
    BY <1>1, <1>2, <1>4 DEF Ent
  <2> QED BY <1>4, <2>1, ReleaseLife DEF Recovered
<1>5. ASSUME Leaving(gate[n]), Abort(n) PROVE LifeInv(n)'
  BY <1>2, <1>5, LifeEnds DEF Abort
<1>6. ASSUME Leaving(gate[n]), RecoverFails(n) PROVE LifeInv(n)'
  <2>1. CASE Valid(n, gate[n].handle)
    BY <1>2, <1>6, <2>1, LifeLeaves DEF RecoverFails, Leaving
  <2>2. CASE ~Valid(n, gate[n].handle)
    BY <1>2, <1>6, <2>2, RecoveryLife DEF RecoverFails
  <2> QED BY <2>1, <2>2
<1>7. ASSUME Leaving(gate[n]), Superseded(n) PROVE LifeInv(n)'
  <2>1. CASE UNCHANGED ent /\ SendUnlock(n, "superseded", gate[n].handle)
    BY <1>2, <1>7, <2>1 DEF LifeInv, Serving, Loading, Leaving, Resting
  <2>2. CASE Forget(n) /\ EndGate(n)
    BY <2>2, LifeEnds
  <2> QED BY <1>7, <2>1, <2>2 DEF Superseded
<1>8. CASE HooksReturn(n)
  <2>1. gate[n].pc = "hooks" /\ Leaving(gate[n])
    BY <1>8 DEF HooksReturn, Leaving
  <2>2. CASE ent' = [ent EXCEPT ![n].hooked = TRUE] /\ To(n, "flush", ent[n].handle)
    <3>1. ent'[n].unloading /\ gate'[n].pc = "flush"
      BY <1>1, <1>2, <2>1, <2>2 DEF Ent
    <3> QED BY <3>1, LifeLeaves DEF Leaving
  <2> QED BY <1>2, <1>8, <2>1, <2>2, LifeEnds DEF HooksReturn
<1>9. CASE FlushBegins(n)
  <2>1. Leaving(gate[n]) /\ UNCHANGED <<lock, view>>
    BY <1>9 DEF FlushBegins, Leaving
  <2>2. CASE UNCHANGED <<ent, gate>>
    BY <2>1, <2>2, LifeElsewhere DEF SameLife
  <2> QED BY <1>3, <1>5, <1>9, <2>1, <2>2 DEF FlushBegins
<1>10. CASE FlushReturns(n)
  <2>1. Leaving(gate[n])
    BY <1>10 DEF FlushReturns, Answered, Leaving
  <2> QED BY <1>3, <1>5, <1>10, <2>1 DEF FlushReturns
<1>11. CASE Discard(n)
  <2>1. Leaving(gate[n]) /\ ent[n].unloading
    BY <1>2, <1>11 DEF Discard, Leaving
  <2>2. CASE Forget(n) /\ EndGate(n)
    BY <2>2, LifeEnds
  <2>3. CASE RecoveryFailed(n, ent[n].tries + 1) /\ EndGate(n)
    BY <2>1, <2>3, RecoveryLife
  <2>4. CASE /\ ent' = [ent EXCEPT ![n].tries = ent[n].tries + 1]
             /\ To(n, "recover", lock[n]) \/ SendLock(n, "recover")
    <3>1. ent'[n].unloading
      BY <1>1, <2>1, <2>4 DEF Ent
    <3> QED BY <2>4, <3>1, LifeLeaves DEF Leaving
  <2> QED BY <1>11, <2>2, <2>3, <2>4 DEF Discard
<1>12. CASE RecoverBegins(n) \/ RecoverClaimed(n)
  <2>1. Leaving(gate[n]) /\ UNCHANGED <<lock, view>>
    BY <1>12 DEF RecoverBegins, RecoverClaimed, Answered, Leaving
  <2>2. CASE UNCHANGED <<ent, gate>>
    BY <2>1, <2>2, LifeElsewhere DEF SameLife
  <2> QED BY <1>4, <1>6, <1>7, <1>12, <2>1, <2>2 DEF RecoverBegins, RecoverClaimed
<1>13. CASE RecoverSaved(n)
  <2>1. Leaving(gate[n])
    BY <1>13 DEF RecoverSaved, Answered, Leaving
  <2> QED BY <1>4, <1>6, <1>13, <2>1 DEF RecoverSaved
<1>14. CASE UnlockReturns(n)
  <2>1. gate[n].pc = "unlock" /\ EndGate(n) /\ gate[n].for \in Fors
    BY <1>14, GateReplies DEF UnlockReturns, TypeInv, TypeOK
  <2>2. CASE gate[n].for = "load"
    <3>1. ent'[n] = NoEnt
      BY <1>14, <2>1, <2>2 DEF UnlockReturns, LifeInv, Loading, InMemory
    <3> QED BY <2>1, <3>1, LifeEnds
  <2>3. CASE gate[n].for = "superseded"
    BY <1>14, <2>1, <2>3, LifeEnds DEF UnlockReturns
  <2>4. CASE gate[n].for = "recover"
    BY <1>2, <1>14, <2>1, <2>4, RecoveryLife DEF UnlockReturns, Leaving
  <2>5. CASE gate[n].for = "release"
    <3>1. ent[n].unloading
      BY <1>2, <2>1, <2>5 DEF Leaving
    <3>2. ent'[n] = NoEnt \/ (ent'[n].armed /\ ent'[n].unloading)
      BY <1>1, <1>14, <2>5, <3>1 DEF UnlockReturns, Forget, Ent
    <3> QED BY <2>1, <3>2, LifeEnds
  <2> QED BY <2>1, <2>2, <2>3, <2>4, <2>5 DEF Fors
<1> QED BY <1>8, <1>9, <1>10, <1>11, <1>12, <1>13, <1>14 DEF Leaves

LEMMA ServerLife ==
    ASSUME TypeInv, NEW n \in Nodes, LifeInv(n), Answers(n) \/ Fails(n) \/ \E m \in Mutations : Mutate(n, m)
    PROVE  LifeInv(n)'
<1>1. ASSUME UNCHANGED <<ent, lock, view>>, gate'[n].pc = gate[n].pc, gate'[n].for = gate[n].for PROVE LifeInv(n)'
  BY <1>1 DEF LifeInv, Serving, Loading, Leaving, Resting, InMemory, Valid
<1>2. CASE Answers(n)
  <2>1. UNCHANGED <<ent, lock, view>>
    BY <1>2 DEF Answers, EtcdLock, EtcdUnlock, MongoClaim, MongoResolve, MongoSave
  <2>2. CASE EtcdLock(n) \/ EtcdUnlock(n)
    BY <1>1, <2>1, <2>2 DEF EtcdLock, EtcdUnlock, TypeInv, TypeOK, Gate
  <2>3. CASE MongoClaim(n) \/ MongoResolve(n) \/ MongoSave(n)
    BY <1>1, <2>1, <2>3 DEF MongoClaim, MongoResolve, MongoSave
  <2> QED BY <1>2, <2>2, <2>3 DEF Answers
<1>3. CASE EtcdFails(n) \/ EtcdRetries(n)
  BY <1>1, <1>3 DEF EtcdFails, EtcdRetries, TypeInv, TypeOK, Gate
<1>4. CASE MongoFails(n) \/ \E m \in Mutations : Mutate(n, m)
  BY <1>1, <1>4 DEF MongoFails, Mutate
<1>5. CASE Crash(n)
  BY <1>5, LifeParts, LifeEnds DEF Crash
<1> QED BY <1>2, <1>3, <1>4, <1>5 DEF Fails

(* Steps leave the other nodes alone. *)
Does(n) ==
    \/ Lease(n) \/ Answers(n) \/ Fails(n) \/ Loads(n) \/ Serves(n) \/ Leaves(n) \/ Starts(n)
    \/ \E m \in Mutations : Mutate(n, m)

LEMMA OthersLive ==
    ASSUME TypeInv, NEW k \in Nodes, Does(k), NEW n \in Nodes, k # n
    PROVE  SameLife(n) /\ cache'[n] = cache[n] /\ row'[n] = row[n]
<1>1. /\ gate \in [Nodes -> Gate] /\ ent \in [Nodes -> Ent] /\ cache \in [Nodes -> Cache] /\ row \in [Nodes -> Row]
      /\ lock \in [Nodes -> Handle0] /\ view \in [Nodes -> [lease : 0 .. MaxLease, valid : BOOLEAN]]
  BY DEF TypeInv, TypeOK
<1>2. CASE Answers(k)
  <2>1. OthersKept(k)
    BY <1>1, <1>2 DEF Answers, EtcdLock, EtcdUnlock, MongoClaim, MongoResolve, MongoSave, Answer, OthersKept
  <2>2. UNCHANGED <<lock, view>>
    BY <1>2 DEF Answers, EtcdLock, EtcdUnlock, MongoClaim, MongoResolve, MongoSave
  <2> QED BY <2>1, <2>2 DEF OthersKept, SameLife
<1>3. CASE Fails(k)
  <2>1. CASE Crash(k)
    BY <1>1, <2>1, KeptByParts DEF Crash, SameLife
  <2>2. CASE EtcdFails(k) \/ EtcdRetries(k) \/ MongoFails(k)
    BY <1>1, <2>2 DEF EtcdFails, EtcdRetries, MongoFails, SameLife
  <2> QED BY <1>3, <2>1, <2>2 DEF Fails
<1>4. CASE Lease(k)
  <2>1. lock'[n] = lock[n] /\ view'[n] = view[n]
    BY <1>1, <1>4 DEF Lease, LoseLease, Resurrect, NewLease
  <2> QED BY <1>4, <2>1, StepsKeep DEF OthersKept, SameLife
<1>5. CASE Loads(k)
  <2>1. lock'[n] = lock[n] /\ view'[n] = view[n]
    BY <1>1, <1>5 DEF Loads, LockReturns, LoadBegins, LoadReturns, InitReturns
  <2> QED BY <1>5, <2>1, StepsKeep DEF OthersKept, SameLife
<1>6. CASE Serves(k) \/ Starts(k) \/ \E m \in Mutations : Mutate(k, m)
  <2>1. UNCHANGED <<lock, view>>
    BY <1>6 DEF Serves, HandlerReturns, SaveReturns, Starts, Serve, StartLoad, HandlerSaves, SweepSaves, Unload, Mutate
  <2> QED BY <1>6, <2>1, StepsKeep DEF OthersKept, SameLife
<1>7. CASE Leaves(k)
  <2>1. CASE UnlockReturns(k)
    <3>1. lock'[n] = lock[n] /\ view'[n] = view[n]
      BY <1>1, <2>1 DEF UnlockReturns
    <3> QED BY <1>7, <3>1, LeavesKeeps DEF OthersKept, SameLife
  <2>2. CASE UNCHANGED <<lock, view>>
    BY <1>7, <2>2, LeavesKeeps DEF OthersKept, SameLife
  <2> QED BY <1>7, <2>1, <2>2
          DEF Leaves, HooksReturn, FlushBegins, FlushReturns, Discard, RecoverBegins, RecoverClaimed, RecoverSaved
<1> QED BY <1>2, <1>3, <1>4, <1>5, <1>6, <1>7 DEF Does

LEMMA StepLife == TypeInv /\ (\A n \in Nodes : LifeInv(n)) /\ [Next]_vars => \A n \in Nodes : LifeInv(n)'
<1> SUFFICES ASSUME TypeInv, \A n \in Nodes : LifeInv(n), [Next]_vars, NEW n \in Nodes PROVE LifeInv(n)'
  OBVIOUS
<1>1. CASE UNCHANGED <<ent, gate, lock, view>>
  BY <1>1, LifeElsewhere DEF SameLife
<1>2. ASSUME NEW k \in Nodes, Does(k) PROVE LifeInv(n)'
  <2>1. CASE k # n
    BY <1>2, <2>1, OthersLive, LifeElsewhere
  <2>2. CASE k = n
    BY <1>2, <2>2, LeaseLife, ServerLife, LoadsLife, ServesLife, LeavesLife DEF Does
  <2> QED BY <2>1, <2>2
<1>3. ASSUME (\E l \in Leases : ExpireLease(l)) \/ (\E q \in stray : EtcdStray(q)) \/ (\E w \in late : LateWrite(w))
      PROVE  UNCHANGED <<ent, gate, lock, view>>
  BY <1>3 DEF ExpireLease, EtcdStray, LateWrite
<1>4. UNCHANGED vars => UNCHANGED <<ent, gate, lock, view>>
  BY DEF vars
<1> QED BY <1>1, <1>2, <1>3, <1>4 DEF Next, Does

LEMMA LifeHolds == Spec => [](TypeInv /\ \A n \in Nodes : LifeInv(n))
<1> DEFINE Alive == \A n \in Nodes : LifeInv(n)
<1>1. Init => Alive
  <2> SUFFICES ASSUME Init, NEW n \in Nodes PROVE LifeInv(n)
    OBVIOUS
  <2>1. ent[n] = NoEnt /\ gate[n].pc = "idle"
    BY DEF Init, Idle
  <2> QED BY <2>1 DEF LifeInv, Serving, Loading, Leaving, Resting, InMemory
<1>2. TypeInv /\ Alive /\ [Next]_vars => Alive'
  BY StepLife
<1> HIDE DEF Alive
<1>3. Spec => [](TypeInv /\ Alive)
  BY <1>1, <1>2, InitTypes, StepTypes, PTL DEF Spec
<1> QED BY <1>3 DEF Alive

(* What would serve has its lock, whichever operation was under way when the *)
(* lease was lost, found again or replaced.                                 *)
THEOREM UsableIsLockedAlways == Spec => []UsableIsLocked
<1>1. TypeInv /\ (\A n \in Nodes : LifeInv(n)) => UsableIsLocked
  BY DEF LifeInv, Serving, UsableIsLocked
<1> QED BY <1>1, LifeHolds, PTL

(* What has stopped serving, and that nothing works on, will be unloaded:    *)
(* no operation ends without a timer when it leaves such an entity behind.  *)
THEOREM NeverStrandedAlways == Spec => []NeverStranded
<1>1. TypeInv /\ (\A n \in Nodes : LifeInv(n)) => NeverStranded
  BY DEF LifeInv, Resting, NeverStranded
<1> QED BY <1>1, LifeHolds, PTL

-----------------------------------------------------------------------------
(* Handles.  A lock that a node has is of the lease it finds valid.  The     *)
(* cache is of the entity's handle; a quarantined entity's handle, and a     *)
(* handle that is being given back, are not what the cache is valid under.  *)

LockFacts(n) == lock[n] # NoHandle => view[n].valid /\ lock[n].lease = view[n].lease

EntFacts(n) ==
    /\ InMemory(n) => cache[n].handle \in {ent[n].handle, NoHandle}
    /\ ent[n].persisted => cache[n].handle = NoHandle
    /\ ent[n].invalid => lock[n] = NoHandle \/ lock[n] # ent[n].handle

GateFacts(n) ==
    /\ gate[n].pc = "discard" => ent[n].invalid
    /\ gate[n].pc = "recover" => gate[n].handle # ent[n].handle
    /\ gate[n].pc = "load" /\ row[n].by = "gate" => cache[n].handle = NoHandle
    /\ gate[n].pc = "unlock" =>
          /\ gate[n].handle # NoHandle /\ cache[n].handle # gate[n].handle
          /\ lock[n] \in {gate[n].handle, NoHandle}

Handles(n) == LockFacts(n) /\ EntFacts(n) /\ GateFacts(n)

(* How the gate and the lock may go on together: a request to unlock is sent *)
(* for the lock the node has, and after it the node has none.               *)
Turn(n) ==
    \/ gate'[n] = gate[n] /\ lock'[n] = lock[n]
    \/ gate'[n].pc \notin {"lock", "unlock"} /\ gate[n].pc # "unlock" /\ lock'[n] = lock[n]
    \/ /\ gate'[n].pc = "lock" /\ gate'[n].reply = "none" /\ gate'[n].lease = view[n].lease /\ view[n].valid
       /\ gate[n].pc # "unlock" /\ lock'[n] = lock[n]
    \/ /\ gate'[n].pc = "unlock" /\ gate'[n].reply = "none" /\ gate'[n].handle = lock[n] /\ lock[n] # NoHandle
       /\ gate[n].pc # "unlock" /\ lock'[n] = lock[n]
    \/ gate'[n].pc \notin {"lock", "unlock"} /\ lock'[n] = NoHandle
    \/ /\ gate'[n].pc \notin {"lock", "unlock"} /\ gate[n].pc = "lock" /\ LockAccepted(n)
       /\ lock'[n].lease = gate[n].lease /\ lock'[n].fence = gate[n].fence

CacheGoes(n) == cache'[n].handle \in {cache[n].handle, NoHandle}

EntGoes(n) ==
    \/ ent'[n] = NoEnt
    \/ ent'[n] = ent[n]
    \/ /\ InMemory(n) /\ ent'[n].handle = ent[n].handle
       /\ ent'[n].persisted => ent[n].persisted \/ cache'[n].handle = NoHandle
       /\ ent'[n].invalid => ent[n].invalid \/ lock'[n] = NoHandle \/ lock'[n] # ent[n].handle

LEMMA HandlesGo ==
    ASSUME NEW n, Handles(n), EntGoes(n), CacheGoes(n), lock'[n] \in {lock[n], NoHandle},
           view'[n] = view[n], GateFacts(n)'
    PROVE  Handles(n)'
<1>1. LockFacts(n)'
  BY DEF Handles, LockFacts
<1>2. EntFacts(n)'
  <2>1. CASE ent'[n] = NoEnt
    BY <2>1 DEF EntFacts, InMemory, NoEnt
  <2>2. CASE ent'[n] = ent[n]
    BY <2>2 DEF Handles, EntFacts, InMemory, CacheGoes
  <2>3. CASE ~(ent'[n] = NoEnt \/ ent'[n] = ent[n])
    BY <2>3 DEF Handles, EntFacts, InMemory, CacheGoes, EntGoes
  <2> QED BY <2>1, <2>2, <2>3
<1> QED BY <1>1, <1>2 DEF Handles

Calm(g) == g.pc \notin {"discard", "recover", "load", "unlock"}

LEMMA CalmGate == ASSUME NEW n, Calm(gate'[n]) PROVE GateFacts(n)'
BY DEF Calm, GateFacts

(* The lock that a node has is valid. *)
LEMMA LockIsValid == ASSUME NEW n, LockFacts(n), lock[n] # NoHandle PROVE Valid(n, lock[n])
BY DEF LockFacts, Valid

(* The parts of actions again, with the handles. *)
LEMMA GateParts ==
    ASSUME TypeInv, NEW n \in Nodes
    PROVE  /\ EndGate(n) => gate'[n] = Idle
           /\ \A pc, h : To(n, pc, h) => gate'[n] = [Idle EXCEPT !.pc = pc, !.handle = h]
           /\ \A for : SendLock(n, for) => gate'[n] = [Idle EXCEPT !.pc = "lock", !.for = for, !.lease = view[n].lease]
           /\ \A for, h : SendUnlock(n, for, h) => gate'[n] = [Idle EXCEPT !.pc = "unlock", !.for = for, !.handle = h]
           /\ DropCache(n) => cache'[n].handle = NoHandle
           /\ FreeTheRow(n) => row'[n].by = "none"
<1>1. gate \in [Nodes -> Gate] /\ cache \in [Nodes -> Cache] /\ row \in [Nodes -> Row]
  BY DEF TypeInv, TypeOK
<1>2. EndGate(n) => gate'[n] = Idle
  BY <1>1 DEF EndGate
<1>3. \A pc, h : To(n, pc, h) => gate'[n] = [Idle EXCEPT !.pc = pc, !.handle = h]
  BY <1>1 DEF To
<1>4. \A for : SendLock(n, for) => gate'[n] = [Idle EXCEPT !.pc = "lock", !.for = for, !.lease = view[n].lease]
  BY <1>1 DEF SendLock
<1>5. \A for, h : SendUnlock(n, for, h) => gate'[n] = [Idle EXCEPT !.pc = "unlock", !.for = for, !.handle = h]
  BY <1>1 DEF SendUnlock
<1>6. DropCache(n) => cache'[n].handle = NoHandle
  BY <1>1 DEF DropCache, NoCache
<1>7. FreeTheRow(n) => row'[n].by = "none"
  BY <1>1 DEF FreeTheRow, FreeRow
<1> QED BY <1>2, <1>3, <1>4, <1>5, <1>6, <1>7

(* Where the gate goes, in the terms of Turn and GateFacts. *)
LEMMA Ends ==
    ASSUME TypeInv, NEW n \in Nodes, EndGate(n)
    PROVE  GateFacts(n)' /\ gate'[n].pc = "idle"
<1>1. gate'[n].pc = "idle"
  BY LifeParts
<1> QED BY <1>1, CalmGate DEF Calm

LEMMA Goes ==
    ASSUME TypeInv, NEW n \in Nodes, NEW pc, NEW h, To(n, pc, h)
    PROVE  gate'[n].pc = pc /\ gate'[n].handle = h
<1>1. gate'[n] = [Idle EXCEPT !.pc = pc, !.handle = h]
  <2>1. gate \in [Nodes -> Gate]
    BY DEF TypeInv, TypeOK
  <2> QED BY <2>1 DEF To
<1> QED BY <1>1 DEF Idle

LEMMA Locking ==
    ASSUME TypeInv, NEW n \in Nodes, NEW for, SendLock(n, for), view[n].valid, gate[n].pc # "unlock", lock'[n] = lock[n]
    PROVE  GateFacts(n)' /\ Turn(n)
<1>1. gate'[n] = [Idle EXCEPT !.pc = "lock", !.for = for, !.lease = view[n].lease]
  BY GateParts
<1>2. gate'[n].pc = "lock" /\ gate'[n].reply = "none" /\ gate'[n].lease = view[n].lease
  BY <1>1 DEF Idle
<1> QED BY <1>2, CalmGate DEF Calm, Turn

LEMMA Unlocking ==
    ASSUME TypeInv, NEW n \in Nodes, NEW for, NEW h, SendUnlock(n, for, h), Valid(n, h), cache'[n].handle # h,
           gate[n].pc # "unlock", lock'[n] = lock[n]
    PROVE  GateFacts(n)' /\ Turn(n)
<1>1. gate'[n] = [Idle EXCEPT !.pc = "unlock", !.for = for, !.handle = h]
  BY DEF SendUnlock, TypeInv, TypeOK
<1>2. gate'[n].pc = "unlock" /\ gate'[n].reply = "none" /\ gate'[n].handle = h
  BY <1>1 DEF Idle
<1>3. lock[n] = h /\ h # NoHandle
  BY DEF Valid
<1> QED BY <1>2, <1>3 DEF GateFacts, Turn

LEMMA Released ==
    ASSUME TypeInv, NEW n \in Nodes, NEW e, Release(n, e), cache'[n].handle = NoHandle, gate[n].pc # "unlock", lock'[n] = lock[n]
    PROVE  GateFacts(n)' /\ Turn(n) /\ ent'[n] \in {NoEnt, e}
<1>1. CASE Valid(n, e.handle)
  <2>1. ent'[n] = e
    BY <1>1 DEF Release, TypeInv, TypeOK
  <2>2. e.handle # NoHandle
    BY <1>1 DEF Valid
  <2>3. GateFacts(n)' /\ Turn(n)
    BY <1>1, <2>2, Unlocking DEF Release
  <2> QED BY <2>1, <2>3
<1>2. CASE ~Valid(n, e.handle)
  BY <1>2, Ends, LifeParts DEF Release, Turn
<1> QED BY <1>1, <1>2

LEMMA RecoveryGoes ==
    ASSUME TypeInv, NEW n \in Nodes, NEW k, RecoveryFailed(n, k), InMemory(n)
    PROVE  EntGoes(n) /\ CacheGoes(n)
<1>1. ent \in [Nodes -> Ent] /\ ent[n] \in Ent /\ cache \in [Nodes -> Cache] /\ cache[n] \in Cache
  BY DEF TypeInv, TypeOK
<1>2. CASE k >= MaxTries
  <2>1. ent'[n] = NoEnt
    BY <1>2, LifeParts DEF RecoveryFailed
  <2>2. CacheGoes(n)
    BY <1>2, GateParts DEF RecoveryFailed, CacheGoes
  <2> QED BY <2>1, <2>2 DEF EntGoes
<1>3. CASE ~(k >= MaxTries)
  <2>1. ent'[n].handle = ent[n].handle /\ ent'[n].persisted = ent[n].persisted /\ ent'[n].invalid = ent[n].invalid
    BY <1>1, <1>3 DEF RecoveryFailed, Ent
  <2>2. cache'[n].handle = cache[n].handle
    BY <1>1, <1>3 DEF RecoveryFailed, Cache
  <2> QED BY <2>1, <2>2 DEF EntGoes, CacheGoes
<1> QED BY <1>2, <1>3

LEMMA UnloadHandles ==
    ASSUME TypeInv, NEW n \in Nodes, Handles(n), InMemory(n), UnloadEntity(n), UNCHANGED <<lock, view, cache>>,
           gate[n].pc \in {"idle", "init"}
    PROVE  Handles(n)' /\ Turn(n)
<1> DEFINE e == [ent[n] EXCEPT !.unloading = TRUE, !.armed = FALSE]
           x == [e EXCEPT !.invalid = TRUE]
<1>1. /\ e.handle = ent[n].handle /\ e.persisted = ent[n].persisted /\ e.invalid = ent[n].invalid
      /\ x.handle = ent[n].handle /\ x.persisted = ent[n].persisted /\ x.invalid
      /\ ent \in [Nodes -> Ent]
  BY DEF TypeInv, TypeOK, Ent
<1>2. CacheGoes(n)
  BY DEF CacheGoes
<1>3. CASE e.persisted /\ Release(n, e)
  <2>1. cache'[n].handle = NoHandle
    BY <1>1, <1>3 DEF Handles, EntFacts
  <2>2. GateFacts(n)' /\ Turn(n) /\ ent'[n] \in {NoEnt, e}
    BY <1>3, <2>1, Released
  <2>3. EntGoes(n)
    BY <1>1, <2>2 DEF EntGoes
  <2> QED BY <1>2, <2>2, <2>3, HandlesGo
<1>4. CASE /\ e.invalid \/ ~Valid(n, e.handle)
           /\ ent' = [ent EXCEPT ![n] = x] /\ To(n, "discard", e.handle)
  <2>1. ent'[n] = x /\ gate'[n].pc = "discard"
    BY <1>1, <1>4, Goes
  <2>2. lock[n] = NoHandle \/ lock[n] # ent[n].handle
    BY <1>1, <1>4, LockIsValid DEF Handles, EntFacts
  <2>3. EntGoes(n)
    BY <1>1, <2>1, <2>2 DEF EntGoes
  <2>4. GateFacts(n)' /\ Turn(n)
    BY <1>1, <2>1 DEF GateFacts, Turn
  <2> QED BY <1>2, <2>3, <2>4, HandlesGo
<1>5. CASE ent' = [ent EXCEPT ![n] = e] /\ To(n, IF e.hooked THEN "flush" ELSE "hooks", e.handle)
  <2>1. ent'[n] = e /\ gate'[n].pc \in {"flush", "hooks"}
    BY <1>1, <1>5, Goes
  <2>2. EntGoes(n)
    BY <1>1, <2>1 DEF EntGoes
  <2>3. GateFacts(n)' /\ Turn(n)
    BY <2>1, CalmGate DEF Calm, Turn
  <2> QED BY <1>2, <2>2, <2>3, HandlesGo
<1> QED BY <1>3, <1>4, <1>5 DEF UnloadEntity

LEMMA LoadsHandles ==
    ASSUME Inv, NEW n \in Nodes, LifeInv(n), Handles(n), Loads(n)
    PROVE  Handles(n)' /\ Turn(n)
<1>1. TypeInv /\ FlowInv(n)
  BY DEF Inv, StoreInv, NodeInv
<1>2. /\ gate \in [Nodes -> Gate] /\ ent \in [Nodes -> Ent] /\ cache \in [Nodes -> Cache]
      /\ lock \in [Nodes -> Handle0]
  BY <1>1 DEF TypeInv, TypeOK
<1>3. ASSUME Enter(n), Valid(n, gate[n].handle), cache'[n].handle = gate[n].handle, gate[n].pc = "load", UNCHANGED <<lock, view>>
      PROVE  Handles(n)' /\ Turn(n)
  <2>1. ent'[n] = [NoEnt EXCEPT !.handle = gate[n].handle]
    BY <1>2, <1>3 DEF Enter
  <2>2. ent'[n].handle = gate[n].handle /\ ~ent'[n].invalid /\ ~ent'[n].persisted
    BY <2>1 DEF NoEnt
  <2>3. gate'[n].pc = "init"
    BY <1>1, <1>3, Goes DEF Enter
  <2>4. GateFacts(n)' /\ Turn(n)
    BY <1>3, <2>3, CalmGate DEF Calm, Turn
  <2>5. EntFacts(n)' /\ LockFacts(n)'
    BY <1>3, <2>2 DEF EntFacts, Handles, LockFacts
  <2> QED BY <2>4, <2>5 DEF Handles
<1>4. ASSUME LoadFails(n), cache'[n].handle # gate[n].handle \/ ~Valid(n, gate[n].handle), CacheGoes(n), gate[n].pc = "load",
             UNCHANGED <<ent, lock, view>>
      PROVE  Handles(n)' /\ Turn(n)
  <2>1. GateFacts(n)' /\ Turn(n)
    <3>1. CASE Valid(n, gate[n].handle)
      BY <1>1, <1>4, <3>1, Unlocking DEF LoadFails
    <3>2. CASE ~Valid(n, gate[n].handle)
      BY <1>1, <1>4, <3>2, Ends DEF LoadFails, Turn
    <3> QED BY <3>1, <3>2
  <2>2. EntGoes(n)
    BY <1>4 DEF EntGoes
  <2> QED BY <1>4, <2>1, <2>2, HandlesGo
<1>5. CASE LockReturns(n)
  <2>1. gate[n].for \in {"load", "recover"} /\ gate[n].pc = "lock" /\ UNCHANGED <<view, row>>
    BY <1>1, <1>5 DEF LockReturns, TypeInv, GateOK
  <2>2. CASE LockAccepted(n)
    <3> DEFINE h == [id |-> FreshId(n), lease |-> gate[n].lease, fence |-> gate[n].fence]
    <3>1. lock' = [lock EXCEPT ![n] = h] /\ To(n, gate[n].for, h) /\ UNCHANGED <<cache, ent>>
      BY <1>5, <2>2 DEF LockReturns
    <3>2. /\ FreshId(n) \in 1 .. 4
          /\ FreshId(n) \notin {cache[n].handle.id, ent[n].handle.id, lock[n].id}
      <4>1. cache[n].handle.id \in 0 .. 4 /\ ent[n].handle.id \in 0 .. 4 /\ lock[n].id \in 0 .. 4
        BY <1>1, Members, HandleParts
      <4>2. \E i \in 1 .. 4 : i \notin {cache[n].handle.id, ent[n].handle.id, lock[n].id}
        BY <4>1, FourthNumber
      <4> QED BY <4>2 DEF FreshId
    <3>3. h.id = FreshId(n) /\ h.lease = gate[n].lease /\ h.fence = gate[n].fence
      OBVIOUS
    <3>4. h # NoHandle /\ h # ent[n].handle
      BY <3>2, <3>3 DEF NoHandle
    <3> HIDE DEF h
    <3>5. lock'[n] = h /\ gate'[n].pc = gate[n].for /\ gate'[n].handle = h
      BY <1>1, <1>2, <3>1, Goes
    <3>6. LockFacts(n)'
      BY <2>1, <2>2, <3>3, <3>5 DEF LockFacts, LockAccepted
    <3>7. EntFacts(n)'
      BY <3>1, <3>4, <3>5 DEF Handles, EntFacts, InMemory
    <3>8. row[n].by # "gate"
      BY <1>1, <2>1 DEF FlowInv, Requests
    <3>9. GateFacts(n)'
      BY <2>1, <3>1, <3>4, <3>5, <3>8 DEF GateFacts
    <3>10. Turn(n)
      BY <2>1, <2>2, <3>3, <3>5 DEF Turn
    <3> QED BY <3>6, <3>7, <3>9, <3>10 DEF Handles
  <2>3. CASE ~LockAccepted(n)
    <3>1. EndGate(n) /\ UNCHANGED lock
      BY <1>5, <2>3 DEF LockReturns
    <3>2. EntGoes(n) /\ CacheGoes(n)
      <4>1. CASE gate[n].for = "recover"
        <5>1. InMemory(n)
          BY <2>1, <4>1 DEF LifeInv, Leaving, InMemory, NoEnt
        <5> QED BY <1>1, <1>5, <2>3, <4>1, <5>1, RecoveryGoes DEF LockReturns
      <4>2. CASE gate[n].for # "recover"
        BY <1>5, <2>3, <4>2 DEF LockReturns, EntGoes, CacheGoes
      <4> QED BY <4>1, <4>2
    <3>3. GateFacts(n)' /\ Turn(n)
      BY <1>1, <2>1, <3>1, Ends DEF Turn
    <3> QED BY <2>1, <3>1, <3>2, <3>3, HandlesGo
  <2> QED BY <2>2, <2>3
<1>6. CASE LoadBegins(n)
  <2>1. UNCHANGED <<lock, view>> /\ gate[n].pc = "load"
    BY <1>6 DEF LoadBegins
  <2>2. CASE /\ ~Valid(n, gate[n].handle) \/ (cache[n].handle # gate[n].handle /\ Dirty(n))
             /\ LoadFails(n) /\ UNCHANGED <<cache, ent>>
    BY <1>4, <2>1, <2>2 DEF CacheGoes
  <2>3. CASE Valid(n, gate[n].handle) /\ cache[n].handle = gate[n].handle /\ Enter(n) /\ UNCHANGED cache
    BY <1>3, <2>1, <2>3
  <2>4. CASE DropCache(n) /\ UNCHANGED <<ent, gate>>
    <3>1. cache'[n].handle = NoHandle
      BY <1>1, <2>4, GateParts
    <3>2. GateFacts(n)' /\ Turn(n) /\ EntGoes(n) /\ CacheGoes(n)
      BY <2>1, <2>4, <3>1 DEF GateFacts, Turn, EntGoes, CacheGoes
    <3> QED BY <2>1, <3>2, HandlesGo
  <2> QED BY <1>6, <2>2, <2>3, <2>4 DEF LoadBegins
<1>7. CASE LoadReturns(n)
  <2>1. UNCHANGED <<lock, view>> /\ gate[n].pc = "load" /\ row[n].by = "gate"
    BY <1>7 DEF LoadReturns, Answered
  <2>2. CASE row[n].reply = "ok" /\ Valid(n, gate[n].handle)
    <3>1. cache'[n].handle = gate[n].handle /\ Enter(n)
      BY <1>2, <1>7, <2>2 DEF LoadReturns
    <3> QED BY <1>3, <2>1, <2>2, <3>1
  <2>3. CASE ~(row[n].reply = "ok" /\ Valid(n, gate[n].handle))
    <3>1. LoadFails(n) /\ UNCHANGED <<cache, ent>>
      BY <1>7, <2>3 DEF LoadReturns
    <3>2. cache'[n].handle = NoHandle
      BY <2>1, <3>1 DEF Handles, GateFacts
    <3>3. cache'[n].handle # gate[n].handle \/ ~Valid(n, gate[n].handle)
      BY <3>2 DEF Valid
    <3> QED BY <1>4, <2>1, <3>1, <3>3 DEF CacheGoes
  <2> QED BY <2>2, <2>3
<1>8. CASE InitReturns(n)
  <2>1. UNCHANGED <<lock, view, cache>> /\ gate[n].pc = "init"
    BY <1>8 DEF InitReturns
  <2>2. InMemory(n)
    BY <1>1, <2>1 DEF FlowInv, NeedsEnt, InMemory, NoEnt
  <2>3. CASE To(n, "handler", ent[n].handle) /\ UNCHANGED ent
    <3>1. gate'[n].pc = "handler"
      BY <1>1, <2>3, Goes
    <3>2. GateFacts(n)' /\ Turn(n) /\ EntGoes(n) /\ CacheGoes(n)
      BY <2>1, <2>3, <3>1, CalmGate DEF Calm, Turn, EntGoes, CacheGoes
    <3> QED BY <2>1, <3>2, HandlesGo
  <2> QED BY <1>1, <1>8, <2>1, <2>2, <2>3, UnloadHandles DEF InitReturns
<1> QED BY <1>5, <1>6, <1>7, <1>8 DEF Loads

LEMMA ServesHandles ==
    ASSUME Inv, NEW n \in Nodes, LifeInv(n), Handles(n), Serves(n) \/ Starts(n) \/ \E m \in Mutations : Mutate(n, m)
    PROVE  Handles(n)' /\ Turn(n)
<1>1. TypeInv /\ FlowInv(n)
  BY DEF Inv, StoreInv, NodeInv
<1>2. /\ gate \in [Nodes -> Gate] /\ ent \in [Nodes -> Ent] /\ cache \in [Nodes -> Cache]
      /\ row \in [Nodes -> Row]
  BY <1>1 DEF TypeInv, TypeOK
<1>3. UNCHANGED <<lock, view>>
  BY DEF Serves, HandlerReturns, SaveReturns, Starts, Serve, StartLoad, HandlerSaves, SweepSaves, Unload, Mutate
<1>4. ASSUME gate'[n].pc \in {"idle", "handler", "save"}, gate[n].pc # "unlock", EntGoes(n), CacheGoes(n)
      PROVE  Handles(n)' /\ Turn(n)
  BY <1>3, <1>4, CalmGate, HandlesGo DEF Calm, Turn
<1>5. CASE HandlerReturns(n)
  <2>1. ent'[n] = ent[n] \/ (InMemory(n) /\ ~Valid(n, ent[n].handle) /\ ent'[n].handle = ent[n].handle /\ ent'[n].persisted = ent[n].persisted)
    BY <1>2, <1>5 DEF HandlerReturns, OnLockExpired, Ent
  <2>2. EntGoes(n)
    BY <1>3, <2>1, LockIsValid DEF EntGoes, Handles
  <2>3. CacheGoes(n) /\ gate'[n].pc = "idle" /\ gate[n].pc = "handler"
    BY <1>1, <1>5, Ends DEF HandlerReturns, CacheGoes
  <2> QED BY <1>4, <2>2, <2>3
<1>6. CASE SaveReturns(n)
  <2>1. CacheGoes(n)
    BY <1>2, <1>6 DEF SaveReturns, CacheGoes, Acked, Cache
  <2>2. EntGoes(n)
    BY <1>6 DEF SaveReturns, EntGoes
  <2>3. CASE row[n].by = "gate"
    <3>1. gate[n].pc = "save" /\ gate'[n].pc = "handler"
      BY <1>2, <1>6, <2>3 DEF SaveReturns, Answered, Gate
    <3> QED BY <1>4, <2>1, <2>2, <3>1
  <2>4. CASE row[n].by # "gate"
    <3>1. UNCHANGED <<gate, ent>> /\ row'[n].by = "none"
      BY <1>1, <1>6, <2>4, GateParts DEF SaveReturns
    <3>2. cache'[n].handle = cache[n].handle
      BY <1>2, <1>6 DEF SaveReturns, Acked, Cache
    <3>3. GateFacts(n)' /\ Turn(n)
      BY <1>3, <3>1, <3>2 DEF Handles, GateFacts, Turn
    <3> QED BY <1>3, <2>1, <2>2, <3>3, HandlesGo
  <2> QED BY <2>3, <2>4
<1>7. CASE Serve(n)
  BY <1>1, <1>4, <1>7, Goes DEF Serve, EntGoes, CacheGoes
<1>8. CASE StartLoad(n)
  <2>1. EntGoes(n) /\ CacheGoes(n) /\ gate[n].pc = "idle" /\ view[n].valid
    BY <1>8 DEF StartLoad, EntGoes, CacheGoes
  <2>2. CASE To(n, "load", lock[n])
    <3>1. gate'[n].pc = "load"
      BY <1>1, <2>2, Goes
    <3>2. row'[n].by # "gate"
      BY <1>1, <1>8, <2>1 DEF StartLoad, FlowInv, Requests
    <3>3. GateFacts(n)' /\ Turn(n)
      BY <1>3, <2>1, <3>1, <3>2 DEF GateFacts, Turn
    <3> QED BY <1>3, <2>1, <3>3, HandlesGo
  <2>3. CASE SendLock(n, "load")
    BY <1>1, <1>3, <2>1, <2>3, Locking, HandlesGo
  <2> QED BY <1>8, <2>2, <2>3 DEF StartLoad
<1>9. CASE HandlerSaves(n)
  <2>1. gate'[n].pc = "save" /\ gate[n].pc = "handler" /\ UNCHANGED <<ent, cache>>
    BY <1>2, <1>9 DEF HandlerSaves, Gate
  <2> QED BY <1>4, <2>1 DEF EntGoes, CacheGoes
<1>10. CASE SweepSaves(n)
  <2>1. row'[n].by = "sweep" /\ UNCHANGED <<gate, ent, cache>>
    BY <1>2, <1>10 DEF SweepSaves, SendSave, FreeRow
  <2>2. GateFacts(n)' /\ Turn(n) /\ EntGoes(n) /\ CacheGoes(n)
    BY <1>3, <2>1 DEF Handles, GateFacts, Turn, EntGoes, CacheGoes
  <2> QED BY <1>3, <2>2, HandlesGo
<1>11. CASE Unload(n)
  BY <1>1, <1>3, <1>11, UnloadHandles DEF Unload
<1>12. ASSUME NEW m \in Mutations, Mutate(n, m) PROVE Handles(n)' /\ Turn(n)
  <2>1. UNCHANGED <<gate, ent, row>> /\ cache'[n].handle = cache[n].handle
    BY <1>2, <1>12 DEF Mutate, Cache
  <2>2. GateFacts(n)' /\ Turn(n) /\ EntGoes(n) /\ CacheGoes(n)
    BY <1>3, <2>1 DEF Handles, GateFacts, Turn, EntGoes, CacheGoes
  <2> QED BY <1>3, <2>2, HandlesGo
<1> QED BY <1>5, <1>6, <1>7, <1>8, <1>9, <1>10, <1>11, <1>12 DEF Serves, Starts

LEMMA LeavesHandles ==
    ASSUME Inv, NEW n \in Nodes, LifeInv(n), Handles(n), Leaves(n)
    PROVE  Handles(n)' /\ Turn(n)
<1>1. TypeInv /\ FlowInv(n)
  BY DEF Inv, StoreInv, NodeInv
<1>2. /\ gate \in [Nodes -> Gate] /\ ent \in [Nodes -> Ent] /\ cache \in [Nodes -> Cache]
      /\ row \in [Nodes -> Row] /\ lock \in [Nodes -> Handle0] /\ ent[n] \in Ent /\ cache[n] \in Cache
  BY <1>1 DEF TypeInv, TypeOK
<1>3. Leaving(gate[n]) => InMemory(n)
  BY DEF LifeInv, InMemory, NoEnt
<1> DEFINE Stays == UNCHANGED <<lock, view>> /\ gate[n].pc # "unlock"
<1>4. ASSUME Stays, GateFacts(n)', Turn(n), EntGoes(n), CacheGoes(n) PROVE Handles(n)' /\ Turn(n)
  BY <1>4, HandlesGo
<1>5. ASSUME Stays, EndGate(n), EntGoes(n), CacheGoes(n) PROVE Handles(n)' /\ Turn(n)
  BY <1>1, <1>4, <1>5, Ends DEF Turn
<1>6. ArmRetry(n) /\ InMemory(n) => EntGoes(n)
  <2>1. ArmRetry(n) => ent'[n].handle = ent[n].handle /\ ent'[n].persisted = ent[n].persisted /\ ent'[n].invalid = ent[n].invalid
    BY <1>2 DEF ArmRetry, Ent
  <2> QED BY <2>1 DEF EntGoes
<1>7. Forget(n) => EntGoes(n)
  BY <1>1, LifeParts DEF EntGoes
<1>8. ASSUME Stays, Leaving(gate[n]), Persisted(n), cache'[n].handle = NoHandle PROVE Handles(n)' /\ Turn(n)
  <2> DEFINE e == [ent[n] EXCEPT !.persisted = TRUE]
  <2>1. e.handle = ent[n].handle /\ e.invalid = ent[n].invalid
    BY <1>2 DEF Ent
  <2>2. GateFacts(n)' /\ Turn(n) /\ ent'[n] \in {NoEnt, e}
    BY <1>1, <1>8, Released DEF Persisted
  <2>3. EntGoes(n) /\ CacheGoes(n)
    BY <1>3, <1>8, <2>1, <2>2 DEF EntGoes, CacheGoes
  <2> QED BY <1>4, <1>8, <2>2, <2>3
<1>9. ASSUME Stays, Recovered(n) PROVE Handles(n)' /\ Turn(n)
  <2> DEFINE e == [ent[n] EXCEPT !.handle = gate[n].handle, !.invalid = FALSE, !.persisted = TRUE]
  <2>1. e.handle = gate[n].handle /\ ~e.invalid
    BY <1>2 DEF Ent
  <2>2. cache'[n].handle = NoHandle
    BY <1>1, <1>9, GateParts DEF Recovered
  <2>3. GateFacts(n)' /\ Turn(n) /\ ent'[n] \in {NoEnt, e}
    BY <1>1, <1>9, <2>2, Released DEF Recovered
  <2>4. EntFacts(n)'
    <3>1. CASE ent'[n] = NoEnt
      BY <3>1 DEF EntFacts, InMemory, NoEnt
    <3>2. CASE ent'[n] = e
      BY <2>1, <2>2, <3>2 DEF EntFacts
    <3> QED BY <2>3, <3>1, <3>2
  <2> QED BY <1>9, <2>3, <2>4 DEF Handles, LockFacts
<1>10. ASSUME Stays, Leaving(gate[n]), Abort(n), CacheGoes(n) PROVE Handles(n)' /\ Turn(n)
  BY <1>3, <1>5, <1>6, <1>10 DEF Abort
<1>11. gate[n].pc = "recover" /\ Valid(n, gate[n].handle) => cache[n].handle # gate[n].handle
  BY <1>3 DEF Handles, EntFacts, GateFacts, Valid, Leaving
<1>12. ASSUME Stays, gate[n].pc = "recover", RecoverFails(n) PROVE Handles(n)' /\ Turn(n)
  <2>1. CASE Valid(n, gate[n].handle)
    <3>1. SendUnlock(n, "recover", gate[n].handle) /\ UNCHANGED <<cache, ent>>
      BY <1>12, <2>1 DEF RecoverFails
    <3>2. GateFacts(n)' /\ Turn(n)
      BY <1>1, <1>11, <1>12, <2>1, <3>1, Unlocking
    <3> QED BY <1>4, <1>12, <3>1, <3>2 DEF EntGoes, CacheGoes
  <2>2. CASE ~Valid(n, gate[n].handle)
    <3>1. EntGoes(n) /\ CacheGoes(n)
      BY <1>1, <1>3, <1>12, <2>2, RecoveryGoes DEF RecoverFails, Leaving
    <3> QED BY <1>5, <1>12, <2>2, <3>1 DEF RecoverFails
  <2> QED BY <2>1, <2>2
<1>13. ASSUME Stays, gate[n].pc = "recover", Superseded(n), CacheGoes(n) PROVE Handles(n)' /\ Turn(n)
  <2>1. CASE Valid(n, gate[n].handle)
    <3>1. SendUnlock(n, "superseded", gate[n].handle) /\ UNCHANGED ent
      BY <1>13, <2>1 DEF Superseded
    <3>2. cache'[n].handle # gate[n].handle
      BY <1>11, <1>13, <2>1 DEF CacheGoes, Valid
    <3>3. GateFacts(n)' /\ Turn(n)
      BY <1>1, <1>13, <2>1, <3>1, <3>2, Unlocking
    <3> QED BY <1>4, <1>13, <3>1, <3>3 DEF EntGoes
  <2>2. CASE ~Valid(n, gate[n].handle)
    BY <1>5, <1>7, <1>13, <2>2 DEF Superseded
  <2> QED BY <2>1, <2>2
<1>14. ASSUME Stays, UNCHANGED <<ent, gate>>, CacheGoes(n), gate[n].pc # "load" PROVE Handles(n)' /\ Turn(n)
  <2>1. GateFacts(n)' /\ Turn(n) /\ EntGoes(n)
    BY <1>14 DEF Handles, GateFacts, Turn, EntGoes
  <2> QED BY <1>4, <1>14, <2>1
<1>15. DropCache(n) => cache'[n].handle = NoHandle /\ CacheGoes(n)
  BY <1>1, GateParts DEF CacheGoes
<1>16. UNCHANGED cache => CacheGoes(n)
  BY DEF CacheGoes
<1>17. CASE HooksReturn(n)
  <2>1. Stays /\ InMemory(n) /\ CacheGoes(n)
    BY <1>3, <1>16, <1>17 DEF HooksReturn, Leaving
  <2>2. CASE ent' = [ent EXCEPT ![n].hooked = TRUE] /\ To(n, "flush", ent[n].handle)
    <3>1. gate'[n].pc = "flush"
      BY <1>1, <2>2, Goes
    <3>2. ent'[n].handle = ent[n].handle /\ ent'[n].persisted = ent[n].persisted /\ ent'[n].invalid = ent[n].invalid
      BY <1>2, <2>2 DEF Ent
    <3>3. GateFacts(n)' /\ Turn(n) /\ EntGoes(n)
      BY <2>1, <3>1, <3>2, CalmGate DEF Calm, Turn, EntGoes
    <3> QED BY <1>4, <2>1, <3>3
  <2> QED BY <1>5, <1>6, <1>17, <2>1, <2>2 DEF HooksReturn
<1>18. CASE FlushBegins(n)
  <2>1. Stays /\ Leaving(gate[n]) /\ gate[n].pc = "flush"
    BY <1>18 DEF FlushBegins, Leaving
  <2> QED BY <1>8, <1>10, <1>14, <1>15, <1>16, <1>18, <2>1 DEF FlushBegins
<1>19. CASE FlushReturns(n)
  <2>1. Stays /\ Leaving(gate[n])
    BY <1>19 DEF FlushReturns, Answered, Leaving
  <2>2. cache' = [cache EXCEPT ![n] = Acked(n)] => CacheGoes(n)
    BY <1>2 DEF CacheGoes, Acked, Cache
  <2> QED BY <1>8, <1>10, <1>15, <1>16, <1>19, <2>1, <2>2 DEF FlushReturns
<1>20. CASE Discard(n)
  <2>1. Stays /\ InMemory(n) /\ gate[n].pc = "discard" /\ ent[n].invalid
    BY <1>3, <1>20 DEF Discard, Leaving, Handles, GateFacts
  <2>2. CASE DropCache(n) /\ Forget(n) /\ EndGate(n)
    BY <1>5, <1>7, <1>15, <2>1, <2>2
  <2>3. CASE RecoveryFailed(n, ent[n].tries + 1) /\ EndGate(n)
    BY <1>1, <1>5, <2>1, <2>3, RecoveryGoes
  <2>4. CASE /\ cache' = IF Same(n) THEN [cache EXCEPT ![n].wheel = FALSE] ELSE cache
             /\ ent' = [ent EXCEPT ![n].tries = ent[n].tries + 1] /\ view[n].valid
             /\ IF Valid(n, lock[n]) THEN To(n, "recover", lock[n]) ELSE SendLock(n, "recover")
    <3>1. ent'[n].handle = ent[n].handle /\ ent'[n].persisted = ent[n].persisted /\ ent'[n].invalid = ent[n].invalid
      BY <1>2, <2>4 DEF Ent
    <3>2. cache'[n].handle = cache[n].handle
      BY <1>2, <2>4 DEF Cache
    <3>3. EntGoes(n) /\ CacheGoes(n)
      BY <2>1, <3>1, <3>2 DEF EntGoes, CacheGoes
    <3>4. CASE Valid(n, lock[n]) /\ To(n, "recover", lock[n])
      <4>1. gate'[n].pc = "recover" /\ gate'[n].handle = lock[n]
        BY <1>1, <3>4, Goes
      <4>2. lock[n] # ent[n].handle
        BY <2>1, <3>4 DEF Handles, EntFacts, Valid
      <4>3. GateFacts(n)' /\ Turn(n)
        BY <2>1, <3>1, <4>1, <4>2 DEF GateFacts, Turn
      <4> QED BY <1>4, <2>1, <3>3, <4>3
    <3>5. CASE SendLock(n, "recover")
      BY <1>1, <1>4, <2>1, <2>4, <3>3, <3>5, Locking
    <3> QED BY <2>4, <3>4, <3>5
  <2> QED BY <1>20, <2>2, <2>3, <2>4 DEF Discard
<1>21. CASE RecoverBegins(n)
  <2>1. Stays /\ gate[n].pc = "recover"
    BY <1>21 DEF RecoverBegins
  <2> QED BY <1>9, <1>12, <1>13, <1>14, <1>16, <1>21, <2>1 DEF RecoverBegins
<1>22. CASE RecoverClaimed(n)
  <2>1. Stays /\ gate[n].pc = "recover"
    BY <1>22 DEF RecoverClaimed, Answered
  <2> QED BY <1>12, <1>13, <1>14, <1>15, <1>16, <1>22, <2>1 DEF RecoverClaimed
<1>23. CASE RecoverSaved(n)
  <2>1. Stays /\ gate[n].pc = "recover"
    BY <1>23 DEF RecoverSaved, Answered
  <2> QED BY <1>9, <1>12, <1>23, <2>1 DEF RecoverSaved
<1>24. CASE UnlockReturns(n)
  <2>1. gate[n].pc = "unlock" /\ EndGate(n) /\ gate[n].for \in Fors /\ UNCHANGED view
    BY <1>1, <1>24, Members DEF UnlockReturns
  <2>2. lock[n] = gate[n].handle /\ lock[n] # NoHandle => Valid(n, gate[n].handle)
    BY LockIsValid DEF Handles
  <2>3. lock[n] \in {gate[n].handle, NoHandle} /\ gate[n].handle # NoHandle
    BY <2>1 DEF Handles, GateFacts
  <2>4. lock'[n] = NoHandle
    BY <1>2, <1>24, <2>2, <2>3 DEF UnlockReturns
  <2>5. EntGoes(n) /\ CacheGoes(n)
    <3>1. CASE gate[n].for = "load"
      BY <1>24, <3>1 DEF UnlockReturns, EntGoes, CacheGoes
    <3>2. CASE gate[n].for = "superseded"
      BY <1>7, <1>16, <1>24, <3>2 DEF UnlockReturns
    <3>3. CASE gate[n].for = "recover"
      BY <1>1, <1>3, <1>24, <2>1, <3>3, RecoveryGoes DEF UnlockReturns, Leaving
    <3>4. CASE gate[n].for = "release"
      <4>1. InMemory(n)
        BY <1>3, <2>1, <3>4 DEF Leaving
      <4>2. ent'[n] = NoEnt \/ (ent'[n].handle = ent[n].handle /\ ent'[n].persisted = ent[n].persisted)
        BY <1>2, <1>24, <3>4 DEF UnlockReturns, Forget, Ent
      <4>3. EntGoes(n)
        BY <2>4, <4>1, <4>2 DEF EntGoes
      <4> QED BY <1>16, <1>24, <3>4, <4>3 DEF UnlockReturns
    <3> QED BY <2>1, <3>1, <3>2, <3>3, <3>4 DEF Fors
  <2>6. GateFacts(n)' /\ Turn(n)
    BY <1>1, <2>1, <2>4, Ends DEF Turn
  <2> QED BY <2>1, <2>4, <2>5, <2>6, HandlesGo
<1> QED BY <1>17, <1>18, <1>19, <1>20, <1>21, <1>22, <1>23, <1>24 DEF Leaves

(* What a step of the lease, of etcd or of MongoDB leaves of the handles. *)
LEMMA HandlesStay ==
    ASSUME NEW n, Handles(n), lock'[n] = lock[n], view'[n] = view[n], ent'[n] = ent[n],
           cache'[n].handle = cache[n].handle, row'[n].by = row[n].by,
           gate'[n].pc = gate[n].pc, gate'[n].handle = gate[n].handle
    PROVE  Handles(n)'
BY DEF Handles, LockFacts, EntFacts, GateFacts, InMemory

LEMMA LeaseHandles ==
    ASSUME Inv, NEW n \in Nodes, Handles(n), Lease(n)
    PROVE  Handles(n)'
<1>1. /\ ent \in [Nodes -> Ent] /\ ent[n] \in Ent /\ lock \in [Nodes -> Handle0]
      /\ view \in [Nodes -> [lease : 0 .. MaxLease, valid : BOOLEAN]]
  BY DEF Inv, TypeInv, TypeOK
<1>2. CASE LoseLease(n)
  <2>1. lock'[n] = NoHandle /\ UNCHANGED <<cache, row, gate>>
    BY <1>1, <1>2 DEF LoseLease
  <2>2. /\ InMemory(n)' => InMemory(n)
        /\ ent'[n].handle = ent[n].handle /\ ent'[n].persisted = ent[n].persisted
        /\ ent[n].invalid => ent'[n].invalid
    BY <1>1, <1>2 DEF LoseLease, OnLockExpired, Ent, InMemory
  <2> QED BY <2>1, <2>2 DEF Handles, LockFacts, EntFacts, GateFacts
<1>3. CASE Resurrect(n) \/ NewLease(n)
  <2>1. lock[n] = NoHandle /\ UNCHANGED <<lock, cache, row, ent, gate>>
    BY <1>3 DEF Resurrect, NewLease, Handles, LockFacts
  <2> QED BY <2>1 DEF Handles, LockFacts, EntFacts, GateFacts, InMemory
<1> QED BY <1>2, <1>3 DEF Lease

LEMMA ServerHandles ==
    ASSUME Inv, NEW n \in Nodes, Handles(n), Answers(n) \/ Fails(n)
    PROVE  Handles(n)'
<1>1. TypeInv /\ gate \in [Nodes -> Gate] /\ row \in [Nodes -> Row] /\ cache \in [Nodes -> Cache]
      /\ lock \in [Nodes -> Handle0]
  BY DEF Inv, TypeInv, TypeOK
<1>2. CASE EtcdLock(n) \/ EtcdUnlock(n) \/ EtcdFails(n) \/ EtcdRetries(n)
  <2>1. UNCHANGED <<view, lock, cache, row, ent>>
    BY <1>2 DEF EtcdLock, EtcdUnlock, EtcdFails, EtcdRetries
  <2>2. gate'[n].pc = gate[n].pc /\ gate'[n].handle = gate[n].handle
    BY <1>1, <1>2 DEF EtcdLock, EtcdUnlock, EtcdFails, EtcdRetries, Gate
  <2> QED BY <2>1, <2>2, HandlesStay
<1>3. CASE MongoClaim(n) \/ MongoResolve(n) \/ MongoSave(n) \/ MongoFails(n)
  <2>1. UNCHANGED <<view, lock, cache, gate, ent>>
    BY <1>3 DEF MongoClaim, MongoResolve, MongoSave, MongoFails
  <2>2. row'[n].by = row[n].by
    BY <1>1, <1>3 DEF MongoClaim, MongoResolve, MongoSave, MongoFails, Answer, Row
  <2> QED BY <2>1, <2>2, HandlesStay
<1>4. CASE Crash(n)
  <2>1. lock'[n] = NoHandle /\ ent'[n] = NoEnt /\ gate'[n].pc = "idle"
    BY <1>1, <1>4, LifeParts DEF Crash
  <2> QED BY <2>1, CalmGate DEF Handles, LockFacts, EntFacts, InMemory, NoEnt, Calm
<1> QED BY <1>2, <1>3, <1>4 DEF Answers, Fails

LEMMA StepHandles ==
    Inv /\ (\A n \in Nodes : LifeInv(n) /\ Handles(n)) /\ [Next]_vars => \A n \in Nodes : Handles(n)'
<1> SUFFICES ASSUME Inv, \A n \in Nodes : LifeInv(n) /\ Handles(n), [Next]_vars, NEW n \in Nodes PROVE Handles(n)'
  OBVIOUS
<1>1. ASSUME NEW k \in Nodes, Does(k) PROVE Handles(n)'
  <2>1. CASE k # n
    BY <1>1, <2>1, OthersLive, HandlesStay DEF Inv, SameLife
  <2>2. CASE k = n
    BY <1>1, <2>2, LeaseHandles, ServerHandles, LoadsHandles, ServesHandles, LeavesHandles DEF Does
  <2> QED BY <2>1, <2>2
<1>2. CASE UNCHANGED <<view, lock, cache, row, ent, gate>>
  BY <1>2, HandlesStay
<1>3. (\E l \in Leases : ExpireLease(l)) \/ (\E q \in stray : EtcdStray(q)) \/ (\E w \in late : LateWrite(w))
      \/ UNCHANGED vars => UNCHANGED <<view, lock, cache, row, ent, gate>>
  BY DEF ExpireLease, EtcdStray, LateWrite, vars
<1> QED BY <1>1, <1>2, <1>3 DEF Next, Does

-----------------------------------------------------------------------------
(* The key.  No two nodes have, ask for or give back the lock with one lease *)
(* and, unless a late unlock has deleted it, the key is the one of whoever   *)
(* has the lock, until etcd has answered the request to unlock.             *)

KeyOf(h) == [lease |-> h.lease, rev |-> h.fence]
Keeps(h) == key = KeyOf(h) \/ h.fence \in revoked

Uses(n, l) ==
    \/ l = view[n].lease
    \/ gate[n].pc = "lock" /\ l = gate[n].lease
    \/ gate[n].pc = "unlock" /\ l = gate[n].handle.lease

Apart == \A n, m \in Nodes : \A l \in Leases : Uses(n, l) /\ Uses(m, l) => n = m
Given == \A n \in Nodes : \A l \in Leases : Uses(n, l) => l <= granted

KeyFacts(n) ==
    /\ view[n].valid => view[n].lease \in alive
    /\ lock[n] # NoHandle /\ ~(gate[n].pc = "unlock" /\ gate[n].reply # "none") => Keeps(lock[n])
    /\ gate[n].pc = "lock" => gate[n].lease # 0
    /\ gate[n].pc = "lock" /\ gate[n].reply = "ok" /\ gate[n].lease \in alive => Keeps(gate[n])
    /\ gate[n].pc = "unlock" =>
          gate[n].handle.fence <= rev /\ (key.rev = gate[n].handle.fence => key.lease = gate[n].handle.lease)

(* What is revoked does not come back: every new key has a higher revision.  *)
RevokedGone  == \A f \in revoked : f <= rev /\ f # key.rev
AliveGranted == \A l \in alive : l <= granted

KeyInv == key.rev <= rev /\ RevokedGone /\ AliveGranted /\ Apart /\ Given /\ \A n \in Nodes : KeyFacts(n)

LEMMA KeyStays ==
    ASSUME NEW n, KeyFacts(n), UNCHANGED <<key, rev, alive, revoked>>,
           lock'[n] = lock[n], view'[n] = view[n], gate'[n] = gate[n]
    PROVE  KeyFacts(n)' /\ \A l : Uses(n, l)' => Uses(n, l)
BY DEF KeyFacts, Uses, Keeps, KeyOf

(* Steps that do not touch etcd, and turn the gate or the lock of one node.  *)
LEMMA TurnKeys ==
    ASSUME Inv, NEW n \in Nodes, Handles(n), KeyInv, Turn(n), UNCHANGED <<key, rev, alive, revoked>>, view'[n] = view[n]
    PROVE  KeyFacts(n)' /\ \A l : Uses(n, l)' => Uses(n, l)
<1>1. lock[n] # NoHandle => lock[n].lease = view[n].lease
  BY DEF Handles, LockFacts
<1>2. \A l : Uses(n, l)' => Uses(n, l)
  BY <1>1 DEF Turn, Uses
<1>3. /\ KeyFacts(n) /\ key.rev <= rev /\ rev \in 0 .. MaxRev
      /\ view[n].lease \in 0 .. MaxLease /\ view[n].valid \in BOOLEAN /\ alive \subseteq Leases
      /\ key.rev \in Nat /\ \A f \in revoked : f \in Nat /\ f <= rev /\ f # key.rev
  BY Members DEF KeyInv, RevokedGone, Inv, TypeInv, TypeOK, Key, NoKey, Revs
<1>4. CASE gate'[n] = gate[n] /\ lock'[n] = lock[n]
  BY <1>2, <1>3, <1>4 DEF KeyFacts, Keeps, KeyOf
<1>5. CASE gate'[n].pc \notin {"lock", "unlock"} /\ gate[n].pc # "unlock" /\ lock'[n] = lock[n]
  BY <1>2, <1>3, <1>5 DEF KeyFacts, Keeps, KeyOf
<1>6. CASE /\ gate'[n].pc = "lock" /\ gate'[n].reply = "none" /\ gate'[n].lease = view[n].lease /\ view[n].valid
           /\ gate[n].pc # "unlock" /\ lock'[n] = lock[n]
  <2>1. view[n].lease # 0
    BY <1>3, <1>6 DEF KeyFacts, Leases
  <2> QED BY <1>2, <1>3, <1>6, <2>1 DEF KeyFacts, Keeps, KeyOf
<1>7. CASE /\ gate'[n].pc = "unlock" /\ gate'[n].reply = "none" /\ gate'[n].handle = lock[n] /\ lock[n] # NoHandle
           /\ gate[n].pc # "unlock" /\ lock'[n] = lock[n]
  <2>1. Keeps(lock[n])
    BY <1>3, <1>7 DEF KeyFacts
  <2>2. lock[n].fence <= rev /\ (key.rev = lock[n].fence => key.lease = lock[n].lease)
    BY <1>3, <2>1 DEF Keeps, KeyOf
  <2>3. Keeps(lock[n])'
    BY <1>7, <2>1 DEF Keeps, KeyOf
  <2> QED BY <1>3, <1>2, <1>7, <2>2, <2>3 DEF KeyFacts
<1>8. CASE gate'[n].pc \notin {"lock", "unlock"} /\ lock'[n] = NoHandle
  BY <1>2, <1>3, <1>8 DEF KeyFacts, Keeps, KeyOf
<1>9. CASE /\ gate'[n].pc \notin {"lock", "unlock"} /\ gate[n].pc = "lock" /\ LockAccepted(n)
           /\ lock'[n].lease = gate[n].lease /\ lock'[n].fence = gate[n].fence
  <2>1. Keeps(gate[n])
    BY <1>3, <1>9 DEF KeyFacts, LockAccepted
  <2>2. Keeps(lock[n])'
    BY <1>9, <2>1 DEF Keeps, KeyOf
  <2> QED BY <1>2, <1>3, <1>9, <2>2 DEF KeyFacts
<1> QED BY <1>2, <1>4, <1>5, <1>6, <1>7, <1>8, <1>9 DEF Turn

LEMMA KeyByParts ==
    ASSUME KeyInv, key'.rev <= rev', RevokedGone', UNCHANGED granted, alive' \subseteq alive,
           \A m \in Nodes : KeyFacts(m)' /\ \A l : Uses(m, l)' => Uses(m, l)
    PROVE  KeyInv'
BY DEF KeyInv, Apart, Given, AliveGranted

(* Nothing is revoked, and no key created. *)
LEMMA GoneStays ==
    ASSUME Inv, KeyInv, UNCHANGED <<rev, revoked>>, key' = key \/ key' = NoKey
    PROVE  key'.rev <= rev' /\ RevokedGone'
BY DEF Inv, TypeInv, TypeOK, KeyInv, RevokedGone, NoKey, Revs

(* What the invariants say of one node's key and handles. *)
LEMMA KeyNode ==
    ASSUME Inv, KeyInv, NEW n \in Nodes, Handles(n)
    PROVE  /\ KeyFacts(n) /\ key.rev \in Nat /\ rev \in Nat /\ key.rev <= rev /\ key \in Key
           /\ revoked \subseteq Revs /\ (\A f \in revoked : f <= rev /\ f # key.rev)
           /\ lock[n] # NoHandle => lock[n].lease = view[n].lease /\ lock[n].lease \in Leases /\ view[n].valid
           /\ gate[n].pc = "unlock" => gate[n].handle.lease \in Leases /\ gate[n].handle.fence \in Revs
           /\ gate[n].lease \in 0 .. MaxLease
<1>1. TypeInv
  BY DEF Inv
<1>2. KeyFacts(n) /\ key.rev <= rev /\ \A f \in revoked : f <= rev /\ f # key.rev
  BY DEF KeyInv, RevokedGone
<1>3. key \in Key /\ rev \in Nat /\ revoked \subseteq Revs
  BY <1>1 DEF TypeInv, TypeOK
<1>4. key.rev \in Nat
  BY <1>3 DEF Key, NoKey, Revs
<1>5. lock[n] # NoHandle => lock[n].lease = view[n].lease /\ lock[n].lease \in Leases /\ view[n].valid
  BY <1>1, Members, HandleParts DEF Handles, LockFacts
<1>6. gate[n].pc = "unlock" => gate[n].handle.lease \in Leases /\ gate[n].handle.fence \in Revs
  BY <1>1, Members, HandleParts DEF Handles, GateFacts
<1>7. gate[n].lease \in 0 .. MaxLease
  BY <1>1, Members DEF Gate
<1> QED BY <1>2, <1>3, <1>4, <1>5, <1>6, <1>7

(* A new key is not one that a node has, or waits to give back: whoever still *)
(* holds a handle while there is no key has had it revoked.                 *)
LEMMA Created ==
    ASSUME Inv, KeyInv, NEW n \in Nodes, Handles(n), key = NoKey, key'.rev = rev + 1, rev' = rev + 1,
           UNCHANGED <<alive, revoked>>, lock'[n] = lock[n], view'[n] = view[n], gate'[n] = gate[n]
    PROVE  KeyFacts(n)'
<1>1. /\ KeyFacts(n) /\ rev \in Nat /\ (lock[n] # NoHandle => lock[n].lease \in Leases)
      /\ gate[n].pc = "unlock" => gate[n].handle.fence \in Revs
  BY KeyNode
<1>2. \A h : key = KeyOf(h) => h.lease = 0
  BY DEF NoKey, KeyOf
<1>3. lock[n] # NoHandle /\ ~(gate[n].pc = "unlock" /\ gate[n].reply # "none") => lock[n].fence \in revoked
  BY <1>1, <1>2 DEF KeyFacts, Keeps, Leases
<1>4. gate[n].pc = "lock" /\ gate[n].reply = "ok" /\ gate[n].lease \in alive => gate[n].fence \in revoked
  BY <1>1, <1>2 DEF KeyFacts, Keeps
<1>5. gate[n].pc = "unlock" => gate[n].handle.fence <= rev' /\ key'.rev # gate[n].handle.fence
  BY <1>1 DEF KeyFacts, Revs
<1> QED BY <1>1, <1>3, <1>4, <1>5 DEF KeyFacts, Keeps

(* Revisions grow, so what is revoked is not created again. *)
LEMMA GoneGrows ==
    ASSUME Inv, KeyInv, key'.rev = rev + 1, rev' = rev + 1, UNCHANGED revoked
    PROVE  key'.rev <= rev' /\ RevokedGone'
BY DEF Inv, TypeInv, TypeOK, KeyInv, RevokedGone, Revs

LEMMA LockKeys ==
    ASSUME Inv, KeyInv, \A m \in Nodes : Handles(m), NEW n \in Nodes, EtcdLock(n)
    PROVE  KeyInv'
<1>1. TypeInv /\ gate \in [Nodes -> Gate] /\ gate[n] \in Gate
  BY DEF Inv, TypeInv, TypeOK
<1>2. UNCHANGED <<alive, granted, revoked, view, lock>> /\ gate[n].pc = "lock" /\ gate[n].reply = "none"
  BY DEF EtcdLock, Waiting
<1>3. \A m \in Nodes : m # n => gate'[m] = gate[m]
  BY <1>1 DEF EtcdLock
<1>4. gate'[n].pc = "lock" /\ gate'[n].lease = gate[n].lease /\ gate'[n].handle = gate[n].handle
  BY <1>1, <1>2 DEF EtcdLock, Gate
<1>5. \A m \in Nodes : \A l : Uses(m, l)' => Uses(m, l)
  BY <1>2, <1>3, <1>4 DEF Uses
<1>6. CASE CanCreate(gate[n].lease)
  <2>1. key' = [lease |-> gate[n].lease, rev |-> rev + 1] /\ rev' = rev + 1 /\ key = NoKey
    BY <1>6 DEF EtcdLock, CanCreate, CreateKey
  <2>2. gate'[n].fence = rev + 1
    BY <1>1, <1>6 DEF EtcdLock, Gate
  <2>3. key'.rev = rev + 1 /\ key'.rev <= rev' /\ RevokedGone'
    BY <1>2, <2>1, GoneGrows
  <2>4. ASSUME NEW m \in Nodes PROVE KeyFacts(m)'
    <3>1. CASE m # n
      BY <1>2, <1>3, <2>1, <2>3, <3>1, Created
    <3>2. CASE m = n
      <4>1. KeyFacts(n) /\ (lock[n] # NoHandle => lock[n].lease \in Leases)
        BY KeyNode
      <4>2. \A h : key = KeyOf(h) => h.lease = 0
        BY <2>1 DEF NoKey, KeyOf
      <4>3. lock[n] # NoHandle => lock[n].fence \in revoked
        BY <1>2, <4>1, <4>2 DEF KeyFacts, Keeps, Leases
      <4>4. key' = KeyOf(gate'[n])
        BY <1>4, <2>1, <2>2 DEF KeyOf
      <4>5. Keeps(gate[n])'
        BY <4>4 DEF Keeps, KeyOf
      <4> QED BY <1>2, <1>4, <3>2, <4>1, <4>3, <4>5 DEF KeyFacts, Keeps
    <3> QED BY <3>1, <3>2
  <2> QED BY <1>2, <1>5, <2>3, <2>4, KeyByParts
<1>7. CASE ~CanCreate(gate[n].lease)
  <2>1. UNCHANGED <<key, rev>>
    BY <1>7 DEF EtcdLock
  <2>2. ASSUME gate'[n].reply = "ok" PROVE Keeps(gate[n])'
    <3>1. key # NoKey /\ key.lease = gate[n].lease /\ gate'[n].fence = key.rev
      BY <1>1, <1>2, <1>7, <2>2 DEF EtcdLock, Gate
    <3>2. key = [lease |-> key.lease, rev |-> key.rev]
      BY <1>1, <3>1 DEF TypeInv, TypeOK, Key
    <3> QED BY <1>4, <2>1, <3>1, <3>2 DEF Keeps, KeyOf
  <2>3. ASSUME NEW m \in Nodes PROVE KeyFacts(m)'
    <3>1. KeyFacts(m)
      BY KeyNode
    <3>2. CASE m # n
      BY <1>2, <1>3, <2>1, <3>1, <3>2, KeyStays
    <3>3. CASE m = n
      BY <1>2, <1>4, <2>1, <2>2, <3>1, <3>3 DEF KeyFacts, Keeps, KeyOf
    <3> QED BY <3>2, <3>3
  <2>4. key'.rev <= rev' /\ RevokedGone'
    BY <1>2, <2>1, GoneStays
  <2> QED BY <1>2, <1>5, <2>3, <2>4, KeyByParts
<1> QED BY <1>6, <1>7

(* Giving the lock back deletes the key of nobody else. *)
LEMMA UnlockKeys ==
    ASSUME Inv, KeyInv, \A m \in Nodes : Handles(m), NEW n \in Nodes, EtcdUnlock(n)
    PROVE  KeyInv'
<1>1. TypeInv /\ gate \in [Nodes -> Gate] /\ gate[n] \in Gate
  BY DEF Inv, TypeInv, TypeOK
<1>2. UNCHANGED <<alive, granted, rev, revoked, view, lock>> /\ gate[n].pc = "unlock" /\ gate[n].reply = "none"
  BY DEF EtcdUnlock, Waiting
<1>3. \A m \in Nodes : m # n => gate'[m] = gate[m]
  BY <1>1 DEF EtcdUnlock
<1>4. gate'[n].pc = "unlock" /\ gate'[n].lease = gate[n].lease /\ gate'[n].handle = gate[n].handle /\ gate'[n].reply # "none"
  BY <1>1, <1>2 DEF EtcdUnlock, Gate
<1>5. \A m \in Nodes : \A l : Uses(m, l)' => Uses(m, l)
  BY <1>2, <1>3, <1>4 DEF Uses
<1>6. NoKey.rev = 0
  BY DEF NoKey
<1>7. key' = key \/ (key' = NoKey /\ key.rev = gate[n].handle.fence)
  BY DEF EtcdUnlock, DeleteKey
<1>8. key'.rev <= rev' /\ RevokedGone'
  BY <1>2, <1>7, GoneStays
<1>9. ASSUME NEW m \in Nodes PROVE KeyFacts(m)'
  <2>1. /\ KeyFacts(m) /\ (lock[m] # NoHandle => lock[m].lease = view[m].lease)
        /\ gate[m].pc = "unlock" => gate[m].handle.fence \in Revs
    BY KeyNode
  <2>2. gate[m].pc = "unlock" => key'.rev # gate[m].handle.fence \/ key' = key
    BY <1>6, <1>7, <2>1 DEF Revs
  <2>3. CASE m = n
    BY <1>2, <1>4, <2>1, <2>2, <2>3 DEF KeyFacts, Keeps
  <2>4. CASE m # n /\ key' = key
    BY <1>2, <1>3, <2>1, <2>4, KeyStays
  <2>5. CASE m # n /\ key' # key
    <3>1. KeyFacts(n) /\ gate[n].handle.lease \in Leases
      BY <1>2, KeyNode
    <3>2. key.lease = gate[n].handle.lease
      BY <1>2, <1>7, <2>5, <3>1 DEF KeyFacts
    <3>3. ~Uses(m, key.lease)
      BY <1>2, <2>5, <3>1, <3>2 DEF KeyInv, Apart, Uses
    <3>4. \A h : key = KeyOf(h) => key.lease = h.lease
      BY DEF KeyOf
    <3>5. lock[m] # NoHandle /\ ~(gate[m].pc = "unlock" /\ gate[m].reply # "none") => lock[m].fence \in revoked
      BY <2>1, <3>3, <3>4 DEF KeyFacts, Keeps, Uses
    <3>6. gate[m].pc = "lock" /\ gate[m].reply = "ok" /\ gate[m].lease \in alive => gate[m].fence \in revoked
      BY <2>1, <3>3, <3>4 DEF KeyFacts, Keeps, Uses
    <3> QED BY <1>2, <1>3, <2>1, <2>2, <2>5, <3>5, <3>6 DEF KeyFacts, Keeps
  <2> QED BY <2>3, <2>4, <2>5
<1> QED BY <1>2, <1>5, <1>8, <1>9, KeyByParts

LEMMA ExpiryKeys ==
    ASSUME Inv, KeyInv, \A m \in Nodes : Handles(m), NEW x \in Leases, ExpireLease(x)
    PROVE  KeyInv'
<1>1. UNCHANGED <<granted, rev, revoked, view, lock, gate>> /\ alive' = alive \ {x}
  BY DEF ExpireLease
<1>2. NoKey.rev = 0
  BY DEF NoKey
<1>3. key' = key \/ (key' = NoKey /\ key.lease = x)
  BY DEF ExpireLease
<1>4. \A m \in Nodes : \A l : Uses(m, l)' => Uses(m, l)
  BY <1>1 DEF Uses
<1>5. ASSUME NEW m \in Nodes PROVE KeyFacts(m)'
  <2>1. /\ KeyFacts(m) /\ (lock[m] # NoHandle => lock[m].lease = view[m].lease /\ view[m].valid)
        /\ gate[m].pc = "unlock" => gate[m].handle.fence \in Revs
    BY KeyNode
  <2>2. view[m].valid => view[m].lease # x
    BY DEF ExpireLease
  <2>3. gate[m].pc = "unlock" => key'.rev # gate[m].handle.fence \/ key' = key
    BY <1>2, <1>3, <2>1 DEF Revs
  <2>4. \A h : key = KeyOf(h) /\ h.lease # x => key' = KeyOf(h)
    BY <1>3 DEF KeyOf
  <2> QED BY <1>1, <2>1, <2>2, <2>3, <2>4 DEF KeyFacts, Keeps, KeyOf
<1>6. key'.rev <= rev' /\ RevokedGone'
  BY <1>1, <1>3, GoneStays
<1> QED BY <1>1, <1>4, <1>5, <1>6, KeyByParts

(* A new lease is nobody's yet. *)
LEMMA LeaseKeys ==
    ASSUME Inv, KeyInv, \A m \in Nodes : Handles(m), NEW n \in Nodes, Lease(n)
    PROVE  KeyInv'
<1>1. /\ TypeInv /\ lock \in [Nodes -> Handle0] /\ alive \subseteq Leases /\ granted \in 0 .. MaxLease
      /\ view \in [Nodes -> [lease : 0 .. MaxLease, valid : BOOLEAN]]
  BY DEF Inv, TypeInv, TypeOK
<1>2. UNCHANGED <<key, rev, revoked, gate>>
  BY DEF Lease, LoseLease, Resurrect, NewLease, etcd
<1>3. key'.rev <= rev' /\ RevokedGone'
  BY <1>2, GoneStays
<1>4. \A m \in Nodes : m # n => view'[m] = view[m] /\ lock'[m] = lock[m]
  BY <1>1 DEF Lease, LoseLease, Resurrect, NewLease
<1>5. CASE LoseLease(n)
  <2>1. UNCHANGED <<alive, granted>> /\ lock'[n] = NoHandle /\ ~view'[n].valid /\ view'[n].lease = view[n].lease
    BY <1>1, <1>5 DEF LoseLease, etcd
  <2>2. \A m \in Nodes : \A l : Uses(m, l)' => Uses(m, l)
    BY <1>2, <1>4, <2>1 DEF Uses
  <2>3. ASSUME NEW m \in Nodes PROVE KeyFacts(m)'
    <3>1. KeyFacts(m)
      BY KeyNode
    <3>2. CASE m = n
      BY <1>2, <2>1, <3>1, <3>2 DEF KeyFacts, Keeps, KeyOf
    <3>3. CASE m # n
      BY <1>2, <1>4, <2>1, <3>1, <3>3, KeyStays
    <3> QED BY <3>2, <3>3
  <2> QED BY <1>2, <1>3, <2>1, <2>2, <2>3, KeyByParts
<1>6. CASE Resurrect(n)
  <2>1. UNCHANGED <<alive, granted, lock>> /\ view'[n].lease = view[n].lease /\ view[n].lease \in alive
    BY <1>1, <1>6 DEF Resurrect, etcd
  <2>2. \A m \in Nodes : \A l : Uses(m, l)' => Uses(m, l)
    BY <1>2, <1>4, <2>1 DEF Uses
  <2>3. ASSUME NEW m \in Nodes PROVE KeyFacts(m)'
    <3>1. KeyFacts(m)
      BY KeyNode
    <3>2. CASE m = n
      BY <1>2, <2>1, <3>1, <3>2 DEF KeyFacts, Keeps, KeyOf
    <3>3. CASE m # n
      BY <1>2, <1>4, <2>1, <3>1, <3>3, KeyStays
    <3> QED BY <3>2, <3>3
  <2> QED BY <1>2, <1>3, <2>1, <2>2, <2>3, KeyByParts
<1>7. CASE NewLease(n)
  <2>1. /\ granted' = granted + 1 /\ alive' = alive \cup {granted + 1} /\ UNCHANGED lock
        /\ view'[n].lease = granted + 1 /\ ~view[n].valid
    BY <1>1, <1>7 DEF NewLease
  <2>2. \A m \in Nodes : \A l \in Leases : Uses(m, l) => l < granted + 1
    BY <1>1 DEF KeyInv, Given, Leases
  <2>3. \A m \in Nodes : \A l : Uses(m, l)' => Uses(m, l) \/ (m = n /\ l = granted + 1)
    BY <1>2, <1>4, <2>1 DEF Uses
  <2>4. Given'
    BY <1>1, <2>1, <2>2, <2>3 DEF Given, Leases
  <2>5. Apart'
    <3> SUFFICES ASSUME NEW a \in Nodes, NEW b \in Nodes, NEW l \in Leases, Uses(a, l)', Uses(b, l)' PROVE a = b
      BY DEF Apart
    <3>1. CASE l = granted + 1
      BY <1>1, <2>2, <2>3, <3>1
    <3>2. CASE l # granted + 1
      BY <2>3, <3>2 DEF KeyInv, Apart
    <3> QED BY <3>1, <3>2
  <2>6. ASSUME NEW m \in Nodes PROVE KeyFacts(m)'
    <3>1. KeyFacts(m) /\ gate[m].lease \in 0 .. MaxLease /\ (lock[m] # NoHandle => view[m].valid)
      BY KeyNode
    <3>2. gate[m].pc = "lock" => gate[m].lease # granted + 1
      <4>1. gate[m].pc = "lock" => gate[m].lease \in Leases /\ Uses(m, gate[m].lease)
        BY <3>1 DEF KeyFacts, Leases, Uses
      <4> QED BY <1>1, <2>2, <4>1
    <3>3. view'[m].valid => view'[m].lease \in alive'
      BY <1>4, <2>1, <3>1 DEF KeyFacts
    <3> QED BY <1>2, <2>1, <3>1, <3>2, <3>3 DEF KeyFacts, Keeps, KeyOf
  <2>7. AliveGranted'
    BY <1>1, <2>1 DEF KeyInv, AliveGranted, Leases
  <2> QED BY <1>3, <2>4, <2>5, <2>6, <2>7 DEF KeyInv
<1> QED BY <1>5, <1>6, <1>7 DEF Lease

LEMMA FailKeys ==
    ASSUME Inv, KeyInv, \A m \in Nodes : Handles(m), NEW n \in Nodes, EtcdFails(n) \/ EtcdRetries(n) \/ Crash(n)
    PROVE  KeyInv'
<1>1. /\ TypeInv /\ gate \in [Nodes -> Gate] /\ gate[n] \in Gate /\ lock \in [Nodes -> Handle0]
      /\ view \in [Nodes -> [lease : 0 .. MaxLease, valid : BOOLEAN]]
  BY DEF Inv, TypeInv, TypeOK
<1>2. UNCHANGED <<alive, granted, key, rev, revoked>>
  BY DEF EtcdFails, EtcdRetries, Crash
<1>3. key'.rev <= rev' /\ RevokedGone'
  BY <1>2, GoneStays
<1>4. \A m \in Nodes : m # n => view'[m] = view[m] /\ lock'[m] = lock[m] /\ gate'[m] = gate[m]
  BY <1>1 DEF EtcdFails, EtcdRetries, Crash, EndGate
<1>5. KeyFacts(n)' /\ \A l \in Leases : Uses(n, l)' => Uses(n, l)
  <2>1. KeyFacts(n)
    BY KeyNode
  <2>2. CASE EtcdFails(n)
    <3>1. /\ UNCHANGED <<view, lock>> /\ gate'[n].reply = "failed" /\ gate'[n].pc = gate[n].pc
          /\ gate'[n].lease = gate[n].lease /\ gate'[n].handle = gate[n].handle
      BY <1>1, <2>2 DEF EtcdFails, Gate
    <3> QED BY <1>2, <2>1, <3>1 DEF KeyFacts, Keeps, KeyOf, Uses
  <2>3. CASE Crash(n)
    <3>1. lock'[n] = NoHandle /\ gate'[n].pc = "idle" /\ view'[n].lease = 0 /\ ~view'[n].valid
      BY <1>1, <2>3, LifeParts DEF Crash
    <3> QED BY <3>1 DEF KeyFacts, Uses, Leases
  <2>4. CASE EtcdRetries(n)
    <3>1. UNCHANGED <<view, lock, gate>>
      BY <2>4 DEF EtcdRetries
    <3> QED BY <1>2, <2>1, <3>1, KeyStays
  <2> QED BY <2>2, <2>3, <2>4
<1>6. ASSUME NEW m \in Nodes PROVE KeyFacts(m)' /\ \A l \in Leases : Uses(m, l)' => Uses(m, l)
  <2>1. KeyFacts(m)
    BY KeyNode
  <2> QED BY <1>2, <1>4, <1>5, <2>1, KeyStays
<1> QED BY <1>2, <1>3, <1>6 DEF KeyInv, Apart, Given, AliveGranted

(* A late request creates the key, or deletes it; if it deletes a key that a *)
(* node relies on, that key is revoked.                                     *)
LEMMA StrayKeys ==
    ASSUME Inv, KeyInv, \A m \in Nodes : Handles(m), NEW q \in stray, EtcdStray(q)
    PROVE  KeyInv'
<1>1. UNCHANGED <<alive, granted, view, lock, gate>>
  BY DEF EtcdStray
<1>2. \A m \in Nodes : \A l : Uses(m, l)' => Uses(m, l)
  BY <1>1 DEF Uses
<1>3. NoKey.rev = 0 /\ TypeInv
  BY DEF NoKey, Inv
<1>4. CASE UNCHANGED <<key, rev>>
  <2>1. UNCHANGED revoked
    BY <1>4 DEF EtcdStray
  <2>2. \A m \in Nodes : KeyFacts(m)'
    BY <1>1, <1>4, <2>1, KeyStays DEF KeyInv
  <2>3. key'.rev <= rev' /\ RevokedGone'
    BY <1>4, <2>1, GoneStays
  <2> QED BY <1>1, <1>2, <2>2, <2>3, KeyByParts
<1>5. CASE key # NoKey /\ key' = NoKey /\ UNCHANGED rev
  <2>1. revoked' = revoked \cup {key.rev}
    BY <1>5 DEF EtcdStray
  <2>2. key'.rev <= rev' /\ RevokedGone'
    BY <1>3, <1>5, <2>1 DEF KeyInv, RevokedGone, TypeInv, TypeOK, Revs, Key
  <2>3. ASSUME NEW m \in Nodes PROVE KeyFacts(m)'
    <3>1. KeyFacts(m) /\ (gate[m].pc = "unlock" => gate[m].handle.fence \in Revs)
      BY KeyNode
    <3>2. \A h : Keeps(h) => h.fence \in revoked'
      BY <2>1 DEF Keeps, KeyOf
    <3>3. gate[m].pc = "unlock" => key'.rev # gate[m].handle.fence
      BY <1>3, <1>5, <3>1 DEF Revs
    <3> QED BY <1>1, <1>5, <3>1, <3>2, <3>3 DEF KeyFacts, Keeps
  <2> QED BY <1>1, <1>2, <2>2, <2>3, KeyByParts
<1>6. CASE key = NoKey /\ key'.rev = rev + 1 /\ rev' = rev + 1
  <2>1. UNCHANGED revoked
    BY <1>6 DEF EtcdStray
  <2>2. key'.rev <= rev' /\ RevokedGone'
    BY <1>6, <2>1, GoneGrows
  <2>3. \A m \in Nodes : KeyFacts(m)'
    BY <1>1, <1>6, <2>1, Created
  <2> QED BY <1>1, <1>2, <2>2, <2>3, KeyByParts
<1> QED BY <1>4, <1>5, <1>6 DEF EtcdStray, DeleteKey, CanCreate, CreateKey

LEMMA StepKeys ==
    ASSUME Inv, \A n \in Nodes : LifeInv(n) /\ Handles(n), KeyInv, [Next]_vars
    PROVE  KeyInv'
<1>1. CASE UNCHANGED <<etcd, view, lock, gate>>
  <2>1. \A m \in Nodes : KeyFacts(m)' /\ \A l : Uses(m, l)' => Uses(m, l)
    BY <1>1, KeyStays DEF KeyInv, etcd
  <2>2. key'.rev <= rev' /\ RevokedGone'
    BY <1>1, GoneStays DEF etcd
  <2> QED BY <1>1, <2>1, <2>2, KeyByParts DEF etcd
<1>2. ASSUME NEW k \in Nodes, Turn(k), UNCHANGED <<etcd, view>>, Does(k) PROVE KeyInv'
  <2>1. UNCHANGED <<key, rev, alive, granted, revoked, view>>
    BY <1>2 DEF etcd
  <2>2. ASSUME NEW m \in Nodes PROVE KeyFacts(m)' /\ \A l : Uses(m, l)' => Uses(m, l)
    <3>1. CASE m = k
      BY <1>2, <2>1, <3>1, TurnKeys
    <3>2. CASE m # k
      BY <1>2, <2>1, <3>2, OthersLive, KeyStays DEF SameLife, KeyInv, Inv
    <3> QED BY <3>1, <3>2
  <2>3. key'.rev <= rev' /\ RevokedGone'
    BY <2>1, GoneStays
  <2> QED BY <2>1, <2>2, <2>3, KeyByParts
<1>3. ASSUME NEW k \in Nodes, Does(k) PROVE KeyInv'
  <2>1. CASE Lease(k)
    BY <2>1, LeaseKeys
  <2>2. CASE Answers(k)
    <3>1. CASE MongoClaim(k) \/ MongoResolve(k) \/ MongoSave(k)
      BY <1>1, <3>1 DEF MongoClaim, MongoResolve, MongoSave
    <3> QED BY <2>2, <3>1, LockKeys, UnlockKeys DEF Answers
  <2>3. CASE Fails(k)
    <3>1. CASE MongoFails(k)
      BY <1>1, <3>1 DEF MongoFails
    <3> QED BY <2>3, <3>1, FailKeys DEF Fails
  <2>4. CASE Loads(k)
    BY <1>2, <1>3, <2>4, LoadsHandles DEF Loads, LockReturns, LoadBegins, LoadReturns, InitReturns
  <2>5. CASE Serves(k) \/ Starts(k) \/ \E m \in Mutations : Mutate(k, m)
    <3>1. UNCHANGED <<etcd, view>>
      BY <2>5 DEF Serves, HandlerReturns, SaveReturns, Starts, Serve, StartLoad, HandlerSaves, SweepSaves, Unload, Mutate
    <3> QED BY <1>2, <1>3, <2>5, <3>1, ServesHandles
  <2>6. CASE Leaves(k)
    <3>1. UNCHANGED <<etcd, view>>
      BY <2>6 DEF Leaves, HooksReturn, FlushBegins, FlushReturns, Discard, RecoverBegins, RecoverClaimed, RecoverSaved, UnlockReturns
    <3> QED BY <1>2, <1>3, <2>6, <3>1, LeavesHandles
  <2> QED BY <1>3, <2>1, <2>2, <2>3, <2>4, <2>5, <2>6 DEF Does
<1>4. ASSUME NEW l \in Leases, ExpireLease(l) PROVE KeyInv'
  BY <1>4, ExpiryKeys
<1>5. ASSUME NEW q \in stray, EtcdStray(q) PROVE KeyInv'
  BY <1>5, StrayKeys
<1>6. ASSUME \E w \in late : LateWrite(w) PROVE KeyInv'
  BY <1>1, <1>6 DEF LateWrite
<1>7. CASE UNCHANGED vars
  BY <1>1, <1>7 DEF vars
<1> QED BY <1>3, <1>4, <1>5, <1>6, <1>7 DEF Next, Does

LEMMA KeyHolds ==
    Spec => [](Inv /\ KeyInv /\ \A n \in Nodes : LifeInv(n) /\ Handles(n))
<1> DEFINE Kept == Inv /\ KeyInv /\ \A n \in Nodes : LifeInv(n) /\ Handles(n)
<1>1. ASSUME Init PROVE KeyInv /\ \A n \in Nodes : LifeInv(n) /\ Handles(n)
  <2>1. ASSUME NEW n \in Nodes PROVE LifeInv(n) /\ Handles(n) /\ KeyFacts(n) /\ \A l \in Leases : ~Uses(n, l)
    <3>1. /\ ent[n] = NoEnt /\ gate[n].pc = "idle" /\ lock[n] = NoHandle /\ ~view[n].valid /\ view[n].lease = 0
      BY <1>1 DEF Init, Idle
    <3>2. LifeInv(n)
      BY <3>1 DEF LifeInv, Serving, Loading, Leaving, Resting, InMemory
    <3>3. Handles(n)
      BY <3>1 DEF Handles, LockFacts, EntFacts, GateFacts, InMemory, NoEnt
    <3>4. KeyFacts(n) /\ \A l \in Leases : ~Uses(n, l)
      BY <3>1 DEF KeyFacts, Uses, Leases
    <3> QED BY <3>2, <3>3, <3>4
  <2>2. key.rev <= rev /\ RevokedGone /\ AliveGranted
    BY <1>1 DEF Init, NoKey, RevokedGone, AliveGranted
  <2> QED BY <2>1, <2>2 DEF KeyInv, Apart, Given
<1>2. Init => Kept
  BY <1>1, InitTypes, InitStore DEF Inv
<1>3. Kept /\ [Next]_vars => Kept'
  <2> SUFFICES ASSUME Kept, [Next]_vars PROVE Kept'
    OBVIOUS
  <2>1. Inv'
    BY StepTypes, StepStore, StepAcked DEF Inv
  <2>2. \A n \in Nodes : LifeInv(n)'
    BY StepLife DEF Inv
  <2>3. \A n \in Nodes : Handles(n)'
    BY StepHandles
  <2>4. KeyInv'
    BY StepKeys
  <2> QED BY <2>1, <2>2, <2>3, <2>4
<1> HIDE DEF Kept
<1>4. Spec => []Kept
  BY <1>2, <1>3, PTL DEF Spec
<1> QED BY <1>4 DEF Kept

(* One owner: two nodes never find their handles for the entity valid at the *)
(* same time with its document in their caches, unless a late unlock has     *)
(* deleted the key of one of them (try_lock, unlock, is_valid).             *)
THEOREM OneOwnerAlways == Spec => []OneOwner
<1>1. Inv /\ KeyInv /\ (\A n \in Nodes : LifeInv(n) /\ Handles(n)) => OneOwner
  <2> SUFFICES ASSUME Inv, KeyInv, \A n \in Nodes : LifeInv(n) /\ Handles(n) PROVE OneOwner
    OBVIOUS
  <2>1. ASSUME NEW n \in Nodes, Owns(n), ~Ousted(n) PROVE key.lease \in Leases /\ Uses(n, key.lease)
    <3>1. lock[n] # NoHandle /\ lock[n] = cache[n].handle
      BY <2>1 DEF Owns, Valid
    <3>2. gate[n].pc # "unlock"
      BY <3>1 DEF Handles, GateFacts
    <3>3. KeyFacts(n) /\ lock[n].lease = view[n].lease /\ lock[n].lease \in Leases
      BY <3>1, KeyNode
    <3>4. key.lease = lock[n].lease
      BY <2>1, <3>1, <3>2, <3>3 DEF KeyFacts, Keeps, KeyOf, Ousted
    <3> QED BY <3>3, <3>4 DEF Uses
  <2> QED BY <2>1 DEF OneOwner, KeyInv, Apart
<1>2. Spec => [](Inv /\ KeyInv /\ \A n \in Nodes : LifeInv(n) /\ Handles(n))
  BY KeyHolds
<1> QED BY <1>1, <1>2, PTL

-----------------------------------------------------------------------------
(* The fence.  Handles are passed on, never made up: those that a node keeps *)
(* after a step it kept before it, unless etcd has just granted the lock.    *)

Known(n) == {NoHandle, lock[n], cache[n].handle, row[n].handle, gate[n].handle, ent[n].handle}

GatePasses(n) == gate'[n].handle \in Known(n) /\ gate'[n].fence \in {0, gate[n].fence}
EntPasses(n)  == ent'[n].handle \in Known(n)

(* The document in the cache is the one that was loaded, or one that a save  *)
(* of this node has left.                                                   *)
CachePasses(n) ==
    \/ cache'[n].handle = NoHandle
    \/ cache'[n].handle = cache[n].handle /\ cache'[n].version = cache[n].version
    \/ cache'[n].handle = cache[n].handle /\ row[n].op = "save" /\ Saved(n)
    \/ /\ gate[n].pc = "load" /\ row[n].by = "gate" /\ row[n].reply = "ok"
       /\ cache'[n].handle = gate[n].handle /\ cache'[n].version = row[n].version

RowPasses(n) ==
    \/ row'[n] = FreeRow
    \/ row'[n] = row[n] /\ row[n].by # "gate" /\ (row[n].by = "sweep" => cache'[n].handle = cache[n].handle)
    \/ /\ row'[n].reply = "none" /\ row'[n].handle \in Known(n)
       /\ row'[n].by = "sweep" => row'[n].handle = cache'[n].handle
       /\ row'[n].by = "gate" /\ gate'[n].pc = "load" => row'[n].handle = gate'[n].handle

Passes(n) ==
    /\ GatePasses(n) \/ UNCHANGED gate
    /\ EntPasses(n) /\ CachePasses(n) /\ RowPasses(n) /\ lock'[n] \in {lock[n], NoHandle}

(* What the parts of actions pass on. *)
LEMMA PartsPass ==
    ASSUME TypeInv, NEW n \in Nodes
    PROVE  /\ EndGate(n) => GatePasses(n)
           /\ \A pc, h : To(n, pc, h) /\ h \in Known(n) => GatePasses(n)
           /\ \A for : SendLock(n, for) => GatePasses(n)
           /\ \A for, h : SendUnlock(n, for, h) /\ h \in Known(n) => GatePasses(n)
           /\ Forget(n) => EntPasses(n)
           /\ ArmRetry(n) => EntPasses(n)
           /\ UNCHANGED ent => EntPasses(n)
           /\ DropCache(n) => CachePasses(n)
           /\ UNCHANGED cache => CachePasses(n) /\ cache'[n].handle = cache[n].handle
           /\ FreeTheRow(n) => RowPasses(n)
           /\ row[n].by # "gate" /\ UNCHANGED row /\ cache'[n].handle = cache[n].handle => RowPasses(n)
           /\ RowFree(n) /\ UNCHANGED row => RowPasses(n)
           /\ \A h : SendClaim(n, h) => row'[n].reply = "none" /\ row'[n].by = "gate" /\ row'[n].handle = h
           /\ \A by, h : SendSave(n, by, h) => row'[n].reply = "none" /\ row'[n].by = by /\ row'[n].handle = h
<1>1. ent \in [Nodes -> Ent] /\ gate \in [Nodes -> Gate] /\ cache \in [Nodes -> Cache] /\ row \in [Nodes -> Row] /\ ent[n] \in Ent
  BY DEF TypeInv, TypeOK
<1>2. EndGate(n) => GatePasses(n)
  <2>1. EndGate(n) => gate'[n].handle = NoHandle /\ gate'[n].fence = 0
    BY <1>1 DEF EndGate, Idle
  <2> QED BY <2>1 DEF GatePasses, Known
<1>3. \A pc, h : To(n, pc, h) /\ h \in Known(n) => GatePasses(n)
  <2>1. \A pc, h : To(n, pc, h) => gate'[n].handle = h /\ gate'[n].fence = 0
    BY <1>1 DEF To, Idle
  <2> QED BY <2>1 DEF GatePasses
<1>4. \A for : SendLock(n, for) => GatePasses(n)
  <2>1. \A for : SendLock(n, for) => gate'[n].handle = NoHandle /\ gate'[n].fence = 0
    BY <1>1 DEF SendLock, Idle
  <2> QED BY <2>1 DEF GatePasses, Known
<1>5. \A for, h : SendUnlock(n, for, h) /\ h \in Known(n) => GatePasses(n)
  <2>1. \A for, h : SendUnlock(n, for, h) => gate'[n].handle = h /\ gate'[n].fence = 0
    BY <1>1 DEF SendUnlock, Idle
  <2> QED BY <2>1 DEF GatePasses
<1>6. Forget(n) => EntPasses(n)
  BY <1>1 DEF Forget, NoEnt, EntPasses, Known
<1>7. ArmRetry(n) => EntPasses(n)
  <2>1. ArmRetry(n) => ent'[n].handle = ent[n].handle
    BY <1>1 DEF ArmRetry, Ent
  <2> QED BY <2>1 DEF EntPasses, Known
<1>8. UNCHANGED ent => EntPasses(n)
  BY DEF EntPasses, Known
<1>9. DropCache(n) => CachePasses(n)
  BY <1>1 DEF DropCache, NoCache, CachePasses
<1>10. UNCHANGED cache => CachePasses(n) /\ cache'[n].handle = cache[n].handle
  BY DEF CachePasses
<1>11. FreeTheRow(n) => RowPasses(n)
  BY <1>1 DEF FreeTheRow, RowPasses
<1>12. row[n].by # "gate" /\ UNCHANGED row /\ cache'[n].handle = cache[n].handle => RowPasses(n)
  BY DEF RowPasses
<1>13. RowFree(n) /\ UNCHANGED row => RowPasses(n)
  BY DEF RowFree, RowPasses
<1>14. \A h : SendClaim(n, h) => row'[n].reply = "none" /\ row'[n].by = "gate" /\ row'[n].handle = h
  BY <1>1 DEF SendClaim, FreeRow
<1>15. \A by, h : SendSave(n, by, h) => row'[n].reply = "none" /\ row'[n].by = by /\ row'[n].handle = h
  BY <1>1 DEF SendSave, FreeRow
<1> QED BY <1>2, <1>3, <1>4, <1>5, <1>6, <1>7, <1>8, <1>9, <1>10, <1>11, <1>12, <1>13, <1>14, <1>15

LEMMA Knowns ==
    ASSUME NEW n
    PROVE  /\ NoHandle \in Known(n) /\ lock[n] \in Known(n) /\ cache[n].handle \in Known(n)
           /\ row[n].handle \in Known(n) /\ gate[n].handle \in Known(n) /\ ent[n].handle \in Known(n)
BY DEF Known

LEMMA ReleasePasses ==
    ASSUME TypeInv, NEW n \in Nodes, NEW e, Release(n, e), e.handle \in Known(n)
    PROVE  GatePasses(n) /\ EntPasses(n)
<1>1. CASE Valid(n, e.handle)
  <2>1. ent'[n] = e
    BY <1>1 DEF Release, TypeInv, TypeOK
  <2> QED BY <1>1, <2>1, PartsPass DEF Release, EntPasses
<1>2. CASE ~Valid(n, e.handle)
  BY <1>2, PartsPass DEF Release
<1> QED BY <1>1, <1>2

LEMMA UnloadPasses ==
    ASSUME TypeInv, NEW n \in Nodes, UnloadEntity(n)
    PROVE  GatePasses(n) /\ EntPasses(n)
<1> DEFINE e == [ent[n] EXCEPT !.unloading = TRUE, !.armed = FALSE]
           x == [e EXCEPT !.invalid = TRUE]
<1>1. e.handle = ent[n].handle /\ x.handle = ent[n].handle /\ ent \in [Nodes -> Ent]
  BY DEF TypeInv, TypeOK, Ent
<1>2. CASE Release(n, e)
  BY <1>1, <1>2, ReleasePasses, Knowns
<1>3. CASE ent' = [ent EXCEPT ![n] = x] /\ To(n, "discard", e.handle)
  BY <1>1, <1>3, PartsPass, Knowns DEF EntPasses
<1>4. CASE ent' = [ent EXCEPT ![n] = e] /\ To(n, IF e.hooked THEN "flush" ELSE "hooks", e.handle)
  BY <1>1, <1>4, PartsPass, Knowns DEF EntPasses
<1> QED BY <1>2, <1>3, <1>4 DEF UnloadEntity

LEMMA RecoveryPasses ==
    ASSUME TypeInv, NEW n \in Nodes, NEW k, RecoveryFailed(n, k)
    PROVE  EntPasses(n) /\ CachePasses(n) /\ row[n].by # "sweep"
<1>1. ent \in [Nodes -> Ent] /\ ent[n] \in Ent /\ cache \in [Nodes -> Cache] /\ cache[n] \in Cache
  BY DEF TypeInv, TypeOK
<1>2. CASE k >= MaxTries
  BY <1>2, PartsPass DEF RecoveryFailed
<1>3. CASE ~(k >= MaxTries)
  <2>1. ent'[n].handle = ent[n].handle
    BY <1>1, <1>3 DEF RecoveryFailed, Ent
  <2>2. cache'[n].handle = cache[n].handle /\ cache'[n].version = cache[n].version
    BY <1>1, <1>3 DEF RecoveryFailed, Cache
  <2> QED BY <2>1, <2>2, Knowns DEF EntPasses, CachePasses, RecoveryFailed
<1> QED BY <1>2, <1>3 DEF RecoveryFailed

(* The gate's operations, other than one that etcd has granted the lock. *)
LEMMA LoadsPass ==
    ASSUME Inv, NEW n \in Nodes, Loads(n), ~(LockReturns(n) /\ LockAccepted(n))
    PROVE  Passes(n)
<1> USE PartsPass, Knowns
<1>1. TypeInv /\ FlowInv(n) /\ gate \in [Nodes -> Gate] /\ ent \in [Nodes -> Ent] /\ cache \in [Nodes -> Cache] /\ gate[n] \in Gate
      /\ row[n] \in Row
  BY DEF Inv, StoreInv, NodeInv, TypeInv, TypeOK
<1>2. Enter(n) => GatePasses(n) /\ EntPasses(n)
  <2>1. Enter(n) => ent'[n].handle = gate[n].handle
    BY <1>1 DEF Enter, NoEnt
  <2> QED BY <1>1, <2>1 DEF Enter, EntPasses
<1>3. LoadFails(n) => GatePasses(n)
  BY <1>1 DEF LoadFails
<1>4. CASE LockReturns(n)
  <2>1. EndGate(n) /\ UNCHANGED <<lock, row>> /\ gate[n].pc = "lock" /\ (RecoveryFailed(n, ent[n].tries) \/ UNCHANGED <<cache, ent>>)
    BY <1>4 DEF LockReturns
  <2>2. row[n].by # "gate"
    BY <1>1, <2>1 DEF FlowInv, Requests
  <2>3. EntPasses(n) /\ CachePasses(n) /\ (row[n].by = "sweep" => cache'[n].handle = cache[n].handle)
    BY <1>1, <2>1, RecoveryPasses
  <2> QED BY <1>1, <2>1, <2>2, <2>3 DEF Passes, RowPasses
<1>5. CASE LoadBegins(n)
  <2>1. UNCHANGED lock /\ gate[n].pc = "load" /\ RowFree(n)
    BY <1>5 DEF LoadBegins
  <2>2. CASE (LoadFails(n) \/ Enter(n)) /\ UNCHANGED <<cache, row>> /\ (UNCHANGED ent \/ Enter(n))
    BY <1>1, <1>2, <1>3, <2>1, <2>2 DEF Passes
  <2>3. CASE DropCache(n) /\ SendClaim(n, gate[n].handle) /\ UNCHANGED <<ent, gate>>
    BY <1>1, <2>1, <2>3 DEF Passes, RowPasses
  <2> QED BY <1>5, <2>2, <2>3 DEF LoadBegins
<1>6. CASE LoadReturns(n)
  <2>1. UNCHANGED lock /\ gate[n].pc = "load" /\ row[n].by = "gate" /\ FreeTheRow(n)
    BY <1>6 DEF LoadReturns, Answered
  <2>2. CASE row[n].reply = "ok" /\ Valid(n, gate[n].handle)
    <3>1. cache'[n].handle = gate[n].handle /\ cache'[n].version = row[n].version /\ Enter(n)
      BY <1>1, <1>6, <2>2 DEF LoadReturns
    <3> QED BY <1>1, <1>2, <2>1, <2>2, <3>1 DEF Passes, CachePasses
  <2>3. CASE ~(row[n].reply = "ok" /\ Valid(n, gate[n].handle))
    BY <1>1, <1>3, <1>6, <2>1, <2>3 DEF LoadReturns, Passes
  <2> QED BY <2>2, <2>3
<1>7. CASE InitReturns(n)
  <2>1. UNCHANGED <<lock, row, cache>> /\ gate[n].pc = "init"
    BY <1>7 DEF InitReturns
  <2>2. row[n].by # "gate"
    BY <1>1, <2>1 DEF FlowInv, Requests
  <2> QED BY <1>1, <1>7, <2>1, <2>2, UnloadPasses DEF InitReturns, Passes
<1> QED BY <1>4, <1>5, <1>6, <1>7 DEF Loads

LEMMA ServesPass ==
    ASSUME Inv, NEW n \in Nodes, Serves(n) \/ Starts(n) \/ \E m \in Mutations : Mutate(n, m)
    PROVE  Passes(n) \/ (UNCHANGED <<lock, row, ent, gate>> /\ CachePasses(n) /\ cache'[n].handle = cache[n].handle)
<1> USE PartsPass, Knowns
<1>1. TypeInv /\ FlowInv(n) /\ gate \in [Nodes -> Gate] /\ ent \in [Nodes -> Ent] /\ cache \in [Nodes -> Cache] /\ gate[n] \in Gate
      /\ cache[n] \in Cache /\ row[n] \in Row
  BY DEF Inv, StoreInv, NodeInv, TypeInv, TypeOK
<1>2. CASE HandlerReturns(n)
  <2>1. ent'[n].handle = ent[n].handle
    BY <1>1, <1>2 DEF HandlerReturns, OnLockExpired, Ent
  <2>2. gate[n].pc = "handler" /\ EndGate(n) /\ UNCHANGED <<lock, row, cache>>
    BY <1>2 DEF HandlerReturns
  <2>3. row[n].by # "gate"
    BY <1>1, <2>2 DEF FlowInv, Requests
  <2> QED BY <1>1, <2>1, <2>2, <2>3 DEF Passes, EntPasses
<1>3. CASE SaveReturns(n)
  <2>1. row[n].op = "save" /\ UNCHANGED <<lock, ent>> /\ FreeTheRow(n)
    BY <1>1, <1>3 DEF SaveReturns, Answered, FlowInv, Requests
  <2>2. CachePasses(n)
    <3>1. CASE Saved(n)
      <4>1. cache'[n].handle = cache[n].handle
        <5>1. Acked(n).handle = cache[n].handle
          BY <1>1 DEF Acked, Cache
        <5>2. cache' = [cache EXCEPT ![n] = Acked(n)]
          BY <1>3, <3>1 DEF SaveReturns
        <5> QED BY <1>1, <5>1, <5>2
      <4> QED BY <2>1, <3>1, <4>1 DEF CachePasses
    <3>2. CASE ~Saved(n)
      BY <1>1, <1>3, <3>2 DEF SaveReturns
    <3> QED BY <3>1, <3>2
  <2>3. gate'[n].handle = gate[n].handle /\ (gate'[n].fence = gate[n].fence)
    BY <1>1, <1>3 DEF SaveReturns, Gate
  <2> QED BY <1>1, <2>1, <2>2, <2>3 DEF Passes, GatePasses
<1>4. CASE Serve(n)
  <2>1. gate[n].pc = "idle" /\ To(n, "handler", ent[n].handle) /\ UNCHANGED <<lock, row, cache, ent>>
    BY <1>4 DEF Serve
  <2>2. row[n].by # "gate"
    BY <1>1, <2>1 DEF FlowInv, Requests
  <2> QED BY <1>1, <2>1, <2>2 DEF Passes
<1>5. CASE StartLoad(n)
  <2>1. gate[n].pc = "idle" /\ (To(n, "load", lock[n]) \/ SendLock(n, "load")) /\ UNCHANGED <<lock, row, cache, ent>>
    BY <1>5 DEF StartLoad
  <2>2. row[n].by # "gate"
    BY <1>1, <2>1 DEF FlowInv, Requests
  <2> QED BY <1>1, <2>1, <2>2 DEF Passes
<1>6. CASE HandlerSaves(n)
  <2>1. gate'[n].handle = gate[n].handle /\ gate'[n].fence = gate[n].fence /\ gate'[n].pc = "save"
    BY <1>1, <1>6 DEF HandlerSaves, Gate
  <2>2. SendSave(n, "gate", cache[n].handle) /\ UNCHANGED <<lock, cache, ent>>
    BY <1>6 DEF HandlerSaves
  <2> QED BY <1>1, <2>1, <2>2 DEF Passes, RowPasses, GatePasses
<1>7. CASE SweepSaves(n)
  <2>1. SendSave(n, "sweep", cache[n].handle) /\ UNCHANGED <<lock, cache, ent, gate>>
    BY <1>7 DEF SweepSaves
  <2> QED BY <1>1, <2>1 DEF Passes, RowPasses
<1>8. CASE Unload(n)
  <2>1. gate[n].pc = "idle" /\ UnloadEntity(n) /\ UNCHANGED <<lock, row, cache>>
    BY <1>8 DEF Unload
  <2>2. row[n].by # "gate"
    BY <1>1, <2>1 DEF FlowInv, Requests
  <2> QED BY <1>1, <2>1, <2>2, UnloadPasses DEF Passes
<1>9. ASSUME NEW m \in Mutations, Mutate(n, m)
      PROVE  UNCHANGED <<lock, row, ent, gate>> /\ CachePasses(n) /\ cache'[n].handle = cache[n].handle
  BY <1>1, <1>9 DEF Mutate, CachePasses, Cache
<1> QED BY <1>2, <1>3, <1>4, <1>5, <1>6, <1>7, <1>8, <1>9 DEF Serves, Starts

LEMMA LeavesPass ==
    ASSUME Inv, NEW n \in Nodes, LifeInv(n), Handles(n), Leaves(n)
    PROVE  Passes(n)
<1> USE PartsPass, Knowns
<1>1. TypeInv /\ FlowInv(n) /\ gate \in [Nodes -> Gate] /\ ent \in [Nodes -> Ent] /\ cache \in [Nodes -> Cache] /\ gate[n] \in Gate
      /\ ent[n] \in Ent /\ cache[n] \in Cache /\ row[n] \in Row
  BY DEF Inv, StoreInv, NodeInv, TypeInv, TypeOK
<1>2. Persisted(n) => GatePasses(n) /\ EntPasses(n)
  <2>1. [ent[n] EXCEPT !.persisted = TRUE].handle = ent[n].handle
    BY <1>1 DEF Ent
  <2> QED BY <1>1, <2>1, ReleasePasses DEF Persisted
<1>3. Recovered(n) => GatePasses(n) /\ EntPasses(n) /\ CachePasses(n)
  <2>1. [ent[n] EXCEPT !.handle = gate[n].handle, !.invalid = FALSE, !.persisted = TRUE].handle = gate[n].handle
    BY <1>1 DEF Ent
  <2> QED BY <1>1, <2>1, ReleasePasses DEF Recovered
<1>4. Abort(n) => GatePasses(n) /\ EntPasses(n)
  BY <1>1 DEF Abort
<1>5. RecoverFails(n) => GatePasses(n) /\ EntPasses(n) /\ CachePasses(n)
  <2>1. CASE Valid(n, gate[n].handle)
    BY <1>1, <2>1 DEF RecoverFails
  <2>2. CASE ~Valid(n, gate[n].handle)
    BY <1>1, <2>2, RecoveryPasses DEF RecoverFails
  <2> QED BY <2>1, <2>2
<1>6. Superseded(n) => GatePasses(n) /\ EntPasses(n)
  BY <1>1 DEF Superseded
<1>7. CASE HooksReturn(n)
  <2>1. UNCHANGED <<lock, row, cache>> /\ gate[n].pc = "hooks"
    BY <1>7 DEF HooksReturn
  <2>2. row[n].by # "gate"
    BY <1>1, <2>1 DEF FlowInv, Requests
  <2>3. ent' = [ent EXCEPT ![n].hooked = TRUE] => ent'[n].handle = ent[n].handle
    BY <1>1 DEF Ent
  <2>4. GatePasses(n) /\ EntPasses(n)
    BY <1>1, <1>7, <2>3 DEF HooksReturn, EntPasses
  <2> QED BY <1>1, <2>1, <2>2, <2>4 DEF Passes
<1>8. CASE FlushBegins(n)
  <2>1. UNCHANGED lock /\ RowFree(n)
    BY <1>8 DEF FlushBegins
  <2>2. CASE Abort(n) /\ UNCHANGED <<cache, row>>
    BY <1>1, <1>4, <2>1, <2>2 DEF Passes
  <2>3. CASE SendSave(n, "gate", cache[n].handle) /\ UNCHANGED <<cache, ent, gate>> /\ gate[n].pc = "flush"
    BY <1>1, <2>1, <2>3 DEF Passes, RowPasses
  <2>4. CASE DropCache(n) /\ Persisted(n) /\ UNCHANGED row
    BY <1>1, <1>2, <2>1, <2>4 DEF Passes
  <2> QED BY <1>8, <2>2, <2>3, <2>4 DEF FlushBegins
<1>9. CASE FlushReturns(n)
  <2>1. row[n].op = "save" /\ UNCHANGED lock /\ FreeTheRow(n)
    BY <1>1, <1>9 DEF FlushReturns, Answered, FlowInv, Requests
  <2>2. Acked(n).handle = cache[n].handle
    BY <1>1 DEF Acked, Cache
  <2>3. CASE ~Saved(n)
    BY <1>1, <1>4, <1>9, <2>1, <2>3 DEF FlushReturns, Passes
  <2>4. CASE Saved(n)
    <3>1. CASE DropCache(n) /\ Persisted(n)
      BY <1>1, <1>2, <2>1, <3>1 DEF Passes
    <3>2. CASE cache' = [cache EXCEPT ![n] = Acked(n)] /\ Abort(n)
      <4>1. CachePasses(n)
        BY <1>1, <2>1, <2>2, <2>4, <3>2 DEF CachePasses
      <4> QED BY <1>1, <1>4, <2>1, <3>2, <4>1 DEF Passes
    <3> QED BY <1>9, <2>4, <3>1, <3>2 DEF FlushReturns
  <2> QED BY <2>3, <2>4
<1>10. CASE Discard(n)
  <2>1. UNCHANGED <<lock, row>> /\ RowFree(n)
    BY <1>10 DEF Discard
  <2>2. CASE DropCache(n) /\ Forget(n) /\ EndGate(n)
    BY <1>1, <2>1, <2>2 DEF Passes
  <2>3. CASE RecoveryFailed(n, ent[n].tries + 1) /\ EndGate(n)
    BY <1>1, <2>1, <2>3, RecoveryPasses DEF Passes
  <2>4. CASE /\ cache' = IF Same(n) THEN [cache EXCEPT ![n].wheel = FALSE] ELSE cache
             /\ ent' = [ent EXCEPT ![n].tries = ent[n].tries + 1]
             /\ To(n, "recover", lock[n]) \/ SendLock(n, "recover")
    <3>1. ent'[n].handle = ent[n].handle
      BY <1>1, <2>4 DEF Ent
    <3>2. cache'[n].handle = cache[n].handle /\ cache'[n].version = cache[n].version
      BY <1>1, <2>4 DEF Cache
    <3>3. GatePasses(n) /\ EntPasses(n) /\ CachePasses(n)
      BY <1>1, <2>4, <3>1, <3>2 DEF EntPasses, CachePasses
    <3> QED BY <1>1, <2>1, <3>3 DEF Passes
  <2> QED BY <1>10, <2>2, <2>3, <2>4 DEF Discard
<1>11. CASE RecoverBegins(n)
  <2>1. UNCHANGED lock /\ RowFree(n) /\ gate[n].pc = "recover"
    BY <1>11 DEF RecoverBegins
  <2>2. CASE SendClaim(n, gate[n].handle) /\ UNCHANGED <<cache, ent, gate>>
    BY <1>1, <2>1, <2>2 DEF Passes, RowPasses
  <2>3. CASE ((Superseded(n) /\ UNCHANGED cache) \/ Recovered(n) \/ RecoverFails(n)) /\ UNCHANGED row
    BY <1>1, <1>3, <1>5, <1>6, <2>1, <2>3 DEF Passes
  <2> QED BY <1>11, <2>2, <2>3 DEF RecoverBegins
<1>12. CASE RecoverClaimed(n)
  <2>1. UNCHANGED lock /\ gate[n].pc = "recover"
    BY <1>12 DEF RecoverClaimed, Answered
  <2>2. CASE SendSave(n, "gate", gate[n].handle) /\ UNCHANGED <<cache, ent, gate>>
    BY <1>1, <2>1, <2>2 DEF Passes, RowPasses
  <2>3. CASE FreeTheRow(n) /\ (RecoverFails(n) \/ (DropCache(n) /\ Superseded(n)))
    BY <1>1, <1>5, <1>6, <2>1, <2>3 DEF Passes
  <2>4. \/ SendSave(n, "gate", gate[n].handle) /\ UNCHANGED <<cache, ent, gate>>
        \/ FreeTheRow(n) /\ (RecoverFails(n) \/ (DropCache(n) /\ Superseded(n)))
    BY <1>12 DEF RecoverClaimed
  <2> QED BY <2>2, <2>3, <2>4
<1>13. CASE RecoverSaved(n)
  <2>1. UNCHANGED lock /\ FreeTheRow(n) /\ (Recovered(n) \/ RecoverFails(n))
    BY <1>13 DEF RecoverSaved
  <2> QED BY <1>1, <1>3, <1>5, <2>1 DEF Passes
<1>14. CASE UnlockReturns(n)
  <2>1. gate[n].pc = "unlock" /\ EndGate(n) /\ gate[n].for \in Fors /\ UNCHANGED row
    BY <1>1, <1>14, Members DEF UnlockReturns
  <2>2. row[n].by # "gate"
    BY <1>1, <2>1 DEF FlowInv, Requests
  <2>3. lock'[n] \in {lock[n], NoHandle}
    BY <1>14 DEF UnlockReturns, Inv, TypeInv, TypeOK
  <2>4. ent' = [ent EXCEPT ![n].armed = TRUE, ![n].invalid = @ \/ (gate[n].reply # "ok" /\ lock[n] = gate[n].handle)]
          => ent'[n].handle = ent[n].handle
    BY <1>1 DEF Ent
  <2>5. CASE gate[n].for = "recover"
    <3>1. RecoveryFailed(n, ent[n].tries)
      BY <1>14, <2>5 DEF UnlockReturns
    <3> QED BY <1>1, <2>1, <2>2, <2>3, <3>1, RecoveryPasses DEF Passes, RowPasses
  <2>6. CASE gate[n].for # "recover"
    <3>1. UNCHANGED cache
      BY <1>14, <2>1, <2>6 DEF UnlockReturns, Fors
    <3>2. EntPasses(n)
      <4>1. UNCHANGED ent \/ Forget(n) \/ ent' = [ent EXCEPT ![n].armed = TRUE, ![n].invalid = @ \/ (gate[n].reply # "ok" /\ lock[n] = gate[n].handle)]
        BY <1>14, <2>1, <2>6 DEF UnlockReturns, Fors
      <4> QED BY <1>1, <2>4, <4>1 DEF EntPasses
    <3> QED BY <1>1, <2>1, <2>2, <2>3, <3>1, <3>2 DEF Passes
  <2> QED BY <2>5, <2>6
<1> QED BY <1>7, <1>8, <1>9, <1>10, <1>11, <1>12, <1>13, <1>14 DEF Leaves

-----------------------------------------------------------------------------
(* No fence is above the revision of the key, and while there is a key only  *)
(* the node with its lease has its fence: nobody else matches the document's *)
(* fence once that node has claimed it.                                     *)

Fences(n, f) ==
    \/ f \in {lock[n].fence, cache[n].handle.fence, row[n].handle.fence, gate[n].handle.fence,
              ent[n].handle.fence, gate[n].fence}
    \/ \E w \in late : w.node = n /\ w.fence = f

RightsInv ==
    /\ key # NoKey => key.rev = rev /\ key.lease <= granted
    /\ doc.fence <= rev /\ (~doc.exists => doc.fence = 0)
    /\ \A n \in Nodes : \A f : Fences(n, f) => f <= rev
    /\ key # NoKey => \A n, m \in Nodes : Fences(n, key.rev) /\ Uses(m, key.lease) => n = m

(* What a valid handle says of a version that was read or written under it,  *)
(* unless its key has been deleted by a late unlock.                        *)
Under(n, h, v) == Valid(n, h) /\ h.fence \notin revoked => doc.fence >= h.fence /\ (doc.version = v \/ writer = {n})

ClaimFacts(n) ==
    /\ row[n].by = "sweep" => row[n].handle = cache[n].handle
    /\ row[n].by = "gate" /\ gate[n].pc = "load" => row[n].handle = gate[n].handle
    /\ Under(n, cache[n].handle, cache[n].version)
    /\ row[n].by = "gate" /\ gate[n].pc = "load" /\ row[n].reply = "ok" => Under(n, row[n].handle, row[n].version)
    /\ row[n].op = "save" /\ row[n].reply = "ok" /\ Valid(n, row[n].handle) /\ row[n].handle.fence \notin revoked =>
          doc.fence >= row[n].handle.fence /\ writer = {n}

LEMMA ClaimsStay ==
    ASSUME NEW n, ClaimFacts(n), UNCHANGED <<doc, writer>>, revoked \subseteq revoked', row'[n] = row[n],
           cache'[n].handle = cache[n].handle, cache'[n].version = cache[n].version,
           gate'[n].pc = gate[n].pc, gate'[n].handle = gate[n].handle,
           \A h : Valid(n, h)' => Valid(n, h)
    PROVE  ClaimFacts(n)'
BY DEF ClaimFacts, Under

LEMMA ValidStays == \A n, h : lock'[n] = lock[n] /\ view'[n] = view[n] => (Valid(n, h)' <=> Valid(n, h))
BY DEF Valid

(* A node's own steps, by what they pass on. *)
LEMMA PassFacts ==
    ASSUME Inv, NEW n \in Nodes, ClaimFacts(n), UNCHANGED <<doc, writer, late, view, revoked>>,
           \/ Passes(n)
           \/ UNCHANGED <<lock, row, ent, gate>> /\ CachePasses(n) /\ cache'[n].handle = cache[n].handle
    PROVE  ClaimFacts(n)' /\ \A f : Fences(n, f)' => f = 0 \/ Fences(n, f)
<1>1. \A h : Valid(n, h)' => Valid(n, h)
  BY DEF Passes, Valid
<1>2. CachePasses(n)
  BY DEF Passes
<1>3. ~Valid(n, NoHandle) /\ NoHandle.fence = 0 /\ FreeRow.by = "none" /\ FreeRow.op = "none" /\ FreeRow.handle = NoHandle
  BY DEF Valid, NoHandle, FreeRow
<1>4. Under(n, cache[n].handle, cache[n].version)'
  <2>1. CASE cache'[n].handle = NoHandle
    BY <1>1, <1>3, <2>1 DEF Under
  <2>2. CASE cache'[n].handle = cache[n].handle /\ cache'[n].version = cache[n].version
    BY <1>1, <2>2 DEF ClaimFacts, Under
  <2>3. CASE cache'[n].handle = cache[n].handle /\ row[n].op = "save" /\ Saved(n)
    <3>1. row[n].handle = lock[n] /\ (lock[n].fence \notin revoked => doc.fence >= lock[n].fence /\ writer = {n})
      BY <2>3 DEF ClaimFacts, Saved, Valid
    <3>2. Valid(n, cache[n].handle)' => cache'[n].handle = lock[n]
      BY DEF Valid, Passes
    <3> QED BY <3>1, <3>2 DEF Under
  <2>4. CASE /\ gate[n].pc = "load" /\ row[n].by = "gate" /\ row[n].reply = "ok"
             /\ cache'[n].handle = gate[n].handle /\ cache'[n].version = row[n].version
    BY <1>1, <2>4 DEF ClaimFacts, Under
  <2> QED BY <1>2, <2>1, <2>2, <2>3, <2>4 DEF CachePasses
<1>5. cache'[n].handle \in Known(n)
  BY <1>2 DEF CachePasses, Known
<1>6. CASE Passes(n)
  <2>1. row'[n].handle \in Known(n)
    BY <1>3, <1>6 DEF Passes, RowPasses, Known
  <2>2. gate'[n].handle \in Known(n) /\ ent'[n].handle \in Known(n) /\ lock'[n] \in Known(n) /\ gate'[n].fence \in {0, gate[n].fence}
    BY <1>6 DEF Passes, GatePasses, EntPasses, Known
  <2>3. \A h \in Known(n) : h.fence = 0 \/ Fences(n, h.fence)
    BY <1>3 DEF Known, Fences
  <2>4. \A f : Fences(n, f)' => f = 0 \/ Fences(n, f)
    <3> SUFFICES ASSUME NEW f, Fences(n, f)' PROVE f = 0 \/ Fences(n, f)
      OBVIOUS
    <3>1. CASE \E w \in late' : w.node = n /\ w.fence = f
      BY <3>1 DEF Fences
    <3>2. CASE f = gate'[n].fence
      BY <2>2, <3>2 DEF Fences
    <3>3. CASE \E h \in Known(n) : f = h.fence
      BY <2>3, <3>3
    <3>4. f \in {lock'[n].fence, cache'[n].handle.fence, row'[n].handle.fence, gate'[n].handle.fence, ent'[n].handle.fence}
          \/ f = gate'[n].fence \/ \E w \in late' : w.node = n /\ w.fence = f
      BY DEF Fences
    <3> QED BY <1>5, <2>1, <2>2, <3>1, <3>2, <3>3, <3>4
  <2>5. CASE row'[n] = FreeRow
    BY <1>3, <1>4, <2>4, <2>5 DEF ClaimFacts
  <2>6. CASE row'[n] = row[n] /\ row[n].by # "gate" /\ (row[n].by = "sweep" => cache'[n].handle = cache[n].handle)
    BY <1>1, <1>4, <2>4, <2>6 DEF ClaimFacts
  <2>7. CASE /\ row'[n].reply = "none"
             /\ row'[n].by = "sweep" => row'[n].handle = cache'[n].handle
             /\ row'[n].by = "gate" /\ gate'[n].pc = "load" => row'[n].handle = gate'[n].handle
    BY <1>4, <2>4, <2>7 DEF ClaimFacts
  <2> QED BY <1>6, <2>5, <2>6, <2>7 DEF Passes, RowPasses
<1>7. CASE UNCHANGED <<lock, row, ent, gate>> /\ cache'[n].handle = cache[n].handle
  <2>1. \A f : Fences(n, f)' => Fences(n, f)
    BY <1>7 DEF Fences
  <2>2. ClaimFacts(n)'
    BY <1>1, <1>4, <1>7 DEF ClaimFacts, Under
  <2> QED BY <2>1, <2>2
<1> QED BY <1>6, <1>7

(* The lock that etcd has granted has its fence, and is none that was known. *)
LEMMA AcceptFacts ==
    ASSUME Inv, NEW n \in Nodes, ClaimFacts(n), LockReturns(n), LockAccepted(n)
    PROVE  ClaimFacts(n)' /\ \A f : Fences(n, f)' => f = 0 \/ Fences(n, f)
<1> DEFINE h == [id |-> FreshId(n), lease |-> gate[n].lease, fence |-> gate[n].fence]
<1>1. /\ TypeInv /\ FlowInv(n) /\ row[n].by \in {"none", "gate", "sweep"}
      /\ lock \in [Nodes -> Handle0] /\ gate \in [Nodes -> Gate]
  BY Members DEF Inv, StoreInv, NodeInv, TypeInv, TypeOK, Row
<1>2. lock' = [lock EXCEPT ![n] = h] /\ To(n, gate[n].for, h) /\ UNCHANGED <<cache, ent>>
  BY DEF LockReturns
<1>3. UNCHANGED <<doc, writer, late, view, row, revoked>> /\ gate[n].pc = "lock"
  BY DEF LockReturns, mongo, etcd
<1>4. FreshId(n) # cache[n].handle.id
  <2>1. cache[n].handle.id \in 0 .. 4 /\ ent[n].handle.id \in 0 .. 4 /\ lock[n].id \in 0 .. 4
    BY <1>1, Members, HandleParts
  <2>2. \E i \in 1 .. 4 : i \notin {cache[n].handle.id, ent[n].handle.id, lock[n].id}
    BY <2>1, FourthNumber
  <2> QED BY <2>2 DEF FreshId
<1>5. h.id = FreshId(n) /\ h.fence = gate[n].fence
  OBVIOUS
<1>6. h # cache[n].handle
  BY <1>4, <1>5
<1> HIDE DEF h
<1>7. lock'[n] = h
  BY <1>1, <1>2
<1>8. gate'[n].handle = h /\ gate'[n].fence = 0
  BY <1>1, <1>2 DEF To, Idle
<1>9. ~Valid(n, cache[n].handle)'
  BY <1>2, <1>6, <1>7 DEF Valid
<1>10. row[n].by # "gate"
  BY <1>1, <1>3 DEF FlowInv, Requests
<1>11. row[n].by = "none" => row[n].op = "none"
  BY <1>1 DEF FlowInv
<1>12. ClaimFacts(n)'
  <2>1. row'[n].handle = cache'[n].handle \/ row'[n].op = "none"
    BY <1>1, <1>2, <1>3, <1>10, <1>11 DEF ClaimFacts
  <2>2. cache'[n].handle = cache[n].handle /\ row'[n] = row[n]
    BY <1>2, <1>3
  <2> QED BY <1>9, <1>10, <2>1, <2>2 DEF ClaimFacts, Under, Valid
<1>13. \A f : Fences(n, f)' => f = 0 \/ Fences(n, f)
  BY <1>2, <1>3, <1>5, <1>7, <1>8 DEF Fences
<1> QED BY <1>12, <1>13

(* MongoDB executes a request of node k with fence f. *)
DocStep(k, f) ==
    /\ doc'.fence \in {doc.fence, f} /\ doc'.fence >= doc.fence
    /\ doc'.exists \/ UNCHANGED doc
    /\ \/ doc'.version = doc.version /\ writer' = writer
       \/ doc.fence = f /\ writer' = {k}

LEMMA DocParts ==
    ASSUME Inv, RightsInv, NEW k
    PROVE  /\ \A f \in Revs : Claimable(f) /\ Claim(f) /\ UNCHANGED writer => DocStep(k, f) /\ doc'.fence = f /\ doc'.version = doc.version
           /\ \A f \in Revs : ~doc.exists /\ Create(f) /\ UNCHANGED writer => DocStep(k, f) /\ doc'.fence = f /\ doc'.version = 0
           /\ \A w : Matches(w) /\ Write(w) /\ w.node = k => DocStep(k, w.fence) /\ doc'.fence = w.fence /\ writer' = {k}
           /\ \A f : UNCHANGED <<doc, writer>> => DocStep(k, f)
<1>1. doc \in Doc /\ doc.fence \in Nat /\ doc.version \in Nat /\ (~doc.exists => doc.version = 0 /\ doc.fence = 0)
  <2>1. doc \in Doc /\ Absent
    BY DEF Inv, StoreInv, TypeInv, TypeOK
  <2> QED BY <2>1 DEF Doc, RightsInv, Absent
<1>2. ASSUME NEW f \in Revs, Claimable(f), Claim(f), UNCHANGED writer
      PROVE  DocStep(k, f) /\ doc'.fence = f /\ doc'.version = doc.version
  <2>1. doc'.fence = f /\ doc'.version = doc.version /\ doc'.exists
    BY <1>1, <1>2 DEF Claim, Claimable, Doc
  <2> QED BY <1>2, <2>1 DEF DocStep, Claimable
<1>3. ASSUME NEW f \in Revs, ~doc.exists, Create(f), UNCHANGED writer
      PROVE  DocStep(k, f) /\ doc'.fence = f /\ doc'.version = 0
  <2>1. doc'.fence = f /\ doc'.version = 0 /\ doc'.exists
    BY <1>3 DEF Create
  <2> QED BY <1>1, <1>3, <2>1 DEF DocStep, Revs
<1>4. ASSUME NEW w, Matches(w), Write(w), w.node = k
      PROVE  DocStep(k, w.fence) /\ doc'.fence = w.fence /\ writer' = {k}
  <2>1. doc'.fence = doc.fence /\ doc'.exists /\ writer' = {k} /\ doc.fence = w.fence
    BY <1>1, <1>4 DEF Write, Matches, Doc
  <2> QED BY <1>1, <2>1 DEF DocStep
<1>5. ASSUME NEW f, UNCHANGED <<doc, writer>> PROVE DocStep(k, f)
  BY <1>1, <1>5 DEF DocStep
<1> QED BY <1>2, <1>3, <1>4, <1>5

(* A valid handle's node has the key, unless it is revoked, and it alone has *)
(* the fence of the key.                                                    *)
LEMMA HasKey ==
    ASSUME Inv, RightsInv, KeyInv, NEW n \in Nodes, Handles(n), NEW h, Valid(n, h), h.fence \notin revoked,
           gate[n].pc # "unlock"
    PROVE  /\ h.fence = rev /\ \A m \in Nodes : Fences(m, rev) => m = n
           /\ h.fence \in Revs
<1>1. lock[n] = h /\ h # NoHandle
  BY DEF Valid
<1>2. KeyFacts(n) /\ key \in Key /\ lock[n].lease = view[n].lease /\ lock[n].lease \in Leases
  BY <1>1, KeyNode
<1>3. key = KeyOf(h)
  BY <1>1, <1>2 DEF KeyFacts, Keeps
<1>4. key.lease = h.lease /\ key.rev = h.fence
  BY <1>3 DEF KeyOf
<1>5. key # NoKey
  BY <1>1, <1>2, <1>4 DEF NoKey, Leases
<1>6. Uses(n, key.lease)
  BY <1>1, <1>2, <1>4 DEF Uses
<1>7. h.fence \in Revs
  BY <1>2, <1>4, <1>5 DEF Key
<1> QED BY <1>4, <1>5, <1>6, <1>7 DEF RightsInv

LEMMA UnderStays ==
    ASSUME Inv, RightsInv, KeyInv, NEW n \in Nodes, Handles(n), NEW h, NEW v, gate[n].pc # "unlock",
           UNCHANGED <<view, lock>>, NEW k \in Nodes, NEW f, DocStep(k, f), Fences(k, f), Under(n, h, v), Valid(n, h),
           h.fence \notin revoked, doc' \in Doc
    PROVE  doc'.fence >= h.fence /\ (doc'.version = v \/ writer' = {n}) /\ (writer = {n} => writer' = {n})
<1>1. h.fence = rev /\ (\A m \in Nodes : Fences(m, rev) => m = n) /\ h.fence \in Revs
  BY HasKey
<1>2. doc.fence \in Nat /\ rev \in Nat /\ doc'.fence \in Nat
  BY DEF Inv, TypeInv, TypeOK, Doc
<1>3. doc.fence = rev
  BY <1>1, <1>2 DEF Under, RightsInv
<1> QED BY <1>1, <1>2, <1>3 DEF DocStep, Under

(* The answer to the request that a node waits for. *)
RowAnswer(n) ==
    /\ row'[n].by = row[n].by /\ row'[n].handle = row[n].handle /\ (row'[n].op = "save" <=> row[n].op = "save")
    /\ row'[n].reply = "ok" =>
          /\ doc'.fence >= row[n].handle.fence
          /\ IF row[n].op = "save" THEN writer' = {n} ELSE row'[n].version = doc'.version

LEMMA ClaimsMove ==
    ASSUME Inv, RightsInv, KeyInv, NEW n \in Nodes, Handles(n), ClaimFacts(n), UNCHANGED <<view, lock, cache, gate, revoked>>,
           NEW k \in Nodes, NEW f, DocStep(k, f), Fences(k, f), doc' \in Doc,
           row'[n] = row[n] \/ RowAnswer(n)
    PROVE  ClaimFacts(n)'
<1>0. FlowInv(n) /\ row[n].by \in {"none", "gate", "sweep"}
  BY Members DEF Inv, StoreInv, NodeInv, Row
<1>1. \A h : Valid(n, h)' <=> Valid(n, h)
  BY ValidStays
<1>2. Valid(n, cache[n].handle) => gate[n].pc # "unlock"
  BY DEF Valid, Handles, GateFacts
<1>3. ASSUME row[n].op = "save", Valid(n, row[n].handle) PROVE gate[n].pc # "unlock"
  <2>1. CASE row[n].by = "gate"
    BY <1>0, <2>1 DEF FlowInv, Requests
  <2>2. CASE row[n].by = "sweep"
    BY <1>2, <1>3, <2>2 DEF ClaimFacts
  <2> QED BY <1>0, <1>3, <2>1, <2>2 DEF FlowInv
<1>4. Under(n, cache[n].handle, cache[n].version)'
  <2>1. ASSUME Valid(n, cache[n].handle), cache[n].handle.fence \notin revoked
        PROVE  doc'.fence >= cache[n].handle.fence /\ (doc'.version = cache[n].version \/ writer' = {n})
    BY <1>2, <2>1, UnderStays DEF ClaimFacts
  <2> QED BY <1>1, <2>1 DEF Under
<1>5. ASSUME row'[n].by = "gate", gate[n].pc = "load", row'[n].reply = "ok" PROVE Under(n, row[n].handle, row[n].version)' /\ row'[n].handle = gate'[n].handle
  <2>1. CASE row'[n] = row[n]
    <3>1. Under(n, row[n].handle, row[n].version) /\ row[n].handle = gate[n].handle
      BY <1>5, <2>1 DEF ClaimFacts
    <3>2. Valid(n, row[n].handle) /\ row[n].handle.fence \notin revoked => doc'.fence >= row[n].handle.fence /\ (doc'.version = row[n].version \/ writer' = {n})
      BY <1>5, <3>1, UnderStays
    <3> QED BY <1>1, <2>1, <3>1, <3>2 DEF Under
  <2>2. CASE RowAnswer(n)
    <3>1. row[n].op # "save"
      BY <1>0, <1>5, <2>2 DEF RowAnswer, FlowInv, Requests
    <3> QED BY <1>5, <2>2, <3>1 DEF RowAnswer, Under, ClaimFacts
  <2> QED BY <2>1, <2>2
<1>6. ASSUME row'[n].op = "save", row'[n].reply = "ok", Valid(n, row'[n].handle), row'[n].handle.fence \notin revoked
      PROVE  doc'.fence >= row'[n].handle.fence /\ writer' = {n}
  <2>1. CASE row'[n] = row[n]
    <3>1. /\ doc.fence >= row[n].handle.fence /\ writer = {n} /\ Valid(n, row[n].handle) /\ row[n].op = "save"
          /\ row[n].handle.fence \notin revoked
      BY <1>6, <2>1 DEF ClaimFacts
    <3>2. Under(n, row[n].handle, doc.version)
      BY <3>1 DEF Under
    <3> QED BY <1>3, <2>1, <3>1, <3>2, UnderStays
  <2>2. CASE RowAnswer(n)
    BY <1>6, <2>2 DEF RowAnswer
  <2> QED BY <2>1, <2>2
<1>7. /\ row'[n].by = "sweep" => row'[n].handle = cache[n].handle
      /\ row'[n].by = "gate" /\ gate[n].pc = "load" => row'[n].handle = gate[n].handle
  BY DEF ClaimFacts, RowAnswer
<1>8. Valid(n, row[n].handle)' => Valid(n, row'[n].handle)
  BY DEF Valid
<1> QED BY <1>4, <1>5, <1>6, <1>7, <1>8 DEF ClaimFacts

LEMMA MongoAnswers ==
    ASSUME Inv, Inv', RightsInv, NEW k \in Nodes, MongoClaim(k) \/ MongoResolve(k) \/ MongoSave(k)
    PROVE  /\ DocStep(k, row[k].handle.fence) /\ RowAnswer(k) /\ row[k].handle.fence \in Revs
           /\ UNCHANGED <<etcd, late, view, lock, cache, ent, gate>> /\ \A n \in Nodes : n # k => row'[n] = row[n]
<1>1. /\ TypeInv /\ row \in [Nodes -> Row] /\ row[k] \in Row /\ row[k].handle \in Handle0 /\ RowOK(k)
      /\ doc \in Doc /\ doc.fence \in Nat
  BY Members DEF Inv, TypeInv, TypeOK, Doc
<1>2. row[k].op # "none" /\ row[k].reply = "none"
  BY DEF MongoClaim, MongoResolve, MongoSave, Pending
<1>3. row[k].handle.fence \in Revs
  BY <1>1, <1>2, HandleParts DEF RowOK
<1>4. UNCHANGED <<etcd, late, view, lock, cache, ent, gate>>
  BY DEF MongoClaim, MongoResolve, MongoSave
<1>5. \A n \in Nodes : n # k => row'[n] = row[n]
  BY <1>1 DEF MongoClaim, MongoResolve, MongoSave, Answer
<1>6. \A st, d : Answer(k, st, d) =>
        /\ row'[k].by = row[k].by /\ row'[k].handle = row[k].handle /\ row'[k].op = row[k].op
        /\ row'[k].version = d.version
  BY <1>1 DEF Answer, Row
<1>7. CASE MongoClaim(k)
  <2>0. row[k].op = "claim"
    BY <1>7 DEF MongoClaim, Pending
  <2>1. CASE Claimable(row[k].handle.fence)
    <3>1. Claim(row[k].handle.fence) /\ Answer(k, "ok", doc) /\ UNCHANGED writer
      BY <1>7, <2>1 DEF MongoClaim
    <3>2. DocStep(k, row[k].handle.fence) /\ doc'.fence = row[k].handle.fence /\ doc'.version = doc.version
      BY <1>3, <2>1, <3>1, DocParts
    <3>3. RowAnswer(k)
      BY <1>3, <1>6, <2>0, <3>1, <3>2 DEF RowAnswer, Revs
    <3> QED BY <1>3, <1>4, <1>5, <3>2, <3>3
  <2>2. CASE ~Claimable(row[k].handle.fence)
    <3>1. UNCHANGED <<doc, writer>> /\ row' = [row EXCEPT ![k].op = "resolve", ![k].tries = @ + 1]
      BY <1>7, <2>2 DEF MongoClaim
    <3>2. row'[k].by = row[k].by /\ row'[k].handle = row[k].handle /\ row'[k].op = "resolve" /\ row'[k].reply = "none"
      BY <1>1, <1>2, <3>1 DEF Row
    <3> QED BY <1>3, <1>4, <1>5, <2>0, <3>1, <3>2, DocParts DEF RowAnswer
  <2> QED BY <2>1, <2>2
<1>8. CASE MongoResolve(k)
  <2>0. row[k].op = "resolve"
    BY <1>8 DEF MongoResolve, Pending
  <2>1. CASE ~doc.exists /\ Creates(k)
    <3>1. Create(row[k].handle.fence) /\ Answer(k, "ok", [version |-> 0, content |-> {}]) /\ UNCHANGED writer
      BY <1>8, <2>1 DEF MongoResolve
    <3>2. DocStep(k, row[k].handle.fence) /\ doc'.fence = row[k].handle.fence /\ doc'.version = 0
      BY <1>3, <2>1, <3>1, DocParts
    <3>3. RowAnswer(k)
      BY <1>3, <1>6, <2>0, <3>1, <3>2 DEF RowAnswer, Revs
    <3> QED BY <1>3, <1>4, <1>5, <3>2, <3>3
  <2>2. CASE ~(~doc.exists /\ Creates(k))
    <3>1. UNCHANGED <<doc, writer>>
      BY <1>8, <2>2 DEF MongoResolve
    <3>2. \/ Answer(k, "ok", doc) /\ doc.fence = row[k].handle.fence
          \/ row' = [row EXCEPT ![k].reply = "missing"]
          \/ row' = [row EXCEPT ![k].reply = "no"]
          \/ row' = [row EXCEPT ![k].op = "claim"]
      BY <1>8, <2>2 DEF MongoResolve
    <3>3. RowAnswer(k)
      <4>1. CASE Answer(k, "ok", doc) /\ doc.fence = row[k].handle.fence
        BY <1>3, <1>6, <2>0, <3>1, <4>1 DEF RowAnswer, Revs
      <4>2. CASE row' = [row EXCEPT ![k].reply = "missing"] \/ row' = [row EXCEPT ![k].reply = "no"]
        BY <1>1, <4>2 DEF RowAnswer, Row
      <4>3. CASE row' = [row EXCEPT ![k].op = "claim"]
        BY <1>1, <1>2, <2>0, <4>3 DEF RowAnswer, Row
      <4> QED BY <3>2, <4>1, <4>2, <4>3
    <3> QED BY <1>3, <1>4, <1>5, <3>1, <3>3, DocParts
  <2> QED BY <2>1, <2>2
<1>9. CASE MongoSave(k)
  <2>0. row[k].op = "save"
    BY <1>9 DEF MongoSave, Pending
  <2>1. CASE Matches(SaveOf(k))
    <3>1. Write(SaveOf(k)) /\ row' = [row EXCEPT ![k].reply = "ok"]
      BY <1>9, <2>1 DEF MongoSave
    <3>2. SaveOf(k).node = k /\ SaveOf(k).fence = row[k].handle.fence
      BY DEF SaveOf
    <3>3. DocStep(k, row[k].handle.fence) /\ doc'.fence = row[k].handle.fence /\ writer' = {k}
      BY <2>1, <3>1, <3>2, DocParts
    <3>4. row'[k].by = row[k].by /\ row'[k].handle = row[k].handle /\ row'[k].op = row[k].op
      BY <1>1, <3>1 DEF Row
    <3>5. RowAnswer(k)
      BY <1>3, <2>0, <3>3, <3>4 DEF RowAnswer, Revs
    <3> QED BY <1>3, <1>4, <1>5, <3>3, <3>5
  <2>2. CASE ~Matches(SaveOf(k))
    <3>1. UNCHANGED <<doc, writer>> /\ row' = [row EXCEPT ![k].reply = "no"]
      BY <1>9, <2>2 DEF MongoSave
    <3>2. RowAnswer(k)
      BY <1>1, <3>1 DEF RowAnswer, Row
    <3> QED BY <1>3, <1>4, <1>5, <3>1, <3>2, DocParts
  <2> QED BY <2>1, <2>2
<1> QED BY <1>7, <1>8, <1>9

LEMMA RightsByParts ==
    ASSUME Inv, Inv', RightsInv, UNCHANGED rev, key' \in {key, NoKey}, granted' >= granted,
           doc'.fence <= rev', ~doc'.exists => doc'.fence = 0,
           \A n \in Nodes : \A f : Fences(n, f)' => f = 0 \/ Fences(n, f),
           \A n \in Nodes : \A l \in Leases : Uses(n, l)' => Uses(n, l) \/ l > granted
    PROVE  RightsInv'
<1>1. rev \in Nat /\ granted \in Nat /\ granted' \in Nat /\ key \in Key
  BY DEF Inv, TypeInv, TypeOK
<1>2. \A n \in Nodes : \A f : Fences(n, f)' => f <= rev'
  BY <1>1 DEF RightsInv
<1>3. key # NoKey => key.lease \in Leases /\ key.rev \in Revs
  BY <1>1 DEF Key
<1>4. key' # NoKey => key' = key
  OBVIOUS
<1>5. key # NoKey => ~(key.lease > granted) /\ key.rev # 0
  BY <1>1, <1>3 DEF RightsInv, Leases, Revs
<1>6. key' # NoKey => key'.rev = rev' /\ key'.lease <= granted'
  BY <1>1, <1>3, <1>4 DEF RightsInv, Leases
<1>7. ASSUME key' # NoKey, NEW n \in Nodes, NEW m \in Nodes, NEW f, NEW l, f = key'.rev, l = key'.lease,
             Fences(n, f)', Uses(m, l)'
      PROVE  n = m
  <2>1. Fences(n, f) /\ Uses(m, l)
    BY <1>3, <1>4, <1>5, <1>7
  <2> QED BY <1>4, <1>7, <2>1 DEF RightsInv
<1>8. ASSUME key' # NoKey, NEW n \in Nodes, NEW m \in Nodes, Fences(n, key.rev)', Uses(m, key.lease)' PROVE n = m
  BY <1>7, <1>8 DEF Fences, Uses
<1> QED BY <1>2, <1>6, <1>8 DEF RightsInv

LEMMA FencesStay ==
    ASSUME NEW n, UNCHANGED late, lock'[n] = lock[n], cache'[n].handle = cache[n].handle,
           row'[n].handle = row[n].handle, gate'[n].handle = gate[n].handle,
           ent'[n].handle = ent[n].handle, gate'[n].fence \in {0, gate[n].fence}
    PROVE  \A f : Fences(n, f)' => f = 0 \/ Fences(n, f)
BY DEF Fences

(* No step but the grant of a lease lets a node use one it did not use. *)
LEMMA StepUses ==
    ASSUME Inv, KeyInv, \A n \in Nodes : LifeInv(n) /\ Handles(n), [Next]_vars
    PROVE  granted' >= granted /\ \A n \in Nodes : \A l \in Leases : Uses(n, l)' => Uses(n, l) \/ l > granted
<1>1. /\ TypeInv /\ gate \in [Nodes -> Gate] /\ granted \in Nat
      /\ view \in [Nodes -> [lease : 0 .. MaxLease, valid : BOOLEAN]]
  BY DEF Inv, TypeInv, TypeOK
<1>2. CASE UNCHANGED <<granted, view, gate>>
  BY <1>1, <1>2 DEF Uses
<1>3. ASSUME NEW k \in Nodes, Does(k)
      PROVE  granted' >= granted /\ \A n \in Nodes : \A l \in Leases : Uses(n, l)' => Uses(n, l) \/ l > granted
  <2>1. \A n \in Nodes : n # k => \A l : Uses(n, l)' => Uses(n, l)
    BY <1>1, <1>3, OthersLive DEF SameLife, Uses
  <2>2. ASSUME Turn(k), UNCHANGED <<etcd, view>> PROVE granted' >= granted /\ \A l : Uses(k, l)' => Uses(k, l)
    BY <1>1, <2>2, TurnKeys DEF etcd
  <2>3. CASE Lease(k)
    <3>1. UNCHANGED gate
      BY <2>3 DEF Lease, LoseLease, Resurrect, NewLease
    <3>2. \/ granted' = granted /\ view'[k].lease = view[k].lease
          \/ granted' = granted + 1 /\ view'[k].lease = granted + 1
      BY <1>1, <2>3 DEF Lease, LoseLease, Resurrect, NewLease, etcd
    <3>3. granted' >= granted /\ \A l \in Leases : Uses(k, l)' => Uses(k, l) \/ l > granted
      BY <1>1, <3>1, <3>2 DEF Uses
    <3> QED BY <2>1, <3>3
  <2>4. CASE EtcdLock(k) \/ EtcdUnlock(k) \/ EtcdFails(k) \/ EtcdRetries(k)
    <3>1. UNCHANGED <<granted, view>>
      BY <2>4 DEF EtcdLock, EtcdUnlock, EtcdFails, EtcdRetries
    <3>2. gate'[k].pc = gate[k].pc /\ gate'[k].handle = gate[k].handle /\ gate'[k].lease = gate[k].lease
      BY <1>1, <2>4 DEF EtcdLock, EtcdUnlock, EtcdFails, EtcdRetries, Gate
    <3>3. \A l : Uses(k, l)' => Uses(k, l)
      BY <3>1, <3>2 DEF Uses
    <3> QED BY <1>1, <2>1, <3>1, <3>3
  <2>5. CASE MongoClaim(k) \/ MongoResolve(k) \/ MongoSave(k) \/ MongoFails(k)
    BY <1>2, <2>5 DEF MongoClaim, MongoResolve, MongoSave, MongoFails, etcd
  <2>6. CASE Crash(k)
    <3>1. UNCHANGED granted /\ view'[k].lease = 0 /\ gate'[k].pc = "idle"
      BY <1>1, <2>6, LifeParts DEF Crash
    <3>2. \A l \in Leases : ~Uses(k, l)'
      <4>1. \A l \in Leases : l # 0
        BY DEF Leases
      <4> QED BY <3>1, <4>1 DEF Uses
    <3>3. granted' >= granted
      BY <1>1, <3>1
    <3> HIDE DEF Uses
    <3> QED BY <2>1, <3>2, <3>3
  <2>7. CASE Loads(k)
    BY <2>1, <2>2, <2>7, LoadsHandles DEF Loads, LockReturns, LoadBegins, LoadReturns, InitReturns
  <2>8. CASE Serves(k) \/ Starts(k) \/ \E m \in Mutations : Mutate(k, m)
    <3>1. UNCHANGED <<etcd, view>>
      BY <2>8 DEF Serves, HandlerReturns, SaveReturns, Starts, Serve, StartLoad, HandlerSaves, SweepSaves, Unload, Mutate
    <3> QED BY <2>1, <2>2, <2>8, <3>1, ServesHandles
  <2>9. CASE Leaves(k)
    <3>1. UNCHANGED <<etcd, view>>
      BY <2>9 DEF Leaves, HooksReturn, FlushBegins, FlushReturns, Discard, RecoverBegins, RecoverClaimed, RecoverSaved, UnlockReturns
    <3> QED BY <2>1, <2>2, <2>9, <3>1, LeavesHandles
  <2> QED BY <1>3, <2>3, <2>4, <2>5, <2>6, <2>7, <2>8, <2>9 DEF Does, Answers, Fails
<1>4. (\E l \in Leases : ExpireLease(l)) \/ (\E q \in stray : EtcdStray(q)) \/ (\E w \in late : LateWrite(w)) \/ UNCHANGED vars
      => UNCHANGED <<granted, view, gate>>
  BY DEF ExpireLease, EtcdStray, LateWrite, etcd, vars
<1> QED BY <1>2, <1>3, <1>4 DEF Next, Does

(* The claims of all nodes after a step that does not touch the document. *)
LEMMA LocalClaims ==
    ASSUME Inv, Inv', \A n \in Nodes : LifeInv(n) /\ Handles(n), KeyInv, RightsInv, \A n \in Nodes : ClaimFacts(n), [Next]_vars,
           NEW k \in Nodes, Does(k), UNCHANGED <<doc, writer, late, rev, revoked>>, key' \in {key, NoKey},
           ClaimFacts(k)', \A f : Fences(k, f)' => f = 0 \/ Fences(k, f)
    PROVE  RightsInv' /\ \A n \in Nodes : ClaimFacts(n)'
<1>1. TypeInv
  BY DEF Inv
<1>2. ASSUME NEW n \in Nodes PROVE ClaimFacts(n)' /\ \A f : Fences(n, f)' => f = 0 \/ Fences(n, f)
  <2>1. CASE n = k
    BY <2>1
  <2>2. CASE n # k
    <3>1. SameLife(n) /\ cache'[n] = cache[n] /\ row'[n] = row[n]
      BY <1>1, <2>2, OthersLive
    <3>2. \A h : Valid(n, h)' => Valid(n, h)
      BY <3>1, ValidStays DEF SameLife
    <3>3. ClaimFacts(n)'
      BY <3>1, <3>2, ClaimsStay DEF SameLife
    <3> QED BY <3>1, <3>3, FencesStay DEF SameLife
  <2> QED BY <2>1, <2>2
<1>3. doc'.fence <= rev' /\ (~doc'.exists => doc'.fence = 0)
  BY DEF RightsInv
<1> QED BY <1>2, <1>3, StepUses, RightsByParts

LEMMA FencesAreNat ==
    ASSUME TypeInv, NEW n \in Nodes, NEW f, Fences(n, f)
    PROVE  f \in Nat
<1>1. /\ lock[n] \in Handle0 /\ cache[n].handle \in Handle0 /\ row[n].handle \in Handle0
      /\ gate[n].handle \in Handle0 /\ ent[n].handle \in Handle0
  BY Members
<1>2. \A h \in Handle0 : h.fence \in Nat
  BY DEF Handle0, Handle, NoHandle, Revs
<1>3. gate[n].fence \in Nat /\ late \subseteq Writes
  BY Members DEF Gate, TypeInv, TypeOK
<1>4. \A w \in late : w.fence \in Nat
  BY <1>3 DEF Writes, Revs
<1> QED BY <1>1, <1>2, <1>3, <1>4 DEF Fences

(* A key is created: its revision is nobody's fence but the creator's. *)
LEMMA LockClaims ==
    ASSUME Inv, Inv', \A n \in Nodes : LifeInv(n) /\ Handles(n), KeyInv, RightsInv, \A n \in Nodes : ClaimFacts(n), [Next]_vars,
           NEW k \in Nodes, EtcdLock(k)
    PROVE  RightsInv' /\ \A n \in Nodes : ClaimFacts(n)'
<1>1. /\ TypeInv /\ gate \in [Nodes -> Gate] /\ gate[k] \in Gate /\ rev \in Nat /\ granted \in Nat
      /\ key \in Key
  BY DEF Inv, TypeInv, TypeOK
<1>2. UNCHANGED <<granted, revoked, doc, writer, late, view, lock, cache, row, ent>> /\ gate[k].pc = "lock"
  BY DEF EtcdLock, Waiting, mongo
<1>3. \A n \in Nodes : n # k => gate'[n] = gate[n]
  BY <1>1 DEF EtcdLock
<1>4. gate'[k].pc = gate[k].pc /\ gate'[k].handle = gate[k].handle /\ gate'[k].lease = gate[k].lease
  BY <1>1 DEF EtcdLock, Gate
<1>5. \A n \in Nodes : ClaimFacts(n)'
  BY <1>2, <1>3, <1>4, ClaimsStay, ValidStays
<1>6. \A n \in Nodes : \A l : Uses(n, l)' <=> Uses(n, l)
  BY <1>2, <1>3, <1>4 DEF Uses
<1>7. \A n \in Nodes : \A f : Fences(n, f)' => Fences(n, f) \/ (n = k /\ f = gate'[k].fence)
  BY <1>2, <1>3, <1>4 DEF Fences
<1>8. Uses(k, gate[k].lease) /\ gate[k].lease \in Leases
  <2>1. gate[k].lease # 0 /\ gate[k].lease \in 0 .. MaxLease
    BY <1>1, <1>2 DEF KeyInv, KeyFacts, Gate
  <2> QED BY <1>2, <2>1 DEF Uses, Leases
<1>9. CASE CanCreate(gate[k].lease)
  <2>1. key' = [lease |-> gate[k].lease, rev |-> rev + 1] /\ rev' = rev + 1
    BY <1>9 DEF EtcdLock, CanCreate, CreateKey
  <2>2. gate'[k].fence = rev + 1 /\ key'.rev = rev + 1 /\ key'.lease = gate[k].lease
    BY <1>1, <1>9, <2>1 DEF EtcdLock, Gate
  <2>3. gate[k].lease <= granted
    BY <1>8 DEF KeyInv, Given
  <2>4. \A n \in Nodes : \A f : Fences(n, f)' => f <= rev'
    <3> SUFFICES ASSUME NEW n \in Nodes, NEW f, Fences(n, f)' PROVE f <= rev'
      OBVIOUS
    <3>1. CASE f = rev + 1
      BY <1>1, <2>1, <3>1
    <3>2. CASE f # rev + 1
      <4>1. Fences(n, f) /\ f <= rev /\ f \in Nat
        <5>1. Fences(n, f)
          BY <1>7, <2>2, <3>2
        <5>2. f \in Nat
          BY <1>1, <5>1, FencesAreNat
        <5> QED BY <5>1, <5>2 DEF RightsInv
      <4> QED BY <1>1, <2>1, <4>1
    <3> QED BY <3>1, <3>2
  <2>5. ASSUME NEW n \in Nodes, NEW m \in Nodes, NEW f, NEW l, f = key'.rev, l = key'.lease, Fences(n, f)', Uses(m, l)'
        PROVE  n = m
    <3>1. ~Fences(n, f)
      BY <1>1, <2>2, <2>5 DEF RightsInv
    <3>2. n = k
      BY <1>7, <2>5, <3>1
    <3>3. m = k
      BY <1>6, <1>8, <2>2, <2>5 DEF KeyInv, Apart
    <3> QED BY <3>2, <3>3
  <2>6. ASSUME NEW n \in Nodes, NEW m \in Nodes, Fences(n, key.rev)', Uses(m, key.lease)' PROVE n = m
    BY <2>5, <2>6 DEF Fences, Uses
  <2>7. doc'.fence <= rev' /\ (~doc'.exists => doc'.fence = 0)
    BY <1>1, <1>2, <2>1 DEF RightsInv, Inv, TypeInv, TypeOK, Doc
  <2> QED BY <1>2, <1>5, <2>1, <2>2, <2>3, <2>4, <2>6, <2>7 DEF RightsInv
<1>10. CASE ~CanCreate(gate[k].lease)
  <2>1. UNCHANGED <<key, rev>>
    BY <1>10 DEF EtcdLock
  <2>2. \/ gate'[k].fence = gate[k].fence
        \/ key # NoKey /\ key.lease = gate[k].lease /\ gate'[k].fence = key.rev
    BY <1>1, <1>10 DEF EtcdLock, Gate
  <2>3. \A n \in Nodes : \A f : Fences(n, f)' =>
           Fences(n, f) \/ (n = k /\ f = key.rev /\ key # NoKey /\ Uses(k, key.lease))
    <3>1. CASE gate'[k].fence = gate[k].fence
      BY <1>2, <1>3, <1>4, <3>1 DEF Fences
    <3>2. CASE key # NoKey /\ key.lease = gate[k].lease /\ gate'[k].fence = key.rev
      BY <1>7, <1>8, <3>2
    <3> QED BY <2>2, <3>1, <3>2
  <2>4. \A n \in Nodes : \A f : Fences(n, f)' => f <= rev'
    BY <2>1, <2>3 DEF RightsInv, KeyInv
  <2>5. ASSUME key # NoKey, NEW n \in Nodes, NEW m \in Nodes, NEW f, NEW l, f = key.rev, l = key.lease, Fences(n, f)', Uses(m, l)'
        PROVE  n = m
    <3>1. l \in Leases /\ Uses(m, l)
      BY <1>1, <1>6, <2>5 DEF Key
    <3>2. CASE Fences(n, f)
      BY <2>5, <3>1, <3>2 DEF RightsInv
    <3>3. CASE n = k /\ Uses(k, l)
      BY <3>1, <3>3 DEF KeyInv, Apart
    <3> QED BY <2>3, <2>5, <3>2, <3>3
  <2>6. ASSUME key # NoKey, NEW n \in Nodes, NEW m \in Nodes, Fences(n, key.rev)', Uses(m, key.lease)' PROVE n = m
    BY <2>1, <2>5, <2>6 DEF Fences, Uses
  <2>7. key' # NoKey => key'.rev = rev' /\ key'.lease <= granted'
    BY <1>2, <2>1 DEF RightsInv
  <2>8. doc'.fence <= rev' /\ (~doc'.exists => doc'.fence = 0)
    BY <1>2, <2>1 DEF RightsInv
  <2> QED BY <1>5, <2>1, <2>4, <2>6, <2>7, <2>8 DEF RightsInv
<1> QED BY <1>9, <1>10

LEMMA WroteLate ==
    ASSUME NEW n, late' = late \cup {WriteOf(n)}
    PROVE  \A k \in Nodes : \A w \in late' : w \in late \/ (w.node = n /\ w.fence = row[n].handle.fence)
BY DEF WriteOf, SaveOf

LEMMA FailClaims ==
    ASSUME Inv, Inv', \A n \in Nodes : LifeInv(n) /\ Handles(n), KeyInv, RightsInv, \A n \in Nodes : ClaimFacts(n), [Next]_vars,
           NEW k \in Nodes, MongoFails(k) \/ Crash(k)
    PROVE  RightsInv' /\ \A n \in Nodes : ClaimFacts(n)'
<1>1. /\ TypeInv /\ gate \in [Nodes -> Gate] /\ row \in [Nodes -> Row] /\ row[k] \in Row /\ lock \in [Nodes -> Handle0]
      /\ cache \in [Nodes -> Cache] /\ ent \in [Nodes -> Ent]
  BY DEF Inv, TypeInv, TypeOK
<1>2. UNCHANGED <<doc, writer, rev, key, revoked>>
  BY DEF MongoFails, Crash, etcd
<1>3. late' = late \/ late' = late \cup {WriteOf(k)}
  BY DEF MongoFails, Crash, LeavesLate
<1>4. ASSUME NEW n \in Nodes, n # k PROVE SameLife(n) /\ cache'[n] = cache[n] /\ row'[n] = row[n]
  BY <1>1, <1>4, OthersLive DEF Does, Fails
<1>5. \A n \in Nodes : \A f : (\E w \in late' : w.node = n /\ w.fence = f) => Fences(n, f)
  <2>1. \A w \in late' : w \in late \/ (w.node = k /\ w.fence = row[k].handle.fence)
    BY <1>3, WroteLate
  <2> QED BY <2>1 DEF Fences
<1>6. ASSUME NEW n \in Nodes, n # k PROVE ClaimFacts(n)' /\ \A f : Fences(n, f)' => f = 0 \/ Fences(n, f)
  <2>1. \A h : Valid(n, h)' => Valid(n, h)
    BY <1>4, <1>6, ValidStays DEF SameLife
  <2>2. ClaimFacts(n)'
    BY <1>2, <1>4, <1>6, <2>1, ClaimsStay DEF SameLife
  <2>3. \A f : Fences(n, f)' => Fences(n, f)
    BY <1>4, <1>5, <1>6 DEF SameLife, Fences
  <2> QED BY <2>2, <2>3
<1>7. CASE MongoFails(k)
  <2>1. UNCHANGED <<view, lock, cache, ent, gate>>
    BY <1>7 DEF MongoFails
  <2>2. row'[k].by = row[k].by /\ row'[k].handle = row[k].handle /\ row'[k].reply = "failed"
    BY <1>1, <1>7 DEF MongoFails, Row
  <2>3. ClaimFacts(k)'
    BY <1>2, <2>1, <2>2 DEF ClaimFacts, Under, Valid
  <2>4. \A f : Fences(k, f)' => Fences(k, f)
    BY <1>5, <2>1, <2>2 DEF Fences
  <2> QED BY <1>2, <1>6, <2>3, <2>4, StepUses, RightsByParts DEF RightsInv
<1>8. CASE Crash(k)
  <2>1. /\ lock'[k] = NoHandle /\ row'[k] = FreeRow /\ ent'[k].handle = NoHandle /\ cache'[k].handle = NoHandle
        /\ gate'[k].handle = NoHandle /\ gate'[k].fence = 0
    BY <1>1, <1>8 DEF Crash, DropCache, FreeTheRow, Forget, EndGate, NoCache, NoEnt, Idle
  <2>2. FreeRow.handle = NoHandle /\ FreeRow.by = "none" /\ FreeRow.op = "none" /\ NoHandle.fence = 0
    BY DEF FreeRow, NoHandle
  <2>3. ClaimFacts(k)'
    BY <2>1, <2>2 DEF ClaimFacts, Under, Valid
  <2>4. \A f : Fences(k, f)' => f = 0 \/ Fences(k, f)
    BY <1>5, <2>1, <2>2 DEF Fences
  <2> QED BY <1>2, <1>6, <2>3, <2>4, StepUses, RightsByParts DEF RightsInv
<1> QED BY <1>7, <1>8

LEMMA LeaseClaims ==
    ASSUME Inv, NEW k \in Nodes, Handles(k), ClaimFacts(k), Lease(k)
    PROVE  ClaimFacts(k)' /\ (\A f : Fences(k, f)' => f = 0 \/ Fences(k, f)) /\ UNCHANGED <<doc, writer, late, rev, key, revoked>>
<1>1. /\ lock \in [Nodes -> Handle0] /\ ent \in [Nodes -> Ent]
  BY DEF Inv, TypeInv, TypeOK
<1>2. UNCHANGED <<doc, writer, late, rev, key, revoked, cache, row, gate>>
  BY DEF Lease, LoseLease, Resurrect, NewLease, etcd, mongo
<1>3. lock'[k] = NoHandle
  <2>1. CASE LoseLease(k)
    BY <1>1, <2>1 DEF LoseLease
  <2>2. CASE Resurrect(k) \/ NewLease(k)
    <3>1. ~view[k].valid /\ UNCHANGED lock
      BY <2>2 DEF Resurrect, NewLease
    <3> QED BY <3>1 DEF Handles, LockFacts
  <2> QED BY <2>1, <2>2 DEF Lease
<1>4. ent'[k].handle = ent[k].handle
  BY <1>1 DEF Lease, LoseLease, Resurrect, NewLease, OnLockExpired, Ent
<1>5. \A h : ~Valid(k, h)'
  BY <1>3 DEF Valid
<1>6. ClaimFacts(k)'
  BY <1>2, <1>5, ClaimsStay
<1>7. \A f : Fences(k, f)' => f = 0 \/ Fences(k, f)
  <2>1. NoHandle.fence = 0
    BY DEF NoHandle
  <2> QED BY <1>2, <1>3, <1>4, <2>1 DEF Fences
<1> QED BY <1>2, <1>6, <1>7

(* MongoDB executes a request: of a node that waits for it, or that has not *)
(* waited.                                                                  *)
LEMMA DocClaims ==
    ASSUME Inv, Inv', \A n \in Nodes : LifeInv(n) /\ Handles(n), KeyInv, RightsInv, \A n \in Nodes : ClaimFacts(n), [Next]_vars,
           NEW k \in Nodes, NEW f, DocStep(k, f), Fences(k, f),
           UNCHANGED <<etcd, view, lock, cache, ent, gate>>, late' \subseteq late,
           \A n \in Nodes : row'[n] = row[n] \/ RowAnswer(n)
    PROVE  RightsInv' /\ \A n \in Nodes : ClaimFacts(n)'
<1>1. doc' \in Doc /\ doc.fence \in Nat /\ rev \in Nat
  BY DEF Inv, TypeInv, TypeOK, Doc
<1>2. \A n \in Nodes : ClaimFacts(n)'
  BY <1>1, ClaimsMove DEF etcd
<1>3. UNCHANGED <<rev, key, granted>>
  BY DEF etcd
<1>4. ASSUME NEW n \in Nodes PROVE \A g : Fences(n, g)' => g = 0 \/ Fences(n, g)
  <2>1. row'[n].handle = row[n].handle
    BY DEF RowAnswer
  <2> QED BY <2>1 DEF Fences
<1>5. doc'.fence <= rev' /\ (~doc'.exists => doc'.fence = 0)
  <2>1. f <= rev /\ doc.fence <= rev /\ (~doc.exists => doc.fence = 0)
    BY DEF RightsInv
  <2> QED BY <1>3, <2>1 DEF DocStep
<1> QED BY <1>2, <1>3, <1>4, <1>5, StepUses, RightsByParts

(* A late request that creates a key: it has nobody's fence. *)
LEMMA StrayClaims ==
    ASSUME Inv, Inv', KeyInv, RightsInv, \A n \in Nodes : ClaimFacts(n), NEW q \in stray, EtcdStray(q),
           ~(UNCHANGED rev /\ key' \in {key, NoKey})
    PROVE  RightsInv' /\ \A n \in Nodes : ClaimFacts(n)'
<1>1. /\ q.op # "unlock" /\ q.arg \in alive /\ rev' = rev + 1 /\ key' = [lease |-> q.arg, rev |-> rev + 1]
      /\ UNCHANGED revoked
  BY DEF EtcdStray, DeleteKey, CanCreate, CreateKey
<1>2. UNCHANGED <<granted, doc, writer, late, view, lock, cache, row, ent, gate>>
  BY DEF EtcdStray, mongo
<1>3. \A n \in Nodes : ClaimFacts(n)'
  BY <1>1, <1>2, ClaimsStay, ValidStays
<1>4. key'.rev = rev + 1 /\ key'.lease <= granted /\ rev \in Nat
  BY <1>1 DEF KeyInv, AliveGranted, Inv, TypeInv, TypeOK
<1>5. \A n \in Nodes : \A f : Fences(n, f)' <=> Fences(n, f)
  BY <1>2 DEF Fences
<1>6. ASSUME NEW n \in Nodes, NEW f, Fences(n, f) PROVE f \in Nat /\ f <= rev
  <2>1. f \in Nat
    BY <1>6, FencesAreNat DEF Inv
  <2> QED BY <1>6, <2>1 DEF RightsInv
<1>7. \A n \in Nodes : \A f : Fences(n, f)' => f <= rev' /\ f # key'.rev
  BY <1>1, <1>4, <1>5, <1>6
<1>8. \A n \in Nodes : ~Fences(n, key.rev)'
  <2>1. ASSUME NEW n \in Nodes, NEW f, f = key'.rev PROVE ~Fences(n, f)'
    BY <1>7, <2>1
  <2>2. ASSUME NEW n \in Nodes, Fences(n, key.rev)' PROVE FALSE
    BY <2>1, <2>2 DEF Fences
  <2> QED BY <2>2
<1>9. doc'.fence <= rev' /\ (~doc'.exists => doc'.fence = 0)
  BY <1>1, <1>2 DEF RightsInv, Inv, TypeInv, TypeOK, Doc
<1> QED BY <1>1, <1>2, <1>3, <1>4, <1>7, <1>8, <1>9 DEF RightsInv

LEMMA StepClaims ==
    ASSUME Inv, Inv', \A n \in Nodes : LifeInv(n) /\ Handles(n), KeyInv, RightsInv,
           \A n \in Nodes : ClaimFacts(n), [Next]_vars
    PROVE  RightsInv' /\ \A n \in Nodes : ClaimFacts(n)'
<1> DEFINE Goal == RightsInv' /\ \A n \in Nodes : ClaimFacts(n)'
<1>1. /\ TypeInv /\ gate \in [Nodes -> Gate] /\ row \in [Nodes -> Row] /\ late \subseteq Writes
  BY DEF Inv, TypeInv, TypeOK
<1>2. ASSUME NEW k \in Nodes, EtcdUnlock(k) \/ EtcdFails(k) \/ EtcdRetries(k) PROVE Goal
  <2>1. UNCHANGED <<doc, writer, late, rev, revoked, view, lock, cache, row, ent>> /\ key' \in {key, NoKey}
    BY <1>2 DEF EtcdUnlock, EtcdFails, EtcdRetries, DeleteKey, mongo
  <2>2. gate'[k].pc = gate[k].pc /\ gate'[k].handle = gate[k].handle /\ gate'[k].fence \in {0, gate[k].fence}
    BY <1>1, <1>2 DEF EtcdUnlock, EtcdFails, EtcdRetries, Gate
  <2>3. ClaimFacts(k)'
    BY <2>1, <2>2, ClaimsStay, ValidStays
  <2>4. \A f : Fences(k, f)' => f = 0 \/ Fences(k, f)
    BY <2>1, <2>2, FencesStay
  <2> QED BY <1>2, <2>1, <2>3, <2>4, LocalClaims DEF Does, Answers, Fails
<1>3. ASSUME NEW k \in Nodes, MongoClaim(k) \/ MongoResolve(k) \/ MongoSave(k) PROVE Goal
  <2>1. /\ DocStep(k, row[k].handle.fence) /\ RowAnswer(k)
        /\ UNCHANGED <<etcd, late, view, lock, cache, ent, gate>> /\ \A n \in Nodes : n # k => row'[n] = row[n]
    BY <1>3, MongoAnswers
  <2>2. Fences(k, row[k].handle.fence)
    BY DEF Fences
  <2> QED BY <2>1, <2>2, DocClaims
<1>4. ASSUME NEW k \in Nodes, Loads(k) \/ Serves(k) \/ Starts(k) \/ Leaves(k) \/ \E m \in Mutations : Mutate(k, m) PROVE Goal
  <2>1. UNCHANGED <<etcd, mongo, view>>
    <3>1. CASE Loads(k)
      BY <3>1 DEF Loads, LockReturns, LoadBegins, LoadReturns, InitReturns
    <3>2. CASE Serves(k) \/ Starts(k) \/ \E m \in Mutations : Mutate(k, m)
      BY <3>2 DEF Serves, HandlerReturns, SaveReturns, Starts, Serve, StartLoad, HandlerSaves, SweepSaves, Unload, Mutate
    <3>3. CASE Leaves(k)
      BY <3>3 DEF Leaves, HooksReturn, FlushBegins, FlushReturns, Discard, RecoverBegins, RecoverClaimed, RecoverSaved, UnlockReturns
    <3> QED BY <1>4, <3>1, <3>2, <3>3
  <2>2. UNCHANGED <<doc, writer, late, rev, key, revoked, view>>
    BY <2>1 DEF etcd, mongo
  <2>3. ClaimFacts(k)' /\ \A f : Fences(k, f)' => f = 0 \/ Fences(k, f)
    <3>1. CASE Loads(k)
      <4>1. CASE LockReturns(k) /\ LockAccepted(k)
        BY <4>1, AcceptFacts
      <4>2. CASE ~(LockReturns(k) /\ LockAccepted(k))
        BY <2>2, <3>1, <4>2, LoadsPass, PassFacts
      <4> QED BY <4>1, <4>2
    <3>2. CASE Serves(k) \/ Starts(k) \/ \E m \in Mutations : Mutate(k, m)
      BY <2>2, <3>2, ServesPass, PassFacts
    <3>3. CASE Leaves(k)
      BY <2>2, <3>3, LeavesPass, PassFacts
    <3> QED BY <1>4, <3>1, <3>2, <3>3
  <2> QED BY <1>4, <2>2, <2>3, LocalClaims DEF Does
<1>5. ASSUME NEW k \in Nodes, Lease(k) PROVE Goal
  BY <1>5, LeaseClaims, LocalClaims DEF Does
<1>6. ASSUME UNCHANGED <<doc, writer, late, rev, view, lock, cache, row, ent, gate>>, key' \in {key, NoKey},
             revoked \subseteq revoked'
      PROVE  Goal
  <2>1. \A n \in Nodes : ClaimFacts(n)' /\ \A f : Fences(n, f)' => f = 0 \/ Fences(n, f)
    BY <1>6, ClaimsStay, ValidStays, FencesStay
  <2> QED BY <1>6, <2>1, StepUses, RightsByParts DEF RightsInv
<1>7. ASSUME NEW l \in Leases, ExpireLease(l) PROVE Goal
  BY <1>6, <1>7 DEF ExpireLease, mongo
<1>8. ASSUME NEW w \in late, LateWrite(w) PROVE Goal
  <2>1. w.node \in Nodes /\ w.fence \in Revs
    BY <1>1 DEF Writes
  <2>2. UNCHANGED <<etcd, view, lock, cache, row, ent, gate>> /\ late' \subseteq late
    BY <1>8 DEF LateWrite
  <2>3. DocStep(w.node, w.fence)
    BY <1>8, <2>1, DocParts DEF LateWrite
  <2>4. Fences(w.node, w.fence)
    BY DEF Fences
  <2> QED BY <2>1, <2>2, <2>3, <2>4, DocClaims
<1>9. ASSUME UNCHANGED vars PROVE Goal
  BY <1>6, <1>9 DEF vars, etcd, mongo
<1>10. ASSUME NEW q \in stray, EtcdStray(q) PROVE Goal
  <2>1. UNCHANGED <<doc, writer, late, view, lock, cache, row, ent, gate>> /\ revoked \subseteq revoked'
    BY <1>10 DEF EtcdStray, mongo
  <2>2. CASE UNCHANGED rev /\ key' \in {key, NoKey}
    BY <1>6, <2>1, <2>2
  <2>3. CASE ~(UNCHANGED rev /\ key' \in {key, NoKey})
    BY <1>10, <2>3, StrayClaims
  <2> QED BY <2>2, <2>3
<1> HIDE DEF Goal
<1>11. ASSUME NEW k \in Nodes, Does(k) PROVE Goal
  <2>1. EtcdLock(k) \/ MongoFails(k) \/ Crash(k) => Goal
    BY LockClaims, FailClaims DEF Goal
  <2> QED BY <1>2, <1>3, <1>4, <1>5, <1>11, <2>1 DEF Does, Answers, Fails
<1>12. (\E k \in Nodes : Does(k)) \/ (\E l \in Leases : ExpireLease(l)) \/ (\E q \in stray : EtcdStray(q))
       \/ (\E w \in late : LateWrite(w)) \/ UNCHANGED vars
  <2> HIDE DEF Inv, TypeInv, vars
  <2>1. CASE Next
    BY <2>1 DEF Next, Does
  <2> QED BY <2>1
<1>13. Goal
  BY <1>7, <1>8, <1>9, <1>10, <1>11, <1>12
<1> QED BY <1>13 DEF Goal

(* Not overtaken: while a node finds its handle for the cached document      *)
(* valid, nobody else writes the document, so that its version is the cached *)
(* one or one more by a write of its own, unless a late unlock has deleted   *)
(* the key of that handle (claim_with_fence, save_doc).                     *)
THEOREM NotOvertakenAlways == Spec => []NotOvertaken
<1> DEFINE Kept == Inv /\ KeyInv /\ \A n \in Nodes : LifeInv(n) /\ Handles(n)
           Claimed == RightsInv /\ \A n \in Nodes : ClaimFacts(n)
<1>1. Spec => []Kept
  BY KeyHolds
<1>2. ASSUME Init PROVE Claimed
  <2>1. key = NoKey /\ rev = 0 /\ doc.fence = 0 /\ late = {}
    BY <1>2 DEF Init
  <2>2. ASSUME NEW n \in Nodes PROVE ClaimFacts(n) /\ \A f : Fences(n, f) => f = 0
    <3>1. /\ row[n] = FreeRow /\ lock[n] = NoHandle /\ cache[n].handle = NoHandle /\ ent[n].handle = NoHandle
          /\ gate[n].handle = NoHandle /\ gate[n].fence = 0
      BY <1>2 DEF Init, NoCache, NoEnt, Idle
    <3>2. FreeRow.handle = NoHandle /\ FreeRow.by = "none" /\ FreeRow.op = "none" /\ NoHandle.fence = 0
      BY DEF FreeRow, NoHandle
    <3> QED BY <2>1, <3>1, <3>2 DEF ClaimFacts, Under, Valid, Fences
  <2> QED BY <2>1, <2>2 DEF RightsInv
<1>3. Kept /\ Kept' /\ Claimed /\ [Next]_vars => Claimed'
  BY StepClaims
<1>4. Kept /\ Claimed => NotOvertaken
  BY DEF ClaimFacts, Under, Owns, Ousted, NotOvertaken
<1> HIDE DEF Kept, Claimed
<1>5. Init => Claimed
  BY <1>2
<1> QED BY <1>1, <1>3, <1>4, <1>5, PTL DEF Spec

-----------------------------------------------------------------------------
(* What a node has not stored.  While a load waits for its claim there is    *)
(* nothing in the cache to lose; a recovery works on a quarantined entity,  *)
(* whose cache nobody changes until its answer comes.                       *)

Recovering(g) == g.pc = "recover" \/ (g.pc \in {"lock", "unlock"} /\ g.for = "recover")

KeepFacts(n) ==
    /\ gate[n].pc = "load" /\ row[n].by = "gate" => cache[n].dirty = {}
    /\ gate[n].pc = "recover" /\ row[n].by = "gate" =>
          /\ cache[n].handle = ent[n].handle
          /\ row[n].op = "save" => cache[n].dirty = row[n].write
    /\ Recovering(gate[n]) => ent[n].invalid

(* What ChangesKept says of a step and a node. *)
Retains(n) ==
    \/ cache[n].dirty \subseteq cache'[n].dirty \cup doc'.content
    \/ DroppedByPolicy(n)
    \/ view[n].lease # 0 /\ view'[n].lease = 0

(* Operations of which KeepFacts says nothing. *)
Clear(g) == g.pc \notin {"load", "recover"} /\ ~Recovering(g)

LEMMA ClearGate == ASSUME NEW n, Clear(gate'[n]) PROVE KeepFacts(n)'
BY DEF Clear, KeepFacts

LEMMA SameCache == ASSUME NEW n, cache'[n].dirty = cache[n].dirty PROVE Retains(n)
BY DEF Retains

LEMMA Quarantined == ASSUME NEW n, Handles(n), ent[n].invalid PROVE ~Valid(n, ent[n].handle)
BY DEF Handles, EntFacts, Valid

LEMMA ClearParts ==
    ASSUME TypeInv, NEW n \in Nodes
    PROVE  /\ EndGate(n) => Clear(gate'[n])
           /\ \A pc, h : To(n, pc, h) /\ pc \notin {"load", "recover", "lock", "unlock"} => Clear(gate'[n])
           /\ \A for : SendLock(n, for) /\ for # "recover" => Clear(gate'[n])
           /\ \A for, h : SendUnlock(n, for, h) /\ for # "recover" => Clear(gate'[n])
           /\ \A e : Release(n, e) => Clear(gate'[n])
           /\ LoadFails(n) => Clear(gate'[n])
           /\ Superseded(n) => Clear(gate'[n])
           /\ DropCache(n) => cache'[n].dirty = {}
<1> USE LifeParts
<1>1. EndGate(n) => Clear(gate'[n])
  BY DEF Clear, Recovering
<1>2. \A pc, h : To(n, pc, h) /\ pc \notin {"load", "recover", "lock", "unlock"} => Clear(gate'[n])
  BY DEF Clear, Recovering
<1>3. \A for : SendLock(n, for) /\ for # "recover" => Clear(gate'[n])
  BY DEF Clear, Recovering
<1>4. \A for, h : SendUnlock(n, for, h) /\ for # "recover" => Clear(gate'[n])
  BY DEF Clear, Recovering
<1>5. \A e : Release(n, e) => Clear(gate'[n])
  BY <1>1, <1>4 DEF Release
<1>6. LoadFails(n) => Clear(gate'[n])
  BY <1>1, <1>4 DEF LoadFails
<1>7. Superseded(n) => Clear(gate'[n])
  BY <1>1, <1>4 DEF Superseded
<1>8. DropCache(n) => cache'[n].dirty = {}
  BY DEF DropCache, NoCache, TypeInv, TypeOK
<1> QED BY <1>1, <1>2, <1>3, <1>4, <1>5, <1>6, <1>7, <1>8

LEMMA UnloadClears ==
    ASSUME TypeInv, NEW n \in Nodes, UnloadEntity(n)
    PROVE  Clear(gate'[n])
<1> DEFINE e == [ent[n] EXCEPT !.unloading = TRUE, !.armed = FALSE]
           pc == IF e.hooked THEN "flush" ELSE "hooks"
<1>1. pc \notin {"load", "recover", "lock", "unlock"}
  OBVIOUS
<1>2. Release(n, e) \/ To(n, "discard", e.handle) \/ To(n, pc, e.handle)
  BY DEF UnloadEntity
<1> HIDE DEF e, pc
<1> QED BY <1>1, <1>2, ClearParts

(* Recovery gives up under no valid handle, and after its last attempt. *)
LEMMA RecoveryRetains ==
    ASSUME TypeInv, NEW n \in Nodes, Handles(n), NEW k \in {ent[n].tries, ent[n].tries + 1},
           ent[n].invalid \/ ~view[n].valid, RecoveryFailed(n, k)
    PROVE  Retains(n)
<1>1. cache \in [Nodes -> Cache] /\ cache[n] \in Cache /\ ent[n].tries \in Nat /\ MaxTries \in Nat
  BY StoreAssumption DEF TypeInv, TypeOK, Ent
<1>2. CASE k >= MaxTries /\ Same(n)
  <2>1. ~Valid(n, cache[n].handle)
    BY <1>2, Quarantined DEF Same, Valid
  <2>2. ent[n].tries >= MaxTries \/ ent[n].tries + 1 = MaxTries
    BY <1>1, <1>2
  <2> QED BY <2>1, <2>2 DEF Retains, DroppedByPolicy
<1>3. CASE k >= MaxTries /\ ~Same(n)
  BY <1>3, SameCache DEF RecoveryFailed
<1>4. CASE ~(k >= MaxTries)
  <2>1. cache'[n].dirty = cache[n].dirty
    BY <1>1, <1>4 DEF RecoveryFailed, Cache
  <2> QED BY <2>1, SameCache
<1> QED BY <1>2, <1>3, <1>4

(* A save that is reported stored: what it wrote is in the document. *)
LEMMA SavedIsStored ==
    ASSUME Inv, NEW n \in Nodes, Saved(n), row[n].op = "save", UNCHANGED doc
    PROVE  row[n].write \subseteq doc'.content
<1>1. row[n].write \subseteq doc.content
  BY DEF Saved, Inv, StoreInv, NodeInv, RowInv, Snapshot
<1> QED BY <1>1

LEMMA AckedRetains ==
    ASSUME Inv, NEW n \in Nodes, Saved(n), row[n].op = "save", UNCHANGED doc,
           cache'[n].dirty = Acked(n).dirty \/ Acked(n).dirty = {}
    PROVE  Retains(n)
<1>1. cache[n] \in Cache
  BY DEF Inv, TypeInv, TypeOK
<1>2. Acked(n).dirty = IF cache[n].dirty = row[n].write THEN {} ELSE cache[n].dirty
  BY <1>1 DEF Acked, Cache
<1>3. row[n].write \subseteq doc'.content
  BY SavedIsStored
<1>4. CASE cache[n].dirty = row[n].write
  BY <1>3, <1>4 DEF Retains
<1>5. CASE cache[n].dirty # row[n].write
  BY <1>2, <1>5 DEF Retains
<1> QED BY <1>4, <1>5

LEMMA LoadsRetain ==
    ASSUME Inv, NEW n \in Nodes, Handles(n), KeepFacts(n), Loads(n)
    PROVE  KeepFacts(n)' /\ Retains(n)
<1>1. TypeInv /\ NodeInv(n)
  BY DEF Inv, StoreInv
<1> USE ClearParts, LifeParts
<1>2. CASE LockReturns(n)
  <2>1. gate[n].for \in {"load", "recover"} /\ gate[n].pc = "lock" /\ UNCHANGED row
    BY <1>1, <1>2 DEF LockReturns, TypeInv, GateOK
  <2>2. row[n].by # "gate"
    BY <1>1, <2>1, NodeFacts DEF Requests
  <2>3. gate[n].for = "recover" => ent[n].invalid
    BY <2>1 DEF KeepFacts, Recovering
  <2>4. CASE LockAccepted(n)
    <3>1. gate'[n].pc = gate[n].for /\ UNCHANGED <<cache, ent>>
      BY <1>1, <1>2, <2>4 DEF LockReturns
    <3>2. KeepFacts(n)'
      BY <2>1, <2>2, <2>3, <3>1 DEF KeepFacts, Recovering
    <3> QED BY <3>1, <3>2, SameCache
  <2>5. CASE ~LockAccepted(n)
    <3>1. KeepFacts(n)'
      BY <1>1, <1>2, <2>5, ClearGate DEF LockReturns
    <3>2. Retains(n)
      BY <1>1, <1>2, <2>3, <2>5, RecoveryRetains, SameCache DEF LockReturns
    <3> QED BY <3>1, <3>2
  <2> QED BY <2>4, <2>5
<1>3. CASE LoadBegins(n)
  <2>1. gate[n].pc = "load"
    BY <1>3 DEF LoadBegins
  <2>2. CASE UNCHANGED cache /\ (LoadFails(n) \/ Enter(n))
    <3>1. Clear(gate'[n])
      BY <1>1, <2>2 DEF Enter
    <3> QED BY <2>2, <3>1, ClearGate, SameCache
  <2>3. CASE DropCache(n) /\ ~Dirty(n) /\ UNCHANGED <<ent, gate>>
    <3>1. cache'[n].dirty = {} /\ cache[n].dirty = {}
      BY <1>1, <2>3 DEF Dirty
    <3>2. KeepFacts(n)'
      BY <2>1, <2>3, <3>1 DEF KeepFacts, Recovering
    <3> QED BY <3>1, <3>2, SameCache
  <2> QED BY <1>3, <2>2, <2>3 DEF LoadBegins
<1>4. CASE LoadReturns(n)
  <2>1. Clear(gate'[n])
    BY <1>1, <1>4 DEF LoadReturns, Enter
  <2>2. cache[n].dirty = {}
    BY <1>4 DEF LoadReturns, Answered, KeepFacts
  <2>3. Retains(n)
    BY <2>2 DEF Retains
  <2> QED BY <2>1, <2>3, ClearGate
<1>5. CASE InitReturns(n)
  <2>1. Clear(gate'[n]) /\ UNCHANGED cache
    BY <1>1, <1>5, UnloadClears DEF InitReturns
  <2> QED BY <2>1, ClearGate, SameCache
<1> QED BY <1>2, <1>3, <1>4, <1>5 DEF Loads

LEMMA ServesRetain ==
    ASSUME Inv, NEW n \in Nodes, KeepFacts(n), Serves(n) \/ Starts(n)
    PROVE  KeepFacts(n)' /\ Retains(n)
<1>1. TypeInv /\ NodeInv(n) /\ gate \in [Nodes -> Gate] /\ gate[n] \in Gate
  BY DEF Inv, StoreInv, TypeInv, TypeOK
<1> USE ClearParts, LifeParts
<1>2. ASSUME row'[n].by # "gate", UNCHANGED <<ent, gate>> PROVE KeepFacts(n)'
  BY <1>2 DEF KeepFacts
<1>3. CASE HandlerReturns(n)
  BY <1>1, <1>3, ClearGate, SameCache DEF HandlerReturns
<1>4. CASE SaveReturns(n)
  <2>1. row[n].op = "save" /\ UNCHANGED <<doc, ent>>
    BY <1>1, <1>4 DEF SaveReturns, Answered, NodeInv, FlowInv, Requests, mongo
  <2>2. Retains(n)
    <3>1. CASE Saved(n)
      <4>1. cache'[n] = Acked(n)
        BY <1>4, <3>1 DEF SaveReturns, Inv, TypeInv, TypeOK
      <4> QED BY <2>1, <3>1, <4>1, AckedRetains
    <3>2. CASE ~Saved(n)
      BY <1>4, <3>2, SameCache DEF SaveReturns
    <3> QED BY <3>1, <3>2
  <2>3. KeepFacts(n)'
    <3>1. CASE row[n].by = "gate"
      <4>1. gate'[n].pc = "handler"
        BY <1>1, <1>4, <3>1 DEF SaveReturns, Gate
      <4> QED BY <4>1, ClearGate DEF Clear, Recovering
    <3>2. CASE row[n].by # "gate"
      <4>1. row'[n].by # "gate" /\ UNCHANGED gate
        BY <1>1, <1>4, <3>2, GateParts DEF SaveReturns
      <4> QED BY <1>2, <2>1, <4>1
    <3> QED BY <3>1, <3>2
  <2> QED BY <2>2, <2>3
<1>5. CASE Serve(n)
  BY <1>1, <1>5, ClearGate, SameCache DEF Serve
<1>6. CASE StartLoad(n)
  <2>1. row[n].by # "gate" /\ UNCHANGED <<row, cache>>
    BY <1>1, <1>6, NodeFacts DEF StartLoad, Requests
  <2>2. gate'[n].pc = "load" \/ Clear(gate'[n])
    BY <1>1, <1>6 DEF StartLoad
  <2>3. KeepFacts(n)'
    BY <2>1, <2>2, ClearGate DEF KeepFacts, Recovering
  <2> QED BY <2>1, <2>3, SameCache
<1>7. CASE HandlerSaves(n)
  <2>1. gate'[n].pc = "save" /\ UNCHANGED cache
    BY <1>1, <1>7 DEF HandlerSaves, Gate
  <2> QED BY <2>1, ClearGate, SameCache DEF Clear, Recovering
<1>8. CASE SweepSaves(n)
  <2>1. row'[n].by # "gate" /\ UNCHANGED <<ent, gate, cache>>
    BY <1>1, <1>8, SendEffects DEF SweepSaves
  <2> QED BY <1>2, <2>1, SameCache
<1>9. CASE Unload(n)
  BY <1>1, <1>9, UnloadClears, ClearGate, SameCache DEF Unload
<1> QED BY <1>3, <1>4, <1>5, <1>6, <1>7, <1>8, <1>9 DEF Serves, Starts

LEMMA LeavesRetain ==
    ASSUME Inv, NEW n \in Nodes, Handles(n), KeepFacts(n), Leaves(n)
    PROVE  KeepFacts(n)' /\ Retains(n)
<1>1. /\ TypeInv /\ NodeInv(n) /\ gate \in [Nodes -> Gate] /\ cache \in [Nodes -> Cache] /\ cache[n] \in Cache
      /\ ent \in [Nodes -> Ent] /\ ent[n] \in Ent /\ row \in [Nodes -> Row]
  BY DEF Inv, StoreInv, TypeInv, TypeOK
<1>2. UNCHANGED doc
  BY DEF Leaves, HooksReturn, FlushBegins, FlushReturns, Discard, RecoverBegins, RecoverClaimed,
         RecoverSaved, UnlockReturns, mongo
<1> USE ClearParts, LifeParts
<1>3. ASSUME ~Dirty(n) PROVE Retains(n)
  BY <1>3 DEF Dirty, Retains
<1>4. Persisted(n) \/ Abort(n) \/ Recovered(n) => Clear(gate'[n])
  BY <1>1 DEF Persisted, Abort, Recovered
<1>5. ASSUME gate[n].pc = "recover", RecoverFails(n) PROVE KeepFacts(n)' /\ Retains(n)
  <2>1. ent[n].invalid
    BY <1>5 DEF KeepFacts, Recovering
  <2>2. CASE Valid(n, gate[n].handle)
    <3>1. UNCHANGED <<cache, ent>> /\ gate'[n].pc = "unlock"
      BY <1>1, <1>5, <2>2 DEF RecoverFails
    <3>2. KeepFacts(n)'
      BY <2>1, <3>1 DEF KeepFacts
    <3> QED BY <3>1, <3>2, SameCache
  <2>3. CASE ~Valid(n, gate[n].handle)
    BY <1>1, <1>5, <2>1, <2>3, ClearGate, RecoveryRetains DEF RecoverFails
  <2> QED BY <2>2, <2>3
<1>6. CASE HooksReturn(n)
  <2>1. UNCHANGED cache /\ Clear(gate'[n])
    BY <1>1, <1>6 DEF HooksReturn
  <2> QED BY <2>1, ClearGate, SameCache
<1>7. CASE FlushBegins(n)
  <2>1. Clear(gate'[n])
    BY <1>1, <1>4, <1>7 DEF FlushBegins, Clear, Recovering
  <2>2. UNCHANGED cache \/ ~Dirty(n)
    BY <1>7 DEF FlushBegins
  <2> QED BY <1>3, <2>1, <2>2, ClearGate, SameCache
<1>8. CASE FlushReturns(n)
  <2>1. Clear(gate'[n])
    BY <1>1, <1>4, <1>8 DEF FlushReturns
  <2>2. row[n].op = "save"
    BY <1>1, <1>8 DEF FlushReturns, Answered, NodeInv, FlowInv, Requests
  <2>3. CASE ~Saved(n)
    BY <1>8, <2>1, <2>3, ClearGate, SameCache DEF FlushReturns
  <2>4. CASE Saved(n)
    <3>1. Acked(n).dirty = {} \/ cache'[n] = Acked(n)
      BY <1>1, <1>8, <2>4 DEF FlushReturns
    <3> QED BY <1>2, <2>1, <2>2, <2>4, <3>1, ClearGate, AckedRetains
  <2> QED BY <2>3, <2>4
<1>9. CASE Discard(n)
  <2>1. gate[n].pc = "discard" /\ ent[n].invalid /\ UNCHANGED row
    BY <1>9 DEF Discard, Handles, GateFacts
  <2>2. row[n].by # "gate"
    BY <1>1, <2>1, NodeFacts DEF Requests
  <2>3. CASE ~Dirty(n) /\ EndGate(n)
    BY <1>1, <1>3, <2>3, ClearGate
  <2>4. CASE RecoveryFailed(n, ent[n].tries + 1) /\ EndGate(n)
    BY <1>1, <2>1, <2>4, ClearGate, RecoveryRetains
  <2>5. CASE /\ cache' = IF Same(n) THEN [cache EXCEPT ![n].wheel = FALSE] ELSE cache
             /\ ent' = [ent EXCEPT ![n].tries = ent[n].tries + 1]
    <3>1. cache'[n].dirty = cache[n].dirty
      BY <1>1, <2>5 DEF Cache
    <3>2. ent'[n].invalid
      BY <1>1, <2>1, <2>5 DEF Ent
    <3>3. gate'[n].pc \in {"recover", "lock"} \/ Clear(gate'[n])
      BY <1>1, <1>9 DEF Discard
    <3>4. KeepFacts(n)'
      BY <2>1, <2>2, <3>2, <3>3, ClearGate DEF KeepFacts
    <3> QED BY <3>1, <3>4, SameCache
  <2> QED BY <1>9, <2>3, <2>4, <2>5 DEF Discard
<1>10. CASE RecoverBegins(n)
  <2>1. gate[n].pc = "recover" /\ ent[n].invalid
    BY <1>10 DEF RecoverBegins, KeepFacts, Recovering
  <2>2. CASE Superseded(n) /\ UNCHANGED cache
    BY <1>1, <2>2, ClearGate, SameCache
  <2>3. CASE ~Dirty(n) /\ Recovered(n)
    BY <1>3, <1>4, <2>3, ClearGate
  <2>4. CASE cache[n].handle = ent[n].handle /\ SendClaim(n, gate[n].handle) /\ UNCHANGED <<cache, ent, gate>>
    <3>1. row'[n].op = "claim"
      BY <1>1, <2>4, SendEffects
    <3>2. KeepFacts(n)'
      BY <2>1, <2>4, <3>1 DEF KeepFacts
    <3> QED BY <2>4, <3>2, SameCache
  <2> QED BY <1>5, <1>10, <2>1, <2>2, <2>3, <2>4 DEF RecoverBegins
<1>11. CASE RecoverClaimed(n)
  <2>1. /\ gate[n].pc = "recover" /\ row[n].by = "gate" /\ row[n].op # "save" /\ ent[n].invalid
        /\ cache[n].handle = ent[n].handle
    BY <1>11 DEF RecoverClaimed, Answered, KeepFacts, Recovering
  <2>2. row[n].op \in {"claim", "resolve"} /\ ~Valid(n, cache[n].handle)
    BY <1>1, <2>1, Quarantined DEF NodeInv, FlowInv, Requests
  <2>3. CASE row[n].version # cache[n].version /\ Superseded(n)
    <3>1. DroppedByPolicy(n)
      BY <2>2, <2>3 DEF DroppedByPolicy
    <3> QED BY <1>1, <2>3, <3>1, ClearGate DEF Retains
  <2>4. CASE SendSave(n, "gate", gate[n].handle) /\ UNCHANGED <<cache, ent, gate>>
    <3>1. row'[n].write = cache[n].dirty
      BY <1>1, <2>4 DEF SendSave, FreeRow
    <3>2. KeepFacts(n)'
      BY <2>1, <2>4, <3>1 DEF KeepFacts
    <3> QED BY <2>4, <3>2, SameCache
  <2> QED BY <1>5, <1>11, <2>1, <2>3, <2>4 DEF RecoverClaimed
<1>12. CASE RecoverSaved(n)
  <2>1. gate[n].pc = "recover" /\ row[n].op = "save" /\ cache[n].dirty = row[n].write
    BY <1>12 DEF RecoverSaved, Answered, KeepFacts
  <2>2. CASE Saved(n)
    <3>1. cache[n].dirty \subseteq doc'.content
      BY <1>2, <2>1, <2>2, SavedIsStored
    <3> QED BY <1>4, <1>12, <2>2, <3>1, ClearGate DEF RecoverSaved, Retains
  <2> QED BY <1>5, <1>12, <2>1, <2>2 DEF RecoverSaved
<1>13. CASE UnlockReturns(n)
  <2>1. gate[n].pc = "unlock" /\ EndGate(n) /\ gate[n].for \in Fors
    BY <1>1, <1>13, Members DEF UnlockReturns
  <2>2. gate[n].for # "recover" => UNCHANGED cache
    BY <1>13, <2>1 DEF UnlockReturns, Fors
  <2>3. CASE gate[n].for = "recover"
    <3>1. ent[n].invalid /\ RecoveryFailed(n, ent[n].tries)
      BY <1>13, <2>1, <2>3 DEF UnlockReturns, KeepFacts, Recovering
    <3> QED BY <1>1, <2>1, <3>1, ClearGate, RecoveryRetains
  <2> QED BY <1>1, <2>1, <2>2, <2>3, ClearGate, SameCache
<1> QED BY <1>6, <1>7, <1>8, <1>9, <1>10, <1>11, <1>12, <1>13 DEF Leaves

LEMMA ServerRetains ==
    ASSUME Inv, NEW n \in Nodes, KeepFacts(n),
           Lease(n) \/ Answers(n) \/ Fails(n) \/ \E m \in Mutations : Mutate(n, m)
    PROVE  KeepFacts(n)' /\ Retains(n)
<1>1. /\ TypeInv /\ gate \in [Nodes -> Gate] /\ cache \in [Nodes -> Cache] /\ cache[n] \in Cache
      /\ ent \in [Nodes -> Ent] /\ ent[n] \in Ent /\ row \in [Nodes -> Row] /\ gate[n] \in Gate /\ row[n] \in Row
      /\ view \in [Nodes -> [lease : 0 .. MaxLease, valid : BOOLEAN]]
  BY DEF Inv, TypeInv, TypeOK
<1>2. ASSUME UNCHANGED cache, gate'[n].pc = gate[n].pc, gate'[n].for = gate[n].for,
             ent'[n].handle = ent[n].handle, ent[n].invalid => ent'[n].invalid,
             row'[n].by = row[n].by, row'[n].write = row[n].write, row'[n].op = "save" => row[n].op = "save"
      PROVE  KeepFacts(n)' /\ Retains(n)
  <2>1. KeepFacts(n)'
    BY <1>2 DEF KeepFacts, Recovering
  <2> QED BY <1>2, <2>1, SameCache
<1>3. CASE Lease(n)
  <2>1. UNCHANGED <<cache, gate, row>>
    BY <1>3 DEF Lease, LoseLease, Resurrect, NewLease
  <2>2. ent'[n].handle = ent[n].handle /\ (ent[n].invalid => ent'[n].invalid)
    BY <1>1, <1>3 DEF Lease, LoseLease, Resurrect, NewLease, OnLockExpired, Ent
  <2> QED BY <1>2, <2>1, <2>2
<1>4. CASE EtcdLock(n) \/ EtcdUnlock(n) \/ EtcdFails(n) \/ EtcdRetries(n)
  <2>1. UNCHANGED <<cache, row, ent>>
    BY <1>4 DEF EtcdLock, EtcdUnlock, EtcdFails, EtcdRetries
  <2>2. gate'[n].pc = gate[n].pc /\ gate'[n].for = gate[n].for
    BY <1>1, <1>4 DEF EtcdLock, EtcdUnlock, EtcdFails, EtcdRetries, Gate
  <2> QED BY <1>2, <2>1, <2>2
<1>5. CASE MongoClaim(n) \/ MongoResolve(n) \/ MongoSave(n) \/ MongoFails(n)
  <2>1. UNCHANGED <<cache, gate, ent>>
    BY <1>5 DEF MongoClaim, MongoResolve, MongoSave, MongoFails
  <2>2. row'[n].by = row[n].by /\ row'[n].write = row[n].write /\ (row'[n].op = "save" => row[n].op = "save")
    BY <1>1, <1>5 DEF MongoClaim, MongoResolve, MongoSave, MongoFails, Answer, Row
  <2> QED BY <1>2, <2>1, <2>2
<1>6. CASE Crash(n)
  <2>1. Clear(gate'[n])
    BY <1>1, <1>6, ClearParts DEF Crash
  <2>2. view[n].lease # 0 /\ view'[n].lease = 0
    BY <1>1, <1>6 DEF Crash
  <2> QED BY <2>1, <2>2, ClearGate DEF Retains
<1>7. ASSUME NEW m \in Mutations, Mutate(n, m) PROVE KeepFacts(n)' /\ Retains(n)
  <2>1. Clear(gate[n]) /\ UNCHANGED gate
    BY <1>7 DEF Mutate, Clear, Recovering
  <2>2. cache[n].dirty \subseteq cache'[n].dirty
    BY <1>1, <1>7 DEF Mutate, Cache
  <2> QED BY <2>1, <2>2, ClearGate DEF Retains
<1> QED BY <1>3, <1>4, <1>5, <1>6, <1>7 DEF Answers, Fails

LEMMA StepRetains ==
    ASSUME Inv, \A n \in Nodes : Handles(n) /\ KeepFacts(n), [Next]_vars, NEW n \in Nodes
    PROVE  KeepFacts(n)' /\ Retains(n)
<1>1. CASE UNCHANGED <<cache, row, ent, gate>>
  BY <1>1, SameCache DEF KeepFacts
<1>2. ASSUME NEW k \in Nodes, Does(k) PROVE KeepFacts(n)' /\ Retains(n)
  <2>1. CASE k # n
    <3>1. SameLife(n) /\ cache'[n] = cache[n] /\ row'[n] = row[n]
      BY <1>2, <2>1, OthersLive DEF Inv
    <3> QED BY <3>1, SameCache DEF KeepFacts, SameLife
  <2>2. CASE k = n
    BY <1>2, <2>2, LoadsRetain, ServesRetain, LeavesRetain, ServerRetains DEF Does
  <2> QED BY <2>1, <2>2
<1>3. (\E l \in Leases : ExpireLease(l)) \/ (\E q \in stray : EtcdStray(q)) \/ (\E w \in late : LateWrite(w))
      \/ UNCHANGED vars => UNCHANGED <<cache, row, ent, gate>>
  BY DEF ExpireLease, EtcdStray, LateWrite, vars
<1> QED BY <1>1, <1>2, <1>3 DEF Next, Does

(* A change that the document lacks is dropped only when its process dies,   *)
(* or under a handle that is no longer valid: after the last attempt to      *)
(* recover it, or when the claim found that another owner has written.      *)
THEOREM ChangesKeptAlways == Spec => ChangesKept
<1> DEFINE Facts == \A n \in Nodes : LifeInv(n) /\ Handles(n) /\ KeepFacts(n)
           Whole == Inv /\ Facts
<1>1. Init => Whole
  <2> SUFFICES ASSUME Init, NEW n \in Nodes PROVE LifeInv(n) /\ Handles(n) /\ KeepFacts(n)
    BY InitTypes, InitStore DEF Inv
  <2>1. ent[n] = NoEnt /\ gate[n].pc = "idle" /\ lock[n] = NoHandle
    BY DEF Init, Idle
  <2>2. LifeInv(n)
    BY <2>1 DEF LifeInv, Serving, Loading, Leaving, Resting, InMemory
  <2>3. Handles(n)
    BY <2>1 DEF Handles, LockFacts, EntFacts, GateFacts, InMemory, NoEnt
  <2>4. KeepFacts(n)
    BY <2>1 DEF KeepFacts, Recovering
  <2> QED BY <2>2, <2>3, <2>4
<1>2. Whole /\ [Next]_vars => Whole' /\ \A n \in Nodes : Retains(n)
  <2> SUFFICES ASSUME Whole, [Next]_vars PROVE Whole' /\ \A n \in Nodes : Retains(n)
    OBVIOUS
  <2>1. Inv'
    BY StepTypes, StepStore, StepAcked DEF Inv
  <2>2. \A n \in Nodes : LifeInv(n)'
    BY StepLife DEF Inv
  <2>3. \A n \in Nodes : Handles(n)'
    BY StepHandles
  <2>4. \A n \in Nodes : KeepFacts(n)' /\ Retains(n)
    BY StepRetains
  <2> QED BY <2>1, <2>2, <2>3, <2>4
<1>3. Whole /\ [Next]_vars =>
        [\A n \in Nodes : cache[n].dirty \subseteq cache'[n].dirty \cup doc'.content
            \/ DroppedByPolicy(n) \/ (view[n].lease # 0 /\ view'[n].lease = 0)]_vars
  BY <1>2 DEF Retains
<1> HIDE DEF Facts, Whole
<1> QED BY <1>1, <1>2, <1>3, PTL DEF Spec, ChangesKept
=============================================================================
