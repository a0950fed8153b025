# skyext in TLA+

skyext is a game server framework on [skynet](https://github.com/cloudwu/skynet). A cluster of
nodes keeps *entities* (players, guilds, global singletons) in memory, each on at most one node;
an entity's document is stored in MongoDB, who may hold it is decided by a lock in etcd, and
clients talk to it through gateways over sessions that survive lost connections.

This directory holds TLA+ modules of the parts of skyext whose correctness depends on the order
in which things happen, TLC configurations that check them on small instances, and proofs that
TLAPS checks for every value of the constants. PROJECT.json lists components, runs, mutants, the
map from definitions to source lines, findings, hazards and theorems. Paths below are relative to
the repository.

    tlc -workers 2 -config MCEntityStore.cfg MCEntityStore.tla
    tlapm EntityStoreProofs.tla
    tlapm SprotoProofs.tla

## 1. Modules

| Module | What it models | Checked by | Proved in |
|---|---|---|---|
| NodeLease | `service/node_lease.lua`, `lualib/skyext/node_lease.lua` | MCNodeLease | NodeLeaseProofs |
| EntityStore | `distributed_lock.lua`, `dbmgr.lua`, `entity/entitymgr.lua` for one entity on several nodes | MCEntityStore, MCEntityStoreLive, MCEntityStoreUnload | EntityStoreProofs |
| FencedDoc | what the owners make of the document: the specification that EntityStore implements | `ImplementsFencedDoc` of MCEntityStore | `DocumentFenced` |
| ReliableMsg | `entity/reliable_msg.lua`, delivery in `entity/entitymgr.lua`, the wake-up in `entity/router.lua` and `service/entity_agent.lua`, `service/entity_dlq.lua` | MCReliableMsg | ReliableMsgProofs |
| Session | `entity/session.lua`, `service/entity_agent.lua`, the gateways and the client libraries | MCSession, MCSessionReconnect, MCSessionGap, MCSessionRerun | SessionProofs, SessionOrderProofs |
| ClientLink | the coroutines of the TypeScript client: `sdk/ts/src/client.ts`, `session.ts`, `transport.ts` | MCClientLink | ClientLinkProofs |
| Account, SafeJson | `sdk/ts/src/account.ts`, `json.ts` | MCAccount | AccountProofs |
| SprotoPack, Sproto, SprotoWire, SprotoRpc, SprotoNested | `sdk/ts/src/sproto/sproto.ts`, `bin.ts`, `codec.ts` | MCSproto | SprotoProofs (all but SprotoNested) |

NodeLease stands under EntityStore: EntityStore's `view` (what a node believes of its lease) is
allowed to do exactly what `ValidLeaseIsLive`, proved of NodeLease, lets it do. A node whose lease
is valid holds one that etcd keeps; everything else (expiry, late renewals, new leases) is chosen
freely. ReliableMsg in turn stands on EntityStore: a valid owner has the key (but for the late unlock of section 6,
which ReliableMsg leaves out), a write is applied only if the
writer was the last to claim the document and knows what is in it (`NoLostUpdate`, `NotOvertaken`, `OneOwner`), and an
entity that lost its lease either gives its changes up or stores them if nobody has written meanwhile
(`ChangesKept`). Session starts from an entity that is in memory; `Unload` is what EntityStore's unload and
lease loss look like from there. Session and ClientLink share the client: Session has what it counts and repeats,
with the server at the other end; ClientLink has its coroutines, timers and sockets, with answers that are good or
not. SafeJson is the reading of what Account receives. SprotoPack, Sproto and SprotoWire are functions, which
SprotoRpc uses for the packages between two ends; SprotoNested is the content of those packages, which SprotoRpc has as a parameter.

## 2. Inventory of the system

For each component: its state, its operations, who it talks to, what makes it hard, what makes it
correct. "Modelled" names the module.

### Core: leases, locks, documents, entities

**Node lease** (`service/node_lease.lua`, client `lualib/skyext/node_lease.lua`; NodeLease).
State: lease id, deadline, epoch, closed flag; in each client a copy of the first three. Operations:
grant, heartbeat every 10 s, shutdown with revocation; client: subscribe, snapshot, alive and lost
events, `valid()`. Interactions: etcd over HTTP, event channel (multicast), timer. Hard: answers that
come late or not at all, a snapshot that races with events, a grant that races with shutdown.
Correct: a client that finds its lease valid holds one that etcd keeps; no loss goes unnoticed.

**Distributed lock** (`lualib/skyext/distributed_lock.lua`; EntityStore). State: handles per key,
stamped with the lease's epoch and the key's revision, the fence. Operations: `try_lock`, `unlock`,
`is_valid`, `invalidate_all` on lease loss. Hard: a transaction that is executed although its
answer is lost, or later than its sender waits, or at two endpoints; a lease that changes while it is under way.
Correct: at most one holder; the fence of a later holder is larger.

**Document cache and fenced persistence** (`lualib/skyext/dbmgr.lua`; EntityStore, FencedDoc). State:
cached documents with lock handle and version, a lock per row, the save wheel. Operations: load with
fence claim, guarded save, sweep, unload, quarantine, discard, recover. Hard: writes of a former
owner that arrive late; saves that are applied without an answer; a document that changes while its
snapshot is being written; dirty documents whose lock is gone. Correct: no write undoes another; what
was reported stored is stored; unsaved changes are dropped only by the stated policy.

**Entity manager** (`lualib/skyext/entity/entitymgr.lua`; EntityStore). State: entities by id, with
lock handle, flags (invalid, unloading, persisted) and timers, and a queue per entity, its gate.
Operations: load, serve requests, unload with retries, recovery of a dirty document after lease loss,
lock release, timers, delivery of reliable messages (ReliableMsg). Hard: everything in the two previous components
happens inside its operations. Correct: an entity that would serve has its lock; nothing that no
longer serves is left without something that will finish it.

### Clients

**Session, server side** (`lualib/skyext/entity/session.lua`; Session). State: connection records,
and for each entity a `session_io` that outlives connections: credential, count of sent packages, the
acknowledged count, replay buffer, cached responses. Operations: bind, resume, replay, acknowledge,
unbind, kick, push, execute a request once, ping. Hard: packages carry no sequence number, both sides
count, and answers of the login service take another way than packages of the entity. Correct: the
client gets every package once and in order over all its connections; no request is executed twice.

**Session, client side** (`sdk/ts/src/session.ts`, `client.ts`, `transport.ts`, `sdk/lua/skyext/client/session.lua`;
Session, ClientLink). State: connection, credential, count of received packages, requests without an
answer; the coroutines of start, supervisor and heartbeat; the WebSockets. Operations: choose a gate, connect, resume or log
in, request, ping, drop, reconnect with growing delays, close, repetition of requests after a resume. Hard:
requests made at any moment of a reconnect; `close` and close events during every `await`; connections that fall silent.
Correct: no socket is left behind, no dead one is taken for the connection, `close` is final, the client comes back.

**Account client** (`sdk/ts/src/account.ts`, `json.ts`; Account, SafeJson). State: a cursor over the account hosts.
Operations: requests that go from host to host until one answers; sign-in, servers, roles, a new role, online gates. Hard: two
callers move one cursor; ids that a JavaScript number cannot hold. Correct: null means that every host was asked; the
role is the account's, to the digit.

**sproto and codec of the client** (`sdk/ts/src/sproto/sproto.ts`, `codec.ts`, `bin.ts`; SprotoPack, Sproto, SprotoWire,
SprotoRpc, SprotoNested). State: the loaded schema, the types of the responses that are waited for. Operations: load a bundle, encode, decode, pack,
unpack, attach, dispatch, recovery of a package that cannot be decoded. Hard: widths of integers, gaps in tags, ends of
different versions, responses that come twice. Correct: what is delivered is what was meant, and both ends count alike.

**Gateways** (`service/gate_tcp.lua`, `service/gate_ws.lua`; Session). State: per connection the
owner, if any. Operations: forward, bind, push, kick; close notices. Hard: notices, kicks and answers
cross on the way to another node.

**Entity agent and manager** (`service/entity_agent.lua`, `service/entity_agentmgr.lua`; partly
Session). Operations: bind and resume sessions, calls and sends with sticky forwarding to the node that
holds the lock, handoff of an entity at login, two-phase start, preloading, shutdown. Hard: forwarding
races with unloading; a handoff asks the other node to unload. Correct: a handler is executed at most
once per call, and never on a node that does not hold the lock.

**Client protocol** (`sproto_api.lua`, `sproto_host.lua`, codecs; partly Session). Which error answers
a failed request, and on which way.

### Messages and the cluster

**Reliable messages and dead letters** (`entity/reliable_msg.lua`, `service/entity_dlq.lua`,
delivery in entitymgr, wake-ups in the router and the agent; ReliableMsg). State: messages with number, status and
attempts in MongoDB; the retry timer of an entity. Operations: number and save, wake up, forward the wake-up to the holder of the
lock, deliver in order through the gate, acknowledge after the entity is stored, count failures, dead letter, replay, discard.
Hard: a crash or a lost lease between any two of them, updates whose sender has given up, wake-ups that are lost or
meet an entity on its way out. Correct: acknowledged only when the effect is durable, dead only by policy, none skipped,
none forgotten.

**Router and placement** (`entity/router.lua`, `placement.lua`, `types.lua`; the wake-up in ReliableMsg). Rendezvous hashing over
the members; no state of its own. Correct: equal views give equal placements, and a change of members
moves only what it must.

**Cluster discovery** (`service/cluster_discovery.lua`, `lualib/skyext/cluster_discovery.lua`). State:
registered node and services under the node lease, watched members, revision. Operations: register,
query, watch with restarts and compaction, publish changes. Hard: a watch that breaks between a query
and its resumption, a lease that is replaced during registration. Correct: after the last change every
subscriber has the members that etcd has.

**Machine id and id generation** (`machine_id.lua`, `snowflake.lua`, `id_generator.lua`). State: a
machine id held under the node lease, the last millisecond and sequence, cached ranges. Correct: no
two nodes issue one id, even when the clock steps back or the machine id is lost while ids are issued.

**Timer, heap, save wheel** (`timer.lua`, `lualib/binaryheap.lua`, `save_wheel.lua`). State: a heap of
timers served by one coroutine, slots of the wheel. Correct: due timers run in order, cancelled ones do
not, and a callback that yields or fails does not stop the others for good.

**Realm directory** (`service/realm.lua`, `lualib/skyext/realm.lua`). A document that is watched,
reloaded and broadcast whole. Correct: readers see whole directories, and the last one in the end.

**Node shutdown** (`service/node_shutdown.lua`). Hooks in phases: stop accepting, unload entities, close
what is left, revoke the lease. Correct: nothing is unloaded after the lease is gone.

**Hotfix** (`service/hotfix.lua`). Steps of reload and injection over all services with partial failure.

**HTTP server** (`lualib/skyext/http_server`). Connection limit, deadlines, dispatch to agents.

**Metrics, GM commands, MongoDB access, etcd client, shared resources, event channel, ORM documents,
logging, C libraries.** Little or no state that depends on order, or input and output. Where a model
uses one of them, it appears as the steps it may take: requests to etcd and MongoDB are executed or fail
(or both), events arrive in order, a document is a set of changes with dirty marks.

## 3. Plan

Order: what others rest on first.

1. **NodeLease** (done). Everything the run checks is proved.
2. **EntityStore, FencedDoc** (done). The central promise: one owner and nobody overtaken (but for the late unlock of section 6), no lost update, nothing left stranded,
   no change dropped against the policy, the refinement: all proved.
3. **Session** (done for one entity and one client). The buffer, the use of credentials, dead and living connections, order, the
   agreement of the counts and that a request is executed once: all proved.
4. **ReliableMsg** (done for one entity). Durability, order, wake-ups and dead letters proved; left: eventual delivery as
   liveness, which holds only as long as no wake-up is lost (section 6).
5. **ClientLink, Account, Sproto** (done). The TypeScript client whole: its coroutines with liveness, its HTTP requests, its codec.
   Proved of the requests: when one is given up, and when signing in fails; of sproto: packing, the loading of a schema, headers,
   dispatch between two versions, and that both ends count alike. Left: the content of packages beyond the run's.
6. **Agent** (left): sticky forwarding of calls and handoff between two nodes over EntityStore's interface.
7. **Discovery** (left): registration under a lease that is replaced, query and watch with compaction; eventual
   agreement of subscribers as liveness. With it placement as an operator checked against its definition.
8. **Ids** (left): machine id under the lease, ranges, clocks that step back; uniqueness proved.
9. **Timer** with the heap as an operator checked against a sorted reference, **Realm**, **Shutdown** (left).

Every run is kept below two minutes on two cores, and each asks a question of its own. Type invariants are proved; those of Account and SprotoRpc
are run as well. Of the disagreements between code and comments, three have runs of their own; two more
are exceptions of properties that are checked, and show as soon as the exception is taken out (section 6).

## 4. How the modules correspond to the code

General: one action per stretch of code between two points where a coroutine of skynet may yield. A
request to etcd, MongoDB or another service is a step where it is sent, a step where the server executes
it or it fails, and a step where the answer is used. What a failed request means is the caller's
ignorance: the server may have executed it, and where that matters may do so later.

### NodeLease

| Variable | Code |
|---|---|
| `svc` | `g_leaseid`, `g_deadline`, `g_epoch`, `g_closed` of the service; `up`: `skynet.start` has returned |
| `beat` | the coroutine of `heartbeat()` with its request, and the time at which the timer calls it next |
| `cl`, `chan` | the client library of each service, and the events on their way to it |
| `expiry`, `granted` | etcd |
| `fired` | history: the epochs whose loss each client has reported |

The timer counts an interval from the end of the callback, not from its start (`timer.lua:142`), so
`IdleBeat` sets `next` when the beat ends. `GetSnapshot` puts its answer anywhere into the client's
channel but never behind an event that was published later: the answer and the events take different ways.

### EntityStore, FencedDoc

| Variable | Code |
|---|---|
| `lock`, `view` | `g_locks` for the entity's key; `node_lease` as the node sees it |
| `cache`, `row` | the cache entry of `dbmgr` with the dirty marks of the ORM; the row lock with its request |
| `ent`, `gate` | `entities[id]` with its flags and retry timer; the operation in the entity's `skynet.queue` |
| `alive`, `key`, `rev`, `stray` | etcd: leases, the lock's key, its creation revision, requests given up on |
| `revoked` | history: the revisions of the key that late unlocks have deleted |
| `doc`, `late` | MongoDB: the document, writes given up on |
| `made`, `acked`, `writer` | history |

`Serve`, `StartLoad` and `Unload` take the gate; what follows (`LockReturns` ... `UnlockReturns`) works
on the operation that has it, in the order of `_ensure_loaded`, `_unload_entity`, `_recover_dirty` and
`_release_lock`. `HandlerSaves` and `SweepSaves` are saves during a handler and by the save wheel; they meet the
rest at the row lock. Loss of the lease and its report are one step (`LoseLease`), because `valid()` itself
reports a loss that it finds. A request whose sender gave up stays in `late` or `stray`, and any later step
may execute it; so does one that an endpoint of etcd has not answered in time while its sender asks the next
(`EtcdRetries`, the loop of `M.post` in `etcd/transport.lua`). The document's content is the set of the mutations in it, and a save replaces all of it:
that is what makes a lost update visible. The branch of `_ensure_loaded` that quarantines an entity
loaded under a lost lease has nothing left to do in the model, since `LockAccepted` and the expiry callback come first
(`UsableIsLocked` says so).

FencedDoc is the document alone: created once, claimed by a fence not below the last, written on top of
everything written before. `Document == INSTANCE FencedDoc WITH Fences <- Revs` maps it to EntityStore's
`doc`.

### Session

| Variable | Code |
|---|---|
| `session`, `io` | `entity.session` with its record in `g_conns`, and `entity.session_io` |
| `queue`, `turn` | operations waiting for the entity's `skynet.queue`, and the one that has it |
| `gate`, `up`, `notices` | `g_sessions` of the gate; packages to the entity; `session_closed` on its way |
| `reply`, `down` | answers of the login service; what reaches the client on its connection |
| `cl` | `SessionClient`: connection, stage of `establish`, credential, `recv`, requests, ping |
| `issued`, `taken`, `runs`, `used`, `mishaps` | history |

Decisions that are not obvious from the code:

- The call of the gate's `bind` and its answer are two steps (`CallsBind`, then `Resumes` or `Binds`),
  with everything else in between. The gate acts in the first: whatever precedes its acting could as
  well precede the call. A `session_closed` that arrives before the answer has been sent later and
  overtook it, which two nodes permit; `mishaps` notes it as `overtaken`.
- After that answer `resume` runs without a yield through `ack` and `replay` to its own answer, so
  it is one step. The flag `replaying` and the branch at `session.lua:279-285` are not in the state: `BufferCovers`
  says that a replay never finds the buffer short.
- Pushes of `on_bind_client`, `on_resume_client`, of handlers and of other coroutines are one action, `Push`,
  that may happen at any time.
- A client coroutine that got its answer goes on in a step of its own; packages that were read together
  with the answer are handled before (`Settled`).
- `Disconnect` is the end of a connection from any side that the gate notices, a kick by `sweep_idle`
  included; `Drop` is the client's end, missed pings and `reconnect` included. A gate that has not noticed
  goes on receiving what was sent.
- Calls and pings share the client's counter of request ids, bounded by `MaxReq`.
- Limits in bytes, the protocol name that is stored with a cached response, and package contents are left out.
- `mishaps` records what neither side can notice and the code does not claim to survive or fails to
  (`overflow` while resume waits, `overtaken`, `early push`, `early call`, a handler's `throw`). A property that
  names one of them says exactly what is promised in its absence; section 6 describes
  what it costs.

### ReliableMsg

| Variable | Code |
|---|---|
| `msg`, `seq` | MongoDB: `entity_msg` (status and attempts) and the numbers given out by `entity_msg_seq` |
| `stray` | MongoDB: updates of a message whose sender has given up on them |
| `doc`, `key` | the entity's document (as the set of messages whose effect it has, and its last claimant) and its lock |
| `ent` | `entities[id]`: state, content in memory, content last stored, `delivery_retry` |
| `waiting`, `job` | calls of `deliver_pending` that wait for the gate, and the operation that has it with its batch |
| `homes` | the nodes that members of the cluster take for the entity's, which they may disagree on |
| `hist`, `mishaps` | history: what handlers threw, lost wake-ups, late verdicts; what is left of the bound |

- The steps of `_deliver_one` and `_quarantine` are those between two requests to MongoDB: `Find`, the handler,
  `SaveExecuted` or `SaveRefused`, `Ack`, `RecordFailure`, `MarkDead`. Each request may be executed with its answer lost, refused, or
  executed later (`stray`). `Continue` is the loop with everything that follows its end, the retry timer and the fork for another
  round included.
- A handler applies its message at most once, which the code asks of it (idempotent by `msg_id`), and may throw before or after.
- `Lock`, `Load`, `Unload`, `Leave` and `LoseLease` are EntityStore's operations as delivery sees them, one step each.
- `mark_delivered` that finds the message no longer pending is taken for success, whoever changed it; `mark_dead` and
  `record_failure` are not. All three are `Executed`.
- `Outstanding` and `hist.excused` say which verdict comes late: an update that was sent before a replay is held against
  the message after it.

### ClientLink

| Variable | Code |
|---|---|
| `cl` | `SessionClient`: `closed`, `conn`, `online`, the credential |
| `est`, `hb` | the coroutine of `start`, `establish` and `supervisor`, and that of `heartbeat`, each with what it awaits |
| `calls` | for each call of the application: not made, waiting, sent, ended |
| `sock` | WebSockets: connecting, open, silent, closing, dead |
| `cached`, `named` | `enterGame`'s list of gates; history: what the account last named |
| `calm` | the point from which the environment behaves |

An `await` that is answered is a step of its own that comes before any other event (`Settled`): microtasks run before the next task. A close
event comes in a task after the close. A silent connection (`hole`) neither answers nor closes. Delays
between attempts are left out: a sleep ends at any time.

### Account, SafeJson, SprotoPack, Sproto, SprotoWire, SprotoRpc, SprotoNested

`Account`: one request per caller, with the host it started at and how many it has asked; each answer arrives, fails or is lost, and is read by
`ParseJson`. SafeJson's text is a sequence of characters, and the scan is the code's, with its inner loops as operators;
what cjson writes (`IsValue`, `Write`) and `JSON.parse` reads (`Read`) is external, and so are the characters: three digits, those that mean something in JSON,
and any set of other `Letters`.
Sproto's bytes have `Base` values instead of 256, so that the boundaries at 2, 4 and 8 bytes can be met with small numbers; the loading of
a bundle, the header words, widths, arrays, and the halving search are the code's. `SprotoRpc` has the state: `host.session`, pending
calls, frames under way, and what both ends count. The server's sproto is a C library; it is taken to be the same functions.

The content behind a header has text in it, and structs in structs: its encoding calls itself. SprotoWire and SprotoRpc therefore take it as
parameters (`EncodeStruct`, `DecodeStruct`, `EncodeBody`, `DecodeBody`), and `MCSproto.cfg` gives them the code's functions (`EncodeObject`, `DecodeObject`,
`EncodeArgs`, `DecodeArgs`), so that what is proved holds whatever a content is read as. The code's limit on nesting is left out.
`RpcAssumption` says what is taken for granted of the parameters, and TLC evaluates it for the run's: request ids and protocol tags stay
below 2^53 (`SafeMax`); a schema is as `sprotoparser` writes it, with the package type first and tags in ascending order; two versions
give one tag to one protocol only; and the contents that are tried encode to bytes.

## 5. Runs that pass

| Run | Instance | Shows |
|---|---|---|
| `node_lease` | one client, TTL 4, grace 1, heartbeat 2, time to 8, three leases | `ValidLeaseIsLive`, `NoLossMissed`, `NoEpochLeftUnreported` |
| `entity_store` | two nodes, two mutations, two leases, two lock revisions, one fault, late requests of every kind, two recovery attempts | `OneOwner`, `NotOvertaken`, `AckedDurable`, `NoLostUpdate`, `ImplementsFencedDoc`, `ChangesKept`, `UsableIsLocked`, `NeverStranded` |
| `entity_store_live` | two nodes, one mutation, one fault, late requests, fairness | `QuarantineEnds` |
| `reliable_msg` | two nodes with one message, or one node with two; two attempts, pages of two, two mishaps | `AckedIsDurable`, `DeadByPolicy`, `NeverForgotten`, `InOrder` |
| `session` | two connections, two requests, one push, buffer and cache of one, handlers that throw, calls while offline | `BufferCovers`, `NothingTrimmedUnseen`, `InOrder`, `CountsAgree`, `AtMostOnce` |
| `session_reconnect` | three connections, one request, no pushes | `CredentialUsedOnce`, `NoDeadConn`, `LiveConnKept` |
| `client_link` | two gates, of which one may fail for good, two sockets, one call, two missed pings | `NoLeak`, `ConnNotDead`, `ClosedForGood`, `Recovers`, `BlackHoleLeft`, `CallsEnd`, `CloseEnds` |
| `account` | three hosts, two sign-ins, 40 roles, a number holds two digits | `NullMeansAllTried`, `NoFalseFailure`, `RoleExact`, `AccountTypeOK` |
| `sproto` | two versions of a schema, bytes of four values, runs of three segments, contents at every boundary, two calls, one push, one broken connection | `PackedWhole`, `SchemaLoaded`, `RoundTrip`, `CountsAgree`, `RpcTypeOK` |

What each property says and which code it is about stands above its definition.

**Why the bounds are enough.** NodeLease: eight units hold two lives of a lease of four, and the
third lease is the one after a loss after a loss; clients do not interact, so one is enough. EntityStore:
the stories it is about need a former and a next owner and a return to the former, that is two nodes,
two leases and two revisions of the key; a fault is a failed request, hook or a crash, and each known failure
story needs one (the late write stays around for all later steps without a second). The last lease is not lost
and the last revision not surpassed: a node that would need more shows as one whose request fails. Symmetry over
nodes and mutations is used only in `entity_store`, which has no liveness property. Session: a buffer and a
cache of one make every second package an overflow and every second response an eviction; two connections
are one resume or one new login, three are a resume after a resume, and a late notice of the first while
the third is bound. ReliableMsg: a message and two nodes meet every crash, takeover and late update; two messages and a
node have an order, a page that is full and one that is not; two mishaps are a failure and one during what makes up for it.
`MaxParts` keeps the two cases apart, since both at once are too many states. ClientLink: two sockets are an old and a new
connection; two gates are one that fails and the next; one call is enough since calls do not see each other. Account: three hosts let two callers
pass each other. Sproto: with bytes of four values 7, 128 and 32768 stand for 2^15, 2^31 and 2^63; a run of three segments for one of 256;
the client is as old as the server or older, which is what a deployed client is. (Login compares the checksums of the schemas where
`proto_checksum_enable` is set; a resume does not, and a hotfix replaces the server's schema under the clients that are connected.) The newer schema has
fields directly behind the last of a type without gaps, in a content and in a struct in it, further behind, in gaps, and behind the last of a type with gaps,
and there are contents with each of them and without.

Deadlock is checked in EntityStore and Account. NodeLease stops at `MaxTime`, Session when connections and
request ids are used up, ReliableMsg when all messages are settled, ClientLink when the client is closed, and SprotoRpc when its calls and
pushes are made, so it is not checked there.

**`OneOwner` and `NotOvertaken` have an excuse.** A late unlock can take the key from under a valid handle: the node
whose unlock timed out finds the key under its own lease, takes the lock again with the same `create_revision` for its
fence, and then the transaction that was given up compares that revision and deletes the key. The history variable
`revoked` records each revision that a late request has deleted, and both properties exclude a handle with such a fence
(`Ousted`), nothing else: a lock request that is executed late may give the key to a lease whose node does not know it,
and is not excused. So neither says that an entity is never on two nodes: with `Ousted` taken out of it, `OneOwner` is violated in the
same run, by the story that section 6 tells. What a
second owner does to the document is covered without excuse: the lower fence of the ousted one is refused
(`NoLostUpdate`, `ImplementsFencedDoc`, `AckedDurable`).

**`RoundTrip` has an exception.** `Appended` names it: what was written has a field directly behind the last one that the reader has in a type
without gaps, at whatever depth. That is the commonest change of a schema, and the code does not survive it (section 6): `RoundTrip` says that
the content is lost then, all of it, and the run meets it in the content of a ping and in a struct of a mail. It does not say that anything is delivered.
Fields added anywhere else are skipped, and that one does no harm where it is absent.

## 6. Where the code does not do what it says

Each of these runs states what a comment or a document of the code says and finds a run of the model that does not keep it.
The findings in PROJECT.json quote it.

| Run | Property | What happens |
|---|---|---|
| `entity_store_unload` | `UnloadEnds` | A save is applied, its answer lost. Every retry of the unload is refused by the version that the entity's own save has written: the entity never leaves memory. |
| `session_gap` | `NoSilentGap` | Pushes overflow the buffer while resume waits for the gate: resume answers OK without a replay, and the client goes on with a gap. |
| `session_rerun` | `NeverRerun` | A call made while resume is under way is sent at once and again after it; the second copy passes the cache while the first is executed, and is executed too. |

Met on the way, without a run.

Leases and entities:

- With the real constants (30 s, 2 s, 10 s, timeout 5 s) two renewals that time out delay the following ones by their
  timeouts, and the second answer comes after the deadline; the comment at `node_lease.lua` claims room for two failures.
- A grant that is under way when the service is shut down (`node_lease.lua:68`) installs its lease afterwards; nobody revokes it.
- An unlock that fails drops the local handle. The retry takes that for a lost lease and forgets the entity, while its key
  stays under a living lease, until it loads the entity again.
- Then two nodes may own an entity. An unlock times out (`distributed_lock.lua:150`) and the entity is forgotten; its node locks again under the
  same lease and fence (113-114); the late unlock deletes the key, and a second node locks, claims and serves beside the first, whose handle stays
  valid. The first can no longer write, so what its clients do from then on is lost. `docs/overview.md:133` promises that the same entity is never
  on two nodes at once, and `docs/design/entity_system.md:178` that two nodes never hold it. `OneOwner`, `NotOvertaken` and their theorems exclude exactly this.

Reliable messages:

- A wake-up that is lost while the entity stays loaded is made up for by nobody until another message or the next load;
  `router.lua:44-46` says that the retry timer or the next load makes up for it, but no timer runs on an entity whose last round succeeded.
  `NeverForgotten` excludes such messages (`hist.unpoked`).
- A wake-up that reaches a node whose entity has lost its lease and is still in memory is refused, not forwarded.
- `_dead_letter_missing` looks only at its own node: a document that is created and loaded elsewhere in between has its messages
  taken for undeliverable (`hist.excused`).
- An owner that has lost its lease still counts a failure, and marks a message dead, for what its handler threw before.
- `mark_delivered` answers "already delivered" for a message that is dead or discarded, too.

Sessions and clients:

- A push may reach the client before the answer to login, whose handling sets the count to zero (`session.ts:333`). The next ping
  finds the difference, and the client logs in anew.
- The Lua client compares a ping's count after packages that were read together with the pong, and may find a difference that is none.
- A handler that throws after it has changed the entity is executed again when its request is repeated: errors are not cached.
- A credential that was refused is kept until a login succeeds, and so is tried again after a login that failed; the comment at
  `session.ts:304` says that any failure clears it and that resume is never retried.
- Nothing limits the time of `fetch` and of a connection attempt but the browser (`establish`).
- Missed pings are counted across connections; `host.session` keeps the entries of handshakes that were not answered;
  `enterGame` after `close` makes a new client.
- A `create_role` whose answer is lost is asked of the next host, which refuses the name as taken (`account.ts:104`).

sproto:

- `int64` (`sproto.ts:200`) returns every integer of eight bytes whose top bit is set as a bigint, also those that a number holds: -2147483649,
  or a -1 in an array that a large element has widened, while -1 alone is a number. The comment at `sproto.ts:23` promises a number
  for what a number holds.
- In a type without gaps, `findTag` refuses only `tag > st.n` (674) where the last tag is `st.n - 1`: the first tag behind the last finds `undefined`,
  not null, and reading it throws. So a client whose schema is older than the server's by one appended field gets a response without its body, and
  does not get the push, although `codec.ts:46` says that a body is absent only when the protocol has none or the response is a duplicate.
  `RoundTrip` has this as its exception, and with `AppendedHere` taken out of it the run `sproto` finds it at once: one push, received.
- `importProtocol` (524) accepts a response type one past the last.
- A request of a protocol with tag 0 is taken for a response (2021 asks whether `type` is true); an array that is missing is written as an
  empty one; a run that ends with the message is followed by a zero byte. None of these harms what is delivered with the schemas that skyext makes.

## 7. Fairness

EntityStore's `FairSpec` asks for weak fairness, per node, of `Progress` (a
request is answered or fails, a coroutine that can run runs: skynet's scheduler and the timeouts of the HTTP and MongoDB
clients) and of `Retries` (an armed retry timer, or the fork of the expiry callback, calls unload). Nothing is assumed
of leases, of callers or of the save wheel: they may stop at any time. A request that fails counts as
progress, so that fairness does not promise that etcd or MongoDB ever answer; the number of faults is
bounded, which is an assumption: failures do not go on for ever.

ClientLink's `FairSpec` asks for weak fairness of what JavaScript and the browser guarantee (tasks and timers run, a close
event comes, a `fetch` and a connection attempt end one way or the other) and of `loginParam`, which is the application's. That the client
comes back can be expected only of a world that lets it: `calm` is a point after which no connection breaks by itself, one gate accepts,
and the server answers in time. It need not come (`CalmsDown` is not fair), and other gates and the account may go on failing after it.
Answers to calls are strongly fair, because connections come and go under them. `CloseEnds` does not need `calm`.

ReliableMsg has no liveness property: that every message is delivered in the end fails when a wake-up is lost (section 6), and a handler that never ends is
not the code's business. `NeverForgotten` is the safety half: something that will fetch the message is always there.

## 8. Proofs

`tlapm` checks every proof below. The theorems hold for every value of the constants that the module's
`ASSUME` permits; TLC evaluates those assumptions in the runs.

**NodeLeaseProofs.** `TypeCorrect`, and `ValidLeaseIsLiveAlways`. `ValidLeaseIsLive` alone is not inductive: the
client believes what an event said, the event what the service believed, the service what an answer said. The
invariant `IInv` bounds each belief along that chain by what etcd keeps minus the grace period
(`ReplyBacked`, `SvcBacked`, `EventsBacked`, `ClientsBacked`), with the counters of leases and epochs
(`EpochInv`) that make an event's epoch the right one. `NoLossMissedAlways` and the action property `NoEpochLeftUnreportedAlways`
follow the epochs along the same chain: `HolderInv` says that an epoch has one lease and one beginning, whoever
holds it (the service, an event on its way, a client), and `LossInv` that a holder of an epoch that has ended has the loss of it behind it. The
second must hold of events too, since the answer to `get` may be put before older events.

**EntityStoreProofs.** `TypeCorrect`, `AckedDurableAlways`, `NoUpdateLost`, `DocumentFenced`, with late writes,
stray requests and crashes. The invariant `Inv` says that whatever a node's cache, an answer or a late write builds on
is a document MongoDB had at that version (`Snapshot`: not newer, contained in what there is now, and
equal to it at the same version). So a save that matches the version contains all that it replaces. `FlowInv`
records who holds the row lock for what, without which an answer could be taken for that of another request. The fence is
not needed for `NoLostUpdate`, only for `NotOvertaken`; the refinement needs both.

The second part builds on it. `UsableIsLockedAlways` and `NeverStrandedAlways`: `LifeInv` says for each point of the
gate's operation what may be in memory (an operation that loads has no entity, one that leaves has an entity that is unloading, and
between operations one that serves nobody is armed). `OneOwnerAlways`: `Handles` ties each copy
of a handle to the node's lock (the cache's handle is the entity's, a handle that is being given back is no longer the cache's), and `KeyInv` ties
the lock to etcd: no two nodes use one lease, and from the moment etcd creates the key until it has answered the unlock, as long as the lease
lives, the key is that of the lock or its revision is revoked, which no later key has (`Keeps`, `RevokedGone`). `NotOvertakenAlways` adds the fence: none is above the key's revision, only the node
whose lease the key has can have the key's fence, in whatever lock, cache, answer or late write (`RightsInv`), and a version
that was read or written under a handle is the document's while the handle is valid and not revoked, or this node wrote since (`ClaimFacts`).
For the action property `ChangesKeptAlways`, `KeepFacts` says where a cache may be dropped: a load that
waits for its claim has nothing to lose, and a recovery works on a quarantined entity whose cache is still the one it began with, with exactly the changes its
save carries. With `Handles` (a quarantined entity's handle is not valid) each drop is then one the policy allows, or of changes the document has.

**SessionProofs.** `TypeCorrect`, `BufferCoversAlways`, `CredentialUsedOnceAlways`, `NoDeadConnAlways`.
The first two share the invariant `TypeInv`: each operator on `session_io` keeps `Covers`. `CredentialInv` adds
that the credential in use has resumed nothing, and that a resume which waits for the gate still holds the
session's credential: nothing else may change it while the turn is taken. `ConnInv` says the same of connections:
one that is installed, or about to be, is bound at the gate, or its notice is on the way or in the queue; and
a connection the client has not opened is unknown to the gate.

**SessionOrderProofs** builds on it. `InOrderAlways`, `CountsAgreeAlways`, `NothingTrimmedUnseenAlways`, `LiveConnKeptAlways`, `AtMostOnceAlways`. None of
them is inductive: what the client takes next was numbered by the entity under one connection, may be replayed under another, and passes the
gate, the login's answer or a resume's answer on the way. `OrderedInv` joins what is needed, from the outside in.
`LoginInv` and `LinkInv` say which handshake is under way: a credential that the client waits for is newer than its own and its connection is
the installed one (`GrantOK`), a resume that can succeed is the client's last and was sent before anything was counted (`ResumeOK`), and
the client is online on the installed connection exactly when it has the entity's credential (`LinkOK`). `NumberInv` says that packages of the session
reach only a client of that session and in ascending order. `AckInv` says that no acknowledgement on the way, in a resume, in a ping or in the queue, is
ahead of the client's count, and that the entity's `acked` is not. With them `OrderInv` closes: what the client took, what is on the way to it
and what the replay buffer has join without a gap (`Joins`); while the entity replays, the rest of the buffer joins what it has
sent. The histories in `mishaps` that the properties name (an overflow during a resume, a call or a push that overtakes the handshake) are the ones that
break the joint, and section 6 has runs that show them. For `AtMostOnceAlways` the same handshake is followed in the other direction. A request is at most
once on its way on a connection, in the queue and in the turn (`SinglesOK`), and once it has been executed nothing that the entity would take can start it again
(`Spared`): what waits in the queue belongs to an older credential, which `IdsInv` shows never to return; what arrives on the installed connection is in the cache of
responses or below `minReq` (`DoneIn`, which eviction keeps: `CachedRemembers`); and what the client would send again after a resume is there too, or still has its
turn. The last case is why the connection must stay installed while a request has its turn, and the reason for both excuses: an error is not cached, and
a call during the handshake is sent twice to the same connection.

**ClientLinkProofs.** `TypeCorrect`, `NoLeakAlways`, `ConnNotDeadAlways`, `ClosedForGoodAlways`, from one invariant: beside the
properties, `Establishing` (which coroutine may hold which socket at which point) and `Handed` (what an await has got is still open, or has a
close event that was not delivered). Without them a socket that is handed from `connect` to `establish` would belong to nobody in between.

**ReliableMsgProofs.** `TypeCorrect` with `Batches` (an operation has a batch and a current message exactly while it works on one).
`AckedIsDurableAlways`: a picture of the document (what an entity in memory was loaded from or last stored) is never ahead of the
document (`Pictured`), the document only grows, and a message is acknowledged, or its acknowledgement is under way or astray, only when the
document has it (`Stored`). `NeverForgottenAlways`: `Holders` (who is loading or serving has the key; nobody dead-letters the messages of an entity that it has in memory) and
`Expected`, which strengthens `NeverForgotten`: while an operation works on its batch the retry timer does not count, since the end of
a batch cancels it. `InOrderAlways` needs no more than type correctness and what the updates do to a message (`ExecutedSettles`).
`DeadByPolicyAlways`: for each message (`Policy`) the attempts that are counted and the failures that are still to be counted, by an
operation or by a request that was given up, are covered by what its handler has thrown since the last replay (`Covered`), and whoever is about to
move it away, now or late, has a reason (`Justified`). A replay starts from what is outstanding, which is why it cannot reset the count to 0.

**AccountProofs.** `AccountTypeCorrect`, `NullMeansAllTriedAlways`, `NoFalseFailureAlways`. `ReqOK` says which hosts a request has asked: those
from where it started up to the next one, whatever the other caller's requests do to the cursor (`FirstHosts`). Numbered modulo the number of
hosts, as many as there are hosts are all of them (`AllHosts`), so a request that is given up has asked them all. `FlowOK` is `NoFalseFailure` with the
type of the application's state; an empty list takes it on to `create_role`.

`RoleExactAlways` is about texts of any length. It assumes of the roles (`RolesAssumption`) that they are lists of values as cjson writes them, numbers by
JSON's grammar and strings of any characters but the sentinel, which is what the comment at `json.ts:9` takes for granted. `Got` says that the application that is ready has what
`ParseJson` makes of the account's role; `ParsedExactly` says what that is, in three steps.
(1) A list of values is written as items with a comma after each: `DocumentText` gives the place of every item in the text.
(2) At the place of an item each scan takes exactly that item, whatever surrounds it: a number up to its comma (`NumberToken`), a string up to the
quote that ends it and not one of its own, since the scan goes through the escaped string in the steps of the characters it was made of (`EscapedWalks`, `StringToken`).
What it puts out there is the item with an unsafe integer marked (`QuotedAt`), and the value of the item (`ReadAt`, `UnescapeEscaped`).
(3) A scan along the places puts out the pieces in order (`ScanAlong`): the first makes the text of the marked values (`UnsafeQuoted`), the second the values themselves
(`DocumentRead`), and the reviver finds the marks of the scan and takes no string for one (`MarkFacts`).
The library's induction needs an operator that the provers cannot be given; here it is an induction over a *set* of numbers
(`Upwards`, `Downwards`), which follows from the least element of a set (`LeastNat`). With it the recursive functions of the scans are shown to exist (`JumpExists`, `ScanExists`).

**SprotoProofs**, about any schemas, contents and number of calls. *Packing*: `PackedBytes` and `NothingLostInPacking`: what `PackedWhole` says of the packages that a run meets, for messages of bytes of any
length and for every `MaxRun` up to 256. The loops of `pack` and `unpack` are recursive functions; `IterationExists` shows, by the same induction over a set of
numbers, that such functions exist. A segment comes back from its header and its bytes since `Bits` counts the bytes before each (`Gathered`, `HeaderBits`), a run from its count (`RunWritten`).
`Reads(a, y)` says that whatever begins with the bytes a is read as y up to the end of a: each piece that is appended keeps it (`ReadsSegment`, `ReadsRun`), so that
after every segment what was written is read as the message up to where the open run begins (`SoFar`). A header of 255 is never written for a segment,
since a segment without zeros always goes into a run. The last byte that `packSeg` may leave behind is a segment of zeros, hence fewer than sixteen.

*Schemas*: `SchemaLoads`. What the bundle says of a field or a protocol is read word by word, with a word for what is absent, and comes to the definition it was written
from (`FieldImported`, `ProtocolImported`). From it `SchemaLoadedAlways`, with three facts more. The search for a tag is right (`BisectFinds`): the interval that is left holds the tag
if any field has it, and it is halved, so it is empty after as many steps as there are fields. In a type without gaps the tag itself gives the index (`BaseTagIs`, `TagFound`). And
the room that the loader reckons for a header is enough for every choice of fields that an object may have (`WordsFit`): a field needs a second word only where the tag jumps, at a gap of the type or
behind a field that is missing.

*Headers and dispatch*: an integer up to 2^53 - 1 in a field comes back as itself, whether it fits the word or takes 4 or 8 bytes (`NumberCarried`). So the header that one
end writes is what the other reads (`HeaderWritten`, `PushRead`, `ResponseRead`, `RequestRead`), whatever follows it. `ResponseHeeded` and `RequestServed` say what comes of it in
`dispatch`: the header alone decides who is meant. A content that cannot be decoded can make the package fail, but never make it another one's; a response stays one with its session
(`recoverDispatch`), which is why it can be counted.

*Two ends*: `RpcTypeCorrect`, `PackedWholeAlways`, `CountsAgreeAlways`. The invariant is `RpcInv` (`RpcInvariant`). `OnTheWay` says of every package under way what
the other end will make of it (`Serves`, `Heeds`), from the lemmas above. `Counting` is `CountsAgree` with the ranges of the counters. It is not inductive alone: a response to a handshake
is not counted, but only as long as the client waits for it, since a second one would be counted by the client and not by the server. `Handshakes` excludes a second one:
such a request is on its way, being executed or answered, one of the three and once, and the client waits for it in each case.

**Only model-checked.** `RoundTrip` of sproto: that a content comes back as what was meant needs an induction over values and types that
contain each other (`EncodeArgs`, `DecodeArgs`), and the provers can take neither such an induction nor the recursive operators.
Liveness under fairness (`QuarantineEnds`, `Recovers`, `BlackHoleLeft`, `CallsEnd`, `CloseEnds`) is beyond the prover, as is ENABLED.

**Not modelled**: section 2 and PROJECT.json name, for each component, what is left out. Of the modelled ones:
shutdown of locks and of the entity manager, loads without a lock, schema reload, limits in bytes, which
endpoint of etcd is asked (a request that fails stands for one that failed on every endpoint), several entities
at once, which share only the lease and the save wheel; sproto's doubles and maps, MD5 of the bundle, the server's own sproto library.
Components that are not modelled at all (discovery, ids, timers, realm, hotfix, shutdown, HTTP server) are listed with what would make them
correct in section 2, and in the order of section 3.
