----------------------------- MODULE NodeLease -----------------------------
(***************************************************************************)
(* The node-level etcd lease: service/node_lease.lua, which grants, renews  *)
(* and revokes the one lease of a process, and its read-only client         *)
(* lualib/skyext/node_lease.lua, which every service of the process loads.  *)
(*                                                                         *)
(* Time is global and discrete.  The code compares skynet.now() with        *)
(* deadlines computed from it, and all services of a process read the same  *)
(* clock; the model assumes that this clock and etcd's run at one rate.     *)
(*                                                                         *)
(* etcd and the event channel (skynet.multicast) are external: the lease    *)
(* expires TTL after etcd last granted or renewed it, a request may fail    *)
(* before or after etcd executed it, and a subscriber receives the events   *)
(* in the order the service published them.                                 *)
(***************************************************************************)
EXTENDS Naturals, Sequences, SequencesExt

CONSTANTS
    Clients,       \* the services that loaded skyext.node_lease
    TTL,           \* LEASE_TTL
    Grace,         \* GRACE
    Heartbeat,     \* HEARTBEAT_INTERVAL
    MaxTime,       \* bound: the clock stops here
    MaxLease       \* bound: leases etcd grants

ASSUME TimingAssumption ==
    /\ TTL \in Nat /\ Grace \in Nat \ {0} /\ Grace < TTL
    /\ Heartbeat \in Nat \ {0} /\ Heartbeat < TTL
    /\ MaxTime \in Nat /\ MaxLease \in Nat \ {0}

VARIABLES
    now,       \* the clock
    expiry,    \* etcd: expiry[l] is when lease l expires, 0 when it does not exist
    granted,   \* etcd: leases 1..granted have been created
    svc,       \* service: g_leaseid (0 is nil), g_deadline, g_epoch, g_closed, whether
               \* etcd confirmed the revocation, and whether skynet.start has returned
    beat,      \* the coroutine that runs heartbeat(), and its request to etcd
    cl,        \* client library of each service: g_leaseid, g_epoch, g_deadline
    chan,      \* events (and the snapshot) on their way to each client
    fired      \* history: the epochs of which each client has reported the loss

vars == <<now, expiry, granted, svc, beat, cl, chan, fired>>

Leases == 1 .. MaxLease
Lease0 == 0 .. MaxLease       \* 0 stands for nil
Epochs == 0 .. MaxLease
Times  == 0 .. (MaxTime + TTL)

Service == [lease : Lease0, deadline : Times, epoch : Epochs, closed : BOOLEAN,
            revoked : BOOLEAN, up : BOOLEAN]
Outcome == {"none", "ok", "gone", "failed"}
Beat    == [pc : {"idle", "keepalive", "after", "grant"}, started : 0 .. MaxTime,
            lease : Lease0, reply : Outcome, next : Times]
Alive   == [type : {"alive"}, lease : Leases, epoch : Epochs, deadline : Times]
Lost    == [type : {"lost"}, epoch : Epochs]
Event   == Alive \cup Lost
Client  == [phase : {"off", "subscribed", "on"}, lease : Lease0, epoch : Epochs, deadline : Times]

-----------------------------------------------------------------------------
(* etcd *)

LeaseLive(l) == l # 0 /\ now < expiry[l]

(* The request that is under way reaches etcd, or fails on the way there. *)
InFlight == beat.pc \in {"keepalive", "grant"} /\ beat.reply = "none"

EtcdKeepalive ==
    /\ InFlight /\ beat.pc = "keepalive"
    /\ IF LeaseLive(beat.lease)
         THEN /\ expiry' = [expiry EXCEPT ![beat.lease] = now + TTL]
              /\ beat' = [beat EXCEPT !.reply = "ok"]
         ELSE /\ beat' = [beat EXCEPT !.reply = "gone"]
              /\ UNCHANGED expiry
    /\ UNCHANGED <<now, granted, svc, cl, chan, fired>>

EtcdGrant ==
    /\ InFlight /\ beat.pc = "grant" /\ granted < MaxLease
    /\ granted' = granted + 1
    /\ expiry' = [expiry EXCEPT ![granted + 1] = now + TTL]
    /\ beat' = [beat EXCEPT !.reply = "ok", !.lease = granted + 1]
    /\ UNCHANGED <<now, svc, cl, chan, fired>>

(* No connection, a timeout, a 5xx, a malformed body: also after etcd has   *)
(* executed the request, when only the answer is lost.                      *)
RequestFails ==
    /\ beat.pc \in {"keepalive", "grant"} /\ beat.reply # "failed"
    /\ beat' = [beat EXCEPT !.reply = "failed"]
    /\ UNCHANGED <<now, expiry, granted, svc, cl, chan, fired>>

-----------------------------------------------------------------------------
(* service/node_lease.lua *)

Publish(e) == chan' = [c \in Clients |-> IF cl[c].phase # "off" THEN Append(chan[c], e) ELSE chan[c]]

AliveEvent(s) == [type |-> "alive", lease |-> s.lease, epoch |-> s.epoch,
                  deadline |-> s.deadline]

(* lose_lease(): forget the lease and publish the loss of its epoch. *)
LoseLease ==
    /\ svc' = [svc EXCEPT !.lease = 0, !.deadline = 0]
    /\ Publish([type |-> "lost", epoch |-> svc.epoch])

(* The timer calls heartbeat(): renew the lease, or ask for one. *)
HeartbeatFires ==
    /\ beat.pc = "idle" /\ ~svc.closed /\ now >= beat.next
    /\ beat' = [beat EXCEPT !.pc = IF svc.lease # 0 THEN "keepalive" ELSE "grant",
                            !.started = now, !.lease = svc.lease, !.reply = "none"]
    /\ UNCHANGED <<now, expiry, granted, svc, cl, chan, fired>>

(* The callback returned or failed: the timer is re-armed from its end. *)
IdleBeat == [pc |-> "idle", started |-> 0, lease |-> 0, reply |-> "none",
             next |-> now + Heartbeat]

(* Mutant: the lease is counted from the answer, not from the request. *)
DeadlineFromAnswer == now + TTL - Grace

RenewedDeadline == beat.started + TTL - Grace

Renewed ==
    /\ beat.reply = "ok" /\ beat.lease = svc.lease
    /\ svc' = [svc EXCEPT !.deadline = RenewedDeadline]
    /\ Publish(AliveEvent(svc'))
    /\ beat' = [beat EXCEPT !.pc = "after"]

LeaseGone ==
    /\ beat.reply = "gone"
    /\ LoseLease
    /\ beat' = [beat EXCEPT !.pc = "after"]

NotRenewed == beat.reply = "failed" \/ (beat.reply = "ok" /\ beat.lease # svc.lease)

GraceElapsed ==
    /\ NotRenewed /\ svc.lease # 0 /\ now >= svc.deadline
    /\ LoseLease
    /\ beat' = [beat EXCEPT !.pc = "after"]

Tolerated ==
    /\ NotRenewed /\ svc.lease # 0 /\ now < svc.deadline
    /\ beat' = [beat EXCEPT !.pc = "after"]
    /\ UNCHANGED <<svc, chan>>

(* get() or shutdown() cleared the lease while the request was under way:   *)
(* the comparison with a nil deadline raises an error, which ends the       *)
(* callback before it reaches the grant.                                    *)
DeadlineGone ==
    /\ NotRenewed /\ svc.lease = 0
    /\ beat' = IdleBeat
    /\ UNCHANGED <<svc, chan>>

KeepaliveReturns ==
    /\ beat.pc = "keepalive"
    /\ Renewed \/ LeaseGone \/ GraceElapsed \/ Tolerated \/ DeadlineGone
    /\ UNCHANGED <<now, expiry, granted, cl, fired>>

(* publish() yields; then the rest of heartbeat(): grant if there is none. *)
AfterKeepalive ==
    /\ beat.pc = "after"
    /\ beat' = IF svc.lease = 0 /\ ~svc.closed
                 THEN [beat EXCEPT !.pc = "grant", !.started = now, !.reply = "none", !.lease = 0]
                 ELSE IdleBeat
    /\ UNCHANGED <<now, expiry, granted, svc, cl, chan, fired>>

(* grant_lease() after the answer.  Nothing here looks at g_closed.  The    *)
(* first grant belongs to skynet.start, which only then takes requests.     *)
GrantReturns ==
    /\ beat.pc = "grant" /\ beat.reply \in {"ok", "failed"}
    /\ IF beat.reply = "ok"
         THEN /\ svc' = [svc EXCEPT !.lease = beat.lease, !.epoch = @ + 1,
                                    !.deadline = RenewedDeadline, !.up = TRUE]
              /\ Publish(AliveEvent(svc'))
         ELSE /\ svc' = [svc EXCEPT !.up = TRUE]
              /\ UNCHANGED chan
    /\ beat' = IdleBeat
    /\ UNCHANGED <<now, expiry, granted, cl, fired>>

(* CMD.shutdown: stop the timer, forget the lease, revoke it at etcd.  The  *)
(* revocation may fail; the lease then runs out by itself.                  *)
Shutdown ==
    /\ svc.up /\ ~svc.closed
    /\ \E ok \in BOOLEAN :
         /\ svc' = [svc EXCEPT !.closed = TRUE, !.lease = 0, !.deadline = 0, !.revoked = ok]
         /\ expiry' = IF ok /\ svc.lease # 0 THEN [expiry EXCEPT ![svc.lease] = 0] ELSE expiry
    /\ UNCHANGED <<now, granted, beat, cl, chan, fired>>

-----------------------------------------------------------------------------
(* lualib/skyext/node_lease.lua *)

(* skynet.init of the library: subscribe first, then call CMD.get.          *)
Subscribe(c) ==
    /\ cl[c].phase = "off" /\ svc.up
    /\ cl' = [cl EXCEPT ![c].phase = "subscribed"]
    /\ UNCHANGED <<now, expiry, granted, svc, beat, chan, fired>>

(* CMD.get, which itself discovers an elapsed deadline.  Its reply goes to  *)
(* the client directly and may overtake events that are still with the      *)
(* multicast service; a later event never overtakes the reply.              *)
GetSnapshot(c) ==
    /\ cl[c].phase = "subscribed"
    /\ cl' = [cl EXCEPT ![c].phase = "on"]
    /\ \/ /\ svc.lease = 0
          /\ UNCHANGED <<svc, chan>>
       \/ /\ svc.lease # 0 /\ now < svc.deadline
          /\ \E i \in 1 .. Len(chan[c]) + 1 :
               chan' = [chan EXCEPT ![c] = InsertAt(@, i, AliveEvent(svc))]
          /\ UNCHANGED svc
       \/ /\ svc.lease # 0 /\ now >= svc.deadline
          /\ LoseLease
    /\ UNCHANGED <<now, expiry, granted, beat, fired>>

(* clear(): drop the lease and call the on_lost subscribers, once. *)
Cleared(c) == [cl[c] EXCEPT !.lease = 0, !.deadline = 0]
Fire(c, epoch) == fired' = [fired EXCEPT ![c] = @ \cup {epoch}]

(* Mutant: a new epoch takes over silently. *)
OnAliveSilent(c, e) ==
    /\ cl' = [cl EXCEPT ![c] = [@ EXCEPT !.lease = e.lease, !.epoch = e.epoch,
                                         !.deadline = e.deadline]]
    /\ UNCHANGED fired

(* on_lease_alive: a change of epoch with a lease still held makes up for a *)
(* loss event that never came.                                              *)
OnAlive(c, e) ==
    /\ cl' = [cl EXCEPT ![c] = [@ EXCEPT !.lease = e.lease, !.epoch = e.epoch,
                                         !.deadline = e.deadline]]
    /\ IF e.epoch # cl[c].epoch /\ cl[c].lease # 0 THEN Fire(c, cl[c].epoch)
                                                   ELSE UNCHANGED fired

(* Mutant: only the loss of an older epoch is taken seriously. *)
OnLostOlder(c, e) ==
    IF e.epoch < cl[c].epoch /\ cl[c].lease # 0
      THEN /\ cl' = [cl EXCEPT ![c] = Cleared(c)]
           /\ Fire(c, e.epoch)
      ELSE UNCHANGED <<cl, fired>>

OnLost(c, e) ==
    IF e.epoch = cl[c].epoch /\ cl[c].lease # 0
      THEN /\ cl' = [cl EXCEPT ![c] = Cleared(c)]
           /\ Fire(c, e.epoch)
      ELSE UNCHANGED <<cl, fired>>

Deliver(c) ==
    /\ chan[c] # << >>
    /\ LET e == Head(chan[c]) IN IF e.type = "alive" THEN OnAlive(c, e) ELSE OnLost(c, e)
    /\ chan' = [chan EXCEPT ![c] = Tail(@)]
    /\ UNCHANGED <<now, expiry, granted, svc, beat>>

(* What M.valid() answers. *)
Valid(c) == cl[c].lease # 0 /\ now < cl[c].deadline

(* M.valid() when the deadline has passed: the caller clears the lease.     *)
(* Before the deadline, and without a lease, it changes nothing.            *)
ValidFindsElapsed(c) ==
    /\ cl[c].lease # 0 /\ now >= cl[c].deadline
    /\ cl' = [cl EXCEPT ![c] = Cleared(c)]
    /\ Fire(c, cl[c].epoch)
    /\ UNCHANGED <<now, expiry, granted, svc, beat, chan>>

-----------------------------------------------------------------------------
Tick ==
    /\ now < MaxTime
    /\ now' = now + 1
    /\ UNCHANGED <<expiry, granted, svc, beat, cl, chan, fired>>

(* The service starts with a grant under way (skynet.start calls            *)
(* grant_lease before it dispatches), the clients not yet subscribed.       *)
Init ==
    /\ now = 0
    /\ expiry = [l \in Leases |-> 0]
    /\ granted = 0
    /\ svc = [lease |-> 0, deadline |-> 0, epoch |-> 0, closed |-> FALSE, revoked |-> FALSE,
              up |-> FALSE]
    /\ beat = [pc |-> "grant", started |-> 0, lease |-> 0, reply |-> "none", next |-> 0]
    /\ cl = [c \in Clients |-> [phase |-> "off", lease |-> 0, epoch |-> 0, deadline |-> 0]]
    /\ chan = [c \in Clients |-> << >>]
    /\ fired = [c \in Clients |-> {}]

ServiceStep == HeartbeatFires \/ KeepaliveReturns \/ AfterKeepalive \/ GrantReturns \/ Shutdown
EtcdStep    == EtcdKeepalive \/ EtcdGrant \/ RequestFails
ClientStep(c) == Subscribe(c) \/ GetSnapshot(c) \/ Deliver(c) \/ ValidFindsElapsed(c)

Next == Tick \/ ServiceStep \/ EtcdStep \/ \E c \in Clients : ClientStep(c)

Spec == Init /\ [][Next]_vars

-----------------------------------------------------------------------------
TypeOK ==
    /\ now \in 0 .. MaxTime
    /\ expiry \in [Leases -> Times]
    /\ granted \in Lease0
    /\ svc \in Service
    /\ beat \in Beat
    /\ cl \in [Clients -> Client]
    /\ chan \in [Clients -> Seq(Event)]
    /\ fired \in [Clients -> SUBSET Epochs]

(***************************************************************************)
(* A client never takes a dead lease for a live one: when valid() answers   *)
(* true, etcd still holds the lease (node_lease.lua, lines 11-18: the       *)
(* deadline moves only on a confirmed renewal and ends GRACE early).  Once  *)
(* shutdown has revoked the lease nobody is told, so the promise ends there.*)
(***************************************************************************)
ValidLeaseIsLive == \A c \in Clients : Valid(c) /\ ~svc.closed => LeaseLive(cl[c].lease)

(***************************************************************************)
(* A client that has worked off its events holds no lease that the service  *)
(* has given up: the client subscribes before it asks for the snapshot, so  *)
(* no loss falls between the two (node_lease.lua, lines 93-95).             *)
(***************************************************************************)
NoLossMissed ==
    \A c \in Clients :
        cl[c].phase = "on" /\ chan[c] = << >> /\ cl[c].lease # 0 /\ ~svc.closed
            => cl[c].lease = svc.lease /\ cl[c].epoch = svc.epoch

(***************************************************************************)
(* A client that takes up a new epoch has told its subscribers of the loss  *)
(* of the one it held before: nothing hung on the old lease survives        *)
(* unnoticed (on_lease_alive, "superseded by a new lease").                 *)
(***************************************************************************)
NoEpochLeftUnreported ==
    [][\A c \in Clients : cl[c].lease # 0 /\ cl'[c].lease # cl[c].lease
                            => cl[c].epoch \in fired'[c]]_vars
=============================================================================
