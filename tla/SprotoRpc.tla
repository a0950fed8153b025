----------------------------- MODULE SprotoRpc -----------------------------
(***************************************************************************)
(* Requests, responses and pushes as sproto packages: host.attach and       *)
(* host.dispatch (sproto.ts), the codec around them (codec.ts), and what    *)
(* the session does with what the codec gives it (session.ts): which call    *)
(* gets a response, and what is counted.  The two ends may have loaded       *)
(* different versions of the schema.  The server's sproto is the C library;  *)
(* it is taken to be the same functions, as the tests of the codec take it.  *)
(* For the content behind a header there are two parameters, which are       *)
(* EncodeArgs and DecodeArgs of SprotoNested.                                *)
(***************************************************************************)
EXTENDS SprotoWire

CONSTANTS
    EncodeBody(_, _, _),  \* a content, as bytes, for a type of a schema
    DecodeBody(_, _, _),  \* bytes, read as a type of a schema
    Schemas,      \* the schemas, by name
    Cases,        \* what to try: the schemas of client and server, a content,
                  \* how often the connection may break
    Uncounted,    \* UNCOUNTED_RESPONSE: the protocols of the handshake
    FirstId,      \* request ids start after it
    MaxCalls, MaxPushes   \* bounds

(* The package type of every schema; versions of a protocol have one name.    *)
PackageDef == [i \in 1 .. 2 |-> [name |-> <<"type", "session">>[i], tag |-> i - 1, type |-> TInteger,
                                 st |-> Null, extra |-> Null, array |-> FALSE]]

BodiesOf(sch) == UNION {{p.request, p.response} \ {Null} : p \in Range(sch.proto)}

ASSUME RpcAssumption ==
    /\ FirstId \in Nat /\ MaxCalls \in Nat /\ MaxPushes \in Nat /\ FirstId + MaxCalls <= SafeMax
    /\ \A s \in DOMAIN Schemas :
         LET d == Schemas[s]
         IN  /\ IsSchema(d) /\ d.types # <<>> /\ d.types[1] = PackageDef
             /\ \A p \in Range(d.protos) : p.tag <= SafeMax
    /\ \A c \in Cases :
         /\ c.client \in DOMAIN Schemas /\ c.server \in DOMAIN Schemas /\ c.breaks \in Nat
         /\ \A p \in Range(Schemas[c.client].protos), q \in Range(Schemas[c.server].protos) :
              p.tag = q.tag => p.name = q.name
         /\ \A s \in {c.client, c.server} :
              LET sch == CreateNew(Bundle(Schemas[s]))
              IN  \A body \in BodiesOf(sch) : EncodeBody(sch, body, c.obj) \in Seq(Byte)

VARIABLES
    env,       \* the names of the schemas at either end, the content of packages
    sp,        \* the schemas as the two ends have loaded them
    types,     \* host.session: the type of the response to each request
    calls,     \* the protocol of each request so far
    pending,   \* requests that wait for a response
    up, down,  \* the packages under way
    todo,      \* requests that the server is executing
    cache,     \* requests whose responses it has kept
    count,     \* sent, recv: counted packages at either end; what the bounds count
    heard      \* the last content delivered: where, of which package, what it was

rpcVars == <<env, sp, types, calls, pending, up, down, todo, cache, count, heard>>

Client == sp.client
Server == sp.server

Nothing == [x \in {} |-> Null]
Confirm == 0   \* "true" in host.session: a response without a body

RpcInit ==
    /\ env \in Cases
    /\ sp = [client |-> CreateNew(Bundle(Schemas[env.client])),
             server |-> CreateNew(Bundle(Schemas[env.server]))]
    /\ types = Nothing /\ calls = Nothing /\ pending = {}
    /\ up = <<>> /\ down = <<>>
    /\ todo = {} /\ cache = {}
    /\ count = [sent |-> 0, recv |-> 0, pushes |-> 0, breaks |-> 0]
    /\ heard = [at |-> Null, kind |-> Null, name |-> Null, got |-> Undefined]

-----------------------------------------------------------------------------
(* Packages *)

NumOrNone(x, name, n) == IF n = Null THEN x ELSE Put(x, name, Val("number", n))
HeaderOf(tag, id) == NumOrNone(NumOrNone(Nothing, "type", tag), "session", id)

EncodeHeader(sch, tag, id) == EncodeObject(sch, 1, HeaderOf(tag, id))

(* body: a type, or Null for none *)
PackageOf(sch, tag, id, body) ==
    EncodeHeader(sch, tag, id) \o (IF body = Null THEN <<>> ELSE EncodeBody(sch, body, env.obj))

Frame(kind, name, id, raw) == [kind |-> kind, name |-> name, id |-> id, raw |-> raw, bytes |-> Pack(raw)]

RequestFrame(sch, kind, name, id) ==
    LET p == ProtoByName(sch, name) IN Frame(kind, name, id, PackageOf(sch, p.tag, id, p.request))

ResponseFrame(name, id) ==
    Frame("response", name, id, PackageOf(Server, Null, id, ProtoByName(Server, name).response))

-----------------------------------------------------------------------------
(* dispatch *)

Got(kind, name, id, args) == [kind |-> kind, name |-> name, id |-> id, args |-> args]
Undecodable == Got("null", Null, Null, Undefined)

ArgsOf(r) == IF r.ok THEN r.val ELSE Undefined  \* result || undefined

(* recoverDispatch: the header alone tells whose response it is.              *)
Recover(id) == Got("response", Null, id, Undefined)

SessionOf(head) == IF "session" \in DOMAIN head THEN head["session"].v ELSE Null
BodyOf(sch, body, rest) ==
    IF body \in {Null, Confirm} THEN Failed ELSE DecodeBody(sch, body, rest)

RequestOf(name, id, r) == IF r.throws THEN Undecodable ELSE Got("request", name, id, ArgsOf(r))

DispatchRequest(sch, head, rest, p) ==
    IF p = Null THEN Undecodable
    ELSE RequestOf(p.name, SessionOf(head), BodyOf(sch, p.request, rest))

ResponseOf(id, r) == IF r.throws THEN Recover(id) ELSE Got("response", Null, id, ArgsOf(r))

DispatchResponse(sch, known, id, rest) ==
    IF id \notin DOMAIN known THEN Recover(id)  \* decode(undefined) throws
    ELSE ResponseOf(id, BodyOf(sch, known[id], rest))

(* type 0 is no type: a response, and without a session nothing at all.       *)
IsRequest(head) == "type" \in DOMAIN head /\ head["type"].v # 0

DispatchBody(sch, known, head, rest) ==
    CASE IsRequest(head) -> DispatchRequest(sch, head, rest, QueryProto(sch, head["type"].v))
      [] ~IsRequest(head) /\ "session" \in DOMAIN head ->
            DispatchResponse(sch, known, SessionOf(head), rest)
      [] OTHER -> Undecodable

DispatchBin(sch, known, bin, h) ==
    IF h.ok THEN DispatchBody(sch, known, h.val.obj, Drop(bin, h.val.used)) ELSE Undecodable

DispatchPackage(sch, known, bin) == DispatchBin(sch, known, bin, DecodeObject(sch, 1, bin))

Dispatch(sch, known, bytes) == DispatchPackage(sch, known, Unpack(bytes))

-----------------------------------------------------------------------------
(* The client *)

(* Mutant: a protocol without a response leaves nothing to expect. *)
ResponseTypeNone(sch, name) == ProtoByName(sch, name).response

ResponseType(sch, name) ==
    LET p == ProtoByName(sch, name) IN IF p.response = Null THEN Confirm ELSE p.response

Registered(ids) ==
    [id \in ids \cup DOMAIN types |-> IF id \in ids THEN ResponseType(Client, calls'[id]) ELSE types[id]]

Call(name) ==
    LET id == FirstId + Cardinality(DOMAIN calls) + 1
    IN  /\ Cardinality(DOMAIN calls) < MaxCalls
        /\ calls' = Put(calls, id, name)
        /\ pending' = pending \cup {id}
        /\ types' = Registered({id})
        /\ up' = Append(up, RequestFrame(Client, "request", name, id))
        /\ UNCHANGED <<env, sp, down, todo, cache, count, heard>>

Heard(end, frame, got) == heard' = [at |-> end, kind |-> frame.kind, name |-> frame.name, got |-> got]

(* Mutant: a response that nobody waits for is dropped before it is counted.  *)
CountsAnswered(r) == r.kind # "response" \/ (r.id \in pending /\ calls[r.id] \notin Uncounted)

(* handle: every package counts but the response to a handshake request that  *)
(* is waiting for it.                                                         *)
Counts(r) == r.kind # "response" \/ r.id \notin pending \/ calls[r.id] \notin Uncounted

Handle(frame, r) ==
    /\ count' = [count EXCEPT !.recv = @ + IF Counts(r) THEN 1 ELSE 0]
    /\ types' = IF r.kind = "response" THEN Restrict(types, DOMAIN types \ {r.id}) ELSE types
    /\ pending' = IF r.kind = "response" THEN pending \ {r.id} ELSE pending
    /\ IF r.kind = "response" /\ r.id \notin pending
       THEN UNCHANGED heard
       ELSE Heard("client", frame, r.args)

ClientReceives ==
    /\ down # <<>>
    /\ Handle(Head(down), Dispatch(Client, types, Head(down).bytes))
    /\ down' = Tail(down)
    /\ UNCHANGED <<env, sp, calls, up, todo, cache>>

-----------------------------------------------------------------------------
(* The server: external *)

IsCounted(frame) == frame.kind = "push" \/ frame.name \notin Uncounted

Sends(frame) ==
    /\ down' = Append(down, frame)
    /\ count' = [count EXCEPT !.sent = @ + IF IsCounted(frame) THEN 1 ELSE 0,
                              !.pushes = @ + IF frame.kind = "push" THEN 1 ELSE 0]

(* What cannot be dispatched is dropped; a request that has been answered is   *)
(* answered from the cache.                                                   *)
Executes(frame, r) ==
    IF r.kind # "request" THEN UNCHANGED <<down, count, todo, heard>>
    ELSE /\ Heard("server", frame, r.args)
         /\ IF r.id \in cache
            THEN Sends(ResponseFrame(r.name, r.id)) /\ UNCHANGED todo
            ELSE todo' = todo \cup {r.id} /\ UNCHANGED <<down, count>>

ServerReceives ==
    /\ up # <<>>
    /\ Executes(Head(up), Dispatch(Server, Nothing, Head(up).bytes))
    /\ up' = Tail(up)
    /\ UNCHANGED <<env, sp, types, calls, pending, cache>>

Answer(id) ==
    /\ id \in todo
    /\ todo' = todo \ {id}
    /\ cache' = IF calls[id] \in Uncounted THEN cache ELSE cache \cup {id}
    /\ Sends(ResponseFrame(calls[id], id))
    /\ UNCHANGED <<env, sp, types, calls, pending, up, heard>>

Push(name) ==
    /\ count.pushes < MaxPushes
    /\ Sends(RequestFrame(Server, "push", name, Null))
    /\ UNCHANGED <<env, sp, types, calls, pending, up, todo, cache, heard>>

-----------------------------------------------------------------------------
(* The counted ones among the packages on their way. *)
Replayed(s) ==
    LET r[i \in 0 .. Len(s)] == IF i = 0 THEN <<>>
                                ELSE IF IsCounted(s[i]) THEN Append(r[i - 1], s[i]) ELSE r[i - 1]
    IN  r[Len(s)]

(* Ids in the order of their requests, which is that of the map `pending`.     *)
InOrder(ids) == {s \in [1 .. Cardinality(ids) -> ids] : \A i, j \in DOMAIN s : i < j => s[i] < s[j]}

(* The connection breaks and the session is resumed: what was counted is      *)
(* replayed, requests are sent again, the handshake's are given up.           *)
Resumed ==
    LET kept == {id \in pending : calls[id] \notin Uncounted}
    IN  /\ count.breaks < env.breaks
        /\ count' = [count EXCEPT !.breaks = @ + 1]
        /\ down' = Replayed(down)
        /\ todo' = {id \in todo : calls[id] \notin Uncounted}
        /\ calls' = calls
        /\ pending' = kept
        /\ types' = Registered(kept)
        /\ \E sent \in InOrder(kept) :
              up' = [i \in DOMAIN sent |-> RequestFrame(Client, "request", calls[sent[i]], sent[i])]
        /\ UNCHANGED <<env, sp, cache, heard>>

ClientNames == {Client.proto[i].name : i \in DOMAIN Client.proto}
PushNames == {p.name : p \in {q \in Range(Server.proto) : q.response = Null /\ q.confirm = 0}}

RpcNext ==
    \/ \E name \in ClientNames \ PushNames : Call(name)
    \/ \E name \in PushNames : Push(name)
    \/ \E id \in DOMAIN calls : Answer(id)
    \/ ClientReceives \/ ServerReceives \/ Resumed

RpcSpec == RpcInit /\ [][RpcNext]_rpcVars

-----------------------------------------------------------------------------
(* Properties *)

Ids == FirstId + 1 .. FirstId + MaxCalls

RpcTypeOK ==
    /\ DOMAIN types \subseteq Ids /\ DOMAIN calls \subseteq Ids
    /\ \A id \in DOMAIN types : types[id] \in {Confirm} \cup (1 .. Len(Client.type))
    /\ pending \subseteq DOMAIN calls /\ todo \subseteq DOMAIN calls /\ cache \subseteq DOMAIN calls
    /\ count.sent \in Nat /\ count.recv \in Nat
    /\ count.pushes \in 0 .. MaxPushes /\ count.breaks \in 0 .. env.breaks

(* Packing loses nothing: the receiver unpacks what was encoded, and fewer    *)
(* than two segments of zeros (sprotoPack, sprotoUnpack).                      *)
PackedWhole == \A f \in Range(up) \cup Range(down) : Whole(f.raw, f.bytes)

(* Header words of an object with the fields of a set of indices. *)
WordsFor(t, present) ==
    LET gaps == {j \in present : t.f[j].tag > 0 /\ ~\E i \in present : t.f[i].tag = t.f[j].tag - 1}
    IN  Cardinality(present) + Cardinality(gaps)

(* Every tag finds its field and no other, header words have room, protocols   *)
(* are found by tag and by name.                                               *)
LoadedWell(sch, d) ==
    /\ sch # Null
    /\ \A i \in DOMAIN d.types :
         LET t == sch.type[i]
             tags == {d.types[i][j].tag : j \in DOMAIN d.types[i]}
             next == IF d.types[i] = <<>> THEN 0 ELSE Last(d.types[i]).tag + 1
         IN  /\ \A f \in Range(d.types[i]) : FindTag(t, f.tag).name = f.name
             /\ \A tag \in 0 .. next + 3 : tag \in tags \cup {next} \/ FindTag(t, tag) = Null
             /\ \A present \in SUBSET DOMAIN d.types[i] : WordsFor(t, present) <= t.maxn
    /\ \A p \in Range(d.protos) :
         QueryProto(sch, p.tag).name = p.name /\ ProtoByName(sch, p.name).tag = p.tag

(* Both schemas are loaded as they were written (createFromBundle, findTag,    *)
(* queryProto).  The tag after the last of a type without gaps, which finds     *)
(* undefined and not null, is left out: see FindTag.                            *)
SchemaLoaded == calls = Nothing =>
    LoadedWell(Client, Schemas[env.client]) /\ LoadedWell(Server, Schemas[env.server])

(* The two ends count alike: what the client has counted and what is under     *)
(* way to be counted is what the server has counted, duplicates of responses    *)
(* and undecodable packages included (handle, recoverDispatch).                 *)
CountsAgree == count.recv + Cardinality({i \in DOMAIN down : IsCounted(down[i])}) = count.sent
=============================================================================
