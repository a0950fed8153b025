------------------------------- MODULE Account -------------------------------
(***************************************************************************)
(* AccountClient (sdk/ts/src/account.ts): HTTP requests to a list of        *)
(* account hosts, one after the other until one answers, and what an        *)
(* application does with them before it enters the game: sign in, choose a  *)
(* server, take a role or create one.  The session layer asks for the       *)
(* online gates at the same time, with the same cursor over the hosts.      *)
(* Every answer is read with ParseJson.                                     *)
(***************************************************************************)
EXTENDS SafeJson

CONSTANTS
    Hosts,        \* number of account hosts
    MaxFlows,     \* bound: how often the application signs in
    RoleDocs,     \* the roles an account may have: sequences of JSON values
    None

ASSUME AccountAssumption ==
    /\ Hosts \in Nat \ {0} /\ MaxFlows \in Nat
    /\ None \notin RoleDocs

(* A role is a list of values that cjson writes. *)
ASSUME RolesAssumption ==
    \A doc \in RoleDocs : doc \in Seq(Range(doc)) /\ \A val \in Range(doc) : IsValue(val)

VARIABLES
    cursor,   \* the host that the next request starts with
    req,      \* requests under way, by caller: where it started, hosts tried
    flow,     \* the application: how far it is, and whether anything was refused
    role      \* the account's role in the database

accountVars == <<cursor, req, flow, role>>

HostIds == 0 .. Hosts - 1
Callers == {"link", "app"}
NoReq   == [on |-> FALSE, start |-> 0, i |-> 0, asked |-> {}, null |-> FALSE]
Stages  == {"off", "dev_login", "servers", "roles", "create_role", "ready", "failed"}

AccountInit ==
    /\ cursor \in HostIds  \* Math.random
    /\ req = [c \in Callers |-> NoReq]
    /\ flow = [at |-> "off", refused |-> FALSE, runs |-> 0, role |-> None]
    /\ role \in RoleDocs \cup {None}

-----------------------------------------------------------------------------
(* request: the loop over the hosts *)

(* Mutant: the cursor is read again for every host. *)
HostByCursor(c) == (cursor + req[c].i) % Hosts

Host(c) == (req[c].start + req[c].i) % Hosts

Begun == [NoReq EXCEPT !.on = TRUE, !.start = cursor]

Begins(c) ==
    /\ req' = [req EXCEPT ![c] = Begun]
    /\ cursor' = (cursor + 1) % Hosts

Asked(c) == req[c].asked \cup {Host(c)}

(* Mutant: the loop runs once too often. *)
LastHostLate(c) == req[c].i = Hosts

LastHost(c) == req[c].i + 1 = Hosts

(* A transport error, or a status other than 200: the next host, or null.    *)
TriesNext(c) ==
    req' = [req EXCEPT ![c] =
        IF LastHost(c) THEN [NoReq EXCEPT !.null = TRUE, !.asked = Asked(c)]
                       ELSE [req[c] EXCEPT !.i = @ + 1, !.asked = Asked(c)]]

Answered(c) == req' = [req EXCEPT ![c] = NoReq]

-----------------------------------------------------------------------------
(* The application: devLogin, pickRecommendedServer, ensureRole *)

(* Mutant: cjson's {} for an empty list is taken for no list. *)
AsArrayStrict(v) == IF v = "{}" THEN "null" ELSE v

(* An empty Lua table is encoded as {}, and is an empty list.                *)
AsArray(v) == IF v = "{}" THEN "[]" ELSE v

Goes(at, refused) == flow' = [flow EXCEPT !.at = at, !.refused = @ \/ refused]

(* Signs in, again after a failure. *)
SignIn ==
    /\ flow.at \in {"off", "failed"} /\ flow.runs < MaxFlows
    /\ flow' = [at |-> "dev_login", refused |-> FALSE, runs |-> flow.runs + 1, role |-> None]
    /\ Begins("app")
    /\ UNCHANGED role

Continues(at) == Goes(at, FALSE) /\ Begins("app")
Fails(refused) == Goes("failed", refused) /\ Answered("app") /\ UNCHANGED cursor

(* The role of an answer, as the application gets it. *)
Ready(doc) ==
    /\ flow' = [flow EXCEPT !.at = "ready", !.role = ParseJson(Stringify(doc))]
    /\ Answered("app") /\ UNCHANGED cursor

(* code other than OK, no token or role in the answer, or not JSON *)
Refused == /\ req["app"].on
           /\ Fails(TRUE)
           /\ UNCHANGED role

SignedIn ==
    /\ req["app"].on /\ flow.at = "dev_login"
    /\ Continues("servers") /\ UNCHANGED role

(* pickRecommendedServer: the recommended one, or the first; none fails. *)
ServersListed ==
    /\ req["app"].on /\ flow.at = "servers"
    /\ \E list \in {"{}", "[...]"} :
         IF AsArray(list) = "[...]" THEN Continues("roles") ELSE Fails(TRUE)
    /\ UNCHANGED role

(* ensureRole: the first role there is, or a new one *)
RolesListed ==
    /\ req["app"].on /\ flow.at = "roles"
    /\ LET list == AsArray(IF role = None THEN "{}" ELSE "[...]")
       IN  CASE list = "[...]" -> Ready(role)
             [] list = "[]"    -> Continues("create_role")
             [] OTHER          -> Fails(FALSE)
    /\ UNCHANGED role

(* A name is taken once: the account that has the role gets no second one. *)
RoleCreated ==
    /\ req["app"].on /\ flow.at = "create_role"
    /\ role' \in IF role = None THEN RoleDocs ELSE {role}
    /\ IF role = None THEN Ready(role') ELSE Fails(TRUE)

(* The host failed; a role may have been created all the same. *)
AppHostFails ==
    /\ req["app"].on
    /\ TriesNext("app")
    /\ IF LastHost("app") THEN Goes("failed", TRUE) ELSE UNCHANGED flow
    /\ role' \in IF flow.at = "create_role" /\ role = None THEN RoleDocs \cup {None} ELSE {role}
    /\ UNCHANGED cursor

AppNext == \/ SignIn \/ Refused \/ SignedIn \/ ServersListed \/ RolesListed \/ RoleCreated
           \/ AppHostFails

-----------------------------------------------------------------------------
(* The session layer asks for the gates whenever it connects. *)

AsksGates == /\ ~req["link"].on
             /\ Begins("link")
             /\ UNCHANGED <<flow, role>>

(* A list of gates, or a refusal: an answer in any case. *)
GatesListed == /\ req["link"].on
               /\ Answered("link")
               /\ UNCHANGED <<cursor, flow, role>>

LinkHostFails == /\ req["link"].on
                 /\ TriesNext("link")
                 /\ UNCHANGED <<cursor, flow, role>>

LinkNext == AsksGates \/ GatesListed \/ LinkHostFails

AccountNext == AppNext \/ LinkNext

AccountSpec == AccountInit /\ [][AccountNext]_accountVars

-----------------------------------------------------------------------------
AccountTypeOK ==
    /\ cursor \in HostIds
    /\ req \in [Callers -> [on : BOOLEAN, start : HostIds, i : HostIds, asked : SUBSET HostIds,
                            null : BOOLEAN]]
    /\ flow.at \in Stages /\ flow.refused \in BOOLEAN /\ flow.runs \in 0 .. MaxFlows
    /\ role \in RoleDocs \cup {None}

(* A request is given up only after every host was tried, whatever other     *)
(* requests do to the cursor meanwhile (request in account.ts).              *)
NullMeansAllTried == \A c \in Callers : req[c].null => req[c].asked = HostIds

(* Signing in fails only when something was refused or not answered: an      *)
(* account without roles is no failure (asArray, ensureRole).                *)
NoFalseFailure == flow.at = "failed" => flow.refused

(* The application that is ready has the account's own role: its id exactly, *)
(* as a bigint where a number would be rounded, and its name as it is,       *)
(* whatever digits and quotes it holds (json.ts: the server looks a role up   *)
(* by the exact id).                                                         *)
RoleExact == flow.at = "ready" =>
    /\ role # None
    /\ flow.role = [i \in DOMAIN role |-> Exact(role[i])]
=============================================================================
