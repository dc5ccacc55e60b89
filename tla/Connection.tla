----------------------------- MODULE Connection ------------------------------
(***************************************************************************)
(* One WordPress site and the workspaces it may be connected to: the        *)
(* handshake (stores/connect.service.ts; Handshake, Callback), what ends or *)
(* re-keys a connection (stores/stores.service.ts, ConnectionSection) and   *)
(* the two state machines that are meant to agree (store-state.ts,          *)
(* StateMachine).                                                           *)
(*                                                                          *)
(* Requests are the PHP requests of the site: an administrator's, or one of *)
(* cron.  A request keeps the connection state it read first (get_option    *)
(* caches it), and Api\Client sends again what it got no answer to.  The    *)
(* code is what the browser carries back, so a code once approved may be    *)
(* presented at any time and any number of times.                           *)
(***************************************************************************)
EXTENDS Integers, FiniteSets, Sequences, SequencesExt

CONSTANTS Requests,     \* PHP requests at the same time
          Tenants,      \* workspaces the merchant may choose from
          MaxCodes,     \* bound: connection requests
          MaxRotations, \* bound: credentials replaced
          MaxFaults     \* bound: answers lost, requests that die, expiries

ASSUME BoundAssumption == {MaxCodes, MaxRotations, MaxFaults} \subseteq Nat

None == 0   \* no code, no credential

VARIABLES codes,        \* store_connection_codes
          status,       \* stores.status of the site's store in each workspace
          pushUrl,      \* stores.pushUrl, as whether there is one
          keys,         \* store_credentials
          rotating,     \* the workspace whose rotation has passed its check
          state,        \* OPTION_CONNECTION_STATE
          token,        \* OPTION_STORE_TOKEN
          handshake,    \* OPTION_HANDSHAKE: the code that is being waited for
          jobs,         \* the requests
          faults,       \* those so far
          closed,       \* history: codes approved before a disconnect of their store
          outrun        \* history: workspaces a rotation wrote to after it was ended

cloud == <<codes, status, pushUrl, keys, rotating, closed, outrun>>
plugin == <<state, token, handshake>>
vars == <<cloud, plugin, jobs, faults>>

States == {"disconnected", "connecting", "connected", "error", "revoked"}
Nobody == [pc |-> "idle"]
Absent == "absent"
ASSUME TenantAssumption == {Absent, "none"} \cap Tenants = {}

(* ALLOWED_FROM, the same table on both sides. *)
AllowedFrom(to) ==
    CASE to = "connecting" -> States
      [] to = "connected" -> {"connecting", "error"}
      [] to = "error" -> {"connected", "error"}
      [] to = "disconnected" -> States
      [] to = "revoked" -> States \ {"disconnected"}

Init ==
    /\ codes = <<>> /\ keys = <<>> /\ rotating = "none"
    /\ status = [t \in Tenants |-> Absent] /\ pushUrl = [t \in Tenants |-> FALSE]
    /\ state = "disconnected" /\ token = None /\ handshake = None
    /\ jobs = [r \in Requests |-> Nobody] /\ faults = 0
    /\ closed = {} /\ outrun = {}

At(r, pc) == jobs[r].pc = pc
Start(r, job) == At(r, "idle") /\ jobs' = [jobs EXCEPT ![r] = job]
Goto(r, pc) == jobs' = [jobs EXCEPT ![r].pc = pc]
Done(r) == jobs' = [jobs EXCEPT ![r] = Nobody]

(* StateMachine.transition, on the state this request has seen. *)
Transition(seen, to) == state' = IF seen \in AllowedFrom(to) THEN to ELSE state

(* What optionia_unauthorized makes of a 401. *)
(* Mutant: the state is named after the answer. *)
UnauthorizedNamed(seen) ==
    IF seen \in {"connected", "error"} THEN "unauthorized" ELSE seen
Unauthorized(seen) ==
    IF seen \in {"connected", "error"} THEN "revoked" ELSE seen

Honoured(k) == k # None /\ keys[k].live
MintedFor(t, code) == [tenant |-> t, live |-> TRUE, code |-> code]
Retired(t) == [k \in DOMAIN keys |-> IF keys[k].tenant = t
                                     THEN [keys[k] EXCEPT !.live = FALSE] ELSE keys[k]]
-----------------------------------------------------------------------------
(* The handshake.  maybe_connect: /connect/initiate, then the browser goes. *)
ConnectStart(r) ==
    /\ Start(r, [pc |-> "initiate"])
    /\ UNCHANGED <<cloud, plugin, faults>>

InitiateFails(r) ==
    /\ At(r, "initiate") /\ Done(r)
    /\ UNCHANGED <<cloud, plugin, faults>>

Initiate(r) ==
    /\ At(r, "initiate") /\ Len(codes) < MaxCodes
    /\ codes' = Append(codes, [tenant |-> Absent, spent |-> FALSE, expired |-> FALSE])
    /\ jobs' = [jobs EXCEPT ![r] = [pc |-> "remember", code |-> Len(codes) + 1]]
    /\ UNCHANGED <<status, pushUrl, keys, rotating, closed, outrun, plugin, faults>>

Remember(r) ==
    /\ At(r, "remember") /\ Done(r)
    /\ handshake' = jobs[r].code /\ Transition(state, "connecting")
    /\ UNCHANGED <<cloud, token, faults>>

(* authorize: the row as its SELECT names it, which is without pushUrl. *)
SelectedPushUrl(c) == FALSE

(* Mutant: the claim does not ask whether the request was approved. *)
AnyRequest(c) == TRUE
Unapproved(c) == codes[c].tenant = Absent

Authorize(c, t) ==
    /\ Unapproved(c) /\ ~codes[c].expired
    /\ codes' = [codes EXCEPT ![c].tenant = t]
    /\ status' = [status EXCEPT ![t] = "connecting"]
    /\ pushUrl' = [pushUrl EXCEPT ![t] = SelectedPushUrl(c)]
    /\ UNCHANGED <<keys, rotating, closed, outrun, plugin, jobs, faults>>

RequestExpires(c) ==
    /\ ~codes[c].expired /\ faults < MaxFaults /\ faults' = faults + 1
    /\ codes' = [codes EXCEPT ![c].expired = TRUE]
    /\ UNCHANGED <<status, pushUrl, keys, rotating, closed, outrun, plugin, jobs>>

(* The browser presents a code; it is looked at if its state is the one     *)
(* waited for.                                                              *)
CallbackStart(r, c) ==
    /\ codes[c].tenant # Absent /\ handshake = c
    /\ Start(r, [pc |-> "exchange", code |-> c])
    /\ UNCHANGED <<cloud, plugin, faults>>

(* exchange: the code is read ... *)
ExchangeRead(r) ==
    /\ At(r, "exchange")
    /\ LET code == codes[jobs[r].code]
       IN Goto(r, IF code.spent \/ code.expired THEN "refused" ELSE "spend")
    /\ UNCHANGED <<cloud, plugin, faults>>

(* ... and spent, in one transaction with the credential and the state. *)
(* Mutant: the spend does not ask whether the code is spent. *)
SpendableOnce(c) == status[codes[c].tenant] \in AllowedFrom("connected")
Spendable(c) == ~codes[c].spent /\ status[codes[c].tenant] \in AllowedFrom("connected")

Spend(r) ==
    /\ At(r, "spend")
    /\ LET c == jobs[r].code
           t == codes[c].tenant
       IN IF Spendable(c)
          THEN /\ codes' = [codes EXCEPT ![c].spent = TRUE]
               /\ keys' = Append(keys, MintedFor(t, c))
               /\ status' = [status EXCEPT ![t] = "connected"]
               /\ jobs' = [jobs EXCEPT ![r] =
                              [pc |-> "granted", code |-> c, key |-> Len(keys) + 1]]
          ELSE UNCHANGED <<codes, keys, status>> /\ Goto(r, "refused")
    /\ UNCHANGED <<pushUrl, rotating, closed, outrun, plugin, faults>>

(* The answer is lost on its way, and Client::request sends once more. *)
AnswerLost(r) ==
    /\ jobs[r].pc \in {"granted", "refused"}
    /\ faults < MaxFaults /\ faults' = faults + 1
    /\ jobs' = [jobs EXCEPT ![r] = [pc |-> "exchange", code |-> jobs[r].code]]
    /\ UNCHANGED <<cloud, plugin>>

(* TOKEN_INVALID is a 401, so it is announced before it is handled. *)
CallbackRefused(r) ==
    /\ At(r, "refused") /\ Done(r)
    /\ handshake' = None /\ Transition(Unauthorized(state), "disconnected")
    /\ UNCHANGED <<cloud, token, faults>>

(* Every attempt failed, or the circuit is open. *)
CallbackFailed(r) ==
    /\ jobs[r].pc \in {"exchange", "granted"}
    /\ faults < MaxFaults /\ faults' = faults + 1
    /\ Done(r)
    /\ handshake' = None /\ Transition(state, "disconnected")
    /\ UNCHANGED <<cloud, token>>

CallbackForget(r) ==
    /\ At(r, "granted") /\ Goto(r, "save") /\ handshake' = None
    /\ UNCHANGED <<cloud, state, token, faults>>

CallbackSave(r) ==
    /\ At(r, "save") /\ Goto(r, "arrive") /\ token' = jobs[r].key
    /\ UNCHANGED <<cloud, state, handshake, faults>>

CallbackArrive(r) ==
    /\ At(r, "arrive") /\ Done(r) /\ Transition(state, "connected")
    /\ UNCHANGED <<cloud, token, handshake, faults>>

HandshakeExpires ==
    /\ handshake # None /\ faults < MaxFaults /\ faults' = faults + 1
    /\ handshake' = None
    /\ UNCHANGED <<cloud, state, token, jobs>>

Connecting(r) ==
    \/ ConnectStart(r) \/ Initiate(r) \/ InitiateFails(r) \/ Remember(r)
    \/ ExchangeRead(r) \/ Spend(r) \/ AnswerLost(r)
    \/ CallbackRefused(r) \/ CallbackFailed(r)
    \/ CallbackForget(r) \/ CallbackSave(r) \/ CallbackArrive(r)
    \/ \E c \in DOMAIN codes : CallbackStart(r, c)
-----------------------------------------------------------------------------
(* The end of a connection.  StoresService.disconnect is one transaction:   *)
(* credentials, state, then the codes still out.                            *)
(* Mutant: the codes that are out stay redeemable. *)
CodesLeftOut(t) == codes
CodesSpentOf(t) ==
    [c \in DOMAIN codes |-> IF codes[c].tenant = t
                            THEN [codes[c] EXCEPT !.spent = TRUE] ELSE codes[c]]

(* Mutant: the state moves and the credentials stay. *)
KeysKept(t) == keys
KeysRevoked(t) == Retired(t)

EndStore(t) ==
    /\ keys' = KeysRevoked(t)
    /\ status' = [status EXCEPT ![t] = "disconnected"]
    /\ codes' = CodesSpentOf(t)
    /\ closed' = closed \cup {c \in DOMAIN codes : codes[c].tenant = t}
    /\ outrun' = outrun \ {t}
    /\ UNCHANGED <<pushUrl, rotating>>

DashboardDisconnects(t) ==
    /\ status[t] # Absent /\ EndStore(t)
    /\ UNCHANGED <<plugin, jobs, faults>>

(* rotate: the state is read, then the credential is replaced. *)
RotateCheck(t) ==
    /\ rotating = "none" /\ status[t] \in {"connected", "error"}
    /\ Cardinality({k \in DOMAIN keys : keys[k].code = None}) < MaxRotations
    /\ rotating' = t
    /\ UNCHANGED <<codes, status, pushUrl, keys, closed, outrun, plugin, jobs, faults>>

(* Mutant: the old credentials are revoked after the new one is inserted. *)
RotatedLate(t) == Append(Retired(t), [MintedFor(t, None) EXCEPT !.live = FALSE])
Rotated(t) == Append(Retired(t), MintedFor(t, None))

RotateWrite(t) ==
    /\ rotating = t /\ rotating' = "none"
    /\ keys' = Rotated(t)
    /\ outrun' = IF status[t] = "disconnected" THEN outrun \cup {t} ELSE outrun
    /\ UNCHANGED <<codes, status, pushUrl, closed, plugin, jobs, faults>>

(* maybe_disconnect: the cloud is told first, with what is still held, and  *)
(* whatever it says the connection is cleared.                              *)
DisconnectStart(r) ==
    /\ token # None
    /\ Start(r, [pc |-> "disconnect", key |-> token])
    /\ UNCHANGED <<cloud, plugin, faults>>

DisconnectTold(r) ==
    /\ At(r, "disconnect") /\ Honoured(jobs[r].key) /\ Goto(r, "clear")
    /\ EndStore(keys[jobs[r].key].tenant)
    /\ UNCHANGED <<plugin, faults>>

DisconnectRefused(r) ==
    /\ At(r, "disconnect") /\ ~Honoured(jobs[r].key) /\ Goto(r, "clear")
    /\ state' = Unauthorized(state)
    /\ UNCHANGED <<cloud, token, handshake, faults>>

DisconnectUnheard(r) ==
    /\ At(r, "disconnect") /\ faults < MaxFaults /\ faults' = faults + 1
    /\ Goto(r, "clear")
    /\ UNCHANGED <<cloud, plugin>>

DisconnectClear(r) ==
    /\ At(r, "clear") /\ Goto(r, "leave") /\ token' = None
    /\ UNCHANGED <<cloud, state, handshake, faults>>

(* Mutant: the handshake that is waited for stays. *)
HandshakeKept == handshake
HandshakeForgotten == None

DisconnectLeave(r) ==
    /\ At(r, "leave") /\ Done(r)
    /\ handshake' = HandshakeForgotten /\ Transition(state, "disconnected")
    /\ UNCHANGED <<cloud, token, faults>>

Disconnecting(r) ==
    \/ DisconnectStart(r) \/ DisconnectTold(r) \/ DisconnectRefused(r)
    \/ DisconnectUnheard(r) \/ DisconnectClear(r) \/ DisconnectLeave(r)
-----------------------------------------------------------------------------
(* Cron.  A heartbeat asks with the credential it holds; a 401 is the only  *)
(* answer that moves the state.                                             *)
HeartbeatStart(r) ==
    /\ state # "disconnected"
    /\ Start(r, [pc |-> "beat", key |-> token, seen |-> state])
    /\ UNCHANGED <<cloud, plugin, faults>>

HeartbeatAnswered(r) ==
    /\ At(r, "beat")
    /\ IF Honoured(jobs[r].key) THEN Done(r) ELSE Goto(r, "unauthorized")
    /\ UNCHANGED <<cloud, plugin, faults>>

HeartbeatRevoked(r) ==
    /\ At(r, "unauthorized") /\ Done(r)
    /\ state' = IF Unauthorized(jobs[r].seen) = "revoked" THEN "revoked" ELSE state
    /\ UNCHANGED <<cloud, token, handshake, faults>>

Heartbeat(r) == HeartbeatStart(r) \/ HeartbeatAnswered(r) \/ HeartbeatRevoked(r)

(* A sync that failed, or that works again (ConfigSync has the rest). *)
SyncFails ==
    /\ state = "connected" /\ state' = "error" /\ faults < MaxFaults /\ faults' = faults + 1
    /\ UNCHANGED <<cloud, token, handshake, jobs>>

SyncRecovers ==
    /\ state = "error" /\ Honoured(token) /\ state' = "connected"
    /\ UNCHANGED <<cloud, token, handshake, jobs, faults>>

(* The PHP process ends part way. *)
Dies(r) ==
    /\ ~At(r, "idle") /\ faults < MaxFaults /\ faults' = faults + 1 /\ Done(r)
    /\ UNCHANGED <<cloud, plugin>>

Next ==
    \/ \E r \in Requests : Connecting(r) \/ Disconnecting(r) \/ Heartbeat(r) \/ Dies(r)
    \/ \E t \in Tenants : \/ DashboardDisconnects(t) \/ RotateCheck(t) \/ RotateWrite(t)
                          \/ \E c \in DOMAIN codes : Authorize(c, t)
    \/ \E c \in DOMAIN codes : RequestExpires(c)
    \/ HandshakeExpires \/ SyncFails \/ SyncRecovers

Spec == Init /\ [][Next]_vars
-----------------------------------------------------------------------------
Key == [tenant : Tenants, live : BOOLEAN, code : 0 .. MaxCodes]
Code == [tenant : Tenants \cup {Absent}, spent : BOOLEAN, expired : BOOLEAN]

(* Every variable has its type. *)
TypeOK ==
    /\ codes \in Seq(Code) /\ keys \in Seq(Key)
    /\ status \in [Tenants -> States \cup {Absent}] /\ pushUrl \in [Tenants -> BOOLEAN]
    /\ rotating \in Tenants \cup {"none"}
    /\ state \in States /\ token \in 0 .. Len(keys) /\ handshake \in 0 .. Len(codes)
    /\ faults \in 0 .. MaxFaults /\ closed \subseteq DOMAIN codes /\ outrun \subseteq Tenants

(* A code gives one credential, however often its answer is lost and it is  *)
(* presented again (connect.service.ts, "what decides between two           *)
(* simultaneous redemptions").                                              *)
OneKeyPerCode ==
    \A k1, k2 \in DOMAIN keys :
        keys[k1].code # None /\ keys[k1].code = keys[k2].code => k1 = k2

(* A request approved into one workspace is never approved into another     *)
(* ("Two simultaneous approvals must not mint two codes").                  *)
ApprovesOnce ==
    \A c \in DOMAIN codes : codes[c].tenant # Absent => codes'[c].tenant = codes[c].tenant

ApprovedOnce == [][ApprovesOnce]_vars

(* A code approved before the merchant disconnected gives no credential     *)
(* after it, not even once a new handshake has made the store connecting    *)
(* again (stores.service.ts, "spend any pending connection code").          *)
LeavesClosed == \A k \in DOMAIN keys' \ DOMAIN keys : keys'[k].code \notin closed

OldCodeStaysDead == [][LeavesClosed]_vars

(* A disconnected store has no credential that is still honoured, unless a  *)
(* rotation that checked before the disconnect wrote after it.              *)
EndedHoldsNoKey ==
    \A t \in Tenants \ outrun : status[t] = "disconnected" =>
        \A k \in DOMAIN keys : keys[k].tenant = t => ~keys[k].live

(* A connected store has a credential that is honoured: neither an exchange *)
(* nor a rotation that races a disconnect leaves it without ("a failure     *)
(* cannot leave a store connected with no credential").                     *)
ConnectedHasKey ==
    \A t \in Tenants : status[t] = "connected" =>
        \E k \in DOMAIN keys : keys[k].tenant = t /\ keys[k].live

(* A plugin that says it is disconnected waits for no code: the browser     *)
(* cannot finish, after a disconnect, a handshake that was begun before.    *)
NoHandshakeAfterLeaving ==
    (\A r \in Requests : At(r, "idle")) /\ state = "disconnected"
        => handshake = None

(* Refuted.  A store that connects can be pushed to (connect.service.ts,    *)
(* "Refresh the push URL on every reconnect"): every plugin this handshake  *)
(* is spoken with sends one.                                                *)
ConnectedIsPushed == \A t \in Tenants : status[t] = "connected" => pushUrl[t]
=============================================================================
