------------------------------ MODULE Sessions -------------------------------
(***************************************************************************)
(* One user's sessions: auth/sessions.service.ts and its routes, met by the *)
(* tabs of one browser (lib/api/client.ts, lib/auth/), which share the      *)
(* refresh token and the claim in localStorage but each keep their access   *)
(* token in memory.                                                         *)
(*                                                                          *)
(* Every statement of a service is a step.  A request of a tab is worked on *)
(* by the tab's server job, which goes on when the tab has given up on it.  *)
(* Time is counted in ticks of the second that iat and                      *)
(* sessionsInvalidatedAt are compared in.                                   *)
(***************************************************************************)
EXTENDS Integers, FiniteSets, Sequences, SequencesExt

CONSTANTS Tabs,         \* the browsing contexts
          AccessTtl,    \* life of an access token, in ticks
          RefreshTtl,   \* life of a refresh token, in ticks
          LockTtl,      \* REFRESH_LOCK_TTL_MS, in ticks
          MaxTokens,    \* bound: rows of refresh_tokens
          MaxTime,      \* bound: ticks
          MaxEvents     \* bound: sign-outs, password changes, failures, reloads

ASSUME TtlAssumption == {AccessTtl, RefreshTtl, LockTtl} \subseteq Nat \ {0}
ASSUME BoundAssumption == {MaxTokens, MaxEvents} \subseteq Nat /\ MaxTime \in Nat \ {0}

None == 0   \* no token, no claim, no invalidation: times and tokens start at 1

VARIABLES rows,         \* refresh_tokens, in the order they were inserted
          invalidated,  \* users.sessionsInvalidatedAt
          now,          \* the clock
          jobs,         \* the server's work for each tab
          password,     \* the password change under way, if any
          stored,       \* localStorage: the refresh token
          claim,        \* localStorage: when an exchange was claimed
          tabs,         \* the tabs
          events,       \* those so far, for the bound
          excused       \* history: an answer was lost, or tabs raced for the claim

server == <<rows, invalidated, jobs, password>>
browser == <<stored, claim, tabs>>
vars == <<server, browser, now, events, excused>>

Reasons == {"none", "logout", "reuse_detected", "password_changed"}
Tokens == DOMAIN rows
FamilyOf(token) == {t \in Tokens : rows[t].family = rows[token].family}
Live(t) == rows[t].revoked = "none" /\ ~rows[t].rotated

Row(family) == [family |-> family, rotated |-> FALSE, revoked |-> "none", given |-> FALSE,
                expires |-> now + RefreshTtl]

(* What the guards accept: JwtAuthGuard, then TenantGuard. *)
Accepted(access) ==
    /\ access # None /\ now < access + AccessTtl
    /\ ~(invalidated # None /\ invalidated >= access)

NoJob == [pc |-> "none", token |-> None, next |-> None, access |-> None]
Tab == [pc |-> "idle", access |-> None, token |-> None]

Init ==
    /\ rows = <<>> /\ invalidated = None /\ password = "none"
    /\ jobs = [t \in Tabs |-> NoJob]
    /\ stored = None /\ claim = None /\ tabs = [t \in Tabs |-> Tab]
    /\ now = 1 /\ events = 0 /\ excused = FALSE

Tick ==
    /\ now < MaxTime /\ now' = now + 1
    /\ UNCHANGED <<server, browser, events, excused>>
-----------------------------------------------------------------------------
(* The server.  Goto moves a job on; Finished answers it, unless the tab    *)
(* no longer waits for it.                                                  *)
Job(tab, pc) == jobs[tab].pc = pc
Goto(tab, pc) == jobs' = [jobs EXCEPT ![tab].pc = pc]
Finished(tab, pc) ==
    jobs' = [jobs EXCEPT ![tab] =
                IF tabs[tab].pc = "exchanging" THEN [NoJob EXCEPT !.pc = pc] ELSE NoJob]

Revoked(tokens, reason) ==
    rows' = [t \in Tokens |->
                IF t \in tokens /\ rows[t].revoked = "none"
                THEN [rows[t] EXCEPT !.revoked = reason] ELSE rows[t]]

ServerStep == UNCHANGED <<invalidated, password, browser, now, events, excused>>

(* rotate: the row is found and is neither revoked nor expired. *)
RotateFind(tab) ==
    /\ Job(tab, "refresh")
    /\ LET row == rows[jobs[tab].token]
       IN IF row.revoked # "none" \/ row.expires <= now THEN Finished(tab, "rejected")
          ELSE Goto(tab, "claim")
    /\ UNCHANGED rows /\ ServerStep

(* Mutant: the claim trusts the read and is not conditional. *)
RotateClaimUnconditional(tab) ==
    /\ Job(tab, "claim")
    /\ rows' = [rows EXCEPT ![jobs[tab].token].rotated = TRUE]
    /\ Goto(tab, "insert")
    /\ ServerStep

(* Mutant: the condition of the claim leaves out revokedAt. *)
RotateClaimRevoked(tab) ==
    /\ Job(tab, "claim")
    /\ IF ~rows[jobs[tab].token].rotated
       THEN rows' = [rows EXCEPT ![jobs[tab].token].rotated = TRUE] /\ Goto(tab, "insert")
       ELSE UNCHANGED rows /\ Goto(tab, "reuse")
    /\ ServerStep

(* rotate: the conditional update; no row affected is reuse. *)
RotateClaim(tab) ==
    /\ Job(tab, "claim")
    /\ IF Live(jobs[tab].token)
       THEN rows' = [rows EXCEPT ![jobs[tab].token].rotated = TRUE] /\ Goto(tab, "insert")
       ELSE UNCHANGED rows /\ Goto(tab, "reuse")
    /\ ServerStep

RotateReuse(tab) ==
    /\ Job(tab, "reuse")
    /\ Revoked(FamilyOf(jobs[tab].token), "reuse_detected")
    /\ Finished(tab, "rejected")
    /\ ServerStep

(* The replacement; the link to it decides nothing and is left out. *)
RotateInsert(tab) ==
    /\ Job(tab, "insert") /\ Len(rows) < MaxTokens
    /\ rows' = Append(rows, Row(rows[jobs[tab].token].family))
    /\ jobs' = [jobs EXCEPT ![tab].pc = "recheck", ![tab].next = Len(rows) + 1]
    /\ ServerStep

(* Mutant: the family is not looked at again. *)
RotateRecheckNothing(tab) ==
    /\ Job(tab, "recheck")
    /\ rows' = [rows EXCEPT ![jobs[tab].next].given = TRUE]
    /\ jobs' = [jobs EXCEPT ![tab].pc = "granted", ![tab].access = now]
    /\ ServerStep

(* rotate: a sweep may have run before the replacement existed.  What is    *)
(* granted is signed as an access token of this moment.                     *)
RotateRecheck(tab) ==
    /\ Job(tab, "recheck")
    /\ IF \E t \in FamilyOf(jobs[tab].token) : rows[t].revoked = "reuse_detected"
       THEN UNCHANGED rows /\ Goto(tab, "reuse")
       ELSE /\ rows' = [rows EXCEPT ![jobs[tab].next].given = TRUE]
            /\ jobs' = [jobs EXCEPT ![tab].pc = "granted", ![tab].access = now]
    /\ ServerStep

(* login: issue a family of its own and sign. *)
Issue(tab) ==
    /\ Job(tab, "login") /\ Len(rows) < MaxTokens
    /\ rows' = Append(rows, [Row(Len(rows) + 1) EXCEPT !.given = TRUE])
    /\ jobs' = [jobs EXCEPT ![tab] = [pc |-> "granted", token |-> None, next |-> Len(rows) + 1,
                                      access |-> now]]
    /\ ServerStep

(* Mutant: a logout revokes the row that was presented, not its family. *)
RevokeRow(tab) ==
    /\ Job(tab, "logout")
    /\ Revoked({jobs[tab].token}, "logout") /\ Goto(tab, "invalidate")
    /\ ServerStep

(* logout: the family, then every access token of the user. *)
Revoke(tab) ==
    /\ Job(tab, "logout")
    /\ Revoked(FamilyOf(jobs[tab].token), "logout") /\ Goto(tab, "invalidate")
    /\ ServerStep

LogoutInvalidates(tab) ==
    /\ Job(tab, "invalidate")
    /\ invalidated' = now /\ Finished(tab, "rejected")
    /\ UNCHANGED <<rows, password, browser, now, events, excused>>

Happens == events < MaxEvents /\ events' = events + 1

(* resetPassword: every session of the user, then every access token. *)
PasswordChanged ==
    \/ /\ password = "none" /\ Happens /\ Revoked(Tokens, "password_changed")
       /\ password' = "revoked" /\ UNCHANGED invalidated
    \/ /\ password = "revoked" /\ invalidated' = now
       /\ password' = "done" /\ UNCHANGED <<rows, events>>

ChangePassword ==
    PasswordChanged /\ UNCHANGED <<jobs, browser, now, excused>>

(* A server process dies with the request it works on. *)
JobDies(tab) ==
    /\ jobs[tab].pc \notin {"none", "granted", "rejected"} /\ Happens
    /\ Finished(tab, "dead") /\ excused' = TRUE
    /\ UNCHANGED <<rows, invalidated, password, browser, now>>

-----------------------------------------------------------------------------
(* The tabs.                                                                *)
At(tab, pc) == tabs[tab].pc = pc
Turn(tab, pc) == tabs' = [tabs EXCEPT ![tab].pc = pc]
TabStep == UNCHANGED <<server, now, events, excused>>

(* refreshIsLocked *)
Locked == claim # None /\ now - claim < LockTtl

(* clearSession, onSignOut *)
ClearSession(tab) ==
    /\ stored' = None /\ claim' = None
    /\ tabs' = [tabs EXCEPT ![tab] = Tab]

(* setSession *)
SetSession(tab, pc) ==
    /\ stored' = jobs[tab].next
    /\ tabs' = [tabs EXCEPT ![tab] = [pc |-> pc, access |-> jobs[tab].access, token |-> None]]

Start(tab, pc, token) ==
    jobs' = [jobs EXCEPT ![tab] = [pc |-> pc, token |-> token, next |-> None, access |-> None]]

(* signIn *)
SignIn(tab) ==
    /\ At(tab, "idle") /\ Job(tab, "none") /\ stored = None
    /\ Start(tab, "login", None) /\ Turn(tab, "exchanging")
    /\ UNCHANGED <<rows, invalidated, password, stored, claim, now, events, excused>>

(* signOut clears the session whatever becomes of the call. *)
SignOut(tab) ==
    /\ At(tab, "idle") /\ Job(tab, "none") /\ stored # None /\ Happens
    /\ Start(tab, "logout", stored) /\ ClearSession(tab)
    /\ UNCHANGED <<rows, invalidated, password, now, excused>>

(* apiRequest: a request that is refused with 401 starts a refresh. *)
Request(tab) ==
    /\ At(tab, "idle") /\ stored # None /\ ~Accepted(tabs[tab].access)
    /\ Turn(tab, "refresh") /\ UNCHANGED <<stored, claim>> /\ TabStep

(* Two tabs read the claim as free before either writes it, or a claim is   *)
(* too old to be heeded although its exchange goes on.                      *)
Raced(tab) ==
    \E t \in Tabs \ {tab} :
        \/ At(t, "free")
        \/ At(t, "exchanging") /\ claim # None /\ now - claim >= LockTtl

(* Mutant: a context that finds the claim held exchanges all the same. *)
ReadClaimUnheeded(tab) ==
    /\ At(tab, "refresh")
    /\ tabs' = [tabs EXCEPT ![tab].token = stored,
                   ![tab].pc = IF stored = None THEN "idle" ELSE "free"]
    /\ excused' = (excused \/ Raced(tab))
    /\ UNCHANGED <<server, stored, claim, now, events>>

(* performRefresh: read the token, then the claim. *)
ReadClaim(tab) ==
    /\ At(tab, "refresh")
    /\ tabs' = [tabs EXCEPT ![tab].token = stored,
                   ![tab].pc = IF stored = None THEN "idle"
                               ELSE IF Locked THEN "waiting" ELSE "free"]
    /\ excused' = (excused \/ Raced(tab))
    /\ UNCHANGED <<server, stored, claim, now, events>>

(* Mutant: the claim is written as a deadline and read as a start. *)
ExchangeDeadline(tab) ==
    /\ At(tab, "free") /\ Job(tab, "none")
    /\ claim' = now + LockTtl
    /\ Start(tab, "refresh", tabs[tab].token) /\ Turn(tab, "exchanging")
    /\ UNCHANGED <<rows, invalidated, password, stored, now, events, excused>>

(* performRefresh: claim, and post the token read.  localStorage cannot     *)
(* compare and swap: another tab may have claimed since the read.           *)
Exchange(tab) ==
    /\ At(tab, "free") /\ Job(tab, "none")
    /\ claim' = now
    /\ Start(tab, "refresh", tabs[tab].token) /\ Turn(tab, "exchanging")
    /\ UNCHANGED <<rows, invalidated, password, stored, now, events, excused>>

Exchanging(tab) == At(tab, "exchanging")

(* What the server has answered, or has not, reaches nobody any more.       *)
Abandoned(tab) ==
    jobs' = IF jobs[tab].pc \in {"granted", "rejected", "dead"}
            THEN [jobs EXCEPT ![tab] = NoJob] ELSE jobs

(* Mutant: the access token is kept and the new refresh token forgotten. *)
GrantedAccessOnly(tab) ==
    /\ Exchanging(tab) /\ Job(tab, "granted")
    /\ stored' = IF stored = None THEN jobs[tab].next ELSE stored
    /\ tabs' = [tabs EXCEPT ![tab] = [pc |-> "idle", access |-> jobs[tab].access, token |-> None]]
    /\ claim' = IF jobs[tab].token = None THEN claim ELSE None
    /\ Finished(tab, "none")
    /\ UNCHANGED <<rows, invalidated, password, now, events, excused>>

(* exchangeRefreshToken: the answer is stored and the claim released. *)
Granted(tab) ==
    /\ Exchanging(tab) /\ Job(tab, "granted")
    /\ SetSession(tab, IF jobs[tab].token = None THEN "idle" ELSE "retry")
    /\ claim' = IF jobs[tab].token = None THEN claim ELSE None
    /\ Finished(tab, "none")
    /\ UNCHANGED <<rows, invalidated, password, now, events, excused>>

Rejected(tab) ==
    /\ Exchanging(tab) /\ Job(tab, "rejected")
    /\ ClearSession(tab) /\ Finished(tab, "none")
    /\ UNCHANGED <<rows, invalidated, password, now, events, excused>>

(* The call fails, or its answer is lost; the claim is released. *)
Unreachable(tab) ==
    /\ Exchanging(tab) /\ IF Job(tab, "dead") THEN UNCHANGED events ELSE Happens
    /\ claim' = IF tabs[tab].token = None THEN claim ELSE None
    /\ tabs' = [tabs EXCEPT ![tab].pc = "idle", ![tab].token = None]
    /\ excused' = TRUE /\ Abandoned(tab)
    /\ UNCHANGED <<rows, invalidated, password, stored, now>>

(* A navigation: memory is gone, localStorage stays, and so does a claim. *)
Reload(tab) ==
    /\ ~At(tab, "idle") /\ Happens
    /\ tabs' = [tabs EXCEPT ![tab] = Tab]
    /\ excused' = (excused \/ Exchanging(tab)) /\ Abandoned(tab)
    /\ UNCHANGED <<rows, invalidated, password, stored, claim, now>>

(* waitForRotation: gone, changed, or given up on. *)
Waited(tab) ==
    /\ At(tab, "waiting")
    /\ tabs' = [tabs EXCEPT ![tab].token = None,
                   ![tab].pc = IF stored \notin {None, tabs[tab].token} THEN "retry" ELSE "idle"]
    /\ UNCHANGED <<stored, claim>> /\ TabStep

(* The request is sent once more; what it is answered goes to the caller. *)
Retry(tab) ==
    /\ At(tab, "retry")
    /\ Turn(tab, "idle")
    /\ UNCHANGED <<stored, claim>> /\ TabStep

Server(tab) ==
    \/ RotateFind(tab) \/ RotateClaim(tab) \/ RotateReuse(tab) \/ RotateInsert(tab)
    \/ RotateRecheck(tab) \/ Issue(tab) \/ Revoke(tab) \/ LogoutInvalidates(tab)
    \/ JobDies(tab)

Browser(tab) ==
    \/ SignIn(tab) \/ SignOut(tab) \/ Request(tab) \/ ReadClaim(tab) \/ Exchange(tab)
    \/ Granted(tab) \/ Rejected(tab) \/ Unreachable(tab) \/ Reload(tab)
    \/ Waited(tab) \/ Retry(tab)

Next == Tick \/ ChangePassword \/ \E tab \in Tabs : Server(tab) \/ Browser(tab)

Spec == Init /\ [][Next]_vars
-----------------------------------------------------------------------------
TypeOK ==
    /\ rows \in Seq([family : 1..MaxTokens, rotated : BOOLEAN, revoked : Reasons,
                     given : BOOLEAN, expires : Nat])
    /\ Len(rows) <= MaxTokens
    /\ {stored} \cup {tabs[t].token : t \in Tabs} \subseteq Tokens \cup {None}
    /\ {jobs[t].token : t \in Tabs} \cup {jobs[t].next : t \in Tabs} \subseteq Tokens \cup {None}
    /\ now \in 1..MaxTime /\ {claim, invalidated} \subseteq 0..now
    /\ events \in 0..MaxEvents /\ excused \in BOOLEAN
    /\ password \in {"none", "revoked", "done"}

(* A session is one chain: however many requests present its tokens, at     *)
(* most one of them can still be exchanged (the claim of rotate).           *)
OneSuccessor ==
    \A t, u \in Tokens : rows[t].family = rows[u].family /\ Live(t) /\ Live(u) => t = u

(* Once reuse of a session was detected, no token anybody was given of it   *)
(* can be exchanged, the one of a rotation that was under way included.     *)
ReuseEndsSession ==
    \A t, u \in Tokens :
        (/\ rows[t].family = rows[u].family
         /\ rows[t].revoked = "reuse_detected" /\ rows[u].given) => rows[u].revoked # "none"

(* A session with nothing left to exchange, and no rotation of it past its  *)
(* claim, is over for good.                                                 *)
Over(family) ==
    /\ \A t \in Tokens : rows[t].family = family => rows[t].revoked # "none"
    /\ \A tab \in Tabs : Job(tab, "insert") => rows[jobs[tab].token].family # family

EndedStaysEnded ==
    [][\A t \in Tokens : Over(rows[t].family) => Over(rows[t].family)']_vars

(* A logout leaves nothing of the session that is not revoked, except what  *)
(* a rotation already past its claim is about to insert.                    *)
Sweeps(tab) ==
    Job(tab, "logout") /\ jobs'[tab].pc = "invalidate" =>
        \A t \in FamilyOf(jobs[tab].token) : rows'[t].revoked # "none"

LogoutSweeps == [][\A tab \in Tabs : Sweeps(tab)]_vars

(* The claim of the tabs does its work (refresh-lock.ts): unless an answer  *)
(* was lost or two tabs read the claim as free, the user's own refreshes    *)
(* are never taken for reuse.                                               *)
NoSpuriousReuse ==
    (\E t \in Tokens : rows[t].revoked = "reuse_detected") => excused

(* Without such a fault the browser never falls behind the server: the      *)
(* token it holds was rotated only by an exchange whose answer is to come.  *)
StorageCurrent ==
    stored # None /\ rows[stored].rotated /\ ~excused =>
        \E tab \in Tabs : Exchanging(tab) /\ tabs[tab].token = stored

(* client.ts:261: a context that waited for another one's rotation "waits   *)
(* for the other context to store the new token and then uses it".          *)
RetryUsesNewToken ==
    [][\A tab \in Tabs : At(tab, "waiting") /\ tabs'[tab].pc = "retry" =>
          tabs'[tab].access # tabs[tab].access]_vars

(* sessions.service.ts:193: revoking the family means a token "cannot be    *)
(* used to continue after a logout".                                        *)
LogoutEndsSession ==
    \A t, u \in Tokens :
        (/\ rows[t].family = rows[u].family
         /\ rows[t].revoked = "logout" /\ rows[u].given) => rows[u].revoked # "none"
=============================================================================
