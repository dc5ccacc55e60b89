------------------------------ MODULE Workspace ------------------------------
(***************************************************************************)
(* One tenant: its team (tenants/team.service.ts), the plan's allowances    *)
(* (usage/, with the services that ask them) and the one-time links of an   *)
(* account (auth/auth-tokens.service.ts, auth/auth.service.ts).             *)
(*                                                                          *)
(* A request reads, then writes what it decided; no lock spans the two, as  *)
(* a read in a transaction of the database is a read of a snapshot.  One    *)
(* transaction is one step from its first write on.                         *)
(***************************************************************************)
EXTENDS Integers, FiniteSets, Sequences, SequencesExt

CONSTANTS Requests,     \* the requests a server works on at once
          People,       \* those who are or may become members
          Founder,      \* who registered the workspace
          Sets,         \* identities of option sets
          Products,     \* products of the store
          Limits,       \* values an administrator gives a plan's limit
          MaxWork       \* bound: requests, and invitations and links with them

Metrics == {"team_seats", "option_sets", "products_assigned"}
Roles == {"owner", "admin", "viewer"}

VARIABLES members,      \* tenant_members: role and revokedAt of each person's row
          invitations,  \* tenant_invitations, in the order they were sent
          sets,         \* option_sets not deleted
          assigned,     \* option_set_assignments not deleted
          limits,       \* plans.limits
          links,        \* password_reset_tokens of one account
          jobs,         \* what each request has read and where it is
          work,         \* requests so far, for the bound
          peak,         \* history: the highest limit each metric has had
          joins,        \* history: how often each invitation was accepted
          overwrote,    \* history: a statement with no count wrote an owner's row
          settled       \* history: links there were when a reset finished

team == <<members, invitations, joins, overwrote>>
usage == <<sets, assigned, limits, peak>>
account == <<links, settled>>
vars == <<team, usage, account, jobs, work>>

NoMember == [role |-> "none", live |-> FALSE]
Idle == [pc |-> "idle"]

Owners(rows) == {p \in People : rows[p].live /\ rows[p].role = "owner"}
Outstanding(i) == ~i.accepted /\ ~i.revoked
Pending(i) == Outstanding(i) /\ ~i.expired

(* UsageCounterService.count: a live invitation takes a seat. *)
Count(metric) ==
    CASE metric = "team_seats" ->
           Cardinality({p \in People : members[p].live})
             + Cardinality({i \in DOMAIN invitations : Pending(invitations[i])})
      [] metric = "option_sets" -> Cardinality(sets)
      [] metric = "products_assigned" -> Cardinality({a \in assigned : a[1] \in sets})

(* PlanLimitGuard.assertWithinPlan: room for one more. *)
(* Mutant: at the limit there is still room. *)
UpToPlan(metric) == Count(metric) <= limits[metric]
WithinPlan(metric) == Count(metric) < limits[metric]

(* A registration provisions the workspace on the free plan. *)
Init ==
    /\ members = [p \in People |->
                    IF p = Founder THEN [role |-> "owner", live |-> TRUE] ELSE NoMember]
    /\ invitations = <<>> /\ joins = <<>> /\ overwrote = FALSE
    /\ sets = {} /\ assigned = {}
    /\ \E n \in Limits : limits = [m \in Metrics |-> n]
    /\ peak = limits
    /\ links = <<>> /\ settled = 0
    /\ jobs = [r \in Requests |-> Idle] /\ work = 0

At(r, pc) == jobs[r].pc = pc
Start(r, job) ==
    /\ At(r, "idle") /\ work < MaxWork /\ work' = work + 1
    /\ jobs' = [jobs EXCEPT ![r] = job]
Goto(r, pc) == jobs' = [jobs EXCEPT ![r].pc = pc] /\ UNCHANGED work
Done(r) == jobs' = [jobs EXCEPT ![r] = Idle] /\ UNCHANGED work
-----------------------------------------------------------------------------
(* The team.  assertCanGrant: nobody grants above themselves. *)
CanGrant(inviter, role) == \/ inviter = "owner"
                           \/ inviter = "admin" /\ role # "owner"

InviteCheck(r, by, person, role) ==
    /\ members[by].live /\ CanGrant(members[by].role, role)
    /\ ~members[person].live
    /\ WithinPlan("team_seats")
    /\ Start(r, [pc |-> "supersede", person |-> person, role |-> role])
    /\ UNCHANGED <<team, usage, account>>

InviteSupersede(r) ==
    /\ At(r, "supersede") /\ Goto(r, "send")
    /\ invitations' = [i \in DOMAIN invitations |->
          IF invitations[i].person = jobs[r].person /\ Outstanding(invitations[i])
          THEN [invitations[i] EXCEPT !.revoked = TRUE] ELSE invitations[i]]
    /\ UNCHANGED <<members, joins, overwrote, usage, account>>

InviteSend(r) ==
    /\ At(r, "send") /\ Done(r)
    /\ invitations' = Append(invitations,
          [person |-> jobs[r].person, role |-> jobs[r].role,
           accepted |-> FALSE, revoked |-> FALSE, expired |-> FALSE])
    /\ joins' = Append(joins, 0)
    /\ UNCHANGED <<members, overwrote, usage, account>>

InvitationExpires(i) ==
    /\ Pending(invitations[i])
    /\ invitations' = [invitations EXCEPT ![i].expired = TRUE]
    /\ UNCHANGED <<members, joins, overwrote, usage, account, jobs, work>>

RevokeInvitation(i) ==
    /\ Outstanding(invitations[i])
    /\ invitations' = [invitations EXCEPT ![i].revoked = TRUE]
    /\ UNCHANGED <<members, joins, overwrote, usage, account, jobs, work>>

AcceptRead(r, i) ==
    /\ Pending(invitations[i])
    /\ Start(r, [pc |-> "claim", invitation |-> i])
    /\ UNCHANGED <<team, usage, account>>

(* The claim looks at acceptedAt alone. *)
(* Mutant: the claim is an unconditional update. *)
AlwaysClaims(i) == TRUE
Claims(i) == ~invitations[i].accepted

Joined(i) ==
    LET p == invitations[i].person
    IN /\ members' = [members EXCEPT ![p] = [role |-> invitations[i].role, live |-> TRUE]]
       /\ overwrote' = (overwrote \/ p \in Owners(members))

AcceptClaim(r) ==
    /\ At(r, "claim") /\ Done(r)
    /\ LET i == jobs[r].invitation
       IN IF Claims(i)
          THEN /\ invitations' = [invitations EXCEPT ![i].accepted = TRUE]
               /\ joins' = [joins EXCEPT ![i] = @ + 1]
               /\ Joined(i)
          ELSE UNCHANGED team
    /\ UNCHANGED <<usage, account>>

(* changeRole and remove: the member is read, and what the row says then    *)
(* picks the statement.                                                     *)
MemberRead(r, person, change) ==
    /\ members[person].live
    /\ Start(r, [pc |-> IF members[person].role = "owner" /\ change # members[person]
                        THEN "guarded" ELSE "plain",
                 person |-> person, change |-> change])
    /\ UNCHANGED <<team, usage, account>>

(* Mutant: a removal blanks the role. *)
ChangedBlank(r) ==
    members' = [members EXCEPT ![jobs[r].person] =
                    IF jobs[r].change.live THEN [@ EXCEPT !.role = jobs[r].change.role]
                    ELSE [role |-> "", live |-> FALSE]]
Changed(r) ==
    members' = [members EXCEPT ![jobs[r].person] =
                    IF jobs[r].change.live THEN [@ EXCEPT !.role = jobs[r].change.role]
                    ELSE [@ EXCEPT !.live = FALSE]]

(* demoteLastOwnerSafely, removeOwnerSafely: the count is in the statement. *)
(* Mutant: the statement does not count. *)
AnOwner(p) == p \in Owners(members)
NotTheLastOwner(p) == p \in Owners(members) /\ Cardinality(Owners(members)) > 1

GuardedWrite(r) ==
    /\ At(r, "guarded") /\ Done(r)
    /\ IF NotTheLastOwner(jobs[r].person) THEN Changed(r) ELSE UNCHANGED members
    /\ UNCHANGED <<invitations, joins, overwrote, usage, account>>

PlainWrite(r) ==
    /\ At(r, "plain") /\ Done(r) /\ Changed(r)
    /\ overwrote' = (overwrote \/ jobs[r].person \in Owners(members))
    /\ UNCHANGED <<invitations, joins, usage, account>>

TeamStep ==
    \/ \E r \in Requests :
          \/ \E by, person \in People, role \in Roles : InviteCheck(r, by, person, role)
          \/ \E i \in DOMAIN invitations : AcceptRead(r, i)
          \/ \E person \in People, role \in Roles, live \in BOOLEAN :
                /\ ~live => role = members[person].role
                /\ MemberRead(r, person, [role |-> role, live |-> live])
          \/ InviteSupersede(r) \/ InviteSend(r) \/ AcceptClaim(r)
          \/ GuardedWrite(r) \/ PlainWrite(r)
    \/ \E i \in DOMAIN invitations : InvitationExpires(i) \/ RevokeInvitation(i)
-----------------------------------------------------------------------------
(* What the plan meters.  create and importDocument count and then insert;  *)
(* duplicate finds its source first.                                        *)
SetCount(r) ==
    /\ WithinPlan("option_sets")
    /\ Start(r, [pc |-> "create"])
    /\ UNCHANGED <<team, usage, account>>

DuplicateFind(r, source) ==
    /\ source \in sets
    /\ Start(r, [pc |-> "duplicate"])
    /\ UNCHANGED <<team, usage, account>>

DuplicateCount(r) ==
    /\ At(r, "duplicate") /\ WithinPlan("option_sets") /\ Goto(r, "create")
    /\ UNCHANGED <<team, usage, account>>

SetCreate(r, s) ==
    /\ At(r, "create") /\ Done(r)
    /\ s \notin sets /\ sets' = sets \cup {s}
    /\ UNCHANGED <<team, assigned, limits, peak, account>>

(* onOptionSetDeleted takes its assignments with it. *)
SetDelete(s) ==
    /\ s \in sets /\ sets' = sets \ {s}
    /\ assigned' = {a \in assigned : a[1] # s}
    /\ UNCHANGED <<team, limits, peak, account, jobs, work>>

(* assign: the plan is asked once for every target that is new, and each    *)
(* time for one.                                                            *)
AssignCount(r, s, wanted) ==
    /\ s \in sets
    /\ (\E p \in wanted : <<s, p>> \notin assigned) => WithinPlan("products_assigned")
    /\ Start(r, [pc |-> "assign", set |-> s, wanted |-> wanted])
    /\ UNCHANGED <<team, usage, account>>

AssignUpsert(r) ==
    /\ At(r, "assign") /\ Done(r)
    /\ assigned' = assigned \cup ({jobs[r].set} \X jobs[r].wanted)
    /\ UNCHANGED <<team, sets, limits, peak, account>>

Unassign(s, gone) ==
    /\ \E p \in gone : <<s, p>> \in assigned
    /\ assigned' = assigned \ ({s} \X gone)
    /\ UNCHANGED <<team, sets, limits, peak, account, jobs, work>>

SetLimits(metric, n) ==
    /\ limits[metric] # n /\ work < MaxWork /\ work' = work + 1
    /\ limits' = [limits EXCEPT ![metric] = n]
    /\ peak' = [peak EXCEPT ![metric] = IF n > @ THEN n ELSE @]
    /\ UNCHANGED <<team, sets, assigned, account, jobs>>

UsageStep ==
    \/ \E r \in Requests :
          \/ SetCount(r) \/ DuplicateCount(r) \/ AssignUpsert(r)
          \/ \E s \in Sets : \/ SetCreate(r, s) \/ DuplicateFind(r, s)
                             \/ \E wanted \in (SUBSET Products) \ {{}} : AssignCount(r, s, wanted)
    \/ \E s \in Sets : \/ SetDelete(s)
                       \/ \E gone \in (SUBSET Products) \ {{}} : Unassign(s, gone)
    \/ \E metric \in Metrics, n \in Limits : SetLimits(metric, n)
-----------------------------------------------------------------------------
(* Links that reset a password.  issueReset consumes those outstanding and  *)
(* inserts one.                                                             *)
Spent == [l \in DOMAIN links |-> [links[l] EXCEPT !.spent = TRUE]]

IssueConsume(r) ==
    /\ Start(r, [pc |-> "mint"]) /\ links' = Spent
    /\ UNCHANGED <<team, usage, settled>>

IssueMint(r) ==
    /\ At(r, "mint") /\ Done(r)
    /\ links' = Append(links, [spent |-> FALSE, expired |-> FALSE])
    /\ UNCHANGED <<team, usage, settled>>

LinkExpires(l) ==
    /\ ~links[l].expired /\ links' = [links EXCEPT ![l].expired = TRUE]
    /\ UNCHANGED <<team, usage, settled, jobs, work>>

RedeemRead(r, l) ==
    /\ ~links[l].spent /\ ~links[l].expired
    /\ Start(r, [pc |-> "redeem", link |-> l])
    /\ UNCHANGED <<team, usage, account>>

RedeemSave(r) ==
    /\ At(r, "redeem") /\ Goto(r, "password")
    /\ links' = [links EXCEPT ![jobs[r].link].spent = TRUE]
    /\ UNCHANGED <<team, usage, settled>>

PasswordWrite(r) ==
    /\ At(r, "password") /\ Goto(r, "revoke")
    /\ UNCHANGED <<team, usage, account>>

(* Mutant: a reset consumes its own link only. *)
OwnLinkOnly(r) == links
AllSpent(r) == Spent

RevokeResets(r) ==
    /\ At(r, "revoke") /\ Done(r)
    /\ links' = AllSpent(r) /\ settled' = Len(links)
    /\ UNCHANGED <<team, usage>>

(* The process dies between two statements, or one of them fails. *)
Abort(r) ==
    /\ ~At(r, "idle") /\ Done(r)
    /\ UNCHANGED <<team, usage, account>>

AccountStep ==
    \/ \E r \in Requests :
          \/ IssueConsume(r) \/ IssueMint(r) \/ RedeemSave(r) \/ PasswordWrite(r)
          \/ RevokeResets(r)
          \/ \E l \in DOMAIN links : RedeemRead(r, l)
    \/ \E l \in DOMAIN links : LinkExpires(l)

Next == TeamStep \/ UsageStep \/ AccountStep \/ \E r \in Requests : Abort(r)

Spec == Init /\ [][Next]_vars
-----------------------------------------------------------------------------
(* Every variable has its type. *)
TypeOK ==
    /\ members \in [People -> [role : Roles \cup {"none"}, live : BOOLEAN]]
    /\ invitations \in Seq([person : People, role : Roles, accepted : BOOLEAN,
                            revoked : BOOLEAN, expired : BOOLEAN])
    /\ sets \subseteq Sets /\ assigned \subseteq Sets \X Products
    /\ limits \in [Metrics -> Nat] /\ peak \in [Metrics -> Nat]
    /\ links \in Seq([spent : BOOLEAN, expired : BOOLEAN])
    /\ joins \in Seq(Nat) /\ overwrote \in BOOLEAN /\ settled \in 0 .. Len(links)
    /\ DOMAIN jobs = Requests /\ work \in 0 .. MaxWork

(* Owners who demote and remove one another at the same time leave one: a   *)
(* workspace without an owner was written by a statement that does not      *)
(* count, on an owner it took for somebody else (team.service.ts,           *)
(* "Counting first and updating after is a race").                          *)
LastOwnerStays == Owners(members) = {} => overwrote

(* However many requests follow one link at once, one of them is let in     *)
(* (team.service.ts, "Claim the invitation atomically").                    *)
AcceptedOnce == \A i \in DOMAIN joins : joins[i] <= 1

(* Seats and option sets pass the plan by less than the number of requests  *)
(* in flight (plan-limit.guard.ts, "It is bounded by the number of          *)
(* concurrent requests"), the highest limit so far being the plan.          *)
OvershootIsBounded ==
    \A metric \in {"team_seats", "option_sets"} :
        peak[metric] > 0 => Count(metric) < peak[metric] + Cardinality(Requests)

(* No reset link issued before a reset finished works after it, whatever    *)
(* was issued and redeemed at the same time (auth-tokens.service.ts, "so a  *)
(* link minted before the change cannot be used to undo it").               *)
ResetClosesLinks == \A l \in 1 .. settled : links[l].spent

(* Refuted.  A workspace has an owner (team.service.ts, "A tenant must      *)
(* always have at least one owner").                                        *)
AlwaysAnOwner == Owners(members) # {}

(* Refuted.  The plan's allowance of products holds (assignments.service.ts,*)
(* "Inside the transaction, so the count and the inserts are one unit of    *)
(* work").                                                                  *)
AssignedWithinPlan == Count("products_assigned") <= peak["products_assigned"]
=============================================================================
