---------------------------- MODULE Subscriptions ----------------------------
(***************************************************************************)
(* One tenant's subscription row against the provider's: what the webhook   *)
(* handlers (SubscriptionLifecycleService), the reconciler and a merchant's *)
(* cancellation do to it.                                                   *)
(*                                                                          *)
(* Every writer but the cancellation reads the whole row, changes fields of *)
(* the copy and saves it; the repository's save writes back every column    *)
(* that differs, so a save is a write of the whole copy.  Nothing locks the *)
(* row between the two.  `pending` are the events the provider, or the      *)
(* retry worker of BillingEvents, still owes a handler: they come in any    *)
(* order, more than once, two at a time.                                    *)
(***************************************************************************)
EXTENDS Naturals

CONSTANTS Prices,       \* provider prices, each the price of a plan of its own
          Free,         \* the plan a tenant is provisioned with
          Handlers,     \* handlers, reconciler runs and cancellations in flight
          GraceDays,    \* GRACE_DAYS
          MaxSubs,      \* bound: subscriptions the tenant buys, one after another
          MaxRevisions, \* bound: changes at the provider
          MaxTime,      \* bound: days
          MaxMishaps    \* bound: lost events, dead processes, refused bumps

ASSUME FreeAssumption == Free \notin Prices
ASSUME GraceAssumption == GraceDays \in Nat \ {0}
ASSUME BoundsAssumption == /\ MaxSubs \in Nat /\ MaxRevisions \in Nat
                           /\ MaxTime \in Nat /\ MaxMishaps \in Nat

VARIABLES remote,     \* the provider's subscriptions of the tenant's customer
          revision,   \* how often they have changed
          pending,    \* events not yet settled
          local,      \* the subscriptions row
          tenant,     \* tenants.planId, read by PlanLimitGuard and the document,
                      \* and whether the billing identity is filled in
          invoices,   \* rows of invoices, by the revision that paid them
          told,       \* the plan of the row at the last bump of the stores
          jobs,       \* what each handler in flight holds
          charges,    \* history: the revisions that paid an invoice
          failures,   \* history: the days a charge failed on
          now, mishaps

provider == <<remote, revision, charges, failures>>
row == <<local, tenant, invoices, told>>
vars == <<provider, pending, row, jobs, now, mishaps>>
-----------------------------------------------------------------------------
Status == {"trialing", "active", "past_due", "cancelled"}

Plans == Prices \cup {Free}

Subs == 1 .. MaxSubs

Remote == [exists : BOOLEAN, status : Status, price : Plans]

(* The period and cancel dates are snapshot data, as the status is. *)
Subscription == [sub : Nat,         \* the provider's ids are stored, 0 for not
                 status : Status, price : Plans,
                 grace : Nat,       \* graceEndsAt, 0 for null
                 reason : BOOLEAN]  \* cancellationReason is there

Event == [type : {"checkout", "changed", "paid", "failed", "fetched"},
          sub : Nat, status : Status, price : Plans, n : Nat]

Provisioned == [sub |-> 0, status |-> "trialing", price |-> Free,
                grace |-> 0, reason |-> FALSE]

NoJob == [pc |-> "idle", row |-> Provisioned,
          event |-> [type |-> "fetched", sub |-> 0, status |-> "trialing", price |-> Free, n |-> 0]]

Job == [pc : {"idle", "save", "invalidate", "settle", "fetch", "repair", "reason"},
        row : Subscription, event : Event]

TypeOK ==
    /\ remote \in [Subs -> Remote]
    /\ revision \in Nat
    /\ pending \in SUBSET Event
    /\ local \in Subscription
    /\ tenant \in [plan : Plans, identity : BOOLEAN]
    /\ invoices \in SUBSET Nat
    /\ told \in Plans
    /\ jobs \in [Handlers -> Job]
    /\ charges \in SUBSET Nat
    /\ failures \in SUBSET Nat
    /\ now \in Nat
    /\ mishaps \in Nat

Init ==
    /\ remote = [k \in Subs |-> [exists |-> FALSE, status |-> "trialing", price |-> Free]]
    /\ revision = 0
    /\ pending = {}
    /\ local = Provisioned
    /\ tenant = [plan |-> Free, identity |-> FALSE]
    /\ invoices = {}
    /\ told = Free
    /\ jobs = [h \in Handlers |-> NoJob]
    /\ charges = {}
    /\ failures = {}
    /\ now = 0
    /\ mishaps = 0
-----------------------------------------------------------------------------
(* The provider *)

(* Subscription k changes, and an event of each of these types is sent. *)
Changes(k, status, price, types) ==
    /\ revision < MaxRevisions
    /\ revision' = revision + 1
    /\ remote' = [remote EXCEPT ![k] = [exists |-> TRUE, status |-> status, price |-> price]]
    /\ pending' = pending \cup {[type |-> t, sub |-> k, status |-> status, price |-> price,
                                 n |-> revision + 1] : t \in types}
    /\ charges' = IF "paid" \in types THEN charges \cup {revision + 1} ELSE charges
    /\ failures' = IF "failed" \in types THEN failures \cup {now} ELSE failures

Running(k) == remote[k].exists /\ remote[k].status # "cancelled"

(* A checkout session is completed, with the rest of a trial or without; after a
   subscription that ended, for the customer the row holds.  (Without one the
   provider would make another customer; the model leaves that tenant alone.) *)
Purchase(k, price) ==
    /\ ~remote[k].exists
    /\ k = 1 \/ local.sub # 0
    /\ \A old \in 1 .. k - 1 : remote[old].exists /\ ~Running(old)
    /\ \/ Changes(k, "trialing", price, {"checkout", "changed"})
       \/ Changes(k, "active", price, {"checkout", "changed", "paid"})
    /\ UNCHANGED <<row, jobs, now, mishaps>>

ChargeSucceeds(k) ==
    /\ Running(k)
    /\ Changes(k, "active", remote[k].price, {"changed", "paid"})
    /\ UNCHANGED <<row, jobs, now, mishaps>>

ChargeFails(k) ==
    /\ Running(k)
    /\ Changes(k, "past_due", remote[k].price, {"changed", "failed"})
    /\ UNCHANGED <<row, jobs, now, mishaps>>

(* BillingAccountService.changePlan, or the provider's own portal. *)
ChangePlan(k, price) ==
    /\ Running(k) /\ remote[k].price # price
    /\ Changes(k, remote[k].status, price, {"changed"})
    /\ UNCHANGED <<row, jobs, now, mishaps>>

(* Dunning or the portal ends it. *)
Ends(k) ==
    /\ Running(k)
    /\ Changes(k, "cancelled", remote[k].price, {"changed"})
    /\ UNCHANGED <<row, jobs, now, mishaps>>

Tick ==
    /\ now < MaxTime
    /\ now' = now + 1
    /\ UNCHANGED <<provider, pending, row, jobs, mishaps>>
-----------------------------------------------------------------------------
(* The webhook handlers *)

Goto(h, pc) == jobs' = [jobs EXCEPT ![h].pc = pc]

Done(h) == jobs' = [jobs EXCEPT ![h] = NoJob]

(* findSubscription.  A checkout names the tenant; any other event finds the row
   by the subscription id or, that failing, by the customer id, both of which the
   first checkout stored: the customer is one and the same. *)
Load(h, e) ==
    /\ jobs[h].pc = "idle"
    /\ e \in pending
    /\ e.type = "checkout" \/ local.sub # 0
    /\ jobs' = [jobs EXCEPT ![h] = [pc |-> "save", row |-> local, event |-> e]]
    /\ UNCHANGED <<provider, pending, row, now, mishaps>>

(* `no subscription matches`: the event is processed, and nothing changed. *)
Ignore(e) ==
    /\ e \in pending
    /\ e.type # "checkout" /\ local.sub = 0
    /\ pending' = pending \ {e}
    /\ UNCHANGED <<provider, row, jobs, now, mishaps>>

Saves(h, type) == jobs[h].pc = "save" /\ jobs[h].event.type = type

(* Mutant: a completed checkout is taken for a payment. *)
CheckoutCompletedActive(h) ==
    /\ Saves(h, "checkout")
    /\ local' = [jobs[h].row EXCEPT !.sub = jobs[h].event.sub, !.status = "active"]
    /\ tenant' = [tenant EXCEPT !.identity = TRUE]
    /\ Goto(h, "settle")
    /\ UNCHANGED <<provider, pending, invoices, told, now, mishaps>>

(* The ids are stored, and whatever of the billing identity is still blank. *)
CheckoutCompleted(h) ==
    /\ Saves(h, "checkout")
    /\ local' = [jobs[h].row EXCEPT !.sub = jobs[h].event.sub]
    /\ tenant' = [tenant EXCEPT !.identity = TRUE]
    /\ Goto(h, "settle")
    /\ UNCHANGED <<provider, pending, invoices, told, now, mishaps>>

(* Mutant: the end of a subscription forgets the provider's ids. *)
SubscriptionChangedUnlinks(h) ==
    LET e == jobs[h].event IN
    /\ Saves(h, "changed")
    /\ local' = [jobs[h].row EXCEPT !.sub = IF e.status = "cancelled" THEN 0 ELSE e.sub,
                                    !.status = e.status, !.price = e.price]
    /\ Goto(h, "settle")
    /\ UNCHANGED <<provider, pending, tenant, invoices, told, now, mishaps>>

(* Mutant: a plan that moved is announced to nobody. *)
SubscriptionChangedQuietly(h) ==
    LET e == jobs[h].event IN
    /\ Saves(h, "changed")
    /\ local' = [jobs[h].row EXCEPT !.sub = e.sub, !.status = e.status, !.price = e.price,
                    !.grace = IF e.status \in {"active", "trialing"} THEN 0 ELSE @]
    /\ Goto(h, "settle")
    /\ UNCHANGED <<provider, pending, tenant, invoices, told, now, mishaps>>

(* The snapshot of the event is authoritative, whenever it was taken. *)
SubscriptionChanged(h) ==
    LET e == jobs[h].event IN
    /\ Saves(h, "changed")
    /\ local' = [jobs[h].row EXCEPT !.sub = e.sub, !.status = e.status, !.price = e.price,
                    !.grace = IF e.status \in {"active", "trialing"} THEN 0 ELSE @]
    /\ Goto(h, IF jobs[h].row.price # e.price THEN "invalidate" ELSE "settle")
    /\ UNCHANGED <<provider, pending, tenant, invoices, told, now, mishaps>>

(* The invoice, upserted, and the subscription, in one transaction. *)
InvoicePaid(h) ==
    /\ Saves(h, "paid")
    /\ invoices' = invoices \cup {jobs[h].event.n}
    /\ local' = [jobs[h].row EXCEPT !.status = "active", !.grace = 0]
    /\ Goto(h, "settle")
    /\ UNCHANGED <<provider, pending, tenant, told, now, mishaps>>

(* Mutant: every failure starts the clock again. *)
PaymentFailedRestarts(h) ==
    /\ Saves(h, "failed")
    /\ local' = [jobs[h].row EXCEPT !.status = "past_due", !.grace = now + GraceDays]
    /\ Goto(h, "settle")
    /\ UNCHANGED <<provider, pending, tenant, invoices, told, now, mishaps>>

(* Mutant: a failure locks at once. *)
PaymentFailedLocks(h) ==
    /\ Saves(h, "failed")
    /\ local' = [jobs[h].row EXCEPT !.status = "past_due", !.grace = now + 1]
    /\ Goto(h, "settle")
    /\ UNCHANGED <<provider, pending, tenant, invoices, told, now, mishaps>>

(* Mutant: the deadline is counted backwards. *)
PaymentFailedBackwards(h) ==
    /\ Saves(h, "failed")
    /\ local' = [jobs[h].row EXCEPT !.status = "past_due",
                    !.grace = IF @ = 0 THEN now - GraceDays ELSE @]
    /\ Goto(h, "settle")
    /\ UNCHANGED <<provider, pending, tenant, invoices, told, now, mishaps>>

(* The grace clock starts at the first failure of a lapse. *)
PaymentFailed(h) ==
    /\ Saves(h, "failed")
    /\ local' = [jobs[h].row EXCEPT !.status = "past_due",
                    !.grace = IF @ = 0 THEN now + GraceDays ELSE @]
    /\ Goto(h, "settle")
    /\ UNCHANGED <<provider, pending, tenant, invoices, told, now, mishaps>>

(* PlanChangeInvalidatorService bumps every store; a bump that fails is logged. *)
Invalidate(h) ==
    /\ jobs[h].pc = "invalidate"
    /\ \/ told' = local.price /\ UNCHANGED mishaps
       \/ mishaps < MaxMishaps /\ mishaps' = mishaps + 1 /\ UNCHANGED told
    /\ Goto(h, "settle")
    /\ UNCHANGED <<provider, pending, local, tenant, invoices, now>>

(* The event is marked processed. *)
Settle(h) ==
    /\ jobs[h].pc = "settle"
    /\ pending' = pending \ {jobs[h].event}
    /\ Done(h)
    /\ UNCHANGED <<provider, row, now, mishaps>>
-----------------------------------------------------------------------------
(* billing:reconcile --repair *)

ReconcileLoad(h) ==
    /\ jobs[h].pc = "idle"
    /\ local.sub # 0
    /\ jobs' = [jobs EXCEPT ![h] = [NoJob EXCEPT !.pc = "fetch", !.row = local]]
    /\ UNCHANGED <<provider, pending, row, now, mishaps>>

(* getSubscription of the id the row holds. *)
ReconcileFetch(h) ==
    LET k == jobs[h].row.sub IN
    /\ jobs[h].pc = "fetch"
    /\ jobs' = [jobs EXCEPT ![h].pc = "repair",
                   ![h].event = [type |-> "fetched", sub |-> k, status |-> remote[k].status,
                                 price |-> remote[k].price, n |-> revision]]
    /\ UNCHANGED <<provider, pending, row, now, mishaps>>

(* Mutant: a plan that drifted is reported and left. *)
RepairStatusOnly(h) ==
    LET e == jobs[h].event IN
    /\ jobs[h].pc = "repair"
    /\ local' = IF jobs[h].row.status = e.status THEN local
                ELSE [jobs[h].row EXCEPT !.status = e.status]
    /\ Done(h)
    /\ UNCHANGED <<provider, pending, tenant, invoices, told, now, mishaps>>

(* compare: status and plan are written back, the grace clock is not looked at. *)
Repair(h) ==
    LET e == jobs[h].event
        read == jobs[h].row IN
    /\ jobs[h].pc = "repair"
    /\ local' = IF read.status = e.status /\ read.price = e.price THEN local
                ELSE [read EXCEPT !.status = e.status, !.price = e.price]
    /\ IF read.price # e.price THEN Goto(h, "invalidate") ELSE Done(h)
    /\ UNCHANGED <<provider, pending, tenant, invoices, told, now, mishaps>>
-----------------------------------------------------------------------------
(* BillingAccountService.cancel: the provider first, at once or at the period's
   end, which sends its event; *)
Cancel(h) ==
    /\ jobs[h].pc = "idle"
    /\ local.sub # 0 /\ local.status # "cancelled"
    /\ Running(local.sub)
    /\ \E status \in {remote[local.sub].status, "cancelled"} :
          Changes(local.sub, status, remote[local.sub].price, {"changed"})
    /\ jobs' = [jobs EXCEPT ![h] = [NoJob EXCEPT !.pc = "reason"]]
    /\ UNCHANGED <<row, now, mishaps>>

(* then the reason, in an UPDATE of that column alone. *)
CancelReason(h) ==
    /\ jobs[h].pc = "reason"
    /\ local' = [local EXCEPT !.reason = TRUE]
    /\ Done(h)
    /\ UNCHANGED <<provider, pending, tenant, invoices, told, now, mishaps>>

(* A handler throws or its process dies: its event is still owed. *)
Crash(h) ==
    /\ jobs[h].pc # "idle"
    /\ mishaps < MaxMishaps
    /\ mishaps' = mishaps + 1
    /\ Done(h)
    /\ UNCHANGED <<provider, pending, row, now>>

(* The provider's retries end, or the worker gives the row up. *)
Lose(e) ==
    /\ e \in pending
    /\ mishaps < MaxMishaps
    /\ mishaps' = mishaps + 1
    /\ pending' = pending \ {e}
    /\ UNCHANGED <<provider, row, jobs, now>>

Provider ==
    \E k \in Subs :
        \/ \E price \in Prices : Purchase(k, price) \/ ChangePlan(k, price)
        \/ ChargeSucceeds(k) \/ ChargeFails(k) \/ Ends(k)

Handle(h) ==
    \/ CheckoutCompleted(h) \/ SubscriptionChanged(h) \/ InvoicePaid(h)
    \/ PaymentFailed(h) \/ Invalidate(h) \/ Settle(h)

Reconcile(h) == ReconcileLoad(h) \/ ReconcileFetch(h) \/ Repair(h)

Next ==
    \/ Provider
    \/ Tick
    \/ \E e \in pending : Ignore(e) \/ Lose(e) \/ \E h \in Handlers : Load(h, e)
    \/ \E h \in Handlers : \/ Handle(h) \/ Reconcile(h) \/ Cancel(h)
                           \/ CancelReason(h) \/ Crash(h)

Spec == Init /\ [][Next]_vars

(* A handler that was begun ends, and the deployment schedules
   `billing:reconcile --repair`; nothing is assumed of the webhooks. *)
Fairness == \A h \in Handlers : WF_vars(Handle(h) \/ CancelReason(h)) /\ WF_vars(Reconcile(h))

FairSpec == Spec /\ Fairness
-----------------------------------------------------------------------------
(* Properties *)

(* SubscriptionGuard.hasLapsed, and the document's plan.read_only. *)
Lapsed == local.grace # 0 /\ local.grace <= now

(* A tenant bound to its provider customer stays bound, although every save
   writes back a copy of a row read earlier: no later event goes unmatched. *)
LinkIsPermanent == [][local.sub # 0 => local'.sub # 0]_vars

(* No tenant is active before an invoice of it was paid: neither a completed
   checkout nor a stale copy of the row makes it so. *)
NoUnpaidActivation == local.status = "active" => charges # {}

(* A deadline is never earlier than GraceDays after a charge that failed: no
   order of events and no overlap of handlers locks a merchant out early. *)
NoEarlyLockout ==
    local.grace # 0 => \E day \in failures : day + GraceDays <= local.grace

(* The clock of a lapse is set once: no later failure, and no snapshot of the
   lapse, moves it.  One job at a time. *)
GraceNotExtended ==
    [][local.grace # 0 /\ local'.grace # 0 => local'.grace = local.grace]_vars

(* Whatever moved the plan, the stores' configuration is invalidated for it,
   while nothing is refused and nobody dies.  One job at a time. *)
PlanAnnounced ==
    mishaps = 0 /\ told # local.price => \E h \in Handlers : jobs[h].pc = "invalidate"

Mirrors(k) == local.status = remote[k].status /\ local.price = remote[k].price

(* With the repairing reconciler scheduled, the row comes to agree with the
   provider on the subscription it names, whichever webhooks are late, reordered
   or never handled. *)
ReconcilerConverges ==
    <>(local.sub # 0) => <>[](\E k \in Subs : local.sub = k /\ Mirrors(k))
-----------------------------------------------------------------------------
(* Claims of the source that the code does not keep *)

Settled == pending = {} /\ \A h \in Handlers : jobs[h].pc = "idle"

(* subscription-lifecycle.service.ts:190-201: the customer id is a fallback, so
   that a subscription event which overtakes the checkout is not lost; and :290,
   tax filing needs a local row of every paid invoice. *)
PurchaseIsKnown ==
    Settled => /\ \A k \in Subs : Running(k) => local.price = remote[k].price
               /\ invoices = charges

(* subscription-lifecycle.service.ts:452-455: the subscription id is the precise
   key, and the customer id a fallback for invoices that carry no subscription;
   so only a checkout takes the row from a subscription that is running. *)
FollowsRunningSubscription ==
    [][\A k \in Subs : local.sub = k /\ Running(k) /\ local'.sub # k =>
          \E h \in Handlers : Saves(h, "checkout") /\ jobs'[h] # jobs[h]]_vars

(* subscription-lifecycle.service.ts:276: "The plan change is what must survive". *)
PlanSurvives ==
    [][local'.price # local.price =>
          \E h \in Handlers : /\ jobs'[h] # jobs[h]
                              /\ jobs[h].event.type \in {"changed", "fetched"}]_vars

(* billing-account.service.ts:326-328: the reason is our datum, "so it cannot
   disagree with a webhook". *)
ReasonKept == [][local.reason => local'.reason]_vars

(* subscription-lifecycle.service.ts:259-261: a stale graceEndsAt on a
   subscription that has since paid would lock out a paying merchant. *)
ActiveIsNotLocked == Settled /\ local.status = "active" => ~Lapsed

(* subscription-lifecycle.service.ts:226-254: the plan moves with the price, so
   that limit raises apply at once. *)
LimitsFollowPlan == Settled => tenant.plan = local.price
=============================================================================
