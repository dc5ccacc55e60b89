---------------------------- MODULE BillingEvents ----------------------------
(***************************************************************************)
(* The billing_events table: how a provider's webhook is recorded, applied, *)
(* acknowledged, retried and given up (BillingWebhookService and            *)
(* BillingEventRetryService).                                               *)
(*                                                                          *)
(* Requests are webhook deliveries in flight, Passes are runs of the retry  *)
(* worker: the cron starts one every five minutes in every instance,        *)
(* whether or not the last has ended.  A handler's effect commits in one    *)
(* step here; Subscriptions says what that effect is.                       *)
(***************************************************************************)
EXTENDS Naturals

CONSTANTS Events,        \* provider event ids
          Requests, Passes,
          NoEvent,       \* the event of an idle job
          MaxAttempts,   \* MAX_ATTEMPTS
          MaxDeliveries, \* bound: deliveries of one event
          MaxCrashes     \* bound: tasks that die, or passes that end, part way

ASSUME NoEventAssumption == NoEvent \notin Events
ASSUME TasksAssumption == Requests \cap Passes = {}
ASSUME MaxAttemptsAssumption == MaxAttempts \in Nat \ {0}
ASSUME EventBoundsAssumption == MaxDeliveries \in Nat /\ MaxCrashes \in Nat

VARIABLES rows,       \* billing_events
          tasks,       \* what each request and each pass is doing
          claimed,    \* the rows a pass holds: event -> attempts, 0 for not held
          deliveries, \* how often the provider has sent each event
          acked,      \* events the provider has a 2xx for
          effects,    \* history: how often each event's handler has committed
          claims,     \* history: how often a pass has claimed each event
          crashes

history == <<effects, claims>>
eventVars == <<rows, tasks, claimed, deliveries, acked, history, crashes>>
-----------------------------------------------------------------------------
Tasks == Requests \cup Passes

Row == [recorded : BOOLEAN, processed : BOOLEAN, dead : BOOLEAN, attempts : Nat,
        old : BOOLEAN]      \* createdAt is RETRY_AFTER_MS ago

Task == [pc : {"idle", "received", "handling", "applied", "failed", "answer"},
        event : Events \cup {NoEvent}]

NoTask == [pc |-> "idle", event |-> NoEvent]

Effects == {"none", "once", "again"}

EventsTypeOK ==
    /\ rows \in [Events -> Row]
    /\ tasks \in [Tasks -> Task]
    /\ claimed \in [Passes -> [Events -> Nat]]
    /\ deliveries \in [Events -> Nat]
    /\ acked \in SUBSET Events
    /\ effects \in [Events -> Effects]
    /\ claims \in [Events -> 0 .. MaxAttempts]
    /\ crashes \in Nat

EventsInit ==
    /\ rows = [e \in Events |-> [recorded |-> FALSE, processed |-> FALSE,
                                 dead |-> FALSE, attempts |-> 0, old |-> FALSE]]
    /\ tasks = [j \in Tasks |-> NoTask]
    /\ claimed = [w \in Passes |-> [e \in Events |-> 0]]
    /\ deliveries = [e \in Events |-> 0]
    /\ acked = {}
    /\ effects = [e \in Events |-> "none"]
    /\ claims = [e \in Events |-> 0]
    /\ crashes = 0

Proceed(j, pc) == tasks' = [tasks EXCEPT ![j].pc = pc]

Rest(j) == tasks' = [tasks EXCEPT ![j] = NoTask]
-----------------------------------------------------------------------------
(* Both kinds of job run the handler. *)

(* SubscriptionLifecycleService.apply commits. *)
Apply(j) ==
    /\ tasks[j].pc = "handling"
    /\ effects' = [effects EXCEPT ![tasks[j].event] =
                                IF @ = "none" THEN "once" ELSE "again"]
    /\ Proceed(j, "applied")
    /\ UNCHANGED <<rows, claimed, deliveries, acked, claims, crashes>>

(* It throws, or the UPDATE after it does. *)
Throw(j) ==
    /\ tasks[j].pc \in {"handling", "applied"}
    /\ Proceed(j, "failed")
    /\ UNCHANGED <<rows, claimed, deliveries, acked, history, crashes>>

(* The process dies, and with it a pass's memory of what it claimed. *)
Die(j) ==
    /\ tasks[j].pc # "idle" \/ (j \in Passes /\ \E e \in Events : claimed[j][e] # 0)
    /\ crashes < MaxCrashes
    /\ crashes' = crashes + 1
    /\ Rest(j)
    /\ claimed' = IF j \in Passes THEN [claimed EXCEPT ![j] = [e \in Events |-> 0]]
                                  ELSE claimed
    /\ UNCHANGED <<rows, deliveries, acked, history>>
-----------------------------------------------------------------------------
(* A webhook delivery *)

(* The provider sends an event, again if no 2xx came, and now and then although
   one did.  A forged signature is answered 400 and touches nothing. *)
Deliver(r, e) ==
    /\ tasks[r].pc = "idle"
    /\ deliveries[e] < MaxDeliveries
    /\ deliveries' = [deliveries EXCEPT ![e] = @ + 1]
    /\ tasks' = [tasks EXCEPT ![r] = [pc |-> "received", event |-> e]]
    /\ UNCHANGED <<rows, claimed, acked, history, crashes>>

(* Mutant: a row that exists is a duplicate, finished or not. *)
RecordDuplicate(r) ==
    LET e == tasks[r].event IN
    /\ tasks[r].pc = "received"
    /\ rows' = [rows EXCEPT ![e].recorded = TRUE]
    /\ Proceed(r, IF rows[e].recorded THEN "answer" ELSE "handling")
    /\ UNCHANGED <<claimed, deliveries, acked, history, crashes>>

(* Mutant: processed as soon as it is recorded. *)
RecordProcessed(r) ==
    LET e == tasks[r].event IN
    /\ tasks[r].pc = "received"
    /\ rows' = [rows EXCEPT ![e].recorded = TRUE, ![e].processed = TRUE]
    /\ Proceed(r, IF rows[e].processed THEN "answer" ELSE "handling")
    /\ UNCHANGED <<claimed, deliveries, acked, history, crashes>>

(* The INSERT is the claim; a row that is there and unfinished is work still
   owed, to this delivery as well as to any other. *)
Record(r) ==
    LET e == tasks[r].event IN
    /\ tasks[r].pc = "received"
    /\ rows' = [rows EXCEPT ![e].recorded = TRUE]
    /\ Proceed(r, IF rows[e].processed THEN "answer" ELSE "handling")
    /\ UNCHANGED <<claimed, deliveries, acked, history, crashes>>

MarkProcessed(r) ==
    /\ tasks[r].pc = "applied"
    /\ rows' = [rows EXCEPT ![tasks[r].event].processed = TRUE]
    /\ Proceed(r, "answer")
    /\ UNCHANGED <<claimed, deliveries, acked, history, crashes>>

(* Mutant: a failed handler is answered like any other. *)
AnswerFailure(r) ==
    /\ tasks[r].pc \in {"answer", "failed"}
    /\ acked' = acked \cup {tasks[r].event}
    /\ Rest(r)
    /\ UNCHANGED <<rows, claimed, deliveries, history, crashes>>

(* 200, for work done now and for a duplicate; the answer may be lost. *)
Answer(r) ==
    /\ tasks[r].pc = "answer"
    /\ acked' \in {acked, acked \cup {tasks[r].event}}
    /\ Rest(r)
    /\ UNCHANGED <<rows, claimed, deliveries, history, crashes>>

(* 5xx: the error is recorded, the row stays claimed and unprocessed. *)
AnswerError(r) ==
    /\ tasks[r].pc \in {"received", "failed"}
    /\ Rest(r)
    /\ UNCHANGED <<rows, claimed, deliveries, acked, history, crashes>>
-----------------------------------------------------------------------------
(* A pass of the retry worker *)

Age(e) ==
    /\ rows[e].recorded /\ ~rows[e].old
    /\ rows' = [rows EXCEPT ![e].old = TRUE]
    /\ UNCHANGED <<tasks, claimed, deliveries, acked, history, crashes>>

(* Mutant: an attempt is taken for a lease, which a dead pass never gives back. *)
RetryableUnleased(e) ==
    /\ rows[e].recorded /\ rows[e].old /\ ~rows[e].processed /\ ~rows[e].dead
    /\ rows[e].attempts = 0

Retryable(e) ==
    rows[e].recorded /\ rows[e].old /\ ~rows[e].processed /\ ~rows[e].dead

(* claim: FOR UPDATE SKIP LOCKED takes the rows no other claim is on at that
   instant; its transaction ends before the work begins. *)
Claim(w, batch) ==
    /\ tasks[w].pc = "idle" /\ \A e \in Events : claimed[w][e] = 0
    /\ batch # {} /\ \A e \in batch : Retryable(e)
    /\ rows' = [e \in Events |->
                  IF e \in batch THEN [rows[e] EXCEPT !.attempts = @ + 1] ELSE rows[e]]
    /\ claimed' = [claimed EXCEPT ![w] =
                     [e \in Events |-> IF e \in batch THEN rows[e].attempts + 1 ELSE 0]]
    /\ claims' = [e \in Events |->
                    IF e \in batch /\ claims[e] < MaxAttempts THEN claims[e] + 1
                                                              ELSE claims[e]]
    /\ UNCHANGED <<tasks, deliveries, acked, effects, crashes>>

(* retryPending takes the next of its rows, as claimed: it does not look again. *)
Take(w, e) ==
    /\ tasks[w].pc = "idle"
    /\ claimed[w][e] # 0
    /\ tasks' = [tasks EXCEPT ![w] = [pc |-> "handling", event |-> e]]
    /\ UNCHANGED <<rows, claimed, deliveries, acked, history, crashes>>

(* A row of the pass is finished with; attempts is written from memory. *)
Finish(w, row) ==
    LET e == tasks[w].event IN
    /\ rows' = [rows EXCEPT ![e] = row]
    /\ claimed' = [claimed EXCEPT ![w][e] = 0]
    /\ Rest(w)
    /\ UNCHANGED <<deliveries, acked, history, crashes>>

Recover(w) ==
    LET e == tasks[w].event IN
    /\ tasks[w].pc = "applied"
    /\ Finish(w, [rows[e] EXCEPT !.processed = TRUE, !.attempts = claimed[w][e]])

(* Mutant: one attempt short. *)
GiveUpEarly(w) ==
    LET e == tasks[w].event IN
    /\ tasks[w].pc = "failed"
    /\ Finish(w, [rows[e] EXCEPT !.dead = claimed[w][e] + 1 >= MaxAttempts,
                                 !.attempts = claimed[w][e]])

(* Mutant: attempts counts what is left, the wrong way round. *)
CountAttemptsLeft(w) ==
    LET e == tasks[w].event IN
    /\ tasks[w].pc = "failed"
    /\ Finish(w, [rows[e] EXCEPT !.dead = claimed[w][e] >= MaxAttempts,
                                 !.attempts = claimed[w][e] - MaxAttempts])

(* The catch of retryPending: dead at the limit, and not dead below it. *)
RetryFails(w) ==
    LET e == tasks[w].event IN
    /\ tasks[w].pc = "failed"
    /\ Finish(w, [rows[e] EXCEPT !.dead = claimed[w][e] >= MaxAttempts,
                                 !.attempts = claimed[w][e]])

(* The UPDATE of the catch fails as well: it leaves retryPending, and the pass
   with the rest of its batch is over. *)
PassFails(w) ==
    /\ tasks[w].pc = "failed"
    /\ crashes < MaxCrashes
    /\ crashes' = crashes + 1
    /\ Rest(w)
    /\ claimed' = [claimed EXCEPT ![w] = [e \in Events |-> 0]]
    /\ UNCHANGED <<rows, deliveries, acked, history>>

Webhook(r) ==
    \/ \E e \in Events : Deliver(r, e)
    \/ Record(r) \/ MarkProcessed(r) \/ Answer(r) \/ AnswerError(r)

Retry(w) ==
    \/ \E batch \in SUBSET Events : Claim(w, batch)
    \/ \E e \in Events : Take(w, e)
    \/ Recover(w) \/ RetryFails(w)

EventsNext ==
    \/ \E j \in Tasks : Apply(j) \/ Throw(j) \/ Die(j)
    \/ \E r \in Requests : Webhook(r)
    \/ \E w \in Passes : Retry(w) \/ PassFails(w)
    \/ \E e \in Events : Age(e)

EventsSpec == EventsInit /\ [][EventsNext]_eventVars

(* BILLING_RETRY_ENABLED is on, the cron keeps coming, a pass goes on, and a
   handler that was begun returns or throws.  Nothing is assumed of the provider
   or of its deliveries, nor that any handler ever succeeds. *)
EventsFairness ==
    /\ \A e \in Events : WF_eventVars(Age(e))
    /\ \A w \in Passes : WF_eventVars(Retry(w)) /\ WF_eventVars(Apply(w) \/ Throw(w))

FairEventsSpec == EventsSpec /\ EventsFairness
-----------------------------------------------------------------------------
(* Properties *)

(* The provider is told 2xx only of work that is finished, by this delivery or by
   another, so its own retries are never used up on an event still owed. *)
AckedIsProcessed == \A e \in acked : rows[e].processed

(* A row marked processed has had its effect, whichever job marked it. *)
ProcessedIsApplied == \A e \in Events : rows[e].processed => effects[e] # "none"

(* Together: whoever is told that an event is finished is told the truth. *)
FinishedMeansApplied == AckedIsProcessed /\ ProcessedIsApplied

(* No row is given up before the retry worker has claimed it MaxAttempts times,
   although overlapping passes write `attempts` from memory. *)
GivenUpAfterTrying == \A e \in Events : rows[e].dead => claims[e] = MaxAttempts

(* A recorded event is settled in the end, applied or given up for a person to
   see: a crash, an unsent redelivery or a handler that always fails does not
   leave it owed for ever. *)
EverySettled ==
    \A e \in Events : rows[e].recorded ~> rows[e].processed \/ rows[e].dead
-----------------------------------------------------------------------------
(* Claims of the source that the code does not keep *)

(* billing-event.entity.ts:34: a non-null processedAt "means the effect has been
   applied exactly once". *)
AppliedExactlyOnce == \A e \in Events : rows[e].processed => effects[e] = "once"

(* billing-event.entity.ts:54: "A dead row is never retried again". *)
DeadStaysDead == [][\A e \in Events : rows[e].dead => rows'[e].dead]_eventVars
=============================================================================
