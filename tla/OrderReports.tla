---------------------------- MODULE OrderReports ----------------------------
(***************************************************************************)
(* Paid orders on their way to the cloud: the hook that queues an order      *)
(* during checkout, the cron run that posts the queue (Reporting/), and the  *)
(* upsert that receives a report (orders/orders.service.ts).                 *)
(*                                                                          *)
(* The queue is one option.  A PHP request reads it once (get_option caches  *)
(* it) and writes it back whole, so a request that runs beside another       *)
(* writes over what that one added.                                          *)
(***************************************************************************)
EXTENDS Integers, Sequences, FiniteSets, SequencesExt, Lists

CONSTANTS Orders,        \* orders of the shop
          Lines,         \* Lines[o]: the order's lines, [picks, unit, quantity]
          Malformed,     \* orders whose report the API's validation refuses
          Requests,      \* PHP requests at the same time
          BatchSize,     \* OrderReporter::BATCH_SIZE
          MaxEntries,    \* OrderQueue::MAX_ENTRIES
          MaxSelections, \* OrderPayload::MAX_SELECTIONS
          MaxMinor,      \* OrderPayload::MAX_MINOR
          MaxTroubles    \* bound: answers lost, outages, deaths, moves of the site

VARIABLES paid,     \* orders that reached a reportable status
          marked,   \* orders with META_REPORTED_AT
          queue,    \* OPTION_ORDER_QUEUE
          posts,    \* the requests
          moved,    \* the site answers at an address the credential was not issued to
          events,   \* order_events and order_selections of the store
          troubles, \* those so far
          refused,  \* history: orders the cloud answered with a 4xx
          gone      \* history: entries overwritten, shed by the cap, or never written

vars == <<paid, marked, queue, posts, moved, events, troubles, refused, gone>>

Idle == [pc |-> "idle"]
NoEvent == [selections |-> -1, revenue |-> 0]

Init ==
    /\ paid = {} /\ marked = {} /\ queue = <<>> /\ moved = FALSE
    /\ posts = [r \in Requests |-> Idle]
    /\ events = [o \in Orders |-> NoEvent]
    /\ troubles = 0 /\ refused = {} /\ gone = {}

Trouble == troubles < MaxTroubles /\ troubles' = troubles + 1
Doing(r, pc) == posts[r].pc = pc
Become(r, job) == posts' = [posts EXCEPT ![r] = job]
-----------------------------------------------------------------------------
(* OrderPayload.  A line has the selections made, the price difference they    *)
(* make and a quantity, which WooCommerce keeps positive.                    *)
Line == [picks : Nat, unit : Int, quantity : Nat \ {0}]

(* A line's delta is its unit price difference times its      *)
(* quantity, given to the line's first selection.                            *)
DeltaOf(line) ==
    IF line.picks = 0 \/ line.unit \notin -(MaxMinor \div line.quantity) .. MaxMinor \div line.quantity
    THEN 0
    ELSE line.unit * line.quantity

(* Lines after the report is full still earn.                                *)
(* Mutant: the loop ends when the report is full. *)
AddLineUntilFull(report, line) ==
    IF report.selections = MaxSelections THEN report
    ELSE [selections |-> IF report.selections + line.picks > MaxSelections
                         THEN MaxSelections ELSE report.selections + line.picks,
          revenue |-> report.revenue + DeltaOf(line)]
AddLine(report, line) ==
    [selections |-> IF report.selections + line.picks > MaxSelections
                    THEN MaxSelections ELSE report.selections + line.picks,
     revenue |-> report.revenue + DeltaOf(line)]

Payload(o) == Folded(AddLine, [selections |-> 0, revenue |-> 0], Lines[o])

(* OrdersService.report: the event is upserted and its selections replaced,  *)
(* in one transaction.                                                       *)
(* Mutant: the selections are added to those there are. *)
Appended(event, report) ==
    [report EXCEPT !.selections =
        @ + (IF event.selections < 0 THEN 0 ELSE event.selections)]
Replaced(event, report) == report

Record(o) == events' = [events EXCEPT ![o] = Replaced(events[o], Payload(o))]
-----------------------------------------------------------------------------
(* The queue, as request r writes it: `seen' is what it read, and what was    *)
(* added since is written over.                                              *)
Overwritten(r, next) == ToSet(queue) \ (ToSet(posts[r].seen) \cup ToSet(next))

(* Mutant: the cap lets one more in. *)
CappedLate(entries) ==
    IF Len(entries) > MaxEntries + 1
    THEN SubSeq(entries, Len(entries) - MaxEntries, Len(entries)) ELSE entries
Capped(entries) ==
    IF Len(entries) > MaxEntries
    THEN SubSeq(entries, Len(entries) - MaxEntries + 1, Len(entries)) ELSE entries

(* An order becomes processing or completed, in any request and perhaps      *)
(* again; one that was reported is not queued.                               *)
StatusChanges(r, o) ==
    /\ Doing(r, "idle")
    /\ paid' = paid \cup {o}
    /\ Become(r, IF o \in marked THEN Idle ELSE [pc |-> "push", order |-> o, seen |-> queue])
    /\ UNCHANGED <<marked, queue, moved, events, troubles, refused, gone>>

Push(r) ==
    /\ Doing(r, "push") /\ Become(r, Idle)
    /\ LET o == posts[r].order
           next == Capped(Append(posts[r].seen, o))
       IN IF o \in ToSet(posts[r].seen)
          THEN UNCHANGED <<queue, gone>>
          ELSE /\ queue' = next
               /\ gone' = gone \cup Overwritten(r, next)
                               \cup (ToSet(posts[r].seen) \ ToSet(next))
    /\ UNCHANGED <<paid, marked, moved, events, troubles, refused>>
-----------------------------------------------------------------------------
(* drain.                                                                   *)
DrainStart(r) ==
    /\ Doing(r, "idle") /\ queue # <<>>
    /\ Become(r, [pc |-> "report", seen |-> queue,
                  batch |-> SubSeq(queue, 1, IF Len(queue) < BatchSize
                                             THEN Len(queue) ELSE BatchSize)])
    /\ UNCHANGED <<paid, marked, queue, moved, events, troubles, refused, gone>>

Going(r, pc) == Become(r, [posts[r] EXCEPT !.pc = pc])

AlreadyReported(r) ==
    /\ Doing(r, "report") /\ Head(posts[r].batch) \in marked
    /\ Going(r, "forget")
    /\ UNCHANGED <<paid, marked, queue, moved, events, troubles, refused, gone>>

(* What the cloud makes of the report of o: SiteMatchGuard's 403 before the   *)
(* validation's 422; a 401 once the credential has been revoked.              *)
AnswerTo(o) == IF moved THEN "403" ELSE IF o \in Malformed THEN "422" ELSE "200"

(* Which answers keep the order queued and end the run.                      *)
(* Mutant: only a 5xx and silence do. *)
KeptOnOutage(answer) == answer \in {"0", "429", "500"}
Kept(answer) == answer \in {"0", "401", "429", "500"}

(* Mutant: an answer that ends the matter marks the order. *)
AcceptedOrRefused(answer) == ~Kept(answer)
Accepted(answer) == answer = "200"

Answered(r, answer) ==
    /\ IF Kept(answer) THEN Become(r, Idle)
       ELSE Going(r, IF Accepted(answer) THEN "mark" ELSE "forget")
    /\ refused' = IF answer \in {"403", "422"}
                  THEN refused \cup {Head(posts[r].batch)} ELSE refused

Post(r) ==
    /\ Doing(r, "report") /\ Head(posts[r].batch) \notin marked
    /\ LET o == Head(posts[r].batch)
       IN /\ Answered(r, AnswerTo(o))
          /\ IF AnswerTo(o) = "200" THEN Record(o) ELSE UNCHANGED events
    /\ UNCHANGED <<paid, marked, queue, moved, troubles, gone>>

(* The cloud is down, throttles, or has revoked the credential ... *)
PostFails(r) ==
    /\ Doing(r, "report") /\ Head(posts[r].batch) \notin marked
    /\ Trouble
    /\ \E answer \in {"0", "401", "429", "500"} : Answered(r, answer)
    /\ UNCHANGED <<paid, marked, queue, moved, events, gone>>

(* ... or records the order, and its answer is lost. *)
AnswerLost(r) ==
    /\ Doing(r, "report") /\ Head(posts[r].batch) \notin marked
    /\ AnswerTo(Head(posts[r].batch)) = "200"
    /\ Trouble /\ Record(Head(posts[r].batch)) /\ Answered(r, "0")
    /\ UNCHANGED <<paid, marked, queue, moved, gone>>

Mark(r) ==
    /\ Doing(r, "mark") /\ Going(r, "forget")
    /\ marked' = marked \cup {Head(posts[r].batch)}
    /\ UNCHANGED <<paid, queue, moved, events, troubles, refused, gone>>

Forget(r) ==
    /\ Doing(r, "forget")
    /\ LET o == Head(posts[r].batch)
           kept == Only(posts[r].seen, Orders \ {o})
       IN /\ queue' = kept
          /\ gone' = gone \cup Overwritten(r, kept)
          /\ Become(r, IF Len(posts[r].batch) = 1 THEN Idle
                       ELSE [pc |-> "report", seen |-> kept, batch |-> Tail(posts[r].batch)])
    /\ UNCHANGED <<paid, marked, moved, events, troubles, refused>>

(* A request ends part way; the status an order reached stays.               *)
Dies(r) ==
    /\ ~Doing(r, "idle") /\ Trouble /\ Become(r, Idle)
    /\ gone' = IF Doing(r, "push") THEN gone \cup {posts[r].order} ELSE gone
    /\ UNCHANGED <<paid, marked, queue, moved, events, refused>>

(* The shop changes its domain, and reconnects from there. *)
Move ==
    /\ ~moved /\ moved' = TRUE /\ Trouble
    /\ UNCHANGED <<paid, marked, queue, posts, events, refused, gone>>

Reconnect ==
    /\ moved /\ moved' = FALSE
    /\ UNCHANGED <<paid, marked, queue, posts, events, troubles, refused, gone>>

Next ==
    \/ Move \/ Reconnect
    \/ \E r \in Requests :
          \/ Push(r) \/ DrainStart(r) \/ AlreadyReported(r) \/ Post(r) \/ PostFails(r)
          \/ AnswerLost(r) \/ Mark(r) \/ Forget(r) \/ Dies(r)
          \/ \E o \in Orders : StatusChanges(r, o)

Spec == Init /\ [][Next]_vars
-----------------------------------------------------------------------------
(* Every variable has its type, and the queue its cap. *)
TypeOK ==
    /\ {marked, refused, gone} \subseteq SUBSET Orders /\ marked \subseteq paid
    /\ Len(queue) <= MaxEntries /\ ToSet(queue) \subseteq Orders
    /\ moved \in BOOLEAN /\ troubles \in 0 .. MaxTroubles
    /\ events \in [Orders -> {NoEvent} \cup
                      [selections : Nat, revenue : Int]]

(* The marker is on the order only when the cloud has the order: it is what   *)
(* stops every later report (OrderReporter, "the order is the record").       *)
MarkedIsRecorded == \A o \in marked : events[o] # NoEvent

(* However often a report is delivered, its selections are counted once       *)
(* ("A retry must replace the selections, not append to them").               *)
CountedOnce ==
    \A o \in Orders : events[o] = NoEvent \/ events[o].selections <= Payload(o).selections

Earned(o) ==
    LET earned[i \in 0 .. Len(Lines[o])] ==
            IF i = 0 THEN 0 ELSE earned[i - 1] + DeltaOf(Lines[o][i])
    IN earned[Len(Lines[o])]

(* What the merchant earned does not depend on how much of it fits in a       *)
(* report: the revenue recorded is that of every line (F146, F147).           *)
RevenueComplete ==
    \A o \in Orders : events[o] # NoEvent => events[o].revenue = Earned(o)

(* An order that was paid for is reported, or waits, or was refused, unless   *)
(* another request wrote over its entry, the cap shed it, or its own request  *)
(* died: no outage, lost answer or revoked credential drops one.              *)
PaidIsAccountedFor ==
    \A o \in paid :
        \/ o \in marked \cup refused \cup gone \cup ToSet(queue)
        \/ \E r \in Requests : Doing(r, "push") /\ posts[r].order = o

(* Refuted.  A report is given up only for an order that is itself wrong      *)
(* (OrderReporter.php, "A 4xx other than 429 is this order being wrong"):     *)
(* while the site's address does not match, every order drained is refused    *)
(* with a 403 and forgotten.                                                 *)
OnlyWrongOrdersRefused == refused \subseteq Malformed

(* Refuted.  Two requests at once lose nothing: a drain that ends writes the  *)
(* queue it began with, less its batch.                                       *)
NothingOverwritten == troubles = 0 /\ Cardinality(paid) <= MaxEntries => gone = {}
=============================================================================
