------------------------------- MODULE Views --------------------------------
(***************************************************************************)
(* How often shoppers saw an option (Analytics/, views.service.ts): a beacon *)
(* of the page adds to counts kept in one WordPress option, a cron run sends *)
(* a batch of them and subtracts what was sent, and the cloud adds what      *)
(* arrives to its own.  The option is read and written back in two steps,    *)
(* with nothing to hold off another request in between.                      *)
(***************************************************************************)
EXTENDS Integers, Sequences, FiniteSets, Lists

CONSTANTS
    Beacons,    \* pages that may report at once
    Pairs,      \* (set, option, day): a count each
    Refused,    \* pairs the cloud's validation refuses, and with them the batch
    MaxViews,   \* ViewCollector::MAX_PER_OPTION
    MaxPairs,   \* ViewCollector::MAX_PAIRS
    MaxRows,    \* ViewReporter::MAX_ROWS
    MaxPages, MaxDrains  \* bounds

VARIABLES
    counts,   \* OPTION_VIEW_COUNTS: [pair, views], in the order they came
    pages,    \* the beacons' requests
    drain,    \* the cron run
    totals,   \* option_view_counts in the cloud
    seen,     \* history: views a collector took
    dropped,  \* history: views of refused batches
    again,    \* history: views recorded whose answer was lost
    muddled,  \* history: one wrote between another's read and write
    visits, drains

vars == <<counts, pages, drain, totals, seen, dropped, again, muddled, visits, drains>>

Idle == [pc |-> "idle"]
Keys(c) == {c[i].pair : i \in DOMAIN c}
ViewsOf(c, p) == IF p \in Keys(c) THEN c[CHOOSE i \in DOMAIN c : c[i].pair = p].views ELSE 0
Plus(f, c) == [p \in Pairs |-> f[p] + ViewsOf(c, p)]
-----------------------------------------------------------------------------
(* add: a pair that is new when the list is full, or full itself, is skipped. *)
Takes(c, p) == IF p \in Keys(c) THEN ViewsOf(c, p) < MaxViews ELSE Len(c) < MaxPairs

Counted(c, p) ==
    CASE ~Takes(c, p) -> c
      [] Takes(c, p) /\ p \in Keys(c) ->
           [i \in DOMAIN c |-> IF c[i].pair = p THEN [c[i] EXCEPT !.views = @ + 1] ELSE c[i]]
      [] OTHER -> Append(c, [pair |-> p, views |-> 1])

Added(c, options) == Folded(Counted, c, options)

(* Whoever is between its read and its write has read what is about to go.    *)
Reading == {b \in Beacons : pages[b].pc = "write"} \cup (IF drain.pc = "clear" THEN {"drain"} ELSE {})
Written(who, c) ==
    /\ counts' = c
    /\ muddled' = (muddled \/ Reading \ {who} # {})

(* A page reports when it is hidden, once for each set on it, with the options *)
(* in the order they are listed in.                                          *)
Listings ==
    {s \in UNION {[1 .. n -> Pairs] : n \in 1 .. Cardinality(Pairs)} :
        \A i, j \in DOMAIN s : i < j => s[i] < s[j]}

Beacon(b, options) ==
    /\ pages[b] = Idle /\ visits < MaxPages
    /\ visits' = visits + 1
    /\ pages' = [pages EXCEPT ![b] = [pc |-> "write", options |-> options, read |-> counts]]
    /\ UNCHANGED <<counts, drain, totals, seen, dropped, again, muddled, drains>>

Write(b) ==
    /\ pages[b].pc = "write"
    /\ LET new == Added(pages[b].read, pages[b].options) IN
       /\ IF new # pages[b].read THEN Written(b, new) ELSE UNCHANGED <<counts, muddled>>
       /\ seen' = [p \in Pairs |-> seen[p] + ViewsOf(new, p) - ViewsOf(pages[b].read, p)]
    /\ pages' = [pages EXCEPT ![b] = Idle]
    /\ UNCHANGED <<drain, totals, dropped, again, visits, drains>>
-----------------------------------------------------------------------------
(* drain: the first rows of the list, as they are now. *)
Drain ==
    /\ drain = Idle /\ drains < MaxDrains /\ counts # <<>>
    /\ drains' = drains + 1
    /\ drain' = [pc |-> "sent", batch |-> SubSeq(counts, 1, IF Len(counts) < MaxRows THEN Len(counts) ELSE MaxRows)]
    /\ UNCHANGED <<counts, pages, totals, seen, dropped, again, muddled, visits>>

Answer(status) == drain' = [pc |-> "answered", batch |-> drain.batch, status |-> status]

(* record: one upsert that adds every row, or none of them.                   *)
Valid(batch) == Keys(batch) \cap Refused = {}

Record(heard) ==
    /\ drain.pc = "sent" /\ Valid(drain.batch)
    /\ totals' = Plus(totals, drain.batch)
    /\ again' = IF heard THEN again ELSE Plus(again, drain.batch)
    /\ Answer(IF heard THEN "ok" ELSE "lost")
    /\ UNCHANGED <<counts, pages, seen, dropped, muddled, visits, drains>>

Refuse(status) ==
    /\ drain.pc = "sent" /\ (status = "rejected" <=> ~Valid(drain.batch))
    /\ Answer(status)
    /\ UNCHANGED <<counts, pages, totals, seen, dropped, again, muddled, visits, drains>>

(* Mutant: an answer that is not a throttle settles the batch. *)
SettledOnFailure(status) == status # "throttled"

(* What was accepted is subtracted, and so is what never will be; a batch     *)
(* that was throttled, unauthorised or unheard of stays.                      *)
Settled(status) == status \in {"ok", "rejected"}

Hear ==
    /\ drain.pc = "answered"
    /\ IF Settled(drain.status)
       THEN /\ drain' = [pc |-> "clear", batch |-> drain.batch, read |-> counts]
            /\ dropped' = IF drain.status = "rejected" THEN Plus(dropped, drain.batch) ELSE dropped
       ELSE drain' = Idle /\ UNCHANGED dropped
    /\ UNCHANGED <<counts, pages, totals, seen, again, muddled, visits, drains>>

(* Mutant: a pair that was sent is cleared with the views that came since. *)
ClearedWhole(c, batch) == Only(c, [pair : Pairs \ Keys(batch), views : 1 .. MaxViews])

(* clear: what was sent is subtracted, and an empty row goes.                *)
Cleared(c, batch) ==
    Only([i \in DOMAIN c |-> [c[i] EXCEPT !.views = @ - ViewsOf(batch, c[i].pair)]],
         [pair : Pairs, views : 1 .. MaxViews])

Clear ==
    /\ drain.pc = "clear"
    /\ Written("drain", Cleared(drain.read, drain.batch))
    /\ drain' = Idle
    /\ UNCHANGED <<pages, totals, seen, dropped, again, visits, drains>>

(* A request dies; a run that dies is one that hears nothing. *)
PageDies(b) ==
    /\ pages[b] # Idle /\ pages' = [pages EXCEPT ![b] = Idle]
    /\ UNCHANGED <<counts, drain, totals, seen, dropped, again, muddled, visits, drains>>
-----------------------------------------------------------------------------
Init ==
    /\ counts = <<>> /\ pages = [b \in Beacons |-> Idle] /\ drain = Idle
    /\ totals = [p \in Pairs |-> 0] /\ seen = totals /\ dropped = totals /\ again = totals
    /\ muddled = FALSE /\ visits = 0 /\ drains = 0

Next ==
    \/ \E b \in Beacons : (\E options \in Listings : Beacon(b, options)) \/ Write(b) \/ PageDies(b)
    \/ Drain \/ (\E heard \in BOOLEAN : Record(heard))
    \/ (\E status \in {"rejected", "throttled", "unauthorised", "failed"} : Refuse(status))
    \/ Hear \/ Clear

Spec == Init /\ [][Next]_vars
-----------------------------------------------------------------------------
(* The list and each count are within their limits, whoever races.            *)
TypeOK ==
    /\ Len(counts) <= MaxPairs
    /\ \A i, j \in DOMAIN counts : counts[i].pair = counts[j].pair => i = j
    /\ \A i \in DOMAIN counts : counts[i].pair \in Pairs /\ counts[i].views \in 1 .. MaxViews
    /\ visits \in 0 .. MaxPages /\ drains \in 0 .. MaxDrains /\ muddled \in BOOLEAN

(* Recorded or refused, and still to be subtracted. *)
Unsettled(p) ==
    IF drain.pc = "clear" \/ (drain.pc = "answered" /\ drain.status = "ok") THEN ViewsOf(drain.batch, p) ELSE 0

(* While no two writes of the option cross, every view a page reported is in  *)
(* the cloud, is pending or was in a refused batch, and is in one of these    *)
(* once: but for those whose answer was lost, which are sent again.           *)
ViewsAddUp ==
    ~muddled => \A p \in Pairs :
        totals[p] + ViewsOf(counts, p) + dropped[p] = seen[p] + again[p] + Unsettled(p)
-----------------------------------------------------------------------------
(* Refuted.  The same when writes cross: a page puts back what a run has      *)
(* subtracted, or loses what another page added.                              *)
ViewsNeverCross ==
    \A p \in Pairs : totals[p] + ViewsOf(counts, p) + dropped[p] = seen[p] + again[p] + Unsettled(p)

(* Refuted.  A view is in the cloud once.                                     *)
RecordedOnce == \A p \in Pairs : totals[p] <= seen[p]

(* Refuted.  Only what the cloud refuses is dropped: it refuses the batch.    *)
OnlyRefusedDropped == \A p \in Pairs \ Refused : dropped[p] = 0
=============================================================================
