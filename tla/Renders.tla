------------------------------- MODULE Renders -------------------------------
(***************************************************************************)
(* Print files: the plugin asks the cloud to render the designed lines of an *)
(* order (Design/RenderRequester.php), a worker of the cloud renders the     *)
(* jobs (design/render-worker.service.ts), and the plugin's cron fetches     *)
(* each file, tells the cloud it has it and records it on the order          *)
(* (Design/RenderCollector.php).  The cloud keeps a file's bytes only until   *)
(* it is told.                                                              *)
(*                                                                          *)
(* Orders and lines are numbered in the order they were made, and a line's    *)
(* number stands for its render id and its file.  The plugin keeps what it    *)
(* knows of an order's lines in four order metas; a collecting pass reads     *)
(* them once per order and writes them back when it has done all the lines.   *)
(***************************************************************************)
EXTENDS Integers, Sequences, FiniteSets, SequencesExt, Lists

CONSTANTS Lines,       \* 1 .. n: the designed lines
          OrderOf,     \* OrderOf[l]: the order of a line
          BadScenes,   \* lines whose scene cannot be rasterised
          Incomplete,  \* lines one of whose images cannot be fetched
          Workers,     \* render passes of the cloud at the same time
          Passes,      \* collecting passes of the plugin at the same time
          Batch,       \* BATCH_SIZE of both sides of the plugin
          MaxAttempts, \* MAX_RENDER_ATTEMPTS
          MaxTroubles  \* bound: failed calls, killed workers and passes

VARIABLES queue,    \* orders whose renders are to be requested
          ids,      \* META_RENDER_IDS: lines with a render
          files,    \* META_RENDER_FILES: lines with a recorded file
          failures, \* META_RENDER_FAILURES
          partials, \* META_RENDER_PARTIAL
          disk,     \* print files in the plugin's directory
          young,    \* those written less than GRACE_SECONDS ago
          jobs,     \* render_jobs
          claims,   \* what each worker is rendering
          pass,     \* the collecting passes
          troubles, \* those so far
          dropped,  \* history: lines the cloud refused
          lost      \* history: files the cloud released and no order records

vars == <<queue, ids, files, failures, partials, disk, young, jobs, claims, pass,
          troubles, dropped, lost>>
meta == <<ids, files, failures, partials>>

AllOrders == {OrderOf[l] : l \in Lines}
LinesOf(o) == {l \in Lines : OrderOf[l] = o}
InOrder(s) == Only([i \in 1 .. Len(OrderOf) |-> i], s)
First(s) == SubSeq(s, 1, IF Len(s) < Batch THEN Len(s) ELSE Batch)

NoJob == [attempts |-> -1]
NewJob == [attempts |-> 0, done |-> FALSE, dead |-> FALSE, png |-> FALSE,
           url |-> FALSE, error |-> FALSE]
Accepted(l) == jobs[l] # NoJob
Idle == [pc |-> "idle"]

Init ==
    /\ queue = <<>> /\ ids = {} /\ files = {} /\ failures = {} /\ partials = {}
    /\ disk = {} /\ young = {}
    /\ jobs = [l \in Lines |-> NoJob]
    /\ claims = [w \in Workers |-> <<>>]
    /\ pass = [p \in Passes |-> Idle]
    /\ troubles = 0 /\ dropped = {} /\ lost = {}

Trouble == troubles < MaxTroubles /\ troubles' = troubles + 1
-----------------------------------------------------------------------------
(* RenderRequester.                                                         *)
CheckedOut(o) ==
    /\ o \notin ToSet(queue) /\ \A l \in LinesOf(o) : ~Accepted(l) /\ l \notin dropped
    /\ queue' = Append(queue, o)
    /\ UNCHANGED <<meta, disk, young, jobs, claims, pass, troubles, dropped, lost>>

(* RenderJobsService::accept: a line asked for again has its job already.    *)
(* Mutant: asking again starts the job afresh. *)
Restarted(l) == NewJob
(* Mutant: the job of a line asked for the first time is not inserted. *)
NotInserted(l) == jobs[l]
Upserted(l) == IF Accepted(l) THEN jobs[l] ELSE NewJob

Accept(ls) == jobs' = [l \in Lines |-> IF l \in ls THEN Upserted(l) ELSE jobs[l]]

(* The order's lines are posted one by one and their ids kept at the end.    *)
Request(o) ==
    /\ o \in ToSet(First(queue))
    /\ Accept(LinesOf(o) \ ids)
    /\ ids' = ids \cup LinesOf(o) /\ queue' = Only(queue, AllOrders \ {o})
    /\ UNCHANGED <<files, failures, partials, disk, young, claims, pass, troubles, dropped, lost>>

(* A call fails that is worth retrying: the order waits, whatever the cloud   *)
(* accepted before, or accepted without an answer.                           *)
RequestFails(o) ==
    /\ o \in ToSet(First(queue)) /\ Trouble
    /\ \E last \in LinesOf(o) : Accept({l \in LinesOf(o) \ ids : l <= last})
    /\ UNCHANGED <<queue, meta, disk, young, claims, pass, dropped, lost>>

(* The cloud refuses a line: a 401, a 403 or a 422 is the end of it.          *)
RequestRefused(o) ==
    /\ o \in ToSet(First(queue)) /\ Trouble
    /\ \E l \in LinesOf(o) \ ids :
         /\ Accept(LinesOf(o) \ (ids \cup {l}))
         /\ ids' = ids \cup (LinesOf(o) \ {l}) /\ dropped' = dropped \cup {l}
    /\ queue' = Only(queue, AllOrders \ {o})
    /\ UNCHANGED <<files, failures, partials, disk, young, claims, pass, lost>>
-----------------------------------------------------------------------------
(* RenderWorkerService.  The claim locks its rows only while it counts the    *)
(* attempt, and nothing marks them as being rendered.                        *)
Pending == {l \in Lines : Accepted(l) /\ ~jobs[l].done /\ ~jobs[l].dead}

Claim(w) ==
    /\ claims[w] = <<>> /\ Pending # {}
    /\ LET batch == First(InOrder(Pending))
       IN /\ jobs' = [l \in Lines |-> IF l \in ToSet(batch)
                                      THEN [jobs[l] EXCEPT !.attempts = @ + 1] ELSE jobs[l]]
          /\ claims' = [claims EXCEPT ![w] =
                 [i \in DOMAIN batch |-> [line |-> batch[i],
                                          attempts |-> jobs[batch[i]].attempts + 1]]]
    /\ UNCHANGED <<queue, meta, disk, young, pass, troubles, dropped, lost>>

Rendered(job, attempts, l) ==
    [job EXCEPT !.attempts = attempts, !.done = TRUE, !.png = TRUE, !.error = l \in Incomplete]

(* Mutant: one attempt more is allowed. *)
GivenUpLate(attempts) == attempts > MaxAttempts
GivenUp(attempts) == attempts >= MaxAttempts

NotRendered(job, attempts) ==
    [job EXCEPT !.attempts = attempts, !.dead = GivenUp(attempts), !.error = TRUE]

Render(w) ==
    /\ claims[w] # <<>>
    /\ LET l == Head(claims[w]).line
           attempts == Head(claims[w]).attempts
       IN jobs' = [jobs EXCEPT ![l] = IF l \in BadScenes THEN NotRendered(@, attempts)
                                      ELSE Rendered(@, attempts, l)]
    /\ claims' = [claims EXCEPT ![w] = Tail(@)]
    /\ UNCHANGED <<queue, meta, disk, young, pass, troubles, dropped, lost>>

WorkerDies(w) ==
    /\ claims[w] # <<>> /\ Trouble /\ claims' = [claims EXCEPT ![w] = <<>>]
    /\ UNCHANGED <<queue, meta, disk, young, jobs, pass, dropped, lost>>
-----------------------------------------------------------------------------
(* RenderCollector.                                                         *)
(* Mutant: an order with a file is done. *)
WithoutFile == {o \in AllOrders : LinesOf(o) \cap ids # {} /\ LinesOf(o) \cap files = {}}
WithRenders == {o \in AllOrders : LinesOf(o) \cap ids # {}}

(* The oldest orders with renders, collected already or not.                 *)
CollectStart(p) ==
    /\ pass[p].pc = "idle"
    /\ LET todo == First(InOrder(WithRenders))
       IN todo # <<>> /\ pass' = [pass EXCEPT ![p] = [pc |-> "order", todo |-> todo]]
    /\ UNCHANGED <<queue, meta, disk, young, jobs, claims, troubles, dropped, lost>>

OpenOrder(p) ==
    /\ pass[p].pc = "order" /\ pass[p].todo # <<>>
    /\ LET own == LinesOf(Head(pass[p].todo))
       IN pass' = [pass EXCEPT ![p] =
              [pc |-> "line", todo |-> pass[p].todo,
               lines |-> InOrder((own \cap ids) \ (files \cup failures)),
               files |-> own \cap files, got |-> {},
               failures |-> own \cap failures, failed |-> {}, told |-> {}]]
    /\ UNCHANGED <<queue, meta, disk, young, jobs, claims, troubles, dropped, lost>>

(* Mutant: a directory that cannot be had is no reason to stop. *)
NotWritten(l) == disk
Written(l) == disk \cup {l}

AtLine(p) == pass[p].pc = "line" /\ pass[p].lines # <<>>
NextLine(job) == [job EXCEPT !.pc = "line", !.lines = Tail(@)]

Failed(l) == IF jobs[l].dead THEN {l} ELSE {}

Fetch(p) ==
    /\ AtLine(p)
    /\ LET l == Head(pass[p].lines)
       IN \/ /\ jobs[l].png /\ disk' = Written(l) /\ young' = young \cup (disk' \cap {l})
             /\ pass' = [pass EXCEPT ![p].pc = "confirm", ![p].got = @ \cup {l}]
          \/ /\ ~jobs[l].png /\ UNCHANGED <<disk, young>>
             /\ pass' = [pass EXCEPT ![p] = NextLine([pass[p] EXCEPT !.failed = @ \cup Failed(l)])]
    /\ UNCHANGED <<queue, meta, jobs, claims, troubles, dropped, lost>>

Stops(p) ==
    /\ pass' = [pass EXCEPT ![p] = Idle]
    /\ lost' = lost \cup {l \in pass[p].got : jobs[l].url /\ l \notin files}

(* A call worth retrying ends the pass, and what it holds is not written.    *)
FetchFails(p) ==
    /\ AtLine(p) /\ Trouble /\ Stops(p)
    /\ UNCHANGED <<queue, meta, disk, young, jobs, claims, dropped>>

(* An answer that is no file and says nothing: the next pass asks again.      *)
FetchSkipped(p) ==
    /\ AtLine(p) /\ Trouble /\ pass' = [pass EXCEPT ![p] = NextLine(@)]
    /\ UNCHANGED <<queue, meta, disk, young, jobs, claims, dropped, lost>>

(* note_if_partial, then confirm: markCollected releases the bytes.           *)
Told(l) == IF jobs[l].error THEN {l} ELSE {}
Collected(job) == [job EXCEPT !.url = TRUE, !.png = FALSE]

Confirm(p) ==
    /\ pass[p].pc = "confirm"
    /\ LET l == Head(pass[p].lines)
       IN \/ /\ jobs' = [jobs EXCEPT ![l] = Collected(@)] /\ UNCHANGED troubles
             /\ pass' = [pass EXCEPT ![p] = NextLine([pass[p] EXCEPT !.told = @ \cup Told(l)])]
          \/ /\ Trouble /\ UNCHANGED jobs
             /\ pass' = [pass EXCEPT ![p] = NextLine([pass[p] EXCEPT !.told = @ \cup Told(l)])]
          \/ /\ Trouble /\ jobs' = [jobs EXCEPT ![l] = Collected(@)]
             /\ pass' = [pass EXCEPT ![p] = NextLine(@)]
    /\ UNCHANGED <<queue, meta, disk, young, claims, dropped, lost>>

(* A map is written back whole when the pass has something to put in it.     *)
WriteBack(map, own, read, new) == IF new = {} THEN map ELSE (map \ own) \cup read \cup new

SaveOrder(p) ==
    /\ pass[p].pc = "line" /\ pass[p].lines = <<>>
    /\ LET own == LinesOf(Head(pass[p].todo))
       IN /\ files' = WriteBack(files, own, pass[p].files, pass[p].got)
          /\ failures' = WriteBack(failures, own, pass[p].failures, pass[p].failed)
          /\ partials' = WriteBack(partials, own, own \cap partials, pass[p].told)
          /\ lost' = lost \cup {l \in (own \cap files) \ files' : jobs[l].url}
    /\ pass' = [pass EXCEPT ![p] = [pc |-> "order", todo |-> Tail(pass[p].todo)]]
    /\ UNCHANGED <<queue, ids, disk, young, jobs, claims, troubles, dropped>>

CollectEnd(p) ==
    /\ pass[p].pc = "order" /\ pass[p].todo = <<>>
    /\ pass' = [pass EXCEPT ![p] = Idle]
    /\ UNCHANGED <<queue, meta, disk, young, jobs, claims, troubles, dropped, lost>>

PassDies(p) ==
    /\ pass[p].pc \in {"line", "confirm"} /\ Trouble /\ Stops(p)
    /\ UNCHANGED <<queue, meta, disk, young, jobs, claims, dropped>>
-----------------------------------------------------------------------------
(* The hourly sweep of the directory knows print files by the orders' meta.   *)
Ages(l) ==
    /\ l \in young
    /\ ~\E p \in Passes : pass[p].pc \in {"line", "confirm"} /\ l \in pass[p].got
    /\ young' = young \ {l}
    /\ UNCHANGED <<queue, meta, disk, jobs, claims, pass, troubles, dropped, lost>>

(* Mutant: the sweep knows the uploads' names only. *)
NoPrintFileNames == {}
PrintFileNames == files

Sweep ==
    /\ disk \ (young \cup PrintFileNames) # {}
    /\ disk' = disk \cap (young \cup PrintFileNames)
    /\ UNCHANGED <<queue, meta, young, jobs, claims, pass, troubles, dropped, lost>>
-----------------------------------------------------------------------------
Next ==
    \/ \E o \in AllOrders : CheckedOut(o) \/ Request(o) \/ RequestFails(o) \/ RequestRefused(o)
    \/ \E w \in Workers : Claim(w) \/ Render(w) \/ WorkerDies(w)
    \/ \E p \in Passes : CollectStart(p) \/ OpenOrder(p) \/ Fetch(p) \/ FetchFails(p)
                         \/ FetchSkipped(p) \/ Confirm(p) \/ SaveOrder(p) \/ CollectEnd(p)
                         \/ PassDies(p)
    \/ \E l \in Lines : Ages(l)
    \/ Sweep

CloudWorks ==
    \/ \E o \in AllOrders : Request(o)
    \/ \E w \in Workers : Claim(w) \/ Render(w)

Collect ==
    \E p \in Passes : \/ CollectStart(p) \/ OpenOrder(p) \/ Fetch(p)
                      \/ Confirm(p) \/ SaveOrder(p) \/ CollectEnd(p)

(* Both crons run for ever, and a worker ends what it took.                   *)
Fairness == WF_vars(CloudWorks) /\ WF_vars(Collect)

Spec == Init /\ [][Next]_vars /\ Fairness
-----------------------------------------------------------------------------
(* The variables keep to their domains, and an id is of a job the cloud has.  *)
TypeOK ==
    /\ ToSet(queue) \subseteq AllOrders /\ ids \subseteq Lines
    /\ files \cup failures \subseteq ids /\ partials \subseteq ids
    /\ young \subseteq disk /\ disk \subseteq ids
    /\ \A l \in ids : Accepted(l)
    /\ troubles \in 0 .. MaxTroubles

(* A job is given up after so many attempts; only a killed worker, or another *)
(* worker on the same job, takes one more.                                   *)
GivenUpInTime ==
    \A l \in Lines : jobs[l].attempts <= MaxAttempts + troubles + Cardinality(Workers) - 1

(* Asking again never costs a render: a finished job stays finished.         *)
KeepsFinished == \A l \in Lines : (Accepted(l) /\ jobs[l].done) => jobs'[l].done

FinishedStays == [][KeepsFinished]_vars

(* The cloud lets go of the bytes only while the plugin has them on disk.     *)
KeepsBytes == \A l \in Lines : (Accepted(l) /\ jobs[l].png /\ ~jobs'[l].png) => l \in disk

ReleasedWhenStored == [][KeepsBytes]_vars

(* What an order records is there to download: the sweep leaves it alone.    *)
RecordedIsOnDisk == files \subseteq disk

(* Every line of an order gets its print file, or the merchant is told that   *)
(* it failed, or the call that lost it is on record.                         *)
LinesSettle ==
    \A o \in AllOrders : (o \in ToSet(queue)) ~>
        (LinesOf(o) \subseteq files \cup failures \cup dropped \cup lost)
-----------------------------------------------------------------------------
(* Refuted.  No print file is lost: a later line's failed call throws away    *)
(* the names of files already confirmed to the cloud.                        *)
NothingLost == lost = {}

(* Refuted.  A job that kills its worker does not loop: the claim does not     *)
(* look at the attempts it counts.                                           *)
KilledJobStops == \A l \in Lines : jobs[l].attempts <= MaxAttempts

(* Refuted.  Two workers do not render the same job.                         *)
RenderedOnce ==
    \A v, w \in Workers : v # w =>
        {c.line : c \in ToSet(claims[v])} \cap {c.line : c \in ToSet(claims[w])} = {}

(* Refuted.  Bytes once collected are not stored again.                      *)
ReleasedForGood == \A l \in Lines : Accepted(l) /\ jobs[l].url => ~jobs[l].png

(* Refuted.  A merchant whose file lacks an image is told.                   *)
IncompleteIsTold == \A l \in files \cap Incomplete : l \in partials
=============================================================================
