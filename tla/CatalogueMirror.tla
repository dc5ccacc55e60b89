--------------------------- MODULE CatalogueMirror ---------------------------
(***************************************************************************)
(* The cloud's mirror of a shop's products (plugin Catalogue/, backend       *)
(* products/): the queue of edits and removals, the walk over the whole      *)
(* catalogue, and the daily reconciliation that deletes what the shop no     *)
(* longer has.                                                              *)
(*                                                                          *)
(* Queue and cursor are options.  A PHP request reads each once (get_option  *)
(* caches it) and writes it back whole.                                      *)
(***************************************************************************)
EXTENDS Integers, Sequences, SequencesExt, Lists

CONSTANTS Products,    \* the shop's product ids, a sequence in numeric order
          Sorted,      \* the same, in the order of strings
          Requests,    \* PHP requests at the same time
          BatchSize,   \* CataloguePusher::BATCH_SIZE
          BodyLimit,   \* products the server takes in one body
          PageSize,    \* CatalogueReconciler::PAGE_SIZE
          MaxEntries,  \* ProductQueue::MAX_ENTRIES
          MaxSaves,    \* bound: saves and removals by the merchant
          MaxRuns,     \* bound: walks begun
          MaxTroubles  \* bound: failures, deaths, restarts of the walk

Ids == ToSet(Products)

VARIABLES shop,     \* the products: [v, live], v counting their changes
          mirror,   \* store_products, likewise; v is of the change last delivered
          backlog,  \* OPTION_PRODUCT_QUEUE: [id, action], oldest first
          cursor,   \* OPTION_CATALOGUE_CURSOR
          tasks,    \* the requests
          runs,     \* walks begun
          mishaps,  \* troubles so far
          missed    \* history: products whose change was skipped, shed or overtaken

vars == <<shop, mirror, backlog, cursor, tasks, runs, mishaps, missed>>

NoCursor == [run |-> 0, offset |-> 0, total |-> 0, claimed |-> FALSE]
Free == [pc |-> "idle"]
Live == {p \in Ids : shop[p].live}
InShop == Only(Products, Live)
Changes == LET count[i \in 0 .. Len(Products)] ==
                 IF i = 0 THEN 0 ELSE count[i - 1] + shop[Products[i]].v
           IN count[Len(Products)]

Init ==
    /\ shop \in [Ids -> {[v |-> 0, live |-> b] : b \in BOOLEAN}]
    /\ mirror = [p \in Ids |-> [v |-> 0, live |-> FALSE]]
    /\ backlog = <<>> /\ cursor = NoCursor
    /\ tasks = [r \in Requests |-> Free]
    /\ runs = 0 /\ mishaps = 0 /\ missed = {}

Mishap == mishaps < MaxTroubles /\ mishaps' = mishaps + 1
On(r, pc) == tasks[r].pc = pc
Set(r, task) == tasks' = [tasks EXCEPT ![r] = task]
Turn(r, pc) == Set(r, [tasks[r] EXCEPT !.pc = pc])
-----------------------------------------------------------------------------
(* The queue, keyed by product: the newest intent keeps the oldest place.    *)
IdsOf(entries) == {e.id : e \in ToSet(entries)}

(* Mutant: an entry that is there keeps its intent. *)
FirstIntent(entries, id, action) ==
    IF id \in IdsOf(entries) THEN entries ELSE Append(entries, [id |-> id, action |-> action])
Queued(entries, id, action) ==
    IF id \in IdsOf(entries)
    THEN [i \in DOMAIN entries |-> IF entries[i].id = id
                                   THEN [id |-> id, action |-> action] ELSE entries[i]]
    ELSE Append(entries, [id |-> id, action |-> action])

(* Mutant: the cap is applied one entry late. *)
NewestLate(entries) ==
    IF Len(entries) > MaxEntries + 1
    THEN SubSeq(entries, Len(entries) - MaxEntries + 1, Len(entries)) ELSE entries
Newest(entries) ==
    IF Len(entries) > MaxEntries
    THEN SubSeq(entries, Len(entries) - MaxEntries + 1, Len(entries)) ELSE entries

(* Entries that request r does not know of, or knows otherwise, and that a   *)
(* write of `next' in place of the queue loses.                              *)
Trampled(r, next) == {e.id : e \in ToSet(backlog) \ (ToSet(tasks[r].seen) \cup ToSet(next))}

(* The intent request r writes is not the shop's any more, and no other is   *)
(* to follow it.                                                             *)
Outdated(r) ==
    {p \in Ids : /\ p = tasks[r].id /\ shop[p].live # (tasks[r].action = "upsert")
                 /\ \A q \in Requests \ {r} : ~(On(q, "push") /\ tasks[q].id = p)}

Walking == \E r \in Requests : tasks[r].pc \in {"claim", "page", "send", "release"}

(* A row that appears or goes moves the later ones under a walk's offset.    *)
Shifted(p) ==
    IF cursor.run = 0 /\ ~Walking THEN {}
    ELSE {Products[i] : i \in {i \in DOMAIN Products : \E j \in 1 .. i - 1 : Products[j] = p}}

(* A product is saved, or trashed; the hook reads the queue ... *)
Save(r, p) ==
    /\ On(r, "idle") /\ Changes < MaxSaves
    /\ shop' = [shop EXCEPT ![p] = [v |-> @.v + 1, live |-> TRUE]]
    /\ Set(r, [pc |-> "push", id |-> p, action |-> "upsert", seen |-> backlog])
    /\ missed' = IF shop[p].live THEN missed ELSE missed \cup Shifted(p)
    /\ UNCHANGED <<mirror, backlog, cursor, runs, mishaps>>

Trash(r, p) ==
    /\ On(r, "idle") /\ Changes < MaxSaves /\ shop[p].live
    /\ shop' = [shop EXCEPT ![p] = [v |-> @.v + 1, live |-> FALSE]]
    /\ Set(r, [pc |-> "push", id |-> p, action |-> "remove", seen |-> backlog])
    /\ missed' = missed \cup Shifted(p)
    /\ UNCHANGED <<mirror, backlog, cursor, runs, mishaps>>

(* ... and writes it. *)
Enqueue(r) ==
    /\ On(r, "push") /\ Set(r, Free)
    /\ LET next == Newest(Queued(tasks[r].seen, tasks[r].id, tasks[r].action))
       IN /\ backlog' = next
          /\ missed' = missed \cup Trampled(r, next) \cup (IdsOf(tasks[r].seen) \ IdsOf(next)) \cup Outdated(r)
    /\ UNCHANGED <<shop, mirror, cursor, runs, mishaps>>
-----------------------------------------------------------------------------
(* CatalogueIngestService.ingest: rows are upserted as they come.            *)
Upserted(batch) ==
    [p \in Ids |-> IF \E i \in DOMAIN batch : batch[i].id = p
                   THEN [v |-> (CHOOSE e \in ToSet(batch) : e.id = p).v, live |-> TRUE]
                   ELSE mirror[p]]
Overtaken(batch) == {e.id : e \in {e \in ToSet(batch) : e.v < mirror[e.id].v}}
Entry(p) == [id |-> p, v |-> shop[p].v]

ToBe(action) == Only(backlog, {e \in ToSet(backlog) : e.action = action})

(* QueueDrainer.drain: what is sent is read now. *)
DrainStart(r) ==
    /\ On(r, "idle") /\ backlog # <<>>
    /\ LET known == Only(ToBe("upsert"), {e \in ToSet(backlog) : shop[e.id].live})
       IN Set(r, [pc |-> IF ToBe("upsert") = <<>> THEN "removals" ELSE "upserts",
                  seen |-> backlog, ids |-> IdsOf(ToBe("upsert")),
                  batch |-> [i \in DOMAIN known |-> Entry(known[i].id)],
                  removals |-> [i \in DOMAIN ToBe("remove") |-> ToBe("remove")[i].id]])
    /\ UNCHANGED <<shop, mirror, backlog, cursor, runs, mishaps, missed>>

Forgotten(r, ids) == Only(tasks[r].seen, {e \in ToSet(tasks[r].seen) : e.id \notin ids})

(* Mutant: a batch that fails is forgotten like one that is taken. *)
ForgottenToo(r) == Forgotten(r, tasks[r].ids)
QueuedAgain(r) == backlog

ForgetUpserts(r, changed) ==
    /\ backlog' = Forgotten(r, tasks[r].ids)
    /\ missed' = missed \cup Trampled(r, Forgotten(r, tasks[r].ids)) \cup changed
          \cup {p \in tasks[r].ids : \A i \in DOMAIN tasks[r].batch :
                                        tasks[r].batch[i].id = p => tasks[r].batch[i].v # shop[p].v}
    /\ Set(r, [tasks[r] EXCEPT !.pc = "removals", !.seen = Forgotten(r, tasks[r].ids)])

DrainUpserts(r) ==
    /\ On(r, "upserts")
    /\ mirror' = Upserted(tasks[r].batch)
    /\ ForgetUpserts(r, Overtaken(tasks[r].batch))
    /\ UNCHANGED <<shop, cursor, runs, mishaps>>

DrainFails(r) ==
    /\ On(r, "upserts") /\ tasks[r].batch # <<>> /\ Mishap
    /\ backlog' = QueuedAgain(r)
    /\ Turn(r, "removals")
    /\ UNCHANGED <<shop, mirror, cursor, runs, missed>>

DrainRemoval(r) ==
    /\ On(r, "removals") /\ tasks[r].removals # <<>>
    /\ LET p == Head(tasks[r].removals)
           next == Forgotten(r, {p})
       IN /\ mirror' = [mirror EXCEPT ![p] = [v |-> shop[p].v, live |-> FALSE]]
          /\ backlog' = next
          /\ missed' = missed \cup Trampled(r, next) \cup (IF shop[p].live THEN {p} ELSE {})
          /\ Set(r, [tasks[r] EXCEPT !.removals = Tail(@), !.seen = next])
    /\ UNCHANGED <<shop, cursor, runs, mishaps>>

DrainEnds(r) ==
    /\ On(r, "removals") /\ Set(r, Free)
    /\ \/ tasks[r].removals = <<>> /\ UNCHANGED mishaps
       \/ tasks[r].removals # <<>> /\ Mishap
    /\ UNCHANGED <<shop, mirror, backlog, cursor, runs, missed>>
-----------------------------------------------------------------------------
(* CataloguePusher.run: the cursor is read, and claimed if nobody has. *)
WalkRead(r) ==
    /\ On(r, "idle") /\ ~cursor.claimed
    /\ Set(r, [pc |-> "claim", at |-> cursor])
    /\ UNCHANGED <<shop, mirror, backlog, cursor, runs, mishaps, missed>>

(* A claim that was never released expires. *)
ClaimExpires ==
    /\ cursor.claimed /\ \A r \in Requests : On(r, "idle")
    /\ cursor' = [cursor EXCEPT !.claimed = FALSE]
    /\ UNCHANGED <<shop, mirror, backlog, tasks, runs, mishaps, missed>>

Complete(c) == c.run # 0 /\ c.offset >= c.total

WalkClaim(r) ==
    /\ On(r, "claim")
    /\ cursor' = [tasks[r].at EXCEPT !.claimed = TRUE]
    /\ Set(r, [pc |-> IF Complete(tasks[r].at) THEN "release" ELSE "page", at |-> cursor'])
    /\ UNCHANGED <<shop, mirror, backlog, runs, mishaps, missed>>

(* page: ordered by id, from an offset into the products there are now. *)
PageFrom(offset) ==
    LET last == IF offset + BatchSize < Len(InShop) THEN offset + BatchSize ELSE Len(InShop)
    IN [i \in 1 .. (IF last > offset THEN last - offset ELSE 0) |-> Entry(InShop[offset + i])]

Begun(r) ==
    IF tasks[r].at.run # 0 THEN tasks[r].at
    ELSE [run |-> runs + 1, offset |-> 0, total |-> Len(InShop), claimed |-> TRUE]

WalkPage(r) ==
    /\ On(r, "page") /\ Live # {} /\ (tasks[r].at.run # 0 \/ runs < MaxRuns)
    /\ LET c == Begun(r)
           batch == PageFrom(c.offset)
           at == IF batch = <<>> THEN [c EXCEPT !.offset = IF c.total > @ THEN c.total ELSE @] ELSE c
       IN /\ cursor' = (IF at = tasks[r].at THEN cursor ELSE at)
          /\ runs' = IF tasks[r].at.run = 0 THEN runs + 1 ELSE runs
          /\ Set(r, [pc |-> IF batch = <<>> THEN "release" ELSE "send", at |-> at, batch |-> batch])
    /\ UNCHANGED <<shop, mirror, backlog, mishaps, missed>>

WalkEmpty(r) ==
    /\ On(r, "page") /\ Live = {} /\ Turn(r, "release")
    /\ UNCHANGED <<shop, mirror, backlog, cursor, runs, mishaps, missed>>

(* send: a body the server refuses is halved once. *)
Sent(batch) ==
    LET half == SubSeq(batch, 1, IF Len(batch) = 1 THEN 1 ELSE Len(batch) \div 2)
    IN IF Len(batch) <= BodyLimit THEN batch
       ELSE IF Len(batch) > 1 /\ Len(half) <= BodyLimit THEN half ELSE <<>>

(* Mutant: the cursor moves by what was read, not by what was taken. *)
MoveByPage(r, sent) == Len(tasks[r].batch)
MoveBySent(r, sent) == Len(sent)

Advanced(r, count) == [tasks[r].at EXCEPT !.offset = @ + count]

WalkSend(r) ==
    /\ On(r, "send")
    /\ LET sent == Sent(tasks[r].batch)
       IN /\ mirror' = Upserted(sent)
          /\ missed' = missed \cup Overtaken(sent)
          /\ Set(r, [pc |-> "release",
                     at |-> Advanced(r, IF sent = <<>> THEN 0 ELSE MoveBySent(r, sent))])
          /\ cursor' = tasks'[r].at
    /\ UNCHANGED <<shop, backlog, runs, mishaps>>

WalkFails(r) ==
    /\ On(r, "send") /\ Mishap /\ Turn(r, "release")
    /\ UNCHANGED <<shop, mirror, backlog, cursor, runs, missed>>

WalkRelease(r) ==
    /\ On(r, "release") /\ Set(r, Free)
    /\ cursor' = [tasks[r].at EXCEPT !.claimed = FALSE]
    /\ UNCHANGED <<shop, mirror, backlog, runs, mishaps, missed>>

(* "Sync catalogue": the cursor is deleted. *)
Restart ==
    /\ cursor.run # 0 /\ Mishap /\ cursor' = NoCursor
    /\ UNCHANGED <<shop, mirror, backlog, tasks, runs, missed>>

(* ConnectionSection: a disconnect forgets the cursor and clears the queue.  *)
Disconnect ==
    /\ Mishap /\ cursor' = NoCursor /\ backlog' = <<>>
    /\ missed' = missed \cup
          \* the next walk sends what was to be saved, unless a batch under way
          \* writes back the cursor it read
          {e.id : e \in {e \in ToSet(backlog) : e.action = "remove" \/ Walking}}
    /\ UNCHANGED <<shop, mirror, tasks, runs>>
-----------------------------------------------------------------------------
(* CatalogueReconciler: the manifest is read once the walk is complete, and  *)
(* sent in pages that all name the lowest id of the whole.                   *)
Chunk(ids) == SubSeq(ids, 1, IF Len(ids) < PageSize THEN Len(ids) ELSE PageSize)
RestOf(ids) == SubSeq(ids, PageSize + 1, Len(ids))

SweepStart(r) ==
    /\ On(r, "idle") /\ Complete(cursor) /\ Live # {}
    /\ LET ids == Only(Sorted, Live)
       IN Set(r, [pc |-> "sweep", ids |-> ids, floor |-> ids[1], manifest |-> ToSet(ids)])
    /\ UNCHANGED <<shop, mirror, backlog, cursor, runs, mishaps, missed>>

Rank(p) == CHOOSE i \in DOMAIN Sorted : Sorted[i] = p

(* CatalogueIngestService.reconcile: what is held from the floor up and is    *)
(* not on this page, once the page says it is the last.                      *)
(* Mutant: every page deletes. *)
StaleOnEveryPage(floor, ids) ==
    {p \in Ids : mirror[p].live /\ Rank(p) >= Rank(floor)} \ ToSet(Chunk(ids))
StaleFor(floor, ids) ==
    IF RestOf(ids) # <<>> THEN {}
    ELSE {p \in Ids : mirror[p].live /\ Rank(p) >= Rank(floor)} \ ToSet(Chunk(ids))

SweepPage(r) ==
    /\ On(r, "sweep")
    /\ LET stale == StaleFor(tasks[r].floor, tasks[r].ids)
       IN /\ mirror' = [p \in Ids |-> IF p \in stale THEN [mirror[p] EXCEPT !.live = FALSE]
                                      ELSE mirror[p]]
          /\ missed' = missed \cup (stale \cap Live)
    /\ Set(r, IF RestOf(tasks[r].ids) = <<>> THEN Free
              ELSE [tasks[r] EXCEPT !.ids = RestOf(@)])
    /\ UNCHANGED <<shop, backlog, cursor, runs, mishaps>>

(* A page that fails abandons the sweep; any request may die. *)
Ends(r) ==
    /\ ~On(r, "idle") /\ Mishap /\ Set(r, Free)
    /\ missed' = IF On(r, "push") THEN missed \cup {tasks[r].id} ELSE missed
    /\ UNCHANGED <<shop, mirror, backlog, cursor, runs>>

Next ==
    \/ ClaimExpires \/ Restart \/ Disconnect
    \/ \E r \in Requests :
          \/ Enqueue(r) \/ DrainStart(r) \/ DrainUpserts(r) \/ DrainFails(r)
          \/ DrainRemoval(r) \/ DrainEnds(r)
          \/ WalkRead(r) \/ WalkClaim(r) \/ WalkPage(r) \/ WalkEmpty(r)
          \/ WalkSend(r) \/ WalkFails(r) \/ WalkRelease(r)
          \/ SweepStart(r) \/ SweepPage(r) \/ Ends(r)
          \/ \E p \in Ids : Save(r, p) \/ Trash(r, p)

Spec == Init /\ [][Next]_vars
-----------------------------------------------------------------------------
Versions == [v : 0 .. MaxSaves, live : BOOLEAN]

(* Every variable has its type. *)
TypeOK ==
    /\ {shop, mirror} \subseteq [Ids -> Versions]
    /\ Len(backlog) <= MaxEntries
    /\ ToSet(backlog) \subseteq [id : Ids, action : {"upsert", "remove"}]
    /\ cursor \in [run : 0 .. MaxRuns, offset : 0 .. Len(Products),
                   total : 0 .. Len(Products), claimed : BOOLEAN]
    /\ runs \in 0 .. MaxRuns /\ mishaps \in 0 .. MaxTroubles /\ missed \subseteq Ids

Quiet == \A r \in Requests : On(r, "idle")

(* Once the walk is complete and the queue is empty, the mirror is the shop,  *)
(* but for products whose change the cap shed, a deletion moved under the     *)
(* walk, or another request overtook or wrote over: a failure, a lost answer  *)
(* or a restarted walk leaves nothing behind.                                *)
MirrorSettles ==
    Quiet /\ backlog = <<>> /\ Complete(cursor) => \A p \in Ids \ missed : mirror[p] = shop[p]

(* A manifest that is still arriving deletes nothing: an id that is absent    *)
(* from a page is not a product that is gone (ADR-075).                      *)
PageDeletesNothing ==
    \A r \in Requests :
        On(r, "sweep") /\ tasks'[r].pc = "sweep" /\ tasks'[r] # tasks[r] =>
            \A p \in Ids : mirror[p].live => mirror'[p].live

PagesDoNotDelete == [][PageDeletesNothing]_vars

(* Refuted.  A product on the manifest is not deleted by its sweep            *)
(* (catalogue-ingest.service.ts, "Deletes only on a complete manifest, and    *)
(* only inside its range"): the last of several pages is compared with all    *)
(* that is held from the first page's floor.                                 *)
SweepKeepsItsManifest ==
    [][\A r \in Requests :
          On(r, "sweep") /\ tasks'[r] # tasks[r] =>
              \A p \in tasks[r].manifest : mirror[p].live => mirror'[p].live]_vars

(* Refuted.  A walk restarted is walked (ConnectionSection.php, "the next     *)
(* cron run finds no walk in progress and starts one"): a batch under way     *)
(* writes back the cursor it read.                                           *)
RestartHolds == [][cursor.run = 0 /\ cursor'.run # 0 => runs' = runs + 1]_vars
=============================================================================
