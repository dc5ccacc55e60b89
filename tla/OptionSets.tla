----------------------------- MODULE OptionSets ------------------------------
(***************************************************************************)
(* Authoring, publishing and deleting the option sets of one store: the     *)
(* NestJS services under option-sets/ over one MySQL database.              *)
(*                                                                          *)
(* A request of a client reads what it decides on outside the transaction   *)
(* it then commits, so it is modelled in steps: `jobs` holds what each      *)
(* request in flight has read.  A transaction is one step.  Content is an   *)
(* edition number: two trees are the same content iff the numbers agree.    *)
(***************************************************************************)
EXTENDS Naturals

CONSTANTS Sets,        \* option set ids of one store
          Products,    \* assignment targets
          Clients,     \* requests that may be in flight together
          NoSet,       \* the set of an idle client
          MaxEdits,    \* bound: editions of one set's draft
          MaxBumps     \* bound: configVersion

ASSUME NoSetAssumption == NoSet \notin Sets
ASSUME BoundsAssumption == MaxEdits \in Nat /\ MaxBumps \in Nat

VARIABLES sets,          \* option_sets rows
          snapshots,     \* option_set_versions rows of each set
          targets,       \* live option_set_assignments of each set
          configVersion, \* stores.configVersion
          jobs,          \* what each request in flight has read
          unannounced    \* history: sets that left the document unbumped

vars == <<sets, snapshots, targets, configVersion, jobs, unannounced>>
-----------------------------------------------------------------------------
Row == [state : {"absent", "live", "deleted", "purged"},
        status : {"draft", "published"},
        version : Nat, rowVersion : Nat, draft : Nat,
        publishedConfigVersion : Nat]

Snapshot == [version : Nat, content : Nat]

Job == [pc : {"idle", "touch", "reviewed", "row", "publish", "rollback",
              "remove", "purge", "assign"},
        set : Sets \cup {NoSet},
        expect : Nat,         \* the rowVersion the dashboard sent, 0 for none
        reviewed : Nat,       \* the edition the client had on screen
        content : Nat,        \* the tree or the snapshot the service loaded
        wasVisible : BOOLEAN] \* the deleting service saw it published and live

NoJob == [pc |-> "idle", set |-> NoSet, expect |-> 0, reviewed |-> 0,
          content |-> 0, wasVisible |-> FALSE]

TypeOK ==
    /\ sets \in [Sets -> Row]
    /\ snapshots \in [Sets -> SUBSET Snapshot]
    /\ targets \in [Sets -> SUBSET Products]
    /\ configVersion \in Nat
    /\ jobs \in [Clients -> Job]
    /\ unannounced \in SUBSET Sets

Init ==
    /\ sets = [s \in Sets |-> [state |-> "absent", status |-> "draft",
                               version |-> 0, rowVersion |-> 0, draft |-> 0,
                               publishedConfigVersion |-> 0]]
    /\ snapshots = [s \in Sets |-> {}]
    /\ targets = [s \in Sets |-> {}]
    /\ configVersion = 0
    /\ jobs = [c \in Clients |-> NoJob]
    /\ unannounced = {}

Live(s) == sets[s].state = "live"

(* What ConfigDocumentBuilder's set query selects. *)
Visible(s) == Live(s) /\ sets[s].status = "published"

Begin(c, j) == /\ jobs[c].pc = "idle"
               /\ jobs' = [jobs EXCEPT ![c] = j]

End(c) == jobs' = [jobs EXCEPT ![c] = NoJob]

(* Mutant: the bump is read and written back, so two that overlap write one value. *)
BumpLost ==
    /\ configVersion < MaxBumps
    /\ configVersion' \in {configVersion, configVersion + 1}
    /\ unannounced' = {}

(* ConfigVersionService.bump, always in the caller's transaction. *)
Bump ==
    /\ configVersion < MaxBumps
    /\ configVersion' = configVersion + 1
    /\ unannounced' = {}

(* Mutant: a removal announces itself to nobody. *)
BumpForgotten(s, wasVisible) == UNCHANGED <<configVersion, unannounced>>

(* bumpIfVisible, for the removal of s: the caller says whether it was visible. *)
BumpIfVisible(s, wasVisible) ==
    \/ wasVisible /\ Bump
    \/ /\ ~wasVisible
       /\ unannounced' = IF Visible(s) THEN unannounced \cup {s} ELSE unannounced
       /\ UNCHANGED configVersion
-----------------------------------------------------------------------------
(* Authoring *)

(* Mutant: a column with no default. *)
CreateWithoutDefault(s) ==
    /\ sets[s].state = "absent"
    /\ sets' = [sets EXCEPT ![s] = [state |-> "live", status |-> "draft",
                                    version |-> 0, rowVersion |-> 1, draft |-> 1]]
    /\ UNCHANGED <<snapshots, targets, configVersion, jobs, unannounced>>

Create(s) ==
    /\ sets[s].state = "absent"
    /\ sets' = [sets EXCEPT ![s] = [state |-> "live", status |-> "draft",
                                    version |-> 0, rowVersion |-> 1, draft |-> 1,
                                    publishedConfigVersion |-> 0]]
    /\ UNCHANGED <<snapshots, targets, configVersion, jobs, unannounced>>

(* An edit below the set writes the child row in one statement ... *)
EditChild(c, s) ==
    /\ Live(s)
    /\ sets[s].draft < MaxEdits
    /\ Begin(c, [NoJob EXCEPT !.pc = "touch", !.set = s])
    /\ sets' = [sets EXCEPT ![s].draft = @ + 1]
    /\ UNCHANGED <<snapshots, targets, configVersion, unannounced>>

(* ... and moves the set's rowVersion in a later one (ParentSetService). *)
TouchSet(c) ==
    LET s == jobs[c].set IN
    /\ jobs[c].pc = "touch"
    /\ sets' = IF Live(s) THEN [sets EXCEPT ![s].rowVersion = @ + 1] ELSE sets
    /\ End(c)
    /\ UNCHANGED <<snapshots, targets, configVersion, unannounced>>

(* A caller loads a set; the dashboard sends the rowVersion on screen with its
   writes, a script may send none. *)
Review(c, s) ==
    /\ Live(s)
    /\ \E sent \in {0, sets[s].rowVersion} :
          Begin(c, [NoJob EXCEPT !.pc = "reviewed", !.set = s, !.expect = sent,
                                 !.reviewed = sets[s].draft])
    /\ UNCHANGED <<sets, snapshots, targets, configVersion, unannounced>>

(* assertVersionMatches: optional, and compared with the row just read. *)
VersionMatches(c, s) == jobs[c].expect \in {0, sets[s].rowVersion}

(* Rename: the lock is a predicate of the UPDATE itself (applyChange). *)
Rename(c) ==
    LET s == jobs[c].set IN
    /\ jobs[c].pc = "reviewed"
    /\ Live(s)
    /\ VersionMatches(c, s)
    /\ sets[s].draft < MaxEdits
    /\ sets' = [sets EXCEPT ![s].draft = @ + 1, ![s].rowVersion = @ + 1]
    /\ End(c)
    /\ UNCHANGED <<snapshots, targets, configVersion, unannounced>>
-----------------------------------------------------------------------------
(* Publishing *)

(* PublishService.context reads the set row first; rowVersion is compared with
   that row ... *)
PublishReadRow(c) ==
    LET s == jobs[c].set IN
    /\ jobs[c].pc = "reviewed"
    /\ Live(s)
    /\ VersionMatches(c, s)
    /\ jobs' = [jobs EXCEPT ![c].pc = "row"]
    /\ UNCHANGED <<sets, snapshots, targets, configVersion, unannounced>>

(* ... and the tree below it in later queries, outside any transaction. *)
PublishReadTree(c) ==
    /\ jobs[c].pc = "row"
    /\ jobs' = [jobs EXCEPT ![c].pc = "publish", ![c].content = sets[jobs[c].set].draft]
    /\ UNCHANGED <<sets, snapshots, targets, configVersion, unannounced>>

(* Rollback checks the rowVersion, then reads the snapshot of version v. *)
RollbackRead(c) ==
    LET s == jobs[c].set IN
    /\ jobs[c].pc = "reviewed"
    /\ Live(s)
    /\ VersionMatches(c, s)
    /\ \E old \in snapshots[s] :
          jobs' = [jobs EXCEPT ![c].pc = "rollback", ![c].content = old.content]
    /\ UNCHANGED <<sets, snapshots, targets, configVersion, unannounced>>

(* Mutant: the optimistic lock taken for the published version. *)
RowSuccessor(s) == sets[s].rowVersion + 1

(* The row is locked and re-read, so a version succeeds the row's own. *)
NextVersion(s) == sets[s].version + 1

(* The transaction of publish and of rollback. *)
CommitVersion(c) ==
    LET s == jobs[c].set
        version == NextVersion(s) IN
    /\ jobs[c].pc \in {"publish", "rollback"}
    /\ Live(s)
    /\ \A x \in snapshots[s] : x.version # version     \* uq_option_set_versions
    /\ snapshots' = [snapshots EXCEPT
          ![s] = @ \cup {[version |-> version, content |-> jobs[c].content]}]
    /\ Bump
    /\ sets' = [sets EXCEPT ![s].status = "published",
                            ![s].version = version,
                            ![s].publishedConfigVersion = configVersion',
                            ![s].rowVersion = @ + 1]
    /\ End(c)
    /\ UNCHANGED targets
-----------------------------------------------------------------------------
(* Deleting *)

(* OptionSetsService.remove reads the row its transaction is told about. *)
RemoveRead(c) ==
    LET s == jobs[c].set IN
    /\ jobs[c].pc = "reviewed"
    /\ Live(s)
    /\ VersionMatches(c, s)
    /\ jobs' = [jobs EXCEPT ![c].pc = "remove",
                            ![c].wasVisible = (sets[s].status = "published")]
    /\ UNCHANGED <<sets, snapshots, targets, configVersion, unannounced>>

(* Mutant: a delete takes the history with it. *)
RemoveWithHistory(c) ==
    LET s == jobs[c].set IN
    /\ jobs[c].pc = "remove"
    /\ Live(s)
    /\ BumpIfVisible(s, jobs[c].wasVisible)
    /\ sets' = [sets EXCEPT ![s].state = "deleted", ![s].rowVersion = @ + 1]
    /\ targets' = [targets EXCEPT ![s] = {}]
    /\ snapshots' = [snapshots EXCEPT ![s] = {}]
    /\ End(c)

(* CascadeService.onOptionSetDeleted: the one request that finds the row live
   marks it and all it owns. *)
RemoveCommit(c) ==
    LET s == jobs[c].set IN
    /\ jobs[c].pc = "remove"
    /\ Live(s)
    /\ BumpIfVisible(s, jobs[c].wasVisible)
    /\ sets' = [sets EXCEPT ![s].state = "deleted", ![s].rowVersion = @ + 1]
    /\ targets' = [targets EXCEPT ![s] = {}]
    /\ End(c)
    /\ UNCHANGED snapshots

(* The erase route accepts live and deleted sets alike. *)
PurgeRead(c, s) ==
    /\ sets[s].state \in {"live", "deleted"}
    /\ Begin(c, [NoJob EXCEPT !.pc = "purge", !.set = s, !.wasVisible = Visible(s)])
    /\ UNCHANGED <<sets, snapshots, targets, configVersion, unannounced>>

(* HardDeleteService.purge; the foreign keys cascade what it does not name. *)
PurgeCommit(c) ==
    LET s == jobs[c].set IN
    /\ jobs[c].pc = "purge"
    /\ BumpIfVisible(s, jobs[c].wasVisible)
    /\ sets' = [sets EXCEPT ![s].state = "purged"]
    /\ snapshots' = [snapshots EXCEPT ![s] = {}]
    /\ targets' = [targets EXCEPT ![s] = {}]
    /\ End(c)
-----------------------------------------------------------------------------
(* Assigning *)

(* requireSet, before the transaction. *)
AssignRead(c, s) ==
    /\ Live(s)
    /\ Begin(c, [NoJob EXCEPT !.pc = "assign", !.set = s])
    /\ UNCHANGED <<sets, snapshots, targets, configVersion, unannounced>>

(* Mutant: no foreign key to refuse a purged set. *)
AssignUnchecked(c, ps) ==
    LET s == jobs[c].set IN
    /\ jobs[c].pc = "assign"
    /\ targets' = [targets EXCEPT ![s] = @ \cup ps]
    /\ Bump
    /\ End(c)
    /\ UNCHANGED <<sets, snapshots>>

(* assign upserts; the foreign key refuses a set that has been purged. *)
Assign(c, ps) ==
    LET s == jobs[c].set IN
    /\ jobs[c].pc = "assign"
    /\ sets[s].state # "purged"
    /\ targets' = [targets EXCEPT ![s] = @ \cup ps]
    /\ Bump
    /\ End(c)
    /\ UNCHANGED <<sets, snapshots>>

(* unassignMany removes whichever of ps are there; unassign is ps = {p} with
   p assigned, and a 404 (Fail) otherwise. *)
Unassign(c, ps) ==
    LET s == jobs[c].set IN
    /\ jobs[c].pc = "assign"
    /\ targets' = [targets EXCEPT ![s] = @ \ ps]
    /\ Bump
    /\ End(c)
    /\ UNCHANGED <<sets, snapshots>>
-----------------------------------------------------------------------------
(* A request answered 404, 409 or 422, a rolled-back transaction, or a process
   that died between two statements. *)
Fail(c) ==
    /\ jobs[c].pc # "idle"
    /\ End(c)
    /\ UNCHANGED <<sets, snapshots, targets, configVersion, unannounced>>

Begins(c) == \E s \in Sets : \/ EditChild(c, s) \/ Review(c, s)
                             \/ PurgeRead(c, s) \/ AssignRead(c, s)

Reads(c) == PublishReadRow(c) \/ PublishReadTree(c) \/ RollbackRead(c) \/ RemoveRead(c)

Writes(c) ==
    \/ TouchSet(c) \/ Rename(c) \/ CommitVersion(c) \/ RemoveCommit(c) \/ PurgeCommit(c)
    \/ \E ps \in (SUBSET Products) \ {{}} : Assign(c, ps) \/ Unassign(c, ps)

Next ==
    \/ \E s \in Sets : Create(s)
    \/ \E c \in Clients : Begins(c) \/ Reads(c) \/ Writes(c) \/ Fail(c)

Spec == Init /\ [][Next]_vars
-----------------------------------------------------------------------------
(* Properties *)

(* The version history of a set that has not been erased is complete: exactly
   one snapshot for every version ever published, whatever publishes, rollbacks
   and deletes overlapped.  ConfigDocumentBuilder relies on it: a published set
   without the snapshot of its version would be skipped. *)
HistoryComplete ==
    \A s \in Sets : sets[s].state # "purged" =>
        /\ {x.version : x \in snapshots[s]} = 1 .. sets[s].version
        /\ \A x, y \in snapshots[s] : x.version = y.version => x = y

(* No two sets of a store were published under one config version, although
   their publishes overlap: the bump is computed in SQL, under the row lock. *)
ConfigVersionsDistinct ==
    \A s, t \in Sets : Visible(s) /\ Visible(t) /\ s # t =>
        sets[s].publishedConfigVersion # sets[t].publishedConfigVersion

(* An erased set leaves nothing behind, although publishes and assignments
   that had already found it live commit after it. *)
PurgeLeavesNothing ==
    \A s \in Sets : sets[s].state = "purged" => snapshots[s] = {} /\ targets[s] = {}

(* Together: the record of what was published of each set is complete, of an erased
   one gone, and no two sets were published under one number. *)
HistorySound == ConfigVersionsDistinct /\ HistoryComplete /\ PurgeLeavesNothing

(* A snapshot, once written, is never changed or dropped, except with its set:
   a rollback adds a version and rewrites none. *)
HistoryImmutable ==
    [][\A s \in Sets : snapshots[s] \subseteq snapshots'[s] \/ sets'[s].state = "purged"]_vars

(* The storefront's view of all of the above is the clock: every change of the
   document commits with a bump, except a removal the clock names. *)
Clock == INSTANCE ConfigClock WITH
    published <- [s \in Sets |-> IF Visible(s) THEN sets[s].version ELSE 0],
    assigned <- [s \in Sets |-> IF Visible(s) THEN targets[s] ELSE {}]

ImplementsClock == Clock!ClockSpec
-----------------------------------------------------------------------------
(* Claims of the source that the code does not keep *)

(* cascade.service.ts:76-80: deleting a published set must tell the storefront. *)
EveryWithdrawalAnnounced == unannounced = {}

Commits(c, pc) ==
    jobs[c].pc = pc /\ jobs'[c].pc = "idle" /\ snapshots' # snapshots

(* publish.service.ts:89-101: a publish that sends a rowVersion never puts
   content in front of customers that its author had not read. *)
PublishesWhatWasReviewed ==
    [][\A c \in Clients : Commits(c, "publish") /\ jobs[c].expect # 0 =>
          jobs[c].content = jobs[c].reviewed]_vars

(* publish.service.ts:248-257: a rollback that sends a rowVersion is refused
   when a colleague published while the history was on screen. *)
RollbackIsCurrent ==
    [][\A c \in Clients : Commits(c, "rollback") /\ jobs[c].expect # 0 =>
          jobs[c].expect = sets[jobs[c].set].rowVersion]_vars
=============================================================================
