---------------------------- MODULE Installation ----------------------------
(***************************************************************************)
(* Installing the plugin on a site (Activation/, uninstall.php): activation *)
(* makes the tables and the scheduled events, every request repairs what an *)
(* update or a crash left undone, deactivation clears the events and a      *)
(* delete clears all, when the merchant asked for it.  Each goes step by    *)
(* step, may die between two, and storefront requests run meanwhile.        *)
(***************************************************************************)
EXTENDS Integers, Sequences

CONSTANTS
    Visits,      \* storefront and admin requests that may run at once
    Schema,      \* release -> DB_VERSION, which names how many tables there are
    Events,      \* release -> the CRON_* hooks it schedules
    MaxChanges,  \* bound on what the merchant does
    MaxLoads,    \* bound on requests
    MaxMishaps   \* bound on deaths and failing dbDelta

VARIABLES
    files,    \* the release in wp-content/plugins, 0 for none
    active, woocommerce,
    version, db,  \* OPTION_VERSION and OPTION_DB_VERSION, 0 when absent
    agreed,   \* delete_on_uninstall: "unset" when there are no settings
    tables, cron, bytes,  \* tables, times each hook is scheduled, stored uploads
    tasks,    \* what each request, and the merchant's own, still has to do
    changes, loads, mishaps, skipped  \* skipped: history, dbDelta has failed

vars == <<files, active, woocommerce, version, db, agreed, tables, cron, bytes, tasks, changes,
          loads, mishaps, skipped>>
site == <<files, active, woocommerce, version, db, agreed, tables, cron, bytes>>

Admin == "admin"
Processes == Visits \cup {Admin}
Releases == DOMAIN Schema
Hooks == UNION {Events[r] : r \in Releases}
Nobody == [goal |-> "none", release |-> 0, fresh |-> FALSE, alone |-> FALSE, missing |-> {}, todo |-> <<>>]
Busy(p) == tasks[p].todo # <<>>
-----------------------------------------------------------------------------
Schedule == <<"check", "add">>

(* Mutant: the release is on record before its tables are made. *)
MarksFirst == <<"marks", "tables">> \o Schedule

(* activate: tables, then options and versions, then the events.             *)
Activation == <<"tables", "marks">> \o Schedule

(* Mutant: a site on the current version is not looked at. *)
UpgradeOnUpdate(release) ==
    IF version = release \/ db >= Schema[release] THEN <<>> ELSE Activation \o <<"db">>

(* upgrade_schema: by its own option, whatever the version says. *)
Upgrade(release) == IF db >= Schema[release] THEN <<>> ELSE Activation \o <<"db">>

(* maybe_upgrade: a version of its own, none at all, or another's.           *)
Migration(release) ==
    CASE version = release -> Upgrade(release)
      [] version = 0 -> <<"version">>
      [] OTHER -> Upgrade(release) \o Schedule \o <<"version">>

(* A process takes a step: the others have had company since they began.     *)
Became(p, task) ==
    tasks' = [q \in Processes |-> IF q = p THEN task ELSE [tasks[q] EXCEPT !.alone = FALSE]]
Begins(p, goal, todo) ==
    Became(p, [goal |-> goal, release |-> files, fresh |-> version = 0,
               alone |-> \A q \in Processes \ {p} : ~Busy(q), missing |-> {}, todo |-> todo])
Continues(p) == Became(p, [tasks[p] EXCEPT !.todo = Tail(@)])
Doing(p, step) == Busy(p) /\ Head(tasks[p].todo) = step

(* boot, ensure_deferred_setup: of an active plugin, with WooCommerce there. *)
Load(p) ==
    /\ ~Busy(p) /\ active /\ woocommerce /\ loads < MaxLoads
    /\ loads' = loads + 1
    /\ Begins(p, "visit", Migration(files) \o Schedule)
    /\ UNCHANGED <<site, changes, mishaps, skipped>>

(* create_tables: dbDelta makes what is missing, and says nothing when it cannot. *)
CreateTables(p, made) ==
    /\ Doing(p, "tables")
    /\ (made \/ mishaps < MaxMishaps)
    /\ tables' = IF made THEN tables \cup 1 .. Schema[tasks[p].release] ELSE tables
    /\ mishaps' = IF made THEN mishaps ELSE mishaps + 1
    /\ skipped' = (skipped \/ ~made)
    /\ Continues(p)
    /\ UNCHANGED <<files, active, woocommerce, version, db, agreed, cron, bytes, changes, loads>>

Mark(p) ==
    /\ Doing(p, "marks")
    /\ db' = Schema[tasks[p].release] /\ version' = tasks[p].release
    /\ agreed' = IF agreed = "unset" THEN "no" ELSE agreed
    /\ Continues(p)
    /\ UNCHANGED <<files, active, woocommerce, tables, cron, bytes, changes, loads, mishaps, skipped>>

MarkSchema(p) ==
    /\ Doing(p, "db") /\ db' = Schema[tasks[p].release] /\ Continues(p)
    /\ UNCHANGED <<files, active, woocommerce, version, agreed, tables, cron, bytes, changes, loads, mishaps, skipped>>

MarkVersion(p) ==
    /\ Doing(p, "version") /\ version' = tasks[p].release /\ Continues(p)
    /\ UNCHANGED <<files, active, woocommerce, db, agreed, tables, cron, bytes, changes, loads, mishaps, skipped>>

(* Mutant: one event that is there stands for all of them. *)
GuardedOnce(p) == IF \E h \in Events[tasks[p].release] : cron[h] > 0 THEN {} ELSE Events[tasks[p].release]

(* schedule: each hook guards itself, by what wp_next_scheduled answers.      *)
Unscheduled(p) == {h \in Events[tasks[p].release] : cron[h] = 0}

Check(p) ==
    /\ Doing(p, "check")
    /\ Became(p, [tasks[p] EXCEPT !.todo = Tail(@), !.missing = Unscheduled(p)])
    /\ UNCHANGED <<site, changes, loads, mishaps, skipped>>

Add(p) ==
    /\ Doing(p, "add")
    /\ cron' = [h \in Hooks |-> IF h \in tasks[p].missing THEN cron[h] + 1 ELSE cron[h]]
    /\ Continues(p)
    /\ UNCHANGED <<files, active, woocommerce, version, db, agreed, tables, bytes, changes, loads, mishaps, skipped>>

(* A customer's file is stored where there is a table for it.                 *)
Upload ==
    /\ active /\ 2 \in tables /\ ~bytes /\ bytes' = TRUE
    /\ tasks' = [q \in Processes |-> [tasks[q] EXCEPT !.alone = FALSE]]
    /\ UNCHANGED <<files, active, woocommerce, version, db, agreed, tables, cron, changes, loads, mishaps, skipped>>

Dies(p) ==
    /\ Busy(p) /\ mishaps < MaxMishaps /\ mishaps' = mishaps + 1
    /\ Became(p, Nobody)
    /\ UNCHANGED <<site, changes, loads, skipped>>
-----------------------------------------------------------------------------
(* What the merchant does, one thing at a time.  WordPress calls the hook of *)
(* an activation or a deactivation before it records it, and uninstall.php   *)
(* before it removes the files.                                              *)
Changing == ~Busy(Admin) /\ changes < MaxChanges /\ changes' = changes + 1

(* An older release is never put over what a newer one has left: its versions,  *)
(* its tables, its events, or a request of it that still runs.               *)
NothingNewer(release) ==
    /\ version <= release /\ db <= Schema[release] /\ tables \subseteq 1 .. Schema[release]
    /\ \A h \in Hooks : cron[h] > 0 => h \in Events[release]
    /\ \A p \in Visits : Busy(p) => tasks[p].release <= release

Install(release) ==
    /\ Changing /\ files < release /\ NothingNewer(release) /\ files' = release
    /\ Became(Admin, Nobody)
    /\ UNCHANGED <<active, woocommerce, version, db, agreed, tables, cron, bytes, loads, mishaps, skipped>>

Activate ==
    /\ Changing /\ files # 0 /\ ~active
    /\ Begins(Admin, "activate", Activation \o <<"active">>)
    /\ UNCHANGED <<site, loads, mishaps, skipped>>

Activated ==
    /\ Doing(Admin, "active") /\ active' = TRUE /\ Continues(Admin)
    /\ UNCHANGED <<files, woocommerce, version, db, agreed, tables, cron, bytes, changes, loads, mishaps, skipped>>

Deactivate ==
    /\ Changing /\ active
    /\ Begins(Admin, "deactivate", <<"clear", "inactive">>)
    /\ UNCHANGED <<site, loads, mishaps, skipped>>

(* Mutant: only the first of the hooks is cleared. *)
ClearedSync(hooks) == {CHOOSE h \in hooks : TRUE}

(* clear_all: every hook of the release. *)
Cleared(hooks) == hooks

Clear ==
    /\ Busy(Admin) /\ Head(tasks[Admin].todo) \in {"clear", "hooks"}
    /\ cron' = [h \in Hooks |-> IF h \in Cleared(Events[tasks[Admin].release]) THEN 0 ELSE cron[h]]
    /\ Continues(Admin)
    /\ UNCHANGED <<files, active, woocommerce, version, db, agreed, tables, bytes, changes, loads, mishaps, skipped>>

Deactivated ==
    /\ Doing(Admin, "inactive") /\ active' = FALSE /\ Continues(Admin)
    /\ UNCHANGED <<files, woocommerce, version, db, agreed, tables, cron, bytes, changes, loads, mishaps, skipped>>

ToggleWooCommerce ==
    /\ Changing /\ woocommerce' = ~woocommerce /\ Became(Admin, Nobody)
    /\ UNCHANGED <<files, active, version, db, agreed, tables, cron, bytes, loads, mishaps, skipped>>

Agree ==
    /\ Changing /\ active /\ woocommerce /\ agreed = "no" /\ agreed' = "yes" /\ Became(Admin, Nobody)
    /\ UNCHANGED <<files, active, woocommerce, version, db, tables, cron, bytes, loads, mishaps, skipped>>

(* optionia_run_uninstall: the options first, the opt-in among them.          *)
Delete ==
    /\ Changing /\ files # 0 /\ ~active
    /\ Begins(Admin, IF agreed = "yes" THEN "erase" ELSE "delete",
              (IF agreed = "yes" THEN <<"options", "hooks", "drop", "uploads">> ELSE <<>>) \o <<"files">>)
    /\ UNCHANGED <<site, loads, mishaps, skipped>>

DeleteOptions ==
    /\ Doing(Admin, "options") /\ version' = 0 /\ db' = 0 /\ agreed' = "unset" /\ Continues(Admin)
    /\ UNCHANGED <<files, active, woocommerce, tables, cron, bytes, changes, loads, mishaps, skipped>>

DropTables ==
    /\ Doing(Admin, "drop") /\ tables' = tables \ 1 .. Schema[tasks[Admin].release] /\ Continues(Admin)
    /\ UNCHANGED <<files, active, woocommerce, version, db, agreed, cron, bytes, changes, loads, mishaps, skipped>>

DeleteUploads ==
    /\ Doing(Admin, "uploads") /\ bytes' = FALSE /\ Continues(Admin)
    /\ UNCHANGED <<files, active, woocommerce, version, db, agreed, tables, cron, changes, loads, mishaps, skipped>>

RemoveFiles ==
    /\ Doing(Admin, "files") /\ files' = 0 /\ Continues(Admin)
    /\ UNCHANGED <<active, woocommerce, version, db, agreed, tables, cron, bytes, changes, loads, mishaps, skipped>>
-----------------------------------------------------------------------------
(* Nothing yet, or a site of a network the plugin was activated for as a whole. *)
Init ==
    /\ files \in {0, 1} /\ active = (files = 1) /\ woocommerce = TRUE
    /\ version = 0 /\ db = 0 /\ agreed = "unset" /\ tables = {} /\ bytes = FALSE
    /\ cron = [h \in Hooks |-> 0]
    /\ tasks = [p \in Processes |-> Nobody]
    /\ changes = 0 /\ loads = 0 /\ mishaps = 0 /\ skipped = FALSE

Requested(p) ==
    \/ (\E made \in BOOLEAN : CreateTables(p, made)) \/ Mark(p) \/ MarkSchema(p) \/ MarkVersion(p)
    \/ Check(p) \/ Add(p) \/ Dies(p)

Next ==
    \/ (\E p \in Visits : Load(p)) \/ (\E p \in Processes : Requested(p)) \/ Upload
    \/ (\E release \in Releases : Install(release)) \/ Activate \/ Activated
    \/ Deactivate \/ Clear \/ Deactivated \/ ToggleWooCommerce \/ Agree
    \/ Delete \/ DeleteOptions \/ DropTables \/ DeleteUploads \/ RemoveFiles

Spec == Init /\ [][Next]_vars
-----------------------------------------------------------------------------
(* The state of the site and of those at work on it.                          *)
TypeOK ==
    /\ {files, version} \subseteq Releases \cup {0} /\ {active, woocommerce, bytes, skipped} \subseteq BOOLEAN
    /\ db \in {0} \cup {Schema[r] : r \in Releases} /\ agreed \in {"unset", "no", "yes"}
    /\ \A h \in Hooks : cron[h] \in 0 .. MaxLoads + MaxChanges
    /\ active => files # 0
    /\ changes \in 0 .. MaxChanges /\ loads \in 0 .. MaxLoads /\ mishaps \in 0 .. MaxMishaps

Ready(release) ==
    /\ version = release /\ db >= Schema[release]
    /\ ~skipped => 1 .. Schema[release] \subseteq tables
    /\ \A h \in Events[release] : cron[h] > 0

Finished(p, goal) == tasks[p].goal = goal /\ ~Busy(p) /\ tasks[p].alone

(* Whatever an update, a crash or a race left undone, one request nothing     *)
(* disturbs repairs: the tables of its release and every event of it are there. *)
OneVisitRepairs ==
    \A p \in Visits : Finished(p, "visit") /\ ~tasks[p].fresh => Ready(tasks[p].release)

(* The schema is never recorded as newer than it is, whoever dies or races    *)
(* with an update: an active plugin that would not upgrade needs no upgrade.  *)
SchemaIsThere == active /\ ~skipped /\ db # 0 => 1 .. db \subseteq tables

(* A deactivated plugin has nothing scheduled, and a merchant who asked for   *)
(* it is left with no option, event, table or file.                           *)
NothingIsLeftBehind ==
    /\ Finished(Admin, "deactivate") \/ Finished(Admin, "erase") => \A h \in Hooks : cron[h] = 0
    /\ Finished(Admin, "erase") => version = 0 /\ db = 0 /\ tables = {} /\ ~bytes
-----------------------------------------------------------------------------
(* Refuted.  The activator has prepared a fresh install: not on the sites of  *)
(* a network, whose first request records the version and makes no table.     *)
FreshIsReady == \A p \in Visits : Finished(p, "visit") => Ready(tasks[p].release)

(* Refuted.  The same with requests running: one that booted before the       *)
(* deactivation schedules after it.                                           *)
DeactivatedIsQuiet ==
    tasks[Admin].goal = "deactivate" /\ ~Busy(Admin) => \A h \in Hooks : cron[h] = 0

(* Refuted.  An event is scheduled once: two requests both find it missing.   *)
OneEventPerHook == \A h \in Hooks : cron[h] <= 1

(* Refuted.  A table dbDelta did not make is made by a later request.         *)
TablesAreRetried ==
    \A p \in Visits : Finished(p, "visit") /\ ~tasks[p].fresh =>
        1 .. Schema[tasks[p].release] \subseteq tables

(* Refuted.  An erasure that dies can be done again: the opt-in is among the  *)
(* options, which go before the tables and the files.                         *)
OptInOutlivesTheData ==
    tasks[Admin].goal = "erase" /\ (tables # {} \/ bytes) => agreed = "yes"
=============================================================================
