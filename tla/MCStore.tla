------------------------------ MODULE MCStore -------------------------------
(***************************************************************************)
(* What one store and the cloud tell each other: Connection, OrderReports,  *)
(* CatalogueMirror, Views and the CircuitBreaker they all go through, and   *)
(* the Installation of the plugin that tells it.  Each keeps its own        *)
(* options and rows, so each is checked beside the others: part says which  *)
(* of them a behaviour is of.                                               *)
(***************************************************************************)
EXTENDS Connection, TLC

CONSTANTS Orders, Lines, Malformed, ReportBatch, MaxReports, MaxSelections, MaxMinor,
          ReportTroubles,
          Products, Sorted, ProductBatch, BodyLimit, PageSize, MaxProducts, MaxSaves,
          MaxRuns, MirrorTroubles,
          Threshold, Cooldown, MaxClock, MaxCount,
          Pairs, Refused, MaxViews, MaxPairs, MaxRows, MaxPages, MaxDrains,
          Schema, Events, MaxChanges, MaxLoads, MaxMishaps

(* THRESHOLD and COOLDOWN are positive, as time() is; the bounds leave room. *)
ASSUME BreakerAssumption ==
    /\ {Threshold, Cooldown} \subseteq Nat \ {0}
    /\ {MaxCount, MaxClock} \subseteq Nat /\ Cooldown <= MaxClock
ASSUME ViewsAssumption ==
    /\ MaxViews \in Nat \ {0} /\ {MaxPairs, MaxRows, MaxPages, MaxDrains} \subseteq Nat
    /\ "drain" \notin Requests
ASSUME InstallationAssumption ==
    /\ DOMAIN Schema \subseteq Nat \ {0} /\ 1 \in DOMAIN Schema /\ Schema \in [DOMAIN Schema -> Nat]
    /\ DOMAIN Events = DOMAIN Schema /\ {MaxChanges, MaxLoads, MaxMishaps} \subseteq Nat
    /\ \A r, s \in DOMAIN Schema : r < s => Schema[r] <= Schema[s] /\ Events[r] \subseteq Events[s]
    /\ IsFiniteSet(Requests) /\ "admin" \notin Requests

VARIABLES paid, marked, queue, posts, moved, events, troubles, refused, gone,
          shop, mirror, backlog, cursor, tasks, runs, mishaps, missed,
          circuit, clock, calls, probes, raced,
          counts, pages, drain, totals, seen, dropped, again, muddled, visits, drains,
          release, active, woocommerce, version, db, agreed, tables, cron, bytes, duties,
          changes, loads, deaths, skipped,
          part

reports == <<paid, marked, queue, posts, moved, events, troubles, refused, gone>>
catalogue == <<shop, mirror, backlog, cursor, tasks, runs, mishaps, missed>>
breaker == <<circuit, clock, calls, probes, raced>>
views == <<counts, pages, drain, totals, seen, dropped, again, muddled, visits, drains>>
installation == <<release, active, woocommerce, version, db, agreed, tables, cron, bytes, duties,
                  changes, loads, deaths, skipped>>

O == INSTANCE OrderReports WITH BatchSize <- ReportBatch, MaxEntries <- MaxReports,
                                MaxTroubles <- ReportTroubles
C == INSTANCE CatalogueMirror WITH BatchSize <- ProductBatch, MaxEntries <- MaxProducts,
                                   MaxTroubles <- MirrorTroubles
B == INSTANCE CircuitBreaker WITH Callers <- Requests
V == INSTANCE Views WITH Beacons <- Requests
I == INSTANCE Installation WITH Visits <- Requests, files <- release, tasks <- duties,
                                mishaps <- deaths

ASSUME MirrorAssumption ==
    /\ Products \in Seq(C!Ids) /\ {ProductBatch, MaxProducts} \subseteq Nat \ {0}
    /\ {BodyLimit, MaxSaves, MaxRuns, MirrorTroubles} \subseteq Nat
ASSUME ReportsAssumption ==
    /\ {ReportBatch, MaxReports} \subseteq Nat \ {0}
    /\ {MaxSelections, MaxMinor, ReportTroubles} \subseteq Nat
    /\ Lines \in [Orders -> Seq(O!Line)]

(* One part moves, from the first of the other parts' initial states. *)
StoreInit ==
    /\ Init /\ O!Init /\ C!Init /\ B!Init /\ V!Init /\ I!Init
    /\ part \in {"connection", "reports", "catalogue", "breaker", "views", "installation"}
    /\ part # "catalogue" => \A p \in DOMAIN shop : shop[p].live
    /\ part # "installation" => release = 0

StoreNext ==
    \/ part = "connection" /\ Next /\ UNCHANGED <<reports, catalogue, breaker, views, installation, part>>
    \/ part = "reports" /\ O!Next /\ UNCHANGED <<vars, catalogue, breaker, views, installation, part>>
    \/ part = "catalogue" /\ C!Next /\ UNCHANGED <<vars, reports, breaker, views, installation, part>>
    \/ part = "breaker" /\ B!Next /\ UNCHANGED <<vars, reports, catalogue, views, installation, part>>
    \/ part = "views" /\ V!Next /\ UNCHANGED <<vars, reports, catalogue, breaker, installation, part>>
    \/ part = "installation" /\ I!Next /\ UNCHANGED <<vars, reports, catalogue, breaker, views, part>>

StoreSpec ==
    StoreInit /\ [][StoreNext]_<<vars, reports, catalogue, breaker, views, installation, part>>

(* The state of every part is well typed. *)
StoreTypeOK ==
    CASE part = "connection" -> TypeOK
      [] part = "reports" -> O!TypeOK
      [] part = "catalogue" -> C!TypeOK
      [] part = "breaker" -> B!TypeOK
      [] part = "views" -> V!TypeOK
      [] part = "installation" -> I!TypeOK

(* A code gives one key, a store that has left holds none and cannot be     *)
(* talked back by a handshake begun before, and a connected one holds one   *)
(* (connect.service.ts, stores.service.ts, Callback.php).                   *)
ConnectionIsSound ==
    part = "connection" => OneKeyPerCode /\ EndedHoldsNoKey /\ ConnectedHasKey /\ NoHandshakeAfterLeaving

(* An order marked as reported is recorded, is counted once however often   *)
(* it is sent, with all of its revenue, and none that was paid goes missing *)
(* unnoticed (OrderReporter.php, orders.service.ts).  A view reaches the    *)
(* cloud, is pending or was refused, while no two writes of the counts      *)
(* cross (ViewCollector.php, ViewReporter.php).                             *)
ReportsAreExact ==
    /\ part = "reports" => O!MarkedIsRecorded /\ O!CountedOnce /\ O!RevenueComplete /\ O!PaidIsAccountedFor
    /\ part = "views" => V!ViewsAddUp

(* What was disturbed is made good.  The cloud's mirror agrees with the     *)
(* shop when nothing is under way, and the plugin that keeps it is whole    *)
(* after any request nothing disturbs, and gone after an uninstall that     *)
(* asked for it (QueueDrainer.php, Migrator.php, uninstall.php).            *)
SiteSettles ==
    /\ part = "catalogue" => C!MirrorSettles
    /\ part = "installation" => I!OneVisitRepairs /\ I!SchemaIsThere /\ I!NothingIsLeftBehind

(* An open circuit knows when it opened, and requests that come one at a    *)
(* time probe it once a cooldown (CircuitBreaker.php).                      *)
CircuitHolds == part = "breaker" => B!OpenIsTimed /\ B!OneProbeEach

(* What is settled between the two stays so: a code is approved into one    *)
(* workspace, one closed by a disconnect gives no key, and a page of a      *)
(* manifest still arriving deletes nothing.                                 *)
NothingIsReopened ==
    [][ApprovesOnce /\ LeavesClosed /\ C!PageDeletesNothing]_<<vars, catalogue>>

SweepKeepsItsManifest == C!SweepKeepsItsManifest

MCOrders == 1 .. 3
MCLines == <<<<[picks |-> 2, unit |-> 3, quantity |-> 2], [picks |-> 1, unit |-> 1, quantity |-> 1]>>,
             <<[picks |-> 1, unit |-> 5, quantity |-> 1], [picks |-> 0, unit |-> 2, quantity |-> 1],
               [picks |-> 1, unit |-> 4, quantity |-> 3]>>,
             <<>>>>
MCProducts == <<2, 10>>
MCSorted == <<10, 2>>
MCSchema == <<1, 2>>
MCEvents == <<{1}, {1, 2}>>

Symmetry == Permutations(Requests) \cup Permutations(Tenants)
=============================================================================
