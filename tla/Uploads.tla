------------------------------- MODULE Uploads -------------------------------
(***************************************************************************)
(* The artwork a shopper uploads (Upload/): a file is checked, moved into    *)
(* the plugin's directory and recorded in a row under the WooCommerce        *)
(* session; it goes into the cart as a token, is claimed by the order, and   *)
(* goes when the order is deleted.  An hourly cron run releases the rows      *)
(* nobody claimed in time and sweeps the files that have no row.             *)
(*                                                                          *)
(* Uploads are numbered in the order of their deadlines, and an upload's      *)
(* number is also its file's name; 0 is the archive of an order's files,      *)
(* built when a merchant downloads it.  Time is a deadline that passes             *)
(* (Deadline) and an hour that has gone by since a file was written (Ages),   *)
(* which no request outlives.                                                *)
(***************************************************************************)
EXTENDS Integers, Sequences, FiniteSets, SequencesExt, Lists

CONSTANTS Uploads,     \* 1 .. n
          Files,       \* Files[u]: [size, kept, extension, content, pixels]
          AcceptedTypes, \* the option's accepted_types; empty accepts any
          MaxSize,     \* its max_size, under the host's own limit
          MaxPixels,   \* its max_megapixels
          Orders,      \* ids of the orders there may be
          MaxFiles,    \* UploadQuota::MAX_FILES
          MaxBytes,    \* UploadQuota::MAX_BYTES
          Batch,       \* UploadExpirer::BATCH, UploadSweeper::BATCH
          Overlapping, \* whether a checkout may run beside an expiry pass
          QueryFails,  \* whether the sweep's query of the table may fail
          MaxTroubles  \* bound: database errors and requests that die

(* A bound is a number, an order's id is not zero, and a batch is not empty.   *)
ASSUME UploadsAssumption ==
    /\ Len(Files) \in Nat /\ Uploads = 1 .. Len(Files) /\ \A u \in Uploads : Files[u].kept \in Nat
    /\ Orders \subseteq Nat \ {0} /\ Batch \in Nat \ {0}
    /\ {MaxFiles, MaxBytes, MaxTroubles} \subseteq Nat

VARIABLES request,  \* the upload requests
          rows,     \* TABLE_UPLOADS
          disk,     \* the files of the plugin's directory
          young,    \* those written less than GRACE_SECONDS ago
          session,  \* the shopper's session key
          cart,     \* tokens in the shopper's cart
          orders,   \* the orders and the tokens of their lines
          job,      \* the hourly run
          troubles  \* those so far

vars == <<request, rows, disk, young, session, cart, orders, job, troubles>>

Archive == 0
NoRow == [session |-> "", owner |-> 0, expired |-> FALSE]
NoOrder == [state |-> "none", tokens |-> {}, todo |-> {}]
Idle == [pc |-> "idle"]

Init ==
    /\ request = [u \in Uploads |-> [pc |-> "none"]]
    /\ rows = [u \in Uploads |-> NoRow]
    /\ disk = {} /\ young = {}
    /\ session = "guest" /\ cart = {}
    /\ orders = [o \in Orders |-> NoOrder]
    /\ job = Idle /\ troubles = 0

Trouble == troubles < MaxTroubles /\ troubles' = troubles + 1
Exists(u) == rows[u] # NoRow
Unclaimed(u) == Exists(u) /\ rows[u].owner = 0
-----------------------------------------------------------------------------
(* What the endpoint asks of a file before it stores it.  Its content is     *)
(* what the bytes really are: an image format, "pdf", "text", "html", or      *)
(* "broken" for an image header with nothing decodable behind it.            *)
Decodable == {"gif", "png", "jpg", "jpeg", "tif", "tiff"}
IsImage(file) == file.content \in Decodable \cup {"webp", "broken"}

WithinLimits(file) == file.size > 0 /\ file.size <= MaxSize

AcceptsExtension(file) == AcceptedTypes = {} \/ file.extension \in AcceptedTypes

TypeOf(extension) ==
    CASE extension = "jpeg" -> "jpg" [] extension = "tiff" -> "tif"
      [] extension = "ai" -> "pdf" [] OTHER -> extension

MatchesClaim(file) ==
    /\ TypeOf(file.extension) = TypeOf(file.content)
    /\ file.content \notin {"html", "svg"}

WithinPixelBudget(file) == IsImage(file) => file.pixels \in 1 .. MaxPixels

Decodes(file) == IsImage(file) => file.content # "broken"

Acceptable(file) ==
    WithinLimits(file) /\ AcceptsExtension(file) /\ MatchesClaim(file)
    /\ WithinPixelBudget(file) /\ Decodes(file)

(* The session's rows that no order has claimed.                             *)
Usage(key) == {u \in Uploads : Unclaimed(u) /\ rows[u].session = key}
Bytes(us) == LET sum[i \in 0 .. Len(Files)] ==
                     IF i = 0 THEN 0 ELSE IF i \in us THEN sum[i - 1] + Files[i].kept ELSE sum[i - 1]
             IN sum[Len(Files)]
Fits(key, size) ==
    /\ Cardinality(Usage(key)) + 1 <= MaxFiles
    /\ Bytes(Usage(key)) + size <= MaxBytes

Receive(u) ==
    /\ request[u].pc = "none"
    /\ Acceptable(Files[u]) /\ Fits(session, Files[u].size)
    /\ request' = [request EXCEPT ![u] = [pc |-> "create", session |-> session]]
    /\ disk' = disk \cup {u} /\ young' = young \cup {u}
    /\ UNCHANGED <<rows, session, cart, orders, job, troubles>>

(* The insert asks again, in one statement, and of the size that was kept.   *)
(* Mutant: the insert trusts the quota the request read at its start. *)
InsertedAnyway(u, key) == TRUE
Inserted(u, key) == Fits(key, Files[u].kept)

Create(u) ==
    /\ request[u].pc = "create"
    /\ request' = [request EXCEPT ![u] = [pc |-> "done"]]
    /\ IF Inserted(u, request[u].session)
       THEN /\ rows' = [rows EXCEPT ![u] = [session |-> request[u].session,
                                            owner |-> 0, expired |-> FALSE]]
            /\ UNCHANGED <<disk, young>>
       ELSE disk' = disk \ {u} /\ young' = young \ {u} /\ UNCHANGED rows
    /\ UNCHANGED <<session, cart, orders, job, troubles>>

UploadDies(u) ==
    /\ request[u].pc = "create" /\ Trouble
    /\ request' = [request EXCEPT ![u] = [pc |-> "done"]]
    /\ UNCHANGED <<rows, disk, young, session, cart, orders, job>>
-----------------------------------------------------------------------------
(* The cart.  A token is checked when it is added, and again at checkout.    *)
Usable(u) == Unclaimed(u) /\ rows[u].session = session

AddToCart(u) ==
    /\ Usable(u) /\ u \notin cart /\ cart' = cart \cup {u}
    /\ UNCHANGED <<request, rows, disk, young, session, orders, job, troubles>>

(* WooCommerce moves the cart to the customer's own session; the rows keep    *)
(* the key they were made under.                                             *)
LogIn ==
    /\ session = "guest" /\ session' = "customer"
    /\ UNCHANGED <<request, rows, disk, young, cart, orders, job, troubles>>

InCheckout == \E o \in Orders : orders[o].state = "creating"
Expiring == job.pc \in {"look", "file", "row"}

(* Nothing keeps two submissions of one checkout apart.                       *)
CheckoutStart(o) ==
    /\ orders[o].state = "none" /\ (Overlapping \/ ~Expiring)
    /\ cart # {} /\ \A u \in cart : Usable(u)
    /\ orders' = [orders EXCEPT ![o] = [state |-> "creating", tokens |-> cart, todo |-> cart]]
    /\ UNCHANGED <<request, rows, disk, young, session, cart, job, troubles>>

(* UploadRepository::claim, when the database answers.                        *)
(* Mutants: the last claim wins; the claimed row keeps its deadline. *)
Stolen(u, o) == IF Exists(u) THEN [rows[u] EXCEPT !.owner = o, !.expired = FALSE] ELSE NoRow
ClaimedForNow(u, o) == IF Unclaimed(u) THEN [rows[u] EXCEPT !.owner = o] ELSE rows[u]
Claimed(u, o) == IF Unclaimed(u) THEN [rows[u] EXCEPT !.owner = o, !.expired = FALSE] ELSE rows[u]

(* A failed claim does not fail the order.                                   *)
Promote(o, u) ==
    /\ orders[o].state = "creating" /\ u \in orders[o].todo
    /\ orders' = [orders EXCEPT ![o].todo = @ \ {u}]
    /\ \/ rows' = [rows EXCEPT ![u] = Claimed(u, o)] /\ UNCHANGED troubles
       \/ Trouble /\ UNCHANGED rows
    /\ UNCHANGED <<request, disk, young, session, cart, job>>

(* The order and its lines are saved; a payment that fails leaves the cart.   *)
OrderSaved(o) ==
    /\ orders[o].state = "creating" /\ orders[o].todo = {}
    /\ orders' = [orders EXCEPT ![o].state = "placed"]
    /\ cart' \in {{}, cart}
    /\ UNCHANGED <<request, rows, disk, young, session, job, troubles>>

Refers(o, u) == orders[o].state = "placed" /\ u \in orders[o].tokens

(* UploadRetention: the row's order, or none, may take the file along.        *)
BelongsTo(u, o) == Exists(u) /\ rows[u].owner \in {0, o}

Delete(us) ==
    /\ rows' = [u \in Uploads |-> IF u \in us THEN NoRow ELSE rows[u]]
    /\ disk' = disk \ us /\ young' = young \ us

DeleteOrder(o) ==
    /\ orders[o].state = "placed"
    /\ Delete({u \in orders[o].tokens : BelongsTo(u, o)})
    /\ orders' = [orders EXCEPT ![o].state = "deleted"]
    /\ UNCHANGED <<request, session, cart, job, troubles>>

(* UploadArchive and UploadDownload: the archive is built beside the files    *)
(* and removed once sent, which a request that dies does not do.             *)
DownloadDies(o) ==
    /\ Archive \notin disk /\ \E u \in disk : Refers(o, u) /\ Exists(u)
    /\ Trouble
    /\ disk' = disk \cup {Archive} /\ young' = young \cup {Archive}
    /\ UNCHANGED <<request, rows, session, cart, orders, job>>
-----------------------------------------------------------------------------
(* Time.                                                                    *)
Held(f) == f # Archive /\ request[f].pc = "create"

Ages(f) ==
    /\ f \in young /\ ~Held(f) /\ young' = young \ {f}
    /\ UNCHANGED <<request, rows, disk, session, cart, orders, job, troubles>>

Deadline(u) ==
    /\ Unclaimed(u) /\ ~rows[u].expired /\ rows' = [rows EXCEPT ![u].expired = TRUE]
    /\ UNCHANGED <<request, disk, young, session, cart, orders, job, troubles>>
-----------------------------------------------------------------------------
(* The hourly run: UploadExpirer, then UploadSweeper.                        *)
InOrder(s) == Only([i \in 1 .. Len(Files) + 1 |-> i - 1], s)
First(s) == SubSeq(s, 1, IF Len(s) < Batch THEN Len(s) ELSE Batch)
Expired == {u \in Uploads : Unclaimed(u) /\ rows[u].expired}

JobStart ==
    /\ job.pc = "idle" /\ (Overlapping \/ ~InCheckout)
    /\ job' = [pc |-> "look", todo |-> First(InOrder(Expired))]
    /\ UNCHANGED <<request, rows, disk, young, session, cart, orders, troubles>>

NextRow(pc) == job' = [pc |-> pc, todo |-> Tail(job.todo)]

(* Mutant: the row's deadline is trusted. *)
OwnersUnasked(u) == {}
Owners(u) == {o \in Orders : Refers(o, u)}

(* Mutant: the row is spared. *)
Spared(u, o) == rows[u]
Repaired(u, o) == Claimed(u, o)

(* A row an order refers to is claimed for it, or spared when that fails.     *)
Repair ==
    /\ job.pc = "look" /\ job.todo # <<>>
    /\ LET u == Head(job.todo)
       IN \E o \in Owners(u) :
            \/ rows' = [rows EXCEPT ![u] = Repaired(u, o)] /\ UNCHANGED troubles
            \/ Trouble /\ UNCHANGED rows
    /\ NextRow("look")
    /\ UNCHANGED <<request, disk, young, session, cart, orders>>

Look ==
    /\ job.pc = "look" /\ job.todo # <<>> /\ Owners(Head(job.todo)) = {}
    /\ job' = [job EXCEPT !.pc = "file"]
    /\ UNCHANGED <<request, rows, disk, young, session, cart, orders, troubles>>

ReleaseFile ==
    /\ job.pc = "file" /\ job' = [job EXCEPT !.pc = "row"]
    /\ disk' = disk \ {Head(job.todo)} /\ young' = young \ {Head(job.todo)}
    /\ UNCHANGED <<request, rows, session, cart, orders, troubles>>

ReleaseRow ==
    /\ job.pc = "row" /\ NextRow("look")
    /\ rows' = [rows EXCEPT ![Head(job.todo)] = NoRow]
    /\ UNCHANGED <<request, disk, young, session, cart, orders, troubles>>

SweepStart ==
    /\ job.pc = "look" /\ job.todo = <<>>
    /\ job' = [pc |-> "known", entries |-> disk]
    /\ UNCHANGED <<request, rows, disk, young, session, cart, orders, troubles>>

(* Mutant: every name of the directory is known. *)
NamedOnDisk == disk
Named == {u \in Uploads : Exists(u)}

(* Mutant: files as young as this minute go too. *)
SweepableAtOnce(f, known) == f \in disk /\ f \notin known
Sweepable(f, known) == f \in disk /\ f \notin known /\ f \notin young

(* The names come back empty when the query fails.                           *)
KnownNames ==
    /\ job.pc = "known"
    /\ \E known \in IF QueryFails THEN {Named, {}} ELSE {Named} :
         job' = [pc |-> "sweep",
                 todo |-> First(InOrder({f \in job.entries : Sweepable(f, known)}))]
    /\ UNCHANGED <<request, rows, disk, young, session, cart, orders, troubles>>

Sweep ==
    /\ job.pc = "sweep" /\ job' = Idle
    /\ disk' = disk \ ToSet(job.todo) /\ young' = young \ ToSet(job.todo)
    /\ UNCHANGED <<request, rows, session, cart, orders, troubles>>

JobDies ==
    /\ job.pc # "idle" /\ Trouble /\ job' = Idle
    /\ UNCHANGED <<request, rows, disk, young, session, cart, orders>>
-----------------------------------------------------------------------------
Job == JobStart \/ Repair \/ Look \/ ReleaseFile \/ ReleaseRow \/ SweepStart \/ KnownNames \/ Sweep

Next ==
    \/ \E u \in Uploads : Receive(u) \/ Create(u) \/ UploadDies(u)
                          \/ AddToCart(u) \/ Deadline(u)
    \/ LogIn
    \/ \E o \in Orders : CheckoutStart(o) \/ OrderSaved(o) \/ DeleteOrder(o) \/ DownloadDies(o)
                         \/ \E u \in Uploads : Promote(o, u)
    \/ \E f \in Uploads \cup {Archive} : Ages(f)
    \/ Job \/ JobDies

RequestsEnd ==
    \/ \E u \in Uploads : Create(u) \/ Deadline(u)
    \/ \E o \in Orders : OrderSaved(o) \/ \E u \in Uploads : Promote(o, u)

(* Requests end, cron runs, and time passes; shoppers need not do anything.   *)
Fairness ==
    /\ WF_vars(Job) /\ WF_vars(RequestsEnd)
    /\ WF_vars(\E f \in Uploads \cup {Archive} : Ages(f))

Spec == Init /\ [][Next]_vars /\ Fairness
-----------------------------------------------------------------------------
(* The variables keep to their domains.                                      *)
TypeOK ==
    /\ DOMAIN request = Uploads /\ DOMAIN rows = Uploads /\ DOMAIN orders = Orders
    /\ \A u \in Uploads : /\ rows[u].owner \in Orders \cup {0}
                          /\ rows[u].owner # 0 => ~rows[u].expired
    /\ young \subseteq disk /\ disk \subseteq Uploads \cup {Archive}
    /\ cart \subseteq Uploads /\ session \in {"guest", "customer"}
    /\ troubles \in 0 .. MaxTroubles

(* A session never holds more unclaimed files, or bytes, than its quota,      *)
(* however many of its uploads are checked at the same time.                 *)
QuotaHolds ==
    \A key \in {"guest", "customer"} :
        Cardinality(Usage(key)) <= MaxFiles /\ Bytes(Usage(key)) <= MaxBytes

(* A claimed file stays with the order that claimed it first.                *)
KeepsClaims == \A u \in Uploads : rows[u].owner # 0 => rows'[u] \in {rows[u], NoRow}

FirstClaimStands == [][KeepsClaims]_vars

(* No run deletes a file that the line of an order refers to: not when the    *)
(* claim had failed, not when its deadline passed, not when another order is  *)
(* deleted.  (A token two orders came to share goes with the order that       *)
(* claimed it: SharedArtworkStays.)                                          *)
KeepsArtwork ==
    \A o \in Orders, u \in Uploads :
        (/\ Refers(o, u) /\ orders'[o].state = "placed" /\ u \in disk
         /\ \A p \in Orders \ {o} : u \notin orders[p].tokens)
        => u \in disk'

OrderedArtworkStays == [][KeepsArtwork]_vars

(* A recorded upload has its file until its release has begun: the sweep      *)
(* never takes the file of an upload that is still being recorded.           *)
RecordedHasFile ==
    \A u \in Uploads : Exists(u) /\ ~rows[u].expired /\ rows[u].owner = 0 => u \in disk

(* Files left without a row, by a request or a download that died, do not     *)
(* stay: again and again there is none.                                      *)
OrphansAreSwept ==
    []<>(\A f \in disk : f # Archive /\ (Exists(f) \/ Held(f)))

(* Nor do uploads past their deadline: they are released, or an order that    *)
(* refers to them owns them.                                                 *)
ExpiredAreReleased == []<>(\A u \in Uploads : ~(Unclaimed(u) /\ rows[u].expired))
-----------------------------------------------------------------------------
(* Refuted.  The order the shopper placed has its artwork: an expiry pass     *)
(* that dies between file and row leaves a row that still passes checkout.    *)
PlacedHasArtwork == [][\A o \in Orders, u \in Uploads :
                         (~Refers(o, u) /\ Refers(o, u)') => u \in disk']_vars

(* Refuted.  A re-ordered token whose claim had failed belongs to the later   *)
(* order, and is deleted with it under the first.                            *)
SharedArtworkStays ==
    [][\A o \in Orders, u \in Uploads :
         (Refers(o, u) /\ orders'[o].state = "placed" /\ u \in disk) => u \in disk']_vars

(* Refuted.  What is in the cart, recorded and on disk can be bought: not     *)
(* after a payment that failed, nor after the shopper logs in.               *)
CartIsBuyable == \A u \in cart : Exists(u) /\ u \in disk => Usable(u)
=============================================================================
