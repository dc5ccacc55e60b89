------------------------------ MODULE MCFiles -------------------------------
(***************************************************************************)
(* Uploads and Renders, the two lives a file of the plugin's directory can  *)
(* have, checked one beside the other: part says which of the two a         *)
(* behaviour is of.  Their names differ in kind, so neither touches the     *)
(* other's files.                                                           *)
(***************************************************************************)
EXTENDS Uploads

CONSTANTS Lines, OrderOf, BadScenes, Incomplete, Workers, Passes, RenderBatch,
          MaxAttempts, RenderTroubles

(* Orders are numbered from 1, and each has a line. *)
ASSUME RendersAssumption ==
    /\ Len(OrderOf) \in Nat /\ Lines = 1 .. Len(OrderOf) /\ \A l \in Lines : OrderOf[l] \in Lines
    /\ {RenderBatch, MaxAttempts} \subseteq Nat \ {0} /\ RenderTroubles \in Nat
    /\ IsFiniteSet(Workers)

VARIABLES queue, ids, files, failures, partials, prints, fresh, jobs, claims, pass,
          faults, dropped, lost, part

renders == <<queue, ids, files, failures, partials, prints, fresh, jobs, claims, pass,
             faults, dropped, lost>>

R == INSTANCE Renders WITH Batch <- RenderBatch, MaxTroubles <- RenderTroubles,
                           disk <- prints, young <- fresh, troubles <- faults

Uploading == part = "uploads" /\ UNCHANGED <<renders, part>>
Rendering == part = "renders" /\ UNCHANGED <<vars, part>>

FilesInit == Init /\ R!Init /\ part \in {"uploads", "renders"}

FilesNext == (Next /\ Uploading) \/ (R!Next /\ Rendering)

(* The fairness of each, in the behaviours that are its own. *)
Cron == part = "uploads" /\ Job
Hours == part = "uploads" /\ \E f \in Uploads \cup {Archive} : Ages(f)
Shop == part = "uploads" /\ RequestsEnd
Asking == part = "renders" /\ R!CloudWorks
Collecting == part = "renders" /\ R!Collect

FilesFairness ==
    /\ WF_vars(Cron) /\ WF_vars(Hours) /\ WF_vars(Shop)
    /\ WF_renders(Asking) /\ WF_renders(Collecting)

FilesSpec == FilesInit /\ [][FilesNext]_<<vars, renders, part>> /\ FilesFairness

(* The state of either part is well typed. *)
FilesTypeOK == TypeOK /\ R!TypeOK

(* A shopper stays within the quota; what a row or an order records is on   *)
(* disk; and no job is asked for beyond its attempts (UploadQuota.php,      *)
(* UploadRepository.php, RenderCollector.php).                              *)
FilesAreAccounted == QuotaHolds /\ RecordedHasFile /\ R!GivenUpInTime /\ R!RecordedIsOnDisk

(* What was promised to an order is kept: its claim, its artwork, the job   *)
(* that was finished for it and the bytes the cloud may let go of           *)
(* (UploadPromoter.php, UploadSweeper.php, render-jobs.service.ts).         *)
PromisesAreKept ==
    [][KeepsClaims /\ KeepsArtwork /\ R!KeepsFinished /\ R!KeepsBytes]_<<vars, renders>>

(* Nothing is left behind: files without a row and uploads past their       *)
(* deadline go, and every line of an order gets its print file or a reason. *)
NothingIsLeft == OrphansAreSwept /\ ExpiredAreReleased /\ R!LinesSettle

MCFilesOf ==
    <<[size |-> 2, kept |-> 2, extension |-> "pdf", content |-> "pdf", pixels |-> 0],
      [size |-> 3, kept |-> 2, extension |-> "jpg", content |-> "jpeg", pixels |-> 2],
      [size |-> 1, kept |-> 1, extension |-> "png", content |-> "broken", pixels |-> 1]>>
MCOrderOf == <<1, 1, 2>>
=============================================================================
