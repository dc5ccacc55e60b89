------------------------------ MODULE ConfigSync -----------------------------
(***************************************************************************)
(* How the configuration document reaches a storefront: the cloud answers   *)
(* `GET /store/config` in several reads (ConfigDeliveryService and          *)
(* ConfigDocumentBuilder), the plugin's Synchroniser asks with the ETag it  *)
(* holds and Repository.store caches the answer in three option writes.     *)
(*                                                                          *)
(* Each element of Syncs is a PHP request that may run `sync()`: the cron   *)
(* run, a push, "Sync now".  Nothing serialises them.  A PHP request reads  *)
(* an option from the database once and from WordPress's per-request cache  *)
(* after that, so `seen` is the connection state it started with.           *)
(*                                                                          *)
(* A document is abstracted to its config_version, the published version of *)
(* each set in it (a snapshot is immutable, so its version stands for it)   *)
(* and each set's targets.                                                  *)
(***************************************************************************)
EXTENDS Integers, ConfigClock

CONSTANTS Syncs,       \* requests of the plugin that may sync at the same time
          MaxVersion,  \* bound: configVersion
          MaxCrashes   \* bound: PHP requests that die part way

ASSUME SyncBounds == MaxVersion \in Nat /\ MaxCrashes \in Nat

VARIABLES honoured,    \* the cloud accepts the store's credential
          supported,   \* this plugin build reads the cloud's schema_version
          config,      \* OPTION_CONFIG
          etag,        \* OPTION_CONFIG_META.etag, as the version it names
          index,       \* OPTION_PRODUCT_INDEX: the targets of each set
          connState,   \* OPTION_CONNECTION_STATE
          syncs,       \* the requests in flight
          crashes

pluginVars == <<config, etag, index>>
vars == <<clockVars, honoured, supported, pluginVars, connState, syncs, crashes>>
-----------------------------------------------------------------------------
ConnState == {"disconnected", "connecting", "connected", "error", "revoked"}

Stage == {"idle", "sent", "unchanged", "build", "list", "targets", "answer",
          "meta", "index", "recover"}

NoEtag == -1

Document == [version : Int, list : [Sets -> Nat], targets : [Sets -> SUBSET Products]]

NoDocument == [version |-> NoEtag, list |-> [s \in Sets |-> 0],
               targets |-> [s \in Sets |-> {}]]

NoSync == [pc |-> "idle", tag |-> NoEtag, seen |-> "connected", doc |-> NoDocument]

(* ProductIndex.build: what the document assigns, set by set. *)
IndexOf(doc) == [s \in Sets |-> IF doc.list[s] = 0 THEN {} ELSE doc.targets[s]]

TypeOK ==
    /\ ClockTypeOK
    /\ honoured \in BOOLEAN
    /\ supported \in BOOLEAN
    /\ config \in Document
    /\ etag \in Int
    /\ index \in [Sets -> SUBSET Products]
    /\ connState \in ConnState
    /\ syncs \in [Syncs -> [pc : Stage, tag : Int, seen : ConnState, doc : Document]]
    /\ crashes \in Nat

Init ==
    /\ ClockInit
    /\ honoured = TRUE
    /\ supported = TRUE
    /\ config = NoDocument
    /\ etag = NoEtag
    /\ index = IndexOf(NoDocument)
    /\ connState = "connected"
    /\ syncs = [p \in Syncs |-> NoSync]
    /\ crashes = 0

Goto(p, pc) == syncs' = [syncs EXCEPT ![p].pc = pc]

Done(p) == syncs' = [syncs EXCEPT ![p] = NoSync]

(* Synchroniser.recover and degrade, on the state this request has seen. *)
Recover(seen) == connState' = IF seen = "error" THEN "connected" ELSE connState

(* Mutant: a state StateMachine does not know. *)
DegradeUnknown(seen) == connState' = IF seen = "connected" THEN "degraded" ELSE connState

Degrade(seen) == connState' = IF seen = "connected" THEN "error" ELSE connState
-----------------------------------------------------------------------------
(* The cloud's content moves, as ConfigClock allows. *)
CloudChanges ==
    /\ ClockNext
    /\ configVersion' <= MaxVersion
    /\ UNCHANGED <<honoured, supported, pluginVars, connState, syncs, crashes>>

(* Synchroniser.sync: no request leaves a store with no usable credential. *)
SyncStart(p) ==
    /\ syncs[p].pc = "idle"
    /\ connState \notin {"disconnected", "revoked"}
    /\ syncs' = [syncs EXCEPT ![p] = [NoSync EXCEPT !.pc = "sent", !.tag = etag,
                                                    !.seen = connState]]
    /\ UNCHANGED <<clockVars, honoured, supported, pluginVars, connState, crashes>>

(* ConfigDeliveryService.deliver: one read of the version answers a match. *)
CheckVersion(p) ==
    /\ syncs[p].pc = "sent"
    /\ honoured
    /\ Goto(p, IF syncs[p].tag = configVersion THEN "unchanged" ELSE "build")
    /\ UNCHANGED <<clockVars, honoured, supported, pluginVars, connState, crashes>>

(* ConfigDocumentBuilder.build: the store row, whose version labels the answer; *)
ReadStore(p) ==
    /\ syncs[p].pc = "build"
    /\ syncs' = [syncs EXCEPT ![p].pc = "list", ![p].doc.version = configVersion]
    /\ UNCHANGED <<clockVars, honoured, supported, pluginVars, connState, crashes>>

(* then the published sets; *)
ReadSets(p) ==
    /\ syncs[p].pc = "list"
    /\ syncs' = [syncs EXCEPT ![p].pc = "targets", ![p].doc.list = published]
    /\ UNCHANGED <<clockVars, honoured, supported, pluginVars, connState, crashes>>

(* Mutant: the label is read with the last of the rows. *)
ReadTargetsAndLabel(p) ==
    /\ syncs[p].pc = "targets"
    /\ syncs' = [syncs EXCEPT ![p].pc = "answer",
                              ![p].doc.version = configVersion,
                              ![p].doc.targets = [s \in Sets |->
                                  IF syncs[p].doc.list[s] = 0 THEN {} ELSE assigned[s]]]
    /\ UNCHANGED <<clockVars, honoured, supported, pluginVars, connState, crashes>>

(* then their snapshots and live assignments.  A listed set that has since left
   the document may be skipped (its snapshot erased with it) or kept, with
   whatever assignment rows it still has. *)
ReadTargets(p) ==
    /\ syncs[p].pc = "targets"
    /\ \E gone \in SUBSET {s \in Sets : published[s] = 0},
          left \in [Sets -> SUBSET Products] :
          LET doc == syncs[p].doc
              list == [s \in Sets |-> IF s \in gone THEN 0 ELSE doc.list[s]]
              targets == [s \in Sets |-> IF list[s] = 0 THEN {}
                             ELSE IF published[s] = 0 THEN left[s] ELSE assigned[s]] IN
          syncs' = [syncs EXCEPT ![p] = [@ EXCEPT
              !.pc = "answer", !.doc = [doc EXCEPT !.list = list, !.targets = targets]]]
    /\ UNCHANGED <<clockVars, honoured, supported, pluginVars, connState, crashes>>
-----------------------------------------------------------------------------
(* 304: good news only for a store that holds something. *)
ReceiveNotModified(p) ==
    /\ syncs[p].pc = "unchanged"
    /\ IF config # NoDocument THEN Recover(syncs[p].seen) ELSE Degrade(syncs[p].seen)
    /\ Done(p)
    /\ UNCHANGED <<clockVars, honoured, supported, pluginVars, crashes>>

(* Mutant: a refused document still leaves its ETag. *)
RefusedKeepsEtag(p) ==
    /\ syncs[p].pc = "answer"
    /\ ~supported
    /\ etag' = syncs[p].doc.version
    /\ Degrade(syncs[p].seen)
    /\ Done(p)
    /\ UNCHANGED <<clockVars, honoured, supported, config, index, crashes>>

(* Mutant: a refused document empties the cache. *)
RefusedEmptiesCache(p) ==
    /\ syncs[p].pc = "answer"
    /\ ~supported
    /\ config' = NoDocument
    /\ Degrade(syncs[p].seen)
    /\ Done(p)
    /\ UNCHANGED <<clockVars, honoured, supported, etag, index, crashes>>

(* Repository.store refuses a schema this build does not read. *)
ReceiveUnsupported(p) ==
    /\ syncs[p].pc = "answer"
    /\ ~supported
    /\ Degrade(syncs[p].seen)
    /\ Done(p)
    /\ UNCHANGED <<clockVars, honoured, supported, pluginVars, crashes>>

(* Repository.store: the document, *)
StoreConfig(p) ==
    /\ syncs[p].pc = "answer"
    /\ supported
    /\ config' = syncs[p].doc
    /\ Goto(p, "meta")
    /\ UNCHANGED <<clockVars, honoured, supported, etag, index, connState, crashes>>

(* then the metadata, with the ETag, *)
StoreMeta(p) ==
    /\ syncs[p].pc = "meta"
    /\ etag' = syncs[p].doc.version
    /\ Goto(p, "index")
    /\ UNCHANGED <<clockVars, honoured, supported, config, index, connState, crashes>>

(* Mutant: new index entries are added to the old ones. *)
StoreIndexMerged(p) ==
    /\ syncs[p].pc = "index"
    /\ index' = [s \in Sets |-> index[s] \cup IndexOf(syncs[p].doc)[s]]
    /\ Goto(p, "recover")
    /\ UNCHANGED <<clockVars, honoured, supported, config, etag, connState, crashes>>

(* then the product index. *)
StoreIndex(p) ==
    /\ syncs[p].pc = "index"
    /\ index' = IndexOf(syncs[p].doc)
    /\ Goto(p, "recover")
    /\ UNCHANGED <<clockVars, honoured, supported, config, etag, connState, crashes>>

SyncEnds(p) ==
    /\ syncs[p].pc = "recover"
    /\ Recover(syncs[p].seen)
    /\ Done(p)
    /\ UNCHANGED <<clockVars, honoured, supported, pluginVars, crashes>>

(* A 401: Api\Client announces it and StateMachine.on_unauthorized revokes. *)
SyncUnauthorized(p) ==
    /\ syncs[p].pc = "sent"
    /\ ~honoured
    /\ connState' = IF syncs[p].seen \in {"connected", "error"} THEN "revoked" ELSE connState
    /\ Done(p)
    /\ UNCHANGED <<clockVars, honoured, supported, pluginVars, crashes>>

(* Any other failure: a timeout, a 5xx, a 429, an open circuit, a lost answer. *)
SyncFails(p) ==
    /\ syncs[p].pc \in {"sent", "unchanged", "build", "list", "targets", "answer"}
    /\ Degrade(syncs[p].seen)
    /\ Done(p)
    /\ UNCHANGED <<clockVars, honoured, supported, pluginVars, crashes>>

(* The PHP request dies: nothing it has not yet written is written. *)
Crash(p) ==
    /\ syncs[p].pc # "idle"
    /\ crashes < MaxCrashes
    /\ crashes' = crashes + 1
    /\ Done(p)
    /\ UNCHANGED <<clockVars, honoured, supported, pluginVars, connState>>
-----------------------------------------------------------------------------
(* The rest of the plugin and the cloud, as far as a sync can tell. *)

(* An operator or a rotation retires the credential. *)
CredentialRetired ==
    /\ honoured' = FALSE
    /\ UNCHANGED <<clockVars, supported, pluginVars, connState, syncs, crashes>>

(* Another request of the plugin, the heartbeat for one, earns a 401. *)
OtherUnauthorized ==
    /\ ~honoured
    /\ connState \in {"connected", "error"}
    /\ connState' = "revoked"
    /\ UNCHANGED <<clockVars, honoured, supported, pluginVars, syncs, crashes>>

(* Handshake.begin *)
ConnectBegins ==
    /\ connState' = "connecting"
    /\ UNCHANGED <<clockVars, honoured, supported, pluginVars, syncs, crashes>>

(* Callback.handle: the exchange gave a fresh credential, or failed. *)
ConnectCompletes ==
    /\ connState = "connecting"
    /\ \/ connState' = "connected" /\ honoured' = TRUE
       \/ connState' = "disconnected" /\ UNCHANGED honoured
    /\ UNCHANGED <<clockVars, supported, pluginVars, syncs, crashes>>

(* ConnectionSection.maybe_disconnect: the cache stays, the credential goes. *)
Disconnect ==
    /\ connState' = "disconnected"
    /\ honoured' = FALSE
    /\ UNCHANGED <<clockVars, supported, pluginVars, syncs, crashes>>

(* The cloud is released with a newer schema, or the plugin is upgraded. *)
SchemaMoves ==
    /\ supported' = ~supported
    /\ UNCHANGED <<clockVars, honoured, pluginVars, connState, syncs, crashes>>

Answers(p) == CheckVersion(p) \/ ReadStore(p) \/ ReadSets(p) \/ ReadTargets(p)

Receives(p) == ReceiveNotModified(p) \/ ReceiveUnsupported(p) \/ StoreConfig(p)

Writes(p) == StoreMeta(p) \/ StoreIndex(p) \/ SyncEnds(p)

Connection == \/ CredentialRetired \/ OtherUnauthorized \/ ConnectBegins
              \/ ConnectCompletes \/ Disconnect \/ SchemaMoves

Next ==
    \/ CloudChanges
    \/ Connection
    \/ \E p \in Syncs : \/ SyncStart(p) \/ Answers(p) \/ Receives(p) \/ Writes(p)
                        \/ SyncUnauthorized(p) \/ SyncFails(p) \/ Crash(p)

Spec == Init /\ [][Next]_vars

(* WP-Cron comes back for as long as the site has visitors, a request that
   starts writing goes on, and a cloud asked again and again does answer. *)
Fairness ==
    \A p \in Syncs :
        /\ WF_vars(SyncStart(p))
        /\ SF_vars(CheckVersion(p)) /\ SF_vars(ReadStore(p))
        /\ SF_vars(ReadSets(p)) /\ SF_vars(ReadTargets(p))
        /\ SF_vars(Receives(p)) /\ WF_vars(Writes(p))

FairSpec == Spec /\ Fairness
-----------------------------------------------------------------------------
(* Properties *)

(* doc is the cloud's document, sets that left it unannounced apart. *)
ListsAgree(doc) == \A s \in Sets \ unannounced : doc.list[s] = published[s]

TargetsAgree(doc) == \A s \in Sets \ unannounced : doc.targets[s] = assigned[s]

(* An answer labelled with the current version is current, although the cloud
   builds it in separate reads between which anything may commit: whatever is
   torn carries an older label.  Holds for any number of overlapping syncs. *)
AnswerCovers ==
    \A p \in Syncs :
        LET doc == syncs[p].doc IN
        doc.version = configVersion =>
            /\ syncs[p].pc \in {"targets", "answer", "meta", "index", "recover"}
                  => ListsAgree(doc)
            /\ syncs[p].pc \in {"answer", "meta", "index", "recover"}
                  => TargetsAgree(doc)

(* A store that would be answered 304 serves the current document, whenever a
   sync of it failed or died.  One sync at a time. *)
HeldCovers ==
    etag = configVersion => ListsAgree(config) /\ TargetsAgree(config)

(* Repository.store writes the document before the ETag: a request that dies
   between the two refetches rather than believing it holds what it does not. *)
EtagNeverAhead == etag <= config.version

(* Together: what the cache holds is what its ETag claims of it. *)
EtagTruthful == HeldCovers /\ EtagNeverAhead

(* The cache never goes back to an older document.  One sync at a time. *)
HeldNeverRegresses == [][config'.version >= config.version]_vars

(* The index and the document disagree only while a store() is part way through,
   when no request has died.  One sync at a time. *)
Storing == \E p \in Syncs : syncs[p].pc \in {"meta", "index"}

IndexMatches == crashes = 0 /\ ~Storing => index = IndexOf(config)

(* A storefront with a usable credential and a readable schema does not stay
   behind: it comes to hold the current document, failures, lost answers and a
   dying request notwithstanding. *)
Usable == honoured /\ supported /\ connState \notin {"disconnected", "revoked"}

Current == etag = configVersion /\ ListsAgree(config) /\ TargetsAgree(config)

CatchesUp == <>[]Usable => []<>Current
-----------------------------------------------------------------------------
(* Claims of the source that the code does not keep *)

(* Repository.php:256-261: a write that fails between document and index leaves
   a stale index, "which is recoverable". *)
IndexRecovers == <>[]Usable => []<>(index = IndexOf(config))

(* Synchroniser.php:84-85: after a 304 "the store is now known to hold current
   configuration". *)
UnchangedMeansCurrent ==
    \A p \in Syncs : syncs[p].pc = "unchanged" => config.version >= syncs[p].tag

(* Synchroniser.php:233-235: the transition table refuses anything else, so a
   revoked store is not reconnected by a sync that happened to work. *)
RevokedNotReconnected ==
    [][connState = "revoked" => connState' # "connected"]_vars
=============================================================================
