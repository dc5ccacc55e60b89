-------------------------- MODULE ConfigSyncProofs ---------------------------
(* Theorems about ConfigSync, for every number of sets and targets. *)
EXTENDS ConfigSync, TLAPS

SyncRow == [pc : Stage, tag : Int, seen : ConnState, doc : Document]

LEMMA NoDocumentType == NoDocument \in Document /\ NoSync \in SyncRow /\ NoSync.pc = "idle"
                        /\ NoSync.doc = NoDocument /\ NoDocument.version = -1
  BY DEF NoDocument, NoSync, Document, SyncRow, Stage, ConnState, NoEtag

LEMMA IndexType ==
  ASSUME NEW doc \in Document
  PROVE  IndexOf(doc) \in [Sets -> SUBSET Products]
  BY DEF IndexOf, Document

(* A step of the cloud either announces itself or withdraws one set silently. *)
LEMMA ClockTypeStep == ClockTypeOK /\ ClockNext => ClockTypeOK'
<1> SUFFICES ASSUME ClockTypeOK, ClockNext PROVE ClockTypeOK'
  OBVIOUS
<1> USE DEF ClockTypeOK, Announce
<1>1. PICK s \in Sets :
        \/ \E targets \in SUBSET Products : Release(s, targets) \/ Reassign(s, targets)
        \/ Withdraw(s)
        \/ WithdrawSilently(s)
  BY DEF ClockNext
<1>2. CASE \E targets \in SUBSET Products : Release(s, targets)
  BY <1>2 DEF Release
<1>3. CASE \E targets \in SUBSET Products : Reassign(s, targets)
  BY <1>3 DEF Reassign
<1>4. CASE Withdraw(s)
  BY <1>4 DEF Withdraw
<1>5. CASE WithdrawSilently(s)
  BY <1>5 DEF WithdrawSilently
<1> QED BY <1>1, <1>2, <1>3, <1>4, <1>5

LEMMA TypeInit == Init => TypeOK
<1> SUFFICES ASSUME Init PROVE TypeOK
  OBVIOUS
<1>1. ClockTypeOK
  BY DEF Init, ClockInit, ClockTypeOK
<1>2. IndexOf(NoDocument) \in [Sets -> SUBSET Products]
  BY NoDocumentType, IndexType
<1> QED BY <1>1, <1>2, NoDocumentType DEF Init, TypeOK, SyncRow, ConnState, NoEtag

(* What a step of request p does to the requests in flight. *)
Moves(p, row) == syncs' = [syncs EXCEPT ![p] = row]

LEMMA RowMoves ==
  ASSUME syncs \in [Syncs -> SyncRow], NEW p \in Syncs, NEW row \in SyncRow, Moves(p, row)
  PROVE  syncs' \in [Syncs -> SyncRow]
  BY DEF Moves

LEMMA TypeStep == TypeOK /\ [Next]_vars => TypeOK'
<1> SUFFICES ASSUME TypeOK, [Next]_vars PROVE TypeOK'
  OBVIOUS
<1>r. syncs \in [Syncs -> SyncRow] /\ (syncs' \in [Syncs -> SyncRow] =>
          syncs' \in [Syncs -> [pc : Stage, tag : Int, seen : ConnState, doc : Document]])
  BY DEF TypeOK, SyncRow
<1>d. \A p \in Syncs : syncs[p] \in SyncRow /\ syncs[p].doc \in Document
  BY <1>r DEF SyncRow
<1>u. UNCHANGED clockVars => ClockTypeOK'
  BY DEF TypeOK, ClockTypeOK, clockVars
<1>1. CASE CloudChanges
  BY <1>1, ClockTypeStep DEF CloudChanges, TypeOK, pluginVars
<1>2. CASE Connection
  BY <1>2, <1>u DEF Connection, CredentialRetired, OtherUnauthorized, ConnectBegins,
     ConnectCompletes, Disconnect, SchemaMoves, TypeOK, pluginVars, ConnState
<1>3. ASSUME NEW p \in Syncs, NEW pc \in Stage, Goto(p, pc) PROVE syncs' \in [Syncs -> SyncRow]
  BY <1>3, <1>r DEF Goto, SyncRow
<1>4. ASSUME NEW p \in Syncs, Done(p) PROVE syncs' \in [Syncs -> SyncRow]
  BY <1>4, <1>r, NoDocumentType DEF Done
<1>5. ASSUME NEW p \in Syncs, SyncStart(p) PROVE TypeOK'
  <2>1. [NoSync EXCEPT !.pc = "sent", !.tag = etag, !.seen = connState] \in SyncRow
    BY NoDocumentType DEF SyncRow, Stage, TypeOK
  <2>2. syncs' \in [Syncs -> SyncRow]
    BY <1>5, <1>r, <2>1 DEF SyncStart
  <2> QED BY <1>5, <1>r, <1>u, <2>2 DEF SyncStart, TypeOK, pluginVars
<1>6. ASSUME NEW p \in Syncs, Answers(p) PROVE TypeOK'
  <2>1. CASE CheckVersion(p)
    <3>1. syncs' \in [Syncs -> SyncRow]
      BY <2>1, <1>3 DEF CheckVersion, Stage
    <3> QED BY <2>1, <1>r, <1>u, <3>1 DEF CheckVersion, TypeOK, pluginVars
  <2>2. CASE ReadStore(p)
    <3> DEFINE doc == [syncs[p].doc EXCEPT !.version = configVersion]
               row == [syncs[p] EXCEPT !.pc = "list", !.doc = doc]
    <3>1. doc \in Document
      BY <1>d DEF Document, TypeOK, ClockTypeOK
    <3>2. row \in SyncRow
      BY <1>d, <3>1 DEF SyncRow, Stage
    <3>3. Moves(p, row)
      BY <2>2, <1>r, <1>d DEF ReadStore, Moves, SyncRow
    <3>4. syncs' \in [Syncs -> SyncRow]
      BY <1>r, <3>2, <3>3, RowMoves
    <3> QED BY <2>2, <1>r, <1>u, <3>4 DEF ReadStore, TypeOK, pluginVars
  <2>3. CASE ReadSets(p)
    <3> DEFINE doc == [syncs[p].doc EXCEPT !.list = published]
               row == [syncs[p] EXCEPT !.pc = "targets", !.doc = doc]
    <3>1. doc \in Document
      BY <1>d DEF Document, TypeOK, ClockTypeOK
    <3>2. row \in SyncRow
      BY <1>d, <3>1 DEF SyncRow, Stage
    <3>3. Moves(p, row)
      BY <2>3, <1>r, <1>d DEF ReadSets, Moves, SyncRow
    <3>4. syncs' \in [Syncs -> SyncRow]
      BY <1>r, <3>2, <3>3, RowMoves
    <3> QED BY <2>3, <1>r, <1>u, <3>4 DEF ReadSets, TypeOK, pluginVars
  <2>4. CASE ReadTargets(p)
    <3> DEFINE old == syncs[p].doc
               list(gone) == [s \in Sets |-> IF s \in gone THEN 0 ELSE old.list[s]]
               targets(gone, left) == [s \in Sets |-> IF list(gone)[s] = 0 THEN {}
                              ELSE IF published[s] = 0 THEN left[s] ELSE assigned[s]]
               doc(gone, left) ==
                   [old EXCEPT !.list = list(gone), !.targets = targets(gone, left)]
               row(gone, left) == [syncs[p] EXCEPT !.pc = "answer", !.doc = doc(gone, left)]
    <3>1. PICK gone \in SUBSET {s \in Sets : published[s] = 0},
               left \in [Sets -> SUBSET Products] : Moves(p, row(gone, left))
      BY <2>4 DEF ReadTargets, Moves
    <3>2. list(gone) \in [Sets -> Nat] /\ targets(gone, left) \in [Sets -> SUBSET Products]
      BY <1>d DEF Document, TypeOK, ClockTypeOK
    <3> HIDE DEF list, targets
    <3>3. doc(gone, left) \in Document
      BY <1>d, <3>2 DEF Document
    <3>4. row(gone, left) \in SyncRow
      BY <1>d, <3>3 DEF SyncRow, Stage
    <3> HIDE DEF row
    <3>6. syncs' \in [Syncs -> SyncRow]
      BY <1>r, <3>1, <3>4, RowMoves
    <3> QED BY <2>4, <1>r, <1>u, <3>6 DEF ReadTargets, TypeOK, pluginVars
  <2> QED BY <1>6, <2>1, <2>2, <2>3, <2>4 DEF Answers
<1>7. ASSUME NEW p \in Syncs, Receives(p) PROVE TypeOK'
  <2>1. syncs' \in [Syncs -> SyncRow]
    BY <1>7, <1>3, <1>4
       DEF Receives, ReceiveNotModified, ReceiveUnsupported, StoreConfig, Stage
  <2>2. connState' \in ConnState
    BY <1>7 DEF Receives, ReceiveNotModified, ReceiveUnsupported, StoreConfig, Recover,
       Degrade, TypeOK, ConnState
  <2> QED BY <1>7, <1>r, <1>d, <1>u, <2>1, <2>2
       DEF Receives, ReceiveNotModified, ReceiveUnsupported, StoreConfig, TypeOK, pluginVars
<1>8. ASSUME NEW p \in Syncs, Writes(p) PROVE TypeOK'
  <2>1. syncs' \in [Syncs -> SyncRow]
    BY <1>8, <1>3, <1>4 DEF Writes, StoreMeta, StoreIndex, SyncEnds, Stage
  <2>2. connState' \in ConnState
    BY <1>8 DEF Writes, StoreMeta, StoreIndex, SyncEnds, Recover, TypeOK, ConnState
  <2>3. syncs[p].doc.version \in Int /\ IndexOf(syncs[p].doc) \in [Sets -> SUBSET Products]
    BY <1>d, IndexType DEF Document
  <2> QED BY <1>8, <1>r, <1>u, <2>1, <2>2, <2>3
       DEF Writes, StoreMeta, StoreIndex, SyncEnds, TypeOK, pluginVars
<1>9. ASSUME NEW p \in Syncs, SyncUnauthorized(p) \/ SyncFails(p) \/ Crash(p) PROVE TypeOK'
  <2>1. syncs' \in [Syncs -> SyncRow]
    BY <1>9, <1>4 DEF SyncUnauthorized, SyncFails, Crash
  <2>2. connState' \in ConnState
    BY <1>9 DEF SyncUnauthorized, SyncFails, Crash, Degrade, TypeOK, ConnState
  <2> QED BY <1>9, <1>r, <1>u, <2>1, <2>2
       DEF SyncUnauthorized, SyncFails, Crash, TypeOK, pluginVars
<1>10. CASE UNCHANGED vars
  BY <1>10, <1>u DEF vars, TypeOK, pluginVars
<1> QED BY <1>1, <1>2, <1>5, <1>6, <1>7, <1>8, <1>9, <1>10 DEF Next

(* Every option and every answer in flight keeps its type. *)
THEOREM TypeCorrect == Spec => []TypeOK
  BY TypeInit, TypeStep, PTL DEF Spec
-----------------------------------------------------------------------------
(* What an answer at stage pc is good for, if its label is the current version. *)
Covered(pc, doc) ==
    doc.version = configVersion =>
        /\ pc \in {"targets", "answer", "meta", "index", "recover"} => ListsAgree(doc)
        /\ pc \in {"answer", "meta", "index", "recover"} => TargetsAgree(doc)

(* A set that is not in the document is assigned to nothing in it. *)
AbsentUnassigned == \A s \in Sets : published[s] = 0 => assigned[s] = {}

(* Any number of syncs: no document is labelled with a version the store has not
   reached, and every one labelled with the current version is current. *)
CoverInv ==
    /\ TypeOK
    /\ AbsentUnassigned
    /\ \A p \in Syncs : /\ syncs[p].doc.version <= configVersion
                        /\ Covered(syncs[p].pc, syncs[p].doc)
    /\ config.version <= configVersion
    /\ Covered("answer", config)

LEMMA CoverInit == Init => CoverInv
<1> SUFFICES ASSUME Init PROVE CoverInv
  OBVIOUS
<1>1. TypeOK
  BY TypeInit
<1>2. AbsentUnassigned
  BY DEF Init, ClockInit, AbsentUnassigned
<1>3. configVersion = 0 /\ config = NoDocument /\ \A p \in Syncs : syncs[p] = NoSync
  BY DEF Init, ClockInit
<1> QED BY <1>1, <1>2, <1>3, NoDocumentType DEF CoverInv, Covered

LEMMA CoverCloud ==
  ASSUME CoverInv, TypeOK', ClockNext, UNCHANGED <<syncs, config>>
  PROVE  CoverInv'
<1>t. /\ configVersion \in Nat /\ config.version \in Int
      /\ published \in [Sets -> Nat] /\ assigned \in [Sets -> SUBSET Products]
      /\ \A p \in Syncs : syncs[p].doc.version \in Int
  BY DEF CoverInv, TypeOK, ClockTypeOK, Document
<1>1. PICK s \in Sets :
        \/ \E targets \in SUBSET Products : Release(s, targets) \/ Reassign(s, targets)
        \/ Withdraw(s)
        \/ WithdrawSilently(s)
  BY DEF ClockNext
<1>2. CASE \E targets \in SUBSET Products : Release(s, targets) \/ Reassign(s, targets)
  <2>1. PICK targets \in SUBSET Products : Release(s, targets) \/ Reassign(s, targets)
    BY <1>2
  <2>2. configVersion' = configVersion + 1
    BY <2>1 DEF Release, Reassign, Announce
  <2>3. AbsentUnassigned'
    BY <1>t, <2>1 DEF Release, Reassign, CoverInv, AbsentUnassigned
  <2>4. config.version < configVersion' /\ \A p \in Syncs : syncs[p].doc.version < configVersion'
    BY <1>t, <2>2 DEF CoverInv
  <2> QED BY <1>t, <2>2, <2>3, <2>4 DEF CoverInv, Covered
<1>3. CASE Withdraw(s)
  <2>2. configVersion' = configVersion + 1
    BY <1>3 DEF Withdraw, Announce
  <2>3. AbsentUnassigned'
    BY <1>t, <1>3 DEF Withdraw, CoverInv, AbsentUnassigned
  <2>4. config.version < configVersion' /\ \A p \in Syncs : syncs[p].doc.version < configVersion'
    BY <1>t, <2>2 DEF CoverInv
  <2> QED BY <1>t, <2>2, <2>3, <2>4 DEF CoverInv, Covered
<1>4. CASE WithdrawSilently(s)
  <2>1. /\ configVersion' = configVersion
        /\ unannounced' = unannounced \cup {s}
        /\ \A t \in Sets : t # s => published'[t] = published[t] /\ assigned'[t] = assigned[t]
    BY <1>t, <1>4 DEF WithdrawSilently
  <2>2. AbsentUnassigned'
    BY <1>t, <1>4 DEF WithdrawSilently, CoverInv, AbsentUnassigned
  <2>3. ASSUME NEW pc, NEW doc, Covered(pc, doc)
        PROVE  doc.version = configVersion' =>
                 /\ pc \in {"targets", "answer", "meta", "index", "recover"} =>
                        \A t \in Sets \ unannounced' : doc.list[t] = published'[t]
                 /\ pc \in {"answer", "meta", "index", "recover"} =>
                        \A t \in Sets \ unannounced' : doc.targets[t] = assigned'[t]
    BY <2>1, <2>3 DEF Covered, ListsAgree, TargetsAgree
  <2>4. ASSUME NEW p \in Syncs PROVE Covered(syncs[p].pc, syncs[p].doc)'
    <3>1. Covered(syncs[p].pc, syncs[p].doc)
      BY DEF CoverInv
    <3> QED BY <2>3, <3>1 DEF Covered, ListsAgree, TargetsAgree
  <2>5. Covered("answer", config)'
    <3>1. Covered("answer", config)
      BY DEF CoverInv
    <3> QED BY <2>3, <3>1 DEF Covered, ListsAgree, TargetsAgree
  <2> QED BY <2>1, <2>2, <2>4, <2>5 DEF CoverInv
<1> QED BY <1>1, <1>2, <1>3, <1>4

(* A step of one request, when what it leaves in flight and in the cache is covered. *)
LEMMA CoverMove ==
  ASSUME CoverInv, TypeOK', UNCHANGED clockVars, NEW p \in Syncs, NEW row, Moves(p, row),
         row.doc.version <= configVersion, Covered(row.pc, row.doc),
         config' = config \/ (config' = syncs[p].doc /\ syncs[p].pc = "answer")
  PROVE  CoverInv'
<1>1. syncs'[p] = row /\ \A q \in Syncs : q # p => syncs'[q] = syncs[q]
  BY DEF Moves, CoverInv, TypeOK
<1>2. AbsentUnassigned'
  BY DEF CoverInv, AbsentUnassigned, clockVars
<1>3. \A q \in Syncs : /\ syncs'[q].doc.version <= configVersion'
                       /\ Covered(syncs[q].pc, syncs[q].doc)'
  BY <1>1 DEF CoverInv, Covered, ListsAgree, TargetsAgree, clockVars
<1>4. config'.version <= configVersion' /\ Covered("answer", config)'
  BY DEF CoverInv, Covered, ListsAgree, TargetsAgree, clockVars
<1> QED BY <1>2, <1>3, <1>4 DEF CoverInv

LEMMA CoverStep == CoverInv /\ [Next]_vars => CoverInv'
<1> SUFFICES ASSUME CoverInv, [Next]_vars PROVE CoverInv'
  OBVIOUS
<1>a. TypeOK'
  BY TypeStep DEF CoverInv
<1>r. syncs \in [Syncs -> SyncRow] /\ published \in [Sets -> Nat] /\ configVersion \in Nat
      /\ assigned \in [Sets -> SUBSET Products]
  BY DEF CoverInv, TypeOK, ClockTypeOK, SyncRow
<1>d. \A p \in Syncs : syncs[p] \in SyncRow /\ syncs[p].doc \in Document
  BY <1>r DEF SyncRow
<1>c. \A p \in Syncs : /\ syncs[p].doc.version <= configVersion
                       /\ Covered(syncs[p].pc, syncs[p].doc)
  BY DEF CoverInv
<1>1. CASE CloudChanges
  BY <1>1, <1>a, CoverCloud DEF CloudChanges, pluginVars
<1>2. CASE Connection \/ UNCHANGED vars
  <2>1. UNCHANGED <<clockVars, syncs, config>>
    BY <1>2 DEF Connection, CredentialRetired, OtherUnauthorized, ConnectBegins,
       ConnectCompletes, Disconnect, SchemaMoves, vars, pluginVars
  <2> QED BY <1>a, <2>1 DEF CoverInv, AbsentUnassigned, Covered, ListsAgree, TargetsAgree, clockVars
<1>3. ASSUME NEW p \in Syncs, NEW row, row \in {NoSync, [NoSync EXCEPT !.pc = "sent", !.tag = etag,
                                                                   !.seen = connState]},
             Moves(p, row), UNCHANGED <<clockVars, config>>
      PROVE  CoverInv'
  <2>1. row.doc.version = -1 /\ row.pc \in {"idle", "sent"}
    BY <1>3, NoDocumentType DEF SyncRow
  <2> QED BY <1>3, <1>a, <1>r, <2>1, CoverMove DEF Covered
<1>4. ASSUME NEW p \in Syncs, NEW pc \in Stage, Goto(p, pc), UNCHANGED clockVars,
             \/ pc \in {"unchanged", "build"} /\ config' = config
             \/ /\ syncs[p].pc \in {"answer", "meta", "index", "recover"}
                /\ pc \in {"meta", "index", "recover"}
                /\ config' = config \/ (config' = syncs[p].doc /\ syncs[p].pc = "answer")
      PROVE  CoverInv'
  <2> DEFINE row == [syncs[p] EXCEPT !.pc = pc]
  <2>1. Moves(p, row)
    BY <1>4, <1>r DEF Goto, Moves, SyncRow
  <2>2. row.pc = pc /\ row.doc = syncs[p].doc
    BY <1>d DEF SyncRow
  <2>3. row.doc.version <= configVersion /\ Covered(row.pc, row.doc)
    BY <1>4, <1>c, <2>2 DEF Covered
  <2> HIDE DEF row
  <2> QED BY <1>4, <1>a, <2>1, <2>3, CoverMove
<1>5. ASSUME NEW p \in Syncs, SyncStart(p) PROVE CoverInv'
  BY <1>3, <1>5 DEF SyncStart, Moves, pluginVars
<1>6. ASSUME NEW p \in Syncs, Answers(p) PROVE CoverInv'
  <2>1. CASE CheckVersion(p)
    BY <1>4, <2>1 DEF CheckVersion, Stage, pluginVars
  <2>2. CASE ReadStore(p)
    <3> DEFINE row == [syncs[p] EXCEPT !.pc = "list",
                                       !.doc = [syncs[p].doc EXCEPT !.version = configVersion]]
    <3>1. Moves(p, row)
      BY <2>2, <1>r, <1>d DEF ReadStore, Moves, SyncRow
    <3>2. row.pc = "list" /\ row.doc.version = configVersion
      BY <1>d DEF SyncRow, Document
    <3> HIDE DEF row
    <3>3. Covered(row.pc, row.doc) /\ row.doc.version <= configVersion
      BY <1>r, <3>2 DEF Covered
    <3> QED BY <1>a, <2>2, <3>1, <3>3, CoverMove DEF ReadStore, pluginVars
  <2>3. CASE ReadSets(p)
    <3> DEFINE row == [syncs[p] EXCEPT !.pc = "targets",
                                       !.doc = [syncs[p].doc EXCEPT !.list = published]]
    <3>1. Moves(p, row)
      BY <2>3, <1>r, <1>d DEF ReadSets, Moves, SyncRow
    <3>2. row.pc = "targets" /\ row.doc.version = syncs[p].doc.version /\ row.doc.list = published
      BY <1>d DEF SyncRow, Document
    <3> HIDE DEF row
    <3>3. Covered(row.pc, row.doc) /\ row.doc.version <= configVersion
      BY <1>c, <3>2 DEF Covered, ListsAgree
    <3> QED BY <1>a, <2>3, <3>1, <3>3, CoverMove DEF ReadSets, pluginVars
  <2>4. CASE ReadTargets(p)
    <3> DEFINE old == syncs[p].doc
               list(gone) == [s \in Sets |-> IF s \in gone THEN 0 ELSE old.list[s]]
               targets(gone, left) == [s \in Sets |-> IF list(gone)[s] = 0 THEN {}
                              ELSE IF published[s] = 0 THEN left[s] ELSE assigned[s]]
               row(gone, left) == [syncs[p] EXCEPT !.pc = "answer", !.doc =
                   [old EXCEPT !.list = list(gone), !.targets = targets(gone, left)]]
    <3>1. PICK gone \in SUBSET {s \in Sets : published[s] = 0},
               left \in [Sets -> SUBSET Products] : Moves(p, row(gone, left))
      BY <2>4 DEF ReadTargets, Moves
    <3>2. syncs[p].pc = "targets"
      BY <2>4 DEF ReadTargets
    <3>3. /\ row(gone, left).pc = "answer"
          /\ row(gone, left).doc.version = old.version
          /\ row(gone, left).doc.list = list(gone)
          /\ row(gone, left).doc.targets = targets(gone, left)
      BY <1>d DEF SyncRow, Document
    <3>4. ASSUME old.version = configVersion, NEW s \in Sets \ unannounced
          PROVE  list(gone)[s] = published[s] /\ targets(gone, left)[s] = assigned[s]
      <4>1. old.list[s] = published[s]
        BY <1>c, <3>2, <3>4 DEF Covered, ListsAgree
      <4>2. list(gone)[s] = published[s]
        BY <4>1
      <4> QED BY <4>2 DEF CoverInv, AbsentUnassigned
    <3> HIDE DEF list, targets, row
    <3>5. Covered(row(gone, left).pc, row(gone, left).doc)
      BY <3>3, <3>4 DEF Covered, ListsAgree, TargetsAgree
    <3>6. row(gone, left).doc.version <= configVersion
      BY <1>c, <3>3
    <3> QED BY <1>a, <2>4, <3>1, <3>5, <3>6, CoverMove DEF ReadTargets, pluginVars
  <2> QED BY <1>6, <2>1, <2>2, <2>3, <2>4 DEF Answers
<1>7. ASSUME NEW p \in Syncs, Receives(p) PROVE CoverInv'
  <2>1. CASE ReceiveNotModified(p) \/ ReceiveUnsupported(p)
    BY <1>3, <2>1 DEF ReceiveNotModified, ReceiveUnsupported, Done, Moves, pluginVars
  <2>2. CASE StoreConfig(p)
    BY <1>4, <2>2 DEF StoreConfig, Stage
  <2> QED BY <1>7, <2>1, <2>2 DEF Receives
<1>8. ASSUME NEW p \in Syncs, Writes(p) PROVE CoverInv'
  <2>1. CASE StoreMeta(p)
    BY <1>4, <2>1 DEF StoreMeta, Stage
  <2>2. CASE StoreIndex(p)
    BY <1>4, <2>2 DEF StoreIndex, Stage
  <2>3. CASE SyncEnds(p)
    BY <1>3, <2>3 DEF SyncEnds, Done, Moves, pluginVars
  <2> QED BY <1>8, <2>1, <2>2, <2>3 DEF Writes
<1>9. ASSUME NEW p \in Syncs, SyncUnauthorized(p) \/ SyncFails(p) \/ Crash(p) PROVE CoverInv'
  BY <1>3, <1>9 DEF SyncUnauthorized, SyncFails, Crash, Done, Moves, pluginVars
<1> QED BY <1>1, <1>2, <1>5, <1>6, <1>7, <1>8, <1>9 DEF Next

(* Every answer labelled with the current config version is the current document,
   however many syncs overlap and whatever commits between the builder's reads
   (ConfigDeliveryService.deliver takes the label from the document). *)
THEOREM AnswersCover == Spec => []AnswerCovers
<1>1. CoverInv => AnswerCovers
  BY DEF CoverInv, Covered, AnswerCovers
<1>2. CoverInv /\ [Next]_vars => CoverInv'
  BY CoverStep
<1> QED BY <1>1, <1>2, CoverInit, PTL DEF Spec
-----------------------------------------------------------------------------
(* What further holds while at most one request syncs: the cache is the answer
   being stored, the answer being fetched is no older, and the ETag is never newer. *)
OneSync == \A p, q \in Syncs : p = q

HeldInv ==
    /\ CoverInv
    /\ EtagNeverAhead
    /\ IndexMatches
    /\ \A p \in Syncs :
          /\ syncs[p].pc \in {"list", "targets", "answer"} => config.version <= syncs[p].doc.version
          /\ syncs[p].pc \in {"meta", "index"} => config = syncs[p].doc

LEMMA HeldInit == Init => HeldInv
<1> SUFFICES ASSUME Init PROVE HeldInv
  OBVIOUS
<1>1. CoverInv
  BY CoverInit
<1>2. /\ etag = -1 /\ config = NoDocument /\ index = IndexOf(config)
      /\ \A p \in Syncs : syncs[p].pc = "idle"
  BY NoDocumentType DEF Init, NoEtag
<1> QED BY <1>1, <1>2, NoDocumentType DEF HeldInv, EtagNeverAhead, IndexMatches

LEMMA HeldStep ==
  ASSUME OneSync, HeldInv, [Next]_vars
  PROVE  HeldInv' /\ (config' = config \/ config'.version >= config.version)
<1>a. CoverInv'
  BY CoverStep DEF HeldInv
<1>t. /\ syncs \in [Syncs -> SyncRow] /\ config \in Document
      /\ etag \in Int /\ configVersion \in Nat /\ config.version \in Int
      /\ config.version <= configVersion /\ crashes \in Nat
      /\ \A p \in Syncs : syncs[p] \in SyncRow /\ syncs[p].doc \in Document
                          /\ syncs[p].doc.version \in Int
  BY DEF HeldInv, CoverInv, TypeOK, ClockTypeOK, SyncRow, Document
<1> DEFINE Fetching(p) == syncs[p].pc \in {"list", "targets", "answer"}
           StoringBy(p) == syncs[p].pc \in {"meta", "index"}
<1>1. CASE UNCHANGED <<syncs, config, etag, index, crashes>>
  BY <1>1, <1>a DEF HeldInv, EtagNeverAhead, IndexMatches, Storing, IndexOf
<1>2. ASSUME NEW p \in Syncs, UNCHANGED <<config, etag, index, crashes>>,
             ~StoringBy(p)', Fetching(p)' => config.version <= syncs'[p].doc.version,
             ~StoringBy(p)
      PROVE  HeldInv'
  <2>1. \A q \in Syncs : q = p
    BY DEF OneSync
  <2>2. ~Storing /\ ~Storing'
    BY <1>2, <2>1 DEF Storing
  <2>3. IndexMatches'
    BY <1>2, <2>2 DEF HeldInv, IndexMatches, IndexOf
  <2> QED BY <1>2, <1>a, <2>1, <2>3 DEF HeldInv, EtagNeverAhead
<1>3. ASSUME NEW p \in Syncs, SyncStart(p) \/ CheckVersion(p) PROVE HeldInv'
  <2>1. syncs'[p].pc \in {"sent", "unchanged", "build"} /\ ~StoringBy(p)
    BY <1>3, <1>t DEF SyncStart, CheckVersion, Goto, NoSync, SyncRow
  <2> QED BY <1>2, <1>3, <2>1 DEF SyncStart, CheckVersion, pluginVars
<1>4. ASSUME NEW p \in Syncs, ReadStore(p) PROVE HeldInv'
  <2>1. syncs'[p].pc = "list" /\ syncs'[p].doc.version = configVersion /\ ~StoringBy(p)
    BY <1>4, <1>t DEF ReadStore, SyncRow, Document
  <2> QED BY <1>2, <1>4, <1>t, <2>1 DEF ReadStore, pluginVars
<1>5. ASSUME NEW p \in Syncs, ReadSets(p) \/ ReadTargets(p) PROVE HeldInv'
  <2>1. syncs'[p].pc \in {"targets", "answer"} /\ syncs'[p].doc.version = syncs[p].doc.version
    <3>1. CASE ReadSets(p)
      BY <3>1, <1>t DEF ReadSets, SyncRow, Document
    <3>2. CASE ReadTargets(p)
      BY <3>2, <1>t DEF ReadTargets, SyncRow, Document
    <3> QED BY <1>5, <3>1, <3>2
  <2>2. Fetching(p) /\ ~StoringBy(p)
    BY <1>5 DEF ReadSets, ReadTargets
  <2>3. config.version <= syncs[p].doc.version
    BY <2>2 DEF HeldInv
  <2> QED BY <1>2, <1>5, <2>1, <2>2, <2>3 DEF ReadSets, ReadTargets, pluginVars
<1>6. ASSUME NEW p \in Syncs, Done(p), UNCHANGED <<config, etag, index>>,
             \/ crashes' = crashes /\ ~StoringBy(p)
             \/ crashes' = crashes + 1
      PROVE  HeldInv'
  <2>1. \A q \in Syncs : q = p /\ syncs'[q].pc = "idle"
    BY <1>6, <1>t, NoDocumentType DEF OneSync, Done
  <2>2. IndexMatches'
    BY <1>6, <1>t, <2>1 DEF HeldInv, IndexMatches, Storing, IndexOf
  <2> QED BY <1>6, <1>a, <2>1, <2>2 DEF HeldInv, EtagNeverAhead
<1>7. ASSUME NEW p \in Syncs, StoreConfig(p)
      PROVE  HeldInv' /\ config'.version >= config.version
  <2>1. /\ syncs[p].pc = "answer" /\ config' = syncs[p].doc /\ UNCHANGED <<etag, index, crashes>>
        /\ syncs'[p].pc = "meta" /\ syncs'[p].doc = syncs[p].doc
    BY <1>7, <1>t DEF StoreConfig, Goto, SyncRow
  <2>2. config.version <= config'.version /\ config'.version \in Int /\ \A q \in Syncs : q = p
    BY <1>t, <2>1 DEF HeldInv, OneSync
  <2>3. IndexMatches'
    BY <2>1 DEF IndexMatches, Storing
  <2>4. EtagNeverAhead'
    BY <1>t, <2>1, <2>2 DEF HeldInv, EtagNeverAhead
  <2> QED BY <1>a, <1>t, <2>1, <2>2, <2>3, <2>4 DEF HeldInv
<1>8. ASSUME NEW p \in Syncs, StoreMeta(p) PROVE HeldInv'
  <2>1. /\ syncs[p].pc = "meta" /\ etag' = syncs[p].doc.version /\ UNCHANGED <<config, index, crashes>>
        /\ syncs'[p].pc = "index" /\ syncs'[p].doc = syncs[p].doc
    BY <1>8, <1>t DEF StoreMeta, Goto, SyncRow
  <2>2. config = syncs[p].doc /\ \A q \in Syncs : q = p
    BY <2>1 DEF HeldInv, OneSync
  <2>3. IndexMatches'
    BY <2>1 DEF IndexMatches, Storing
  <2>4. EtagNeverAhead'
    BY <1>t, <2>1, <2>2 DEF EtagNeverAhead
  <2> QED BY <1>a, <2>1, <2>2, <2>3, <2>4 DEF HeldInv
<1>9. ASSUME NEW p \in Syncs, StoreIndex(p) PROVE HeldInv'
  <2>1. /\ syncs[p].pc = "index" /\ index' = IndexOf(syncs[p].doc)
        /\ UNCHANGED <<config, etag, crashes>> /\ syncs'[p].pc = "recover"
    BY <1>9, <1>t DEF StoreIndex, Goto, SyncRow
  <2>2. config = syncs[p].doc /\ \A q \in Syncs : q = p
    BY <2>1 DEF HeldInv, OneSync
  <2>3. index' = IndexOf(config)'
    BY <2>1, <2>2 DEF IndexOf
  <2>4. IndexMatches'
    BY <2>3 DEF IndexMatches
  <2>5. EtagNeverAhead'
    BY <2>1 DEF HeldInv, EtagNeverAhead
  <2> QED BY <1>a, <2>1, <2>2, <2>4, <2>5 DEF HeldInv
<1>10. CASE CloudChanges \/ Connection \/ UNCHANGED vars
  <2>1. UNCHANGED <<syncs, config, etag, index, crashes>>
    BY <1>10 DEF CloudChanges, Connection, CredentialRetired, OtherUnauthorized, ConnectBegins,
       ConnectCompletes, Disconnect, SchemaMoves, vars, pluginVars
  <2> QED BY <1>1, <2>1
<1>11. ASSUME NEW p \in Syncs, SyncStart(p) \/ Answers(p)
       PROVE  HeldInv' /\ config' = config
  BY <1>3, <1>4, <1>5, <1>11 DEF Answers, SyncStart, CheckVersion, ReadStore, ReadSets,
     ReadTargets, pluginVars
<1>12. ASSUME NEW p \in Syncs, \/ ReceiveNotModified(p) \/ ReceiveUnsupported(p) \/ SyncEnds(p)
                               \/ SyncUnauthorized(p) \/ SyncFails(p) \/ Crash(p)
       PROVE  HeldInv' /\ config' = config
  BY <1>6, <1>12 DEF ReceiveNotModified, ReceiveUnsupported, SyncEnds, SyncUnauthorized,
     SyncFails, Crash, pluginVars
<1>13. ASSUME NEW p \in Syncs, StoreMeta(p) \/ StoreIndex(p) PROVE HeldInv' /\ config' = config
  BY <1>8, <1>9, <1>13 DEF StoreMeta, StoreIndex
<1> QED BY <1>1, <1>7, <1>10, <1>11, <1>12, <1>13
     DEF Next, Receives, Writes, CloudChanges, Connection, CredentialRetired, OtherUnauthorized,
     ConnectBegins, ConnectCompletes, Disconnect, SchemaMoves, vars, pluginVars

LEMMA HeldInvHolds ==
  ASSUME OneSync
  PROVE  Spec => []HeldInv
<1>1. HeldInv /\ [Next]_vars => HeldInv'
  BY HeldStep
<1> QED BY HeldInit, <1>1, PTL DEF Spec

(* With one sync at a time, a store whose ETag names the current version holds
   the current document, whatever failed or died before (Repository.store). *)
THEOREM HeldIsCurrent ==
  ASSUME OneSync
  PROVE  Spec => []HeldCovers
<1>1. HeldInv => HeldCovers
  <2> SUFFICES ASSUME HeldInv, etag = configVersion
               PROVE  ListsAgree(config) /\ TargetsAgree(config)
    BY DEF HeldCovers
  <2>t. config.version \in Int /\ configVersion \in Int
    BY DEF HeldInv, CoverInv, TypeOK, ClockTypeOK, Document
  <2>1. config.version = configVersion
    BY <2>t DEF HeldInv, CoverInv, EtagNeverAhead
  <2> QED BY <2>1 DEF HeldInv, CoverInv, Covered
<1> QED BY <1>1, HeldInvHolds, PTL

(* With one sync at a time, the ETag never claims a newer document than the one
   in the cache (Repository.store writes the document first). *)
THEOREM EtagIsNotAhead ==
  ASSUME OneSync
  PROVE  Spec => []EtagNeverAhead
<1>1. HeldInv => EtagNeverAhead
  BY DEF HeldInv
<1> QED BY <1>1, HeldInvHolds, PTL

(* The two together: with one sync at a time the ETag tells the truth about the
   cache, whatever failed or died before (Repository.store). *)
THEOREM EtagIsTruthful ==
  ASSUME OneSync
  PROVE  Spec => []EtagTruthful
<1>1. HeldCovers /\ EtagNeverAhead => EtagTruthful
  BY DEF EtagTruthful
<1>2. Spec => [](HeldCovers /\ EtagNeverAhead)
  BY HeldIsCurrent, EtagIsNotAhead, PTL
<1> QED BY <1>1, <1>2, PTL

(* With one sync at a time, the product index is the document's whenever no
   store() is part way through and no request has died (Repository.store). *)
THEOREM IndexIsCurrent ==
  ASSUME OneSync
  PROVE  Spec => []IndexMatches
<1>1. HeldInv => IndexMatches
  BY DEF HeldInv
<1> QED BY <1>1, HeldInvHolds, PTL

(* With one sync at a time, the cache never goes back to an older document. *)
THEOREM HeldIsMonotonic ==
  ASSUME OneSync
  PROVE  Spec => HeldNeverRegresses
<1>1. HeldInv /\ [Next]_vars => [config'.version >= config.version]_vars
  <2> SUFFICES ASSUME HeldInv, [Next]_vars PROVE config'.version >= config.version
    OBVIOUS
  <2>1. config.version \in Int
    BY DEF HeldInv, CoverInv, TypeOK, Document
  <2> QED BY <2>1, HeldStep
<1> QED BY <1>1, HeldInvHolds, PTL DEF Spec, HeldNeverRegresses
=============================================================================
