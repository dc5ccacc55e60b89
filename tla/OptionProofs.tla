---------------------------- MODULE OptionProofs -----------------------------
(***************************************************************************)
(* Theorems about an option set from both ends: what its authors publish    *)
(* (OptionSets, for every number of sets, targets and requests) and what a  *)
(* buyer is charged under it (Rules, Engine and Storefront, for every set   *)
(* of documents, prices and answers).                                       *)
(***************************************************************************)
EXTENDS OptionSets, Storefront, ListProofs

-----------------------------------------------------------------------------
(* Authoring, publishing and deleting.                                      *)
(* A request in flight is about a set. *)
JobOK == \A c \in Clients : jobs[c].pc # "idle" => jobs[c].set \in Sets

JobsOK == jobs \in [Clients -> Job] /\ JobOK

LEMMA BeginOK ==
  ASSUME JobsOK, NEW c \in Clients, NEW j \in Job, j.set \in Sets, Begin(c, j)
  PROVE  JobsOK'
  BY DEF JobsOK, JobOK, Begin

LEMMA EndOK ==
  ASSUME JobsOK, NEW c \in Clients, End(c)
  PROVE  JobsOK'
<1>1. NoJob \in Job /\ NoJob.pc = "idle"
  BY DEF NoJob, Job
<1> QED BY <1>1 DEF JobsOK, JobOK, End

LEMMA BumpOK ==
  ASSUME TypeOK, NEW s \in Sets, NEW v, Bump \/ BumpIfVisible(s, v)
  PROVE  configVersion' \in Nat /\ unannounced' \in SUBSET Sets
  BY DEF TypeOK, Bump, BumpIfVisible

LEMMA TypeInit == Init => TypeOK /\ JobOK
  BY NoSetAssumption DEF Init, TypeOK, JobOK, Row, Job, NoJob

LEMMA TypeStep == TypeOK /\ JobOK /\ [Next]_vars => TypeOK' /\ JobOK'
<1> SUFFICES ASSUME TypeOK, JobOK, [Next]_vars PROVE TypeOK' /\ JobOK'
  OBVIOUS
<1>a. JobsOK /\ (JobsOK' => jobs' \in [Clients -> Job] /\ JobOK')
  BY DEF TypeOK, JobsOK
<1>b. \A s \in Sets : sets[s] \in Row
  BY DEF TypeOK
<1>c. \A c \in Clients : jobs[c] \in Job /\ (jobs[c].pc # "idle" => jobs[c].set \in Sets)
  BY DEF TypeOK, JobOK
<1>1. ASSUME NEW s \in Sets, Create(s) PROVE TypeOK' /\ JobOK'
  BY <1>1 DEF Create, Row, TypeOK, JobOK
<1>2. ASSUME NEW c \in Clients, Begins(c) PROVE TypeOK' /\ JobOK'
  <2>1. PICK s \in Sets : EditChild(c, s) \/ Review(c, s) \/ PurgeRead(c, s) \/ AssignRead(c, s)
    BY <1>2 DEF Begins
  <2>2. CASE EditChild(c, s)
    <3>1. [NoJob EXCEPT !.pc = "touch", !.set = s] \in Job
      BY DEF NoJob, Job
    <3>2. JobsOK'
      BY <1>a, <2>2, <3>1, BeginOK DEF EditChild, NoJob
    <3>3. [sets[s] EXCEPT !.draft = @ + 1] \in Row
      BY <1>b DEF Row
    <3> QED BY <1>a, <2>2, <3>2, <3>3 DEF EditChild, TypeOK
  <2>3. CASE Review(c, s)
    <3>1. PICK sent \in {0, sets[s].rowVersion} :
            Begin(c, [NoJob EXCEPT !.pc = "reviewed", !.set = s, !.expect = sent,
                                   !.reviewed = sets[s].draft])
      BY <2>3 DEF Review
    <3>a. sent \in Nat /\ sets[s].draft \in Nat
      BY <1>b DEF Row
    <3>2. [NoJob EXCEPT !.pc = "reviewed", !.set = s, !.expect = sent,
                        !.reviewed = sets[s].draft] \in Job
      BY <3>a DEF NoJob, Job
    <3>3. JobsOK'
      BY <1>a, <3>1, <3>2, BeginOK DEF NoJob
    <3> QED BY <1>a, <2>3, <3>3 DEF Review, TypeOK
  <2>4. CASE PurgeRead(c, s)
    <3>1. [NoJob EXCEPT !.pc = "purge", !.set = s, !.wasVisible = Visible(s)] \in Job
      BY DEF NoJob, Job, Visible, Live
    <3>2. JobsOK'
      BY <1>a, <2>4, <3>1, BeginOK DEF PurgeRead, NoJob
    <3> QED BY <1>a, <2>4, <3>2 DEF PurgeRead, TypeOK
  <2>5. CASE AssignRead(c, s)
    <3>1. [NoJob EXCEPT !.pc = "assign", !.set = s] \in Job
      BY DEF NoJob, Job
    <3>2. JobsOK'
      BY <1>a, <2>5, <3>1, BeginOK DEF AssignRead, NoJob
    <3> QED BY <1>a, <2>5, <3>2 DEF AssignRead, TypeOK
  <2> QED BY <2>1, <2>2, <2>3, <2>4, <2>5
<1>3. ASSUME NEW c \in Clients, Reads(c) PROVE TypeOK' /\ JobOK'
  <2>1. CASE PublishReadRow(c)
    BY <2>1 DEF PublishReadRow, Job, TypeOK, JobOK
  <2>2. CASE PublishReadTree(c)
    <3>1. jobs[c] \in Job /\ jobs[c].pc = "row" /\ jobs[c].set \in Sets
      BY <2>2 DEF PublishReadTree, TypeOK, JobOK
    <3>2. PICK k \in Nat : k = sets[jobs[c].set].draft
      BY <3>1 DEF TypeOK, Row
    <3>3. jobs' = [jobs EXCEPT ![c] = [[jobs[c] EXCEPT !.pc = "publish"] EXCEPT !.content = k]]
      BY <2>2, <3>2 DEF PublishReadTree, TypeOK
    <3>4. PICK j : j = [[jobs[c] EXCEPT !.pc = "publish"] EXCEPT !.content = k]
      OBVIOUS
    <3>5. j \in Job /\ j.pc = "publish" /\ j.set = jobs[c].set
      BY <3>1, <3>2, <3>4 DEF Job
    <3>6. jobs' = [jobs EXCEPT ![c] = j]
      BY <3>3, <3>4
    <3> QED BY <2>2, <3>1, <3>5, <3>6 DEF PublishReadTree, TypeOK, JobOK
  <2>3. CASE RollbackRead(c)
    <3>1. PICK old \in snapshots[jobs[c].set] :
            jobs' = [jobs EXCEPT ![c].pc = "rollback", ![c].content = old.content]
      BY <2>3 DEF RollbackRead
    <3>2. old.content \in Nat
      BY <1>c, <2>3 DEF RollbackRead, TypeOK, Snapshot
    <3>3. [jobs[c] EXCEPT !.pc = "rollback", !.content = old.content] \in Job
      BY <1>c, <3>2 DEF Job
    <3>4. jobs' = [jobs EXCEPT ![c] = [jobs[c] EXCEPT !.pc = "rollback", !.content = old.content]]
      BY <3>1, <1>a DEF JobsOK
    <3> QED BY <1>c, <2>3, <3>3, <3>4 DEF RollbackRead, TypeOK, JobOK, Job
  <2>4. CASE RemoveRead(c)
    <3> DEFINE visible == sets[jobs[c].set].status = "published"
    <3>1. [jobs[c] EXCEPT !.pc = "remove", !.wasVisible = visible] \in Job
      BY <1>c DEF Job
    <3>2. jobs' = [jobs EXCEPT ![c] = [jobs[c] EXCEPT !.pc = "remove", !.wasVisible = visible]]
      BY <2>4, <1>a DEF RemoveRead, JobsOK
    <3> QED BY <1>c, <2>4, <3>1, <3>2 DEF RemoveRead, TypeOK, JobOK, Job
  <2> QED BY <1>3, <2>1, <2>2, <2>3, <2>4 DEF Reads
<1>4. ASSUME NEW c \in Clients, TouchSet(c) PROVE TypeOK' /\ JobOK'
  <2>1. JobsOK'
    BY <1>a, <1>4, EndOK DEF TouchSet
  <2>2. jobs[c].set \in Sets
    BY <1>c, <1>4 DEF TouchSet
  <2>3. [sets[jobs[c].set] EXCEPT !.rowVersion = @ + 1] \in Row
    BY <1>b, <2>2 DEF Row
  <2> QED BY <1>a, <1>4, <2>1, <2>2, <2>3 DEF TouchSet, TypeOK
<1>5. ASSUME NEW c \in Clients, Rename(c) PROVE TypeOK' /\ JobOK'
  <2>1. JobsOK'
    BY <1>a, <1>5, EndOK DEF Rename
  <2>2. jobs[c].set \in Sets
    BY <1>c, <1>5 DEF Rename
  <2>3. sets' \in [Sets -> Row]
    BY <1>b, <1>5, <2>2 DEF Rename, Row, TypeOK
  <2> QED BY <1>a, <1>5, <2>1, <2>3 DEF Rename, TypeOK
<1>6. ASSUME NEW c \in Clients, CommitVersion(c) PROVE TypeOK' /\ JobOK'
  <2> DEFINE s == jobs[c].set
  <2>1. JobsOK'
    BY <1>a, <1>6, EndOK DEF CommitVersion
  <2>2. s \in Sets
    BY <1>c, <1>6 DEF CommitVersion
  <2>3. configVersion' \in Nat /\ unannounced' \in SUBSET Sets
    BY <1>6, <2>2, BumpOK DEF CommitVersion
  <2>4. NextVersion(s) \in Nat /\ jobs[c].content \in Nat
    BY <1>b, <1>c, <2>2 DEF NextVersion, Row, Job
  <2>5. sets[s].rowVersion + 1 \in Nat
    BY <1>b, <2>2 DEF Row
  <2>6. sets' \in [Sets -> Row]
    BY <1>6, <2>2, <2>3, <2>4, <2>5 DEF CommitVersion, TypeOK, Row
  <2>7. [version |-> NextVersion(s), content |-> jobs[c].content] \in Snapshot
    BY <2>4 DEF Snapshot
  <2>8. snapshots' \in [Sets -> SUBSET Snapshot]
    BY <1>6, <2>2, <2>7 DEF CommitVersion, TypeOK
  <2> QED BY <1>a, <1>6, <2>1, <2>3, <2>6, <2>8 DEF CommitVersion, TypeOK
<1>7. ASSUME NEW c \in Clients, RemoveCommit(c) PROVE TypeOK' /\ JobOK'
  <2> DEFINE s == jobs[c].set
  <2>1. JobsOK'
    BY <1>a, <1>7, EndOK DEF RemoveCommit
  <2>2. s \in Sets
    BY <1>c, <1>7 DEF RemoveCommit
  <2>3. configVersion' \in Nat /\ unannounced' \in SUBSET Sets
    BY <1>7, <2>2, BumpOK DEF RemoveCommit
  <2>4. sets' \in [Sets -> Row]
    BY <1>b, <1>7, <2>2 DEF RemoveCommit, Row, TypeOK
  <2> QED BY <1>a, <1>7, <2>1, <2>2, <2>3, <2>4 DEF RemoveCommit, TypeOK
<1>8. ASSUME NEW c \in Clients, PurgeCommit(c) PROVE TypeOK' /\ JobOK'
  <2> DEFINE s == jobs[c].set
  <2>1. JobsOK'
    BY <1>a, <1>8, EndOK DEF PurgeCommit
  <2>2. s \in Sets
    BY <1>c, <1>8 DEF PurgeCommit
  <2>3. configVersion' \in Nat /\ unannounced' \in SUBSET Sets
    BY <1>8, <2>2, BumpOK DEF PurgeCommit
  <2>4. sets' \in [Sets -> Row]
    BY <1>b, <1>8, <2>2 DEF PurgeCommit, Row, TypeOK
  <2> QED BY <1>a, <1>8, <2>1, <2>2, <2>3, <2>4 DEF PurgeCommit, TypeOK
<1>9. ASSUME NEW c \in Clients, NEW ps \in SUBSET Products, Assign(c, ps) \/ Unassign(c, ps)
      PROVE TypeOK' /\ JobOK'
  <2>1. JobsOK'
    BY <1>a, <1>9, EndOK DEF Assign, Unassign
  <2>2. jobs[c].set \in Sets
    BY <1>c, <1>9 DEF Assign, Unassign
  <2>3. configVersion' \in Nat /\ unannounced' \in SUBSET Sets
    BY <1>9, <2>2, BumpOK DEF Assign, Unassign
  <2> QED BY <1>a, <1>9, <2>1, <2>2, <2>3 DEF Assign, Unassign, TypeOK
<1>10. ASSUME NEW c \in Clients, Fail(c) PROVE TypeOK' /\ JobOK'
  <2>1. JobsOK'
    BY <1>a, <1>10, EndOK DEF Fail
  <2> QED BY <1>a, <1>10, <2>1 DEF Fail, TypeOK
<1>11. CASE UNCHANGED vars
  BY <1>11 DEF vars, TypeOK, JobOK
<1> QED
  BY <1>1, <1>2, <1>3, <1>4, <1>5, <1>6, <1>7, <1>8, <1>9, <1>10, <1>11 DEF Next, Writes

(* Every row, job and counter keeps its type: what a request has read is always
   something a request can have read. *)
THEOREM TypeCorrect == Spec => []TypeOK
<1>1. TypeOK /\ JobOK /\ [Next]_vars => TypeOK' /\ JobOK'
  BY TypeStep
<1> QED BY TypeInit, <1>1, PTL DEF Spec
-----------------------------------------------------------------------------
(* A set is published from its first version on, and was never published
   before it was created.  Without it HistoryComplete is not inductive (Create
   starts at version 0 with whatever snapshots are there), nor is the mapping
   to ConfigClock a mapping (a first publish must be a step from 0). *)
LifeOK ==
    \A s \in Sets : /\ sets[s].status = "draft" <=> sets[s].version = 0
                    /\ sets[s].state = "absent" => sets[s].status = "draft"

(* No set was published under a config version the store has not reached. *)
VersionsReached == \A s \in Sets : sets[s].publishedConfigVersion <= configVersion

IInv == /\ TypeOK
        /\ JobOK
        /\ LifeOK
        /\ HistoryComplete
        /\ PurgeLeavesNothing
        /\ VersionsReached
        /\ ConfigVersionsDistinct

LEMMA IInvInit == Init => IInv
<1> SUFFICES ASSUME Init PROVE IInv
  OBVIOUS
<1>1. TypeOK /\ JobOK
  BY TypeInit
<1>2. LifeOK /\ VersionsReached /\ ConfigVersionsDistinct /\ PurgeLeavesNothing
  BY DEF Init, LifeOK, VersionsReached, ConfigVersionsDistinct, PurgeLeavesNothing, Visible, Live
<1>3. HistoryComplete
  BY DEF Init, HistoryComplete
<1> QED BY <1>1, <1>2, <1>3 DEF IInv

(* The steps that leave every set's life, version and history alone. *)
LEMMA QuietStep ==
  ASSUME IInv, TypeOK', JobOK', UNCHANGED <<snapshots, targets, configVersion>>,
         \A s \in Sets : /\ sets'[s].state = sets[s].state
                         /\ sets'[s].status = sets[s].status
                         /\ sets'[s].version = sets[s].version
                         /\ sets'[s].publishedConfigVersion = sets[s].publishedConfigVersion
  PROVE  IInv'
<1>1. LifeOK' /\ VersionsReached' /\ PurgeLeavesNothing'
  BY DEF IInv, LifeOK, VersionsReached, PurgeLeavesNothing
<1>2. HistoryComplete'
  BY DEF IInv, HistoryComplete
<1>3. ConfigVersionsDistinct'
  BY DEF IInv, ConfigVersionsDistinct, Visible, Live
<1> QED BY <1>1, <1>2, <1>3 DEF IInv

LEMMA CommitStep ==
  ASSUME IInv, TypeOK', JobOK', NEW c \in Clients, CommitVersion(c)
  PROVE  IInv'
<1> DEFINE s == jobs[c].set
           v == sets[s].version
<1>1. s \in Sets
  BY DEF IInv, JobOK, CommitVersion
<1>2. v \in Nat /\ configVersion \in Nat /\ sets[s] \in Row
  BY <1>1 DEF IInv, TypeOK, Row
<1>3. /\ sets' = [sets EXCEPT ![s].status = "published", ![s].version = v + 1,
                              ![s].publishedConfigVersion = configVersion',
                              ![s].rowVersion = @ + 1]
      /\ snapshots' = [snapshots EXCEPT
             ![s] = @ \cup {[version |-> v + 1, content |-> jobs[c].content]}]
      /\ targets' = targets
      /\ configVersion' = configVersion + 1
      /\ Live(s)
  BY DEF CommitVersion, NextVersion, Bump
<1>4. /\ sets'[s].status = "published" /\ sets'[s].version = v + 1
      /\ sets'[s].state = "live" /\ sets'[s].publishedConfigVersion = configVersion + 1
      /\ \A t \in Sets : t # s => sets'[t] = sets[t]
  <2>1. sets \in [Sets -> Row]
    BY DEF IInv, TypeOK
  <2>2. sets' = [sets EXCEPT ![s] = [sets[s] EXCEPT
            !.status = "published", !.version = v + 1,
            !.publishedConfigVersion = configVersion', !.rowVersion = sets[s].rowVersion + 1]]
    BY <1>1, <1>3, <2>1
  <2>3. \A t \in Sets : t # s => sets'[t] = sets[t]
    BY <1>1, <2>1, <2>2
  <2>4. sets'[s] = [sets[s] EXCEPT
            !.status = "published", !.version = v + 1,
            !.publishedConfigVersion = configVersion', !.rowVersion = sets[s].rowVersion + 1]
    BY <1>1, <2>1, <2>2
  <2>5. /\ sets'[s].status = "published" /\ sets'[s].version = v + 1
        /\ sets'[s].state = sets[s].state
        /\ sets'[s].publishedConfigVersion = configVersion'
    BY <1>2, <2>4 DEF Row
  <2> QED BY <1>3, <2>3, <2>5 DEF Live
<1>5. LifeOK'
  BY <1>1, <1>2, <1>4 DEF IInv, LifeOK
<1>6. VersionsReached'
  <2>1. \A t \in Sets : /\ sets[t].publishedConfigVersion \in Nat
                        /\ sets[t].publishedConfigVersion <= configVersion
    BY DEF IInv, VersionsReached, TypeOK, Row
  <2>2. configVersion' = configVersion + 1
    BY <1>3
  <2>3. ASSUME NEW t \in Sets PROVE sets'[t].publishedConfigVersion <= configVersion'
    BY <1>2, <1>4, <2>1, <2>2
  <2> QED BY <2>3 DEF VersionsReached
<1>7. ConfigVersionsDistinct'
  <2>1. \A t \in Sets : t # s => sets'[t].publishedConfigVersion < configVersion + 1
    BY <1>2, <1>4 DEF IInv, VersionsReached, TypeOK, Row
  <2>2. \A t, u \in Sets : t # s /\ u # s /\ t # u /\ Visible(t)' /\ Visible(u)' =>
            sets'[t].publishedConfigVersion # sets'[u].publishedConfigVersion
    BY <1>4 DEF IInv, ConfigVersionsDistinct, Visible, Live
  <2> QED BY <1>1, <1>2, <1>4, <2>1, <2>2 DEF ConfigVersionsDistinct
<1>8. PurgeLeavesNothing'
  BY <1>1, <1>3, <1>4 DEF IInv, PurgeLeavesNothing, TypeOK
<1>9. HistoryComplete'
  <2>1. ASSUME NEW t \in Sets, sets'[t].state # "purged", t # s
        PROVE  /\ {x.version : x \in snapshots'[t]} = 1 .. sets'[t].version
               /\ \A x, y \in snapshots'[t] : x.version = y.version => x = y
    <3>1. snapshots'[t] = snapshots[t] /\ sets'[t] = sets[t]
      BY <2>1, <1>1, <1>3, <1>4 DEF IInv, TypeOK
    <3> QED BY <2>1, <3>1 DEF IInv, HistoryComplete
  <2>2. /\ {x.version : x \in snapshots[s]} = 1 .. v
        /\ \A x, y \in snapshots[s] : x.version = y.version => x = y
    BY <1>1, <1>3 DEF IInv, HistoryComplete, Live
  <2> DEFINE new == [version |-> v + 1, content |-> jobs[c].content]
  <2>3. snapshots'[s] = snapshots[s] \cup {new}
    BY <1>1, <1>3 DEF IInv, TypeOK
  <2>4. {x.version : x \in snapshots'[s]} = 1 .. v + 1
    <3> HIDE DEF new
    <3>a. new.version = v + 1
      BY DEF new
    <3>1. {x.version : x \in snapshots'[s]} = {x.version : x \in snapshots[s]} \cup {v + 1}
      BY <2>3, <3>a
    <3>2. 1 .. v + 1 = (1 .. v) \cup {v + 1}
      BY <1>2
    <3> QED BY <2>2, <3>1, <3>2
  <2>5. \A x \in snapshots[s] : x.version # v + 1
    <3>1. \A x \in snapshots[s] : x.version \in 1 .. v
      BY <2>2
    <3> QED BY <1>2, <3>1
  <2>6. \A x, y \in snapshots'[s] : x.version = y.version => x = y
    BY <2>2, <2>3, <2>5
  <2> QED BY <1>4, <2>1, <2>4, <2>6 DEF HistoryComplete
<1> QED BY <1>5, <1>6, <1>7, <1>8, <1>9 DEF IInv

LEMMA LeaveStep ==
  ASSUME IInv, TypeOK', JobOK', NEW c \in Clients, RemoveCommit(c) \/ PurgeCommit(c)
  PROVE  IInv'
<1> DEFINE s == jobs[c].set
<1>1. s \in Sets
  BY DEF IInv, JobOK, RemoveCommit, PurgeCommit
<1>2. configVersion' \in {configVersion, configVersion + 1}
  BY DEF RemoveCommit, PurgeCommit, BumpIfVisible, Bump
<1>3. /\ sets'[s].state \in {"deleted", "purged"}
      /\ sets'[s].status = sets[s].status
      /\ sets'[s].version = sets[s].version
      /\ sets'[s].publishedConfigVersion = sets[s].publishedConfigVersion
      /\ \A t \in Sets : t # s => sets'[t] = sets[t]
  BY <1>1 DEF IInv, TypeOK, Row, RemoveCommit, PurgeCommit
<1>4. /\ targets'[s] = {}
      /\ \A t \in Sets : t # s => targets'[t] = targets[t] /\ snapshots'[t] = snapshots[t]
  BY <1>1 DEF IInv, TypeOK, RemoveCommit, PurgeCommit
<1>5. /\ sets'[s].state = "purged" /\ snapshots'[s] = {}
      \/ /\ sets'[s].state = "deleted" /\ sets[s].state = "live"
         /\ snapshots'[s] = snapshots[s]
  BY <1>1 DEF IInv, TypeOK, Row, RemoveCommit, PurgeCommit, Live
<1>6. LifeOK'
  BY <1>1, <1>3, <1>5 DEF IInv, LifeOK
<1>7. VersionsReached'
  BY <1>1, <1>2, <1>3 DEF IInv, VersionsReached, TypeOK, Row
<1>8. ConfigVersionsDistinct'
  BY <1>1, <1>3 DEF IInv, ConfigVersionsDistinct, Visible, Live
<1>9. PurgeLeavesNothing'
  BY <1>1, <1>3, <1>4, <1>5 DEF IInv, PurgeLeavesNothing
<1>10. HistoryComplete'
  BY <1>1, <1>3, <1>4, <1>5 DEF IInv, HistoryComplete
<1> QED BY <1>6, <1>7, <1>8, <1>9, <1>10 DEF IInv

LEMMA TargetStep ==
  ASSUME IInv, TypeOK', JobOK', NEW c \in Clients, NEW ps \in SUBSET Products,
         Assign(c, ps) \/ Unassign(c, ps)
  PROVE  IInv'
<1>1. /\ jobs[c].set \in Sets
      /\ UNCHANGED <<sets, snapshots>>
      /\ configVersion' = configVersion + 1
  BY DEF IInv, JobOK, Assign, Unassign, Bump
<1>2. \A s \in Sets : sets[s].state = "purged" => targets'[s] = {}
  BY <1>1 DEF IInv, PurgeLeavesNothing, TypeOK, Assign, Unassign
<1>3. LifeOK' /\ PurgeLeavesNothing' /\ ConfigVersionsDistinct'
  BY <1>1, <1>2 DEF IInv, LifeOK, PurgeLeavesNothing, ConfigVersionsDistinct, Visible, Live
<1>4. VersionsReached'
  BY <1>1 DEF IInv, VersionsReached, TypeOK, Row
<1>5. HistoryComplete'
  BY <1>1 DEF IInv, HistoryComplete
<1> QED BY <1>3, <1>4, <1>5 DEF IInv

LEMMA IInvStep == IInv /\ [Next]_vars => IInv'
<1> SUFFICES ASSUME IInv, [Next]_vars PROVE IInv'
  OBVIOUS
<1>a. TypeOK' /\ JobOK'
  BY TypeStep DEF IInv
<1>1. ASSUME NEW s \in Sets, Create(s) PROVE IInv'
  <2>1. /\ sets[s].version = 0 /\ sets[s].state = "absent"
        /\ sets'[s] = [state |-> "live", status |-> "draft", version |-> 0,
                       rowVersion |-> 1, draft |-> 1, publishedConfigVersion |-> 0]
        /\ \A t \in Sets : t # s => sets'[t] = sets[t]
        /\ UNCHANGED <<snapshots, targets, configVersion>>
    BY <1>1 DEF Create, IInv, LifeOK, TypeOK
  <2>2. LifeOK' /\ PurgeLeavesNothing' /\ ConfigVersionsDistinct'
    BY <2>1 DEF IInv, LifeOK, PurgeLeavesNothing, ConfigVersionsDistinct, Visible, Live
  <2>3. VersionsReached'
    BY <2>1 DEF IInv, VersionsReached, TypeOK
  <2>4. HistoryComplete'
    BY <2>1 DEF IInv, HistoryComplete
  <2> QED BY <1>a, <2>2, <2>3, <2>4 DEF IInv
<1>2. ASSUME NEW c \in Clients, Begins(c) PROVE IInv'
  <2>1. PICK s \in Sets : EditChild(c, s) \/ Review(c, s) \/ PurgeRead(c, s) \/ AssignRead(c, s)
    BY <1>2 DEF Begins
  <2>2. CASE EditChild(c, s)
    BY <1>a, <2>2, QuietStep DEF EditChild, IInv, TypeOK, Row
  <2> QED BY <1>a, <2>1, <2>2, QuietStep DEF Review, PurgeRead, AssignRead
<1>3. ASSUME NEW c \in Clients, Reads(c) \/ Fail(c) PROVE IInv'
  BY <1>a, <1>3, QuietStep
     DEF Reads, PublishReadRow, PublishReadTree, RollbackRead, RemoveRead, Fail
<1>4. ASSUME NEW c \in Clients, TouchSet(c) \/ Rename(c) PROVE IInv'
  <2>1. UNCHANGED <<snapshots, targets, configVersion>>
    BY <1>4 DEF TouchSet, Rename
  <2>2. /\ sets \in [Sets -> Row]
        /\ \/ sets' = sets
           \/ sets' = [sets EXCEPT ![jobs[c].set].rowVersion = @ + 1]
           \/ sets' = [sets EXCEPT ![jobs[c].set].draft = @ + 1, ![jobs[c].set].rowVersion = @ + 1]
    BY <1>4 DEF TouchSet, Rename, IInv, TypeOK
  <2>3. \A s \in Sets : /\ sets'[s].state = sets[s].state /\ sets'[s].status = sets[s].status
                         /\ sets'[s].version = sets[s].version
                         /\ sets'[s].publishedConfigVersion = sets[s].publishedConfigVersion
    BY <2>2 DEF Row
  <2> QED BY <1>a, <2>1, <2>3, QuietStep
<1>5. CASE UNCHANGED vars
  BY <1>a, <1>5, QuietStep DEF vars
<1> QED
  BY <1>a, <1>1, <1>2, <1>3, <1>4, <1>5, CommitStep, LeaveStep, TargetStep DEF Next, Writes

LEMMA IInvHolds == Spec => []IInv
  BY IInvInit, IInvStep, PTL DEF Spec

(* However many publishes, rollbacks, deletes and erasures overlap, a set has one
   snapshot for every version it was ever published at (PublishService). *)
THEOREM HistoryIsComplete == Spec => []HistoryComplete
<1>1. IInv => HistoryComplete
  BY DEF IInv
<1> QED BY <1>1, IInvHolds, PTL

(* No two sets of a store are published under one config version
   (ConfigVersionService.bump). *)
THEOREM VersionsAreDistinct == Spec => []ConfigVersionsDistinct
<1>1. IInv => ConfigVersionsDistinct
  BY DEF IInv
<1> QED BY <1>1, IInvHolds, PTL

(* A request that found a set live before it was erased cannot leave a snapshot
   or an assignment behind (HardDeleteService.purge). *)
THEOREM PurgeIsClean == Spec => []PurgeLeavesNothing
<1>1. IInv => PurgeLeavesNothing
  BY DEF IInv
<1> QED BY <1>1, IInvHolds, PTL

(* The three together: whatever requests overlap, the record of what was published
   is complete and numbered apart, and of an erased set there is none
   (PublishService, ConfigVersionService.bump, HardDeleteService.purge). *)
THEOREM HistoriesAreSound == Spec => []HistorySound
<1>1. IInv => HistorySound
  BY DEF IInv, HistorySound
<1> QED BY <1>1, IInvHolds, PTL

LEMMA HistoryStep ==
  ASSUME TypeOK, JobOK, [Next]_vars
  PROVE  \A s \in Sets : snapshots[s] \subseteq snapshots'[s] \/ sets'[s].state = "purged"
<1>t. /\ sets \in [Sets -> Row] /\ DOMAIN snapshots = Sets
      /\ \A c \in Clients : jobs[c].pc # "idle" => jobs[c].set \in Sets
  BY DEF TypeOK, JobOK
<1>1. CASE UNCHANGED snapshots
  BY <1>1
<1>2. ASSUME NEW c \in Clients, CommitVersion(c)
      PROVE  \A s \in Sets : snapshots[s] \subseteq snapshots'[s]
  BY <1>t, <1>2 DEF CommitVersion
<1>3. ASSUME NEW c \in Clients, PurgeCommit(c)
      PROVE  \A s \in Sets : snapshots[s] \subseteq snapshots'[s] \/ sets'[s].state = "purged"
  <2>1. /\ jobs[c].set \in Sets
        /\ snapshots' = [snapshots EXCEPT ![jobs[c].set] = {}]
        /\ sets' = [sets EXCEPT ![jobs[c].set].state = "purged"]
    BY <1>t, <1>3 DEF PurgeCommit
  <2>2. sets'[jobs[c].set].state = "purged"
    BY <1>t, <2>1 DEF Row
  <2> QED BY <1>t, <2>1, <2>2
<1>4. [Next]_vars => \/ UNCHANGED snapshots
                     \/ \E c \in Clients : CommitVersion(c) \/ PurgeCommit(c)
  BY DEF Next, Writes, vars, Create, EditChild, TouchSet, Review, Rename, PublishReadRow,
         PublishReadTree, RollbackRead, RemoveRead, RemoveCommit, PurgeRead, AssignRead,
         Assign, Unassign, Fail, Begins, Reads
<1> QED BY <1>1, <1>2, <1>3, <1>4

(* No step changes or drops a snapshot of a set that is not erased by it
   (PublishService.publish and rollback, CascadeService). *)
THEOREM HistoryIsImmutable == Spec => HistoryImmutable
<1>1. IInv /\ [Next]_vars
        => [\A s \in Sets : snapshots[s] \subseteq snapshots'[s] \/ sets'[s].state = "purged"]_vars
  BY HistoryStep DEF IInv
<1> QED BY <1>1, IInvHolds, PTL DEF Spec, HistoryImmutable
-----------------------------------------------------------------------------
(* The refinement: what a storefront can see of each set. *)
Published == [s \in Sets |-> IF Visible(s) THEN sets[s].version ELSE 0]

Assigned == [s \in Sets |-> IF Visible(s) THEN targets[s] ELSE {}]

LEMMA ClockInitOK == Init => Clock!ClockInit
  BY DEF Init, Clock!ClockInit, Visible, Live

LEMMA ClockStutter ==
  ASSUME UNCHANGED <<configVersion, unannounced, Published, Assigned>>
  PROVE  [Clock!ClockNext]_Clock!clockVars
  BY DEF Clock!clockVars, Published, Assigned

(* Rows that keep what the document shows of them leave the clock alone. *)
LEMMA ClockQuiet ==
  ASSUME UNCHANGED <<targets, configVersion, unannounced>>,
         \A s \in Sets : /\ Visible(s)' <=> Visible(s)
                         /\ Visible(s) => sets'[s].version = sets[s].version
  PROVE  [Clock!ClockNext]_Clock!clockVars
<1>1. Published' = Published /\ Assigned' = Assigned
  BY DEF Published, Assigned
<1> QED BY <1>1, ClockStutter

LEMMA ClockCommit ==
  ASSUME IInv, NEW c \in Clients, CommitVersion(c)
  PROVE  Clock!ClockNext
<1>s. PICK s \in Sets : s = jobs[c].set
  BY DEF IInv, JobOK, CommitVersion
<1>t. PICK ts \in SUBSET Products : ts = targets[s]
  BY DEF IInv, TypeOK
<1>1. sets \in [Sets -> Row]
  BY DEF IInv, TypeOK
<1>2. /\ Visible(s)'
      /\ sets'[s].version = sets[s].version + 1
      /\ \A t \in Sets : t # s => sets'[t] = sets[t]
      /\ targets' = targets
  <2>1. sets'[s].status = "published" /\ sets'[s].state = "live"
    BY <1>s, <1>1 DEF CommitVersion, Row, Live
  <2>2. sets'[s].version = sets[s].version + 1
    BY <1>s, <1>1 DEF CommitVersion, NextVersion, Row
  <2>3. \A t \in Sets : t # s => sets'[t] = sets[t]
    BY <1>s, <1>1 DEF CommitVersion
  <2>4. targets' = targets
    BY DEF CommitVersion
  <2> QED BY <2>1, <2>2, <2>3, <2>4 DEF Visible, Live
<1>3. Published[s] = sets[s].version
  BY <1>s, <1>1 DEF Published, IInv, LifeOK, CommitVersion, Visible, Row
<1>4. Published' = [Published EXCEPT ![s] = @ + 1]
  <2>1. \A t \in Sets : t # s => Published'[t] = Published[t]
    BY <1>2 DEF Published, Visible, Live
  <2>2. Published'[s] = Published[s] + 1
    BY <1>2, <1>3 DEF Published
  <2> QED BY <2>1, <2>2 DEF Published
<1>5. Assigned' = [Assigned EXCEPT ![s] = ts]
  <2>1. \A t \in Sets : t # s => Assigned'[t] = Assigned[t]
    BY <1>2 DEF Assigned, Visible, Live
  <2>2. Assigned'[s] = ts
    BY <1>t, <1>2 DEF Assigned
  <2> QED BY <2>1, <2>2 DEF Assigned
<1>6. configVersion' = configVersion + 1 /\ unannounced' = {}
  BY DEF CommitVersion, Bump
<1>7. Clock!Release(s, ts)
  BY <1>4, <1>5, <1>6 DEF Clock!Release, Clock!Announce, Published, Assigned
<1> QED BY <1>7 DEF Clock!ClockNext

LEMMA ClockLeave ==
  ASSUME IInv, NEW c \in Clients, RemoveCommit(c) \/ PurgeCommit(c)
  PROVE  [Clock!ClockNext]_Clock!clockVars
<1>s. PICK s \in Sets : s = jobs[c].set
  BY DEF IInv, JobOK, RemoveCommit, PurgeCommit
<1>1. sets \in [Sets -> Row] /\ targets \in [Sets -> SUBSET Products]
  BY DEF IInv, TypeOK
<1>2. /\ ~Visible(s)'
      /\ \A t \in Sets : t # s => sets'[t] = sets[t] /\ targets'[t] = targets[t]
  <2>1. sets'[s].state \in {"deleted", "purged"}
    BY <1>s, <1>1 DEF RemoveCommit, PurgeCommit, Row
  <2>2. \A t \in Sets : t # s => sets'[t] = sets[t] /\ targets'[t] = targets[t]
    BY <1>s, <1>1 DEF RemoveCommit, PurgeCommit
  <2> QED BY <2>1, <2>2 DEF Visible, Live
<1>3. /\ Published' = [Published EXCEPT ![s] = 0]
      /\ Assigned' = [Assigned EXCEPT ![s] = {}]
  <2>1. \A t \in Sets : t # s => Published'[t] = Published[t] /\ Assigned'[t] = Assigned[t]
    BY <1>2 DEF Published, Assigned, Visible, Live
  <2>2. Published'[s] = 0 /\ Assigned'[s] = {}
    BY <1>2 DEF Published, Assigned
  <2> QED BY <2>1, <2>2 DEF Published, Assigned
<1>4. BumpIfVisible(s, jobs[c].wasVisible)
  BY <1>s DEF RemoveCommit, PurgeCommit
<1>5. CASE Bump
  <2>1. Clock!Withdraw(s)
    BY <1>3, <1>5 DEF Bump, Clock!Withdraw, Clock!Announce, Published, Assigned
  <2> QED BY <2>1 DEF Clock!ClockNext
<1>6. CASE /\ Visible(s)
           /\ unannounced' = unannounced \cup {s}
           /\ UNCHANGED configVersion
  <2>1. Published[s] # 0
    BY <1>1, <1>6 DEF Published, IInv, LifeOK, Visible
  <2>2. Clock!WithdrawSilently(s)
    BY <1>3, <1>6, <2>1 DEF Clock!WithdrawSilently, Published, Assigned
  <2> QED BY <2>2 DEF Clock!ClockNext
<1>7. CASE ~Visible(s) /\ UNCHANGED <<unannounced, configVersion>>
  <2>1. Published' = Published /\ Assigned' = Assigned
    BY <1>3, <1>7 DEF Published, Assigned
  <2> QED BY <1>7, <2>1, ClockStutter
<1> QED BY <1>4, <1>5, <1>6, <1>7 DEF BumpIfVisible

LEMMA ClockTargets ==
  ASSUME IInv, NEW c \in Clients, NEW ps \in SUBSET Products,
         Assign(c, ps) \/ Unassign(c, ps)
  PROVE  Clock!ClockNext
<1>s. PICK s \in Sets : s = jobs[c].set
  BY DEF IInv, JobOK, Assign, Unassign
<1>1. sets' = sets /\ targets \in [Sets -> SUBSET Products]
  BY DEF IInv, TypeOK, Assign, Unassign
<1>t. PICK shown \in SUBSET Products : shown = IF Visible(s) THEN targets'[s] ELSE {}
  BY <1>s, <1>1 DEF Assign, Unassign
<1>2. \A t \in Sets : t # s => targets'[t] = targets[t]
  BY <1>s, <1>1 DEF Assign, Unassign
<1>3. Published' = Published /\ Assigned' = [Assigned EXCEPT ![s] = shown]
  <2>1. \A t \in Sets : t # s => Assigned'[t] = Assigned[t]
    BY <1>1, <1>2 DEF Assigned, Visible, Live
  <2>2. Assigned'[s] = shown
    BY <1>t, <1>1 DEF Assigned, Visible, Live
  <2> QED BY <1>1, <2>1, <2>2 DEF Published, Assigned, Visible, Live
<1>4. shown = {} \/ Published[s] # 0
  BY <1>t, <1>1 DEF Published, IInv, LifeOK, Visible
<1>5. Clock!Reassign(s, shown)
  BY <1>3, <1>4 DEF Clock!Reassign, Clock!Announce, Published, Assigned, Assign, Unassign, Bump
<1> QED BY <1>5 DEF Clock!ClockNext

LEMMA ClockStep == IInv /\ [Next]_vars => [Clock!ClockNext]_Clock!clockVars
<1> SUFFICES ASSUME IInv, [Next]_vars PROVE [Clock!ClockNext]_Clock!clockVars
  OBVIOUS
<1>1. ASSUME NEW s \in Sets, Create(s) PROVE [Clock!ClockNext]_Clock!clockVars
  BY <1>1, ClockQuiet DEF Create, IInv, TypeOK, Visible, Live
<1>2. ASSUME NEW c \in Clients, Begins(c) PROVE [Clock!ClockNext]_Clock!clockVars
  <2>1. PICK s \in Sets : EditChild(c, s) \/ Review(c, s) \/ PurgeRead(c, s) \/ AssignRead(c, s)
    BY <1>2 DEF Begins
  <2>2. CASE EditChild(c, s)
    BY <2>2, ClockQuiet DEF EditChild, IInv, TypeOK, Row, Visible, Live
  <2> QED BY <2>1, <2>2, ClockQuiet DEF Review, PurgeRead, AssignRead, Visible, Live
<1>3. ASSUME NEW c \in Clients, Reads(c) \/ Fail(c) PROVE [Clock!ClockNext]_Clock!clockVars
  BY <1>3, ClockQuiet
     DEF Reads, PublishReadRow, PublishReadTree, RollbackRead, RemoveRead, Fail, Visible, Live
<1>4. ASSUME NEW c \in Clients, TouchSet(c) \/ Rename(c)
      PROVE [Clock!ClockNext]_Clock!clockVars
  <2>s. PICK s \in Sets : s = jobs[c].set
    BY <1>4 DEF TouchSet, Rename, IInv, JobOK
  <2>1. UNCHANGED <<targets, configVersion, unannounced>>
    BY <1>4 DEF TouchSet, Rename
  <2>2. \A t \in Sets : /\ sets'[t].state = sets[t].state
                      /\ sets'[t].status = sets[t].status
                      /\ sets'[t].version = sets[t].version
    BY <1>4, <2>s DEF TouchSet, Rename, IInv, TypeOK, Row
  <2> QED BY <2>1, <2>2, ClockQuiet DEF Visible, Live
<1>5. CASE UNCHANGED vars
  BY <1>5, ClockQuiet DEF vars, Visible, Live
<1> QED
  BY <1>1, <1>2, <1>3, <1>4, <1>5, ClockCommit, ClockLeave, ClockTargets DEF Next, Writes

(* Every step of the authoring services is, to a storefront, a step of the
   clock or nothing: a change of the document commits with a bump, the removals
   ConfigClock names apart (ConfigVersionService). *)
THEOREM ClockIsImplemented == Spec => ImplementsClock
<1>1. Init => Clock!ClockInit
  BY ClockInitOK
<1>2. IInv /\ [Next]_vars => [Clock!ClockNext]_Clock!clockVars
  BY ClockStep
<1> QED BY <1>1, <1>2, IInvHolds, PTL DEF Spec, ImplementsClock, Clock!ClockSpec

-----------------------------------------------------------------------------
(* What a list of rules decides, whatever its order.                        *)
Fields == {"hidden", "required", "price", "conflict"}

IsState(st) == DOMAIN st = Fields /\ st = [i \in Fields |-> st[i]]

AllBut(n, st, f) == IsState(n) /\ \A i \in Fields \ {f} : n[i] = st[i]

Priced(R) == {rule.amount : rule \in {rule \in R : rule.action = "set_price"}}

Differ(S) == \E a, b \in S : a # b

Does(R, action) == \E rule \in R : rule.action = action

(* What a set of rules says, in whatever order they are applied. *)
SaysOf(st, R) ==
    /\ IsState(st)
    /\ st.hidden = IF Does(R, "hide") THEN TRUE ELSE FALSE
    /\ st.required = IF Does(R, "require") THEN "required"
                     ELSE IF Does(R, "unrequire") THEN "optional" ELSE "unruled"
    /\ st.conflict = IF Differ(Priced(R)) THEN TRUE ELSE FALSE
    /\ st.price = IF Differ(Priced(R)) THEN {} ELSE Priced(R)

LEMMA UnruledSays == SaysOf(Unruled, {})
<1>1. /\ IsState(Unruled) /\ Unruled.hidden = FALSE /\ Unruled.conflict = FALSE /\ Unruled.price = {}
      /\ Unruled.required = "unruled"
  BY DEF IsState, Unruled, Fields
<1>2. ~Does({}, "hide") /\ ~Does({}, "require") /\ ~Does({}, "unrequire") /\ Priced({}) = {} /\ ~Differ({})
  BY DEF Does, Priced, Differ
<1> QED BY <1>1, <1>2 DEF SaysOf

LEMMA DoesMore ==
  ASSUME NEW R, NEW rule
  PROVE  /\ \A action : Does(R \cup {rule}, action) <=> Does(R, action) \/ rule.action = action
         /\ rule.action # "set_price" => Priced(R \cup {rule}) = Priced(R)
         /\ rule.action = "set_price" => Priced(R \cup {rule}) = Priced(R) \cup {rule.amount}
  BY DEF Does, Priced

LEMMA ApplyRuleSays ==
  ASSUME NEW st, NEW R, SaysOf(st, R), NEW rule
  PROVE  SaysOf(ApplyRule(st, rule), R \cup {rule})
<1> DEFINE n == ApplyRule(st, rule)
           S == R \cup {rule}
<1>0. IsState(st)
  BY DEF SaysOf
<1>1. CASE rule.action = "hide"
  <2>1. n.hidden = TRUE /\ AllBut(n, st, "hidden")
    BY <1>0, <1>1 DEF IsState, ApplyRule, Fields, AllBut
  <2>2. n.required = st.required /\ n.conflict = st.conflict /\ n.price = st.price /\ IsState(n)
    BY <2>1 DEF AllBut, Fields
  <2>3. Does(S, "hide") /\ (Does(S, "require") <=> Does(R, "require")) /\ (Does(S, "unrequire") <=> Does(R, "unrequire"))
        /\ Priced(S) = Priced(R)
    BY <1>1, DoesMore
  <2> QED BY <2>1, <2>2, <2>3 DEF SaysOf
<1>2. CASE rule.action = "require"
  <2>1. n.required = "required" /\ AllBut(n, st, "required")
    BY <1>0, <1>2 DEF IsState, ApplyRule, Fields, AllBut
  <2>2. n.hidden = st.hidden /\ n.conflict = st.conflict /\ n.price = st.price /\ IsState(n)
    BY <2>1 DEF AllBut, Fields
  <2>3. Does(S, "require") /\ (Does(S, "hide") <=> Does(R, "hide")) /\ Priced(S) = Priced(R)
    BY <1>2, DoesMore
  <2> QED BY <2>1, <2>2, <2>3 DEF SaysOf
<1>3. CASE rule.action = "unrequire"
  <2>1. n.required = (IF st.required = "required" THEN "required" ELSE "optional") /\ AllBut(n, st, "required")
    BY <1>0, <1>3 DEF IsState, ApplyRule, Fields, AllBut
  <2>2. n.hidden = st.hidden /\ n.conflict = st.conflict /\ n.price = st.price /\ IsState(n)
    BY <2>1 DEF AllBut, Fields
  <2>3. /\ Does(S, "unrequire") /\ (Does(S, "hide") <=> Does(R, "hide"))
        /\ (Does(S, "require") <=> Does(R, "require")) /\ Priced(S) = Priced(R)
    BY <1>3, DoesMore
  <2> QED BY <2>1, <2>2, <2>3 DEF SaysOf
<1>4. CASE rule.action = "set_price"
  <2>1. /\ \A action \in {"hide", "require", "unrequire"} : Does(S, action) <=> Does(R, action)
        /\ Priced(S) = Priced(R) \cup {rule.amount}
    BY <1>4, DoesMore
  <2>2. CASE st.conflict \/ (st.price # {} /\ st.price # {rule.amount})
    <3>1. n.price = {} /\ n.conflict = TRUE /\ IsState(n) /\ n.hidden = st.hidden /\ n.required = st.required
      BY <1>0, <1>4, <2>2 DEF IsState, ApplyRule, Fields
    <3>2. Differ(Priced(S))
      <4>1. CASE Differ(Priced(R))
        BY <4>1, <2>1 DEF Differ
      <4>2. CASE ~Differ(Priced(R))
        <5>1. st.price = Priced(R) /\ st.conflict = FALSE
          BY <4>2 DEF SaysOf
        <5>2. \E a \in Priced(R) : a # rule.amount
          BY <5>1, <2>2
        <5> QED BY <5>2, <2>1 DEF Differ
      <4> QED BY <4>1, <4>2
    <3> QED BY <2>1, <3>1, <3>2 DEF SaysOf
  <2>3. CASE ~(st.conflict \/ (st.price # {} /\ st.price # {rule.amount}))
    <3>1. n.price = {rule.amount} /\ AllBut(n, st, "price")
      BY <1>0, <1>4, <2>3 DEF IsState, ApplyRule, Fields, AllBut
    <3>2. n.hidden = st.hidden /\ n.conflict = st.conflict /\ n.required = st.required /\ IsState(n)
      BY <3>1 DEF AllBut, Fields
    <3>3. ~Differ(Priced(R)) /\ st.price = Priced(R) /\ st.conflict = FALSE
      BY <2>3 DEF SaysOf
    <3>4. Priced(S) = {rule.amount} /\ ~Differ(Priced(S))
      BY <3>3, <2>3, <2>1 DEF Differ
    <3> QED BY <2>1, <3>1, <3>2, <3>3, <3>4 DEF SaysOf
  <2> QED BY <2>2, <2>3
<1>5. CASE rule.action \notin {"hide", "require", "unrequire", "set_price"}
  <2>1. n = st
    BY <1>5 DEF ApplyRule
  <2>2. /\ \A action \in {"hide", "require", "unrequire"} : Does(S, action) <=> Does(R, action)
        /\ Priced(S) = Priced(R)
    BY <1>5, DoesMore
  <2> QED BY <2>1, <2>2 DEF SaysOf
<1> QED BY <1>1, <1>2, <1>3, <1>4, <1>5

(* f is the loop over q: what each rule has made of the state so far. *)
RulesBy(f, q) ==
    /\ DOMAIN f = 0 .. Len(q) /\ f[0] = Unruled
    /\ \A i \in 1 .. Len(q) : f[i] = ApplyRule(f[i - 1], q[i])

LEMMA RulesFold ==
  ASSUME NEW S, NEW q \in Seq(S)
  PROVE  \E f : RulesBy(f, q) /\ Folded(ApplyRule, Unruled, q) = f[Len(q)]
<1> DEFINE n == Len(q)
<1>1. n \in Nat
  OBVIOUS
<1> DEFINE By(f, k) == /\ DOMAIN f = 0 .. k /\ f[0] = Unruled
                       /\ \A i \in 1 .. k : f[i] = ApplyRule(f[i - 1], q[i])
           T == {k \in Nat : \E f : By(f, k)}
<1>2. 0 \in T
  <2>1. By([i \in 0 .. 0 |-> Unruled], 0)
    OBVIOUS
  <2> QED BY <2>1
<1>3. ASSUME NEW k \in Nat, k \in T PROVE k + 1 \in T
  <2>1. PICK f : By(f, k)
    BY <1>3
  <2> DEFINE g == [i \in 0 .. k + 1 |-> IF i = k + 1 THEN ApplyRule(f[k], q[k + 1]) ELSE f[i]]
  <2>2. By(g, k + 1)
    <3>1. DOMAIN g = 0 .. k + 1 /\ g[0] = Unruled
      BY <2>1
    <3>2. ASSUME NEW i \in 1 .. k + 1 PROVE g[i] = ApplyRule(g[i - 1], q[i])
      <4>1. i - 1 \in 0 .. k + 1 /\ i - 1 # k + 1 /\ g[i - 1] = f[i - 1]
        OBVIOUS
      <4>2. CASE i = k + 1
        BY <4>1, <4>2
      <4>3. CASE i # k + 1
        BY <4>1, <4>3, <2>1
      <4> QED BY <4>2, <4>3
    <3> QED BY <3>1, <3>2
  <2> HIDE DEF By, g
  <2> QED BY <2>2
<1> HIDE DEF T
<1>4. n \in T
  BY <1>1, <1>2, <1>3, Induction
<1>5. PICK f : By(f, n)
  BY <1>4 DEF T
<1> DEFINE h == [i \in 0 .. n |-> f[i]]
<1>6. h = [i \in 0 .. n |-> IF i = 0 THEN Unruled ELSE ApplyRule(h[i - 1], q[i])]
  <2>1. ASSUME NEW i \in 0 .. n PROVE h[i] = IF i = 0 THEN Unruled ELSE ApplyRule(h[i - 1], q[i])
    BY <1>1, <1>5
  <2> QED BY <2>1
<1> HIDE DEF h
<1> DEFINE fold[i \in 0 .. Len(q)] == IF i = 0 THEN Unruled ELSE ApplyRule(fold[i - 1], q[i])
<1>7. fold = [i \in 0 .. n |-> IF i = 0 THEN Unruled ELSE ApplyRule(fold[i - 1], q[i])]
  BY <1>6, Zenon DEF n
<1>8. Folded(ApplyRule, Unruled, q) = fold[n]
  BY Zenon DEF Folded, n
<1> HIDE DEF fold
<1>9. RulesBy(fold, q)
  BY <1>1, <1>7 DEF RulesBy
<1> QED BY <1>8, <1>9

LEMMA FoldSays ==
  ASSUME NEW S, NEW q \in Seq(S)
  PROVE  SaysOf(Folded(ApplyRule, Unruled, q), ToSet(q))
<1>1. PICK f : RulesBy(f, q) /\ Folded(ApplyRule, Unruled, q) = f[Len(q)]
  BY RulesFold
<1> DEFINE First(k) == {q[i] : i \in 1 .. k}
           T == {k \in Nat : k <= Len(q) => SaysOf(f[k], First(k))}
<1>2. Len(q) \in Nat /\ DOMAIN q = 1 .. Len(q)
  OBVIOUS
<1>3. 0 \in T
  <2>1. First(0) = {}
    OBVIOUS
  <2> QED BY <2>1, <1>1, UnruledSays DEF RulesBy
<1>4. ASSUME NEW k \in Nat, k \in T PROVE k + 1 \in T
  <2> SUFFICES ASSUME k + 1 <= Len(q) PROVE SaysOf(f[k + 1], First(k + 1))
    OBVIOUS
  <2>1. First(k + 1) = First(k) \cup {q[k + 1]}
    OBVIOUS
  <2>2. f[k + 1] = ApplyRule(f[k], q[k + 1])
    BY <1>1, <1>2 DEF RulesBy
  <2>3. SaysOf(f[k], First(k))
    <3>1. k <= Len(q)
      BY <1>2
    <3> HIDE DEF First
    <3> QED BY <3>1, <1>4
  <2> HIDE DEF First
  <2> QED BY <2>1, <2>2, <2>3, ApplyRuleSays
<1> HIDE DEF T
<1>5. Len(q) \in T
  BY <1>2, <1>3, <1>4, Induction
<1>6. ToSet(q) = First(Len(q))
  BY <1>2 DEF ToSet
<1>7. SaysOf(f[Len(q)], First(Len(q)))
  BY <1>2, <1>5 DEF T
<1> HIDE DEF First
<1> QED BY <1>1, <1>6, <1>7

Of(R, target) == {rule \in R : rule.target = target}

LEMMA SaidIs ==
  ASSUME NEW S, NEW rules \in Seq(S), NEW target
  PROVE  SaysOf(Said(rules, target), Of(ToSet(rules), target))
<1> DEFINE keep == {rule \in ToSet(rules) : rule.target = target}
<1>1. Only(rules, keep) \in Seq(S) /\ ToSet(Only(rules, keep)) = ToSet(rules) \cap keep
  BY OnlyFacts
<1>2. ToSet(rules) \cap keep = Of(ToSet(rules), target)
  BY DEF Of
<1> HIDE DEF keep
<1>3. SaysOf(Folded(ApplyRule, Unruled, Only(rules, keep)), ToSet(Only(rules, keep)))
  BY <1>1, FoldSays
<1>4. Said(rules, target) = Folded(ApplyRule, Unruled, Only(rules, keep))
  BY DEF Said, keep
<1> QED BY <1>1, <1>2, <1>3, <1>4

LEMMA SaysOnce ==
  ASSUME NEW st, NEW su, NEW R, SaysOf(st, R), SaysOf(su, R)
  PROVE  st = su
<1>1. \A i \in Fields : st[i] = su[i]
  BY DEF SaysOf, Fields
<1> QED BY <1>1 DEF SaysOf, IsState

Firing(rules, answers) == {rule \in ToSet(rules) : RuleFires(rule, answers)}

HiddenBy(rules, answers) == {rule.target : rule \in {rule \in Firing(rules, answers) : rule.action = "hide"}}

(* RuleStates for one target. *)
StateBy(st, R, latched) ==
    /\ IsState(st)
    /\ st.hidden = IF Does(R, "hide") \/ latched = TRUE THEN TRUE ELSE FALSE
    /\ \E su : SaysOf(su, R) /\ \A i \in Fields \ {"hidden"} : st[i] = su[i]

LEMMA TargetsAre ==
  ASSUME NEW S, NEW q \in Seq(S)
  PROVE  Targets(q) = {rule.target : rule \in ToSet(q)}
  BY DEF Targets, ToSet

LEMMA StatesAre ==
  ASSUME NEW S, NEW rules \in Seq(S), NEW answers, NEW already
  PROVE  LET states == RuleStates(rules, answers, already) IN
         /\ DOMAIN states = {rule.target : rule \in Firing(rules, answers)} \cup already
         /\ \A target \in DOMAIN states :
               StateBy(states[target], Of(Firing(rules, answers), target), target \in already)
<1> DEFINE keep == {rule \in ToSet(rules) : RuleFires(rule, answers)}
           fired == Only(rules, keep)
           states == RuleStates(rules, answers, already)
<1>1. fired \in Seq(S) /\ ToSet(fired) = ToSet(rules) \cap keep
  BY OnlyFacts
<1>2. ToSet(fired) = Firing(rules, answers)
  BY <1>1 DEF Firing
<1>3. states = StatesBy(fired, already)
  BY DEF RuleStates
<1> HIDE DEF keep, fired, states
<1>4. Targets(fired) = {rule.target : rule \in Firing(rules, answers)}
  BY <1>1, <1>2, TargetsAre
<1>5. DOMAIN states = Targets(fired) \cup already
  BY <1>3 DEF StatesBy
<1>6. ASSUME NEW target \in DOMAIN states
      PROVE  StateBy(states[target], Of(Firing(rules, answers), target), target \in already)
  <2> DEFINE su == Said(fired, target)
             R == Of(Firing(rules, answers), target)
             st == states[target]
  <2>1. SaysOf(su, R)
    BY <1>1, <1>2, SaidIs
  <2>2. st = [su EXCEPT !.hidden = @ \/ target \in already]
    BY <1>3, <1>5 DEF StatesBy
  <2> HIDE DEF su, st
  <2>3. IsState(su) /\ su.hidden = IF Does(R, "hide") THEN TRUE ELSE FALSE
    BY <2>1 DEF SaysOf
  <2> HIDE DEF R
  <2>4. IsState(st) /\ \A i \in Fields \ {"hidden"} : st[i] = su[i]
    BY <2>2, <2>3 DEF IsState, Fields
  <2>5. st.hidden = (su.hidden \/ target \in already)
    BY <2>2, <2>3 DEF IsState, Fields
  <2>6. st.hidden = IF Does(R, "hide") \/ target \in already THEN TRUE ELSE FALSE
    BY <2>3, <2>5
  <2>7. StateBy(st, R, target \in already)
    BY <2>1, <2>4, <2>6 DEF StateBy
  <2> QED BY <2>7 DEF st, R
<1>7. states = RuleStates(rules, answers, already)
  BY DEF states
<1> QED BY <1>4, <1>5, <1>6, <1>7

LEMMA HiddenAre ==
  ASSUME NEW S, NEW rules \in Seq(S), NEW answers, NEW already
  PROVE  HiddenTargets(RuleStates(rules, answers, already)) = HiddenBy(rules, answers) \cup already
<1> DEFINE states == RuleStates(rules, answers, already)
<1>1. /\ DOMAIN states = {rule.target : rule \in Firing(rules, answers)} \cup already
      /\ \A target \in DOMAIN states :
             StateBy(states[target], Of(Firing(rules, answers), target), target \in already)
  BY StatesAre
<1> HIDE DEF states
<1>2. \A target \in DOMAIN states :
         states[target].hidden <=> Does(Of(Firing(rules, answers), target), "hide") \/ target \in already
  BY <1>1 DEF StateBy
<1>3. \A target : Does(Of(Firing(rules, answers), target), "hide") <=> target \in HiddenBy(rules, answers)
  BY DEF Does, Of, HiddenBy
<1>4. HiddenBy(rules, answers) \subseteq DOMAIN states
  BY <1>1 DEF HiddenBy
<1>5. HiddenTargets(states) = HiddenBy(rules, answers) \cup already
  BY <1>1, <1>2, <1>3, <1>4 DEF HiddenTargets
<1> QED BY <1>5 DEF states

(* Two lists of the same rules. *)
LEMMA SameRulesSameStates ==
  ASSUME NEW S, NEW rules \in Seq(S), NEW others \in Seq(S), ToSet(rules) = ToSet(others),
         NEW answers, NEW already
  PROVE  RuleStates(rules, answers, already) = RuleStates(others, answers, already)
<1> DEFINE f == RuleStates(rules, answers, already)
           g == RuleStates(others, answers, already)
           R(target) == Of(Firing(rules, answers), target)
<1>1. Firing(rules, answers) = Firing(others, answers)
  BY DEF Firing
<1>2. /\ DOMAIN f = {rule.target : rule \in Firing(rules, answers)} \cup already
      /\ \A target \in DOMAIN f : StateBy(f[target], R(target), target \in already)
  BY StatesAre
<1>3. /\ DOMAIN g = {rule.target : rule \in Firing(rules, answers)} \cup already
      /\ \A target \in DOMAIN g : StateBy(g[target], R(target), target \in already)
  <2>1. /\ DOMAIN g = {rule.target : rule \in Firing(others, answers)} \cup already
        /\ \A target \in DOMAIN g :
              StateBy(g[target], Of(Firing(others, answers), target), target \in already)
    BY StatesAre
  <2> HIDE DEF g
  <2> QED BY <2>1, <1>1
<1>4. f = [target \in DOMAIN f |-> f[target]] /\ g = [target \in DOMAIN g |-> g[target]]
  BY DEF RuleStates, StatesBy
<1> HIDE DEF f, g
<1>5. ASSUME NEW target \in DOMAIN f PROVE f[target] = g[target]
  <2> DEFINE st == f[target]
             su == g[target]
  <2>1. StateBy(st, R(target), target \in already) /\ StateBy(su, R(target), target \in already)
    BY <1>2, <1>3
  <2> HIDE DEF st, su
  <2>2. IsState(st) /\ IsState(su) /\ st.hidden = su.hidden
    BY <2>1 DEF StateBy
  <2>3. PICK tt : SaysOf(tt, R(target)) /\ \A i \in Fields \ {"hidden"} : st[i] = tt[i]
    BY <2>1 DEF StateBy
  <2>4. PICK uu : SaysOf(uu, R(target)) /\ \A i \in Fields \ {"hidden"} : su[i] = uu[i]
    BY <2>1 DEF StateBy
  <2>5. tt = uu
    BY <2>3, <2>4, SaysOnce
  <2>6. \A i \in Fields : st[i] = su[i]
    BY <2>2, <2>3, <2>4, <2>5 DEF Fields
  <2>7. st = su
    BY <2>2, <2>6 DEF IsState
  <2> QED BY <2>7 DEF st, su
<1>6. f = g
  BY <1>2, <1>3, <1>4, <1>5
<1> QED BY <1>6 DEF f, g

FirstPass(answers) == [hidden |-> {}, answers |-> answers, states |-> <<>>, settled |-> FALSE]

NextPass(before, rules, answers, under) ==
    IF before.settled THEN before
    ELSE AfterPass(before, answers, under, RuleStates(rules, before.answers, before.hidden))

(* p is the passes of an evaluation, settled or not. *)
PassesBy(p, n, rules, answers, under) ==
    /\ DOMAIN p = 0 .. n /\ p[0] = FirstPass(answers)
    /\ \A i \in 1 .. n : p[i] = NextPass(p[i - 1], rules, answers, under)

LEMMA PassesExist ==
  ASSUME NEW n \in Nat, NEW rules, NEW answers, NEW under
  PROVE  \E p : PassesBy(p, n, rules, answers, under)
<1> DEFINE T == {k \in Nat : \E p : PassesBy(p, k, rules, answers, under)}
<1>1. 0 \in T
  <2>1. PassesBy([i \in 0 .. 0 |-> FirstPass(answers)], 0, rules, answers, under)
    BY DEF PassesBy
  <2> QED BY <2>1
<1>2. ASSUME NEW k \in Nat, k \in T PROVE k + 1 \in T
  <2>1. PICK p : PassesBy(p, k, rules, answers, under)
    BY <1>2
  <2> DEFINE g == [i \in 0 .. k + 1 |-> IF i = k + 1 THEN NextPass(p[k], rules, answers, under) ELSE p[i]]
  <2>2. DOMAIN g = 0 .. k + 1 /\ g[0] = FirstPass(answers)
    BY <2>1 DEF PassesBy
  <2>3. ASSUME NEW i \in 1 .. k + 1 PROVE g[i] = NextPass(g[i - 1], rules, answers, under)
    <3>1. i - 1 \in 0 .. k + 1 /\ i - 1 # k + 1 /\ g[i - 1] = p[i - 1]
      OBVIOUS
    <3>2. CASE i = k + 1
      BY <3>1, <3>2
    <3>3. CASE i # k + 1
      BY <3>1, <3>3, <2>1 DEF PassesBy
    <3> QED BY <3>2, <3>3
  <2>4. PassesBy(g, k + 1, rules, answers, under)
    BY <2>2, <2>3 DEF PassesBy
  <2> HIDE DEF g
  <2> QED BY <2>4
<1> HIDE DEF T
<1>3. n \in T
  BY <1>1, <1>2, Induction
<1> QED BY <1>3 DEF T

LEMMA EvaluateIs ==
  ASSUME NEW rules, NEW answers, NEW under
  PROVE  \E p : /\ PassesBy(p, MaxPasses, rules, answers, under)
                /\ Evaluate(rules, answers, under) = Outcome(p[MaxPasses])
<1> DEFINE N == MaxPasses
           Then(s) == {NextPass(before, rules, answers, under) : before \in s}
<1>1. N \in Nat
  BY MaxPassesAssumption
<1>2. PICK p : PassesBy(p, N, rules, answers, under)
  BY <1>1, PassesExist
<1> DEFINE h == [i \in 0 .. N |-> {p[i]}]
<1>3. h = [i \in 0 .. N |-> IF i = 0 THEN {FirstPass(answers)} ELSE Then(h[i - 1])]
  <2>1. ASSUME NEW i \in 0 .. N
        PROVE  h[i] = IF i = 0 THEN {FirstPass(answers)} ELSE Then(h[i - 1])
    <3>1. CASE i = 0
      BY <3>1, <1>2 DEF PassesBy
    <3>2. CASE i # 0
      <4>1. i - 1 \in 0 .. N /\ i \in 1 .. N
        BY <3>2, <1>1
      <4>2. h[i - 1] = {p[i - 1]} /\ h[i] = {NextPass(p[i - 1], rules, answers, under)}
        BY <4>1, <1>2 DEF PassesBy
      <4> HIDE DEF h
      <4> QED BY <3>2, <4>2
    <3> QED BY <3>1, <3>2
  <2> QED BY <2>1
<1> HIDE DEF h
<1> DEFINE Pass[n \in 0 .. MaxPasses] ==
               IF n = 0 THEN {FirstPass(answers)}
               ELSE {NextPass(before, rules, answers, under) : before \in Pass[n - 1]}
<1>4. Pass = [i \in 0 .. N |-> IF i = 0 THEN {FirstPass(answers)} ELSE Then(Pass[i - 1])]
  BY <1>3, Zenon DEF N
<1>5. Evaluate(rules, answers, under) = Outcome(CHOOSE last \in Pass[N] : TRUE)
  BY Zenon DEF Evaluate, NextPass, FirstPass, N
<1> HIDE DEF Pass
<1> DEFINE T == {k \in Nat : k <= N => Pass[k] = {p[k]}}
<1>6. 0 \in T
  BY <1>1, <1>2, <1>4 DEF PassesBy
<1>7. ASSUME NEW k \in Nat, k \in T PROVE k + 1 \in T
  <2> SUFFICES ASSUME k + 1 <= N PROVE Pass[k + 1] = {p[k + 1]}
    OBVIOUS
  <2>1. k + 1 \in 0 .. N /\ k + 1 # 0 /\ k + 1 - 1 = k /\ k + 1 \in 1 .. N /\ k <= N
    BY <1>1
  <2>2. Pass[k + 1] = Then(Pass[k])
    BY <1>4, <2>1
  <2>3. Pass[k] = {p[k]}
    BY <1>7, <2>1
  <2>4. p[k + 1] = NextPass(p[k], rules, answers, under)
    BY <1>2, <2>1 DEF PassesBy
  <2> QED BY <2>2, <2>3, <2>4
<1> HIDE DEF T
<1>8. N \in T
  BY <1>1, <1>6, <1>7, Induction
<1>9. Pass[N] = {p[N]}
  BY <1>1, <1>8 DEF T
<1>10. (CHOOSE last \in Pass[N] : TRUE) = p[N]
  BY <1>9
<1> QED BY <1>2, <1>5, <1>10

LEMMA SameStatesSamePasses ==
  ASSUME NEW rules, NEW others, NEW answers, NEW under,
         \A a, h : RuleStates(rules, a, h) = RuleStates(others, a, h)
  PROVE  Evaluate(rules, answers, under) = Evaluate(others, answers, under)
<1> DEFINE N == MaxPasses
<1>1. PICK p : PassesBy(p, N, rules, answers, under) /\ Evaluate(rules, answers, under) = Outcome(p[N])
  BY EvaluateIs
<1>2. PICK q : PassesBy(q, N, others, answers, under) /\ Evaluate(others, answers, under) = Outcome(q[N])
  BY EvaluateIs
<1>3. N \in Nat
  BY MaxPassesAssumption
<1> HIDE DEF N
<1> DEFINE T == {k \in Nat : k <= N => p[k] = q[k]}
<1>4. 0 \in T
  BY <1>1, <1>2, <1>3 DEF PassesBy
<1>5. ASSUME NEW k \in Nat, k \in T PROVE k + 1 \in T
  <2> SUFFICES ASSUME k + 1 <= N PROVE p[k + 1] = q[k + 1]
    OBVIOUS
  <2>1. k + 1 \in 1 .. N /\ k + 1 - 1 = k /\ p[k] = q[k]
    BY <1>3, <1>5
  <2>2. /\ p[k + 1] = NextPass(p[k], rules, answers, under)
        /\ q[k + 1] = NextPass(p[k], others, answers, under)
    BY <1>1, <1>2, <2>1 DEF PassesBy
  <2> QED BY <2>2 DEF NextPass
<1> HIDE DEF T
<1>6. N \in T
  BY <1>3, <1>4, <1>5, Induction
<1>7. p[N] = q[N]
  BY <1>3, <1>6 DEF T
<1> QED BY <1>1, <1>2, <1>7

(* The pass an evaluation ends on: the answers it leaves are the answers it *)
(* was made with, and miss exactly what it hides.                           *)
EndsOn(states, rules, answers, under) ==
    \E left, already :
        /\ states = RuleStates(rules, left, already)
        /\ left = Without(answers, Covered(HiddenTargets(states), under))

LEMMA EvaluateEnds ==
  ASSUME NEW S, NEW rules \in Seq(S), NEW answers, NEW under
  PROVE  LET e == Evaluate(rules, answers, under) IN
         /\ e.refused \in BOOLEAN
         /\ e.refused => e.states = <<>>
         /\ ~e.refused => EndsOn(e.states, rules, answers, under)
<1> DEFINE N == MaxPasses
<1>1. PICK p : PassesBy(p, N, rules, answers, under) /\ Evaluate(rules, answers, under) = Outcome(p[N])
  BY EvaluateIs
<1>2. N \in Nat
  BY MaxPassesAssumption
<1> HIDE DEF N
<1> DEFINE Fine(pass) == /\ pass.settled \in BOOLEAN
                         /\ pass.settled => EndsOn(pass.states, rules, answers, under)
           T == {k \in Nat : k <= N => Fine(p[k])}
<1>3. 0 \in T
  <2>1. p[0].settled = FALSE
    BY <1>1 DEF PassesBy, FirstPass
  <2> QED BY <2>1
<1>4. ASSUME NEW k \in Nat, k \in T PROVE k + 1 \in T
  <2> SUFFICES ASSUME k + 1 <= N PROVE Fine(p[k + 1])
    OBVIOUS
  <2>1. k + 1 \in 1 .. N /\ k + 1 - 1 = k /\ Fine(p[k])
    BY <1>2, <1>4
  <2> DEFINE before == p[k]
             after == p[k + 1]
             states == RuleStates(rules, before.answers, before.hidden)
  <2>2. after = NextPass(before, rules, answers, under)
    BY <1>1, <2>1 DEF PassesBy
  <2>3. CASE before.settled
    BY <2>1, <2>2, <2>3 DEF NextPass
  <2>4. CASE ~before.settled
    <3> DEFINE hidden == before.hidden \cup HiddenTargets(states)
               left == Without(answers, Covered(hidden, under))
    <3>1. after = AfterPass(before, answers, under, states)
      BY <2>2, <2>4 DEF NextPass
    <3>2. after.states = states /\ after.settled = (left = before.answers)
      BY <3>1 DEF AfterPass
    <3>3. HiddenTargets(states) = HiddenBy(rules, before.answers) \cup before.hidden
      BY HiddenAre
    <3>4. hidden = HiddenTargets(states)
      BY <3>3
    <3> HIDE DEF hidden, states
    <3>5. ASSUME left = before.answers PROVE EndsOn(after.states, rules, answers, under)
      <4>1. before.answers = Without(answers, Covered(HiddenTargets(states), under))
        BY <3>5, <3>4
      <4> QED BY <4>1, <3>2 DEF EndsOn, states
    <3> HIDE DEF left
    <3> QED BY <3>2, <3>5
  <2> QED BY <2>3, <2>4
<1> HIDE DEF T
<1>5. N \in T
  BY <1>2, <1>3, <1>4, Induction
<1>6. Fine(p[N])
  BY <1>2, <1>5 DEF T
<1> DEFINE e == Evaluate(rules, answers, under)
<1>7. /\ e.refused = ~p[N].settled
      /\ e.states = IF p[N].settled THEN p[N].states ELSE <<>>
  BY <1>1 DEF Outcome
<1> HIDE DEF e
<1>8. /\ e.refused \in BOOLEAN
      /\ e.refused => e.states = <<>>
      /\ ~e.refused => EndsOn(e.states, rules, answers, under)
  BY <1>6, <1>7
<1> QED BY <1>8 DEF e

-----------------------------------------------------------------------------
(* Answers that differ in blanks at most: no condition tells them apart.    *)
Blank == Given({""})

Alike(a, b) ==
    \A o : \/ AnswerOf(a, o) = AnswerOf(b, o)
           \/ AnswerOf(a, o) \in {Nothing, Blank} /\ AnswerOf(b, o) \in {Nothing, Blank}

LEMMA BlankIs ==
  ASSUME "" \notin DOMAIN NumberOf, NEW x \in {Nothing, Blank}
  PROVE  ~Supplied(x) /\ NumericValue(x) = {}
<1>1. x.many = FALSE /\ x.members \subseteq {""} /\ x.members \in {{}, {""}}
  <2>1. CASE x = Nothing
    BY <2>1 DEF Nothing, Given
  <2>2. CASE x = Blank
    BY <2>2 DEF Blank, Given
  <2> QED BY <2>1, <2>2
<1>2. ~Supplied(x)
  BY <1>1 DEF Supplied
<1>3. x.members \cap DOMAIN NumberOf = {}
  BY <1>1
<1> QED BY <1>1, <1>2, <1>3 DEF NumericValue

LEMMA BlankCompares ==
  ASSUME "" \notin DOMAIN NumberOf, NEW x \in {Nothing, Blank}, NEW operator, NEW operand
  PROVE  Compares(operator, x, operand) <=> operator = "is_empty"
<1>1. ~Supplied(x) /\ NumericValue(x) = {}
  BY BlankIs
<1> QED BY <1>1 DEF Compares

LEMMA AlikeFires ==
  ASSUME "" \notin DOMAIN NumberOf, NEW a, NEW b, Alike(a, b), NEW rule
  PROVE  RuleFires(rule, a) <=> RuleFires(rule, b)
<1>1. ASSUME NEW c PROVE ConditionHolds(c, a) <=> ConditionHolds(c, b)
  <2> DEFINE x == AnswerOf(a, c.option)
             y == AnswerOf(b, c.option)
  <2>1. x = y \/ (x \in {Nothing, Blank} /\ y \in {Nothing, Blank})
    BY DEF Alike
  <2>2. (ConditionHolds(c, a) <=> Compares(c.operator, x, c.operand))
        /\ (ConditionHolds(c, b) <=> Compares(c.operator, y, c.operand))
    BY DEF ConditionHolds
  <2> HIDE DEF x, y
  <2>3. CASE x = y
    BY <2>2, <2>3
  <2>4. CASE x \in {Nothing, Blank} /\ y \in {Nothing, Blank}
    <3>1. Compares(c.operator, x, c.operand) <=> c.operator = "is_empty"
      BY <2>4, BlankCompares
    <3>2. Compares(c.operator, y, c.operand) <=> c.operator = "is_empty"
      BY <2>4, BlankCompares
    <3> QED BY <2>2, <3>1, <3>2
  <2> QED BY <2>1, <2>3, <2>4
<1> QED BY <1>1 DEF RuleFires

LEMMA AlikeHidden ==
  ASSUME "" \notin DOMAIN NumberOf, NEW a, NEW b, Alike(a, b), NEW rules
  PROVE  HiddenBy(rules, a) = HiddenBy(rules, b)
<1>1. Firing(rules, a) = Firing(rules, b)
  BY AlikeFires DEF Firing
<1> QED BY <1>1 DEF HiddenBy

LEMMA AnswerWithout ==
  ASSUME NEW a, NEW C, NEW o
  PROVE  AnswerOf(Without(a, C), o) = IF o \in C THEN Nothing ELSE AnswerOf(a, o)
BY DEF AnswerOf, Without

LEMMA AlikeWithout ==
  ASSUME NEW a, NEW b, Alike(a, b), NEW C
  PROVE  Alike(Without(a, C), Without(b, C))
<1>1. ASSUME NEW o
      PROVE  \/ AnswerOf(Without(a, C), o) = AnswerOf(Without(b, C), o)
             \/ /\ AnswerOf(Without(a, C), o) \in {Nothing, Blank}
                /\ AnswerOf(Without(b, C), o) \in {Nothing, Blank}
  <2>1. \/ AnswerOf(a, o) = AnswerOf(b, o)
        \/ AnswerOf(a, o) \in {Nothing, Blank} /\ AnswerOf(b, o) \in {Nothing, Blank}
    BY DEF Alike
  <2> QED BY <2>1, AnswerWithout
<1> QED BY <1>1 DEF Alike

(* One pass, from one that has not settled.                                 *)
Pass(after, before, rules, answers, under) ==
    /\ after.hidden = before.hidden \cup HiddenBy(rules, before.answers)
    /\ after.answers = Without(answers, Covered(after.hidden, under))
    /\ after.settled = IF after.answers = before.answers THEN TRUE ELSE FALSE
    /\ HiddenTargets(after.states) = after.hidden

LEMMA PassIs ==
  ASSUME NEW S, NEW rules \in Seq(S), NEW answers, NEW under, NEW before, before.settled = FALSE
  PROVE  Pass(NextPass(before, rules, answers, under), before, rules, answers, under)
<1> DEFINE states == RuleStates(rules, before.answers, before.hidden)
           hidden == before.hidden \cup HiddenTargets(states)
           left == Without(answers, Covered(hidden, under))
           settled == left = before.answers
           after == NextPass(before, rules, answers, under)
<1>1. HiddenTargets(states) = HiddenBy(rules, before.answers) \cup before.hidden
  BY HiddenAre
<1>2. after = AfterPass(before, answers, under, states)
  BY DEF NextPass
<1>3. after = [hidden |-> hidden, answers |-> left, states |-> states, settled |-> settled]
  BY <1>2 DEF AfterPass
<1>4. settled = IF left = before.answers THEN TRUE ELSE FALSE
  BY Zenon
<1> HIDE DEF settled, states
<1>5. hidden = HiddenTargets(states) /\ hidden = before.hidden \cup HiddenBy(rules, before.answers)
  BY <1>1
<1>6. left = Without(answers, Covered(hidden, under))
  OBVIOUS
<1> HIDE DEF hidden, left, after
<1>7. after.hidden = hidden /\ after.answers = left /\ after.states = states /\ after.settled = settled
  BY <1>3
<1>8. Pass(after, before, rules, answers, under)
  BY <1>4, <1>5, <1>6, <1>7 DEF Pass
<1> QED BY <1>8 DEF after

LEMMA NextIs ==
  ASSUME NEW rules, NEW answers, NEW under, NEW before, before.settled = FALSE
  PROVE  NextPass(before, rules, answers, under).states = RuleStates(rules, before.answers, before.hidden)
<1> DEFINE states == RuleStates(rules, before.answers, before.hidden)
<1>1. NextPass(before, rules, answers, under) = AfterPass(before, answers, under, states)
  BY DEF NextPass
<1> HIDE DEF states
<1>2. AfterPass(before, answers, under, states).states = states
  BY DEF AfterPass
<1> QED BY <1>1, <1>2 DEF states

(* Two evaluations in step: while the answers differ in blanks only, the    *)
(* same rules hide the same at every pass, and the one with fewer answers   *)
(* settles no later.                                                        *)
InStep(p, q, first, second, under) ==
    /\ p.settled = FALSE /\ q.settled = FALSE /\ p.hidden = q.hidden
    /\ p.answers = Without(first, Covered(p.hidden, under))
    /\ q.answers = Without(second, Covered(p.hidden, under))

LEMMA WithoutAlike ==
  ASSUME NEW first, NEW second, DOMAIN first \subseteq DOMAIN second, NEW C, NEW E,
         Without(second, E) = Without(second, C)
  PROVE  Without(first, E) = Without(first, C)
<1>1. DOMAIN second \ E = DOMAIN second \ C
  BY DEF Without
<1>2. DOMAIN first \ E = DOMAIN first \ C
  BY <1>1
<1> QED BY <1>2 DEF Without

InTandem(rules, others, first, second) ==
    /\ "" \notin DOMAIN NumberOf
    /\ \E S : rules \in Seq(S)
    /\ \E S : others \in Seq(S)
    /\ \A a : HiddenBy(rules, a) = HiddenBy(others, a)
    /\ Alike(first, second) /\ DOMAIN first \subseteq DOMAIN second
    /\ first = [o \in DOMAIN first |-> first[o]] /\ second = [o \in DOMAIN second |-> second[o]]

LEMMA StepsAlike ==
  ASSUME NEW rules, NEW others, NEW under, NEW first, NEW second, InTandem(rules, others, first, second),
         NEW p, NEW q, InStep(p, q, first, second, under)
  PROVE  LET after == NextPass(p, rules, first, under)
             later == NextPass(q, others, second, under)
         IN after.settled = TRUE \/ InStep(after, later, first, second, under)
<1> DEFINE after == NextPass(p, rules, first, under)
           later == NextPass(q, others, second, under)
           C == Covered(p.hidden, under)
           E == Covered(after.hidden, under)
<1>1. p.settled = FALSE /\ q.settled = FALSE /\ p.hidden = q.hidden
      /\ p.answers = Without(first, C) /\ q.answers = Without(second, C)
  BY DEF InStep
<1>2. Pass(after, p, rules, first, under) /\ Pass(later, q, others, second, under)
  <2>1. PICK S : rules \in Seq(S)
    BY DEF InTandem
  <2>2. PICK R : others \in Seq(R)
    BY DEF InTandem
  <2> QED BY <1>1, <2>1, <2>2, PassIs
<1> HIDE DEF after, later, C
<1>3. Alike(p.answers, q.answers)
  <2>1. Alike(first, second)
    BY DEF InTandem
  <2>2. Alike(Without(first, C), Without(second, C))
    BY <2>1, AlikeWithout
  <2> QED BY <1>1, <2>2
<1>4. HiddenBy(rules, p.answers) = HiddenBy(others, q.answers)
  BY <1>3, AlikeHidden DEF InTandem
<1>5. after.hidden = later.hidden
  BY <1>1, <1>2, <1>4 DEF Pass
<1>6. after.answers = Without(first, E) /\ later.answers = Without(second, E)
  BY <1>2, <1>5 DEF Pass
<1> HIDE DEF E
<1>7. later.answers = q.answers => after.answers = p.answers
  <2>1. DOMAIN first \subseteq DOMAIN second
    BY DEF InTandem
  <2>2. Without(second, E) = Without(second, C) => Without(first, E) = Without(first, C)
    BY <2>1, WithoutAlike
  <2> QED BY <1>1, <1>6, <2>2
<1>8. CASE after.answers = p.answers
  BY <1>2, <1>8 DEF Pass, after
<1>9. CASE after.answers # p.answers
  <2>1. after.settled = FALSE /\ later.settled = FALSE
    BY <1>2, <1>7, <1>9 DEF Pass
  <2>2. InStep(after, later, first, second, under)
    BY <2>1, <1>5, <1>6 DEF InStep, E
  <2> QED BY <2>2 DEF after, later
<1> QED BY <1>8, <1>9

LEMMA LockStep ==
  ASSUME NEW rules, NEW others, NEW under, NEW first, NEW second, InTandem(rules, others, first, second)
  PROVE  Evaluate(rules, first, under).refused => Evaluate(others, second, under).refused
<1> DEFINE N == MaxPasses
<1>1. PICK p : PassesBy(p, N, rules, first, under) /\ Evaluate(rules, first, under) = Outcome(p[N])
  BY EvaluateIs
<1>2. PICK q : PassesBy(q, N, others, second, under) /\ Evaluate(others, second, under) = Outcome(q[N])
  BY EvaluateIs
<1>3. N \in Nat
  BY MaxPassesAssumption
<1> HIDE DEF N
<1> DEFINE Fine(k) == p[k].settled = TRUE \/ InStep(p[k], q[k], first, second, under)
           T == {k \in Nat : k <= N => Fine(k)}
<1> HIDE DEF Fine
<1>4. 0 \in T
  <2>1. p[0] = FirstPass(first) /\ q[0] = FirstPass(second)
    BY <1>1, <1>2 DEF PassesBy
  <2>2. Covered({}, under) = {}
    BY DEF Covered
  <2>3. Without(first, {}) = first /\ Without(second, {}) = second
    BY DEF Without, InTandem
  <2>4. InStep(FirstPass(first), FirstPass(second), first, second, under)
    BY <2>2, <2>3 DEF FirstPass, InStep
  <2> QED BY <2>1, <2>4 DEF Fine
<1>5. ASSUME NEW k \in Nat, k \in T PROVE k + 1 \in T
  <2> SUFFICES ASSUME k + 1 <= N PROVE Fine(k + 1)
    OBVIOUS
  <2>1. k + 1 \in 1 .. N /\ k + 1 - 1 = k /\ Fine(k)
    BY <1>3, <1>5
  <2>2. p[k + 1] = NextPass(p[k], rules, first, under) /\ q[k + 1] = NextPass(q[k], others, second, under)
    BY <1>1, <1>2, <2>1 DEF PassesBy
  <2>3. CASE p[k].settled = TRUE
    BY <2>2, <2>3 DEF NextPass, Fine
  <2>4. CASE InStep(p[k], q[k], first, second, under)
    <3>1. NextPass(p[k], rules, first, under).settled = TRUE
          \/ InStep(NextPass(p[k], rules, first, under), NextPass(q[k], others, second, under), first, second, under)
      BY <2>4, StepsAlike
    <3> QED BY <2>2, <3>1 DEF Fine
  <2> QED BY <2>1, <2>3, <2>4 DEF Fine
<1> HIDE DEF T
<1>6. N \in T
  BY <1>3, <1>4, <1>5, Induction
<1>7. Fine(N)
  BY <1>3, <1>6 DEF T
<1>8. Outcome(p[N]).refused = ~p[N].settled /\ Outcome(q[N]).refused = ~q[N].settled
  BY DEF Outcome
<1>9. Evaluate(rules, first, under).refused = ~p[N].settled /\ Evaluate(others, second, under).refused = ~q[N].settled
  BY <1>1, <1>2, <1>8
<1>10. CASE p[N].settled = TRUE
  BY <1>9, <1>10
<1>11. CASE q[N].settled = FALSE
  BY <1>9, <1>11
<1> QED BY <1>7, <1>10, <1>11 DEF InStep, Fine

StatesAlike(rules, a, b) == \A already : RuleStates(rules, a, already) = RuleStates(rules, b, already)

LEMMA AlikeStates ==
  ASSUME "" \notin DOMAIN NumberOf, NEW a, NEW b, Alike(a, b), NEW rules
  PROVE  StatesAlike(rules, a, b)
<1>1. ASSUME NEW rule PROVE RuleFires(rule, a) <=> RuleFires(rule, b)
  BY AlikeFires
<1> DEFINE A == {rule \in ToSet(rules) : RuleFires(rule, a)}
           B == {rule \in ToSet(rules) : RuleFires(rule, b)}
<1>2. A = B
  BY <1>1
<1>3. ASSUME NEW already
      PROVE  RuleStates(rules, a, already) = StatesBy(Only(rules, A), already)
             /\ RuleStates(rules, b, already) = StatesBy(Only(rules, B), already)
  BY Zenon DEF RuleStates
<1> HIDE DEF A, B
<1> QED BY <1>2, <1>3 DEF StatesAlike

(* Two evaluations that end alike: of the answers the second has more of,   *)
(* it hides none.                                                           *)
Latched(pass) ==
    /\ pass.settled \in {TRUE, FALSE}
    /\ pass.settled = TRUE => HiddenTargets(pass.states) = pass.hidden

LEMMA PassLatches ==
  ASSUME NEW S, NEW rules \in Seq(S), NEW answers, NEW under, NEW before, Latched(before)
  PROVE  LET after == NextPass(before, rules, answers, under)
         IN Latched(after) /\ before.hidden \subseteq after.hidden
<1> DEFINE after == NextPass(before, rules, answers, under)
<1>1. CASE before.settled = TRUE
  <2>1. after = before
    BY <1>1 DEF NextPass
  <2> QED BY <2>1
<1>2. CASE before.settled = FALSE
  <2>1. Pass(after, before, rules, answers, under)
    BY <1>2, PassIs
  <2> HIDE DEF after
  <2>2. after.settled \in {TRUE, FALSE} /\ HiddenTargets(after.states) = after.hidden
        /\ before.hidden \subseteq after.hidden
    BY <2>1 DEF Pass
  <2> QED BY <2>2 DEF after, Latched
<1> QED BY <1>1, <1>2 DEF Latched

LEMMA PassesLatch ==
  ASSUME NEW S, NEW rules \in Seq(S), NEW answers, NEW under, NEW N \in Nat, NEW p,
         PassesBy(p, N, rules, answers, under)
  PROVE  \A k \in 0 .. N : Latched(p[k]) /\ p[k].hidden \subseteq p[N].hidden
<1> DEFINE T == {k \in Nat : k <= N => Latched(p[k])}
<1>1. 0 \in T
  <2>1. p[0] = FirstPass(answers)
    BY DEF PassesBy
  <2>2. Latched(FirstPass(answers))
    BY DEF FirstPass, Latched
  <2> QED BY <2>1, <2>2
<1>2. ASSUME NEW k \in 0 .. N, k < N, Latched(p[k])
      PROVE  Latched(p[k + 1]) /\ p[k].hidden \subseteq p[k + 1].hidden
  <2>1. k + 1 \in 1 .. N /\ k + 1 - 1 = k
    BY <1>2
  <2>2. p[k + 1] = NextPass(p[k], rules, answers, under)
    BY <2>1 DEF PassesBy
  <2>3. /\ Latched(NextPass(p[k], rules, answers, under))
        /\ p[k].hidden \subseteq NextPass(p[k], rules, answers, under).hidden
    BY <1>2, PassLatches
  <2> QED BY <2>2, <2>3
<1>3. ASSUME NEW k \in Nat, k \in T PROVE k + 1 \in T
  BY <1>2, <1>3
<1> HIDE DEF T
<1>4. T = Nat
  <2>1. \A k \in Nat : k \in T
    BY <1>1, <1>3, Induction
  <2> QED BY <2>1 DEF T
<1>5. \A k \in 0 .. N : Latched(p[k])
  BY <1>4 DEF T
<1> DEFINE D == {j \in Nat : j <= N => p[N - j].hidden \subseteq p[N].hidden}
<1>6. 0 \in D
  OBVIOUS
<1>7. ASSUME NEW j \in Nat, j \in D PROVE j + 1 \in D
  <2> SUFFICES ASSUME j + 1 <= N PROVE p[N - (j + 1)].hidden \subseteq p[N].hidden
    OBVIOUS
  <2>1. N - (j + 1) \in 0 .. N /\ N - (j + 1) < N /\ N - (j + 1) + 1 = N - j
    OBVIOUS
  <2>2. p[N - (j + 1)].hidden \subseteq p[N - j].hidden
    BY <1>2, <1>5, <2>1
  <2>3. p[N - j].hidden \subseteq p[N].hidden
    BY <1>7
  <2> QED BY <2>2, <2>3
<1> HIDE DEF D
<1>8. \A j \in Nat : j \in D
  BY <1>6, <1>7, Induction
<1>9. ASSUME NEW k \in 0 .. N PROVE p[k].hidden \subseteq p[N].hidden
  <2>1. N - k \in Nat /\ N - k <= N /\ N - (N - k) = k
    OBVIOUS
  <2>2. N - k \in D
    BY <1>8, <2>1
  <2> QED BY <2>1, <2>2 DEF D
<1> QED BY <1>5, <1>9

Beside(hidden, first, second, under) == Covered(hidden, under) \cap (DOMAIN second \ DOMAIN first) = {}

LEMMA WithoutBeside ==
  ASSUME NEW first, NEW second, DOMAIN first \subseteq DOMAIN second,
         NEW C, NEW E, C \subseteq E, E \cap (DOMAIN second \ DOMAIN first) = {},
         Without(first, E) = Without(first, C)
  PROVE  Without(second, E) = Without(second, C)
<1>1. DOMAIN first \ E = DOMAIN first \ C
  BY DEF Without
<1>2. DOMAIN second \ E = DOMAIN second \ C
  BY <1>1
<1> QED BY <1>2 DEF Without

Same(p, q, first, second, under) ==
    /\ q.settled \in {TRUE, FALSE} /\ p.settled = q.settled
    /\ p.hidden = q.hidden /\ p.states = q.states
    /\ p.answers = Without(first, Covered(q.hidden, under))
    /\ q.answers = Without(second, Covered(q.hidden, under))

LEMMA SameStep ==
  ASSUME NEW rules, NEW under, NEW first, NEW second, InTandem(rules, rules, first, second),
         NEW p, NEW q, Same(p, q, first, second, under),
         Beside(NextPass(q, rules, second, under).hidden, first, second, under)
  PROVE  Same(NextPass(p, rules, first, under), NextPass(q, rules, second, under), first, second, under)
<1> DEFINE after == NextPass(p, rules, first, under)
           later == NextPass(q, rules, second, under)
           C == Covered(q.hidden, under)
           E == Covered(later.hidden, under)
<1>1. /\ p.hidden = q.hidden /\ p.answers = Without(first, C) /\ q.answers = Without(second, C)
      /\ q.settled \in {TRUE, FALSE} /\ p.settled = q.settled
  BY DEF Same
<1>2. CASE q.settled = TRUE
  <2>1. after = p /\ later = q
    BY <1>1, <1>2 DEF NextPass
  <2> QED BY <2>1
<1>3. CASE q.settled = FALSE
  <2>1. Pass(after, p, rules, first, under) /\ Pass(later, q, rules, second, under)
    <3>1. PICK S : rules \in Seq(S)
      BY DEF InTandem
    <3> QED BY <1>1, <1>3, <3>1, PassIs
  <2>2. /\ after.states = RuleStates(rules, p.answers, p.hidden)
        /\ later.states = RuleStates(rules, q.answers, q.hidden)
    BY <1>1, <1>3, NextIs
  <2> HIDE DEF after, later, C
  <2>3. Alike(p.answers, q.answers)
    <3>1. Alike(first, second)
      BY DEF InTandem
    <3>2. Alike(Without(first, C), Without(second, C))
      BY <3>1, AlikeWithout
    <3> QED BY <1>1, <3>2
  <2>4. HiddenBy(rules, p.answers) = HiddenBy(rules, q.answers) /\ StatesAlike(rules, p.answers, q.answers)
    BY <2>3, AlikeHidden, AlikeStates DEF InTandem
  <2>5. after.hidden = later.hidden /\ after.states = later.states
    BY <1>1, <2>1, <2>2, <2>4 DEF Pass, StatesAlike
  <2>6. after.answers = Without(first, E) /\ later.answers = Without(second, E)
    BY <2>1, <2>5 DEF Pass
  <2>7. C \subseteq E
    BY <2>1 DEF Pass, C, Covered
  <2>8. E \cap (DOMAIN second \ DOMAIN first) = {} /\ DOMAIN first \subseteq DOMAIN second
    BY DEF Beside, later, InTandem
  <2> HIDE DEF E
  <2>9. later.answers = q.answers <=> after.answers = p.answers
    BY <1>1, <2>6, <2>7, <2>8, WithoutAlike, WithoutBeside
  <2>10. later.settled \in {TRUE, FALSE} /\ after.settled = later.settled
    BY <2>1, <2>9 DEF Pass
  <2>11. Same(after, later, first, second, under)
    BY <2>5, <2>6, <2>10 DEF Same, E
  <2> QED BY <2>11 DEF after, later
<1> QED BY <1>1, <1>2, <1>3

LEMMA SameOutcome ==
  ASSUME NEW rules, NEW under, NEW first, NEW second, InTandem(rules, rules, first, second),
         ~Evaluate(rules, second, under).refused,
         Beside(HiddenTargets(Evaluate(rules, second, under).states), first, second, under)
  PROVE  Evaluate(rules, first, under) = Evaluate(rules, second, under)
<1> DEFINE N == MaxPasses
<1>1. PICK p : PassesBy(p, N, rules, first, under) /\ Evaluate(rules, first, under) = Outcome(p[N])
  <2>1. PICK S : rules \in Seq(S)
    BY DEF InTandem
  <2> QED BY <2>1, EvaluateIs
<1>2. PICK q : PassesBy(q, N, rules, second, under) /\ Evaluate(rules, second, under) = Outcome(q[N])
  <2>1. PICK S : rules \in Seq(S)
    BY DEF InTandem
  <2> QED BY <2>1, EvaluateIs
<1>3. N \in Nat
  BY MaxPassesAssumption
<1> HIDE DEF N
<1>4. \A k \in 0 .. N : Latched(q[k]) /\ q[k].hidden \subseteq q[N].hidden
  <2>1. PICK S : rules \in Seq(S)
    BY DEF InTandem
  <2> QED BY <1>2, <1>3, <2>1, PassesLatch
<1>0. Latched(q[N])
  <2>1. N \in 0 .. N
    BY <1>3
  <2> QED BY <1>4, <2>1
<1>5. q[N].settled = TRUE
  <2>1. Outcome(q[N]).refused = ~q[N].settled
    BY DEF Outcome
  <2>2. ~ ~q[N].settled
    BY <1>2, <2>1, Zenon
  <2>3. q[N].settled \in {TRUE, FALSE}
    BY <1>0 DEF Latched
  <2> QED BY <2>2, <2>3
<1>6. Evaluate(rules, second, under).states = q[N].states
  <2>1. Outcome(q[N]).states = q[N].states
    BY <1>5 DEF Outcome
  <2> QED BY <1>2, <2>1
<1>7. HiddenTargets(q[N].states) = q[N].hidden
  BY <1>0, <1>5 DEF Latched
<1>8. \A k \in 0 .. N : Beside(q[k].hidden, first, second, under)
  <2>1. Beside(q[N].hidden, first, second, under)
    BY <1>6, <1>7
  <2>2. ASSUME NEW k \in 0 .. N PROVE Covered(q[k].hidden, under) \subseteq Covered(q[N].hidden, under)
    BY <1>4 DEF Covered
  <2> QED BY <2>1, <2>2 DEF Beside
<1> DEFINE T == {k \in Nat : k <= N => Same(p[k], q[k], first, second, under)}
<1>9. 0 \in T
  <2>1. p[0] = FirstPass(first) /\ q[0] = FirstPass(second)
    BY <1>1, <1>2 DEF PassesBy
  <2>2. Covered({}, under) = {}
    BY DEF Covered
  <2>3. Without(first, {}) = first /\ Without(second, {}) = second
    BY DEF Without, InTandem
  <2>4. Same(FirstPass(first), FirstPass(second), first, second, under)
    BY <2>2, <2>3 DEF FirstPass, Same
  <2> QED BY <2>1, <2>4
<1>10. ASSUME NEW k \in Nat, k \in T PROVE k + 1 \in T
  <2> SUFFICES ASSUME k + 1 <= N PROVE Same(p[k + 1], q[k + 1], first, second, under)
    OBVIOUS
  <2>1. k + 1 \in 1 .. N /\ k + 1 - 1 = k /\ k + 1 \in 0 .. N /\ Same(p[k], q[k], first, second, under)
    BY <1>3, <1>10
  <2>2. p[k + 1] = NextPass(p[k], rules, first, under) /\ q[k + 1] = NextPass(q[k], rules, second, under)
    BY <1>1, <1>2, <2>1 DEF PassesBy
  <2>3. Beside(NextPass(q[k], rules, second, under).hidden, first, second, under)
    BY <1>8, <2>1, <2>2
  <2>4. Same(NextPass(p[k], rules, first, under), NextPass(q[k], rules, second, under), first, second, under)
    BY <2>1, <2>3, SameStep
  <2> QED BY <2>2, <2>4
<1> HIDE DEF T
<1>11. N \in T
  BY <1>3, <1>9, <1>10, Induction
<1>12. p[N].settled = q[N].settled /\ p[N].states = q[N].states
  BY <1>3, <1>11 DEF T, Same
<1>13. Outcome(p[N]) = Outcome(q[N])
  BY <1>12, Zenon DEF Outcome
<1> QED BY <1>1, <1>2, <1>13

(* Rules that hide none of the answers are done after one pass.             *)
LEMMA SettlesAtOnce ==
  ASSUME NEW S, NEW rules \in Seq(S), NEW answers, NEW under,
         answers = [o \in DOMAIN answers |-> answers[o]],
         Covered(HiddenBy(rules, answers), under) \cap DOMAIN answers = {}
  PROVE  HiddenTargets(Evaluate(rules, answers, under).states) = HiddenBy(rules, answers)
<1> DEFINE N == MaxPasses
           first == FirstPass(answers)
           after == NextPass(first, rules, answers, under)
<1>1. PICK p : PassesBy(p, N, rules, answers, under) /\ Evaluate(rules, answers, under) = Outcome(p[N])
  BY EvaluateIs
<1>2. N \in Nat /\ N >= 1
  BY MaxPassesAssumption
<1>3. first.settled = FALSE /\ first.hidden = {} /\ first.answers = answers
  BY DEF FirstPass
<1> HIDE DEF N, first
<1>4. Pass(after, first, rules, answers, under)
  BY <1>3, PassIs
<1> HIDE DEF after
<1>5. after.hidden = HiddenBy(rules, answers)
  BY <1>3, <1>4 DEF Pass
<1>6. after.answers = answers
  <2>1. after.answers = Without(answers, Covered(HiddenBy(rules, answers), under))
    BY <1>4, <1>5 DEF Pass
  <2>2. DOMAIN answers \ Covered(HiddenBy(rules, answers), under) = DOMAIN answers
    OBVIOUS
  <2> QED BY <2>1, <2>2 DEF Without
<1>7. after.settled = TRUE /\ HiddenTargets(after.states) = HiddenBy(rules, answers)
  BY <1>3, <1>4, <1>5, <1>6 DEF Pass
<1> DEFINE T == {k \in Nat : k + 1 <= N => p[k + 1] = after}
<1>8. 0 \in T
  <2>1. 1 \in 1 .. N /\ 1 - 1 = 0
    BY <1>2
  <2>2. p[1] = NextPass(p[0], rules, answers, under) /\ p[0] = first
    BY <1>1, <2>1 DEF PassesBy, first
  <2>3. p[0 + 1] = after
    BY <2>2 DEF after
  <2> QED BY <2>3
<1>9. ASSUME NEW k \in Nat, k \in T PROVE k + 1 \in T
  <2> SUFFICES ASSUME k + 1 + 1 <= N PROVE p[k + 1 + 1] = after
    OBVIOUS
  <2>1. k + 1 + 1 \in 1 .. N /\ k + 1 + 1 - 1 = k + 1 /\ p[k + 1] = after
    BY <1>2, <1>9
  <2>2. p[k + 1 + 1] = NextPass(after, rules, answers, under)
    BY <1>1, <2>1 DEF PassesBy
  <2> QED BY <1>7, <2>2 DEF NextPass
<1> HIDE DEF T
<1>10. p[N] = after
  <2>1. N - 1 \in Nat /\ N - 1 + 1 = N
    BY <1>2
  <2>2. N - 1 \in T
    BY <1>8, <1>9, <2>1, Induction
  <2> QED BY <2>1, <2>2 DEF T
<1>11. Outcome(after).states = after.states
  BY <1>7 DEF Outcome
<1> QED BY <1>1, <1>7, <1>10, <1>11

(* What an evaluation hides is a target of its rules.                       *)
LEMMA HidesTargets ==
  ASSUME NEW S, NEW rules \in Seq(S), NEW answers, NEW under
  PROVE  HiddenTargets(Evaluate(rules, answers, under).states) \subseteq {rule.target : rule \in ToSet(rules)}
<1> DEFINE N == MaxPasses
           R == {rule.target : rule \in ToSet(rules)}
<1>1. PICK p : PassesBy(p, N, rules, answers, under) /\ Evaluate(rules, answers, under) = Outcome(p[N])
  BY EvaluateIs
<1>2. N \in Nat
  BY MaxPassesAssumption
<1>3. \A a : HiddenBy(rules, a) \subseteq R
  BY DEF HiddenBy, Firing
<1> HIDE DEF N, R
<1>4. \A k \in 0 .. N : Latched(p[k])
  BY <1>1, <1>2, PassesLatch
<1> DEFINE T == {k \in Nat : k <= N => p[k].hidden \subseteq R}
<1>5. 0 \in T
  BY <1>1 DEF PassesBy, FirstPass
<1>6. ASSUME NEW k \in Nat, k \in T PROVE k + 1 \in T
  <2> SUFFICES ASSUME k + 1 <= N PROVE p[k + 1].hidden \subseteq R
    OBVIOUS
  <2>1. k + 1 \in 1 .. N /\ k + 1 - 1 = k /\ k \in 0 .. N /\ p[k].hidden \subseteq R
    BY <1>2, <1>6
  <2>2. p[k + 1] = NextPass(p[k], rules, answers, under)
    BY <1>1, <2>1 DEF PassesBy
  <2>3. CASE p[k].settled = TRUE
    BY <2>1, <2>2, <2>3 DEF NextPass
  <2>4. CASE p[k].settled = FALSE
    <3>1. Pass(p[k + 1], p[k], rules, answers, under)
      BY <2>2, <2>4, PassIs
    <3> QED BY <1>3, <2>1, <3>1 DEF Pass
  <2> QED BY <1>4, <2>1, <2>3, <2>4 DEF Latched
<1> HIDE DEF T
<1>7. p[N].hidden \subseteq R /\ Latched(p[N])
  <2>1. N \in T
    BY <1>2, <1>5, <1>6, Induction
  <2> QED BY <1>2, <1>4, <2>1 DEF T
<1>8. CASE p[N].settled = TRUE
  <2>1. Outcome(p[N]).states = p[N].states
    BY <1>8 DEF Outcome
  <2> QED BY <1>1, <1>7, <1>8, <2>1 DEF Latched, R
<1>9. CASE p[N].settled = FALSE
  <2>1. Outcome(p[N]).states = <<>>
    BY <1>9 DEF Outcome
  <2>2. HiddenTargets(<<>>) = {}
    BY DEF HiddenTargets
  <2> QED BY <1>1, <2>1, <2>2
<1> QED BY <1>7, <1>8, <1>9 DEF Latched

-----------------------------------------------------------------------------
(* What the engine answers for one line. *)
LEMMA SameOptions ==
  ASSUME NEW cfg, NEW other, cfg.options = other.options
  PROVE  /\ Containment(cfg) = Containment(other)
         /\ \A verdicts, taken : TextSize(cfg, verdicts, taken) = TextSize(other, verdicts, taken)
         /\ \A verdicts, states, hidden : Missing(cfg, verdicts, states, hidden) = Missing(other, verdicts, states, hidden)
         /\ \A o, answer, states, hidden, hiddenValues, cost, clock :
               Answered(cfg, o, answer, states, hidden, hiddenValues, cost, clock)
               = Answered(other, o, answer, states, hidden, hiddenValues, cost, clock)
<1>1. Containment(cfg) = Containment(other)
  BY DEF Containment
<1>2. ASSUME NEW verdicts, NEW taken PROVE TextSize(cfg, verdicts, taken) = TextSize(other, verdicts, taken)
  BY DEF TextSize
<1>3. ASSUME NEW verdicts, NEW states, NEW hidden PROVE Missing(cfg, verdicts, states, hidden) = Missing(other, verdicts, states, hidden)
  BY DEF Missing
<1>4. ASSUME NEW o, NEW answer, NEW states, NEW hidden, NEW hiddenValues, NEW cost, NEW clock
   PROVE    Answered(cfg, o, answer, states, hidden, hiddenValues, cost, clock)
               = Answered(other, o, answer, states, hidden, hiddenValues, cost, clock)
  BY DEF Answered
<1> QED BY <1>1, <1>2, <1>3, <1>4

LEMMA SameRulesSameHiddenValues ==
  ASSUME NEW S, NEW rules \in Seq(S), NEW others \in Seq(S), ToSet(rules) = ToSet(others), NEW states
  PROVE  HiddenValues(rules, states) = HiddenValues(others, states)
<1> DEFINE Hides(R, t) == \E rule \in R : rule.target = t /\ rule.targetType = "value"
<1>1. \A t : (\E i \in DOMAIN rules : rules[i].target = t /\ rules[i].targetType = "value") <=> Hides(ToSet(rules), t)
  BY DEF ToSet
<1>2. \A t : (\E i \in DOMAIN others : others[i].target = t /\ others[i].targetType = "value") <=> Hides(ToSet(others), t)
  BY DEF ToSet
<1> HIDE DEF Hides
<1> QED BY <1>1, <1>2 DEF HiddenValues

(* The same document with its rules in another order resolves alike. *)
LEMMA SameRulesResolveAlike ==
  ASSUME NEW cfg, NEW other, cfg.options = other.options,
         NEW S, cfg.rules \in Seq(S), other.rules \in Seq(S), ToSet(cfg.rules) = ToSet(other.rules),
         NEW selections, NEW cost, NEW clock
  PROVE  Resolve(cfg, selections, cost, clock) = Resolve(other, selections, cost, clock)
<1> DEFINE answers == RuleAnswers(cfg.options, selections)
           under == Containment(cfg)
           e == Evaluate(cfg.rules, answers, under)
<1>1. under = Containment(other) /\ answers = RuleAnswers(other.options, selections)
  BY SameOptions
<1>2. \A a, h : RuleStates(cfg.rules, a, h) = RuleStates(other.rules, a, h)
  BY SameRulesSameStates
<1>3. e = Evaluate(other.rules, answers, under)
  BY <1>2, SameStatesSamePasses
<1>4. \A states : HiddenValues(cfg.rules, states) = HiddenValues(other.rules, states)
  BY SameRulesSameHiddenValues
<1> HIDE DEF answers, under, e
<1> DEFINE hidden == HiddenOptions(e.states, under)
           v == Verdicts(cfg, selections, cost, clock, e.states, hidden)
           w == Verdicts(other, selections, cost, clock, e.states, hidden)
<1>5. v = w
  <2> DEFINE D == DOMAIN selections \cap DOMAIN cfg.options
  <2>1. DOMAIN v = D /\ DOMAIN w = D /\ v = [o \in D |-> v[o]] /\ w = [o \in D |-> w[o]]
    BY DEF Verdicts
  <2>2. ASSUME NEW o \in D PROVE v[o] = w[o]
    <3>1. v[o] = Answered(cfg, o, selections[o], e.states, hidden, HiddenValues(cfg.rules, e.states), cost, clock)
      BY DEF Verdicts
    <3>2. w[o] = Answered(other, o, selections[o], e.states, hidden, HiddenValues(other.rules, e.states), cost, clock)
      BY DEF Verdicts
    <3> QED BY <3>1, <3>2, <1>4, SameOptions
  <2> HIDE DEF v, w
  <2> QED BY <2>1, <2>2
<1> HIDE DEF v, w
<1>6. Errors(cfg, selections, e.states, hidden, v) = Errors(other, selections, e.states, hidden, v)
  <2>1. \A taken : TextSize(cfg, v, taken) = TextSize(other, v, taken)
    BY SameOptions
  <2>2. Missing(cfg, v, e.states, hidden) = Missing(other, v, e.states, hidden)
    BY SameOptions
  <2> QED BY <2>1, <2>2 DEF Errors
<1>7. Judged(cfg, selections, cost, e.states, hidden, v) = Judged(other, selections, cost, e.states, hidden, v)
  BY <1>6 DEF Judged
<1>8. Settled(cfg, selections, cost, clock, e) = Settled(other, selections, cost, clock, e)
  BY <1>1, <1>5, <1>7 DEF Settled, RuledBy, hidden, v, w, under
<1> QED BY <1>1, <1>3, <1>8 DEF Resolve, answers, under, e

LEMMA ReverseIs ==
  ASSUME NEW S, NEW q \in Seq(S)
  PROVE  Reverse(q) \in Seq(S) /\ ToSet(Reverse(q)) = ToSet(q)
<1> DEFINE r == Reverse(q)
<1>1. Len(q) \in Nat /\ DOMAIN q = 1 .. Len(q) /\ \A i \in 1 .. Len(q) : q[i] \in S /\ Len(q) - i + 1 \in 1 .. Len(q)
  OBVIOUS
<1>2. r = [i \in 1 .. Len(q) |-> q[(Len(q) - i) + 1]]
  BY DEF Reverse
<1>3. DOMAIN r = 1 .. Len(q) /\ \A i \in 1 .. Len(q) : r[i] = q[Len(q) - i + 1]
  BY <1>2
<1>4. r \in Seq(S)
  BY <1>1, <1>2
<1> HIDE DEF r
<1>5. \A i \in 1 .. Len(q) : q[i] = r[Len(q) - i + 1]
  BY <1>1, <1>3
<1>6. ToSet(r) = ToSet(q)
  BY <1>1, <1>3, <1>5 DEF ToSet
<1> QED BY <1>4, <1>6 DEF r

FirstOf(s) == CHOOSE x \in s : TRUE

(* g adds the values of f one at a time, from b. *)
Adds(g, b, f, N) ==
    /\ DOMAIN g = N
    /\ \A s \in N : g[s] = IF s = {} THEN b ELSE f[FirstOf(s)] + g[s \ {FirstOf(s)}]

Smaller(D, n) == {s \in SUBSET D : Cardinality(s) <= n}

LEMMA FirstOfIs ==
  ASSUME NEW D, IsFiniteSet(D), NEW s \in SUBSET D, s # {}
  PROVE  /\ FirstOf(s) \in s /\ s \ {FirstOf(s)} \in SUBSET D
         /\ IsFiniteSet(s) /\ Cardinality(s) \in Nat
         /\ Cardinality(s \ {FirstOf(s)}) = Cardinality(s) - 1
         /\ Cardinality(s) >= 1
<1>1. FirstOf(s) \in s
  BY DEF FirstOf
<1>2. IsFiniteSet(s) /\ Cardinality(s) \in Nat
  BY FS_Subset, FS_CardinalityType
<1>3. Cardinality(s \ {FirstOf(s)}) = Cardinality(s) - 1
  BY <1>1, <1>2, FS_RemoveElement
<1>4. Cardinality(s \ {FirstOf(s)}) \in Nat
  BY <1>2, FS_Subset, FS_CardinalityType
<1> QED BY <1>1, <1>2, <1>3, <1>4

LEMMA AddsUpTo ==
  ASSUME NEW D, IsFiniteSet(D), NEW f, NEW b, NEW n \in Nat
  PROVE  \E g : Adds(g, b, f, Smaller(D, n))
<1> DEFINE T == {k \in Nat : \E g : Adds(g, b, f, Smaller(D, k))}
<1>1. 0 \in T
  <2> DEFINE g == [s \in Smaller(D, 0) |-> b]
  <2>1. \A s \in Smaller(D, 0) : s = {}
    <3> SUFFICES ASSUME NEW s \in Smaller(D, 0) PROVE s = {}
      OBVIOUS
    <3>1. IsFiniteSet(s) /\ Cardinality(s) \in Nat /\ Cardinality(s) <= 0
      BY FS_Subset, FS_CardinalityType DEF Smaller
    <3> QED BY <3>1, FS_EmptySet
  <2>2. Adds(g, b, f, Smaller(D, 0))
    BY <2>1 DEF Adds
  <2> QED BY <2>2
<1>2. ASSUME NEW k \in Nat, k \in T PROVE k + 1 \in T
  <2>1. PICK g : Adds(g, b, f, Smaller(D, k))
    BY <1>2
  <2> DEFINE h == [s \in Smaller(D, k + 1) |-> IF s = {} THEN b ELSE f[FirstOf(s)] + g[s \ {FirstOf(s)}]]
  <2>2. ASSUME NEW s \in Smaller(D, k + 1), s # {}
        PROVE  h[s \ {FirstOf(s)}] = g[s \ {FirstOf(s)}]
    <3> DEFINE r == s \ {FirstOf(s)}
    <3>1. r \in SUBSET D /\ Cardinality(r) = Cardinality(s) - 1 /\ Cardinality(s) \in Nat /\ Cardinality(s) <= k + 1
      BY <2>2, FirstOfIs DEF Smaller
    <3>2. r \in Smaller(D, k) /\ r \in Smaller(D, k + 1)
      BY <3>1 DEF Smaller
    <3>3. g[r] = IF r = {} THEN b ELSE f[FirstOf(r)] + g[r \ {FirstOf(r)}]
      BY <2>1, <3>2 DEF Adds
    <3> QED BY <3>2, <3>3
  <2>3. Adds(h, b, f, Smaller(D, k + 1))
    BY <2>2 DEF Adds
  <2> QED BY <2>3
<1> HIDE DEF T
<1>3. Nat \subseteq T
  BY <1>1, <1>2, Induction
<1> QED BY <1>3 DEF T

LEMMA SumIs ==
  ASSUME NEW f, IsFiniteSet(DOMAIN f)
  PROVE  \E g : Adds(g, 0, f, SUBSET DOMAIN f) /\ SumFunction(f) = g[DOMAIN f]
<1> DEFINE D == DOMAIN f
           sum == CHOOSE g : g = [s \in SUBSET D |-> IF s = {} THEN 0 ELSE f[FirstOf(s)] + g[s \ {FirstOf(s)}]]
<1>1. SumFunction(f) = sum[D]
  BY DEF SumFunction, SumFunctionOnSet, FoldFunctionOnSet, MapThenFoldSet, FirstOf
<1>2. PICK g : Adds(g, 0, f, Smaller(D, Cardinality(D)))
  BY AddsUpTo, FS_CardinalityType
<1>3. Smaller(D, Cardinality(D)) = SUBSET D
  BY FS_Subset DEF Smaller
<1>4. Adds(g, 0, f, SUBSET D)
  BY <1>2, <1>3
<1> DEFINE h == [s \in SUBSET D |-> g[s]]
<1>5. h = [s \in SUBSET D |-> IF s = {} THEN 0 ELSE f[FirstOf(s)] + h[s \ {FirstOf(s)}]]
  <2>1. ASSUME NEW s \in SUBSET D PROVE h[s] = IF s = {} THEN 0 ELSE f[FirstOf(s)] + h[s \ {FirstOf(s)}]
    BY <1>4 DEF Adds
  <2> QED BY <2>1
<1>6. sum = [s \in SUBSET D |-> IF s = {} THEN 0 ELSE f[FirstOf(s)] + sum[s \ {FirstOf(s)}]]
  <2> HIDE DEF h
  <2> QED BY <1>5, Zenon
<1> HIDE DEF sum
<1>7. Adds(sum, 0, f, SUBSET D)
  BY <1>6, Zenon DEF Adds
<1> QED BY <1>1, <1>7

LEMMA SumIsInteger ==
  ASSUME NEW f, IsFiniteSet(DOMAIN f), \A i \in DOMAIN f : f[i] \in Int
  PROVE  SumFunction(f) \in Int
<1> DEFINE D == DOMAIN f
<1>1. PICK g : Adds(g, 0, f, SUBSET D) /\ SumFunction(f) = g[D]
  BY SumIs
<1> DEFINE T == {k \in Nat : \A s \in SUBSET D : Cardinality(s) = k => g[s] \in Int}
<1>2. 0 \in T
  <2> SUFFICES ASSUME NEW s \in SUBSET D, Cardinality(s) = 0 PROVE g[s] \in Int
    OBVIOUS
  <2>1. s = {}
    BY FS_Subset, FS_EmptySet
  <2>2. g[s] = 0
    BY <2>1, <1>1 DEF Adds
  <2> QED BY <2>2
<1>3. ASSUME NEW k \in Nat, k \in T PROVE k + 1 \in T
  <2> SUFFICES ASSUME NEW s \in SUBSET D, Cardinality(s) = k + 1 PROVE g[s] \in Int
    OBVIOUS
  <2> DEFINE r == s \ {FirstOf(s)}
  <2>1. s # {}
    BY FS_EmptySet
  <2>2. FirstOf(s) \in D /\ r \in SUBSET D /\ Cardinality(r) = k
    BY <2>1, FirstOfIs
  <2>3. g[r] \in Int
    BY <1>3, <2>2
  <2>4. g[s] = f[FirstOf(s)] + g[r] /\ f[FirstOf(s)] \in Int
    BY <2>1, <2>2, <1>1 DEF Adds
  <2> QED BY <2>3, <2>4
<1> HIDE DEF T
<1>4. Nat \subseteq T
  BY <1>2, <1>3, Induction
<1>5. Cardinality(D) \in T
  BY <1>4, FS_CardinalityType
<1> QED BY <1>1, <1>5 DEF T

LEMMA RoundedIs ==
  ASSUME NEW n \in Int, NEW d \in Nat, d > 0
  PROVE  Rounded(n, d) \in Int
<1>1. Magnitude(n) \in Nat
  BY DEF Magnitude
<1>2. Magnitude(n) \div d \in Int
  BY <1>1
<1> DEFINE quotient == Magnitude(n) \div d
<1> HIDE DEF quotient
<1>3. Rounded(n, d) = LET up == IF 2 * (Magnitude(n) % d) >= d THEN quotient + 1 ELSE quotient
                      IN IF n < 0 THEN -up ELSE up
  BY DEF Rounded, quotient
<1>4. quotient \in Int
  BY <1>2 DEF quotient
<1> QED BY <1>3, <1>4

Amounts == Int \cup {Unpriceable}

LEMMA PercentageIs ==
  ASSUME NEW cost \in Int, NEW points \in Int
  PROVE  PercentageOf(cost, points) \in Amounts
<1>1. cost * points \in Int
  OBVIOUS
<1>2. Rounded(cost * points, Points) \in Int
  <2>1. Points \in Nat /\ Points > 0
    BY DEF Points
  <2> QED BY <1>1, <2>1, RoundedIs
<1> QED BY <1>2 DEF PercentageOf, Amounts

LEMMA PerUnitIs ==
  ASSUME NEW amount \in Int, NEW quantity \in Int
  PROVE  PerUnitOf(amount, quantity) \in Amounts
<1>1. quantity * amount \in Int
  OBVIOUS
<1>2. Rounded(quantity * amount, Scale) \in Int
  <2>1. Scale \in Nat /\ Scale > 0
    BY DEF Scale
  <2> QED BY <1>1, <2>1, RoundedIs
<1> QED BY <1>2 DEF PerUnitOf, Amounts

LEMMA PriceOrIs ==
  ASSUME NEW amount \in Amounts, NEW type
  PROVE  PriceOr(amount, type).amount \in Int
  BY UnpriceableAssumption DEF PriceOr, Amounts, Price, NoPrice

LEMMA DeltaForIs ==
  ASSUME NEW value, IsPrice(value.price), NEW cost \in Int
  PROVE  DeltaFor(value, cost).amount \in Int
<1>1. CASE value.price.type = "none"
  BY <1>1 DEF DeltaFor, Price
<1>2. CASE value.price.type = "percentage"
  <2>1. PercentageOf(cost, value.price.points) \in Amounts
    BY <1>2, PercentageIs DEF IsPrice
  <2>2. PriceOr(PercentageOf(cost, value.price.points), "percentage").amount \in Int
    BY <2>1, PriceOrIs
  <2> QED BY <1>2, <2>2 DEF DeltaFor
<1>3. CASE value.price.type = "fixed"
  BY <1>3 DEF DeltaFor, Price, IsPrice
<1>4. CASE value.price.type \notin {"none", "percentage", "fixed"}
  BY <1>4 DEF DeltaFor, NoPrice
<1> QED BY <1>1, <1>2, <1>3, <1>4

LEMMA PerUnitDeltaIs ==
  ASSUME NEW type, NEW amount \in Int, NEW answer
  PROVE  PerUnitDelta(type, amount, answer).amount \in Int
<1>1. CASE answer \notin DOMAIN NumberOf
  BY <1>1 DEF PerUnitDelta, Price
<1>2. CASE answer \in DOMAIN NumberOf
  <2>1. NumberOf[answer] \in Int
    BY <1>2, TextAssumption
  <2>2. PriceOr(PerUnitOf(amount, NumberOf[answer]), type).amount \in Int
    BY <2>1, PerUnitIs, PriceOrIs
  <2> QED BY <1>2, <2>2 DEF PerUnitDelta, NoPrice
<1> QED BY <1>1, <1>2

LEMMA TieredDeltaIs ==
  ASSUME NEW pricing, \A tier \in pricing.tiers : tier.amount \in Int, NEW answer
  PROVE  TieredDelta(pricing, answer).amount \in Int
<1>1. CASE answer \notin DOMAIN NumberOf
  BY <1>1 DEF TieredDelta, Price
<1>2. CASE answer \in DOMAIN NumberOf
  <2> DEFINE amount == TierAmount(pricing.tiers, NumberOf[answer])
  <2>1. amount \subseteq Int
    BY DEF TierAmount
  <2>2. TieredDelta(pricing, answer) =
          IF amount # {} THEN PerUnitDelta(pricing.type, CHOOSE a \in amount : TRUE, answer)
          ELSE IF NumberOf[answer] > 0 THEN NoPrice(pricing.type) ELSE Price(0)
    BY <1>2 DEF TieredDelta
  <2> HIDE DEF amount
  <2>3. CASE amount # {}
    <3>1. (CHOOSE a \in amount : TRUE) \in Int
      BY <2>1, <2>3
    <3>2. PerUnitDelta(pricing.type, CHOOSE a \in amount : TRUE, answer).amount \in Int
      BY <3>1, PerUnitDeltaIs
    <3> QED BY <2>2, <2>3, <3>2
  <2>4. CASE amount = {}
    <3>1. NoPrice(pricing.type).amount = 0 /\ Price(0).amount = 0
      BY DEF NoPrice, Price
    <3>2. TieredDelta(pricing, answer) = NoPrice(pricing.type) \/ TieredDelta(pricing, answer) = Price(0)
      BY <2>2, <2>4
    <3> QED BY <3>1, <3>2
  <2> QED BY <2>3, <2>4
<1> QED BY <1>1, <1>2

LEMMA OptionDeltaIs ==
  ASSUME NEW option, IsPricing(option.pricing), NEW answer
  PROVE  OptionDelta(option, answer).amount \in Int
<1> DEFINE type == option.pricing.type
<1>1. type = "per_char" => PerCharDelta(option.pricing, answer).amount \in Int
  <2> SUFFICES ASSUME type = "per_char" PROVE PerCharDelta(option.pricing, answer).amount \in Int
    OBVIOUS
  <2>1. option.pricing.free \in Int /\ option.pricing.amount \in Int
    BY DEF IsPricing
  <2>2. Length(answer) \in Int
    <3>1. \A text \in DOMAIN LengthOf : LengthOf[text] \in Nat
      BY Zenon, TextAssumption
    <3>2. answer \in DOMAIN LengthOf => LengthOf[answer] \in Int
      BY <3>1
    <3> QED BY <3>2 DEF Length
  <2>3. (Length(answer) - option.pricing.free) * option.pricing.amount \in Int
    BY <2>1, <2>2
  <2> QED BY <2>3 DEF PerCharDelta, Price
<1>2. type = "per_unit" => PerUnitDelta(type, option.pricing.amount, answer).amount \in Int
  BY PerUnitDeltaIs DEF IsPricing
<1>3. type = "tiered" => TieredDelta(option.pricing, answer).amount \in Int
  BY TieredDeltaIs DEF IsPricing
<1>4. Price(0).amount \in Int /\ NoPrice(type).amount \in Int
  BY DEF Price, NoPrice
<1> HIDE DEF type
<1>5. OptionDelta(option, answer) \in
        {Price(0), NoPrice(type)} \cup (IF type = "per_char" THEN {PerCharDelta(option.pricing, answer)} ELSE {})
        \cup (IF type = "per_unit" THEN {PerUnitDelta(type, option.pricing.amount, answer)} ELSE {})
        \cup (IF type = "tiered" THEN {TieredDelta(option.pricing, answer)} ELSE {})
  BY DEF OptionDelta, type
<1> QED BY <1>1, <1>2, <1>3, <1>4, <1>5

StatesFit(states) == \A target \in DOMAIN states : states[target].price \subseteq Int

LEMMA EvaluationFits ==
  ASSUME NEW cfg, IsDocument(cfg), NEW answers, NEW under
  PROVE  StatesFit(Evaluate(cfg.rules, answers, under).states)
<1> DEFINE e == Evaluate(cfg.rules, answers, under)
           S == ToSet(cfg.rules)
<1>1. cfg.rules \in Seq(S) /\ \A rule \in S : rule.action = "set_price" => rule.amount \in Int
  BY DEF IsDocument
<1>2. e.refused \in BOOLEAN /\ (e.refused => e.states = <<>>) /\ (~e.refused => EndsOn(e.states, cfg.rules, answers, under))
  BY <1>1, EvaluateEnds
<1> HIDE DEF e
<1>3. CASE e.refused
  <2>1. DOMAIN e.states = {}
    BY <1>2, <1>3
  <2> QED BY <2>1 DEF StatesFit, e
<1>4. CASE ~e.refused
  <2>1. PICK left, already : e.states = RuleStates(cfg.rules, left, already)
    BY <1>2, <1>4 DEF EndsOn
  <2> DEFINE states == RuleStates(cfg.rules, left, already)
  <2>2. \A target \in DOMAIN states : StateBy(states[target], Of(Firing(cfg.rules, left), target), target \in already)
    BY <1>1, StatesAre
  <2> HIDE DEF states
  <2>3. ASSUME NEW target \in DOMAIN states PROVE states[target].price \subseteq Int
    <3> DEFINE R == Of(Firing(cfg.rules, left), target)
    <3>1. PICK su : SaysOf(su, R) /\ \A i \in Fields \ {"hidden"} : states[target][i] = su[i]
      BY <2>2 DEF StateBy
    <3>2. R \subseteq S
      BY DEF Of, Firing
    <3> HIDE DEF R
    <3>3. Priced(R) \subseteq Int
      BY <1>1, <3>2 DEF Priced
    <3>4. states[target].price = su.price
      BY <3>1 DEF Fields
    <3> QED BY <3>1, <3>3, <3>4 DEF SaysOf
  <2> QED BY <2>1, <2>3 DEF StatesFit, states, e
<1> QED BY <1>2, <1>3, <1>4

LEMMA UnderRuleIs ==
  ASSUME NEW option, NEW states, StatesFit(states), NEW o, NEW v, NEW configured, configured.amount \in Int
  PROVE  UnderRule(SetPriceFor(option, states, o, v), configured).amount \in Int
<1> DEFINE ofOption == StateOf(states, o)
           ofValue == IF v = "" THEN Unruled ELSE StateOf(states, v)
           amount == IF ofValue.price # {} THEN ofValue.price ELSE ofOption.price
           ruled == SetPriceFor(option, states, o, v)
<1>1. Unruled.price = {}
  BY DEF Unruled
<1>2. ofOption.price \subseteq Int /\ ofValue.price \subseteq Int
  BY <1>1 DEF StatesFit, StateOf
<1>3. amount \subseteq Int
  BY <1>2
<1>4. ruled = IF ofOption.conflict \/ ofValue.conflict
              THEN [ruled |-> "conflict", amount |-> {}, unpriced |-> {"rule_price_conflict"}]
              ELSE IF amount = {}
              THEN [ruled |-> "no", amount |-> {}, unpriced |-> {}]
              ELSE IF option.pricing.type \in OptionPricedTypes
              THEN [ruled |-> "no", amount |-> {}, unpriced |-> {option.pricing.type}]
              ELSE [ruled |-> "yes", amount |-> amount, unpriced |-> {}]
  BY DEF SetPriceFor
<1> HIDE DEF amount, ruled, ofOption, ofValue
<1>5. ruled.ruled = "yes" => ruled.amount \subseteq Int /\ ruled.amount # {}
  BY <1>3, <1>4
<1>6. UnderRule(ruled, configured).amount =
        CASE ruled.ruled = "conflict" -> 0
          [] ruled.ruled = "yes" -> CHOOSE a \in ruled.amount : TRUE
          [] OTHER -> configured.amount
  BY DEF UnderRule
<1>7. ruled.ruled = "yes" => (CHOOSE a \in ruled.amount : TRUE) \in Int
  BY <1>5
<1>8. UnderRule(ruled, configured).amount \in Int
  BY <1>6, <1>7
<1> QED BY <1>8 DEF ruled

LEMMA FirstFailedIs ==
  ASSUME NEW n \in Nat, NEW checks, DOMAIN checks = 1 .. n
  PROVE  \/ FirstFailed(checks) = "taken" /\ \A i \in 1 .. n : ~checks[i][1]
         \/ \E i \in 1 .. n : checks[i][1] /\ FirstFailed(checks) = checks[i][2]
<1> DEFINE failed == {i \in DOMAIN checks : checks[i][1]}
<1>1. CASE failed = {}
  BY <1>1 DEF FirstFailed
<1>2. CASE failed # {}
  <2>1. failed \subseteq Nat
    OBVIOUS
  <2>2. \E i \in failed : \A j \in failed : i <= j
    BY <1>2, <2>1, Least
  <2> DEFINE first == CHOOSE i \in failed : \A j \in failed : i <= j
  <2>3. first \in failed
    BY <2>2
  <2>4. FirstFailed(checks) = checks[first][2]
    BY <1>2 DEF FirstFailed
  <2> HIDE DEF first
  <2> QED BY <2>3, <2>4
<1> QED BY <1>1, <1>2

LEMMA ChoiceTaken ==
  ASSUME NEW option, NEW keys, NEW hiddenValues,
         FirstFailed(ChoiceChecks(option, keys, hiddenValues)) = "taken"
  PROVE  keys \subseteq Keys(option)
<1> DEFINE unknown == ~(keys \subseteq Keys(option))
           few == Has(option.validation, "min_selections") /\ Cardinality(keys) < option.validation.min_selections
           many == Has(option.validation, "max_selections") /\ Cardinality(keys) > option.validation.max_selections
           hides == \E key \in keys \cap Keys(option) : ValueFor(option, key).id \in hiddenValues
           checks == << <<unknown, "unknown_value">>, <<few, "too_few_selections">>,
                        <<many, "too_many_selections">>, <<hides, "hidden_by_rule">> >>
<1>1. ChoiceChecks(option, keys, hiddenValues) = checks
  BY DEF ChoiceChecks
<1> HIDE DEF unknown, few, many, hides
<1>2. DOMAIN checks = 1 .. 4 /\ checks[1][1] = unknown
      /\ checks[1][2] = "unknown_value" /\ checks[2][2] = "too_few_selections"
      /\ checks[3][2] = "too_many_selections" /\ checks[4][2] = "hidden_by_rule"
  OBVIOUS
<1> HIDE DEF checks
<1>3. \A i \in 1 .. 4 : checks[i][2] # "taken"
  BY <1>2
<1>4. ~checks[1][1]
  <2>1. \/ FirstFailed(checks) = "taken" /\ \A i \in 1 .. 4 : ~checks[i][1]
        \/ \E i \in 1 .. 4 : checks[i][1] /\ FirstFailed(checks) = checks[i][2]
    BY <1>2, FirstFailedIs, Zenon
  <2>2. FirstFailed(checks) = "taken" /\ 1 \in 1 .. 4
    BY <1>1
  <2> QED BY <2>1, <2>2, <1>3
<1> QED BY <1>2, <1>4 DEF unknown

LEMMA KeysAre ==
  ASSUME NEW option, IsOption(option)
  PROVE  /\ IsFiniteSet(Keys(option))
         /\ \A key \in Keys(option) : ValueFor(option, key) \in ToSet(option.values) /\ ValueFor(option, key).key = key
<1> DEFINE values == option.values
           n == Len(values)
<1>1. values \in Seq(ToSet(values)) /\ n \in Nat /\ DOMAIN values = 1 .. n
  BY DEF IsOption
<1>2. Keys(option) = {values[i].key : i \in 1 .. n}
  BY <1>1 DEF Keys
<1>3. IsFiniteSet({values[i].key : i \in 1 .. n})
  <2> DEFINE f == [i \in 1 .. n |-> values[i].key]
  <2>1. IsFiniteSet(1 .. n)
    BY <1>1, FS_Interval
  <2>2. {values[i].key : i \in 1 .. n} = {f[i] : i \in 1 .. n}
    OBVIOUS
  <2>3. f \in Surjection(1 .. n, {f[i] : i \in 1 .. n})
    BY DEF Surjection
  <2> HIDE DEF f
  <2>4. IsFiniteSet({f[i] : i \in 1 .. n})
    BY <2>1, <2>3, FS_Surjection
  <2> QED BY <2>2, <2>4
<1>4. ASSUME NEW key \in Keys(option)
      PROVE  ValueFor(option, key) \in ToSet(option.values) /\ ValueFor(option, key).key = key
  <2>1. \E value \in ToSet(option.values) : value.key = key
    BY DEF Keys, ToSet
  <2> QED BY <2>1 DEF ValueFor
<1> QED BY <1>2, <1>3, <1>4

LEMMA ChoicePriceIs ==
  ASSUME NEW option, IsOption(option), NEW states, StatesFit(states), NEW o,
         NEW keys, keys \subseteq Keys(option), NEW cost \in Int
  PROVE  ChoicePrice(option, o, states, keys, cost).amount \in Int
<1> DEFINE priced(key) == UnderRule(SetPriceFor(option, states, o, ValueFor(option, key).id),
                                    DeltaFor(ValueFor(option, key), cost))
           f == [key \in keys |-> priced(key).amount]
<1>1. \A key \in keys : priced(key).amount \in Int
  <2> SUFFICES ASSUME NEW key \in keys PROVE priced(key).amount \in Int
    OBVIOUS
  <2>1. ValueFor(option, key) \in ToSet(option.values)
    BY KeysAre
  <2>2. IsPrice(ValueFor(option, key).price)
    BY <2>1 DEF IsOption
  <2>3. DeltaFor(ValueFor(option, key), cost).amount \in Int
    BY <2>2, DeltaForIs
  <2> QED BY <2>3, UnderRuleIs
<1>2. IsFiniteSet(keys)
  BY KeysAre, FS_Subset
<1>3. ChoicePrice(option, o, states, keys, cost).amount = SumFunction(f)
  BY DEF ChoicePrice
<1> HIDE DEF priced
<1>4. DOMAIN f = keys /\ \A key \in DOMAIN f : f[key] \in Int
  BY <1>1
<1> HIDE DEF f
<1>5. SumFunction(f) \in Int
  BY <1>2, <1>4, SumIsInteger
<1> QED BY <1>3, <1>5

(* A verdict: an integer amount, and a code of its own.                     *)
Sound(verdict) == verdict.amount \in Int /\ verdict.code # "hidden_by_rule"

LEMMA VerdictIs ==
  ASSUME NEW code
  PROVE  Verdict(code).amount = 0 /\ Verdict(code).code = code
  BY DEF Verdict

LEMMA TakenTypedIs ==
  ASSUME NEW option, IsOption(option), NEW states, StatesFit(states), NEW o, NEW text
  PROVE  Sound(TakenTyped(option, o, states, text)) /\ TakenTyped(option, o, states, text).code = "taken"
<1> DEFINE price == UnderRule(SetPriceFor(option, states, o, ""), OptionDelta(option, text))
<1>1. OptionDelta(option, text).amount \in Int
  BY OptionDeltaIs DEF IsOption
<1>2. price.amount \in Int
  BY <1>1, UnderRuleIs
<1>3. TakenTyped(option, o, states, text) = Taken(Given({text}), price)
  BY DEF TakenTyped
<1> HIDE DEF price
<1> QED BY <1>2, <1>3 DEF Taken, Sound

(* The code of a list of checks is one of theirs.                           *)
LEMMA CodeIs ==
  ASSUME NEW n \in Nat, NEW checks, DOMAIN checks = 1 .. n, NEW code, \A i \in 1 .. n : checks[i][2] # code,
         code # "taken"
  PROVE  FirstFailed(checks) # code
<1>1. \/ FirstFailed(checks) = "taken" /\ \A i \in 1 .. n : ~checks[i][1]
      \/ \E i \in 1 .. n : checks[i][1] /\ FirstFailed(checks) = checks[i][2]
  BY FirstFailedIs, Zenon
<1> QED BY <1>1

LEMMA TextVerdictIs ==
  ASSUME NEW option, IsOption(option), NEW states, StatesFit(states), NEW o, NEW raw
  PROVE  Sound(TextVerdict(option, o, states, raw))
<1> DEFINE text == CleanText(raw)
           empty == text = ""
           short == Length(text) < MinLengthOf(option)
           long == Length(text) > MaxLengthOf(option)
           charset == CharsetViolation(option.validation, text)
           word == ForbiddenWord(option.validation, text)
           pattern == PatternViolation(option.validation, text)
           sizes == << <<empty, "empty">>, <<short, "too_short">>, <<long, "too_long">> >>
           rules == << <<charset, "charset">>, <<word, "forbidden_word">>, <<pattern, "pattern_mismatch">> >>
           checks == sizes \o rules
<1>1. TextVerdict(option, o, states, raw) =
         IF FirstFailed(checks) = "taken" THEN TakenTyped(option, o, states, text) ELSE Verdict(FirstFailed(checks))
  BY DEF TextVerdict, TextRuleViolation
<1> HIDE DEF empty, short, long, charset, word, pattern
<1>2. /\ DOMAIN sizes = 1 .. 3 /\ sizes[1][2] = "empty" /\ sizes[2][2] = "too_short" /\ sizes[3][2] = "too_long"
      /\ Len(sizes) = 3 /\ Len(rules) = 3
      /\ rules[1][2] = "charset" /\ rules[2][2] = "forbidden_word" /\ rules[3][2] = "pattern_mismatch"
  OBVIOUS
<1>3. DOMAIN checks = 1 .. 6 /\ \A i \in 1 .. 6 : checks[i] = IF i <= 3 THEN sizes[i] ELSE rules[i - 3]
  <2> DEFINE S == {sizes[1], sizes[2], sizes[3], rules[1], rules[2], rules[3]}
  <2>1. sizes \in Seq(S) /\ rules \in Seq(S)
    OBVIOUS
  <2> HIDE DEF sizes, rules, S
  <2>2. /\ DOMAIN checks = 1 .. Len(sizes) + Len(rules)
        /\ \A i \in 1 .. Len(sizes) + Len(rules) :
              checks[i] = IF i <= Len(sizes) THEN sizes[i] ELSE rules[i - Len(sizes)]
    BY <2>1
  <2> QED BY <1>2, <2>2
<1> HIDE DEF checks, sizes, rules
<1>4. \A i \in 1 .. 6 : checks[i][2] # "hidden_by_rule"
  BY <1>2, <1>3
<1>5. FirstFailed(checks) # "hidden_by_rule"
  BY <1>3, <1>4, CodeIs
<1>6. Sound(TakenTyped(option, o, states, text)) /\ Sound(Verdict(FirstFailed(checks)))
  BY <1>5, TakenTypedIs, VerdictIs DEF Sound
<1> QED BY <1>1, <1>6

LEMMA DateVerdictIs ==
  ASSUME NEW option, IsOption(option), NEW states, StatesFit(states), NEW o, NEW raw, NEW clock
  PROVE  Sound(DateVerdict(option, o, states, raw, clock))
<1> DEFINE v == option.validation
           day == DayOf[raw]
           early == Has(v, "min_date") /\ day < v.min_date
           late == Has(v, "max_date") /\ day > v.max_date
           blackout == Has(v, "blackout_dates") /\ day \in v.blackout_dates
           weekday == Has(v, "allowed_weekdays") /\ day % 7 \notin v.allowed_weekdays
           relative == RelativeDateViolation(v, day, clock)
           checks == << <<early, "date_out_of_range">>, <<late, "date_out_of_range">>,
                        <<blackout, "date_unavailable">>, <<weekday, "date_unavailable">>,
                        <<relative, "date_out_of_range">> >>
           code == FirstFailed(checks)
<1>1. DateVerdict(option, o, states, raw, clock) =
         IF raw = "" THEN Verdict("empty")
         ELSE IF ParseDate(raw) = {} THEN Verdict("not_a_date")
         ELSE IF code = "taken" THEN TakenTyped(option, o, states, raw) ELSE Verdict(code)
  BY DEF DateVerdict, DateViolation
<1> HIDE DEF early, late, blackout, weekday, relative
<1>2. /\ DOMAIN checks = 1 .. 5 /\ \A i \in 1 .. 5 : checks[i][2] # "hidden_by_rule"
  OBVIOUS
<1> HIDE DEF checks
<1>3. code # "hidden_by_rule"
  BY <1>2, CodeIs
<1> HIDE DEF code
<1>4. Sound(TakenTyped(option, o, states, raw)) /\ Sound(Verdict(code)) /\ Sound(Verdict("empty")) /\ Sound(Verdict("not_a_date"))
  BY <1>3, TakenTypedIs, VerdictIs DEF Sound
<1> QED BY <1>1, <1>4

LEMMA NumberVerdictIs ==
  ASSUME NEW option, IsOption(option), NEW states, StatesFit(states), NEW o, NEW raw
  PROVE  Sound(NumberVerdict(option, o, states, raw))
<1> DEFINE v == option.validation
           n == NumberOf[raw]
           from == IF Has(v, "min") THEN v.min ELSE 0
           under == Has(v, "min") /\ n < v.min
           over == Has(v, "max") /\ n > v.max
           broken == Has(v, "integer_only") /\ n % Scale # 0
           between == Has(v, "step") /\ (n - from) % v.step # 0
           checks == << <<under, "out_of_range">>, <<over, "out_of_range">>,
                        <<broken, "bad_step">>, <<between, "bad_step">> >>
           code == FirstFailed(checks)
<1>1. NumberVerdict(option, o, states, raw) =
         IF raw = "" THEN Verdict("empty")
         ELSE IF ParseNumber(raw) = {} THEN Verdict("not_a_number")
         ELSE IF code = "taken" THEN TakenTyped(option, o, states, raw) ELSE Verdict(code)
  BY DEF NumberVerdict, NumberViolation
<1> HIDE DEF under, over, broken, between
<1>2. /\ DOMAIN checks = 1 .. 4 /\ \A i \in 1 .. 4 : checks[i][2] # "hidden_by_rule"
  OBVIOUS
<1> HIDE DEF checks
<1>3. code # "hidden_by_rule"
  BY <1>2, CodeIs
<1> HIDE DEF code
<1>4. Sound(TakenTyped(option, o, states, raw)) /\ Sound(Verdict(code)) /\ Sound(Verdict("empty")) /\ Sound(Verdict("not_a_number"))
  BY <1>3, TakenTypedIs, VerdictIs DEF Sound
<1> QED BY <1>1, <1>4

LEMMA ChoiceVerdictIs ==
  ASSUME NEW option, IsOption(option), NEW states, StatesFit(states), NEW o, NEW keys,
         NEW hiddenValues, NEW cost \in Int
  PROVE  /\ ChoiceVerdict(option, o, states, keys, hiddenValues, cost).amount \in Int
         /\ hiddenValues = {} => Sound(ChoiceVerdict(option, o, states, keys, hiddenValues, cost))
<1> DEFINE verdict == ChoiceVerdict(option, o, states, keys, hiddenValues, cost)
           code == FirstFailed(ChoiceChecks(option, keys, hiddenValues))
           price == ChoicePrice(option, o, states, keys, cost)
<1>1. verdict = IF code # "taken" THEN Verdict(code)
                ELSE Taken([many |-> TakesMany(option), members |-> keys], price)
  BY DEF ChoiceVerdict
<1>2. CASE code = "taken"
  <2>1. keys \subseteq Keys(option)
    BY <1>2, ChoiceTaken
  <2>2. price.amount \in Int
    BY <2>1, ChoicePriceIs
  <2> HIDE DEF price, code
  <2>3. Sound(verdict)
    BY <1>1, <1>2, <2>2 DEF Taken, Sound
  <2> QED BY <2>3 DEF Sound
<1>3. CASE code # "taken"
  <2>1. verdict.amount = 0 /\ verdict.code = code
    BY <1>1, <1>3, VerdictIs
  <2>2. hiddenValues = {} => code # "hidden_by_rule"
    <3> SUFFICES ASSUME hiddenValues = {} PROVE code # "hidden_by_rule"
      OBVIOUS
    <3> DEFINE unknown == ~(keys \subseteq Keys(option))
               few == Has(option.validation, "min_selections") /\ Cardinality(keys) < option.validation.min_selections
               many == Has(option.validation, "max_selections") /\ Cardinality(keys) > option.validation.max_selections
               hides == \E key \in keys \cap Keys(option) : ValueFor(option, key).id \in hiddenValues
               checks == << <<unknown, "unknown_value">>, <<few, "too_few_selections">>,
                            <<many, "too_many_selections">>, <<hides, "hidden_by_rule">> >>
    <3>1. ChoiceChecks(option, keys, hiddenValues) = checks
      BY DEF ChoiceChecks
    <3>2. ~hides
      OBVIOUS
    <3> HIDE DEF unknown, few, many, hides
    <3>3. DOMAIN checks = 1 .. 4 /\ (checks[4][1] => hides)
          /\ checks[1][2] = "unknown_value" /\ checks[2][2] = "too_few_selections"
          /\ checks[3][2] = "too_many_selections"
      OBVIOUS
    <3> HIDE DEF checks
    <3>4. \/ FirstFailed(checks) = "taken" /\ \A i \in 1 .. 4 : ~checks[i][1]
          \/ \E i \in 1 .. 4 : checks[i][1] /\ FirstFailed(checks) = checks[i][2]
      BY <3>3, FirstFailedIs, Zenon
    <3>5. \A i \in 1 .. 4 : i = 1 \/ i = 2 \/ i = 3 \/ i = 4
      OBVIOUS
    <3>6. FirstFailed(checks) # "hidden_by_rule"
      BY <3>2, <3>3, <3>4, <3>5
    <3> QED BY <3>1, <3>6
  <2> QED BY <2>1, <2>2 DEF Sound
<1> QED BY <1>2, <1>3

LEMMA AnsweredIs ==
  ASSUME NEW cfg, IsDocument(cfg), NEW o \in DOMAIN cfg.options, NEW answer,
         NEW states, StatesFit(states), NEW hidden, NEW hiddenValues, NEW cost \in Int, NEW clock
  PROVE  LET verdict == Answered(cfg, o, answer, states, hidden, hiddenValues, cost, clock) IN
         /\ verdict.amount \in Int
         /\ o \notin hidden /\ hiddenValues = {} => verdict.code # "hidden_by_rule"
<1> DEFINE option == cfg.options[o]
           scalar == Scalar(answer)
           verdict == Answered(cfg, o, answer, states, hidden, hiddenValues, cost, clock)
<1>1. IsOption(option)
  BY DEF IsDocument
<1>2. verdict =
       IF o \in hidden THEN Verdict("hidden_by_rule")
       ELSE IF answer.many /\ ~TakesMany(option) THEN Verdict("not_scalar")
       ELSE IF answer.members = {} THEN Verdict("empty")
       ELSE IF IsHidden(option) THEN HiddenVerdict(option, o, states)
       ELSE CASE option.kind = "file" -> FileVerdict(option, o, states, scalar)
              [] option.kind = "text" -> TextVerdict(option, o, states, scalar)
              [] option.kind = "date" -> DateVerdict(option, o, states, scalar, clock)
              [] option.kind = "number" -> NumberVerdict(option, o, states, scalar)
              [] OTHER -> ChoiceVerdict(option, o, states, answer.members, hiddenValues, cost)
  BY DEF Answered
<1> HIDE DEF option, scalar, verdict
<1> DEFINE file == FileVerdict(option, o, states, scalar)
           web == HiddenVerdict(option, o, states)
           text == TextVerdict(option, o, states, scalar)
           date == DateVerdict(option, o, states, scalar, clock)
           number == NumberVerdict(option, o, states, scalar)
           choice == ChoiceVerdict(option, o, states, answer.members, hiddenValues, cost)
<1>3. Sound(Verdict("not_scalar")) /\ Sound(Verdict("empty")) /\ Verdict("hidden_by_rule").amount \in Int
      /\ Sound(Verdict("unknown_value"))
  BY VerdictIs DEF Sound
<1>4. Sound(web)
  BY <1>1, <1>3, TakenTypedIs DEF HiddenVerdict
<1>5. Sound(file)
  BY <1>1, <1>3, TakenTypedIs DEF FileVerdict
<1>6. Sound(text) /\ Sound(date) /\ Sound(number)
  BY <1>1, TextVerdictIs, DateVerdictIs, NumberVerdictIs
<1>7. choice.amount \in Int /\ (hiddenValues = {} => Sound(choice))
  BY <1>1, ChoiceVerdictIs
<1> HIDE DEF file, web, text, date, number, choice
<1>8. CASE o \in hidden
  <2>1. verdict = Verdict("hidden_by_rule")
    BY <1>2, <1>8
  <2> QED BY <2>1, <1>3, <1>8 DEF verdict
<1>9. CASE o \notin hidden /\ verdict \in {Verdict("not_scalar"), Verdict("empty"), web, file, text, date, number}
  <2>1. Sound(verdict)
    BY <1>3, <1>4, <1>5, <1>6, <1>9
  <2> QED BY <2>1 DEF Sound, verdict
<1>10. CASE o \notin hidden /\ verdict = choice
  BY <1>7, <1>10 DEF Sound, verdict
<1> QED BY <1>2, <1>8, <1>9, <1>10 DEF file, web, text, date, number, choice

LEMMA SumDeltasIs ==
  ASSUME NEW cost \in Int, NEW deltas, IsFiniteSet(DOMAIN deltas), \A o \in DOMAIN deltas : deltas[o] \in Int
  PROVE  /\ SumFunction(deltas) \in Int
         /\ SumDeltas(cost, deltas) # Unpriceable =>
              /\ SumDeltas(cost, deltas) = ClampToZero(cost + SumFunction(deltas))
              /\ SumDeltas(cost, deltas) \in 0 .. MaxMinor
<1> DEFINE sum == SumFunction(deltas)
<1>1. sum \in Int
  BY SumIsInteger
<1>2. SumDeltas(cost, deltas) =
        IF InRange(cost) /\ InRange(cost + sum) /\ \A o \in DOMAIN deltas : InRange(deltas[o])
        THEN ClampToZero(cost + sum) ELSE Unpriceable
  BY DEF SumDeltas
<1>3. cost + sum \in Int
  BY <1>1
<1> HIDE DEF sum
<1>4. InRange(cost + sum) => ClampToZero(cost + sum) \in 0 .. MaxMinor
  BY <1>3, MaxMinorAssumption DEF InRange, Magnitude, ClampToZero
<1>5. SumDeltas(cost, deltas) # Unpriceable =>
              /\ SumDeltas(cost, deltas) = ClampToZero(cost + sum)
              /\ SumDeltas(cost, deltas) \in 0 .. MaxMinor
  BY <1>2, <1>4
<1> QED BY <1>1, <1>5 DEF sum

(* What the engine's acceptance of a line says.                             *)
Accepted(r, cfg, selections, cost) ==
    /\ DOMAIN r.deltas \subseteq DOMAIN selections \cap DOMAIN cfg.options
    /\ r.deltas = [o \in DOMAIN r.deltas |-> r.deltas[o]]
    /\ \A o \in DOMAIN r.deltas : r.deltas[o] \in Int
    /\ DOMAIN r.resolved = DOMAIN r.deltas
    /\ r.resolved = [o \in DOMAIN r.deltas |-> r.resolved[o]]
    /\ r.total = SumDeltas(cost, r.deltas) /\ r.total # Unpriceable
    /\ r.errors = {}

JudgedAs(r, e, cfg, selections, cost) ==
    /\ r.ok \in BOOLEAN
    /\ r.ok => e = {} /\ Accepted(r, cfg, selections, cost)
    /\ ~r.ok => /\ e # {} => r.errors = e
                /\ e = {} => r.errors = {<<"unpriceable", Line>>}

LEMMA JudgedRight ==
  ASSUME NEW cfg, NEW selections, NEW cost, NEW states, NEW hidden, NEW verdicts,
         DOMAIN verdicts = DOMAIN selections \cap DOMAIN cfg.options,
         \A o \in DOMAIN verdicts : verdicts[o].amount \in Int
  PROVE  JudgedAs(Judged(cfg, selections, cost, states, hidden, verdicts),
              Errors(cfg, selections, states, hidden, verdicts), cfg, selections, cost)
<1> DEFINE r == Judged(cfg, selections, cost, states, hidden, verdicts)
           e == Errors(cfg, selections, states, hidden, verdicts)
           deltas == [o \in TakenOf(verdicts) |-> verdicts[o].amount]
           answer == Charged(cost, deltas, verdicts)
<1>1. r = IF e # {} THEN Refused(e)
          ELSE IF answer.total = Unpriceable THEN Refused({<<"unpriceable", Line>>}) ELSE answer
  BY DEF Judged, Unless
<1>2. TakenOf(verdicts) \subseteq DOMAIN verdicts
  BY DEF TakenOf
<1>3. /\ answer.ok = TRUE /\ answer.errors = {} /\ answer.deltas = deltas /\ answer.total = SumDeltas(cost, deltas)
      /\ answer.resolved = [o \in DOMAIN deltas |-> verdicts[o].chosen]
  BY DEF Charged
<1>4. DOMAIN deltas = TakenOf(verdicts) /\ deltas = [o \in DOMAIN deltas |-> deltas[o]]
      /\ \A o \in DOMAIN deltas : deltas[o] \in Int
  BY <1>2
<1>5. \A s : Refused(s).ok = FALSE /\ Refused(s).errors = s
  BY DEF Refused
<1> HIDE DEF r, e, deltas, answer
<1>6. CASE e # {}
  <2>1. r.ok = FALSE /\ r.errors = e
    BY <1>1, <1>5, <1>6
  <2>2. JudgedAs(r, e, cfg, selections, cost)
    BY <2>1, <1>6, Zenon DEF JudgedAs
  <2> QED BY <2>2, Zenon DEF r, e
<1>7. CASE e = {} /\ answer.total = Unpriceable
  <2>1. r.ok = FALSE /\ r.errors = {<<"unpriceable", Line>>}
    BY <1>1, <1>5, <1>7
  <2>2. JudgedAs(r, e, cfg, selections, cost)
    BY <2>1, <1>7, Zenon DEF JudgedAs
  <2> QED BY <2>2, Zenon DEF r, e
<1>8. CASE e = {} /\ answer.total # Unpriceable
  <2>1. r = answer
    BY <1>1, <1>8
  <2>2. Accepted(r, cfg, selections, cost)
    <3>1. r.deltas = deltas /\ r.total = SumDeltas(cost, deltas) /\ r.total # Unpriceable /\ r.errors = {}
      BY <2>1, <1>3, <1>8
    <3>2. r.resolved = [o \in DOMAIN deltas |-> verdicts[o].chosen]
      BY <2>1, <1>3
    <3>3. DOMAIN r.resolved = DOMAIN deltas /\ r.resolved = [o \in DOMAIN deltas |-> r.resolved[o]]
      BY <3>2
    <3> QED BY <3>1, <3>3, <1>2, <1>4 DEF Accepted
  <2>3. r.ok = TRUE
    BY <2>1, <1>3
  <2>4. JudgedAs(r, e, cfg, selections, cost)
    BY <2>2, <2>3, <1>8, Zenon DEF JudgedAs
  <2> QED BY <2>4, Zenon DEF r, e
<1> QED BY <1>6, <1>7, <1>8

LEMMA JudgedIs ==
  ASSUME NEW cfg, NEW selections, NEW cost, NEW states, NEW hidden, NEW verdicts,
         DOMAIN verdicts = DOMAIN selections \cap DOMAIN cfg.options,
         \A o \in DOMAIN verdicts : verdicts[o].amount \in Int
  PROVE  LET r == Judged(cfg, selections, cost, states, hidden, verdicts)
             e == Errors(cfg, selections, states, hidden, verdicts)
         IN /\ r.ok \in BOOLEAN
            /\ r.ok => e = {} /\ Accepted(r, cfg, selections, cost)
            /\ ~r.ok => /\ e # {} => r.errors = e
                        /\ e = {} => r.errors = {<<"unpriceable", Line>>}
<1>1. JudgedAs(Judged(cfg, selections, cost, states, hidden, verdicts),
           Errors(cfg, selections, states, hidden, verdicts), cfg, selections, cost)
  BY JudgedRight
<1> QED BY <1>1, Zenon DEF JudgedAs

(* What the cost price decides of a verdict is its amount alone.            *)
LEMMA ChoiceAlike ==
  ASSUME NEW option, NEW states, NEW o, NEW keys, NEW hiddenValues, NEW cost, NEW other
  PROVE  LET v == ChoiceVerdict(option, o, states, keys, hiddenValues, cost)
             w == ChoiceVerdict(option, o, states, keys, hiddenValues, other)
         IN v.code = w.code /\ v.chosen = w.chosen
<1> DEFINE code == FirstFailed(ChoiceChecks(option, keys, hiddenValues))
           chosen == [many |-> TakesMany(option), members |-> keys]
<1> HIDE DEF code, chosen
<1>1. \A b : ChoiceVerdict(option, o, states, keys, hiddenValues, b) =
               IF code # "taken" THEN Verdict(code) ELSE Taken(chosen, ChoicePrice(option, o, states, keys, b))
  BY DEF ChoiceVerdict, code, chosen
<1>2. \A price : Taken(chosen, price).code = "taken" /\ Taken(chosen, price).chosen = chosen
  BY DEF Taken
<1>3. \A b : /\ code = "taken" => /\ ChoiceVerdict(option, o, states, keys, hiddenValues, b).code = "taken"
                                  /\ ChoiceVerdict(option, o, states, keys, hiddenValues, b).chosen = chosen
             /\ code # "taken" => ChoiceVerdict(option, o, states, keys, hiddenValues, b) = Verdict(code)
  BY <1>1, <1>2
<1> QED BY <1>3

LEMMA AnsweredAlike ==
  ASSUME NEW cfg, NEW o, NEW answer, NEW states, NEW hidden, NEW hiddenValues, NEW cost, NEW other, NEW clock
  PROVE  LET v == Answered(cfg, o, answer, states, hidden, hiddenValues, cost, clock)
             w == Answered(cfg, o, answer, states, hidden, hiddenValues, other, clock)
         IN v.code = w.code /\ v.chosen = w.chosen
<1> DEFINE option == cfg.options[o]
           v == Answered(cfg, o, answer, states, hidden, hiddenValues, cost, clock)
           w == Answered(cfg, o, answer, states, hidden, hiddenValues, other, clock)
           f == ChoiceVerdict(option, o, states, answer.members, hiddenValues, cost)
           g == ChoiceVerdict(option, o, states, answer.members, hiddenValues, other)
<1>1. v = w \/ (v = f /\ w = g)
  <2> DEFINE rest(choice) ==
       IF o \in hidden THEN Verdict("hidden_by_rule")
       ELSE IF answer.many /\ ~TakesMany(option) THEN Verdict("not_scalar")
       ELSE IF answer.members = {} THEN Verdict("empty")
       ELSE IF IsHidden(option) THEN HiddenVerdict(option, o, states)
       ELSE CASE option.kind = "file" -> FileVerdict(option, o, states, Scalar(answer))
              [] option.kind = "text" -> TextVerdict(option, o, states, Scalar(answer))
              [] option.kind = "date" -> DateVerdict(option, o, states, Scalar(answer), clock)
              [] option.kind = "number" -> NumberVerdict(option, o, states, Scalar(answer))
              [] OTHER -> choice
  <2>1. v = rest(f) /\ w = rest(g)
    BY DEF Answered
  <2> HIDE DEF f, g, v, w
  <2>2. rest(f) = rest(g) \/ (rest(f) = f /\ rest(g) = g)
    OBVIOUS
  <2> QED BY <2>1, <2>2
<1>2. f.code = g.code /\ f.chosen = g.chosen
  BY ChoiceAlike
<1> HIDE DEF v, w, f, g
<1>3. v.code = w.code /\ v.chosen = w.chosen
  BY <1>1, <1>2
<1> QED BY <1>3 DEF v, w

Amounted(v, D) == DOMAIN v = D /\ \A o \in D : v[o].amount \in Int

Unhidden(v, hidden, values) ==
    values = {} => \A o \in DOMAIN v \ hidden : v[o].code # "hidden_by_rule"

LEMMA VerdictsFit ==
  ASSUME NEW cfg, IsDocument(cfg), NEW selections, NEW cost \in Int, NEW clock,
         NEW states, StatesFit(states), NEW hidden
  PROVE  /\ Amounted(Verdicts(cfg, selections, cost, clock, states, hidden),
                     DOMAIN selections \cap DOMAIN cfg.options)
         /\ Unhidden(Verdicts(cfg, selections, cost, clock, states, hidden), hidden,
                     HiddenValues(cfg.rules, states))
<1> DEFINE v == Verdicts(cfg, selections, cost, clock, states, hidden)
           D == DOMAIN selections \cap DOMAIN cfg.options
           values == HiddenValues(cfg.rules, states)
<1>1. DOMAIN v = D /\ \A o \in D :
         v[o] = Answered(cfg, o, selections[o], states, hidden, values, cost, clock)
  BY DEF Verdicts
<1> HIDE DEF v, values
<1>2. ASSUME NEW o \in D
      PROVE  v[o].amount \in Int /\ (o \notin hidden /\ values = {} => v[o].code # "hidden_by_rule")
  <2>1. o \in DOMAIN cfg.options
    OBVIOUS
  <2> DEFINE verdict == Answered(cfg, o, selections[o], states, hidden, values, cost, clock)
  <2>2. verdict.amount \in Int /\ (o \notin hidden /\ values = {} => verdict.code # "hidden_by_rule")
    BY <2>1, AnsweredIs
  <2> HIDE DEF verdict
  <2>3. v[o] = verdict
    BY <1>1 DEF verdict
  <2> QED BY <2>2, <2>3
<1> HIDE DEF D
<1>3. Amounted(v, D) /\ Unhidden(v, hidden, values)
  BY <1>1, <1>2 DEF Amounted, Unhidden
<1> QED BY <1>3 DEF v, D, values

LEMMA ErrorsAlike ==
  ASSUME NEW cfg, NEW selections, NEW states, NEW hidden, NEW v, NEW w, DOMAIN v = DOMAIN w,
         \A o \in DOMAIN v : v[o].code = w[o].code /\ v[o].chosen = w[o].chosen
  PROVE  Errors(cfg, selections, states, hidden, v) = Errors(cfg, selections, states, hidden, w)
<1>1. TakenOf(v) = TakenOf(w) /\ TakenOf(v) \subseteq DOMAIN v
  BY DEF TakenOf
<1>2. Missing(cfg, v, states, hidden) = Missing(cfg, w, states, hidden)
  BY DEF Missing
<1>3. TextSize(cfg, v, TakenOf(v)) = TextSize(cfg, w, TakenOf(v))
  <2> DEFINE texts == {o \in TakenOf(v) : cfg.options[o].kind = "text" /\ ~IsHidden(cfg.options[o])}
             f == [o \in texts |-> Length(Scalar(v[o].chosen))]
             g == [o \in texts |-> Length(Scalar(w[o].chosen))]
  <2>1. f = g
    BY <1>1
  <2>2. TextSize(cfg, v, TakenOf(v)) = SumFunction(f) /\ TextSize(cfg, w, TakenOf(v)) = SumFunction(g)
    BY DEF TextSize
  <2> HIDE DEF f, g
  <2> QED BY <2>1, <2>2
<1>4. {<<v[o].code, o>> : o \in {o \in DOMAIN v : v[o].code \notin {"taken", "empty"}}}
      = {<<w[o].code, o>> : o \in {o \in DOMAIN w : w[o].code \notin {"taken", "empty"}}}
  OBVIOUS
<1> QED BY <1>1, <1>2, <1>3, <1>4 DEF Errors

(* The engine accepts a line or says why not.                               *)
LEMMA ResolveIs ==
  ASSUME NEW cfg, IsDocument(cfg), NEW selections, NEW cost \in Int, NEW clock
  PROVE  LET r == Resolve(cfg, selections, cost, clock) IN
         r.ok \in BOOLEAN /\ (r.ok => Accepted(r, cfg, selections, cost))
<1> DEFINE e == Evaluate(cfg.rules, RuleAnswers(cfg.options, selections), Containment(cfg))
           r == Resolve(cfg, selections, cost, clock)
           hidden == HiddenOptions(e.states, Containment(cfg))
           v == Verdicts(cfg, selections, cost, clock, e.states, hidden)
           judged == Judged(cfg, selections, cost, e.states, hidden, v)
<1>1. StatesFit(e.states)
  BY EvaluationFits
<1>2. r = IF e.refused THEN Refused({<<"rules_unsettled", Line>>}) ELSE judged
  BY DEF Resolve, Settled, RuledBy
<1> HIDE DEF e, hidden, r
<1>3. DOMAIN v = DOMAIN selections \cap DOMAIN cfg.options /\ \A o \in DOMAIN v : v[o].amount \in Int
  <2>1. Amounted(v, DOMAIN selections \cap DOMAIN cfg.options)
    BY <1>1, VerdictsFit
  <2> HIDE DEF v
  <2> QED BY <2>1 DEF Amounted
<1> HIDE DEF v
<1>4. judged.ok \in BOOLEAN /\ (judged.ok => Accepted(judged, cfg, selections, cost))
  BY <1>3, JudgedIs
<1> HIDE DEF judged
<1>5. Refused({<<"rules_unsettled", Line>>}).ok = FALSE
  BY DEF Refused
<1>6. r.ok \in BOOLEAN /\ (r.ok => Accepted(r, cfg, selections, cost))
  <2>1. CASE e.refused
    BY <2>1, <1>2, <1>5
  <2>2. CASE ~e.refused
    BY <2>2, <1>2, <1>4
  <2> QED BY <2>1, <2>2
<1> QED BY <1>6 DEF r

(* A line accepted at one cost price is accepted at another, unless its     *)
(* price is past what Pricing computes.                                     *)
LEMMA AcceptedAtAnyBase ==
  ASSUME NEW cfg, IsDocument(cfg), NEW selections, NEW cost \in Int, NEW other \in Int, NEW clock,
         Resolve(cfg, selections, other, clock).ok,
         Resolve(cfg, selections, cost, clock).errors # {<<"unpriceable", Line>>}
  PROVE  Resolve(cfg, selections, cost, clock).ok
<1> DEFINE e == Evaluate(cfg.rules, RuleAnswers(cfg.options, selections), Containment(cfg))
           r(b) == Resolve(cfg, selections, b, clock)
           hidden == HiddenOptions(e.states, Containment(cfg))
           v(b) == Verdicts(cfg, selections, b, clock, e.states, hidden)
           errors(b) == Errors(cfg, selections, e.states, hidden, v(b))
           judged(b) == Judged(cfg, selections, b, e.states, hidden, v(b))
<1>1. StatesFit(e.states)
  BY EvaluationFits
<1>2. \A b : r(b) = IF e.refused THEN Refused({<<"rules_unsettled", Line>>}) ELSE judged(b)
  BY DEF Resolve, Settled, RuledBy
<1>3. Refused({<<"rules_unsettled", Line>>}).ok = FALSE
  BY DEF Refused
<1> HIDE DEF e, hidden, r
<1>4. r(other).ok /\ r(cost).errors # {<<"unpriceable", Line>>}
  BY DEF r
<1>5. ~e.refused /\ judged(other).ok /\ r(cost) = judged(cost)
  <2> HIDE DEF judged
  <2> QED BY <1>2, <1>3, <1>4
<1>6. ASSUME NEW b \in Int
      PROVE  DOMAIN v(b) = DOMAIN selections \cap DOMAIN cfg.options /\ \A o \in DOMAIN v(b) : v(b)[o].amount \in Int
  <2>1. Amounted(v(b), DOMAIN selections \cap DOMAIN cfg.options)
    BY <1>1, VerdictsFit
  <2> HIDE DEF v
  <2> QED BY <2>1 DEF Amounted
<1>7. \A o \in DOMAIN v(cost) : v(cost)[o].code = v(other)[o].code /\ v(cost)[o].chosen = v(other)[o].chosen
  <2> SUFFICES ASSUME NEW o \in DOMAIN v(cost)
               PROVE  v(cost)[o].code = v(other)[o].code /\ v(cost)[o].chosen = v(other)[o].chosen
    OBVIOUS
  <2> DEFINE f == Answered(cfg, o, selections[o], e.states, hidden, HiddenValues(cfg.rules, e.states), cost, clock)
             g == Answered(cfg, o, selections[o], e.states, hidden, HiddenValues(cfg.rules, e.states), other, clock)
  <2>1. f.code = g.code /\ f.chosen = g.chosen
    BY AnsweredAlike
  <2>2. o \in DOMAIN selections \cap DOMAIN cfg.options
    BY <1>6
  <2>3. v(cost)[o] = f /\ v(other)[o] = g
    BY <2>2 DEF Verdicts
  <2> HIDE DEF f, g, v
  <2> QED BY <2>1, <2>3
<1>8. errors(cost) = errors(other)
  <2>1. DOMAIN v(cost) = DOMAIN v(other)
    BY <1>6
  <2> HIDE DEF v
  <2> QED BY <1>7, <2>1, ErrorsAlike
<1>9. judged(other).ok => errors(other) = {}
  <2>1. DOMAIN v(other) = DOMAIN selections \cap DOMAIN cfg.options /\ \A o \in DOMAIN v(other) : v(other)[o].amount \in Int
    BY <1>6
  <2> HIDE DEF v
  <2> QED BY <2>1, JudgedIs
<1>10. judged(cost).ok \in BOOLEAN
       /\ (~judged(cost).ok /\ errors(cost) = {} => judged(cost).errors = {<<"unpriceable", Line>>})
  <2>1. DOMAIN v(cost) = DOMAIN selections \cap DOMAIN cfg.options /\ \A o \in DOMAIN v(cost) : v(cost)[o].amount \in Int
    BY <1>6
  <2> HIDE DEF v
  <2> QED BY <2>1, JudgedIs
<1> HIDE DEF judged, errors
<1>11. r(cost).ok
  BY <1>4, <1>5, <1>8, <1>9, <1>10
<1> QED BY <1>11 DEF r

-----------------------------------------------------------------------------
(* What the engine accepted of a line it accepts again: the answers a       *)
(* verdict keeps are the answers given, cleaned, and what it leaves out is   *)
(* blank.                                                                   *)
Echoes(verdict, chosen, raw) ==
    /\ verdict.code = "taken" => verdict.chosen = chosen
    /\ verdict.code = "empty" => raw = ""

LEMMA TakenEchoes ==
  ASSUME NEW option, NEW states, NEW o, NEW text
  PROVE  Echoes(TakenTyped(option, o, states, text), Given({text}), text)
         /\ TakenTyped(option, o, states, text).code = "taken"
<1> DEFINE price == UnderRule(SetPriceFor(option, states, o, ""), OptionDelta(option, text))
           chosen == Given({text})
<1>1. TakenTyped(option, o, states, text) = Taken(chosen, price)
  BY DEF TakenTyped
<1> HIDE DEF price, chosen
<1>2. Taken(chosen, price).code = "taken" /\ Taken(chosen, price).chosen = chosen
  BY DEF Taken
<1> QED BY <1>1, <1>2 DEF Echoes, chosen

LEMMA VerdictEchoes ==
  ASSUME NEW code, code # "taken", NEW raw, code = "empty" => raw = "", NEW chosen
  PROVE  Echoes(Verdict(code), chosen, raw)
<1>1. Verdict(code).code = code
  BY VerdictIs
<1> QED BY <1>1 DEF Echoes

LEMMA TextEchoes ==
  ASSUME NEW option, NEW states, NEW o, NEW raw
  PROVE  Echoes(TextVerdict(option, o, states, raw), Given({CleanText(raw)}), CleanText(raw))
<1> DEFINE text == CleanText(raw)
           empty == text = ""
           short == Length(text) < MinLengthOf(option)
           long == Length(text) > MaxLengthOf(option)
           charset == CharsetViolation(option.validation, text)
           word == ForbiddenWord(option.validation, text)
           pattern == PatternViolation(option.validation, text)
           sizes == << <<empty, "empty">>, <<short, "too_short">>, <<long, "too_long">> >>
           rules == << <<charset, "charset">>, <<word, "forbidden_word">>, <<pattern, "pattern_mismatch">> >>
           checks == sizes \o rules
<1>1. TextVerdict(option, o, states, raw) =
         IF FirstFailed(checks) = "taken" THEN TakenTyped(option, o, states, text) ELSE Verdict(FirstFailed(checks))
  BY DEF TextVerdict, TextRuleViolation
<1> HIDE DEF empty, short, long, charset, word, pattern
<1>2. /\ DOMAIN sizes = 1 .. 3 /\ sizes[1][2] = "empty" /\ sizes[2][2] = "too_short" /\ sizes[3][2] = "too_long"
      /\ sizes[1][1] = empty
      /\ Len(sizes) = 3 /\ Len(rules) = 3
      /\ rules[1][2] = "charset" /\ rules[2][2] = "forbidden_word" /\ rules[3][2] = "pattern_mismatch"
  OBVIOUS
<1>3. DOMAIN checks = 1 .. 6 /\ \A i \in 1 .. 6 : checks[i] = IF i <= 3 THEN sizes[i] ELSE rules[i - 3]
  <2> DEFINE S == {sizes[1], sizes[2], sizes[3], rules[1], rules[2], rules[3]}
  <2>1. sizes \in Seq(S) /\ rules \in Seq(S)
    OBVIOUS
  <2> HIDE DEF sizes, rules, S
  <2>2. /\ DOMAIN checks = 1 .. Len(sizes) + Len(rules)
        /\ \A i \in 1 .. Len(sizes) + Len(rules) :
              checks[i] = IF i <= Len(sizes) THEN sizes[i] ELSE rules[i - Len(sizes)]
    BY <2>1
  <2> QED BY <1>2, <2>2
<1> HIDE DEF checks, sizes, rules
<1>4. checks[1][1] = empty /\ \A i \in 1 .. 6 : checks[i][2] = "empty" => i = 1
  BY <1>2, <1>3
<1>5. FirstFailed(checks) = "empty" => empty
  <2>1. \/ FirstFailed(checks) = "taken" /\ \A i \in 1 .. 6 : ~checks[i][1]
        \/ \E i \in 1 .. 6 : checks[i][1] /\ FirstFailed(checks) = checks[i][2]
    BY <1>3, FirstFailedIs, Zenon
  <2> QED BY <1>4, <2>1
<1>6. CASE FirstFailed(checks) = "taken"
  BY <1>1, <1>6, TakenEchoes
<1>7. CASE FirstFailed(checks) # "taken"
  <2>1. FirstFailed(checks) = "empty" => text = ""
    BY <1>5 DEF empty
  <2> HIDE DEF text
  <2>2. Echoes(Verdict(FirstFailed(checks)), Given({text}), text)
    BY <1>7, <2>1, VerdictEchoes
  <2> QED BY <1>1, <1>7, <2>2 DEF text
<1> QED BY <1>6, <1>7

LEMMA DateEchoes ==
  ASSUME NEW option, NEW states, NEW o, NEW raw, NEW clock
  PROVE  Echoes(DateVerdict(option, o, states, raw, clock), Given({raw}), raw)
<1> DEFINE v == option.validation
           day == DayOf[raw]
           early == Has(v, "min_date") /\ day < v.min_date
           late == Has(v, "max_date") /\ day > v.max_date
           blackout == Has(v, "blackout_dates") /\ day \in v.blackout_dates
           weekday == Has(v, "allowed_weekdays") /\ day % 7 \notin v.allowed_weekdays
           relative == RelativeDateViolation(v, day, clock)
           checks == << <<early, "date_out_of_range">>, <<late, "date_out_of_range">>,
                        <<blackout, "date_unavailable">>, <<weekday, "date_unavailable">>,
                        <<relative, "date_out_of_range">> >>
           code == FirstFailed(checks)
<1>1. DateVerdict(option, o, states, raw, clock) =
         IF raw = "" THEN Verdict("empty")
         ELSE IF ParseDate(raw) = {} THEN Verdict("not_a_date")
         ELSE IF code = "taken" THEN TakenTyped(option, o, states, raw) ELSE Verdict(code)
  BY DEF DateVerdict, DateViolation
<1> HIDE DEF early, late, blackout, weekday, relative
<1>2. DOMAIN checks = 1 .. 5 /\ \A i \in 1 .. 5 : checks[i][2] # "empty"
  OBVIOUS
<1> HIDE DEF checks
<1>3. code # "empty"
  BY <1>2, CodeIs
<1> HIDE DEF code
<1>4. /\ raw = "" => Echoes(Verdict("empty"), Given({raw}), raw)
      /\ Echoes(Verdict("not_a_date"), Given({raw}), raw)
      /\ code # "taken" => Echoes(Verdict(code), Given({raw}), raw)
      /\ Echoes(TakenTyped(option, o, states, raw), Given({raw}), raw)
  BY <1>3, TakenEchoes, VerdictEchoes
<1> QED BY <1>1, <1>4

LEMMA NumberEchoes ==
  ASSUME NEW option, NEW states, NEW o, NEW raw
  PROVE  Echoes(NumberVerdict(option, o, states, raw), Given({raw}), raw)
<1> DEFINE v == option.validation
           n == NumberOf[raw]
           from == IF Has(v, "min") THEN v.min ELSE 0
           under == Has(v, "min") /\ n < v.min
           over == Has(v, "max") /\ n > v.max
           broken == Has(v, "integer_only") /\ n % Scale # 0
           between == Has(v, "step") /\ (n - from) % v.step # 0
           checks == << <<under, "out_of_range">>, <<over, "out_of_range">>,
                        <<broken, "bad_step">>, <<between, "bad_step">> >>
           code == FirstFailed(checks)
<1>1. NumberVerdict(option, o, states, raw) =
         IF raw = "" THEN Verdict("empty")
         ELSE IF ParseNumber(raw) = {} THEN Verdict("not_a_number")
         ELSE IF code = "taken" THEN TakenTyped(option, o, states, raw) ELSE Verdict(code)
  BY DEF NumberVerdict, NumberViolation
<1> HIDE DEF under, over, broken, between
<1>2. DOMAIN checks = 1 .. 4 /\ \A i \in 1 .. 4 : checks[i][2] # "empty"
  OBVIOUS
<1> HIDE DEF checks
<1>3. code # "empty"
  BY <1>2, CodeIs
<1> HIDE DEF code
<1>4. /\ raw = "" => Echoes(Verdict("empty"), Given({raw}), raw)
      /\ Echoes(Verdict("not_a_number"), Given({raw}), raw)
      /\ code # "taken" => Echoes(Verdict(code), Given({raw}), raw)
      /\ Echoes(TakenTyped(option, o, states, raw), Given({raw}), raw)
  BY <1>3, TakenEchoes, VerdictEchoes
<1> QED BY <1>1, <1>4

LEMMA FileEchoes ==
  ASSUME NEW option, NEW states, NEW o, NEW token
  PROVE  Echoes(FileVerdict(option, o, states, token), Given({token}), token)
<1>1. /\ token = "" => Echoes(Verdict("empty"), Given({token}), token)
      /\ Echoes(Verdict("unknown_value"), Given({token}), token)
      /\ Echoes(TakenTyped(option, o, states, token), Given({token}), token)
  BY TakenEchoes, VerdictEchoes
<1> QED BY <1>1 DEF FileVerdict

LEMMA HiddenEchoes ==
  ASSUME NEW option, NEW states, NEW o, HiddenVerdict(option, o, states).code = "taken"
  PROVE  /\ CleanText(option.default) # ""
         /\ HiddenVerdict(option, o, states).chosen = Given({CleanText(option.default)})
<1> DEFINE configured == CleanText(option.default)
<1>1. HiddenVerdict(option, o, states) =
        IF configured = "" THEN Verdict("empty") ELSE TakenTyped(option, o, states, configured)
  BY DEF HiddenVerdict
<1> DEFINE taken == TakenTyped(option, o, states, configured)
<1>2. Echoes(taken, Given({configured}), configured) /\ taken.code = "taken"
  BY TakenEchoes
<1>3. Verdict("empty").code = "empty"
  BY VerdictIs
<1> HIDE DEF configured, taken
<1>4. configured # "" /\ HiddenVerdict(option, o, states) = taken
  BY <1>1, <1>3 DEF taken
<1> QED BY <1>2, <1>4 DEF Echoes, configured

LEMMA ChoiceEchoes ==
  ASSUME NEW option, NEW states, NEW o, NEW keys, NEW hiddenValues, NEW cost
  PROVE  LET v == ChoiceVerdict(option, o, states, keys, hiddenValues, cost) IN
         /\ v.code = "taken" => v.chosen = [many |-> TakesMany(option), members |-> keys]
         /\ v.code # "empty"
<1> DEFINE unknown == ~(keys \subseteq Keys(option))
           few == Has(option.validation, "min_selections") /\ Cardinality(keys) < option.validation.min_selections
           many == Has(option.validation, "max_selections") /\ Cardinality(keys) > option.validation.max_selections
           hides == \E key \in keys \cap Keys(option) : ValueFor(option, key).id \in hiddenValues
           checks == << <<unknown, "unknown_value">>, <<few, "too_few_selections">>,
                        <<many, "too_many_selections">>, <<hides, "hidden_by_rule">> >>
           code == FirstFailed(checks)
           price == ChoicePrice(option, o, states, keys, cost)
           chosen == [many |-> TakesMany(option), members |-> keys]
           v == ChoiceVerdict(option, o, states, keys, hiddenValues, cost)
<1>1. v = IF code # "taken" THEN Verdict(code) ELSE Taken(chosen, price)
  BY DEF ChoiceVerdict, ChoiceChecks
<1> HIDE DEF unknown, few, many, hides, price, chosen, v
<1>2. DOMAIN checks = 1 .. 4 /\ \A i \in 1 .. 4 : checks[i][2] # "empty"
  OBVIOUS
<1> HIDE DEF checks
<1>3. code # "empty"
  BY <1>2, CodeIs
<1> HIDE DEF code
<1>4. Taken(chosen, price).code = "taken" /\ Taken(chosen, price).chosen = chosen
  BY DEF Taken
<1>5. (v.code = "taken" => v.chosen = chosen) /\ v.code # "empty"
  BY <1>1, <1>3, <1>4, VerdictIs
<1> QED BY <1>5 DEF v, chosen

(* An answer as the shop posts it: a list for a choice of many, else a      *)
(* scalar; text is one the engine's cleaning leaves alone.                  *)
IsPosted(option, answer) ==
    IF option.many
    THEN option.kind = "choice" /\ answer = GivenList(answer.members) /\ answer.members # {}
    ELSE /\ answer = Given(answer.members)
         /\ option.kind # "choice" => \A s, t \in answer.members : s = t
         /\ option.kind = "text" => \A s \in answer.members : CleanText(s) = s

(* What a verdict that reports nothing says of a posted answer.             *)
ReadAs(v, option, answer) ==
    /\ ~IsHidden(option) /\ v.code = "taken" => v.chosen = answer
    /\ ~IsHidden(option) /\ v.code = "empty" => answer \in {Nothing, Blank}
    /\ IsHidden(option) /\ v.code = "taken" =>
          CleanText(option.default) # "" /\ v.chosen = Given({CleanText(option.default)})

LEMMA ScalarIs ==
  ASSUME NEW answer, answer.members # {}, \A s, t \in answer.members : s = t
  PROVE  answer.members = {Scalar(answer)}
<1>1. Scalar(answer) \in answer.members
  BY DEF Scalar
<1> QED BY <1>1

LEMMA TypedReads ==
  ASSUME NEW option, NEW answer, IsPosted(option, answer), option.kind # "choice", answer.members # {},
         NEW v, Echoes(v, answer, Scalar(answer)), ~IsHidden(option)
  PROVE  ReadAs(v, option, answer)
<1>1. answer = Given(answer.members) /\ \A s, t \in answer.members : s = t
  BY DEF IsPosted
<1>2. answer.members = {Scalar(answer)}
  BY <1>1, ScalarIs
<1>3. Scalar(answer) = "" => answer = Blank
  BY <1>1, <1>2 DEF Blank
<1> QED BY <1>3 DEF Echoes, ReadAs

LEMMA AnsweredReads ==
  ASSUME NEW cfg, NEW o, NEW answer, IsPosted(cfg.options[o], answer),
         NEW states, NEW hidden, NEW hiddenValues, NEW cost, NEW clock,
         Answered(cfg, o, answer, states, hidden, hiddenValues, cost, clock).code \in {"taken", "empty"}
  PROVE  LET v == Answered(cfg, o, answer, states, hidden, hiddenValues, cost, clock) IN
         /\ ReadAs(v, cfg.options[o], answer)
         /\ o \notin hidden
         /\ IsHidden(cfg.options[o]) /\ v.code = "taken" => v = HiddenVerdict(cfg.options[o], o, states)
<1> DEFINE option == cfg.options[o]
           scalar == Scalar(answer)
           v == Answered(cfg, o, answer, states, hidden, hiddenValues, cost, clock)
           web == HiddenVerdict(option, o, states)
           file == FileVerdict(option, o, states, scalar)
           text == TextVerdict(option, o, states, scalar)
           date == DateVerdict(option, o, states, scalar, clock)
           number == NumberVerdict(option, o, states, scalar)
           choice == ChoiceVerdict(option, o, states, answer.members, hiddenValues, cost)
<1>1. v = IF o \in hidden THEN Verdict("hidden_by_rule")
          ELSE IF answer.many /\ ~TakesMany(option) THEN Verdict("not_scalar")
          ELSE IF answer.members = {} THEN Verdict("empty")
          ELSE IF IsHidden(option) THEN web
          ELSE CASE option.kind = "file" -> file
                 [] option.kind = "text" -> text
                 [] option.kind = "date" -> date
                 [] option.kind = "number" -> number
                 [] OTHER -> choice
  BY DEF Answered
<1>2. IsPosted(option, answer) /\ v.code \in {"taken", "empty"}
  OBVIOUS
<1>3. Verdict("hidden_by_rule").code = "hidden_by_rule" /\ Verdict("not_scalar").code = "not_scalar"
      /\ Verdict("empty").code = "empty"
  BY VerdictIs
<1>4. Echoes(file, Given({scalar}), scalar) /\ Echoes(date, Given({scalar}), scalar) /\ Echoes(number, Given({scalar}), scalar)
      /\ Echoes(text, Given({CleanText(scalar)}), CleanText(scalar))
  BY FileEchoes, DateEchoes, NumberEchoes, TextEchoes
<1>5. /\ choice.code = "taken" => choice.chosen = [many |-> TakesMany(option), members |-> answer.members]
      /\ choice.code # "empty"
  BY ChoiceEchoes
<1>6. web.code = "taken" => CleanText(option.default) # "" /\ web.chosen = Given({CleanText(option.default)})
  BY HiddenEchoes
<1> HIDE DEF option, v, web, file, text, date, number, choice
<1>7. o \notin hidden /\ ~(answer.many /\ ~TakesMany(option))
  BY <1>1, <1>2, <1>3
<1>8. CASE answer.members = {}
  <2>1. v = Verdict("empty")
    BY <1>1, <1>7, <1>8
  <2>2. answer = Nothing
    BY <1>2, <1>8 DEF IsPosted, Nothing
  <2>3. ReadAs(v, option, answer)
    BY <1>3, <2>1, <2>2 DEF ReadAs
  <2>4. v.code # "taken"
    BY <1>3, <2>1
  <2> QED BY <1>7, <2>3, <2>4 DEF option, v, web
<1>9. CASE answer.members # {} /\ IsHidden(option)
  <2>1. v = web
    BY <1>1, <1>7, <1>9
  <2>2. ReadAs(v, option, answer)
    BY <1>6, <1>9, <2>1 DEF ReadAs
  <2> QED BY <1>7, <2>1, <2>2 DEF option, v, web
<1>10. CASE answer.members # {} /\ ~IsHidden(option) /\ option.kind \in {"file", "text", "date", "number"}
  <2>1. answer = Given({scalar}) /\ (option.kind = "text" => CleanText(scalar) = scalar)
    <3>1. answer = Given(answer.members) /\ \A s, t \in answer.members : s = t
      BY <1>2, <1>10 DEF IsPosted
    <3>2. answer.members = {scalar}
      BY <1>10, <3>1, ScalarIs
    <3> QED BY <1>2, <1>10, <3>1, <3>2 DEF IsPosted
  <2>2. Echoes(v, answer, scalar)
    BY <1>1, <1>4, <1>7, <1>10, <2>1
  <2>3. ReadAs(v, option, answer)
    BY <1>2, <1>10, <2>2, TypedReads
  <2> QED BY <1>7, <1>10, <2>3 DEF option, v
<1>11. CASE answer.members # {} /\ ~IsHidden(option) /\ option.kind \notin {"file", "text", "date", "number"}
  <2>1. v = choice
    BY <1>1, <1>7, <1>11
  <2>2. answer = [many |-> TakesMany(option), members |-> answer.members]
    <3>1. CASE option.many
      <4>1. answer = GivenList(answer.members)
        BY <1>2, <3>1 DEF IsPosted
      <4>2. answer.many = TRUE
        BY <4>1 DEF GivenList
      <4>3. TakesMany(option) = TRUE
        BY <1>7, <4>2 DEF TakesMany
      <4> QED BY <4>1, <4>3 DEF GivenList
    <3>2. CASE ~option.many
      <4>1. answer = Given(answer.members)
        BY <1>2, <3>2 DEF IsPosted
      <4>2. TakesMany(option) = FALSE
        BY <3>2 DEF TakesMany
      <4> QED BY <4>1, <4>2 DEF Given
    <3> QED BY <3>1, <3>2
  <2>3. ReadAs(v, option, answer)
    BY <1>5, <1>11, <2>1, <2>2 DEF ReadAs
  <2> QED BY <1>7, <1>11, <2>3 DEF option, v
<1> QED BY <1>8, <1>9, <1>10, <1>11

(* What an accepted line keeps, seen from its answers.                      *)
KeptOf(kept, options, selections) ==
    /\ DOMAIN kept \subseteq DOMAIN selections /\ DOMAIN selections \subseteq DOMAIN options
    /\ \A o \in DOMAIN kept : IF IsHidden(options[o]) THEN kept[o] = Given({CleanText(options[o].default)})
                              ELSE kept[o] = selections[o]
    /\ \A o \in DOMAIN selections \ DOMAIN kept :
          ~IsHidden(options[o]) => selections[o] \in {Nothing, Blank}

LEMMA RuleAnswerIs ==
  ASSUME NEW options, NEW selections, NEW o
  PROVE  AnswerOf(RuleAnswers(options, selections), o) =
            IF o \in DOMAIN options /\ IsHidden(options[o])
            THEN IF CleanText(options[o].default) = "" THEN Nothing ELSE Given({CleanText(options[o].default)})
            ELSE AnswerOf(selections, o)
<1> DEFINE hides(q) == q \in DOMAIN options /\ IsHidden(options[q])
           clean(q) == CleanText(options[q].default)
           f == RuleAnswers(options, selections)
<1>1. /\ DOMAIN f = {q \in DOMAIN selections \cup {q \in DOMAIN options : IsHidden(options[q])} :
                        ~(hides(q) /\ clean(q) = "")}
      /\ \A q \in DOMAIN f : f[q] = IF hides(q) THEN Given({clean(q)}) ELSE selections[q]
  BY DEF RuleAnswers
<1> HIDE DEF f, clean
<1> QED BY <1>1 DEF AnswerOf, f, clean

LEMMA AnswersKept ==
  ASSUME NEW options, NEW selections, NEW kept, KeptOf(kept, options, selections)
  PROVE  Alike(RuleAnswers(options, kept), RuleAnswers(options, selections))
<1>1. ASSUME NEW o, ~(o \in DOMAIN options /\ IsHidden(options[o]))
      PROVE  \/ AnswerOf(kept, o) = AnswerOf(selections, o)
             \/ AnswerOf(kept, o) \in {Nothing, Blank} /\ AnswerOf(selections, o) \in {Nothing, Blank}
  BY <1>1 DEF KeptOf, AnswerOf
<1>2. ASSUME NEW o
      PROVE  \/ AnswerOf(RuleAnswers(options, kept), o) = AnswerOf(RuleAnswers(options, selections), o)
             \/ /\ AnswerOf(RuleAnswers(options, kept), o) \in {Nothing, Blank}
                /\ AnswerOf(RuleAnswers(options, selections), o) \in {Nothing, Blank}
  <2>1. CASE o \in DOMAIN options /\ IsHidden(options[o])
    BY <2>1, RuleAnswerIs
  <2>2. CASE ~(o \in DOMAIN options /\ IsHidden(options[o]))
    <3>1. /\ AnswerOf(RuleAnswers(options, kept), o) = AnswerOf(kept, o)
          /\ AnswerOf(RuleAnswers(options, selections), o) = AnswerOf(selections, o)
      BY <2>2, RuleAnswerIs
    <3> QED BY <1>1, <2>2, <3>1
  <2> QED BY <2>1, <2>2
<1> QED BY <1>2 DEF Alike

LEMMA RuleAnswerDomain ==
  ASSUME NEW options, NEW selections, NEW kept, DOMAIN kept \subseteq DOMAIN selections
  PROVE  /\ DOMAIN RuleAnswers(options, kept) \subseteq DOMAIN RuleAnswers(options, selections)
         /\ DOMAIN RuleAnswers(options, selections) \ DOMAIN RuleAnswers(options, kept) \subseteq DOMAIN selections
         /\ RuleAnswers(options, kept) = [o \in DOMAIN RuleAnswers(options, kept) |-> RuleAnswers(options, kept)[o]]
  BY DEF RuleAnswers

LEMMA EvaluatesAgain ==
  ASSUME NEW cfg, IsDocument(cfg), NEW selections, NEW kept, KeptOf(kept, cfg.options, selections),
         ~Evaluate(cfg.rules, RuleAnswers(cfg.options, selections), Containment(cfg)).refused,
         HiddenOptions(Evaluate(cfg.rules, RuleAnswers(cfg.options, selections), Containment(cfg)).states,
                       Containment(cfg)) \cap DOMAIN selections = {}
  PROVE  Evaluate(cfg.rules, RuleAnswers(cfg.options, kept), Containment(cfg))
         = Evaluate(cfg.rules, RuleAnswers(cfg.options, selections), Containment(cfg))
<1> DEFINE first == RuleAnswers(cfg.options, kept)
           second == RuleAnswers(cfg.options, selections)
           under == Containment(cfg)
           e == Evaluate(cfg.rules, second, under)
<1>1. cfg.rules \in Seq(ToSet(cfg.rules))
  BY DEF IsDocument
<1>2. Alike(first, second)
  BY AnswersKept
<1>3. /\ DOMAIN first \subseteq DOMAIN second
      /\ DOMAIN second \ DOMAIN first \subseteq DOMAIN selections
      /\ first = [o \in DOMAIN first |-> first[o]]
  BY RuleAnswerDomain DEF KeptOf
<1>4. second = [o \in DOMAIN second |-> second[o]]
  BY RuleAnswerDomain
<1>5. ~e.refused /\ Covered(HiddenTargets(e.states), under) \cap DOMAIN selections = {}
  BY DEF HiddenOptions
<1> HIDE DEF first, second, under, e
<1>6. InTandem(cfg.rules, cfg.rules, first, second)
  BY <1>1, <1>2, <1>3, <1>4, TextAssumption DEF InTandem
<1>7. Beside(HiddenTargets(e.states), first, second, under)
  BY <1>3, <1>5 DEF Beside
<1>8. Evaluate(cfg.rules, first, under) = Evaluate(cfg.rules, second, under)
  BY <1>5, <1>6, <1>7, SameOutcome DEF e
<1> QED BY <1>8 DEF first, second, under

LEMMA JudgedAgain ==
  ASSUME NEW cfg, NEW selections, NEW kept, NEW cost, NEW states, NEW hidden, NEW v, NEW w,
         DOMAIN v = DOMAIN selections \cap DOMAIN cfg.options,
         Errors(cfg, selections, states, hidden, v) = {},
         DOMAIN kept = TakenOf(v), DOMAIN w = TakenOf(v), \A o \in TakenOf(v) : w[o] = v[o]
  PROVE  Judged(cfg, kept, cost, states, hidden, w) = Judged(cfg, selections, cost, states, hidden, v)
<1> DEFINE T == TakenOf(v)
<1>1. T \subseteq DOMAIN v /\ \A o \in T : v[o].code = "taken"
  BY DEF TakenOf
<1>2. TakenOf(w) = T
  BY <1>1 DEF TakenOf
<1> HIDE DEF T
<1>3. \A o \in DOMAIN v : v[o].code \in {"taken", "empty"}
  <2>1. {<<v[o].code, o>> : o \in {o \in DOMAIN v : v[o].code \notin {"taken", "empty"}}} = {}
    BY DEF Errors
  <2>2. {o \in DOMAIN v : v[o].code \notin {"taken", "empty"}} = {}
    BY <2>1
  <2> QED BY <2>2
<1>4. Missing(cfg, v, states, hidden) = {}
  <2>1. {<<"required", o>> : o \in Missing(cfg, v, states, hidden)} = {}
    BY DEF Errors
  <2> QED BY <2>1
<1>5. {l \in {Line} : TextSize(cfg, v, T) > MaxText} = {}
  <2>1. {<<"too_much_text", l>> : l \in {l \in {Line} : TextSize(cfg, v, T) > MaxText}} = {}
    BY DEF Errors, T
  <2> QED BY <2>1
<1>6. Missing(cfg, w, states, hidden) = {}
  <2>1. ASSUME NEW o \in Missing(cfg, w, states, hidden) PROVE o \in Missing(cfg, v, states, hidden)
    <3>1. /\ o \in DOMAIN cfg.options \ hidden
          /\ Required(cfg.options[o], StateOf(states, o))
          /\ o \notin DOMAIN w \/ w[o].code = "empty"
      BY DEF Missing
    <3>2. o \notin T
      BY <1>1, <3>1 DEF T
    <3>3. o \notin DOMAIN v \/ v[o].code = "empty"
      BY <1>3, <3>2 DEF T, TakenOf
    <3> QED BY <3>1, <3>3 DEF Missing
  <2> QED BY <1>4, <2>1
<1>7. TextSize(cfg, w, T) = TextSize(cfg, v, T)
  <2> DEFINE texts == {o \in T : cfg.options[o].kind = "text" /\ ~IsHidden(cfg.options[o])}
             f == [o \in texts |-> Length(Scalar(v[o].chosen))]
             g == [o \in texts |-> Length(Scalar(w[o].chosen))]
  <2>1. f = g
    BY DEF T
  <2>2. TextSize(cfg, v, T) = SumFunction(f) /\ TextSize(cfg, w, T) = SumFunction(g)
    BY DEF TextSize
  <2> HIDE DEF f, g
  <2> QED BY <2>1, <2>2
<1>8. Errors(cfg, kept, states, hidden, w) = {}
  <2>1. DOMAIN kept \ DOMAIN cfg.options = {}
    BY <1>1 DEF T
  <2>2. {o \in DOMAIN w : w[o].code \notin {"taken", "empty"}} = {}
    BY <1>1 DEF T
  <2>3. {l \in {Line} : TextSize(cfg, w, TakenOf(w)) > MaxText} = {}
    BY <1>2, <1>5, <1>7
  <2> QED BY <1>6, <2>1, <2>2, <2>3 DEF Errors
<1> DEFINE f == [o \in T |-> v[o].amount]
           g == [o \in T |-> w[o].amount]
<1>9. f = g
  BY DEF T
<1>10. DOMAIN f = T /\ \A o \in T : w[o] = v[o]
  BY DEF T
<1> HIDE DEF f, g
<1>11. Charged(cost, f, v) = Charged(cost, f, w)
  BY <1>10 DEF Charged
<1> DEFINE answer == Charged(cost, f, v)
<1> HIDE DEF answer
<1>12. /\ Judged(cfg, selections, cost, states, hidden, v) = Unless(Errors(cfg, selections, states, hidden, v), answer)
       /\ Judged(cfg, kept, cost, states, hidden, w) = Unless(Errors(cfg, kept, states, hidden, w), answer)
  BY <1>2, <1>9, <1>11 DEF Judged, T, f, g, answer
<1> QED BY <1>8, <1>12

Posted(selections, options) == \A o \in DOMAIN selections \cap DOMAIN options : IsPosted(options[o], selections[o])

LEMMA ResolvesAgain ==
  ASSUME NEW cfg, IsDocument(cfg), NEW selections, Posted(selections, cfg.options), NEW cost \in Int, NEW clock,
         Resolve(cfg, selections, cost, clock).ok
  PROVE  Resolve(cfg, Resolve(cfg, selections, cost, clock).resolved, cost, clock)
         = Resolve(cfg, selections, cost, clock)
<1> DEFINE under == Containment(cfg)
           e == Evaluate(cfg.rules, RuleAnswers(cfg.options, selections), under)
           r == Resolve(cfg, selections, cost, clock)
           hidden == HiddenOptions(e.states, under)
           values == HiddenValues(cfg.rules, e.states)
           v == Verdicts(cfg, selections, cost, clock, e.states, hidden)
           errors == Errors(cfg, selections, e.states, hidden, v)
           kept == r.resolved
           w == Verdicts(cfg, kept, cost, clock, e.states, hidden)
           judged == Judged(cfg, selections, cost, e.states, hidden, v)
           T == TakenOf(v)
<1>1. StatesFit(e.states)
  BY EvaluationFits
<1>2. r = IF e.refused THEN Refused({<<"rules_unsettled", Line>>}) ELSE judged
  BY DEF Resolve, Settled, RuledBy
<1>3. Refused({<<"rules_unsettled", Line>>}).ok = FALSE
  BY DEF Refused
<1>4. r.ok
  OBVIOUS
<1> HIDE DEF r, judged
<1>5. ~e.refused /\ r = judged
  BY <1>2, <1>3, <1>4
<1> HIDE DEF e, hidden, under, values
<1>6. DOMAIN v = DOMAIN selections \cap DOMAIN cfg.options /\ \A o \in DOMAIN v : v[o].amount \in Int
  <2>1. Amounted(v, DOMAIN selections \cap DOMAIN cfg.options)
    BY <1>1, VerdictsFit
  <2> HIDE DEF v
  <2> QED BY <2>1 DEF Amounted
<1>7. \A o \in DOMAIN v : v[o] = Answered(cfg, o, selections[o], e.states, hidden, values, cost, clock)
  BY DEF Verdicts, values
<1> HIDE DEF v
<1>8. errors = {}
  <2>1. judged.ok => errors = {}
    BY <1>6, JudgedIs DEF judged
  <2> QED BY <1>4, <1>5, <2>1
<1>9. r.resolved = [o \in T |-> v[o].chosen]
  <2> DEFINE deltas == [o \in TakenOf(v) |-> v[o].amount]
             answer == Charged(cost, deltas, v)
  <2>1. judged = IF errors # {} THEN Refused(errors)
                 ELSE IF answer.total = Unpriceable THEN Refused({<<"unpriceable", Line>>}) ELSE answer
    BY DEF Judged, Unless, judged
  <2>2. Refused({<<"unpriceable", Line>>}).ok = FALSE
    BY DEF Refused
  <2>3. answer.resolved = [o \in T |-> v[o].chosen]
    BY DEF Charged
  <2> HIDE DEF answer, errors
  <2> QED BY <1>4, <1>5, <1>8, <2>1, <2>2, <2>3
<1>10. DOMAIN selections \subseteq DOMAIN cfg.options /\ \A o \in DOMAIN v : v[o].code \in {"taken", "empty"}
  <2>1. {<<"unknown_option", o>> : o \in DOMAIN selections \ DOMAIN cfg.options} = {}
        /\ {<<v[o].code, o>> : o \in {o \in DOMAIN v : v[o].code \notin {"taken", "empty"}}} = {}
    BY <1>8 DEF Errors
  <2>2. DOMAIN selections \ DOMAIN cfg.options = {}
        /\ {o \in DOMAIN v : v[o].code \notin {"taken", "empty"}} = {}
    BY <2>1
  <2> QED BY <2>2
<1> HIDE DEF errors
<1>11. ASSUME NEW o \in DOMAIN v
       PROVE  /\ ReadAs(v[o], cfg.options[o], selections[o]) /\ o \notin hidden
              /\ IsHidden(cfg.options[o]) /\ v[o].code = "taken" =>
                    v[o] = HiddenVerdict(cfg.options[o], o, e.states)
  <2> DEFINE a == Answered(cfg, o, selections[o], e.states, hidden, values, cost, clock)
  <2>1. v[o] = a
    BY <1>7
  <2>2. IsPosted(cfg.options[o], selections[o])
    BY <1>6 DEF Posted
  <2>3. a.code \in {"taken", "empty"}
    BY <1>10, <2>1
  <2>4. /\ ReadAs(a, cfg.options[o], selections[o]) /\ o \notin hidden
        /\ IsHidden(cfg.options[o]) /\ a.code = "taken" => a = HiddenVerdict(cfg.options[o], o, e.states)
    BY <2>2, <2>3, AnsweredReads
  <2> HIDE DEF a
  <2> QED BY <2>1, <2>4
<1>12. T \subseteq DOMAIN v /\ (\A o \in T : v[o].code = "taken") /\ \A o \in DOMAIN v \ T : v[o].code = "empty"
  BY <1>10 DEF TakenOf
<1>13. DOMAIN kept = T /\ \A o \in T : kept[o] = v[o].chosen
  BY <1>9
<1> HIDE DEF T, kept
<1>14. KeptOf(kept, cfg.options, selections)
  <2>1. DOMAIN kept \subseteq DOMAIN selections /\ DOMAIN selections = DOMAIN v
    BY <1>6, <1>10, <1>12, <1>13
  <2>2. \A o \in DOMAIN kept : IF IsHidden(cfg.options[o]) THEN kept[o] = Given({CleanText(cfg.options[o].default)})
                               ELSE kept[o] = selections[o]
    BY <1>11, <1>12, <1>13 DEF ReadAs
  <2>3. \A o \in DOMAIN selections \ DOMAIN kept : ~IsHidden(cfg.options[o]) => selections[o] \in {Nothing, Blank}
    BY <1>11, <1>12, <1>13, <2>1 DEF ReadAs
  <2> QED BY <1>10, <2>1, <2>2, <2>3 DEF KeptOf
<1>15. Evaluate(cfg.rules, RuleAnswers(cfg.options, kept), under) = e
  <2>1. hidden \cap DOMAIN selections = {}
    BY <1>6, <1>10, <1>11
  <2>2. ~Evaluate(cfg.rules, RuleAnswers(cfg.options, selections), Containment(cfg)).refused
        /\ HiddenOptions(Evaluate(cfg.rules, RuleAnswers(cfg.options, selections), Containment(cfg)).states,
                         Containment(cfg)) \cap DOMAIN selections = {}
    BY <1>5, <2>1 DEF e, hidden, under
  <2> QED BY <1>14, <2>2, EvaluatesAgain DEF e, under
<1>16. Resolve(cfg, kept, cost, clock) = Judged(cfg, kept, cost, e.states, hidden, w)
  BY <1>5, <1>15 DEF Resolve, Settled, RuledBy, under, hidden
<1>17. DOMAIN w = T /\ \A o \in T : w[o] = v[o]
  <2>1. DOMAIN w = T
    BY <1>6, <1>12, <1>13 DEF Verdicts
  <2>2. \A o \in T : w[o] = Answered(cfg, o, kept[o], e.states, hidden, values, cost, clock)
    BY <1>6, <1>12, <1>13 DEF Verdicts, values
  <2> HIDE DEF w
  <2>3. ASSUME NEW o \in T PROVE w[o] = v[o]
    <3>1. CASE ~IsHidden(cfg.options[o])
      <4>1. kept[o] = selections[o]
        BY <1>13, <1>14, <3>1 DEF KeptOf
      <4> QED BY <1>7, <1>12, <2>2, <4>1
    <3>2. CASE IsHidden(cfg.options[o])
      <4>1. kept[o] = Given({CleanText(cfg.options[o].default)})
        BY <1>13, <1>14, <3>2 DEF KeptOf
      <4>2. kept[o].many = FALSE /\ kept[o].members # {}
        BY <4>1 DEF Given
      <4>3. o \notin hidden /\ v[o] = HiddenVerdict(cfg.options[o], o, e.states)
        BY <1>11, <1>12, <3>2
      <4>4. Answered(cfg, o, kept[o], e.states, hidden, values, cost, clock)
            = HiddenVerdict(cfg.options[o], o, e.states)
        BY <3>2, <4>2, <4>3 DEF Answered
      <4> QED BY <2>2, <4>3, <4>4
    <3> QED BY <3>1, <3>2
  <2> QED BY <2>1, <2>3
<1> HIDE DEF w
<1>18. Judged(cfg, kept, cost, e.states, hidden, w) = judged
  BY <1>6, <1>8, <1>13, <1>17, JudgedAgain DEF judged, T, errors
<1>19. Resolve(cfg, kept, cost, clock) = r
  BY <1>5, <1>16, <1>18
<1> QED BY <1>19 DEF r, kept

-----------------------------------------------------------------------------
(* The product page, the cart and the orders. *)
(* The shop's side of the state. *)
ShopOK ==
    /\ doc \in DOMAIN Docs /\ base \in BasePrices
    /\ changes \in 0 .. MaxChanges
    /\ version \in 1 .. changes + 1 /\ today \in 1 .. changes + 1
    /\ published \in Seq(DOMAIN Docs) /\ Len(published) = version /\ published[version] = doc
    /\ files \subseteq FileTokens /\ secret \in 0 .. 1

PageFields == {"doc", "values", "gone", "estimate", "typing"}

IsPage(p) ==
    /\ DOMAIN p = PageFields /\ p = [i \in PageFields |-> p[i]]
    /\ p.doc # NoDoc => p.doc \in DOMAIN Docs /\ DOMAIN p.values = DOMAIN Options(p.doc)

PageOK == IsPage(page)

(* Selections of some published document. *)
Known(selections, log, n) ==
    /\ DOMAIN selections # {}
    /\ \E i \in 1 .. n : DOMAIN selections \subseteq DOMAIN Options(log[i])

LineOK(line) ==
    /\ \A s, t \in line.snapshot : s = t
    /\ \A s \in line.snapshot : /\ DOMAIN s.deltas \subseteq DOMAIN line.selections
                                /\ \A o \in DOMAIN s.deltas : s.deltas[o] \in Int

CartOK == \A line \in cart : Known(line.selections, published, version) /\ LineOK(line)

OrdersOK == \A order \in orders : Known(order.selections, published, version) /\ order.charged \in 0 .. MaxMinor

CoreInv == ShopOK /\ PageOK /\ CartOK /\ OrdersOK

LEMMA CoreIsTyped == CoreInv => StorefrontTypeOK
<1> SUFFICES ASSUME CoreInv PROVE StorefrontTypeOK
  OBVIOUS
<1>1. doc \in DOMAIN Docs /\ base \in BasePrices /\ files \subseteq FileTokens /\ secret \in 0 .. 1
      /\ published \in Seq(DOMAIN Docs) /\ Len(published) = version
  BY DEF CoreInv, ShopOK
<1>2. version \in 1 .. MaxChanges + 1 /\ today \in 1 .. MaxChanges + 1
  BY ShopAssumption DEF CoreInv, ShopOK
<1>3. page.doc # NoDoc => DOMAIN page.values = DOMAIN Options(page.doc)
  BY DEF CoreInv, PageOK, IsPage
<1>4. \A line \in cart \cup orders : \E i \in 1 .. version : DOMAIN line.selections \subseteq DOMAIN Options(published[i])
  BY DEF CoreInv, CartOK, OrdersOK, Known
<1>5. \A order \in orders : order.charged \in 0 .. MaxMinor
  BY DEF CoreInv, OrdersOK
<1> QED BY <1>1, <1>2, <1>3, <1>4, <1>5 DEF StorefrontTypeOK

LEMMA CoreInit == StorefrontInit => CoreInv
<1> SUFFICES ASSUME StorefrontInit PROVE CoreInv
  OBVIOUS
<1>1. ShopOK
  BY ShopAssumption DEF StorefrontInit, ShopOK
<1>2. PageOK
  BY DEF StorefrontInit, PageOK, IsPage, ClosedPage, PageFields
<1>3. CartOK /\ OrdersOK
  BY DEF StorefrontInit, CartOK, OrdersOK
<1> QED BY <1>1, <1>2, <1>3 DEF CoreInv

LEMMA KnownIsFinite ==
  ASSUME ShopOK, NEW selections, Known(selections, published, version)
  PROVE  IsFiniteSet(DOMAIN selections) /\ DOMAIN selections # {}
<1>1. PICK i \in 1 .. version : DOMAIN selections \subseteq DOMAIN Options(published[i])
  BY DEF Known
<1>2. published[i] \in DOMAIN Docs
  BY <1>1 DEF ShopOK
<1>3. IsFiniteSet(DOMAIN Options(published[i]))
  BY <1>2, ShopAssumption DEF IsDocument, Options
<1> QED BY <1>1, <1>3, FS_Subset DEF Known

(* What WooCommerce charges for a line. *)
LEMMA PriceIs ==
  ASSUME ShopOK, NEW d \in DOMAIN Docs, NEW line, Known(line.selections, published, version), LineOK(line)
  PROVE  UnitPriceUnder(d, line) \in 0 .. MaxMinor
<1> DEFINE live == Resolve(Docs[d], line.selections, base, today)
           totals == {SumDeltas(base, deltas) : deltas \in Trusted(line)} \ {Unpriceable}
<1>1. IsDocument(Docs[d]) /\ base \in 0 .. MaxMinor /\ base \in Int
  BY ShopAssumption, MaxMinorAssumption DEF ShopOK
<1>2. live.ok \in BOOLEAN /\ (live.ok => Accepted(live, Docs[d], line.selections, base))
  BY <1>1, ResolveIs
<1>3. live.ok => live.total \in 0 .. MaxMinor
  <2> HIDE DEF live
  <2> SUFFICES ASSUME live.ok PROVE live.total \in 0 .. MaxMinor
    OBVIOUS
  <2>1. DOMAIN live.deltas \subseteq DOMAIN Docs[d].options /\ (\A o \in DOMAIN live.deltas : live.deltas[o] \in Int)
        /\ live.total = SumDeltas(base, live.deltas) /\ live.total # Unpriceable
    BY <1>2 DEF Accepted
  <2>2. IsFiniteSet(DOMAIN live.deltas)
    BY <1>1, <2>1, FS_Subset DEF IsDocument
  <2> QED BY <1>1, <2>1, <2>2, SumDeltasIs
<1>4. totals \subseteq 0 .. MaxMinor
  <2> SUFFICES ASSUME NEW deltas \in Trusted(line), SumDeltas(base, deltas) # Unpriceable
               PROVE  SumDeltas(base, deltas) \in 0 .. MaxMinor
    OBVIOUS
  <2>1. DOMAIN deltas \subseteq DOMAIN line.selections /\ \A o \in DOMAIN deltas : deltas[o] \in Int
    BY DEF Trusted, LineOK
  <2>2. IsFiniteSet(DOMAIN deltas)
    BY <2>1, KnownIsFinite, FS_Subset
  <2> QED BY <1>1, <2>1, <2>2, SumDeltasIs
<1>5. UnitPriceUnder(d, line) = IF ~live.ok THEN base
        ELSE IF totals # {} THEN CHOOSE total \in totals : TRUE ELSE live.total
  BY DEF UnitPriceUnder
<1> HIDE DEF live, totals
<1>6. totals # {} => (CHOOSE total \in totals : TRUE) \in totals
  OBVIOUS
<1> QED BY <1>1, <1>3, <1>4, <1>5, <1>6

(* Steps of the page keep its document and its controls. *)
Keeps(p, q) == IsPage(q) /\ q.doc = p.doc /\ DOMAIN q.values = DOMAIN p.values

LEMMA HidingKeeps ==
  ASSUME NEW p, IsPage(p), NEW gone
  PROVE  Keeps(p, Hiding(p, gone)) /\ Hiding(p, gone).gone = gone
<1> DEFINE covered == Covered(gone, Containment(Docs[p.doc]))
           values == [o \in DOMAIN p.values |-> Cleared(Options(p.doc)[o], p.values[o], gone, o \in covered)]
           q == [p EXCEPT !.gone = gone, !.values = values]
<1>1. Hiding(p, gone) = q
  BY DEF Hiding, ClearedPage
<1>2. DOMAIN values = DOMAIN p.values
  OBVIOUS
<1> HIDE DEF values
<1>3. /\ DOMAIN q = PageFields /\ q = [i \in PageFields |-> q[i]] /\ q.doc = p.doc /\ q.values = values
      /\ q.gone = gone
  BY DEF IsPage, PageFields
<1> HIDE DEF q
<1> QED BY <1>1, <1>2, <1>3 DEF Keeps, IsPage

LEMMA ApplyRulesKeeps ==
  ASSUME NEW p, IsPage(p)
  PROVE  Keeps(p, ApplyRules(p))
<1> DEFINE gone == GoneBy(PageEvaluate(p.doc, AnswersIn(p.doc, p.values)))
<1>1. ApplyRules(p) = Hiding(p, gone)
  BY DEF ApplyRules
<1> HIDE DEF gone
<1> QED BY <1>1, HidingKeeps

LEMMA TypingKeeps ==
  ASSUME NEW p, IsPage(p), NEW b
  PROVE  Keeps(p, [p EXCEPT !.typing = b])
<1> DEFINE q == [p EXCEPT !.typing = b]
<1>1. DOMAIN q = PageFields /\ q = [i \in PageFields |-> q[i]] /\ q.doc = p.doc /\ q.values = p.values
  BY DEF IsPage, PageFields
<1> HIDE DEF q
<1>2. Keeps(p, q)
  BY <1>1 DEF Keeps, IsPage
<1> QED BY <1>2 DEF q

LEMMA RefreshKeeps ==
  ASSUME NEW p, IsPage(p)
  PROVE  Keeps(p, Refresh(p)) /\ Refresh(p).gone = p.gone /\ Refresh(p).values = p.values
<1> DEFINE e == SelectedTotal(p) \ {0}
           q == [p EXCEPT !.estimate = e]
<1> HIDE DEF e
<1>1. DOMAIN q = PageFields /\ q = [i \in PageFields |-> q[i]] /\ q.doc = p.doc /\ q.values = p.values /\ q.gone = p.gone
  BY DEF IsPage, PageFields
<1>2. Refresh(p) = q
  BY DEF Refresh, e
<1> HIDE DEF q
<1>3. Keeps(p, q)
  BY <1>1 DEF Keeps, IsPage
<1> QED BY <1>1, <1>2, <1>3

LEMMA ChangedKeeps ==
  ASSUME NEW p, IsPage(p)
  PROVE  Keeps(p, Changed(p))
<1> DEFINE a == ApplyRules(p)
           r == Refresh(a)
<1>1. Keeps(p, a)
  BY ApplyRulesKeeps
<1> HIDE DEF a
<1>2. Keeps(a, r)
  BY <1>1, RefreshKeeps DEF Keeps
<1>3. Changed(p) = [r EXCEPT !.typing = FALSE]
  BY DEF Changed, a
<1> HIDE DEF r
<1>4. Keeps(r, [r EXCEPT !.typing = FALSE])
  BY <1>2, TypingKeeps DEF Keeps
<1> QED BY <1>1, <1>2, <1>3, <1>4 DEF Keeps

LEMMA KnownStays ==
  ASSUME ShopOK, NEW d \in DOMAIN Docs, NEW selections, Known(selections, published, version)
  PROVE  Known(selections, Append(published, d), version + 1)
<1>1. version \in Nat /\ Len(published) = version /\ published \in Seq(DOMAIN Docs)
  BY DEF ShopOK
<1>2. PICK i \in 1 .. version : DOMAIN selections \subseteq DOMAIN Options(published[i])
  BY DEF Known
<1>3. i \in 1 .. version + 1 /\ Append(published, d)[i] = published[i]
  BY <1>1
<1> QED BY <1>2, <1>3 DEF Known

LEMMA PublishStep ==
  ASSUME CoreInv, NEW d \in DOMAIN Docs, Publish(d)
  PROVE  CoreInv'
<1>1. /\ doc' = d /\ version' = version + 1 /\ published' = Append(published, d)
      /\ base' = base /\ today' = today /\ files' = files /\ secret' = secret
      /\ changes' = changes + 1 /\ changes < MaxChanges
      /\ page' = page /\ cart' = cart /\ orders' = orders
  BY DEF Publish, Around, shop
<1>2. ShopOK'
  BY <1>1, ShopAssumption DEF CoreInv, ShopOK
<1>3. PageOK'
  BY <1>1 DEF CoreInv, PageOK
<1>4. \A selections : Known(selections, published, version) => Known(selections, published', version')
  BY <1>1, KnownStays DEF CoreInv
<1>5. CartOK' /\ OrdersOK'
  BY <1>1, <1>4 DEF CoreInv, CartOK, OrdersOK
<1> QED BY <1>2, <1>3, <1>5 DEF CoreInv

LEMMA RestStays ==
  ASSUME CoreInv, UNCHANGED <<config, page, cart, orders>>
  PROVE  PageOK' /\ CartOK' /\ OrdersOK'
<1>1. published' = published /\ version' = version /\ page' = page /\ cart' = cart /\ orders' = orders
  BY DEF config
<1> QED BY <1>1 DEF CoreInv, PageOK, CartOK, OrdersOK

LEMMA AroundStep ==
  ASSUME CoreInv,
         \/ \E b \in BasePrices : BaseChanges(b)
         \/ DayPasses \/ SecretRotates
         \/ \E token \in FileTokens : FileExpires(token)
  PROVE  CoreInv'
<1>1. UNCHANGED <<config, page, cart, orders>> /\ changes' = changes + 1 /\ changes < MaxChanges
  BY DEF BaseChanges, DayPasses, SecretRotates, FileExpires, Around
<1>2. /\ base' \in BasePrices /\ today' \in {today, today + 1} /\ files' \subseteq files /\ secret' \in 0 .. 1
  BY DEF BaseChanges, DayPasses, SecretRotates, FileExpires, CoreInv, ShopOK
<1>3. ShopOK'
  BY <1>1, <1>2, ShopAssumption DEF CoreInv, ShopOK, config
<1> QED BY <1>1, <1>3, RestStays DEF CoreInv

LEMMA ShopStays ==
  ASSUME CoreInv, UNCHANGED <<config, shop, changes>>
  PROVE  ShopOK'
BY DEF CoreInv, ShopOK, config, shop

LEMMA PageStep ==
  ASSUME CoreInv, UNCHANGED <<config, shop, cart, orders, changes>>, PageOK'
  PROVE  CoreInv'
<1>1. ShopOK'
  BY ShopStays
<1>2. CartOK' /\ OrdersOK'
  BY DEF CoreInv, CartOK, OrdersOK, config
<1> QED BY <1>1, <1>2 DEF CoreInv

LEMMA OpenPageStep ==
  ASSUME CoreInv, OpenPage
  PROVE  CoreInv'
<1>1. PICK d \in DOMAIN Docs : d = doc
  BY DEF CoreInv, ShopOK
<1> DEFINE values == [o \in DOMAIN Options(d) |-> Rendered(Options(d)[o])]
           p == [ClosedPage EXCEPT !.doc = d, !.values = values]
<1>2. page' = Changed(p) /\ UNCHANGED <<config, shop, cart, orders, changes>>
  BY <1>1 DEF OpenPage
<1>3. DOMAIN values = DOMAIN Options(d)
  OBVIOUS
<1> HIDE DEF values
<1>4. IsPage(p)
  <2>1. DOMAIN p = PageFields /\ p = [i \in PageFields |-> p[i]] /\ p.doc = d /\ p.values = values
    BY DEF ClosedPage, PageFields
  <2> HIDE DEF p
  <2> QED BY <1>1, <1>3, <2>1 DEF IsPage
<1> HIDE DEF p
<1>5. PageOK'
  BY <1>2, <1>4, ChangedKeeps DEF PageOK, Keeps
<1> QED BY <1>2, <1>5, PageStep

LEMMA HeldKeeps ==
  ASSUME NEW p, IsPage(p), NEW o, NEW held
  PROVE  IsPage([p EXCEPT !.values[o] = held])
<1> DEFINE q == [p EXCEPT !.values[o] = held]
<1>1. DOMAIN q = PageFields /\ q = [i \in PageFields |-> q[i]] /\ q.doc = p.doc /\ DOMAIN q.values = DOMAIN p.values
  BY DEF IsPage, PageFields
<1> HIDE DEF q
<1>2. IsPage(q)
  BY <1>1 DEF IsPage
<1> QED BY <1>2 DEF q

LEMMA ChooseStep ==
  ASSUME CoreInv, NEW o, NEW key, Choose(o, key)
  PROVE  CoreInv'
<1>1. PICK held : page' = Changed([page EXCEPT !.values[o] = held])
  BY DEF Choose
<1>2. PageOK'
  BY <1>1, HeldKeeps, ChangedKeeps DEF CoreInv, PageOK, Keeps
<1> QED BY <1>2, PageStep DEF Choose

LEMMA TypingStep ==
  ASSUME CoreInv, NEW o, NEW text, Type(o, text)
  PROVE  CoreInv'
<1> DEFINE p == [page EXCEPT !.values[o] = {text}]
           a == ApplyRules(p)
<1>1. page' = [a EXCEPT !.typing = TRUE]
  BY DEF Type
<1>2. IsPage(p)
  BY HeldKeeps DEF CoreInv, PageOK
<1>3. IsPage(a)
  <2> HIDE DEF p
  <2> QED BY <1>2, ApplyRulesKeeps DEF Keeps
<1> HIDE DEF a
<1>4. PageOK'
  BY <1>1, <1>3, TypingKeeps DEF PageOK, Keeps
<1> QED BY <1>4, PageStep DEF Type

LEMMA LeaveFieldStep ==
  ASSUME CoreInv, LeaveField
  PROVE  CoreInv'
<1>1. PageOK'
  BY ChangedKeeps DEF LeaveField, CoreInv, PageOK, Keeps
<1> QED BY <1>1, PageStep DEF LeaveField

(* A line joins the cart. *)
LEMMA MergedIs ==
  ASSUME CartOK, NEW line, Known(line.selections, published, version), LineOK(line)
  PROVE  \A l \in Merged(line) : Known(l.selections, published, version) /\ LineOK(l)
BY DEF Merged, CartOK

LEMMA AttachedIs ==
  ASSUME ShopOK, NEW selections, NEW answer, Accepted(answer, Docs[doc], selections, base), answer.resolved # <<>>
  PROVE  Known(Attach(answer).selections, published, version) /\ LineOK(Attach(answer))
<1>1. /\ Attach(answer).selections = answer.resolved
      /\ Attach(answer).snapshot = IF answer.unpriced = {} THEN Frozen(answer.deltas, version) ELSE {}
  BY DEF Attach
<1>2. DOMAIN answer.resolved = DOMAIN answer.deltas /\ DOMAIN answer.deltas \subseteq DOMAIN Options(doc)
      /\ \A o \in DOMAIN answer.deltas : answer.deltas[o] \in Int
  BY DEF Accepted, Options
<1>3. DOMAIN answer.resolved # {}
  <2> SUFFICES ASSUME DOMAIN answer.resolved = {} PROVE FALSE
    OBVIOUS
  <2>1. answer.resolved = [o \in {} |-> answer.resolved[o]]
    BY DEF Accepted
  <2>2. [o \in {} |-> answer.resolved[o]] = <<>>
    OBVIOUS
  <2> QED BY <2>1, <2>2
<1>4. Known(answer.resolved, published, version)
  BY <1>2, <1>3 DEF Known, ShopOK
<1>5. \A s \in Frozen(answer.deltas, version) : s.deltas = answer.deltas
  BY DEF Frozen
<1>6. \A s, t \in Frozen(answer.deltas, version) : s = t
  BY DEF Frozen
<1>7. LineOK(Attach(answer))
  <2> DEFINE line == Attach(answer)
  <2>1. line.snapshot \subseteq Frozen(answer.deltas, version) /\ line.selections = answer.resolved
    BY <1>1
  <2> HIDE DEF line
  <2>2. LineOK(line)
    BY <1>2, <1>5, <1>6, <2>1 DEF LineOK
  <2> QED BY <2>2 DEF line
<1> QED BY <1>1, <1>4, <1>7

LEMMA CartStep ==
  ASSUME CoreInv, UNCHANGED <<config, shop, orders, changes>>, page' \in {page, ClosedPage},
         \A l \in cart' : Known(l.selections, published, version) /\ LineOK(l)
  PROVE  CoreInv'
<1>1. ShopOK'
  BY ShopStays
<1>2. PageOK'
  BY DEF CoreInv, PageOK, IsPage, ClosedPage, PageFields
<1>3. OrdersOK'
  BY DEF CoreInv, OrdersOK, config
<1>4. CartOK'
  BY DEF CartOK, config
<1> QED BY <1>1, <1>2, <1>3, <1>4 DEF CoreInv

LEMMA AddToCartStep ==
  ASSUME CoreInv, AddToCart
  PROVE  CoreInv'
<1> DEFINE selections == Submitted(page)
           answer == Resolve(Docs[doc], selections, base, today)
<1>1. /\ answer.ok /\ page' = ClosedPage /\ UNCHANGED <<config, shop, orders, changes>>
      /\ cart' = IF answer.resolved = <<>> THEN cart ELSE Merged(Attach(answer))
  BY DEF AddToCart
<1>2. IsDocument(Docs[doc]) /\ base \in Int
  BY ShopAssumption, MaxMinorAssumption DEF CoreInv, ShopOK
<1> HIDE DEF selections
<1>3. Accepted(answer, Docs[doc], selections, base)
  BY <1>1, <1>2, ResolveIs
<1> HIDE DEF answer
<1>4. \A l \in cart' : Known(l.selections, published, version) /\ LineOK(l)
  <2>1. CASE answer.resolved = <<>>
    BY <1>1, <2>1 DEF CoreInv, CartOK
  <2>2. CASE answer.resolved # <<>>
    BY <1>1, <1>3, <2>2, AttachedIs, MergedIs DEF CoreInv
  <2> QED BY <2>1, <2>2
<1> QED BY <1>1, <1>4, CartStep

LEMMA RemoveLineStep ==
  ASSUME CoreInv, NEW line, RemoveLine(line)
  PROVE  CoreInv'
<1>1. \A l \in cart' : Known(l.selections, published, version) /\ LineOK(l)
  BY DEF RemoveLine, CoreInv, CartOK
<1> QED BY <1>1, CartStep DEF RemoveLine

LEMMA OrderAgainStep ==
  ASSUME CoreInv, NEW order \in orders, OrderAgain(order)
  PROVE  CoreInv'
<1> DEFINE line == [selections |-> order.selections, snapshot |-> {}, base |-> base, day |-> today]
<1>1. cart' = Merged(line) /\ UNCHANGED <<config, shop, page, orders, changes>>
  BY DEF OrderAgain
<1>2. Known(line.selections, published, version) /\ LineOK(line)
  BY DEF CoreInv, OrdersOK, LineOK
<1> HIDE DEF line
<1>3. \A l \in cart' : Known(l.selections, published, version) /\ LineOK(l)
  BY <1>1, <1>2, MergedIs DEF CoreInv
<1> QED BY <1>1, <1>3, CartStep

LEMMA CheckoutStep ==
  ASSUME CoreInv, Checkout
  PROVE  CoreInv'
<1>1. /\ orders' = orders \cup {OrderLine(line) : line \in cart} /\ files' \subseteq files /\ cart' = {}
      /\ UNCHANGED <<config, base, today, secret, page, changes>>
  BY DEF Checkout
<1>2. ShopOK'
  BY <1>1 DEF CoreInv, ShopOK, config
<1>3. PageOK' /\ CartOK'
  BY <1>1 DEF CoreInv, PageOK, CartOK
<1>4. \A line \in cart : Known(OrderLine(line).selections, published, version) /\ OrderLine(line).charged \in 0 .. MaxMinor
  <2> SUFFICES ASSUME NEW line \in cart
               PROVE  Known(OrderLine(line).selections, published, version) /\ OrderLine(line).charged \in 0 .. MaxMinor
    OBVIOUS
  <2>1. Known(line.selections, published, version) /\ LineOK(line)
    BY DEF CoreInv, CartOK
  <2>2. UnitPriceUnder(doc, line) \in 0 .. MaxMinor
    BY <2>1, PriceIs DEF CoreInv, ShopOK
  <2> QED BY <2>1, <2>2 DEF OrderLine
<1>5. OrdersOK'
  BY <1>1, <1>4 DEF CoreInv, OrdersOK, config
<1> QED BY <1>2, <1>3, <1>5 DEF CoreInv

LEMMA CoreStep == CoreInv /\ [StorefrontNext]_storefrontVars => CoreInv'
<1> SUFFICES ASSUME CoreInv, [StorefrontNext]_storefrontVars PROVE CoreInv'
  OBVIOUS
<1>1. CASE \E d \in DOMAIN Docs : Publish(d)
  BY <1>1, PublishStep
<1>2. CASE \/ \E b \in BasePrices : BaseChanges(b)
           \/ DayPasses \/ SecretRotates
           \/ \E token \in FileTokens : FileExpires(token)
  BY <1>2, AroundStep
<1>3. CASE OpenPage
  BY <1>3, OpenPageStep
<1>4. CASE LeaveField
  BY <1>4, LeaveFieldStep
<1>5. CASE AddToCart
  BY <1>5, AddToCartStep
<1>6. CASE Checkout
  BY <1>6, CheckoutStep
<1>7. CASE \E o \in DOMAIN page.values : \E key \in IF OnPage(o) THEN Keys(Options(page.doc)[o]) ELSE {} : Choose(o, key)
  BY <1>7, ChooseStep
<1>8. CASE \E o \in DOMAIN page.values : \E text \in UNION {Typed[k] : k \in DOMAIN Typed} : Type(o, text)
  BY <1>8, TypingStep
<1>9. CASE \E line \in cart : RemoveLine(line)
  BY <1>9, RemoveLineStep
<1>10. CASE \E order \in orders : OrderAgain(order)
  BY <1>10, OrderAgainStep
<1>11. CASE UNCHANGED storefrontVars
  <2>1. UNCHANGED <<config, shop, cart, orders, changes, page>>
    BY <1>11 DEF storefrontVars
  <2>2. PageOK'
    BY <2>1 DEF CoreInv, PageOK
  <2> QED BY <2>1, <2>2, PageStep
<1> QED BY <1>1, <1>2, <1>3, <1>4, <1>5, <1>6, <1>7, <1>8, <1>9, <1>10, <1>11 DEF StorefrontNext

(* The store, the page, the cart and the orders keep their shape: a page    *)
(* holds a value for every control of its document, a line only answers of  *)
(* a published document, no order is charged less than nothing.             *)
THEOREM StorefrontTyped == StorefrontSpec => []StorefrontTypeOK
<1>1. StorefrontInit => CoreInv
  BY CoreInit
<1>2. CoreInv /\ [StorefrontNext]_storefrontVars => CoreInv'
  BY CoreStep
<1>3. CoreInv => StorefrontTypeOK
  BY CoreIsTyped
<1> QED BY <1>1, <1>2, <1>3, PTL DEF StorefrontSpec

(* What an order line records of the checkout it was created at.            *)
OrderSound(order, log) ==
    LET atCheckout == Resolve(Docs[log[order.checkedAgainst]], order.selections, order.base, order.day)
    IN /\ atCheckout.ok /\ (order.meta = {} => order.charged = atCheckout.total)
       /\ \A m \in order.meta : order.charged = ClampToZero(order.base + m.delta)

OrdersSound ==
    \A order \in orders : order.checkedAgainst \in 1 .. version /\ OrderSound(order, published)

SaleInv == CoreInv /\ LinesDistinct /\ OrdersSound

LEMMA OrderedIs ==
  ASSUME CoreInv, WithinMoney, NEW line \in cart, LineStands(line)
  PROVE  OrderLine(line).checkedAgainst \in 1 .. version /\ OrderSound(OrderLine(line), published)
<1> DEFINE order == OrderLine(line)
           live == Resolve(Docs[doc], line.selections, base, today)
           bare == Resolve(Docs[doc], line.selections, 0, today)
           totals == {SumDeltas(base, deltas) : deltas \in Trusted(line)} \ {Unpriceable}
           label == (CHOOSE s \in line.snapshot : TRUE).version
           kept == {d \in Trusted(line) : DOMAIN d # {}}
<1>1. /\ order.selections = line.selections /\ order.base = base /\ order.day = today
      /\ order.checkedAgainst = version /\ order.charged = UnitPriceUnder(doc, line)
      /\ order.meta = {[delta |-> SumFunction(d), version |-> label] : d \in kept}
  BY DEF OrderLine
<1>2. UnitPriceUnder(doc, line) = IF ~live.ok THEN base
        ELSE IF totals # {} THEN CHOOSE total \in totals : TRUE ELSE live.total
  BY DEF UnitPriceUnder
<1>3. version \in 1 .. version /\ published[version] = doc /\ IsDocument(Docs[doc]) /\ base \in Int
  BY ShopAssumption, MaxMinorAssumption DEF CoreInv, ShopOK
<1>4. live.ok
  <2>1. bare.ok /\ live.errors # {<<"unpriceable", Line>>}
    BY DEF LineStands, WithinMoney
  <2>2. base \in Int /\ 0 \in Int /\ IsDocument(Docs[doc])
    BY <1>3
  <2>3. Resolve(Docs[doc], line.selections, 0, today).ok
        /\ Resolve(Docs[doc], line.selections, base, today).errors # {<<"unpriceable", Line>>}
    BY <2>1
  <2>4. Resolve(Docs[doc], line.selections, base, today).ok
    BY Zenon, <2>2, <2>3, AcceptedAtAnyBase
  <2> QED BY <2>4
<1>5. Known(line.selections, published, version) /\ LineOK(line)
  BY DEF CoreInv, CartOK
<1>6. \A d \in Trusted(line) : /\ DOMAIN d = DOMAIN line.selections /\ DOMAIN d # {}
                               /\ IsFiniteSet(DOMAIN d) /\ \A o \in DOMAIN d : d[o] \in Int
  BY <1>5, KnownIsFinite DEF CoreInv, Trusted, LineOK
<1>7. \A d, e \in Trusted(line) : d = e
  BY <1>5 DEF Trusted, LineOK
<1>8. \A d \in Trusted(line) : SumDeltas(base, d) # Unpriceable
                               /\ SumDeltas(base, d) = ClampToZero(base + SumFunction(d))
  <2> SUFFICES ASSUME NEW d \in Trusted(line)
               PROVE  SumDeltas(base, d) # Unpriceable /\ SumDeltas(base, d) = ClampToZero(base + SumFunction(d))
    OBVIOUS
  <2>1. SumDeltas(base, d) # Unpriceable
    BY DEF WithinMoney
  <2> QED BY <1>3, <1>6, <2>1, SumDeltasIs
<1>9. ASSUME NEW d \in Trusted(line)
      PROVE  order.charged = ClampToZero(base + SumFunction(d))
  <2>1. SumDeltas(base, d) \in totals
    BY <1>8
  <2>2. \A total \in totals : total = ClampToZero(base + SumFunction(d))
    BY <1>7, <1>8
  <2> HIDE DEF totals, order, live
  <2> QED BY <1>1, <1>2, <1>4, <2>1, <2>2
<1>10. order.meta = {} => Trusted(line) = {}
  <2>1. kept = Trusted(line)
    BY <1>6
  <2> HIDE DEF kept, order, label
  <2>2. order.meta = {} => kept = {}
    BY <1>1
  <2> QED BY <2>1, <2>2
<1>11. Trusted(line) = {} => order.charged = live.total
  <2>1. Trusted(line) = {} => totals = {}
    OBVIOUS
  <2> HIDE DEF totals, order, live
  <2> QED BY <1>1, <1>2, <1>4, <2>1
<1>12. \A m \in order.meta : order.charged = ClampToZero(order.base + m.delta)
  <2> SUFFICES ASSUME NEW m \in order.meta PROVE order.charged = ClampToZero(order.base + m.delta)
    OBVIOUS
  <2>1. PICK d \in kept : m = [delta |-> SumFunction(d), version |-> label]
    BY <1>1
  <2>2. m.delta = SumFunction(d)
    BY <2>1
  <2> HIDE DEF order, label
  <2> QED BY <1>1, <1>9, <2>2
<1>13. live = Resolve(Docs[published[order.checkedAgainst]], order.selections, order.base, order.day)
  BY <1>1, <1>3
<1> HIDE DEF order, live
<1>14. OrderSound(order, published)
  BY <1>4, <1>10, <1>11, <1>12, <1>13 DEF OrderSound
<1>15. order.checkedAgainst \in 1 .. version
  BY <1>1, <1>3
<1> QED BY <1>14, <1>15 DEF order

LEMMA MergedDistinct ==
  ASSUME LinesDistinct, NEW line
  PROVE  \A a, b \in Merged(line) : a.selections = b.selections => a = b
BY DEF LinesDistinct, Merged

LEMMA LinesStep == LinesDistinct /\ [StorefrontNext]_storefrontVars => LinesDistinct'
<1> SUFFICES ASSUME LinesDistinct, [StorefrontNext]_storefrontVars PROVE LinesDistinct'
  OBVIOUS
<1>1. \/ cart' \subseteq cart
      \/ AddToCart
      \/ \E order \in orders : OrderAgain(order)
  BY DEF StorefrontNext, storefrontVars, Publish, BaseChanges, DayPasses, SecretRotates, FileExpires, Around,
         OpenPage, LeaveField, Checkout, Choose, Type, RemoveLine
<1>2. \/ cart' \subseteq cart
      \/ \E line : cart' = Merged(line)
  BY <1>1 DEF AddToCart, OrderAgain
<1> QED BY <1>2, MergedDistinct DEF LinesDistinct

LEMMA OrdersStep == CoreInv /\ OrdersSound /\ WithinMoney /\ [StorefrontNext]_storefrontVars => OrdersSound'
<1> SUFFICES ASSUME CoreInv, OrdersSound, WithinMoney, [StorefrontNext]_storefrontVars PROVE OrdersSound'
  OBVIOUS
<1>1. \/ \E d \in DOMAIN Docs : Publish(d)
      \/ Checkout
      \/ UNCHANGED <<config, orders>>
  BY DEF StorefrontNext, storefrontVars, BaseChanges, DayPasses, SecretRotates, FileExpires, Around,
         OpenPage, LeaveField, Choose, Type, AddToCart, RemoveLine, OrderAgain
<1>2. CASE UNCHANGED <<config, orders>>
  BY <1>2 DEF OrdersSound, config
<1>3. CASE \E d \in DOMAIN Docs : Publish(d)
  <2>1. PICK d \in DOMAIN Docs : Publish(d)
    BY <1>3
  <2>2. orders' = orders /\ version' = version + 1 /\ published' = Append(published, d)
    BY <2>1 DEF Publish, Around
  <2>3. version \in Nat /\ \A i \in 1 .. version : i \in 1 .. version + 1 /\ Append(published, d)[i] = published[i]
    BY DEF CoreInv, ShopOK
  <2>4. \A order \in orders : OrderSound(order, Append(published, d))
    BY <2>3 DEF OrdersSound, OrderSound
  <2> QED BY <2>2, <2>3, <2>4 DEF OrdersSound
<1>4. CASE Checkout
  <2>1. /\ orders' = orders \cup {OrderLine(line) : line \in cart} /\ version' = version /\ published' = published
        /\ \A line \in cart : LineStands(line)
    BY <1>4 DEF Checkout, config
  <2>2. \A line \in cart : OrderLine(line).checkedAgainst \in 1 .. version /\ OrderSound(OrderLine(line), published)
    BY <2>1, OrderedIs
  <2> QED BY <2>1, <2>2 DEF OrdersSound
<1> QED BY <1>1, <1>2, <1>3, <1>4

LEMMA RuleOrder == CoreInv => RuleOrderIrrelevant
<1> SUFFICES ASSUME CoreInv, page.doc # NoDoc PROVE RuleOrderIrrelevant
  BY DEF RuleOrderIrrelevant
<1>1. PICK d \in DOMAIN Docs : d = page.doc
  BY DEF CoreInv, PageOK, IsPage
<1> DEFINE other == [Docs[d] EXCEPT !.rules = Reverse(@)]
           S == ToSet(Docs[d].rules)
<1>2. DOMAIN Docs[d] = {"options", "rules"} /\ Docs[d].rules \in Seq(S)
  BY ShopAssumption DEF IsDocument
<1>3. other.options = Docs[d].options /\ other.rules = Reverse(Docs[d].rules)
  BY <1>2
<1>4. other.rules \in Seq(S) /\ ToSet(other.rules) = ToSet(Docs[d].rules)
  BY <1>2, <1>3, ReverseIs
<1>5. Resolve(Docs[d], Submitted(page), base, today) = Resolve(other, Submitted(page), base, today)
  <2> HIDE DEF other, S
  <2> QED BY <1>2, <1>3, <1>4, SameRulesResolveAlike
<1> QED BY <1>1, <1>5 DEF RuleOrderIrrelevant

LEMMA SaleIsSound == SaleInv => OrdersAreSound
<1> SUFFICES ASSUME SaleInv PROVE OrdersAreSound
  OBVIOUS
<1>1. OrdersWereValid
  BY DEF SaleInv, OrdersSound, OrderSound, OrdersWereValid
<1>2. MetaMatchesCharge
  BY DEF SaleInv, OrdersSound, OrderSound, MetaMatchesCharge
<1> QED BY <1>1, <1>2, RuleOrder DEF SaleInv, OrdersAreSound

(* Whatever the merchant publishes, whatever the base price, the day and    *)
(* the uploads do around the buyer: an order could be bought when it was    *)
(* placed, it charges what it records, a cart holds no configuration twice  *)
(* and the order in which rules are written decides nothing.                *)
THEOREM OrdersHold == StorefrontSpec /\ []WithinMoney => []OrdersAreSound
<1>1. StorefrontInit => SaleInv
  BY CoreInit DEF StorefrontInit, SaleInv, LinesDistinct, OrdersSound
<1>2. SaleInv /\ WithinMoney /\ [StorefrontNext]_storefrontVars => SaleInv'
  BY CoreStep, LinesStep, OrdersStep DEF SaleInv
<1>3. SaleInv => OrdersAreSound
  BY SaleIsSound
<1> QED BY <1>1, <1>2, <1>3, PTL DEF StorefrontSpec

(* Publishing moves no price of a line with a trusted snapshot.             *)
THEOREM PublishKeeps == StorefrontSpec /\ []WithinMoney => PublishKeepsPrices
<1> DEFINE Kept == \A line \in cart, d \in DOMAIN Docs :
                      /\ doc' = d /\ d # doc /\ Trusted(line) # {}
                      /\ Resolve(Docs[doc], line.selections, base, today).ok
                      /\ Resolve(Docs[d], line.selections, base, today).ok
                      => UnitPriceUnder(d, line) = UnitPriceUnder(doc, line)
<1>1. WithinMoney => Kept
  <2> SUFFICES ASSUME WithinMoney, NEW line \in cart, NEW d \in DOMAIN Docs, Trusted(line) # {},
                      Resolve(Docs[doc], line.selections, base, today).ok,
                      Resolve(Docs[d], line.selections, base, today).ok
               PROVE  UnitPriceUnder(d, line) = UnitPriceUnder(doc, line)
    OBVIOUS
  <2>1. {SumDeltas(base, deltas) : deltas \in Trusted(line)} \ {Unpriceable} # {}
    BY DEF WithinMoney
  <2> QED BY <2>1 DEF UnitPriceUnder
<1>2. WithinMoney => [Kept]_storefrontVars
  BY <1>1
<1> QED BY <1>2, PTL DEF PublishKeepsPrices

-----------------------------------------------------------------------------
(* What the page holds of a control that is no choice is one value.         *)
Singles(p) ==
    p.doc # NoDoc =>
        \A o \in DOMAIN p.values : Options(p.doc)[o].kind # "choice" => \A s, t \in p.values[o] : s = t

SinglesOK == Singles(page)

LEMMA HidingSingles ==
  ASSUME NEW p, IsPage(p), Singles(p), NEW gone
  PROVE  Singles(Hiding(p, gone))
<1> DEFINE covered == Covered(gone, Containment(Docs[p.doc]))
           q == Hiding(p, gone)
<1>1. q.doc = p.doc /\ DOMAIN q.values = DOMAIN p.values
  BY HidingKeeps DEF Keeps
<1>2. \A o \in DOMAIN p.values : q.values[o] = Cleared(Options(p.doc)[o], p.values[o], gone, o \in covered)
  <2> DEFINE values == [o \in DOMAIN p.values |-> Cleared(Options(p.doc)[o], p.values[o], gone, o \in covered)]
  <2>1. q = [p EXCEPT !.gone = gone, !.values = values]
    BY DEF Hiding, ClearedPage
  <2>2. \A o \in DOMAIN p.values : values[o] = Cleared(Options(p.doc)[o], p.values[o], gone, o \in covered)
    OBVIOUS
  <2> HIDE DEF values, q
  <2>3. q.values = values
    BY <2>1 DEF IsPage, PageFields
  <2> QED BY <2>2, <2>3
<1> HIDE DEF q
<1>3. ASSUME p.doc # NoDoc, NEW o \in DOMAIN p.values, Options(p.doc)[o].kind # "choice"
      PROVE  \A s, t \in q.values[o] : s = t
  <2>1. \A s, t \in p.values[o] : s = t
    BY <1>3 DEF Singles
  <2>2. q.values[o] \in {{""}, p.values[o]}
    BY <1>2, <1>3 DEF Cleared
  <2> QED BY <2>1, <2>2
<1>4. Singles(q)
  BY <1>1, <1>3 DEF Singles
<1> QED BY <1>4 DEF q

LEMMA ApplyRulesSingles ==
  ASSUME NEW p, IsPage(p), Singles(p)
  PROVE  Singles(ApplyRules(p))
BY HidingSingles DEF ApplyRules

LEMMA TypingHolds ==
  ASSUME NEW p, IsPage(p), NEW b
  PROVE  [p EXCEPT !.typing = b].doc = p.doc /\ [p EXCEPT !.typing = b].values = p.values
BY DEF IsPage, PageFields

LEMMA ChangedSingles ==
  ASSUME NEW p, IsPage(p), Singles(p)
  PROVE  Singles(Changed(p))
<1> DEFINE a == ApplyRules(p)
           r == Refresh(a)
<1>1. IsPage(a) /\ Singles(a)
  BY ApplyRulesKeeps, ApplyRulesSingles DEF Keeps
<1> HIDE DEF a
<1>2. IsPage(r) /\ r.doc = a.doc /\ r.values = a.values
  BY <1>1, RefreshKeeps DEF Keeps
<1>3. Changed(p) = [r EXCEPT !.typing = FALSE]
  BY DEF Changed, a
<1> HIDE DEF r
<1>4. Changed(p).doc = a.doc /\ Changed(p).values = a.values
  BY <1>2, <1>3, TypingHolds
<1> QED BY <1>1, <1>4 DEF Singles

LEMMA HoldingSingles ==
  ASSUME NEW p, IsPage(p), Singles(p), NEW o, NEW held,
         p.doc # NoDoc /\ Options(p.doc)[o].kind # "choice" => \A s, t \in held : s = t
  PROVE  Singles([p EXCEPT !.values[o] = held])
<1> DEFINE q == [p EXCEPT !.values[o] = held]
<1>1. q.doc = p.doc /\ DOMAIN q.values = DOMAIN p.values
      /\ \A i \in DOMAIN p.values : q.values[i] = IF i = o THEN held ELSE p.values[i]
  BY DEF IsPage, PageFields
<1> HIDE DEF q
<1>2. Singles(q)
  BY <1>1 DEF Singles
<1> QED BY <1>2 DEF q

LEMMA SinglesStep == CoreInv /\ SinglesOK /\ [StorefrontNext]_storefrontVars => SinglesOK'
<1> SUFFICES ASSUME CoreInv, SinglesOK, [StorefrontNext]_storefrontVars PROVE SinglesOK'
  OBVIOUS
<1>0. IsPage(page) /\ Singles(page)
  BY DEF CoreInv, PageOK, SinglesOK
<1>1. CASE page' = page
  BY <1>1 DEF SinglesOK
<1>2. CASE OpenPage
  <2>1. PICK d \in DOMAIN Docs : d = doc
    BY DEF CoreInv, ShopOK
  <2> DEFINE values == [o \in DOMAIN Options(d) |-> Rendered(Options(d)[o])]
             p == [ClosedPage EXCEPT !.doc = d, !.values = values]
  <2>2. page' = Changed(p)
    BY <1>2, <2>1 DEF OpenPage
  <2>3. DOMAIN values = DOMAIN Options(d)
        /\ \A o \in DOMAIN values : Options(d)[o].kind # "choice" => \A s, t \in values[o] : s = t
    BY DEF Rendered
  <2> HIDE DEF values
  <2>4. DOMAIN p = PageFields /\ p = [i \in PageFields |-> p[i]] /\ p.doc = d /\ p.values = values
    BY DEF ClosedPage, PageFields
  <2> HIDE DEF p
  <2>5. IsPage(p) /\ Singles(p)
    BY <2>1, <2>3, <2>4 DEF IsPage, Singles
  <2>6. Singles(Changed(p))
    BY <2>5, ChangedSingles
  <2> QED BY <2>2, <2>6 DEF SinglesOK
<1>3. CASE LeaveField
  BY <1>0, <1>3, ChangedSingles DEF LeaveField, SinglesOK
<1>4. CASE AddToCart
  BY <1>4 DEF AddToCart, ClosedPage, SinglesOK, Singles
<1>5. CASE \E o \in DOMAIN page.values : \E key \in IF OnPage(o) THEN Keys(Options(page.doc)[o]) ELSE {} : Choose(o, key)
  <2>1. PICK o, held : page' = Changed([page EXCEPT !.values[o] = held]) /\ Options(page.doc)[o].kind = "choice"
    BY <1>5 DEF Choose
  <2> DEFINE p == [page EXCEPT !.values[o] = held]
  <2>2. IsPage(p) /\ Singles(p)
    BY <1>0, <2>1, HeldKeeps, HoldingSingles
  <2> HIDE DEF p
  <2>3. Singles(Changed(p))
    BY <2>2, ChangedSingles
  <2> QED BY <2>1, <2>3 DEF SinglesOK, p
<1>6. CASE \E o \in DOMAIN page.values : \E text \in UNION {Typed[k] : k \in DOMAIN Typed} : Type(o, text)
  <2>1. PICK o, text : page' = [ApplyRules([page EXCEPT !.values[o] = {text}]) EXCEPT !.typing = TRUE]
    BY <1>6 DEF Type
  <2> DEFINE p == [page EXCEPT !.values[o] = {text}]
  <2>2. IsPage(p) /\ Singles(p)
    BY <1>0, HeldKeeps, HoldingSingles
  <2> HIDE DEF p
  <2> DEFINE a == ApplyRules(p)
  <2>3. IsPage(a) /\ Singles(a)
    BY <2>2, ApplyRulesKeeps, ApplyRulesSingles DEF Keeps
  <2> HIDE DEF a
  <2>4. page' = [a EXCEPT !.typing = TRUE]
    BY <2>1 DEF a, p
  <2>5. page'.doc = a.doc /\ page'.values = a.values
    BY <2>3, <2>4, TypingHolds
  <2> QED BY <2>3, <2>5 DEF SinglesOK, Singles
<1>7. \/ page' = page \/ OpenPage \/ LeaveField \/ AddToCart
      \/ \E o \in DOMAIN page.values : \E key \in IF OnPage(o) THEN Keys(Options(page.doc)[o]) ELSE {} : Choose(o, key)
      \/ \E o \in DOMAIN page.values : \E text \in UNION {Typed[k] : k \in DOMAIN Typed} : Type(o, text)
  BY DEF StorefrontNext, storefrontVars, Publish, BaseChanges, DayPasses, SecretRotates, FileExpires, Around,
         Checkout, RemoveLine, OrderAgain
<1> QED BY <1>1, <1>2, <1>3, <1>4, <1>5, <1>6, <1>7

(* The hypothesis of the theorem below: no text on the page is one that the *)
(* engine's cleaning alters.  Rules read an answer as it was posted and a   *)
(* line keeps it cleaned (SelectionResolver.php:515-521 and 2769), so that  *)
(* a rule on a text that cleaning alters may decide otherwise of the line.  *)
PlainText ==
    page.doc # NoDoc =>
        \A o \in DOMAIN page.values :
            Options(page.doc)[o].kind = "text" => \A text \in page.values[o] : CleanText(text) = text

LEMMA LastCheckedIn ==
  ASSUME NEW option, NEW keys
  PROVE  LastChecked(option, keys) \subseteq keys
BY DEF LastChecked, Checked

LEMMA SubmittedIs ==
  ASSUME NEW p, NEW o \in DOMAIN Submitted(p)
  PROVE  /\ o \in DOMAIN p.values /\ p.values[o] # {}
         /\ LET option == Options(p.doc)[o]
                members == IF option.kind = "choice" /\ ~option.many
                           THEN LastChecked(option, p.values[o]) ELSE p.values[o]
            IN Submitted(p)[o] = IF option.many /\ option.kind = "choice" THEN GivenList(members) ELSE Given(members)
<1> DEFINE option(q) == Options(p.doc)[q]
           sent == {q \in DOMAIN p.values :
                      /\ ~(q \in HiddenOnPage(p) /\ ClearedWithin(option(q)))
                      /\ p.values[q] # {}
                      /\ IsHidden(option(q)) => option(q).default # ""}
           posted(q) == IF option(q).kind = "choice" /\ ~option(q).many
                        THEN LastChecked(option(q), p.values[q]) ELSE p.values[q]
           many(q) == option(q).many /\ option(q).kind = "choice"
<1>1. Submitted(p) = [q \in sent |-> [many |-> many(q), members |-> posted(q)]]
  BY DEF Submitted
<1>2. o \in sent
  BY <1>1
<1>3. Submitted(p)[o] = [many |-> many(o), members |-> posted(o)]
  BY <1>1, <1>2
<1>4. many(o) = IF many(o) THEN TRUE ELSE FALSE
  BY Zenon
<1> HIDE DEF many, posted
<1>5. Submitted(p)[o] = IF many(o) THEN GivenList(posted(o)) ELSE Given(posted(o))
  BY <1>3, <1>4 DEF Given, GivenList
<1> QED BY <1>2, <1>5 DEF many, posted

LEMMA SubmittedIsPosted ==
  ASSUME CoreInv, SinglesOK, PlainText, page.doc # NoDoc
  PROVE  Posted(Submitted(page), Options(doc))
<1>1. page.doc \in DOMAIN Docs /\ DOMAIN page.values = DOMAIN Options(page.doc) /\ doc \in DOMAIN Docs
  BY DEF CoreInv, PageOK, IsPage, ShopOK
<1>2. ASSUME NEW o \in DOMAIN Submitted(page), o \in DOMAIN Options(doc)
      PROVE  IsPosted(Options(doc)[o], Submitted(page)[o])
  <2> DEFINE drawn == Options(page.doc)[o]
             option == Options(doc)[o]
             held == page.values[o]
             answer == Submitted(page)[o]
             members == IF drawn.kind = "choice" /\ ~drawn.many THEN LastChecked(drawn, held) ELSE held
  <2>1. o \in DOMAIN page.values /\ held # {}
        /\ answer = IF drawn.many /\ drawn.kind = "choice" THEN GivenList(members) ELSE Given(members)
    BY SubmittedIs
  <2>2. drawn.kind = option.kind /\ drawn.many = option.many /\ (drawn.many => drawn.kind = "choice")
    BY <1>1, <1>2, <2>1, ShopAssumption DEF Options
  <2>3. drawn.kind # "choice" => \A s, t \in held : s = t
    BY <2>1 DEF SinglesOK, Singles
  <2>4. drawn.kind = "text" => \A s \in held : CleanText(s) = s
    BY <2>1 DEF PlainText
  <2> HIDE DEF drawn, option, held, answer
  <2>5. GivenList(members).members = members /\ Given(members).members = members
    BY DEF Given, GivenList
  <2>6. CASE drawn.many
    <3>1. members = held /\ answer = GivenList(held)
      BY <2>1, <2>2, <2>6
    <3> QED BY <2>1, <2>2, <2>5, <2>6, <3>1 DEF IsPosted, option, answer
  <2>7. CASE ~drawn.many
    <3>1. answer = Given(members) /\ answer.members = members
      BY <2>1, <2>5, <2>7
    <3>2. drawn.kind # "choice" => members = held
      OBVIOUS
    <3> HIDE DEF members
    <3>3. IsPosted(option, answer)
      BY <2>2, <2>3, <2>4, <2>7, <3>1, <3>2 DEF IsPosted
    <3> QED BY <3>3 DEF option, answer
  <2> QED BY <2>6, <2>7
<1> QED BY <1>2 DEF Posted

(* The quote of a line.                                                     *)
QuoteOK(line, log, n) ==
    \A s \in line.snapshot :
        /\ s.version \in 1 .. n
        /\ LET quote == Resolve(Docs[log[s.version]], line.selections, line.base, line.day)
           IN quote.ok /\ quote.unpriced = {} /\ quote.deltas = s.deltas

CartQuotes == \A line \in cart : QuoteOK(line, published, version)

QuoteInv == CoreInv /\ SinglesOK /\ CartQuotes

LEMMA AttachedQuotes ==
  ASSUME CoreInv, SinglesOK, PlainText, page.doc # NoDoc, NEW answer,
         answer = Resolve(Docs[doc], Submitted(page), base, today), answer.ok
  PROVE  QuoteOK(Attach(answer), published, version)
<1>1. IsDocument(Docs[doc]) /\ base \in Int /\ version \in 1 .. version /\ published[version] = doc
  BY ShopAssumption, MaxMinorAssumption DEF CoreInv, ShopOK
<1>2. Posted(Submitted(page), Docs[doc].options)
  BY SubmittedIsPosted DEF Options
<1>3. Resolve(Docs[doc], answer.resolved, base, today) = answer
  BY <1>1, <1>2, ResolvesAgain
<1> DEFINE line == Attach(answer)
<1>4. /\ line.selections = answer.resolved /\ line.base = base /\ line.day = today
      /\ line.snapshot = IF answer.unpriced = {} THEN Frozen(answer.deltas, version) ELSE {}
  BY DEF Attach
<1> HIDE DEF line
<1>5. \A s \in Frozen(answer.deltas, version) : s.version = version /\ s.deltas = answer.deltas
  BY DEF Frozen
<1>6. QuoteOK(line, published, version)
  BY <1>1, <1>3, <1>4, <1>5 DEF QuoteOK
<1> QED BY <1>6 DEF line

LEMMA QuotesStep ==
  CoreInv /\ SinglesOK /\ CartQuotes /\ PlainText /\ [StorefrontNext]_storefrontVars => CartQuotes'
<1> SUFFICES ASSUME CoreInv, SinglesOK, CartQuotes, PlainText, [StorefrontNext]_storefrontVars PROVE CartQuotes'
  OBVIOUS
<1>1. \/ \E d \in DOMAIN Docs : Publish(d)
      \/ UNCHANGED config /\ cart' \subseteq cart
      \/ AddToCart
      \/ \E order \in orders : OrderAgain(order)
  BY DEF StorefrontNext, storefrontVars, BaseChanges, DayPasses, SecretRotates, FileExpires, Around,
         OpenPage, LeaveField, Choose, Type, Checkout, RemoveLine
<1>2. CASE \E d \in DOMAIN Docs : Publish(d)
  <2>1. PICK d \in DOMAIN Docs : Publish(d)
    BY <1>2
  <2>2. cart' = cart /\ version' = version + 1 /\ published' = Append(published, d)
    BY <2>1 DEF Publish, Around
  <2>3. version \in Nat /\ \A i \in 1 .. version : i \in 1 .. version + 1 /\ Append(published, d)[i] = published[i]
    BY DEF CoreInv, ShopOK
  <2>4. \A line \in cart : QuoteOK(line, Append(published, d), version + 1)
    <3> SUFFICES ASSUME NEW line \in cart, NEW s \in line.snapshot
                 PROVE  /\ s.version \in 1 .. version + 1
                        /\ LET quote == Resolve(Docs[Append(published, d)[s.version]], line.selections, line.base, line.day)
                           IN quote.ok /\ quote.unpriced = {} /\ quote.deltas = s.deltas
      BY DEF QuoteOK
    <3>1. /\ s.version \in 1 .. version
          /\ LET quote == Resolve(Docs[published[s.version]], line.selections, line.base, line.day)
             IN quote.ok /\ quote.unpriced = {} /\ quote.deltas = s.deltas
      BY DEF CartQuotes, QuoteOK
    <3>2. s.version \in 1 .. version + 1 /\ Append(published, d)[s.version] = published[s.version]
      BY <2>3, <3>1
    <3> QED BY <3>1, <3>2
  <2> QED BY <2>2, <2>4 DEF CartQuotes
<1>3. CASE UNCHANGED config /\ cart' \subseteq cart
  BY <1>3 DEF config, CartQuotes
<1>4. CASE AddToCart
  <2>1. PICK answer : /\ answer = Resolve(Docs[doc], Submitted(page), base, today) /\ answer.ok
                      /\ cart' = IF answer.resolved = <<>> THEN cart ELSE Merged(Attach(answer))
    BY <1>4 DEF AddToCart
  <2>2. page.doc # NoDoc /\ UNCHANGED config
    BY <1>4 DEF AddToCart
  <2>3. QuoteOK(Attach(answer), published, version)
    BY <2>1, <2>2, AttachedQuotes
  <2>4. \A l \in cart' : QuoteOK(l, published, version)
    BY <2>1, <2>3 DEF CartQuotes, Merged
  <2> QED BY <2>2, <2>4 DEF CartQuotes, config
<1>5. CASE \E order \in orders : OrderAgain(order)
  <2>1. PICK line : line.snapshot = {} /\ cart' = Merged(line) /\ UNCHANGED config
    BY <1>5 DEF OrderAgain
  <2>2. \A l \in cart' : QuoteOK(l, published, version)
    BY <2>1 DEF CartQuotes, Merged, QuoteOK
  <2> QED BY <2>1, <2>2 DEF CartQuotes, config
<1> QED BY <1>1, <1>2, <1>3, <1>4, <1>5

(* However many versions were published since, whatever the base price and   *)
(* the day have become: a snapshot in the cart is what the engine answers   *)
(* for the line's own selections under the version it is labelled with.     *)
THEOREM SnapshotHolds == StorefrontSpec /\ []PlainText => []SnapshotIsQuote
<1>1. StorefrontInit => QuoteInv
  BY CoreInit DEF StorefrontInit, QuoteInv, SinglesOK, Singles, ClosedPage, CartQuotes
<1>2. QuoteInv /\ PlainText /\ [StorefrontNext]_storefrontVars => QuoteInv'
  BY CoreStep, SinglesStep, QuotesStep DEF QuoteInv
<1>3. QuoteInv => SnapshotIsQuote
  BY DEF QuoteInv, CartQuotes, QuoteOK, SnapshotIsQuote
<1> QED BY <1>1, <1>2, <1>3, PTL DEF StorefrontSpec

-----------------------------------------------------------------------------
(* What a page submits. *)
-----------------------------------------------------------------------------
(* What a page can clear it does not submit.  First what its controls hold: *)
(* one answer, or none of a choice.                                         *)
AtMostOne(S) == \A s, t \in S : s = t

Held(option, held) ==
    AtMostOne(held) /\ IF option.kind = "choice" THEN held \subseteq Keys(option) ELSE held # {}

LEMMA Greatest ==
  ASSUME NEW n \in Nat, NEW T, T \subseteq 1 .. n, T # {}
  PROVE  \E i \in T : \A j \in T : j <= i
<1> DEFINE D == {m \in Nat : n - m \in T}
<1>1. D # {}
  <2>1. PICK i \in T : TRUE
    OBVIOUS
  <2>2. n - i \in Nat /\ n - (n - i) = i
    BY <2>1
  <2> QED BY <2>1, <2>2
<1>2. D \subseteq Nat
  OBVIOUS
<1>3. PICK m \in D : \A k \in D : m <= k
  BY <1>1, <1>2, Least
<1>4. ASSUME NEW j \in T PROVE j <= n - m
  <2>1. n - j \in Nat /\ n - (n - j) = j
    OBVIOUS
  <2>2. n - j \in D
    BY <2>1
  <2>3. m <= n - j
    BY <1>3, <2>2
  <2> QED BY <1>2, <2>3
<1> QED BY <1>3, <1>4

LEMMA LastIsOne ==
  ASSUME NEW option, IsOption(option), NEW keys
  PROVE  AtMostOne(LastChecked(option, keys)) /\ LastChecked(option, keys) \subseteq Keys(option)
<1> DEFINE checked == Checked(option, keys)
           last == {i \in checked : \A j \in checked : j <= i}
<1>1. \A i \in DOMAIN option.values : i \in Nat
  BY DEF IsOption
<1>2. checked \subseteq DOMAIN option.values
  BY DEF Checked
<1> HIDE DEF checked
<1>3. \A i, j \in last : i = j
  BY <1>1, <1>2
<1>4. LastChecked(option, keys) = {option.values[i].key : i \in last}
  BY DEF LastChecked, checked
<1>5. last \subseteq DOMAIN option.values
  BY <1>2
<1> HIDE DEF last
<1> QED BY <1>3, <1>4, <1>5 DEF AtMostOne, Keys

LEMMA CheckedIs ==
  ASSUME NEW option, IsOption(option), NEW held, held \subseteq Keys(option), AtMostOne(held)
  PROVE  FirstChecked(option, held) = held /\ LastChecked(option, held) = held
<1> DEFINE checked == Checked(option, held)
           n == Len(option.values)
           first == {i \in checked : \A j \in checked : i <= j}
           last == {i \in checked : \A j \in checked : j <= i}
<1>1. n \in Nat /\ DOMAIN option.values = 1 .. n
  BY DEF IsOption
<1>2. checked = {i \in DOMAIN option.values : option.values[i].key \in held}
  BY DEF Checked
<1>3. FirstChecked(option, held) = {option.values[i].key : i \in first}
      /\ LastChecked(option, held) = {option.values[i].key : i \in last}
  BY DEF FirstChecked, LastChecked
<1> HIDE DEF checked, n
<1>4. CASE held = {}
  BY <1>2, <1>3, <1>4
<1>5. CASE held # {}
  <2>1. PICK k \in held : held = {k}
    BY <1>5 DEF AtMostOne
  <2>2. checked # {} /\ checked \subseteq 1 .. n
    BY <1>1, <1>2, <2>1 DEF Keys
  <2>3. \E i \in checked : \A j \in checked : i <= j
    <3>1. checked \subseteq Nat
      BY <2>2
    <3> QED BY <2>2, <3>1, Least
  <2>4. \E i \in checked : \A j \in checked : j <= i
    BY <1>1, <2>2, Greatest
  <2>5. first # {} /\ last # {} /\ first \subseteq checked /\ last \subseteq checked
    BY <2>3, <2>4
  <2>6. \A i \in checked : option.values[i].key = k
    BY <1>2, <2>1
  <2> HIDE DEF first, last
  <2> QED BY <1>3, <2>1, <2>5, <2>6
<1> QED BY <1>4, <1>5

LEMMA FewKeys ==
  ASSUME NEW option, IsOption(option), Len(option.values) <= 1
  PROVE  AtMostOne(Keys(option))
<1>1. \A i, j \in DOMAIN option.values : i = j
  BY DEF IsOption
<1> QED BY <1>1 DEF Keys, AtMostOne

LEMMA RenderedIsHeld ==
  ASSUME NEW option, IsOption(option), option.type = "checkbox" => Len(option.values) <= 1
  PROVE  Held(option, Rendered(option))
<1>1. CASE option.kind # "choice"
  BY <1>1 DEF Held, AtMostOne, Rendered
<1>2. CASE option.kind = "choice" /\ option.type = "checkbox"
  <2>1. DefaultKeys(option) \subseteq Keys(option)
    BY DEF DefaultKeys, Keys
  <2>2. AtMostOne(Keys(option))
    BY <1>2, FewKeys
  <2> QED BY <1>2, <2>1, <2>2 DEF Held, AtMostOne, Rendered
<1>3. CASE option.kind = "choice" /\ option.type # "checkbox"
  BY <1>3, LastIsOne DEF Held, Rendered
<1> QED BY <1>1, <1>2, <1>3

LEMMA ClearedIsHeld ==
  ASSUME NEW option, NEW held, Held(option, held), NEW gone, NEW covered
  PROVE  Held(option, Cleared(option, held, gone, covered))
<1>1. Deselected(option, held, gone) \subseteq held
  BY DEF Deselected
<1>2. \/ option.kind = "choice" /\ Cleared(option, held, gone, covered) \in {{}, Deselected(option, held, gone)}
      \/ option.kind # "choice" /\ Cleared(option, held, gone, covered) \in {{""}, held}
  BY DEF Cleared
<1> QED BY <1>1, <1>2 DEF Held, AtMostOne

(* A page as drawn: its rules were applied to what its controls held.       *)
DrawnFrom(p, held) ==
    /\ \A o \in DOMAIN p.values : Held(Options(p.doc)[o], held[o])
    /\ p.gone = GoneBy(PageEvaluate(p.doc, AnswersIn(p.doc, held)))
    /\ \A o \in DOMAIN p.values :
          p.values[o] = Cleared(Options(p.doc)[o], held[o], p.gone, o \in HiddenOnPage(p))

Drawn(p) == \E held : DOMAIN held = DOMAIN p.values /\ DrawnFrom(p, held)

Fits(p) == \A o \in DOMAIN p.values : Held(Options(p.doc)[o], p.values[o])

LEMMA DrawnFits ==
  ASSUME NEW p, Drawn(p)
  PROVE  Fits(p)
<1>1. PICK held : DrawnFrom(p, held)
  BY DEF Drawn
<1>2. ASSUME NEW o \in DOMAIN p.values PROVE Held(Options(p.doc)[o], p.values[o])
  <2>1. Held(Options(p.doc)[o], held[o])
    BY <1>1 DEF DrawnFrom
  <2>2. p.values[o] = Cleared(Options(p.doc)[o], held[o], p.gone, o \in HiddenOnPage(p))
    BY <1>1 DEF DrawnFrom
  <2> QED BY <2>1, <2>2, ClearedIsHeld, Zenon
<1> QED BY <1>2 DEF Fits

LEMMA SameDrawn ==
  ASSUME NEW p, NEW q, q.doc = p.doc, q.values = p.values, q.gone = p.gone, Drawn(p)
  PROVE  Drawn(q)
<1>1. PICK held : DOMAIN held = DOMAIN p.values /\ DrawnFrom(p, held)
  BY DEF Drawn
<1>2. HiddenOnPage(q) = HiddenOnPage(p)
  BY DEF HiddenOnPage
<1>3. DrawnFrom(q, held)
  BY <1>1, <1>2 DEF DrawnFrom
<1> QED BY <1>1, <1>3 DEF Drawn

LEMMA ApplyRulesDraws ==
  ASSUME NEW p, IsPage(p), Fits(p)
  PROVE  Drawn(ApplyRules(p))
<1> DEFINE gone == GoneBy(PageEvaluate(p.doc, AnswersIn(p.doc, p.values)))
           covered == Covered(gone, Containment(Docs[p.doc]))
           values == [o \in DOMAIN p.values |-> Cleared(Options(p.doc)[o], p.values[o], gone, o \in covered)]
           q == ApplyRules(p)
<1>1. q = Hiding(p, gone)
  BY DEF ApplyRules
<1>2. Hiding(p, gone) = [p EXCEPT !.gone = gone, !.values = values]
  BY DEF Hiding, ClearedPage
<1>3. DOMAIN values = DOMAIN p.values
      /\ \A o \in DOMAIN p.values : values[o] = Cleared(Options(p.doc)[o], p.values[o], gone, o \in covered)
  OBVIOUS
<1> HIDE DEF values, q, gone
<1>4. q.gone = gone /\ q.values = values /\ q.doc = p.doc
  BY <1>1, <1>2 DEF IsPage, PageFields
<1>5. HiddenOnPage(q) = covered
  BY <1>4 DEF HiddenOnPage
<1> HIDE DEF covered
<1>6. DrawnFrom(q, p.values)
  BY <1>3, <1>4, <1>5 DEF DrawnFrom, Fits, gone
<1>7. Drawn(q)
  BY <1>3, <1>4, <1>6 DEF Drawn
<1> QED BY <1>7 DEF q

LEMMA ChangedDraws ==
  ASSUME NEW p, IsPage(p), Fits(p)
  PROVE  Drawn(Changed(p))
<1> DEFINE a == ApplyRules(p)
           r == Refresh(a)
           c == Changed(p)
<1>1. IsPage(a) /\ Drawn(a)
  BY ApplyRulesKeeps, ApplyRulesDraws DEF Keeps
<1>2. c = [r EXCEPT !.typing = FALSE]
  BY DEF Changed
<1> HIDE DEF a, c
<1>3. IsPage(r) /\ r.doc = a.doc /\ r.gone = a.gone /\ r.values = a.values
  BY <1>1, RefreshKeeps DEF Keeps
<1> HIDE DEF r
<1>4. c.doc = a.doc /\ c.values = a.values /\ c.gone = a.gone
  BY <1>2, <1>3 DEF IsPage, PageFields
<1>5. Drawn(c)
  BY <1>1, <1>4, SameDrawn
<1> QED BY <1>5 DEF c

LEMMA HoldFits ==
  ASSUME NEW p, IsPage(p), Fits(p), NEW o \in DOMAIN p.values, NEW held, Held(Options(p.doc)[o], held)
  PROVE  Fits([p EXCEPT !.values[o] = held])
<1> DEFINE q == [p EXCEPT !.values[o] = held]
<1>1. q.doc = p.doc /\ DOMAIN q.values = DOMAIN p.values
      /\ \A i \in DOMAIN p.values : q.values[i] = IF i = o THEN held ELSE p.values[i]
  BY DEF IsPage, PageFields
<1> HIDE DEF q
<1>2. Fits(q)
  BY <1>1 DEF Fits
<1> QED BY <1>2 DEF q

DrawnOK == page.doc # NoDoc /\ Clearable(page.doc) => Drawn(page)

LEMMA ToggleIsHeld ==
  ASSUME NEW option, IsOption(option), option.kind = "choice", NEW held, Held(option, held),
         NEW key \in Keys(option), option.type = "checkbox" => Len(option.values) <= 1
  PROVE  Held(option, IF option.type # "checkbox" THEN {key}
                      ELSE IF key \in held THEN held \ {key} ELSE held \cup {key})
<1>1. CASE option.type # "checkbox"
  BY <1>1 DEF Held, AtMostOne
<1>2. CASE option.type = "checkbox"
  <2>1. AtMostOne(Keys(option)) /\ held \subseteq Keys(option)
    BY <1>2, FewKeys DEF Held
  <2> QED BY <1>2, <2>1 DEF Held, AtMostOne
<1> QED BY <1>1, <1>2

LEMMA ChooseDraws ==
  ASSUME IsPage(page), page.doc # NoDoc, Clearable(page.doc), Fits(page), NEW o \in DOMAIN page.values,
         NEW key, Choose(o, key)
  PROVE  Drawn(page')
<1> DEFINE option == Options(page.doc)[o]
           held == page.values[o]
           then == IF option.type # "checkbox" THEN {key} ELSE IF key \in held THEN held \ {key} ELSE held \cup {key}
           p == [page EXCEPT !.values[o] = then]
<1>1. option.kind = "choice" /\ key \in Keys(option)
  BY DEF Choose
<1>2. IsOption(option) /\ (option.type = "checkbox" => Len(option.values) <= 1)
  BY ShopAssumption DEF IsPage, IsDocument, Options, Clearable
<1>3. Held(option, held)
  BY DEF Fits
<1>4. page' = Changed(p)
  BY DEF Choose, IsPage, PageFields
<1> HIDE DEF option, held
<1>5. Held(option, then)
  BY <1>1, <1>2, <1>3, ToggleIsHeld
<1> HIDE DEF then
<1>6. IsPage(p) /\ Fits(p)
  BY <1>5, HeldKeeps, HoldFits DEF option
<1> HIDE DEF p
<1>7. Drawn(Changed(p))
  BY <1>6, ChangedDraws
<1> QED BY <1>4, <1>7

LEMMA TypeDraws ==
  ASSUME IsPage(page), page.doc # NoDoc, Fits(page), NEW o \in DOMAIN page.values, NEW text, Type(o, text)
  PROVE  Drawn(page')
<1> DEFINE p == [page EXCEPT !.values[o] = {text}]
           a == ApplyRules(p)
<1>1. page' = [a EXCEPT !.typing = TRUE]
  BY DEF Type
<1>2. Held(Options(page.doc)[o], {text})
  BY DEF Type, Held, AtMostOne
<1>3. IsPage(p) /\ Fits(p)
  BY <1>2, HeldKeeps, HoldFits
<1> HIDE DEF p
<1>4. IsPage(a) /\ Drawn(a)
  BY <1>3, ApplyRulesKeeps, ApplyRulesDraws DEF Keeps
<1> HIDE DEF a
<1> DEFINE q == [a EXCEPT !.typing = TRUE]
<1>5. q.doc = a.doc /\ q.values = a.values /\ q.gone = a.gone
  BY <1>4 DEF IsPage, PageFields
<1> HIDE DEF q
<1>6. Drawn(q)
  BY <1>4, <1>5, SameDrawn
<1> QED BY <1>1, <1>6 DEF q

LEMMA OpenDraws ==
  ASSUME CoreInv, OpenPage, page'.doc # NoDoc => Clearable(doc)
  PROVE  page'.doc # NoDoc => Drawn(page')
<1>1. PICK d \in DOMAIN Docs : d = doc
  BY DEF CoreInv, ShopOK
<1> DEFINE values == [o \in DOMAIN Options(d) |-> Rendered(Options(d)[o])]
           p == [ClosedPage EXCEPT !.doc = d, !.values = values]
<1>2. page' = Changed(p)
  BY <1>1 DEF OpenPage
<1>3. DOMAIN values = DOMAIN Options(d) /\ \A o \in DOMAIN values : values[o] = Rendered(Options(d)[o])
  OBVIOUS
<1> HIDE DEF values
<1>4. DOMAIN p = PageFields /\ p = [i \in PageFields |-> p[i]] /\ p.doc = d /\ p.values = values
  BY DEF ClosedPage, PageFields
<1> HIDE DEF p
<1>5. IsPage(p)
  BY <1>1, <1>3, <1>4 DEF IsPage
<1> SUFFICES ASSUME Clearable(d) PROVE Drawn(page')
  BY <1>1
<1>6. ASSUME NEW o \in DOMAIN values PROVE Held(Options(d)[o], values[o])
  <2>1. IsOption(Options(d)[o]) /\ (Options(d)[o].type = "checkbox" => Len(Options(d)[o].values) <= 1)
    BY <1>3, ShopAssumption DEF IsDocument, Options, Clearable
  <2>2. Held(Options(d)[o], Rendered(Options(d)[o]))
    BY <2>1, RenderedIsHeld
  <2> QED BY <1>3, <2>2
<1>7. Fits(p)
  BY <1>4, <1>6 DEF Fits
<1>8. Drawn(Changed(p))
  BY <1>5, <1>7, ChangedDraws
<1> QED BY <1>2, <1>8

LEMMA DrawnStep == CoreInv /\ DrawnOK /\ [StorefrontNext]_storefrontVars => DrawnOK'
<1> SUFFICES ASSUME CoreInv, DrawnOK, [StorefrontNext]_storefrontVars, (page.doc # NoDoc /\ Clearable(page.doc))'
             PROVE  Drawn(page')
  BY DEF DrawnOK, Drawn, DrawnFrom, HiddenOnPage
<1>0. IsPage(page) /\ CoreInv'
  BY CoreStep DEF CoreInv, PageOK
<1>1. CASE page' = page
  BY <1>1 DEF DrawnOK, Clearable, Options
<1>2. CASE OpenPage
  <2>1. page'.doc = doc
    <3>1. PICK d \in DOMAIN Docs : d = doc
      BY DEF CoreInv, ShopOK
    <3> DEFINE values == [o \in DOMAIN Options(d) |-> Rendered(Options(d)[o])]
               p == [ClosedPage EXCEPT !.doc = d, !.values = values]
    <3>2. page' = Changed(p)
      BY <1>2, <3>1 DEF OpenPage
    <3>3. DOMAIN values = DOMAIN Options(d)
      OBVIOUS
    <3> HIDE DEF values
    <3>4. DOMAIN p = PageFields /\ p = [i \in PageFields |-> p[i]] /\ p.doc = d /\ p.values = values
      BY DEF ClosedPage, PageFields
    <3> HIDE DEF p
    <3>5. IsPage(p)
      BY <3>1, <3>3, <3>4 DEF IsPage
    <3>6. Changed(p).doc = p.doc
      BY <3>5, ChangedKeeps DEF Keeps
    <3> QED BY <3>1, <3>2, <3>4, <3>6
  <2>2. Clearable(doc)
    BY <2>1 DEF Clearable, Options
  <2> QED BY <1>2, <2>2, OpenDraws
<1>3. ASSUME page.doc # NoDoc, page'.doc = page.doc PROVE Fits(page) /\ Clearable(page.doc)
  <2>1. Clearable(page.doc)
    BY <1>3 DEF Clearable, Options
  <2> QED BY <1>3, <2>1, DrawnFits DEF DrawnOK
<1>4. CASE LeaveField
  <2>1. page' = Changed(page)
    BY <1>4 DEF LeaveField
  <2>2. Changed(page).doc = page.doc
    BY <1>0, ChangedKeeps DEF Keeps
  <2>3. Drawn(Changed(page))
    BY <1>0, <1>3, <2>1, <2>2, ChangedDraws
  <2> QED BY <2>1, <2>3
<1>5. CASE AddToCart
  BY <1>5 DEF AddToCart, ClosedPage
<1>6. CASE \E o \in DOMAIN page.values : \E key \in IF OnPage(o) THEN Keys(Options(page.doc)[o]) ELSE {} : Choose(o, key)
  <2>0. PICK o \in DOMAIN page.values : \E key : Choose(o, key)
    BY <1>6
  <2>1. PICK key : Choose(o, key)
    BY <2>0
  <2>2. PICK held : page' = Changed([page EXCEPT !.values[o] = held])
    BY <2>1 DEF Choose
  <2> DEFINE p == [page EXCEPT !.values[o] = held]
  <2>3. IsPage(p) /\ p.doc = page.doc
    BY <1>0, HeldKeeps DEF IsPage, PageFields
  <2> HIDE DEF p
  <2>4. Changed(p).doc = p.doc
    BY <2>3, ChangedKeeps DEF Keeps
  <2>5. page.doc # NoDoc /\ page'.doc = page.doc
    BY <2>1, <2>2, <2>3, <2>4 DEF p, Choose, OnPage
  <2>6. Fits(page) /\ Clearable(page.doc)
    BY <1>3, <2>5
  <2> QED BY <1>0, <2>1, <2>5, <2>6, ChooseDraws
<1>7. CASE \E o \in DOMAIN page.values : \E text \in UNION {Typed[k] : k \in DOMAIN Typed} : Type(o, text)
  <2>0. PICK o \in DOMAIN page.values : \E text : Type(o, text)
    BY <1>7
  <2>1. PICK text : Type(o, text)
    BY <2>0
  <2> DEFINE p == [page EXCEPT !.values[o] = {text}]
             a == ApplyRules(p)
  <2>2. page' = [a EXCEPT !.typing = TRUE]
    BY <2>1 DEF Type
  <2>3. IsPage(p) /\ p.doc = page.doc
    BY <1>0, HeldKeeps DEF IsPage, PageFields
  <2> HIDE DEF p
  <2>4. IsPage(a) /\ a.doc = p.doc
    BY <2>3, ApplyRulesKeeps DEF Keeps
  <2> HIDE DEF a
  <2>5. page.doc # NoDoc /\ page'.doc = page.doc
    BY <2>1, <2>2, <2>3, <2>4, TypingHolds DEF Type, OnPage
  <2>6. Fits(page)
    BY <1>3, <2>5
  <2> QED BY <1>0, <2>1, <2>5, <2>6, TypeDraws
<1>8. \/ page' = page \/ OpenPage \/ LeaveField \/ AddToCart
      \/ \E o \in DOMAIN page.values : \E key \in IF OnPage(o) THEN Keys(Options(page.doc)[o]) ELSE {} : Choose(o, key)
      \/ \E o \in DOMAIN page.values : \E text \in UNION {Typed[k] : k \in DOMAIN Typed} : Type(o, text)
  BY DEF StorefrontNext, storefrontVars, Publish, BaseChanges, DayPasses, SecretRotates, FileExpires, Around,
         Checkout, RemoveLine, OrderAgain
<1> QED BY <1>1, <1>2, <1>4, <1>5, <1>6, <1>7, <1>8

-----------------------------------------------------------------------------
(* What such a page submits is what its rules left.                         *)
PageRules(d) == Only(Docs[d].rules, {rule \in ToSet(Docs[d].rules) : rule.action # "set_price"})

LEMMA PageRulesHide ==
  ASSUME NEW d \in DOMAIN Docs
  PROVE  /\ PageRules(d) \in Seq(ToSet(Docs[d].rules)) /\ Docs[d].rules \in Seq(ToSet(Docs[d].rules))
         /\ ToSet(PageRules(d)) \subseteq ToSet(Docs[d].rules)
         /\ \A a : HiddenBy(PageRules(d), a) = HiddenBy(Docs[d].rules, a)
<1> DEFINE rules == Docs[d].rules
           keep == {rule \in ToSet(rules) : rule.action # "set_price"}
<1>1. rules \in Seq(ToSet(rules))
  BY ShopAssumption DEF IsDocument
<1>2. PageRules(d) = Only(rules, keep)
  BY DEF PageRules
<1> HIDE DEF rules
<1>3. Only(rules, keep) \in Seq(ToSet(rules)) /\ ToSet(Only(rules, keep)) = ToSet(rules) \cap keep
  BY <1>1, OnlyFacts
<1>4. ASSUME NEW a PROVE HiddenBy(PageRules(d), a) = HiddenBy(rules, a)
  BY <1>2, <1>3 DEF HiddenBy, Firing
<1> QED BY <1>1, <1>2, <1>3, <1>4 DEF rules

LEMMA NoValueGone ==
  ASSUME NEW p, IsPage(p), p.doc # NoDoc, Clearable(p.doc), NEW answers
  PROVE  GoneBy(PageEvaluate(p.doc, answers)) \cap ValueIds(Options(p.doc)) = {}
<1> DEFINE d == p.doc
           under == Containment(Docs[d])
           e == Evaluate(PageRules(d), answers, under)
<1>1. d \in DOMAIN Docs /\ IsDocument(Docs[d])
  BY ShopAssumption DEF IsPage
<1>2. PageEvaluate(d, answers) = e
  BY DEF PageEvaluate, PageRules
<1>3. HiddenTargets(e.states) \subseteq {rule.target : rule \in ToSet(PageRules(d))}
  BY <1>1, PageRulesHide, HidesTargets
<1>4. ASSUME NEW rule \in ToSet(Docs[d].rules) PROVE rule.target \notin ValueIds(Options(d))
  <2>1. rule.targetType # "value"
    BY DEF Clearable, ToSet
  <2> QED BY <1>1, <2>1 DEF IsDocument, Options
<1>5. ToSet(PageRules(d)) \subseteq ToSet(Docs[d].rules)
  BY <1>1, PageRulesHide
<1> HIDE DEF e, d
<1>6. GoneBy(e) \subseteq HiddenTargets(e.states)
  BY DEF GoneBy
<1>7. GoneBy(e) \cap ValueIds(Options(d)) = {}
  BY <1>3, <1>4, <1>5, <1>6
<1> QED BY <1>2, <1>7 DEF d

LEMMA NoneDeselected ==
  ASSUME NEW d \in DOMAIN Docs, NEW o \in DOMAIN Options(d), NEW keys, keys \subseteq Keys(Options(d)[o]),
         NEW gone, gone \cap ValueIds(Options(d)) = {}
  PROVE  Deselected(Options(d)[o], keys, gone) = keys
<1> DEFINE option == Options(d)[o]
<1>1. ASSUME NEW k \in keys PROVE ValueFor(option, k).id \notin gone
  <2>1. PICK i \in DOMAIN option.values : option.values[i].key = k
    BY DEF Keys
  <2>2. option.values[i] \in ToSet(option.values)
    BY DEF ToSet
  <2>3. ValueFor(option, k) \in ToSet(option.values)
    BY <2>1, <2>2 DEF ValueFor
  <2>4. ValueFor(option, k).id \in ValueIds(Options(d))
    BY <2>3 DEF ValueIds
  <2> QED BY <2>4
<1> QED BY <1>1 DEF Deselected

(* What each control of the page sends.                                     *)
Sends(p, held) ==
    LET S == Submitted(p) IN
    /\ S = [o \in DOMAIN S |-> S[o]]
    /\ DOMAIN S = {o \in DOMAIN p.values : o \notin HiddenOnPage(p) /\ held[o] # {}}
    /\ \A o \in DOMAIN S : S[o] = Given(held[o])

LEMMA HeldIsSent ==
  ASSUME NEW p, IsPage(p), p.doc # NoDoc, Clearable(p.doc), NEW held, DOMAIN held = DOMAIN p.values, DrawnFrom(p, held)
  PROVE  Sends(p, held)
<1> DEFINE d == p.doc
           S == Submitted(p)
           H == HiddenOnPage(p)
<1>1. d \in DOMAIN Docs /\ IsDocument(Docs[d]) /\ DOMAIN p.values = DOMAIN Options(d)
  BY ShopAssumption DEF IsPage
<1>2. ASSUME NEW o \in DOMAIN p.values
      PROVE  /\ IsOption(Options(d)[o]) /\ ClearedWithin(Options(d)[o]) /\ ~IsHidden(Options(d)[o])
             /\ ~Options(d)[o].many
  BY <1>1 DEF Clearable, ClearedWithin, IsDocument, Options
<1>3. ASSUME NEW o \in DOMAIN p.values, o \notin H PROVE p.values[o] = held[o]
  <2>1. Held(Options(d)[o], held[o])
    BY DEF DrawnFrom
  <2>2. p.values[o] = Cleared(Options(d)[o], held[o], p.gone, o \in H)
    BY DEF DrawnFrom
  <2>3. p.gone \cap ValueIds(Options(d)) = {}
    BY NoValueGone DEF DrawnFrom
  <2>4. Options(d)[o].kind = "choice" => Deselected(Options(d)[o], held[o], p.gone) = held[o]
    BY <1>1, <2>1, <2>3, NoneDeselected DEF Held
  <2> HIDE DEF d, H
  <2> QED BY <1>3, <2>2, <2>4 DEF Cleared
<1>4. DOMAIN S = {o \in DOMAIN p.values : o \notin H /\ p.values[o] # {}} /\ S = [o \in DOMAIN S |-> S[o]]
  <2> DEFINE sent == {o \in DOMAIN p.values : /\ ~(o \in H /\ ClearedWithin(Options(d)[o]))
                                              /\ p.values[o] # {}
                                              /\ IsHidden(Options(d)[o]) => Options(d)[o].default # ""}
             option(o) == Options(d)[o]
             posted(o) == IF option(o).kind = "choice" /\ ~option(o).many
                          THEN LastChecked(option(o), p.values[o]) ELSE p.values[o]
  <2>1. S = [o \in sent |-> [many |-> option(o).many /\ option(o).kind = "choice", members |-> posted(o)]]
    BY DEF Submitted
  <2>2. sent = {o \in DOMAIN p.values : o \notin H /\ p.values[o] # {}}
    BY <1>2
  <2> QED BY <2>1, <2>2
<1>5. ASSUME NEW o \in DOMAIN S PROVE S[o] = Given(held[o])
  <2> DEFINE option == Options(d)[o]
  <2>1. o \in DOMAIN p.values /\ o \notin H
    BY <1>4
  <2>2. S[o] = Given(IF option.kind = "choice" /\ ~option.many THEN LastChecked(option, p.values[o]) ELSE p.values[o])
    BY <1>2, <2>1, SubmittedIs
  <2>3. p.values[o] = held[o] /\ Held(option, held[o]) /\ IsOption(option)
    BY <1>2, <1>3, <2>1 DEF DrawnFrom
  <2> HIDE DEF option, S, H
  <2>4. option.kind = "choice" => LastChecked(option, held[o]) = held[o]
    BY <2>3, CheckedIs DEF Held
  <2> QED BY <2>2, <2>3, <2>4
<1> QED BY <1>3, <1>4, <1>5 DEF Sends

LEMMA AnswersAreSent ==
  ASSUME NEW p, IsPage(p), p.doc # NoDoc, NEW held, DOMAIN held = DOMAIN p.values, DrawnFrom(p, held), Sends(p, held)
  PROVE  LET left == Without(AnswersIn(p.doc, held), HiddenOnPage(p))
         IN /\ Alike(left, Submitted(p)) /\ DOMAIN left \subseteq DOMAIN Submitted(p)
            /\ AnswersIn(p.doc, held) = [o \in DOMAIN AnswersIn(p.doc, held) |-> AnswersIn(p.doc, held)[o]]
<1> DEFINE d == p.doc
           S == Submitted(p)
           H == HiddenOnPage(p)
           answer(o) == IF Options(d)[o].kind = "choice" THEN FirstChecked(Options(d)[o], held[o]) ELSE held[o] \ {""}
           A == AnswersIn(d, held)
           left == Without(A, H)
<1>1. d \in DOMAIN Docs /\ IsDocument(Docs[d]) /\ DOMAIN p.values = DOMAIN Options(d)
  BY ShopAssumption DEF IsPage
<1>2. A = [o \in {o \in DOMAIN held : answer(o) # {}} |-> Given(answer(o))]
  BY DEF AnswersIn
<1>3. ASSUME NEW o \in DOMAIN held
      PROVE  /\ answer(o) = held[o] \/ (held[o] = {""} /\ answer(o) = {})
             /\ answer(o) # {} => held[o] # {}
  <2>1. Held(Options(d)[o], held[o]) /\ IsOption(Options(d)[o])
    BY <1>1 DEF DrawnFrom, IsDocument, Options
  <2>2. CASE Options(d)[o].kind = "choice"
    BY <2>1, <2>2, CheckedIs DEF Held
  <2>3. CASE Options(d)[o].kind # "choice"
    <3>1. AtMostOne(held[o]) /\ answer(o) = held[o] \ {""}
      BY <2>1, <2>3 DEF Held
    <3> QED BY <3>1 DEF AtMostOne
  <2> QED BY <2>2, <2>3
<1>4. /\ DOMAIN A = {o \in DOMAIN held : answer(o) # {}} /\ \A o \in DOMAIN A : A[o] = Given(answer(o))
      /\ A = [o \in DOMAIN A |-> A[o]]
  BY <1>2
<1> HIDE DEF answer, A, S, H, d
<1>5. DOMAIN S = {o \in DOMAIN held : o \notin H /\ held[o] # {}} /\ \A o \in DOMAIN S : S[o] = Given(held[o])
  BY DEF Sends, S, H
<1>6. DOMAIN left = DOMAIN A \ H
  BY DEF Without
<1>7. DOMAIN left \subseteq DOMAIN S
  BY <1>3, <1>4, <1>5, <1>6
<1>8. ASSUME NEW o
      PROVE  \/ AnswerOf(left, o) = AnswerOf(S, o)
             \/ AnswerOf(left, o) \in {Nothing, Blank} /\ AnswerOf(S, o) \in {Nothing, Blank}
  <2>1. AnswerOf(left, o) = IF o \in H THEN Nothing ELSE AnswerOf(A, o)
    BY AnswerWithout
  <2>2. CASE o \in H \/ o \notin DOMAIN held
    BY <1>4, <1>5, <2>1, <2>2 DEF AnswerOf
  <2>3. CASE o \notin H /\ o \in DOMAIN held
    <3>1. AnswerOf(S, o) = Given(held[o]) /\ AnswerOf(A, o) = Given(answer(o))
      BY <1>4, <1>5, <2>3 DEF AnswerOf, Nothing
    <3>2. answer(o) = held[o] \/ (held[o] = {""} /\ answer(o) = {})
      BY <1>3, <2>3
    <3> QED BY <2>1, <2>3, <3>1, <3>2 DEF Nothing, Blank
  <2> QED BY <2>2, <2>3
<1> HIDE DEF left
<1>9. Alike(left, S)
  BY <1>8 DEF Alike
<1> QED BY <1>4, <1>7, <1>9 DEF left, A, S, H, d

LEMMA WithoutNothing ==
  ASSUME NEW answers, answers = [o \in DOMAIN answers |-> answers[o]], NEW under
  PROVE  Without(answers, Covered({}, under)) = answers
<1>1. DOMAIN answers \ Covered({}, under) = DOMAIN answers
  BY DEF Covered
<1> QED BY <1>1 DEF Without

(* Where the server's rules do not settle, neither did the page's.          *)
LEMMA UnsettledAlike ==
  ASSUME NEW p, IsPage(p), p.doc # NoDoc, NEW held, DOMAIN held = DOMAIN p.values, DrawnFrom(p, held), Sends(p, held),
         PageEvaluate(p.doc, AnswersIn(p.doc, held)).refused
  PROVE  Evaluate(Docs[p.doc].rules, Submitted(p), Containment(Docs[p.doc])).refused
<1> DEFINE d == p.doc
           under == Containment(Docs[d])
           S == Submitted(p)
           A == AnswersIn(d, held)
<1>1. d \in DOMAIN Docs
  BY DEF IsPage
<1>2. PageEvaluate(d, A) = Evaluate(PageRules(d), A, under)
  BY DEF PageEvaluate, PageRules
<1>3. p.gone = {}
  BY DEF DrawnFrom, GoneBy
<1>4. HiddenOnPage(p) = Covered({}, under)
  BY <1>3 DEF HiddenOnPage
<1>5. /\ Alike(Without(A, HiddenOnPage(p)), S) /\ DOMAIN Without(A, HiddenOnPage(p)) \subseteq DOMAIN S
      /\ A = [o \in DOMAIN A |-> A[o]]
  BY AnswersAreSent
<1>6. S = [o \in DOMAIN S |-> S[o]]
  BY DEF Sends
<1> HIDE DEF A, S, under
<1>7. Without(A, HiddenOnPage(p)) = A
  BY <1>4, <1>5, WithoutNothing
<1>8. /\ PageRules(d) \in Seq(ToSet(Docs[d].rules)) /\ Docs[d].rules \in Seq(ToSet(Docs[d].rules))
      /\ \A a : HiddenBy(PageRules(d), a) = HiddenBy(Docs[d].rules, a)
  BY <1>1, PageRulesHide
<1>9. InTandem(PageRules(d), Docs[d].rules, A, S)
  BY <1>5, <1>6, <1>7, <1>8, TextAssumption DEF InTandem
<1>10. Evaluate(PageRules(d), A, under).refused
  BY <1>2 DEF A
<1> HIDE DEF d
<1>11. Evaluate(Docs[d].rules, S, under).refused
  BY <1>9, <1>10, LockStep
<1> QED BY <1>11 DEF d, S, under

(* What the server's rules hide, the page's had hidden.                     *)
LEMMA GoneIsHidden ==
  ASSUME NEW p, IsPage(p), p.doc # NoDoc, NEW held, DOMAIN held = DOMAIN p.values, DrawnFrom(p, held), Sends(p, held),
         ~PageEvaluate(p.doc, AnswersIn(p.doc, held)).refused
  PROVE  HiddenOptions(Evaluate(Docs[p.doc].rules, Submitted(p), Containment(Docs[p.doc])).states, Containment(Docs[p.doc]))
         \cap DOMAIN Submitted(p) = {}
<1> DEFINE d == p.doc
           rules == Docs[d].rules
           under == Containment(Docs[d])
           S == Submitted(p)
           A == AnswersIn(d, held)
           H == HiddenOnPage(p)
           e == Evaluate(PageRules(d), A, under)
           s == Evaluate(rules, S, under)
<1>1. d \in DOMAIN Docs
  BY DEF IsPage
<1>2. PageEvaluate(d, A) = e
  BY DEF PageEvaluate, PageRules
<1>3. p.gone = HiddenTargets(e.states) /\ H = Covered(p.gone, under) /\ ~e.refused
  BY <1>2 DEF DrawnFrom, GoneBy, HiddenOnPage
<1>4. Alike(Without(A, H), S)
  BY AnswersAreSent
<1>5. S = [o \in DOMAIN S |-> S[o]] /\ DOMAIN S \cap H = {}
  BY DEF Sends
<1>6. /\ PageRules(d) \in Seq(ToSet(rules)) /\ rules \in Seq(ToSet(rules))
      /\ \A a : HiddenBy(PageRules(d), a) = HiddenBy(rules, a)
  BY <1>1, PageRulesHide
<1>7. ~e.refused => EndsOn(e.states, PageRules(d), A, under)
  BY <1>6, EvaluateEnds
<1> HIDE DEF A, S, under, rules, H, d, e
<1>8. PICK left, already : /\ e.states = RuleStates(PageRules(d), left, already)
                           /\ left = Without(A, Covered(HiddenTargets(e.states), under))
  BY <1>3, <1>7 DEF EndsOn
<1>9. HiddenTargets(e.states) = HiddenBy(PageRules(d), left) \cup already
  BY <1>6, <1>8, HiddenAre
<1>10. HiddenBy(rules, left) = HiddenBy(rules, S)
  BY <1>3, <1>4, <1>8, AlikeHidden, TextAssumption
<1>11. HiddenBy(rules, S) \subseteq p.gone
  BY <1>3, <1>6, <1>9, <1>10
<1>12. Covered(HiddenBy(rules, S), under) \subseteq H
  BY <1>3, <1>11 DEF Covered
<1>13. Covered(HiddenBy(rules, S), under) \cap DOMAIN S = {}
  BY <1>5, <1>12
<1>14. HiddenTargets(s.states) = HiddenBy(rules, S)
  BY <1>5, <1>6, <1>13, SettlesAtOnce
<1>15. HiddenOptions(s.states, under) \cap DOMAIN S = {}
  BY <1>13, <1>14 DEF HiddenOptions
<1> QED BY <1>15 DEF S, under, rules, d

LEMMA JudgedErrors ==
  ASSUME NEW cfg, NEW selections, NEW cost, NEW states, NEW hidden, NEW verdicts,
         DOMAIN verdicts = DOMAIN selections \cap DOMAIN cfg.options,
         \A o \in DOMAIN verdicts : verdicts[o].amount \in Int
  PROVE  Judged(cfg, selections, cost, states, hidden, verdicts).errors
         \in {{}, Errors(cfg, selections, states, hidden, verdicts), {<<"unpriceable", Line>>}}
<1> DEFINE r == Judged(cfg, selections, cost, states, hidden, verdicts)
           e == Errors(cfg, selections, states, hidden, verdicts)
<1>1. JudgedAs(r, e, cfg, selections, cost)
  BY JudgedRight
<1> HIDE DEF r, e
<1>2. Accepted(r, cfg, selections, cost) => r.errors = {}
  BY DEF Accepted
<1>3. r.errors \in {{}, e, {<<"unpriceable", Line>>}}
  BY <1>1, <1>2 DEF JudgedAs
<1> QED BY <1>3 DEF r, e

(* Whom the engine refuses as hidden was hidden by a rule.                  *)
LEMMA NoneRefusedAsHidden ==
  ASSUME NEW cfg, IsDocument(cfg), NEW selections, NEW cost \in Int, NEW clock, NEW e,
         e = Evaluate(cfg.rules, RuleAnswers(cfg.options, selections), Containment(cfg)),
         e.refused \/ HiddenOptions(e.states, Containment(cfg)) \cap DOMAIN selections = {},
         \A rule \in ToSet(cfg.rules) : rule.targetType # "value"
  PROVE  \A err \in Resolve(cfg, selections, cost, clock).errors : err[1] # "hidden_by_rule"
<1> DEFINE r == Resolve(cfg, selections, cost, clock)
           hidden == HiddenOptions(e.states, Containment(cfg))
           v == Verdicts(cfg, selections, cost, clock, e.states, hidden)
           judged == Judged(cfg, selections, cost, e.states, hidden, v)
           errors == Errors(cfg, selections, e.states, hidden, v)
<1>1. StatesFit(e.states)
  BY EvaluationFits
<1>2. r = IF e.refused THEN Refused({<<"rules_unsettled", Line>>}) ELSE judged
  BY DEF Resolve, Settled, RuledBy
<1>3. HiddenValues(cfg.rules, e.states) = {}
  <2>1. \A i \in DOMAIN cfg.rules : cfg.rules[i] \in ToSet(cfg.rules)
    BY DEF ToSet
  <2> QED BY <2>1 DEF HiddenValues
<1>4. /\ Amounted(v, DOMAIN selections \cap DOMAIN cfg.options)
      /\ Unhidden(v, hidden, HiddenValues(cfg.rules, e.states))
  BY <1>1, VerdictsFit
<1> HIDE DEF r, hidden, v
<1>5. DOMAIN v = DOMAIN selections \cap DOMAIN cfg.options /\ \A o \in DOMAIN v : v[o].amount \in Int
  BY <1>4 DEF Amounted
<1>6. judged.errors \in {{}, errors, {<<"unpriceable", Line>>}}
  <2> HIDE DEF judged, errors
  <2> DEFINE states == e.states
  <2>1. judged = Judged(cfg, selections, cost, states, hidden, v) /\ errors = Errors(cfg, selections, states, hidden, v)
    BY DEF judged, errors
  <2> HIDE DEF states
  <2> QED BY <1>5, <2>1, JudgedErrors
<1> HIDE DEF judged
<1>7. ASSUME ~e.refused, NEW err \in errors PROVE err[1] # "hidden_by_rule"
  <2>1. hidden \cap DOMAIN v = {}
    BY <1>5, <1>7 DEF hidden
  <2>2. \A o \in DOMAIN v : v[o].code # "hidden_by_rule"
    BY <1>3, <1>4, <2>1 DEF Unhidden
  <2>3. \/ \E o : err = <<"unknown_option", o>> \/ err = <<"too_much_text", o>> \/ err = <<"required", o>>
        \/ \E o \in DOMAIN v : err = <<v[o].code, o>>
    BY <1>7 DEF Errors
  <2> QED BY <2>2, <2>3
<1> HIDE DEF errors
<1>8. Refused({<<"rules_unsettled", Line>>}).errors = {<<"rules_unsettled", Line>>}
  BY DEF Refused
<1>9. \A err \in r.errors : err[1] # "hidden_by_rule"
  <2>1. CASE e.refused
    <3>1. r = Refused({<<"rules_unsettled", Line>>})
      BY <1>2, <2>1
    <3>2. r.errors = {<<"rules_unsettled", Line>>}
      BY <1>8, <3>1
    <3>3. \A err \in {<<"rules_unsettled", Line>>} : err[1] # "hidden_by_rule"
      OBVIOUS
    <3> QED BY <3>2, <3>3
  <2>2. CASE ~e.refused
    <3>1. r = judged
      BY <1>2, <2>2
    <3>2. judged.errors \in {{}, errors, {<<"unpriceable", Line>>}}
      BY <1>6
    <3>3. \A err \in {<<"unpriceable", Line>>} : err[1] # "hidden_by_rule"
      OBVIOUS
    <3>4. \A err \in errors : err[1] # "hidden_by_rule"
      BY <1>7, <2>2
    <3> QED BY <3>1, <3>2, <3>3, <3>4
  <2> QED BY <2>1, <2>2
<1> QED BY <1>9 DEF r

LEMMA NothingToAdd ==
  ASSUME NEW options, NEW selections, selections = [o \in DOMAIN selections |-> selections[o]],
         \A o \in DOMAIN options : ~IsHidden(options[o])
  PROVE  RuleAnswers(options, selections) = selections
<1> DEFINE hidden == {o \in DOMAIN options : IsHidden(options[o])}
           silent == {o \in hidden : CleanText(options[o].default) = ""}
<1>1. hidden = {} /\ silent = {}
  OBVIOUS
<1>2. RuleAnswers(options, selections) =
        [o \in (DOMAIN selections \cup hidden) \ silent |->
            IF o \in hidden THEN Given({CleanText(options[o].default)}) ELSE selections[o]]
  BY DEF RuleAnswers
<1> HIDE DEF hidden, silent
<1>3. RuleAnswers(options, selections) = [o \in DOMAIN selections |-> selections[o]]
  BY <1>1, <1>2
<1> QED BY <1>3

LEMMA DrawnIsCovered ==
  ASSUME CoreInv, page.doc # NoDoc, Clearable(page.doc), Drawn(page)
  PROVE  HiddenRefusals(page.doc) = {}
<1>1. PICK d \in DOMAIN Docs : d = page.doc
  BY DEF CoreInv, PageOK, IsPage
<1>2. PICK held : DOMAIN held = DOMAIN page.values /\ DrawnFrom(page, held)
  BY DEF Drawn
<1> DEFINE S == Submitted(page)
           e == Evaluate(Docs[d].rules, S, Containment(Docs[d]))
<1>3. IsPage(page) /\ IsDocument(Docs[d]) /\ base \in Int
  BY ShopAssumption, MaxMinorAssumption DEF CoreInv, PageOK, ShopOK
<1>4. Sends(page, held)
  BY <1>2, <1>3, HeldIsSent
<1>5. e.refused \/ HiddenOptions(e.states, Containment(Docs[d])) \cap DOMAIN S = {}
  BY <1>1, <1>2, <1>3, <1>4, UnsettledAlike, GoneIsHidden
<1>6. RuleAnswers(Docs[d].options, S) = S
  <2>1. S = [o \in DOMAIN S |-> S[o]]
    BY <1>4 DEF Sends
  <2>2. \A o \in DOMAIN Docs[d].options : ~IsHidden(Docs[d].options[o])
    BY <1>1 DEF Clearable, Options
  <2> HIDE DEF S
  <2> QED BY <2>1, <2>2, NothingToAdd
<1>7. \A rule \in ToSet(Docs[d].rules) : rule.targetType # "value"
  BY <1>1 DEF Clearable, ToSet
<1> HIDE DEF S
<1>8. e = Evaluate(Docs[d].rules, RuleAnswers(Docs[d].options, S), Containment(Docs[d]))
  BY <1>6
<1> HIDE DEF e
<1>9. \A err \in Resolve(Docs[d], S, base, today).errors : err[1] # "hidden_by_rule"
  BY <1>3, <1>5, <1>7, <1>8, NoneRefusedAsHidden
<1> QED BY <1>1, <1>9 DEF HiddenRefusals, S

PageInv == CoreInv /\ DrawnOK

(* Whatever the documents and their rules: a page that can clear what its   *)
(* rules hide submits nothing that the server refuses as hidden (rules.js   *)
(* and RuleEvaluator.php agree on what such a page left).                   *)
THEOREM PageCovers == StorefrontSpec => []PageCoversServer
<1>1. StorefrontInit => PageInv
  BY CoreInit DEF StorefrontInit, PageInv, DrawnOK, ClosedPage
<1>2. PageInv /\ [StorefrontNext]_storefrontVars => PageInv'
  BY CoreStep, DrawnStep DEF PageInv
<1>3. PageInv => PageCoversServer
  BY DrawnIsCovered DEF PageInv, DrawnOK, PageCoversServer
<1> QED BY <1>1, <1>2, <1>3, PTL DEF StorefrontSpec

(* From the page to the order, under the two hypotheses: the text is plain  *)
(* and no line is past what Pricing computes.                               *)
THEOREM CheckoutHolds == StorefrontSpec /\ []WithinMoney /\ []PlainText => []CheckoutIsSound
<1>1. OrdersAreSound /\ SnapshotIsQuote /\ PageCoversServer => CheckoutIsSound
  BY DEF CheckoutIsSound
<1> QED BY <1>1, OrdersHold, SnapshotHolds, PageCovers, PTL

-----------------------------------------------------------------------------
(* The estimate.  g totals f: over every part of its domain, the elements   *)
(* taken in whatever order.                                                 *)
Totals(g, f) ==
    /\ DOMAIN g = SUBSET DOMAIN f /\ g[{}] = 0
    /\ \A s \in SUBSET DOMAIN f : g[s] \in Int
    /\ \A s \in SUBSET DOMAIN f : \A x \in s : g[s] = f[x] + g[s \ {x}]

LEMMA OneMore ==
  ASSUME NEW D, IsFiniteSet(D), NEW s \in SUBSET D, NEW k \in Nat, Cardinality(s) = k + 1
  PROVE  s # {} /\ IsFiniteSet(s) /\ \A x \in s : Cardinality(s \ {x}) = k
<1>1. IsFiniteSet(s)
  BY FS_Subset
<1>2. Cardinality({}) = 0
  BY FS_EmptySet
<1>3. s # {}
  BY <1>2
<1>4. \A x \in s : Cardinality(s \ {x}) = Cardinality(s) - 1
  BY <1>1, FS_RemoveElement
<1> QED BY <1>1, <1>3, <1>4

LEMMA AddsAreIntegers ==
  ASSUME NEW f, IsFiniteSet(DOMAIN f), \A i \in DOMAIN f : f[i] \in Int, NEW g, Adds(g, 0, f, SUBSET DOMAIN f)
  PROVE  \A s \in SUBSET DOMAIN f : g[s] \in Int
<1> DEFINE D == DOMAIN f
           T == {k \in Nat : \A s \in SUBSET D : Cardinality(s) = k => g[s] \in Int}
<1>1. 0 \in T
  <2> SUFFICES ASSUME NEW s \in SUBSET D, Cardinality(s) = 0 PROVE g[s] \in Int
    OBVIOUS
  <2>1. s = {}
    BY FS_Subset, FS_EmptySet
  <2>2. g[s] = 0
    BY <2>1 DEF Adds
  <2> QED BY <2>2
<1>2. ASSUME NEW k \in Nat, k \in T PROVE k + 1 \in T
  <2> SUFFICES ASSUME NEW s \in SUBSET D, Cardinality(s) = k + 1 PROVE g[s] \in Int
    OBVIOUS
  <2> DEFINE r == s \ {FirstOf(s)}
  <2>1. s # {}
    BY OneMore
  <2>2. FirstOf(s) \in D /\ r \in SUBSET D /\ Cardinality(r) = k
    BY <2>1, FirstOfIs
  <2>3. g[r] \in Int
    BY <1>2, <2>2
  <2>4. g[s] = f[FirstOf(s)] + g[r] /\ f[FirstOf(s)] \in Int
    BY <2>1, <2>2 DEF Adds
  <2> QED BY <2>3, <2>4
<1> HIDE DEF T
<1>3. Nat \subseteq T
  BY <1>1, <1>2, Induction
<1>4. \A s \in SUBSET D : Cardinality(s) \in T
  BY <1>3, FS_Subset, FS_CardinalityType
<1> QED BY <1>4 DEF T

LEMMA AddsInAnyOrder ==
  ASSUME NEW f, IsFiniteSet(DOMAIN f), \A i \in DOMAIN f : f[i] \in Int, NEW g, Adds(g, 0, f, SUBSET DOMAIN f)
  PROVE  Totals(g, f)
<1> DEFINE D == DOMAIN f
           InOrder(s) == \A x \in s : g[s] = f[x] + g[s \ {x}]
           T == {k \in Nat : \A s \in SUBSET D : Cardinality(s) = k => InOrder(s)}
<1>1. \A s \in SUBSET D : g[s] \in Int
  BY AddsAreIntegers
<1>2. 0 \in T
  <2> SUFFICES ASSUME NEW s \in SUBSET D, Cardinality(s) = 0 PROVE InOrder(s)
    OBVIOUS
  <2>1. s = {}
    BY FS_Subset, FS_EmptySet
  <2> QED BY <2>1
<1>3. ASSUME NEW k \in Nat, k \in T PROVE k + 1 \in T
  <2> SUFFICES ASSUME NEW s \in SUBSET D, Cardinality(s) = k + 1, NEW x \in s PROVE g[s] = f[x] + g[s \ {x}]
    OBVIOUS
  <2> DEFINE y == FirstOf(s)
             rest == s \ {y}
             less == s \ {x}
             both == rest \ {x}
  <2>0. s # {} /\ Cardinality(less) = k
    BY OneMore
  <2>1. y \in s /\ Cardinality(rest) = k /\ g[s] = f[y] + g[rest]
    <3>1. y \in s
      BY FirstOfIs
    <3>2. g[s] = f[y] + g[rest]
      BY <2>0 DEF Adds
    <3> QED BY <3>1, <3>2, OneMore
  <2>2. CASE x = y
    BY <2>1, <2>2
  <2>3. CASE x # y
    <3> HIDE DEF y
    <3>1. rest \in SUBSET D /\ x \in rest /\ less \in SUBSET D /\ y \in less /\ both \in SUBSET D /\ less \ {y} = both
      BY <2>1, <2>3
    <3>2. Cardinality(less) = k
      BY <2>0
    <3>3. g[rest] = f[x] + g[both]
      BY <1>3, <2>1, <3>1
    <3>4. g[less] = f[y] + g[both]
      BY <1>3, <3>1, <3>2
    <3>5. f[x] \in Int /\ f[y] \in Int /\ g[both] \in Int
      BY <1>1, <2>1, <3>1
    <3> HIDE DEF rest, less, both
    <3>6. g[s] = f[x] + g[less]
      BY <2>1, <3>3, <3>4, <3>5
    <3> QED BY <3>6 DEF less
  <2> QED BY <2>2, <2>3
<1> HIDE DEF T
<1>4. Nat \subseteq T
  BY <1>2, <1>3, Induction
<1>5. \A s \in SUBSET D : Cardinality(s) \in T
  BY <1>4, FS_Subset, FS_CardinalityType
<1>6. \A s \in SUBSET D : InOrder(s)
  BY <1>5 DEF T
<1>7. DOMAIN g = SUBSET D /\ g[{}] = 0
  BY DEF Adds
<1> QED BY <1>1, <1>6, <1>7 DEF Totals

LEMMA SumTotals ==
  ASSUME NEW f, IsFiniteSet(DOMAIN f), \A i \in DOMAIN f : f[i] \in Int
  PROVE  \E g : Totals(g, f) /\ SumFunction(f) = g[DOMAIN f]
<1>1. PICK g : Adds(g, 0, f, SUBSET DOMAIN f) /\ SumFunction(f) = g[DOMAIN f]
  BY SumIs
<1>2. Totals(g, f)
  BY <1>1, AddsInAnyOrder
<1> QED BY <1>1, <1>2

LEMMA TotalsApart ==
  ASSUME NEW f, IsFiniteSet(DOMAIN f), NEW g, Totals(g, f), NEW a \in SUBSET DOMAIN f,
         NEW b \in SUBSET DOMAIN f, a \cap b = {}, \A i \in DOMAIN f : f[i] \in Int
  PROVE  g[a \cup b] = g[a] + g[b]
<1> DEFINE T == {k \in Nat : \A s \in SUBSET DOMAIN f :
                               Cardinality(s) = k /\ a \cap s = {} => g[a \cup s] = g[a] + g[s]}
<1>1. 0 \in T
  <2> SUFFICES ASSUME NEW s \in SUBSET DOMAIN f, Cardinality(s) = 0 PROVE g[a \cup s] = g[a] + g[s]
    OBVIOUS
  <2>1. s = {}
    BY FS_Subset, FS_EmptySet
  <2>2. a \cup s = a /\ g[s] = 0
    BY <2>1 DEF Totals
  <2>3. g[a] \in Int
    BY DEF Totals
  <2> QED BY <2>2, <2>3
<1>2. ASSUME NEW k \in Nat, k \in T PROVE k + 1 \in T
  <2> SUFFICES ASSUME NEW s \in SUBSET DOMAIN f, Cardinality(s) = k + 1, a \cap s = {}
               PROVE  g[a \cup s] = g[a] + g[s]
    OBVIOUS
  <2>1. s # {}
    BY OneMore
  <2>2. PICK x \in s : TRUE
    BY <2>1
  <2> DEFINE r == s \ {x}
  <2>3. r \in SUBSET DOMAIN f
    OBVIOUS
  <2>4. Cardinality(r) = k
    BY OneMore
  <2>5. a \cap r = {} /\ (a \cup s) \ {x} = a \cup r /\ a \cup s \in SUBSET DOMAIN f /\ x \in a \cup s
    OBVIOUS
  <2>6. g[a \cup r] = g[a] + g[r]
    BY <1>2, <2>3, <2>4, <2>5
  <2>7. g[a \cup s] = f[x] + g[a \cup r] /\ g[s] = f[x] + g[r]
    <3>1. g[a \cup s] = f[x] + g[(a \cup s) \ {x}]
      BY <2>5 DEF Totals
    <3>2. g[s] = f[x] + g[s \ {x}]
      BY DEF Totals
    <3> QED BY <2>5, <3>1, <3>2
  <2>8. f[x] \in Int /\ g[a] \in Int /\ g[r] \in Int
    BY <2>3 DEF Totals
  <2> HIDE DEF r
  <2> QED BY <2>6, <2>7, <2>8
<1> HIDE DEF T
<1>3. Nat \subseteq T
  BY <1>1, <1>2, Induction
<1>4. Cardinality(b) \in T
  BY <1>3, FS_Subset, FS_CardinalityType
<1> QED BY <1>4 DEF T

(* Each of S has a part of its own of D.                                    *)
Parted(part, S, D) ==
    /\ DOMAIN part = S
    /\ \A o \in S : part[o] \subseteq D
    /\ \A o, q \in S : o # q => part[o] \cap part[q] = {}

AllParts(part, s) == UNION {part[o] : o \in s}

LEMMA TotalsByPart ==
  ASSUME NEW f, IsFiniteSet(DOMAIN f), \A i \in DOMAIN f : f[i] \in Int, NEW g, Totals(g, f),
         NEW by, IsFiniteSet(DOMAIN by), NEW h, Totals(h, by), NEW part, Parted(part, DOMAIN by, DOMAIN f),
         \A o \in DOMAIN by : by[o] = g[part[o]]
  PROVE  h[DOMAIN by] = g[AllParts(part, DOMAIN by)]
<1> DEFINE S == DOMAIN by
           T == {k \in Nat : \A s \in SUBSET S : Cardinality(s) = k => h[s] = g[AllParts(part, s)]}
<1>1. 0 \in T
  <2> SUFFICES ASSUME NEW s \in SUBSET S, Cardinality(s) = 0 PROVE h[s] = g[AllParts(part, s)]
    OBVIOUS
  <2>1. s = {}
    BY FS_Subset, FS_EmptySet
  <2>2. AllParts(part, s) = {}
    BY <2>1 DEF AllParts
  <2> QED BY <2>1, <2>2 DEF Totals
<1>2. ASSUME NEW k \in Nat, k \in T PROVE k + 1 \in T
  <2> SUFFICES ASSUME NEW s \in SUBSET S, Cardinality(s) = k + 1 PROVE h[s] = g[AllParts(part, s)]
    OBVIOUS
  <2>1. s # {}
    BY OneMore
  <2>2. PICK x \in s : TRUE
    BY <2>1
  <2> DEFINE r == s \ {x}
  <2>3. r \in SUBSET S
    OBVIOUS
  <2>4. Cardinality(r) = k
    BY OneMore
  <2>5. h[r] = g[AllParts(part, r)]
    BY <1>2, <2>3, <2>4
  <2>6. h[s] = by[x] + h[r] /\ by[x] = g[part[x]]
    BY DEF Totals
  <2>7. AllParts(part, s) = part[x] \cup AllParts(part, r) /\ part[x] \cap AllParts(part, r) = {}
        /\ part[x] \in SUBSET DOMAIN f /\ AllParts(part, r) \in SUBSET DOMAIN f
    BY <2>3 DEF AllParts, Parted
  <2> HIDE DEF r
  <2>8. g[AllParts(part, s)] = g[part[x]] + g[AllParts(part, r)]
    BY <2>7, TotalsApart
  <2> QED BY <2>5, <2>6, <2>8
<1> HIDE DEF T
<1>3. Nat \subseteq T
  BY <1>1, <1>2, Induction
<1>4. Cardinality(S) \in T
  BY <1>3, FS_Subset, FS_CardinalityType
<1> QED BY <1>4 DEF T

(* What frontend.js reads as the price of a value.                          *)
Amount(v) == IF v.price.type = "fixed" THEN v.price.amount ELSE 0

SumOf(V) == MapThenSumSet(LAMBDA v : IF v.price.type = "fixed" THEN v.price.amount ELSE 0, V)

LEMMA SumOfTotals ==
  ASSUME NEW V, IsFiniteSet(V), \A v \in V : Amount(v) \in Int
  PROVE  \E g : Totals(g, [v \in V |-> Amount(v)]) /\ SumOf(V) = g[V]
<1> DEFINE f == [v \in V |-> Amount(v)]
           step(g, s) == IF s = {} THEN 0 ELSE Amount(FirstOf(s)) + g[s \ {FirstOf(s)}]
           sum == CHOOSE g : g = [s \in SUBSET V |-> step(g, s)]
<1>1. SumOf(V) = sum[V]
  BY DEF SumOf, MapThenSumSet, MapThenFoldSet, FirstOf, Amount
<1>2. DOMAIN f = V /\ \A v \in V : f[v] = Amount(v) /\ f[v] \in Int
  OBVIOUS
<1>3. PICK h : Adds(h, 0, f, SUBSET V)
  BY <1>2, SumIs
<1> HIDE DEF f
<1>4. \E g : g = [s \in SUBSET V |-> step(g, s)]
  <2> DEFINE g == [s \in SUBSET V |-> h[s]]
  <2>1. ASSUME NEW s \in SUBSET V PROVE g[s] = step(g, s)
    <3>1. s # {} => FirstOf(s) \in V /\ s \ {FirstOf(s)} \in SUBSET V
      BY DEF FirstOf
    <3> QED BY <1>2, <1>3, <3>1 DEF Adds
  <2>2. g = [s \in SUBSET V |-> step(g, s)]
    BY <2>1
  <2> HIDE DEF g
  <2> QED BY <2>2
<1>5. sum = [s \in SUBSET V |-> step(sum, s)]
  BY <1>4, Zenon
<1> HIDE DEF sum
<1>6. Adds(sum, 0, f, SUBSET V)
  <2>1. DOMAIN sum = SUBSET V /\ \A s \in SUBSET V : sum[s] = step(sum, s)
    BY <1>5
  <2>2. \A s \in SUBSET V : s # {} => f[FirstOf(s)] = Amount(FirstOf(s))
    BY <1>2 DEF FirstOf
  <2> QED BY <2>1, <2>2 DEF Adds
<1>7. Totals(sum, f)
  BY <1>2, <1>6, AddsInAnyOrder
<1> QED BY <1>1, <1>7 DEF f

-----------------------------------------------------------------------------
(* What the choices of a page hold: keys of their values, at most one where *)
(* one answer is taken, and none where the page hides the control.          *)
Ticks(option, keys) ==
    option.kind = "choice" => keys \subseteq Keys(option) /\ (~option.many => AtMostOne(keys))

Ticked(p) == \A o \in DOMAIN p.values : Ticks(Options(p.doc)[o], p.values[o])

Hushed(p) ==
    \A o \in DOMAIN p.values :
        Options(p.doc)[o].kind = "choice" /\ o \in HiddenOnPage(p) => p.values[o] = {}

Stands(p) ==
    p.doc # NoDoc => Ticked(p) /\ Hushed(p) /\ (~p.typing => p.estimate = SelectedTotal(p) \ {0})

StandsOK == Stands(page)

LEMMA ProperOnes ==
  ASSUME OneAnswerEach, NEW p, IsPage(p), p.doc # NoDoc, NEW o \in DOMAIN p.values
  PROVE  IsOption(Options(p.doc)[o]) /\ Proper(Options(p.doc)[o])
<1>1. p.doc \in DOMAIN Docs /\ o \in DOMAIN Options(p.doc)
  BY DEF IsPage
<1>2. IsDocument(Docs[p.doc])
  BY <1>1, ShopAssumption
<1> QED BY <1>1, <1>2 DEF OneAnswerEach, IsDocument, Options

LEMMA RenderedTicks ==
  ASSUME NEW option, IsOption(option), Proper(option)
  PROVE  Ticks(option, Rendered(option))
<1> SUFFICES ASSUME option.kind = "choice"
             PROVE  Rendered(option) \subseteq Keys(option) /\ (~option.many => AtMostOne(Rendered(option)))
  BY DEF Ticks
<1>1. CASE option.type = "checkbox"
  <2>1. Rendered(option) \subseteq Keys(option)
    BY <1>1 DEF Rendered, DefaultKeys, Keys
  <2>2. ~option.many => AtMostOne(Keys(option))
    BY <1>1, FewKeys DEF Proper
  <2> QED BY <2>1, <2>2 DEF AtMostOne
<1>2. CASE option.type # "checkbox"
  BY <1>2, LastIsOne DEF Rendered
<1> QED BY <1>1, <1>2

LEMMA ToggleTicks ==
  ASSUME NEW option, IsOption(option), Proper(option), option.kind = "choice", NEW keys, Ticks(option, keys),
         NEW key \in Keys(option)
  PROVE  Ticks(option, IF option.type # "checkbox" THEN {key}
                       ELSE IF key \in keys THEN keys \ {key} ELSE keys \cup {key})
<1>1. CASE option.type # "checkbox"
  BY <1>1 DEF Ticks, AtMostOne
<1>2. CASE option.type = "checkbox"
  <2>1. ~option.many => AtMostOne(Keys(option))
    BY <1>2, FewKeys DEF Proper
  <2>2. keys \subseteq Keys(option)
    BY DEF Ticks
  <2> QED BY <1>2, <2>1, <2>2 DEF Ticks, AtMostOne
<1> QED BY <1>1, <1>2

LEMMA ApplyRulesTicks ==
  ASSUME OneAnswerEach, NEW p, IsPage(p), p.doc # NoDoc, Ticked(p)
  PROVE  Ticked(ApplyRules(p)) /\ Hushed(ApplyRules(p))
<1> DEFINE gone == GoneBy(PageEvaluate(p.doc, AnswersIn(p.doc, p.values)))
           covered == Covered(gone, Containment(Docs[p.doc]))
           values == [o \in DOMAIN p.values |-> Cleared(Options(p.doc)[o], p.values[o], gone, o \in covered)]
           q == ApplyRules(p)
<1>1. q = [p EXCEPT !.gone = gone, !.values = values]
  BY DEF ApplyRules, Hiding, ClearedPage
<1>2. DOMAIN values = DOMAIN p.values
      /\ \A o \in DOMAIN p.values : values[o] = Cleared(Options(p.doc)[o], p.values[o], gone, o \in covered)
  OBVIOUS
<1> HIDE DEF values, q, gone
<1>3. q.gone = gone /\ q.values = values /\ q.doc = p.doc
  BY <1>1 DEF IsPage, PageFields
<1>4. HiddenOnPage(q) = covered
  BY <1>3 DEF HiddenOnPage
<1> HIDE DEF covered
<1>5. ASSUME NEW o \in DOMAIN p.values, Options(p.doc)[o].kind = "choice"
      PROVE  values[o] \subseteq p.values[o] /\ (o \in covered => values[o] = {})
  <2> DEFINE option == Options(p.doc)[o]
  <2>1. ~IsHidden(option)
    BY <1>5, ProperOnes DEF Proper
  <2>2. ClearedWithin(option)
    BY <1>5, <2>1 DEF ClearedWithin
  <2>3. Deselected(option, p.values[o], gone) \subseteq p.values[o]
    BY DEF Deselected
  <2>4. values[o] = IF o \in covered THEN {} ELSE Deselected(option, p.values[o], gone)
    BY <1>2, <1>5, <2>2 DEF Cleared
  <2> QED BY <2>3, <2>4
<1>6. ASSUME NEW o \in DOMAIN p.values PROVE Ticks(Options(p.doc)[o], values[o])
  <2>1. Ticks(Options(p.doc)[o], p.values[o])
    BY DEF Ticked
  <2> QED BY <1>5, <2>1 DEF Ticks, AtMostOne
<1>7. Ticked(q)
  BY <1>2, <1>3, <1>6 DEF Ticked
<1>8. Hushed(q)
  BY <1>2, <1>3, <1>4, <1>5 DEF Hushed
<1> QED BY <1>7, <1>8 DEF q

(* The figure that belongs to what a page holds.                            *)
ChosenValues(d, values) ==
    UNION {{ValueFor(Options(d)[o], k) : k \in values[o]} : o \in {o \in DOMAIN values : Options(d)[o].kind = "choice"}}

Priceless(d, V) == SetsAPrice(d) \/ \E v \in V : v.price.type \notin {"none", "fixed"}

Figure(d, values) ==
    IF Priceless(d, ChosenValues(d, values)) THEN {} ELSE {SumOf(ChosenValues(d, values))}

LEMMA FigureIs ==
  ASSUME NEW p
  PROVE  SelectedTotal(p) = Figure(p.doc, p.values)
BY DEF SelectedTotal, Figure, Priceless, ChosenValues, SumOf

LEMMA ChangedStands ==
  ASSUME OneAnswerEach, NEW p, IsPage(p), p.doc # NoDoc, Ticked(p)
  PROVE  Stands(Changed(p)) /\ Changed(p).doc = p.doc
<1> DEFINE a == ApplyRules(p)
           r == Refresh(a)
           c == Changed(p)
           e == SelectedTotal(a) \ {0}
<1>1. IsPage(a) /\ a.doc = p.doc /\ Ticked(a) /\ Hushed(a)
  BY ApplyRulesKeeps, ApplyRulesTicks DEF Keeps
<1>2. c = [r EXCEPT !.typing = FALSE] /\ r = [a EXCEPT !.estimate = e]
  BY DEF Changed, Refresh
<1>3. e = Figure(a.doc, a.values) \ {0}
  BY FigureIs
<1> HIDE DEF a, c, e
<1>4. /\ r.doc = a.doc /\ r.gone = a.gone /\ r.values = a.values /\ r.estimate = e
      /\ DOMAIN r = PageFields
  BY <1>1, <1>2 DEF IsPage, PageFields
<1> HIDE DEF r
<1>5. c.doc = a.doc /\ c.values = a.values /\ c.gone = a.gone /\ c.estimate = e
  BY <1>2, <1>4 DEF PageFields
<1>6. HiddenOnPage(c) = HiddenOnPage(a)
  BY <1>5 DEF HiddenOnPage
<1>7. Ticked(c) /\ Hushed(c)
  BY <1>1, <1>5, <1>6 DEF Ticked, Hushed
<1>8. c.estimate = SelectedTotal(c) \ {0}
  BY <1>3, <1>5, FigureIs
<1>9. Stands(c)
  BY <1>7, <1>8 DEF Stands
<1> QED BY <1>1, <1>5, <1>9 DEF c

LEMMA HoldTicks ==
  ASSUME NEW p, IsPage(p), Ticked(p), NEW o \in DOMAIN p.values, NEW held, Ticks(Options(p.doc)[o], held)
  PROVE  Ticked([p EXCEPT !.values[o] = held]) /\ [p EXCEPT !.values[o] = held].doc = p.doc
<1> DEFINE q == [p EXCEPT !.values[o] = held]
<1>1. q.doc = p.doc /\ DOMAIN q.values = DOMAIN p.values
      /\ \A i \in DOMAIN p.values : q.values[i] = IF i = o THEN held ELSE p.values[i]
  BY DEF IsPage, PageFields
<1> HIDE DEF q
<1>2. Ticked(q)
  BY <1>1 DEF Ticked
<1> QED BY <1>1, <1>2 DEF q

LEMMA ChooseStands ==
  ASSUME OneAnswerEach, IsPage(page), Stands(page), NEW o \in DOMAIN page.values, NEW key, Choose(o, key)
  PROVE  Stands(page')
<1> DEFINE option == Options(page.doc)[o]
           held == page.values[o]
           then == IF option.type # "checkbox" THEN {key} ELSE IF key \in held THEN held \ {key} ELSE held \cup {key}
           p == [page EXCEPT !.values[o] = then]
<1>1. option.kind = "choice" /\ key \in Keys(option) /\ page.doc # NoDoc
  BY DEF Choose, OnPage
<1>2. IsOption(option) /\ Proper(option)
  BY <1>1, ProperOnes
<1>3. Ticks(option, held)
  BY <1>1 DEF Stands, Ticked
<1>4. page' = Changed(p)
  BY DEF Choose, IsPage, PageFields
<1> HIDE DEF option, held
<1>5. Ticks(option, then)
  BY <1>1, <1>2, <1>3, ToggleTicks
<1> HIDE DEF then
<1>6. IsPage(p) /\ Ticked(p) /\ p.doc # NoDoc
  BY <1>1, <1>5, HeldKeeps, HoldTicks DEF option, Stands
<1> HIDE DEF p
<1>7. Stands(Changed(p))
  BY <1>6, ChangedStands
<1> QED BY <1>4, <1>7

LEMMA TypeStands ==
  ASSUME OneAnswerEach, IsPage(page), Stands(page), NEW o \in DOMAIN page.values, NEW text, Type(o, text)
  PROVE  Stands(page')
<1> DEFINE p == [page EXCEPT !.values[o] = {text}]
           a == ApplyRules(p)
<1>1. page' = [a EXCEPT !.typing = TRUE] /\ page.doc # NoDoc
  BY DEF Type, OnPage
<1>2. Ticks(Options(page.doc)[o], {text})
  BY DEF Type, Ticks
<1>3. IsPage(p) /\ Ticked(p) /\ p.doc # NoDoc
  BY <1>1, <1>2, HeldKeeps, HoldTicks DEF Stands
<1> HIDE DEF p
<1>4. IsPage(a) /\ Ticked(a) /\ Hushed(a)
  BY <1>3, ApplyRulesKeeps, ApplyRulesTicks DEF Keeps
<1> HIDE DEF a
<1> DEFINE q == [a EXCEPT !.typing = TRUE]
<1>5. q.doc = a.doc /\ q.values = a.values /\ q.gone = a.gone /\ q.typing = TRUE
  BY <1>4 DEF IsPage, PageFields
<1> HIDE DEF q
<1>6. HiddenOnPage(q) = HiddenOnPage(a)
  BY <1>5 DEF HiddenOnPage
<1>7. Stands(q)
  BY <1>4, <1>5, <1>6 DEF Stands, Ticked, Hushed
<1> QED BY <1>1, <1>7 DEF q

LEMMA OpenStands ==
  ASSUME OneAnswerEach, CoreInv, OpenPage
  PROVE  Stands(page')
<1>1. PICK d \in DOMAIN Docs : d = doc
  BY DEF CoreInv, ShopOK
<1> DEFINE values == [o \in DOMAIN Options(d) |-> Rendered(Options(d)[o])]
           p == [ClosedPage EXCEPT !.doc = d, !.values = values]
<1>2. page' = Changed(p)
  BY <1>1 DEF OpenPage
<1>3. DOMAIN values = DOMAIN Options(d) /\ \A o \in DOMAIN values : values[o] = Rendered(Options(d)[o])
  OBVIOUS
<1> HIDE DEF values
<1>4. DOMAIN p = PageFields /\ p = [i \in PageFields |-> p[i]] /\ p.doc = d /\ p.values = values
  BY DEF ClosedPage, PageFields
<1> HIDE DEF p
<1>5. IsPage(p) /\ p.doc # NoDoc
  BY <1>1, <1>3, <1>4, ShopAssumption DEF IsPage
<1>6. ASSUME NEW o \in DOMAIN values PROVE Ticks(Options(d)[o], values[o])
  <2>1. IsOption(Options(d)[o]) /\ Proper(Options(d)[o])
    BY <1>4, <1>5, ProperOnes
  <2>2. Ticks(Options(d)[o], Rendered(Options(d)[o]))
    BY <2>1, RenderedTicks
  <2> QED BY <1>3, <2>2
<1>7. Ticked(p)
  BY <1>4, <1>6 DEF Ticked
<1>8. Stands(Changed(p))
  BY <1>5, <1>7, ChangedStands
<1> QED BY <1>2, <1>8

LEMMA StandsStep == OneAnswerEach /\ CoreInv /\ StandsOK /\ [StorefrontNext]_storefrontVars => StandsOK'
<1> SUFFICES ASSUME OneAnswerEach, CoreInv, Stands(page), [StorefrontNext]_storefrontVars PROVE Stands(page')
  BY DEF StandsOK
<1>0. IsPage(page)
  BY DEF CoreInv, PageOK
<1>1. CASE page' = page
  BY <1>1
<1>2. CASE OpenPage
  BY <1>2, OpenStands
<1>3. CASE LeaveField
  <2>1. page' = Changed(page)
    BY <1>3 DEF LeaveField
  <2>2. CASE page.doc # NoDoc
    BY <1>0, <2>1, <2>2, ChangedStands DEF Stands
  <2>3. CASE page.doc = NoDoc
    BY <1>0, <2>1, <2>3, ChangedKeeps DEF Keeps, Stands
  <2> QED BY <2>2, <2>3
<1>4. CASE AddToCart
  BY <1>4 DEF AddToCart, ClosedPage, Stands
<1>5. CASE \E o \in DOMAIN page.values : \E key \in IF OnPage(o) THEN Keys(Options(page.doc)[o]) ELSE {} : Choose(o, key)
  BY <1>0, <1>5, ChooseStands
<1>6. CASE \E o \in DOMAIN page.values : \E text \in UNION {Typed[k] : k \in DOMAIN Typed} : Type(o, text)
  BY <1>0, <1>6, TypeStands
<1>7. \/ page' = page \/ OpenPage \/ LeaveField \/ AddToCart
      \/ \E o \in DOMAIN page.values : \E key \in IF OnPage(o) THEN Keys(Options(page.doc)[o]) ELSE {} : Choose(o, key)
      \/ \E o \in DOMAIN page.values : \E text \in UNION {Typed[k] : k \in DOMAIN Typed} : Type(o, text)
  BY DEF StorefrontNext, storefrontVars, Publish, BaseChanges, DayPasses, SecretRotates, FileExpires, Around,
         Checkout, RemoveLine, OrderAgain
<1> QED BY <1>1, <1>2, <1>3, <1>4, <1>5, <1>6, <1>7

-----------------------------------------------------------------------------
(* What the engine charges for choices of configured prices where no rule   *)
(* sets one.                                                                *)
SetsNone(cfg) == \A rule \in ToSet(cfg.rules) : rule.action # "set_price"

PlainStates(states) ==
    \A target \in DOMAIN states : states[target].price = {} /\ states[target].conflict = FALSE

LEMMA EvaluatesPlain ==
  ASSUME NEW cfg, IsDocument(cfg), SetsNone(cfg), NEW answers, NEW under
  PROVE  PlainStates(Evaluate(cfg.rules, answers, under).states)
<1> DEFINE e == Evaluate(cfg.rules, answers, under)
           S == ToSet(cfg.rules)
<1>1. cfg.rules \in Seq(S)
  BY DEF IsDocument
<1>2. e.refused \in BOOLEAN /\ (e.refused => e.states = <<>>) /\ (~e.refused => EndsOn(e.states, cfg.rules, answers, under))
  BY <1>1, EvaluateEnds
<1> HIDE DEF e
<1>3. CASE e.refused
  <2>1. DOMAIN e.states = {}
    BY <1>2, <1>3
  <2> QED BY <2>1 DEF PlainStates, e
<1>4. CASE ~e.refused
  <2>1. PICK left, already : e.states = RuleStates(cfg.rules, left, already)
    BY <1>2, <1>4 DEF EndsOn
  <2> DEFINE states == RuleStates(cfg.rules, left, already)
  <2>2. \A target \in DOMAIN states : StateBy(states[target], Of(Firing(cfg.rules, left), target), target \in already)
    BY <1>1, StatesAre
  <2> HIDE DEF states
  <2>3. ASSUME NEW target \in DOMAIN states PROVE states[target].price = {} /\ states[target].conflict = FALSE
    <3> DEFINE R == Of(Firing(cfg.rules, left), target)
    <3>1. PICK su : SaysOf(su, R) /\ \A i \in Fields \ {"hidden"} : states[target][i] = su[i]
      BY <2>2 DEF StateBy
    <3>2. R \subseteq S
      BY DEF Of, Firing
    <3> HIDE DEF R
    <3>3. Priced(R) = {} /\ ~Differ(Priced(R))
      BY <3>2 DEF Priced, SetsNone, Differ
    <3>4. states[target].price = su.price /\ states[target].conflict = su.conflict
      BY <3>1 DEF Fields
    <3> QED BY <3>1, <3>3, <3>4 DEF SaysOf
  <2> QED BY <2>1, <2>3 DEF PlainStates, states, e
<1> QED BY <1>2, <1>3, <1>4

LEMMA PlainPrice ==
  ASSUME NEW option, NEW states, PlainStates(states), NEW o, NEW v, NEW configured
  PROVE  UnderRule(SetPriceFor(option, states, o, v), configured).amount = configured.amount
<1> DEFINE ofOption == StateOf(states, o)
           ofValue == IF v = "" THEN Unruled ELSE StateOf(states, v)
           ruled == SetPriceFor(option, states, o, v)
<1>1. Unruled.price = {} /\ Unruled.conflict = FALSE
  BY DEF Unruled
<1>2. ofOption.price = {} /\ ofValue.price = {} /\ ofOption.conflict = FALSE /\ ofValue.conflict = FALSE
  BY <1>1 DEF PlainStates, StateOf
<1>3. ruled = IF ofOption.conflict \/ ofValue.conflict
              THEN [ruled |-> "conflict", amount |-> {}, unpriced |-> {"rule_price_conflict"}]
              ELSE IF (IF ofValue.price # {} THEN ofValue.price ELSE ofOption.price) = {}
              THEN [ruled |-> "no", amount |-> {}, unpriced |-> {}]
              ELSE IF option.pricing.type \in OptionPricedTypes
              THEN [ruled |-> "no", amount |-> {}, unpriced |-> {option.pricing.type}]
              ELSE [ruled |-> "yes", amount |-> IF ofValue.price # {} THEN ofValue.price ELSE ofOption.price,
                    unpriced |-> {}]
  BY DEF SetPriceFor
<1> HIDE DEF ruled, ofOption, ofValue
<1>4. ruled.ruled = "no"
  BY <1>2, <1>3
<1>5. UnderRule(ruled, configured).amount =
        CASE ruled.ruled = "conflict" -> 0
          [] ruled.ruled = "yes" -> CHOOSE a \in ruled.amount : TRUE
          [] OTHER -> configured.amount
  BY DEF UnderRule
<1>6. UnderRule(ruled, configured).amount = configured.amount
  BY <1>4, <1>5
<1> QED BY <1>6 DEF ruled

(* The sum of what its checked values are configured to cost.               *)
ListPrice(option, keys) == SumFunction([key \in keys |-> Amount(ValueFor(option, key))])

FlatPriced(option, keys) == \A key \in keys : ValueFor(option, key).price.type \in {"none", "fixed"}

LEMMA ChoiceNeverEmpty ==
  ASSUME NEW option, NEW keys, NEW hiddenValues
  PROVE  FirstFailed(ChoiceChecks(option, keys, hiddenValues)) # "empty"
<1> DEFINE unknown == ~(keys \subseteq Keys(option))
           few == Has(option.validation, "min_selections") /\ Cardinality(keys) < option.validation.min_selections
           many == Has(option.validation, "max_selections") /\ Cardinality(keys) > option.validation.max_selections
           hides == \E key \in keys \cap Keys(option) : ValueFor(option, key).id \in hiddenValues
           checks == << <<unknown, "unknown_value">>, <<few, "too_few_selections">>,
                        <<many, "too_many_selections">>, <<hides, "hidden_by_rule">> >>
<1>1. ChoiceChecks(option, keys, hiddenValues) = checks
  BY DEF ChoiceChecks
<1> HIDE DEF unknown, few, many, hides
<1>2. DOMAIN checks = 1 .. 4
      /\ checks[1][2] = "unknown_value" /\ checks[2][2] = "too_few_selections"
      /\ checks[3][2] = "too_many_selections" /\ checks[4][2] = "hidden_by_rule"
  OBVIOUS
<1> HIDE DEF checks
<1>3. \A i \in 1 .. 4 : checks[i][2] # "empty"
  BY <1>2
<1>4. \/ FirstFailed(checks) = "taken" /\ \A i \in 1 .. 4 : ~checks[i][1]
      \/ \E i \in 1 .. 4 : checks[i][1] /\ FirstFailed(checks) = checks[i][2]
  BY <1>2, FirstFailedIs, Zenon
<1> QED BY <1>1, <1>3, <1>4

LEMMA ChoiceCharges ==
  ASSUME NEW option, NEW states, PlainStates(states), NEW o, NEW keys, FlatPriced(option, keys),
         NEW hiddenValues, NEW cost
  PROVE  LET verdict == ChoiceVerdict(option, o, states, keys, hiddenValues, cost) IN
         /\ verdict.code # "empty"
         /\ verdict.code = "taken" => keys \subseteq Keys(option) /\ verdict.amount = ListPrice(option, keys)
<1> DEFINE verdict == ChoiceVerdict(option, o, states, keys, hiddenValues, cost)
           code == FirstFailed(ChoiceChecks(option, keys, hiddenValues))
           chosen == [many |-> TakesMany(option), members |-> keys]
           price == ChoicePrice(option, o, states, keys, cost)
           priced(key) == UnderRule(SetPriceFor(option, states, o, ValueFor(option, key).id),
                                    DeltaFor(ValueFor(option, key), cost))
<1>1. verdict = IF code # "taken" THEN Verdict(code) ELSE Taken(chosen, price)
  BY DEF ChoiceVerdict
<1>2. code # "empty" /\ (code = "taken" => keys \subseteq Keys(option))
  BY ChoiceTaken, ChoiceNeverEmpty
<1>3. ASSUME NEW key \in keys PROVE priced(key).amount = Amount(ValueFor(option, key))
  <2> DEFINE v == ValueFor(option, key)
  <2>1. priced(key).amount = DeltaFor(v, cost).amount
    BY PlainPrice
  <2>2. v.price.type \in {"none", "fixed"}
    BY DEF FlatPriced
  <2> HIDE DEF v
  <2>3. DeltaFor(v, cost).amount = Amount(v)
    BY <2>2 DEF DeltaFor, Price, Amount
  <2> QED BY <2>1, <2>3 DEF v
<1>4. [key \in keys |-> priced(key).amount] = [key \in keys |-> Amount(ValueFor(option, key))]
  <2> HIDE DEF priced
  <2> QED BY <1>3
<1>5. price.amount = SumFunction([key \in keys |-> priced(key).amount])
  BY DEF ChoicePrice
<1>6. price.amount = ListPrice(option, keys)
  <2> HIDE DEF priced, price
  <2> QED BY <1>4, <1>5 DEF ListPrice
<1> HIDE DEF code, chosen, price, verdict
<1>7. Taken(chosen, price).amount = price.amount /\ Verdict(code).code = code
  BY VerdictIs DEF Taken
<1>8. verdict.code # "empty"
      /\ (verdict.code = "taken" => keys \subseteq Keys(option) /\ verdict.amount = ListPrice(option, keys))
  <2>1. CASE code = "taken"
    <3>1. verdict = Taken(chosen, price)
      BY <1>1, <2>1
    <3>2. verdict.code = "taken"
      BY <3>1 DEF Taken
    <3> QED BY <1>2, <1>6, <1>7, <2>1, <3>1, <3>2
  <2>2. CASE code # "taken"
    BY <1>1, <1>2, <1>7, <2>2
  <2> QED BY <2>1, <2>2
<1> QED BY <1>8 DEF verdict

LEMMA AnsweredCharges ==
  ASSUME NEW cfg, NEW o, cfg.options[o].kind = "choice", ~IsHidden(cfg.options[o]), NEW answer, answer.members # {},
         FlatPriced(cfg.options[o], answer.members), NEW states, PlainStates(states),
         NEW hidden, NEW hiddenValues, NEW cost, NEW clock,
         Answered(cfg, o, answer, states, hidden, hiddenValues, cost, clock).code \in {"taken", "empty"}
  PROVE  LET verdict == Answered(cfg, o, answer, states, hidden, hiddenValues, cost, clock) IN
         /\ verdict.code = "taken" /\ answer.members \subseteq Keys(cfg.options[o])
         /\ verdict.amount = ListPrice(cfg.options[o], answer.members)
<1> DEFINE option == cfg.options[o]
           verdict == Answered(cfg, o, answer, states, hidden, hiddenValues, cost, clock)
           choice == ChoiceVerdict(option, o, states, answer.members, hiddenValues, cost)
<1>1. verdict \in {Verdict("hidden_by_rule"), Verdict("not_scalar"), choice}
  BY DEF Answered
<1>2. Verdict("hidden_by_rule").code = "hidden_by_rule" /\ Verdict("not_scalar").code = "not_scalar"
  BY VerdictIs
<1>3. choice.code # "empty" /\ (choice.code = "taken" => /\ answer.members \subseteq Keys(option)
                                                         /\ choice.amount = ListPrice(option, answer.members))
  <2> DEFINE keys == answer.members
  <2>1. FlatPriced(option, keys)
    OBVIOUS
  <2> HIDE DEF option, keys
  <2>2. LET w == ChoiceVerdict(option, o, states, keys, hiddenValues, cost) IN
        w.code # "empty" /\ (w.code = "taken" => keys \subseteq Keys(option) /\ w.amount = ListPrice(option, keys))
    BY <2>1, ChoiceCharges
  <2> QED BY <2>2 DEF keys
<1> HIDE DEF verdict, choice
<1>4. verdict.code \in {"taken", "empty"}
  BY DEF verdict
<1>5. verdict = choice /\ verdict.code = "taken"
  BY <1>1, <1>2, <1>3, <1>4
<1>6. verdict.code = "taken" /\ answer.members \subseteq Keys(option) /\ verdict.amount = ListPrice(option, answer.members)
  BY <1>3, <1>5
<1> QED BY <1>6 DEF verdict

(* A line that is accepted is charged the list price of its choices.        *)
ChargesList(r, cfg, selections) ==
    \A o \in DOMAIN selections :
        cfg.options[o].kind = "choice" /\ ~IsHidden(cfg.options[o]) /\ selections[o].members # {}
        /\ FlatPriced(cfg.options[o], selections[o].members)
        => /\ o \in DOMAIN r.deltas /\ selections[o].members \subseteq Keys(cfg.options[o])
           /\ r.deltas[o] = ListPrice(cfg.options[o], selections[o].members)

LEMMA ResolveCharges ==
  ASSUME NEW cfg, IsDocument(cfg), SetsNone(cfg), NEW selections, NEW cost \in Int, NEW clock,
         Resolve(cfg, selections, cost, clock).ok
  PROVE  ChargesList(Resolve(cfg, selections, cost, clock), cfg, selections)
<1> DEFINE e == Evaluate(cfg.rules, RuleAnswers(cfg.options, selections), Containment(cfg))
           r == Resolve(cfg, selections, cost, clock)
           hidden == HiddenOptions(e.states, Containment(cfg))
           values == HiddenValues(cfg.rules, e.states)
           v == Verdicts(cfg, selections, cost, clock, e.states, hidden)
           judged == Judged(cfg, selections, cost, e.states, hidden, v)
           errors == Errors(cfg, selections, e.states, hidden, v)
           deltas == [o \in TakenOf(v) |-> v[o].amount]
           charged == Charged(cost, deltas, v)
<1>1. StatesFit(e.states) /\ PlainStates(e.states)
  BY EvaluationFits, EvaluatesPlain
<1>2. r = IF e.refused THEN Refused({<<"rules_unsettled", Line>>}) ELSE judged
  BY DEF Resolve, Settled, RuledBy
<1>3. judged = IF errors # {} THEN Refused(errors)
               ELSE IF charged.total = Unpriceable THEN Refused({<<"unpriceable", Line>>}) ELSE charged
  BY DEF Judged, Unless
<1>4. /\ DOMAIN v = DOMAIN selections \cap DOMAIN cfg.options
      /\ \A o \in DOMAIN v : v[o] = Answered(cfg, o, selections[o], e.states, hidden, values, cost, clock)
  BY DEF Verdicts
<1>5. charged.deltas = deltas
  BY DEF Charged
<1>6. \A s : Refused(s).ok = FALSE
  BY DEF Refused
<1> HIDE DEF e, r, hidden, values, v, judged, errors, charged
<1>7. r.ok
  BY DEF r
<1>8. errors = {} /\ r = charged
  BY <1>2, <1>3, <1>6, <1>7
<1>9. DOMAIN selections \subseteq DOMAIN cfg.options /\ \A o \in DOMAIN v : v[o].code \in {"taken", "empty"}
  <2>1. {<<"unknown_option", o>> : o \in DOMAIN selections \ DOMAIN cfg.options} = {}
        /\ {<<v[o].code, o>> : o \in {o \in DOMAIN v : v[o].code \notin {"taken", "empty"}}} = {}
    BY <1>8 DEF Errors, errors
  <2>2. DOMAIN selections \ DOMAIN cfg.options = {}
        /\ {o \in DOMAIN v : v[o].code \notin {"taken", "empty"}} = {}
    BY <2>1
  <2> QED BY <2>2
<1>10. ASSUME NEW o \in DOMAIN selections, cfg.options[o].kind = "choice", ~IsHidden(cfg.options[o]),
              selections[o].members # {}, FlatPriced(cfg.options[o], selections[o].members)
       PROVE  /\ o \in DOMAIN r.deltas /\ selections[o].members \subseteq Keys(cfg.options[o])
              /\ r.deltas[o] = ListPrice(cfg.options[o], selections[o].members)
  <2> DEFINE a == Answered(cfg, o, selections[o], e.states, hidden, values, cost, clock)
  <2>1. o \in DOMAIN v /\ v[o] = a /\ a.code \in {"taken", "empty"}
    BY <1>4, <1>9
  <2>2. a.code = "taken" /\ selections[o].members \subseteq Keys(cfg.options[o])
        /\ a.amount = ListPrice(cfg.options[o], selections[o].members)
    BY <1>1, <1>10, <2>1, AnsweredCharges
  <2> HIDE DEF a
  <2>3. o \in TakenOf(v)
    BY <2>1, <2>2 DEF TakenOf
  <2>4. r.deltas = deltas
    BY <1>5, <1>8
  <2> QED BY <2>1, <2>2, <2>3, <2>4
<1>11. ChargesList(r, cfg, selections)
  BY <1>10 DEF ChargesList
<1> QED BY <1>11 DEF r

-----------------------------------------------------------------------------
(* The page's figure and the server's, over the same values.                *)
HeldValues(option, keys) == {ValueFor(option, k) : k \in keys}

LEMMA ValuesAreFinite ==
  ASSUME NEW option, IsOption(option)
  PROVE  IsFiniteSet(ToSet(option.values))
<1> DEFINE values == option.values
           n == Len(values)
           f == [i \in 1 .. n |-> values[i]]
<1>1. values \in Seq(ToSet(values)) /\ n \in Nat /\ DOMAIN values = 1 .. n
  BY DEF IsOption
<1>2. IsFiniteSet(1 .. n)
  BY <1>1, FS_Interval
<1>3. ToSet(values) = {f[i] : i \in 1 .. n}
  BY <1>1 DEF ToSet
<1>4. f \in Surjection(1 .. n, {f[i] : i \in 1 .. n})
  BY DEF Surjection
<1> HIDE DEF f
<1>5. IsFiniteSet({f[i] : i \in 1 .. n})
  BY <1>2, <1>4, FS_Surjection
<1> QED BY <1>3, <1>5

LEMMA HeldAreValues ==
  ASSUME NEW option, IsOption(option), NEW keys, keys \subseteq Keys(option)
  PROVE  /\ HeldValues(option, keys) \subseteq ToSet(option.values) /\ IsFiniteSet(HeldValues(option, keys))
         /\ \A j, k \in keys : ValueFor(option, j) = ValueFor(option, k) => j = k
<1>1. HeldValues(option, keys) \subseteq ToSet(option.values)
  BY KeysAre DEF HeldValues
<1>2. IsFiniteSet(HeldValues(option, keys))
  BY <1>1, ValuesAreFinite, FS_Subset
<1>3. ASSUME NEW j \in keys, NEW k \in keys, ValueFor(option, j) = ValueFor(option, k) PROVE j = k
  <2>1. ValueFor(option, j).key = j /\ ValueFor(option, k).key = k
    BY KeysAre
  <2> QED BY <1>3, <2>1
<1> QED BY <1>1, <1>2, <1>3

LEMMA ListIsTotal ==
  ASSUME NEW option, IsOption(option), NEW keys, keys \subseteq Keys(option),
         NEW V, IsFiniteSet(V), HeldValues(option, keys) \subseteq V, \A v \in V : Amount(v) \in Int,
         NEW g, Totals(g, [v \in V |-> Amount(v)])
  PROVE  ListPrice(option, keys) = g[HeldValues(option, keys)]
<1> DEFINE f == [v \in V |-> Amount(v)]
           by == [k \in keys |-> Amount(ValueFor(option, k))]
           part == [k \in keys |-> {ValueFor(option, k)}]
<1>1. \A k \in keys : ValueFor(option, k) \in V
  BY DEF HeldValues
<1>2. IsFiniteSet(keys)
  BY KeysAre, FS_Subset
<1>3. DOMAIN f = V /\ \A v \in V : f[v] = Amount(v) /\ f[v] \in Int
  OBVIOUS
<1>4. DOMAIN by = keys /\ \A k \in keys : by[k] = Amount(ValueFor(option, k)) /\ by[k] \in Int
  BY <1>1
<1>5. DOMAIN part = keys /\ \A k \in keys : part[k] = {ValueFor(option, k)}
  OBVIOUS
<1>6. ListPrice(option, keys) = SumFunction(by)
  BY DEF ListPrice
<1>7. Totals(g, f)
  OBVIOUS
<1> HIDE DEF f, by, part
<1>8. PICK h : Totals(h, by) /\ SumFunction(by) = h[keys]
  BY <1>2, <1>4, SumTotals
<1>9. Parted(part, keys, V)
  BY <1>1, <1>5, HeldAreValues DEF Parted
<1>10. ASSUME NEW k \in keys PROVE by[k] = g[part[k]]
  <2> DEFINE v == ValueFor(option, k)
  <2>1. v \in V /\ part[k] = {v} /\ by[k] = f[v] /\ f[v] \in Int
    BY <1>1, <1>3, <1>4, <1>5
  <2> HIDE DEF v
  <2>2. g[{v}] = f[v] + g[{v} \ {v}]
    BY <1>3, <1>7, <2>1 DEF Totals
  <2>3. {v} \ {v} = {} /\ g[{}] = 0
    BY <1>7 DEF Totals
  <2> QED BY <2>1, <2>2, <2>3
<1>11. AllParts(part, keys) = HeldValues(option, keys)
  BY <1>5 DEF AllParts, HeldValues
<1>12. h[DOMAIN by] = g[AllParts(part, DOMAIN by)]
  BY <1>2, <1>3, <1>4, <1>7, <1>8, <1>9, <1>10, TotalsByPart
<1> QED BY <1>4, <1>6, <1>8, <1>11, <1>12

LEMMA ChoicesAreSent ==
  ASSUME OneAnswerEach, NEW p, IsPage(p), p.doc # NoDoc, Ticked(p), Hushed(p), NEW o \in DOMAIN p.values,
         Options(p.doc)[o].kind = "choice"
  PROVE  /\ p.values[o] # {} => o \in DOMAIN Submitted(p)
         /\ o \in DOMAIN Submitted(p) => Submitted(p)[o].members = p.values[o] /\ p.values[o] # {}
<1> DEFINE option == Options(p.doc)[o]
<1>1. IsOption(option) /\ ~IsHidden(option)
  BY ProperOnes DEF Proper
<1>2. p.values[o] \subseteq Keys(option) /\ (~option.many => AtMostOne(p.values[o]))
  BY DEF Ticked, Ticks
<1>3. ASSUME p.values[o] # {} PROVE o \in DOMAIN Submitted(p)
  <2>1. o \notin HiddenOnPage(p)
    BY <1>3 DEF Hushed
  <2> QED BY <1>1, <1>3, <2>1 DEF Submitted
<1>4. ASSUME o \in DOMAIN Submitted(p) PROVE Submitted(p)[o].members = p.values[o] /\ p.values[o] # {}
  <2> DEFINE members == IF option.kind = "choice" /\ ~option.many THEN LastChecked(option, p.values[o]) ELSE p.values[o]
             answer == Submitted(p)[o]
  <2>1. p.values[o] # {}
        /\ answer = IF option.many /\ option.kind = "choice" THEN GivenList(members) ELSE Given(members)
    BY <1>4, SubmittedIs
  <2>2. members = p.values[o]
    BY <1>1, <1>2, CheckedIs
  <2> HIDE DEF members, answer, option
  <2>3. answer.members = members
    BY <2>1 DEF Given, GivenList
  <2> QED BY <2>1, <2>2, <2>3 DEF answer
<1> QED BY <1>3, <1>4

(* The parts of what is chosen, option by option.                           *)
ChosenOf(d, values, o) ==
    IF Options(d)[o].kind = "choice" THEN HeldValues(Options(d)[o], values[o]) ELSE {}

LEMMA ChosenAreParts ==
  ASSUME NEW d, NEW values
  PROVE  ChosenValues(d, values) = UNION {ChosenOf(d, values, o) : o \in DOMAIN values}
BY DEF ChosenValues, ChosenOf, HeldValues

LEMMA PartsAreApart ==
  ASSUME OneAnswerEach, NEW p, IsPage(p), p.doc # NoDoc, Ticked(p)
  PROVE  /\ \A o \in DOMAIN p.values : IsFiniteSet(ChosenOf(p.doc, p.values, o))
         /\ \A o, q \in DOMAIN p.values : o # q => ChosenOf(p.doc, p.values, o) \cap ChosenOf(p.doc, p.values, q) = {}
         /\ IsFiniteSet(ChosenValues(p.doc, p.values))
         /\ \A v \in ChosenValues(p.doc, p.values) : Amount(v) \in Int
<1> DEFINE d == p.doc
           part(o) == ChosenOf(d, p.values, o)
<1>1. d \in DOMAIN Docs /\ DOMAIN p.values = DOMAIN Options(d)
  BY DEF IsPage
<1>2. ASSUME NEW o \in DOMAIN p.values
      PROVE  part(o) \subseteq ToSet(Options(d)[o].values) /\ IsFiniteSet(part(o)) /\ IsOption(Options(d)[o])
  <2>1. IsOption(Options(d)[o])
    BY ProperOnes
  <2>2. CASE Options(d)[o].kind = "choice"
    <3>1. p.values[o] \subseteq Keys(Options(d)[o])
      BY <2>2 DEF Ticked, Ticks
    <3>2. part(o) = HeldValues(Options(d)[o], p.values[o])
      BY <2>2 DEF ChosenOf
    <3> HIDE DEF part, d
    <3> QED BY <2>1, <3>1, <3>2, HeldAreValues
  <2>3. CASE Options(d)[o].kind # "choice"
    BY <2>1, <2>3, FS_EmptySet DEF ChosenOf
  <2> QED BY <2>2, <2>3
<1>3. ASSUME NEW o \in DOMAIN p.values, NEW q \in DOMAIN p.values, o # q PROVE part(o) \cap part(q) = {}
  <2>1. ToSet(Options(d)[o].values) \cap ToSet(Options(d)[q].values) = {}
    BY <1>1, <1>3 DEF OneAnswerEach
  <2> HIDE DEF part
  <2> QED BY <1>2, <2>1
<1>4. ChosenValues(d, p.values) = UNION {part(o) : o \in DOMAIN p.values}
  BY ChosenAreParts
<1>5. IsFiniteSet(DOMAIN p.values)
  BY <1>1, ShopAssumption DEF IsDocument, Options
<1>6. IsFiniteSet({part(o) : o \in DOMAIN p.values})
  <2> DEFINE f == [o \in DOMAIN p.values |-> part(o)]
             image == {f[o] : o \in DOMAIN p.values}
  <2>1. {part(o) : o \in DOMAIN p.values} = image
    OBVIOUS
  <2>2. f \in Surjection(DOMAIN p.values, image)
    BY DEF Surjection
  <2> HIDE DEF f, image
  <2>3. IsFiniteSet(image)
    BY <1>5, <2>2, FS_Surjection
  <2> QED BY <2>1, <2>3
<1>7. IsFiniteSet(ChosenValues(d, p.values))
  <2> HIDE DEF part
  <2> QED BY <1>2, <1>4, <1>6, FS_UNION
<1>8. ASSUME NEW v \in ChosenValues(d, p.values) PROVE Amount(v) \in Int
  <2> HIDE DEF part
  <2>1. PICK o \in DOMAIN p.values : v \in ToSet(Options(d)[o].values) /\ IsOption(Options(d)[o])
    BY <1>2, <1>4
  <2>2. IsPrice(v.price)
    BY <2>1 DEF IsOption
  <2> QED BY <2>2 DEF IsPrice, Amount
<1> QED BY <1>2, <1>3, <1>7, <1>8

LEMMA FigureIsCharged ==
  ASSUME OneAnswerEach, NEW p, IsPage(p), p.doc # NoDoc, Ticked(p), Hushed(p),
         ~Priceless(p.doc, ChosenValues(p.doc, p.values)), NEW cost \in Int, NEW clock,
         Resolve(Docs[p.doc], Submitted(p), cost, clock).ok,
         LET deltas == Resolve(Docs[p.doc], Submitted(p), cost, clock).deltas
         IN \A o \in DOMAIN deltas : Options(p.doc)[o].kind # "choice" => deltas[o] = 0
  PROVE  SumFunction(Resolve(Docs[p.doc], Submitted(p), cost, clock).deltas) = SumOf(ChosenValues(p.doc, p.values))
<1> DEFINE d == p.doc
           S == Submitted(p)
           V == ChosenValues(d, p.values)
           f == [v \in V |-> Amount(v)]
           r == Resolve(Docs[d], S, cost, clock)
           deltas == r.deltas
           part == [o \in DOMAIN deltas |-> ChosenOf(d, p.values, o)]
<1>1. d \in DOMAIN Docs /\ DOMAIN p.values = DOMAIN Options(d) /\ IsDocument(Docs[d])
  BY ShopAssumption DEF IsPage
<1>2. IsFiniteSet(V) /\ \A v \in V : Amount(v) \in Int
  BY PartsAreApart
<1>3. SetsNone(Docs[d]) /\ \A v \in V : v.price.type \in {"none", "fixed"}
  BY DEF Priceless, SetsNone, SetsAPrice, ToSet
<1>4. Accepted(r, Docs[d], S, cost) /\ ChargesList(r, Docs[d], S)
  BY <1>1, <1>3, ResolveIs, ResolveCharges
<1>5. DOMAIN deltas \subseteq DOMAIN p.values /\ DOMAIN deltas \subseteq DOMAIN S
      /\ \A o \in DOMAIN deltas : deltas[o] \in Int
  BY <1>1, <1>4 DEF Accepted, Options
<1>6. \A o \in DOMAIN deltas : Options(d)[o].kind # "choice" => deltas[o] = 0
  OBVIOUS
<1>7. V = UNION {ChosenOf(d, p.values, o) : o \in DOMAIN p.values}
  BY ChosenAreParts
<1>8. DOMAIN f = V /\ \A v \in V : f[v] = Amount(v) /\ f[v] \in Int
  BY <1>2
<1>9. DOMAIN part = DOMAIN deltas /\ \A o \in DOMAIN deltas : part[o] = ChosenOf(d, p.values, o)
  OBVIOUS
<1> HIDE DEF r, V
<1>10. PICK g : Totals(g, f) /\ SumOf(V) = g[V]
  BY <1>2, SumOfTotals
<1>11. ASSUME NEW o \in DOMAIN p.values, Options(d)[o].kind = "choice", p.values[o] # {}
       PROVE  o \in DOMAIN deltas /\ deltas[o] = g[ChosenOf(d, p.values, o)]
  <2> DEFINE option == Options(d)[o]
             keys == p.values[o]
  <2>1. IsOption(option) /\ ~IsHidden(option) /\ keys \subseteq Keys(option)
    BY <1>11, ProperOnes DEF Proper, Ticked, Ticks
  <2>2. o \in DOMAIN S /\ S[o].members = keys
    BY <1>11, ChoicesAreSent
  <2>3. ChosenOf(d, p.values, o) = HeldValues(option, keys)
    BY <1>11 DEF ChosenOf
  <2>4. HeldValues(option, keys) \subseteq V
    BY <1>7, <2>3
  <2>5. FlatPriced(option, keys)
    BY <1>3, <2>4 DEF FlatPriced, HeldValues
  <2>6. option = Docs[d].options[o]
    BY DEF Options
  <2> HIDE DEF keys, S, d
  <2>7. o \in DOMAIN deltas /\ deltas[o] = ListPrice(option, keys)
    BY <1>4, <1>11, <2>1, <2>2, <2>5, <2>6 DEF ChargesList, keys
  <2> HIDE DEF option
  <2>8. ListPrice(option, keys) = g[HeldValues(option, keys)]
    BY <1>2, <1>10, <2>1, <2>4, ListIsTotal
  <2> QED BY <2>3, <2>7, <2>8
<1>12. ASSUME NEW o \in DOMAIN deltas PROVE deltas[o] = g[part[o]] /\ part[o] \subseteq V
  <2>1. part[o] = ChosenOf(d, p.values, o) /\ part[o] \subseteq V
    BY <1>5, <1>7, <1>9
  <2>2. CASE Options(d)[o].kind = "choice"
    <3>1. p.values[o] # {}
      BY <1>5, <2>2, ChoicesAreSent
    <3> QED BY <1>5, <1>11, <2>1, <2>2, <3>1
  <2>3. CASE Options(d)[o].kind # "choice"
    BY <1>6, <1>10, <2>1, <2>3 DEF ChosenOf, Totals
  <2> QED BY <2>1, <2>2, <2>3
<1>13. Parted(part, DOMAIN deltas, V)
  <2>1. \A o, q \in DOMAIN deltas : o # q => part[o] \cap part[q] = {}
    BY <1>5, <1>9, PartsAreApart
  <2> HIDE DEF part
  <2> QED BY <1>9, <1>12, <2>1 DEF Parted
<1>14. AllParts(part, DOMAIN deltas) = V
  <2>1. ASSUME NEW o \in DOMAIN p.values, o \notin DOMAIN deltas PROVE ChosenOf(d, p.values, o) = {}
    BY <1>11, <2>1 DEF ChosenOf, HeldValues
  <2> HIDE DEF part
  <2> QED BY <1>5, <1>7, <1>9, <2>1 DEF AllParts
<1>15. IsFiniteSet(DOMAIN deltas)
  <2>1. IsFiniteSet(DOMAIN p.values)
    BY <1>1 DEF IsDocument, Options
  <2> QED BY <1>5, <2>1, FS_Subset
<1> HIDE DEF part, deltas, f
<1>16. PICK h : Totals(h, deltas) /\ SumFunction(deltas) = h[DOMAIN deltas]
  BY <1>5, <1>15, SumTotals
<1>17. h[DOMAIN deltas] = g[AllParts(part, DOMAIN deltas)]
  BY <1>2, <1>8, <1>10, <1>12, <1>13, <1>15, <1>16, TotalsByPart
<1>18. SumFunction(deltas) = SumOf(V)
  BY <1>10, <1>14, <1>16, <1>17
<1> QED BY <1>18 DEF deltas, r, V, S, d

LEMMA EstimateIs ==
  ASSUME OneAnswerEach, CoreInv, StandsOK
  PROVE  EstimateIsCharged
<1> SUFFICES ASSUME page.doc = doc, ~page.typing, page.estimate # {}, Resolve(Docs[doc], Submitted(page), base, today).ok,
                    \A o \in DOMAIN Resolve(Docs[doc], Submitted(page), base, today).deltas :
                       Options(doc)[o].kind # "choice" =>
                           Resolve(Docs[doc], Submitted(page), base, today).deltas[o] = 0
             PROVE  page.estimate = {SumFunction(Resolve(Docs[doc], Submitted(page), base, today).deltas)}
  BY DEF EstimateIsCharged
<1>1. IsPage(page) /\ page.doc # NoDoc /\ base \in Int
  BY ShopAssumption, MaxMinorAssumption DEF CoreInv, PageOK, ShopOK
<1>2. Ticked(page) /\ Hushed(page) /\ page.estimate = Figure(page.doc, page.values) \ {0}
  BY <1>1, FigureIs DEF StandsOK, Stands
<1> DEFINE V == ChosenValues(page.doc, page.values)
<1>3. ~Priceless(page.doc, V) /\ page.estimate = {SumOf(V)}
  BY <1>2 DEF Figure
<1>4. SumFunction(Resolve(Docs[page.doc], Submitted(page), base, today).deltas) = SumOf(V)
  BY <1>1, <1>2, <1>3, FigureIsCharged
<1> QED BY <1>3, <1>4

EstimateInv == CoreInv /\ StandsOK

(* Whatever the documents, their rules and what the buyer does: where the   *)
(* page shows a figure and nothing typed costs anything, what the server    *)
(* adds to the base price is that figure (frontend.js selectedTotal and     *)
(* SelectionResolver.php), provided that every option has one answer.       *)
THEOREM EstimateHolds == OneAnswerEach => (StorefrontSpec => []EstimateIsCharged)
<1> SUFFICES ASSUME OneAnswerEach PROVE StorefrontSpec => []EstimateIsCharged
  OBVIOUS
<1>1. StorefrontInit => EstimateInv
  BY CoreInit DEF StorefrontInit, EstimateInv, StandsOK, Stands, ClosedPage
<1>2. EstimateInv /\ [StorefrontNext]_storefrontVars => EstimateInv'
  BY CoreStep, StandsStep DEF EstimateInv
<1>3. EstimateInv => EstimateIsCharged
  BY EstimateIs DEF EstimateInv
<1> QED BY <1>1, <1>2, <1>3, PTL DEF StorefrontSpec

(* The same with its hypothesis on amounts (Pricing.php:76) repeated in the *)
(* conclusion, as the run checks the two together.                          *)
THEOREM QuotesStand == OneAnswerEach => (StorefrontSpec /\ []WithinMoney => []QuotesHold)
<1> SUFFICES ASSUME OneAnswerEach PROVE StorefrontSpec /\ []WithinMoney => []QuotesHold
  OBVIOUS
<1>1. StorefrontSpec => []EstimateIsCharged
  BY EstimateHolds
<1>2. WithinMoney /\ EstimateIsCharged => QuotesHold
  BY DEF QuotesHold
<1> QED BY <1>1, <1>2, PTL
=============================================================================
