---------------------------- MODULE BillingProofs ----------------------------
(* Theorems about billing.  Of BillingEvents, for every number of events,
   deliveries in flight and passes of the retry worker.  Of Subscriptions, for
   every number of handlers, subscriptions and prices: what must hold of the row
   must hold of every copy of it that a job may yet save, and of every event and
   answer that a job may yet write into it. *)
EXTENDS BillingEvents, Subscriptions, TLAPS

(* A job that is not idle is about an event. *)
BusyOK == \A j \in Tasks : tasks[j].pc # "idle" => tasks[j].event \in Events

(* A job that has applied its event has left an effect, and one about to answer
   2xx has a row that is finished. *)
AppliedOK == \A j \in Tasks : tasks[j].pc = "applied" => effects[tasks[j].event] # "none"

AnswerOK == \A j \in Tasks : tasks[j].pc = "answer" => rows[tasks[j].event].processed

(* What a row counts, and what a pass remembers of it, was claimed as often. *)
CountedOK ==
    \A e \in Events :
        claims[e] = MaxAttempts \/ /\ rows[e].attempts <= claims[e]
                                   /\ \A w \in Passes : claimed[w][e] <= claims[e]

EventsInv ==
    /\ EventsTypeOK /\ BusyOK /\ AppliedOK /\ AnswerOK /\ CountedOK
    /\ AckedIsProcessed /\ ProcessedIsApplied /\ GivenUpAfterTrying

LEMMA NoTaskOK == NoTask \in Task /\ NoTask.pc = "idle"
  BY DEF NoTask, Task

LEMMA TasksArePasses == Requests \subseteq Tasks /\ Passes \subseteq Tasks
  BY DEF Tasks

LEMMA EventsInvInit == EventsInit => EventsInv
<1> SUFFICES ASSUME EventsInit PROVE EventsInv
  OBVIOUS
<1>1. EventsTypeOK
  BY NoTaskOK, MaxAttemptsAssumption DEF EventsInit, EventsTypeOK, Row, Effects
<1>2. BusyOK /\ AppliedOK /\ AnswerOK
  BY NoTaskOK DEF EventsInit, BusyOK, AppliedOK, AnswerOK
<1>3. CountedOK
  <2>1. \A e \in Events : rows[e].attempts = 0 /\ claims[e] = 0
    BY DEF EventsInit
  <2>2. \A w \in Passes : \A e \in Events : claimed[w][e] = 0
    BY DEF EventsInit
  <2>3. 0 <= 0
    OBVIOUS
  <2> QED BY <2>1, <2>2, <2>3 DEF CountedOK
<1> QED BY <1>1, <1>2, <1>3
        DEF EventsInit, EventsInv, AckedIsProcessed, ProcessedIsApplied, GivenUpAfterTrying

LEMMA ApplyInv == ASSUME EventsInv, NEW j \in Tasks, Apply(j) PROVE EventsInv'
<1> DEFINE e == tasks[j].event
<1>1. e \in Events /\ tasks \in [Tasks -> Task] /\ effects \in [Events -> Effects]
  BY DEF EventsInv, EventsTypeOK, BusyOK, Apply
<1>2. effects' \in [Events -> Effects] /\ effects'[e] # "none"
  BY <1>1 DEF Apply, Effects
<1>3. \A f \in Events : effects[f] # "none" => effects'[f] # "none"
  BY <1>1, <1>2 DEF Apply
<1>4. tasks' \in [Tasks -> Task] /\ \A i \in Tasks : tasks'[i].event = tasks[i].event
  BY <1>1 DEF Apply, Proceed, Task
<1>5. \A i \in Tasks : i # j => tasks'[i] = tasks[i]
  BY <1>1 DEF Apply, Proceed
<1>6. tasks'[j].pc = "applied"
  BY <1>1 DEF Apply, Proceed, Task
<1>7. EventsTypeOK'
  BY <1>2, <1>4 DEF Apply, EventsInv, EventsTypeOK
<1>8. BusyOK' /\ AppliedOK' /\ AnswerOK'
  BY <1>1, <1>2, <1>3, <1>4, <1>5, <1>6 DEF Apply, EventsInv, BusyOK, AppliedOK, AnswerOK
<1>9. CountedOK' /\ AckedIsProcessed' /\ GivenUpAfterTrying'
  BY DEF Apply, EventsInv, CountedOK, AckedIsProcessed, GivenUpAfterTrying
<1> QED BY <1>3, <1>7, <1>8, <1>9 DEF Apply, EventsInv, ProcessedIsApplied

(* A step that changes nothing but what a job does, or ends it. *)
LEMMA TaskInv ==
  ASSUME EventsInv, NEW j \in Tasks, tasks' \in [Tasks -> Task],
         \A i \in Tasks : i # j => tasks'[i] = tasks[i],
         tasks'[j].pc # "idle" => tasks'[j].event \in Events,
         tasks'[j].pc \notin {"applied", "answer"},
         deliveries' \in [Events -> Nat], crashes' \in Nat,
         claimed' \in [Passes -> [Events -> Nat]],
         \A w \in Passes : \A e \in Events : claimed'[w][e] \in {0, claimed[w][e]},
         UNCHANGED <<rows, acked, effects, claims>>
  PROVE  EventsInv'
<1>1. EventsTypeOK'
  BY DEF EventsInv, EventsTypeOK
<1>2. BusyOK' /\ AppliedOK' /\ AnswerOK'
  BY DEF EventsInv, BusyOK, AppliedOK, AnswerOK
<1>3. CountedOK'
  BY DEF EventsInv, EventsTypeOK, CountedOK
<1> QED BY <1>1, <1>2, <1>3
        DEF EventsInv, AckedIsProcessed, ProcessedIsApplied, GivenUpAfterTrying

LEMMA ThrowInv == ASSUME EventsInv, NEW j \in Tasks, Throw(j) PROVE EventsInv'
<1>1. tasks \in [Tasks -> Task] /\ tasks[j].event \in Events
  BY DEF EventsInv, EventsTypeOK, BusyOK, Throw
<1>2. /\ tasks' \in [Tasks -> Task]
      /\ tasks'[j].pc = "failed" /\ tasks'[j].event = tasks[j].event
  BY <1>1 DEF Throw, Proceed, Task
<1>3. \A i \in Tasks : i # j => tasks'[i] = tasks[i]
  BY <1>1 DEF Throw, Proceed
<1> QED BY <1>1, <1>2, <1>3, TaskInv DEF Throw, EventsInv, EventsTypeOK, history

LEMMA EndInv ==
  ASSUME EventsInv, NEW j \in Tasks, Die(j) \/ (j \in Requests /\ AnswerError(j))
                                         \/ (j \in Passes /\ PassFails(j))
  PROVE  EventsInv'
<1>1. tasks' = [tasks EXCEPT ![j] = NoTask] /\ tasks \in [Tasks -> Task]
  BY DEF Die, AnswerError, PassFails, Rest, EventsInv, EventsTypeOK
<1>2. tasks' \in [Tasks -> Task] /\ tasks'[j].pc = "idle"
  BY <1>1, NoTaskOK
<1>3. \A i \in Tasks : i # j => tasks'[i] = tasks[i]
  BY <1>1
<1>4. claimed \in [Passes -> [Events -> Nat]]
  BY DEF EventsInv, EventsTypeOK
<1>5. claimed' \in [Passes -> [Events -> Nat]]
        /\ \A w \in Passes : \A e \in Events : claimed'[w][e] \in {0, claimed[w][e]}
  BY <1>4 DEF Die, AnswerError, PassFails
<1>6. deliveries' \in [Events -> Nat] /\ crashes' \in Nat
  BY DEF Die, AnswerError, PassFails, EventsInv, EventsTypeOK
<1> QED BY <1>2, <1>3, <1>5, <1>6, TaskInv DEF Die, AnswerError, PassFails, history

LEMMA DeliverInv ==
  ASSUME EventsInv, NEW r \in Requests, NEW e \in Events, Deliver(r, e) PROVE EventsInv'
<1>1. r \in Tasks /\ tasks \in [Tasks -> Task]
  BY TasksArePasses DEF EventsInv, EventsTypeOK
<1>2. [pc |-> "received", event |-> e] \in Task
  BY DEF Task
<1>3. tasks' \in [Tasks -> Task] /\ tasks'[r] = [pc |-> "received", event |-> e]
  BY <1>1, <1>2 DEF Deliver
<1>4. \A i \in Tasks : i # r => tasks'[i] = tasks[i]
  BY <1>1 DEF Deliver
<1>5. deliveries' \in [Events -> Nat]
  BY DEF Deliver, EventsInv, EventsTypeOK
<1> QED BY <1>1, <1>3, <1>4, <1>5, TaskInv DEF Deliver, EventsInv, EventsTypeOK, history

LEMMA TakeInv ==
  ASSUME EventsInv, NEW w \in Passes, NEW e \in Events, Take(w, e) PROVE EventsInv'
<1>1. w \in Tasks /\ tasks \in [Tasks -> Task]
  BY TasksArePasses DEF EventsInv, EventsTypeOK
<1>2. [pc |-> "handling", event |-> e] \in Task
  BY DEF Task
<1>3. tasks' \in [Tasks -> Task] /\ tasks'[w] = [pc |-> "handling", event |-> e]
  BY <1>1, <1>2 DEF Take
<1>4. \A i \in Tasks : i # w => tasks'[i] = tasks[i]
  BY <1>1 DEF Take
<1> QED BY <1>1, <1>3, <1>4, TaskInv DEF Take, EventsInv, EventsTypeOK, history

(* A step that writes one row without unfinishing it or counting past the claims,
   and moves or ends one job. *)
LEMMA RowInv ==
  ASSUME EventsInv, NEW j \in Tasks, NEW e \in Events, NEW entry \in Row,
         rows' = [rows EXCEPT ![e] = entry],
         rows[e].processed => entry.processed,
         entry.processed => rows[e].processed \/ effects[e] # "none",
         entry.dead => claims[e] = MaxAttempts,
         entry.attempts <= claims[e] \/ claims[e] = MaxAttempts,
         tasks' \in [Tasks -> Task],
         \A i \in Tasks : i # j => tasks'[i] = tasks[i],
         tasks'[j].pc # "idle" => tasks'[j].event = e,
         tasks'[j].pc # "applied",
         tasks'[j].pc = "answer" => entry.processed,
         claimed' \in [Passes -> [Events -> Nat]],
         \A w \in Passes : \A f \in Events : claimed'[w][f] \in {0, claimed[w][f]},
         UNCHANGED <<deliveries, acked, history, crashes>>
  PROVE  EventsInv'
<1>0. rows \in [Events -> Row] /\ UNCHANGED <<effects, claims>>
  BY DEF EventsInv, EventsTypeOK, history
<1>1. rows' \in [Events -> Row] /\ rows'[e] = entry /\ \A f \in Events : f # e => rows'[f] = rows[f]
  BY <1>0
<1>2. EventsTypeOK'
  BY <1>0, <1>1 DEF EventsInv, EventsTypeOK
<1>3. \A f \in Events : rows[f].processed => rows'[f].processed
  BY <1>1
<1>4. BusyOK' /\ AppliedOK'
  BY <1>0 DEF EventsInv, BusyOK, AppliedOK
<1>5. AnswerOK'
  BY <1>0, <1>1, <1>3 DEF EventsInv, BusyOK, AnswerOK
<1>6. AckedIsProcessed'
  BY <1>3 DEF EventsInv, EventsTypeOK, AckedIsProcessed
<1>7. ProcessedIsApplied'
  BY <1>0, <1>1 DEF EventsInv, ProcessedIsApplied
<1>8. GivenUpAfterTrying'
  BY <1>0, <1>1 DEF EventsInv, GivenUpAfterTrying
<1>9. CountedOK'
  <2> SUFFICES ASSUME NEW f \in Events, claims[f] # MaxAttempts
               PROVE  /\ rows'[f].attempts <= claims[f]
                      /\ \A w \in Passes : claimed'[w][f] <= claims[f]
    BY <1>0 DEF CountedOK
  <2>1. rows[f].attempts <= claims[f] /\ \A w \in Passes : claimed[w][f] <= claims[f]
    BY DEF EventsInv, CountedOK
  <2>2. claims[f] \in Nat
    BY MaxAttemptsAssumption DEF EventsInv, EventsTypeOK
  <2> QED BY <1>1, <2>1, <2>2
<1> QED BY <1>2, <1>4, <1>5, <1>6, <1>7, <1>8, <1>9 DEF EventsInv

LEMMA RecordInv == ASSUME EventsInv, NEW r \in Requests, Record(r) PROVE EventsInv'
<1> DEFINE e == tasks[r].event
           entry == [rows[e] EXCEPT !.recorded = TRUE]
<1>1. r \in Tasks /\ tasks \in [Tasks -> Task] /\ e \in Events /\ rows[e] \in Row
  BY TasksArePasses DEF EventsInv, EventsTypeOK, BusyOK, Record
<1>2. entry \in Row /\ entry.processed = rows[e].processed /\ entry.dead = rows[e].dead
        /\ entry.attempts = rows[e].attempts
  BY <1>1 DEF Row
<1>3. rows' = [rows EXCEPT ![e] = entry]
  BY DEF Record
<1>4. tasks' \in [Tasks -> Task] /\ tasks'[r].event = e
        /\ tasks'[r].pc = (IF rows[e].processed THEN "answer" ELSE "handling")
  BY <1>1 DEF Record, Proceed, Task
<1>5. \A i \in Tasks : i # r => tasks'[i] = tasks[i]
  BY <1>1 DEF Record, Proceed
<1>6. claimed' \in [Passes -> [Events -> Nat]] /\ claimed' = claimed
        /\ UNCHANGED <<deliveries, acked, history, crashes>>
  BY DEF Record, EventsInv, EventsTypeOK
<1>7. /\ rows[e].dead => claims[e] = MaxAttempts
      /\ rows[e].attempts <= claims[e] \/ claims[e] = MaxAttempts
  BY <1>1 DEF EventsInv, GivenUpAfterTrying, CountedOK
<1> QED BY <1>1, <1>2, <1>3, <1>4, <1>5, <1>6, <1>7, RowInv

LEMMA MarkProcessedInv == ASSUME EventsInv, NEW r \in Requests, MarkProcessed(r) PROVE EventsInv'
<1> DEFINE e == tasks[r].event
           entry == [rows[e] EXCEPT !.processed = TRUE]
<1>1. r \in Tasks /\ tasks \in [Tasks -> Task] /\ e \in Events /\ rows[e] \in Row
  BY TasksArePasses DEF EventsInv, EventsTypeOK, BusyOK, MarkProcessed
<1>2. entry \in Row /\ entry.processed /\ entry.dead = rows[e].dead
        /\ entry.attempts = rows[e].attempts
  BY <1>1 DEF Row
<1>3. rows' = [rows EXCEPT ![e] = entry]
  BY DEF MarkProcessed
<1>4. tasks' \in [Tasks -> Task] /\ tasks'[r].event = e /\ tasks'[r].pc = "answer"
  BY <1>1 DEF MarkProcessed, Proceed, Task
<1>5. \A i \in Tasks : i # r => tasks'[i] = tasks[i]
  BY <1>1 DEF MarkProcessed, Proceed
<1>6. claimed' \in [Passes -> [Events -> Nat]] /\ claimed' = claimed
        /\ UNCHANGED <<deliveries, acked, history, crashes>>
  BY DEF MarkProcessed, EventsInv, EventsTypeOK
<1>7. /\ rows[e].dead => claims[e] = MaxAttempts
      /\ rows[e].attempts <= claims[e] \/ claims[e] = MaxAttempts
  BY <1>1 DEF EventsInv, GivenUpAfterTrying, CountedOK
<1>8. effects[e] # "none"
  BY <1>1 DEF EventsInv, AppliedOK, MarkProcessed
<1> QED BY <1>1, <1>2, <1>3, <1>4, <1>5, <1>6, <1>7, <1>8, RowInv

LEMMA AgeInv == ASSUME EventsInv, NEW e \in Events, Age(e) PROVE EventsInv'
<1> DEFINE entry == [rows[e] EXCEPT !.old = TRUE]
<1>1. rows \in [Events -> Row] /\ rows[e] \in Row
  BY DEF EventsInv, EventsTypeOK
<1>2. entry \in Row /\ entry.processed = rows[e].processed /\ entry.dead = rows[e].dead
        /\ entry.attempts = rows[e].attempts
  BY <1>1 DEF Row
<1>3. rows' = [rows EXCEPT ![e] = entry]
  BY DEF Age
<1>4. rows' \in [Events -> Row]
        /\ \A f \in Events : /\ rows'[f].processed = rows[f].processed
                             /\ rows'[f].dead = rows[f].dead
                             /\ rows'[f].attempts = rows[f].attempts
  BY <1>1, <1>2, <1>3
<1>5. UNCHANGED <<tasks, claimed, deliveries, acked, effects, claims, crashes>>
  BY DEF Age, history
<1>6. EventsTypeOK'
  BY <1>4, <1>5 DEF EventsInv, EventsTypeOK
<1>7. BusyOK' /\ AppliedOK' /\ AnswerOK'
  BY <1>4, <1>5 DEF EventsInv, BusyOK, AppliedOK, AnswerOK
<1>8. CountedOK'
  BY <1>4, <1>5 DEF EventsInv, CountedOK
<1> QED BY <1>4, <1>5, <1>6, <1>7, <1>8
        DEF EventsInv, EventsTypeOK, AckedIsProcessed, ProcessedIsApplied, GivenUpAfterTrying

(* A pass is through with its row: what it writes comes from its own claim. *)
LEMMA FinishInv ==
  ASSUME EventsInv, NEW w \in Passes, NEW e \in Events, e = tasks[w].event, NEW entry \in Row,
         Finish(w, entry),
         rows[e].processed => entry.processed,
         entry.processed => rows[e].processed \/ effects[e] # "none",
         entry.attempts = claimed[w][e],
         entry.dead => rows[e].dead \/ claimed[w][e] >= MaxAttempts
  PROVE  EventsInv'
<1>1. w \in Tasks /\ tasks \in [Tasks -> Task] /\ claimed \in [Passes -> [Events -> Nat]]
  BY TasksArePasses DEF EventsInv, EventsTypeOK
<1>2. rows' = [rows EXCEPT ![e] = entry] /\ UNCHANGED <<deliveries, acked, history, crashes>>
  BY DEF Finish
<1>3. tasks' \in [Tasks -> Task] /\ tasks'[w] = NoTask
        /\ \A i \in Tasks : i # w => tasks'[i] = tasks[i]
  BY <1>1, NoTaskOK DEF Finish, Rest
<1>4. claimed' \in [Passes -> [Events -> Nat]]
        /\ \A v \in Passes : \A f \in Events : claimed'[v][f] \in {0, claimed[v][f]}
  BY <1>1 DEF Finish
<1>5. claims[e] \in 0 .. MaxAttempts /\ claimed[w][e] \in Nat
        /\ (claims[e] = MaxAttempts \/ claimed[w][e] <= claims[e])
        /\ (rows[e].dead => claims[e] = MaxAttempts)
  BY <1>1 DEF EventsInv, EventsTypeOK, CountedOK, GivenUpAfterTrying
<1>6. /\ entry.dead => claims[e] = MaxAttempts
      /\ entry.attempts <= claims[e] \/ claims[e] = MaxAttempts
  BY <1>5, MaxAttemptsAssumption
<1> QED BY <1>1, <1>2, <1>3, <1>4, <1>6, NoTaskOK, RowInv

LEMMA RecoverInv == ASSUME EventsInv, NEW w \in Passes, Recover(w) PROVE EventsInv'
<1>1. PICK e \in Events : e = tasks[w].event
  BY TasksArePasses DEF EventsInv, BusyOK, Recover
<1> DEFINE entry == [rows[e] EXCEPT !.processed = TRUE, !.attempts = claimed[w][e]]
<1>2. rows[e] \in Row /\ claimed[w][e] \in Nat
  BY DEF EventsInv, EventsTypeOK
<1>3. entry \in Row /\ entry.processed /\ entry.attempts = claimed[w][e] /\ entry.dead = rows[e].dead
  BY <1>2 DEF Row
<1>4. effects[e] # "none"
  BY <1>1, TasksArePasses DEF EventsInv, AppliedOK, Recover
<1>5. Finish(w, entry)
  BY <1>1 DEF Recover
<1> QED BY <1>1, <1>3, <1>4, <1>5, FinishInv

LEMMA RetryFailsInv == ASSUME EventsInv, NEW w \in Passes, RetryFails(w) PROVE EventsInv'
<1>1. PICK e \in Events : e = tasks[w].event
  BY TasksArePasses DEF EventsInv, BusyOK, RetryFails
<1>2. rows[e] \in Row /\ claimed[w][e] \in Nat
  BY DEF EventsInv, EventsTypeOK
<1> DEFINE dead == claimed[w][e] >= MaxAttempts
           entry == [rows[e] EXCEPT !.dead = dead, !.attempts = claimed[w][e]]
<1>3. dead \in BOOLEAN
  OBVIOUS
<1>5. Finish(w, entry)
  BY <1>1 DEF RetryFails
<1> HIDE DEF dead
<1>4. entry \in Row /\ entry.processed = rows[e].processed /\ entry.attempts = claimed[w][e]
        /\ entry.dead = dead
  BY <1>2, <1>3 DEF Row
<1>6. entry.dead => claimed[w][e] >= MaxAttempts
  <2>1. dead => claimed[w][e] >= MaxAttempts
    BY DEF dead
  <2> QED BY <1>4, <2>1
<1>7. entry.processed => rows[e].processed
  BY <1>4
<1> HIDE DEF entry
<1> QED BY <1>1, <1>4, <1>5, <1>6, <1>7, FinishInv

LEMMA AnswerInv == ASSUME EventsInv, NEW r \in Requests, Answer(r) PROVE EventsInv'
<1> DEFINE e == tasks[r].event
<1>1. r \in Tasks /\ tasks \in [Tasks -> Task] /\ e \in Events /\ rows[e].processed
  BY TasksArePasses DEF EventsInv, EventsTypeOK, BusyOK, AnswerOK, Answer
<1>2. tasks' \in [Tasks -> Task] /\ tasks'[r].pc = "idle"
        /\ \A i \in Tasks : i # r => tasks'[i] = tasks[i]
  BY <1>1, NoTaskOK DEF Answer, Rest
<1>3. acked' \subseteq acked \cup {e} /\ UNCHANGED <<rows, claimed, deliveries, effects, claims, crashes>>
  BY DEF Answer, history
<1>4. EventsTypeOK'
  BY <1>1, <1>2, <1>3 DEF EventsInv, EventsTypeOK
<1>5. BusyOK' /\ AppliedOK' /\ AnswerOK'
  BY <1>2, <1>3 DEF EventsInv, BusyOK, AppliedOK, AnswerOK
<1> QED BY <1>1, <1>3, <1>4, <1>5
        DEF EventsInv, CountedOK, AckedIsProcessed, ProcessedIsApplied, GivenUpAfterTrying

LEMMA ClaimInv ==
  ASSUME EventsInv, NEW w \in Passes, NEW batch \in SUBSET Events, Claim(w, batch) PROVE EventsInv'
<1>0. /\ rows \in [Events -> Row] /\ claims \in [Events -> 0 .. MaxAttempts]
      /\ claimed \in [Passes -> [Events -> Nat]]
  BY DEF EventsInv, EventsTypeOK
<1>1. \A e \in Events : /\ rows[e] \in Row /\ rows[e].attempts \in Nat
                        /\ [rows[e] EXCEPT !.attempts = @ + 1] \in Row
  BY <1>0 DEF Row
<1>2. rows' \in [Events -> Row]
        /\ \A e \in Events : /\ rows'[e].processed = rows[e].processed
                             /\ rows'[e].dead = rows[e].dead
                             /\ rows'[e].attempts = IF e \in batch THEN rows[e].attempts + 1
                                                                   ELSE rows[e].attempts
  BY <1>1 DEF Claim, Row
<1>3. claims' \in [Events -> 0 .. MaxAttempts]
        /\ \A e \in Events : claims'[e] = IF e \in batch /\ claims[e] < MaxAttempts
                                            THEN claims[e] + 1 ELSE claims[e]
  BY <1>0, MaxAttemptsAssumption DEF Claim
<1>4. claimed' \in [Passes -> [Events -> Nat]]
        /\ \A v \in Passes : \A e \in Events :
              claimed'[v][e] = IF v # w THEN claimed[v][e]
                               ELSE IF e \in batch THEN rows[e].attempts + 1 ELSE 0
  <2> DEFINE held == [e \in Events |-> IF e \in batch THEN rows[e].attempts + 1 ELSE 0]
  <2>1. ASSUME NEW e \in Events PROVE held[e] \in Nat
    <3>1. rows[e].attempts \in Nat
      BY <1>1
    <3> QED BY <3>1
  <2>2. held \in [Events -> Nat]
    BY <2>1
  <2>3. claimed' = [claimed EXCEPT ![w] = held]
    BY DEF Claim
  <2>4. \A e \in Events : held[e] = IF e \in batch THEN rows[e].attempts + 1 ELSE 0
    OBVIOUS
  <2> HIDE DEF held
  <2> QED BY <1>0, <2>2, <2>3, <2>4
<1>5. UNCHANGED <<tasks, deliveries, acked, effects, crashes>>
  BY DEF Claim
<1>6. EventsTypeOK'
  BY <1>2, <1>3, <1>4, <1>5 DEF EventsInv, EventsTypeOK
<1>7. BusyOK' /\ AppliedOK' /\ AnswerOK'
  BY <1>2, <1>5 DEF EventsInv, BusyOK, AppliedOK, AnswerOK
<1>8. CountedOK'
  <2> SUFFICES ASSUME NEW e \in Events, claims'[e] # MaxAttempts
               PROVE  /\ rows'[e].attempts <= claims'[e]
                      /\ \A v \in Passes : claimed'[v][e] <= claims'[e]
    BY DEF CountedOK
  <2>1. claims[e] \in 0 .. MaxAttempts /\ claims[e] # MaxAttempts
    BY <1>0, <1>3
  <2>2. rows[e].attempts <= claims[e] /\ \A v \in Passes : claimed[v][e] <= claims[e]
    BY <2>1 DEF EventsInv, CountedOK
  <2>3. \A v \in Passes : claimed[v][e] \in Nat
    BY <1>0
  <2>4. claims'[e] = IF e \in batch THEN claims[e] + 1 ELSE claims[e]
    BY <1>3, <2>1, MaxAttemptsAssumption
  <2>5. claims[e] \in Nat
    BY <2>1, MaxAttemptsAssumption
  <2>6. rows'[e].attempts <= claims'[e]
    <3>1. rows'[e].attempts = IF e \in batch THEN rows[e].attempts + 1 ELSE rows[e].attempts
      BY <1>2
    <3>2. rows[e].attempts \in Nat
      BY <1>1
    <3> QED BY <2>2, <2>4, <2>5, <3>1, <3>2
  <2>7. ASSUME NEW v \in Passes PROVE claimed'[v][e] <= claims'[e]
    <3>1. claimed[v][e] \in Nat /\ claimed[v][e] <= claims[e]
      BY <2>2, <2>3
    <3>2. claimed'[v][e] = IF v # w THEN claimed[v][e]
                           ELSE IF e \in batch THEN rows[e].attempts + 1 ELSE 0
      BY <1>4
    <3>3. rows[e].attempts \in Nat
      BY <1>1
    <3> QED BY <2>2, <2>4, <2>5, <3>1, <3>2, <3>3
  <2> QED BY <2>6, <2>7
<1>9. AckedIsProcessed' /\ ProcessedIsApplied'
  BY <1>2, <1>5 DEF EventsInv, EventsTypeOK, AckedIsProcessed, ProcessedIsApplied
<1>10. GivenUpAfterTrying'
  BY <1>2, <1>3, MaxAttemptsAssumption DEF EventsInv, GivenUpAfterTrying
<1> QED BY <1>6, <1>7, <1>8, <1>9, <1>10 DEF EventsInv

LEMMA EventsInvStep == EventsInv /\ [EventsNext]_eventVars => EventsInv'
<1> SUFFICES ASSUME EventsInv, [EventsNext]_eventVars PROVE EventsInv'
  OBVIOUS
<1>1. ASSUME NEW j \in Tasks, Apply(j) \/ Throw(j) \/ Die(j) PROVE EventsInv'
  BY <1>1, ApplyInv, ThrowInv, EndInv
<1>2. ASSUME NEW r \in Requests, Webhook(r) PROVE EventsInv'
  BY <1>2, DeliverInv, RecordInv, MarkProcessedInv, AnswerInv, EndInv, TasksArePasses DEF Webhook
<1>3. ASSUME NEW w \in Passes, Retry(w) \/ PassFails(w) PROVE EventsInv'
  BY <1>3, ClaimInv, TakeInv, RecoverInv, RetryFailsInv, EndInv, TasksArePasses DEF Retry
<1>4. CASE UNCHANGED eventVars
  BY <1>4 DEF eventVars, history, EventsInv, EventsTypeOK, BusyOK, AppliedOK, AnswerOK, CountedOK,
              AckedIsProcessed, ProcessedIsApplied, GivenUpAfterTrying
<1> QED BY <1>1, <1>2, <1>3, <1>4, AgeInv DEF EventsNext

LEMMA EventsInvHolds == EventsSpec => []EventsInv
  BY EventsInvInit, EventsInvStep, PTL DEF EventsSpec

(* Every reachable state is well typed. *)
THEOREM EventsTyped == EventsSpec => []EventsTypeOK
<1>1. EventsInv => EventsTypeOK
  BY DEF EventsInv
<1> QED BY <1>1, EventsInvHolds, PTL

(* No 2xx is given for an event still owed, however many deliveries of it overlap
   (BillingWebhookService.record). *)
THEOREM AckedProcessed == EventsSpec => []AckedIsProcessed
<1>1. EventsInv => AckedIsProcessed
  BY DEF EventsInv
<1> QED BY <1>1, EventsInvHolds, PTL

(* No row is marked processed before a handler has committed its effect, whether
   a request or a pass of the retry worker marks it. *)
THEOREM ProcessedApplied == EventsSpec => []ProcessedIsApplied
<1>1. EventsInv => ProcessedIsApplied
  BY DEF EventsInv
<1> QED BY <1>1, EventsInvHolds, PTL

(* The two together: whoever is told that an event is finished, by a 2xx or by
   processedAt, is told the truth (BillingWebhookService, BillingRetryService). *)
THEOREM FinishedIsApplied == EventsSpec => []FinishedMeansApplied
<1>1. EventsInv => FinishedMeansApplied
  BY DEF EventsInv, FinishedMeansApplied
<1> QED BY <1>1, EventsInvHolds, PTL

(* No row is given up before it has been claimed MAX_ATTEMPTS times, although
   any number of passes write attempts from memory (retryPending). *)
THEOREM GivenUpTried == EventsSpec => []GivenUpAfterTrying
<1>1. EventsInv => GivenUpAfterTrying
  BY DEF EventsInv
<1> QED BY <1>1, EventsInvHolds, PTL
-----------------------------------------------------------------------------
(* Subscriptions *)

(* A row, given the invoices paid and the days a charge failed on. *)
RowOK(r, paid, failed) ==
    /\ r.sub \in Subs \cup {0}
    /\ r.status = "active" => paid # {}
    /\ r.grace # 0 => \E day \in failed : day + GraceDays <= r.grace

(* A snapshot the provider sent. *)
EventOK(e, paid, failed, today) ==
    /\ e.sub \in Subs
    /\ e.status = "active" \/ e.type = "paid" => paid # {}
    /\ e.type = "failed" => \E day \in failed : day <= today

JobOK(j, paid, failed, today) ==
    /\ RowOK(j.row, paid, failed)
    /\ j.pc \in {"save", "repair"} => EventOK(j.event, paid, failed, today)
    /\ j.pc = "save" /\ j.event.type # "checkout" => j.row.sub # 0
    /\ j.pc \in {"fetch", "repair"} => j.row.sub # 0

LocalOK == RowOK(local, charges, failures)

PendingOK == \A e \in pending : EventOK(e, charges, failures, now)

JobsOK == \A h \in Handlers : JobOK(jobs[h], charges, failures, now)

RemoteOK == \A k \in Subs : remote[k].status = "active" => charges # {}

IInv == TypeOK /\ LocalOK /\ PendingOK /\ JobsOK /\ RemoteOK

LinkKept == local.sub # 0 => local'.sub # 0
-----------------------------------------------------------------------------
(* Paid invoices, failures and days are only ever added. *)
LEMMA RowGrows ==
  ASSUME NEW r, NEW paid, NEW failed, NEW paid2, NEW failed2,
         RowOK(r, paid, failed), paid \subseteq paid2, failed \subseteq failed2
  PROVE  RowOK(r, paid2, failed2)
  BY DEF RowOK

LEMMA EventGrows ==
  ASSUME NEW e, NEW paid, NEW failed, NEW today, NEW paid2, NEW failed2, NEW today2,
         EventOK(e, paid, failed, today), paid \subseteq paid2, failed \subseteq failed2,
         failed \subseteq Nat, today \in Nat, today2 \in Nat, today <= today2
  PROVE  EventOK(e, paid2, failed2, today2)
  BY DEF EventOK

LEMMA JobGrows ==
  ASSUME NEW j, NEW paid, NEW failed, NEW today, NEW paid2, NEW failed2, NEW today2,
         JobOK(j, paid, failed, today), paid \subseteq paid2, failed \subseteq failed2,
         failed \subseteq Nat, today \in Nat, today2 \in Nat, today <= today2
  PROVE  JobOK(j, paid2, failed2, today2)
<1>1. RowOK(j.row, paid2, failed2)
  BY RowGrows DEF JobOK
<1>2. j.pc \in {"save", "repair"} => EventOK(j.event, paid2, failed2, today2)
  BY EventGrows DEF JobOK
<1> QED BY <1>1, <1>2 DEF JobOK

LEMMA ProvisionedOK ==
  /\ Provisioned \in Subscription
  /\ \A paid, failed : RowOK(Provisioned, paid, failed)
  BY FreeAssumption DEF Provisioned, Subscription, Status, Plans, RowOK

(* An idle job, and one that was started on nothing it read, is harmless. *)
LEMMA NoJobOK ==
  /\ NoJob \in Job
  /\ [NoJob EXCEPT !.pc = "reason"] \in Job
  /\ \A paid, failed, today : /\ JobOK(NoJob, paid, failed, today)
                              /\ JobOK([NoJob EXCEPT !.pc = "reason"], paid, failed, today)
<1>1. [type |-> "fetched", sub |-> 0, status |-> "trialing", price |-> Free, n |-> 0] \in Event
  BY DEF Event, Status, Plans
<1>2. /\ NoJob.pc = "idle" /\ NoJob.row = Provisioned
      /\ [NoJob EXCEPT !.pc = "reason"].pc = "reason"
      /\ [NoJob EXCEPT !.pc = "reason"].row = Provisioned
  BY DEF NoJob
<1>3. NoJob \in Job /\ [NoJob EXCEPT !.pc = "reason"] \in Job
  BY <1>1, ProvisionedOK DEF NoJob, Job
<1> QED BY <1>2, <1>3, ProvisionedOK DEF JobOK

LEMMA InvInit == Init => IInv
<1> SUFFICES ASSUME Init PROVE IInv
  OBVIOUS
<1>1. \A k \in Subs : remote[k] = [exists |-> FALSE, status |-> "trialing", price |-> Free]
  BY DEF Init
<1>2. TypeOK
  BY ProvisionedOK, NoJobOK DEF Init, TypeOK, Remote, Status, Plans
<1>3. LocalOK /\ PendingOK /\ JobsOK
  BY ProvisionedOK, NoJobOK DEF Init, LocalOK, PendingOK, JobsOK
<1>4. RemoteOK
  BY <1>1 DEF RemoteOK
<1> QED BY <1>2, <1>3, <1>4 DEF IInv
-----------------------------------------------------------------------------
(* The provider changes a subscription: it is active only with an invoice paid,
   then or before.  A job may begin with it, on nothing it read. *)
LEMMA ChangesInv ==
  ASSUME IInv, NEW k \in Subs, NEW status \in Status, NEW price \in Plans,
         NEW types \in SUBSET {"checkout", "changed", "paid", "failed"},
         Changes(k, status, price, types),
         status = "active" => "paid" \in types \/ remote[k].status = "active",
         jobs' \in [Handlers -> Job],
         \A h \in Handlers : jobs'[h] \in {jobs[h], [NoJob EXCEPT !.pc = "reason"]},
         UNCHANGED <<row, now, mishaps>>
  PROVE  IInv'
<1>0. /\ revision \in Nat /\ now \in Nat /\ failures \subseteq Nat /\ charges \subseteq Nat
      /\ pending \subseteq Event /\ remote \in [Subs -> Remote]
  BY DEF IInv, TypeOK
<1>1. /\ charges' = IF "paid" \in types THEN charges \cup {revision + 1} ELSE charges
      /\ failures' = IF "failed" \in types THEN failures \cup {now} ELSE failures
      /\ revision' = revision + 1
      /\ remote' = [remote EXCEPT ![k] = [exists |-> TRUE, status |-> status, price |-> price]]
      /\ pending' = pending \cup {[type |-> t, sub |-> k, status |-> status, price |-> price,
                                   n |-> revision + 1] : t \in types}
  BY DEF Changes
<1>2. charges \subseteq charges' /\ failures \subseteq failures'
        /\ charges' \subseteq Nat /\ failures' \subseteq Nat /\ revision' \in Nat
  BY <1>0, <1>1
<1>3. k \in Nat
  BY DEF Subs
<1>4. /\ status = "active" => charges' # {}
      /\ "paid" \in types => charges' # {}
      /\ "failed" \in types => now \in failures'
  BY <1>0, <1>1, <1>2 DEF IInv, RemoteOK
<1>5. ASSUME NEW t \in types
      PROVE  LET e == [type |-> t, sub |-> k, status |-> status, price |-> price,
                       n |-> revision + 1]
             IN  e \in Event /\ EventOK(e, charges', failures', now)
  <2> DEFINE e == [type |-> t, sub |-> k, status |-> status, price |-> price, n |-> revision + 1]
  <2>1. e \in Event
    BY <1>0, <1>3 DEF Event
  <2>2. e.sub = k /\ e.status = status /\ e.type = t
    OBVIOUS
  <2>3. now <= now
    BY <1>0
  <2> HIDE DEF e
  <2>4. EventOK(e, charges', failures', now)
    BY <1>4, <2>2, <2>3 DEF EventOK
  <2> QED BY <2>1, <2>4 DEF e
<1>6. pending' \subseteq Event
  BY <1>0, <1>1, <1>5
<1>7. remote' \in [Subs -> Remote] /\ RemoteOK'
  <2>1. [exists |-> TRUE, status |-> status, price |-> price] \in Remote
    BY DEF Remote
  <2>2. remote' \in [Subs -> Remote]
    BY <1>0, <1>1, <2>1
  <2>3. \A i \in Subs : remote'[i].status = IF i = k THEN status ELSE remote[i].status
    BY <1>0, <1>1
  <2> QED BY <1>2, <1>4, <2>2, <2>3 DEF IInv, RemoteOK
<1>8. TypeOK'
  BY <1>2, <1>6, <1>7 DEF IInv, TypeOK, row
<1>9. LocalOK'
  BY <1>2, RowGrows DEF IInv, LocalOK, row
<1>10. now <= now /\ now' = now
  BY <1>0
<1>11. PendingOK'
  <2>1. \A e \in pending : EventOK(e, charges', failures', now)
    BY <1>0, <1>2, <1>10, EventGrows DEF IInv, PendingOK
  <2>2. ASSUME NEW e \in pending' PROVE EventOK(e, charges', failures', now)
    <3>1. CASE e \in pending
      BY <2>1, <3>1
    <3>2. CASE e \notin pending
      <4>1. PICK t \in types : e = [type |-> t, sub |-> k, status |-> status,
                                    price |-> price, n |-> revision + 1]
        BY <1>1, <2>2, <3>2
      <4> QED BY <1>5, <4>1
    <3> QED BY <3>1, <3>2
  <2> QED BY <1>10, <2>2 DEF PendingOK
<1>12. JobsOK'
  <2>1. \A h \in Handlers : JobOK(jobs[h], charges', failures', now)
    BY <1>0, <1>2, <1>10, JobGrows DEF IInv, JobsOK
  <2> QED BY <1>10, <2>1, NoJobOK DEF JobsOK
<1> QED BY <1>7, <1>8, <1>9, <1>11, <1>12 DEF IInv
-----------------------------------------------------------------------------
(* Any other step but a day passing: one job reads, writes the row or ends. *)
LEMMA JobInv ==
  ASSUME IInv, NEW h \in Handlers, NEW j \in Job, jobs' = [jobs EXCEPT ![h] = j],
         JobOK(j, charges, failures, now),
         local' \in Subscription, RowOK(local', charges, failures),
         tenant' \in [plan : Plans, identity : BOOLEAN], invoices' \in SUBSET Nat,
         told' \in Plans, mishaps' \in Nat, pending' \subseteq pending,
         UNCHANGED <<provider, now>>
  PROVE  IInv'
<1>1. UNCHANGED <<remote, revision, charges, failures, now>>
  BY DEF provider
<1>2. jobs \in [Handlers -> Job]
  BY DEF IInv, TypeOK
<1>3. jobs' \in [Handlers -> Job]
        /\ \A i \in Handlers : jobs'[i] = IF i = h THEN j ELSE jobs[i]
  BY <1>2
<1>4. TypeOK'
  BY <1>1, <1>3 DEF IInv, TypeOK
<1>5. LocalOK' /\ PendingOK' /\ RemoteOK'
  BY <1>1 DEF IInv, LocalOK, PendingOK, RemoteOK
<1>6. JobsOK'
  BY <1>1, <1>3 DEF IInv, JobsOK
<1> QED BY <1>4, <1>5, <1>6 DEF IInv

(* What a job holds. *)
LEMMA HeldOK ==
  ASSUME IInv, NEW h \in Handlers
  PROVE  /\ jobs \in [Handlers -> Job]
         /\ jobs[h].row \in Subscription /\ jobs[h].event \in Event
         /\ RowOK(jobs[h].row, charges, failures)
         /\ jobs[h].pc \in {"save", "repair"} =>
               EventOK(jobs[h].event, charges, failures, now)
         /\ local \in Subscription /\ RowOK(local, charges, failures)
         /\ now \in Nat /\ mishaps \in Nat
<1>1. jobs \in [Handlers -> Job] /\ jobs[h] \in Job /\ JobOK(jobs[h], charges, failures, now)
  BY DEF IInv, TypeOK, JobsOK
<1> QED BY <1>1 DEF JobOK, Job, IInv, TypeOK, LocalOK

(* A job that writes the row goes on to a step that uses no more of what it read,
   or is done. *)
LEMMA WriteInv ==
  ASSUME IInv, NEW h \in Handlers,
         \/ \E pc \in {"settle", "invalidate"} : Goto(h, pc)
         \/ Done(h),
         local' \in Subscription, RowOK(local', charges, failures),
         tenant' \in [plan : Plans, identity : BOOLEAN], invoices' \in SUBSET Nat,
         told' \in Plans, mishaps' \in Nat, pending' \subseteq pending,
         UNCHANGED <<provider, now>>
  PROVE  IInv'
<1>1. jobs \in [Handlers -> Job] /\ jobs[h] \in Job /\ RowOK(jobs[h].row, charges, failures)
  BY HeldOK
<1>2. CASE Done(h)
  BY <1>2, JobInv, NoJobOK DEF Done
<1>3. ASSUME NEW pc \in {"settle", "invalidate"}, Goto(h, pc) PROVE IInv'
  <2> DEFINE j == [jobs[h] EXCEPT !.pc = pc]
  <2>1. j \in Job /\ j.pc = pc /\ j.row = jobs[h].row
    BY <1>1 DEF Job
  <2>2. jobs' = [jobs EXCEPT ![h] = j]
    BY <1>1, <1>3 DEF Goto
  <2> HIDE DEF j
  <2>3. JobOK(j, charges, failures, now)
    BY <1>1, <2>1 DEF JobOK
  <2> QED BY <2>1, <2>2, <2>3, JobInv
<1> QED BY <1>2, <1>3

LEMMA LoadInv ==
  ASSUME IInv, NEW h \in Handlers, NEW e \in pending, Load(h, e) PROVE IInv'
<1> DEFINE j == [pc |-> "save", row |-> local, event |-> e]
<1>1. local \in Subscription /\ RowOK(local, charges, failures)
  BY HeldOK
<1>2. e \in Event /\ EventOK(e, charges, failures, now)
  BY DEF IInv, TypeOK, PendingOK
<1>3. j \in Job
  BY <1>1, <1>2 DEF Job
<1>4. JobOK(j, charges, failures, now)
  BY <1>1, <1>2 DEF JobOK, Load
<1>5. jobs' = [jobs EXCEPT ![h] = j]
  BY DEF Load
<1> HIDE DEF j
<1> QED BY <1>1, <1>3, <1>4, <1>5, JobInv DEF Load, row, IInv, TypeOK

LEMMA CheckoutInv == ASSUME IInv, NEW h \in Handlers, CheckoutCompleted(h) PROVE IInv'
<1> DEFINE r == [jobs[h].row EXCEPT !.sub = jobs[h].event.sub]
<1>1. /\ jobs[h].row \in Subscription /\ RowOK(jobs[h].row, charges, failures)
      /\ EventOK(jobs[h].event, charges, failures, now)
  BY HeldOK DEF CheckoutCompleted, Saves
<1>2. jobs[h].event.sub \in Subs /\ jobs[h].event.sub \in Nat
  BY <1>1 DEF EventOK, Subs
<1>3. r \in Subscription /\ r.sub = jobs[h].event.sub /\ r.status = jobs[h].row.status
        /\ r.grace = jobs[h].row.grace
  BY <1>1, <1>2 DEF Subscription
<1>4. local' = r
  BY DEF CheckoutCompleted
<1> HIDE DEF r
<1>5. RowOK(r, charges, failures)
  BY <1>1, <1>2, <1>3 DEF RowOK
<1>6. tenant' \in [plan : Plans, identity : BOOLEAN]
  BY DEF CheckoutCompleted, IInv, TypeOK
<1> QED BY <1>3, <1>4, <1>5, <1>6, WriteInv DEF CheckoutCompleted, IInv, TypeOK

LEMMA ChangedInv == ASSUME IInv, NEW h \in Handlers, SubscriptionChanged(h) PROVE IInv'
<1> DEFINE e == jobs[h].event
           read == jobs[h].row
           grace == IF e.status \in {"active", "trialing"} THEN 0 ELSE read.grace
           r == [read EXCEPT !.sub = e.sub, !.status = e.status, !.price = e.price,
                             !.grace = grace]
<1>1. /\ read \in Subscription /\ RowOK(read, charges, failures)
      /\ e \in Event /\ EventOK(e, charges, failures, now)
  BY HeldOK DEF SubscriptionChanged, Saves
<1>2. e.sub \in Subs /\ e.sub \in Nat /\ e.status \in Status /\ e.price \in Plans
        /\ grace \in {0, read.grace} /\ grace \in Nat
  BY <1>1 DEF EventOK, Subs, Event, Subscription
<1>3. local' = r
  BY DEF SubscriptionChanged
<1> HIDE DEF grace
<1>4. r \in Subscription /\ r.sub = e.sub /\ r.status = e.status /\ r.grace = grace
  BY <1>1, <1>2 DEF Subscription
<1> HIDE DEF r
<1>5. RowOK(r, charges, failures)
  BY <1>1, <1>2, <1>4 DEF RowOK, EventOK
<1> QED BY <1>3, <1>4, <1>5, WriteInv DEF SubscriptionChanged, IInv, TypeOK

LEMMA PaidInv == ASSUME IInv, NEW h \in Handlers, InvoicePaid(h) PROVE IInv'
<1> DEFINE r == [jobs[h].row EXCEPT !.status = "active", !.grace = 0]
<1>1. /\ jobs[h].row \in Subscription /\ RowOK(jobs[h].row, charges, failures)
      /\ jobs[h].event \in Event /\ EventOK(jobs[h].event, charges, failures, now)
      /\ jobs[h].event.type = "paid"
  BY HeldOK DEF InvoicePaid, Saves
<1>2. r \in Subscription /\ r.sub = jobs[h].row.sub /\ r.status = "active" /\ r.grace = 0
  BY <1>1 DEF Subscription, Status
<1>3. local' = r
  BY DEF InvoicePaid
<1> HIDE DEF r
<1>4. RowOK(r, charges, failures)
  BY <1>1, <1>2 DEF RowOK, EventOK
<1>5. invoices' \in SUBSET Nat
  BY <1>1 DEF InvoicePaid, IInv, TypeOK, Event
<1> QED BY <1>2, <1>3, <1>4, <1>5, WriteInv DEF InvoicePaid, IInv, TypeOK

(* The clock starts from today, and the charge failed today or before. *)
LEMMA FailedInv == ASSUME IInv, NEW h \in Handlers, PaymentFailed(h) PROVE IInv'
<1> DEFINE read == jobs[h].row
           grace == IF read.grace = 0 THEN now + GraceDays ELSE read.grace
           r == [read EXCEPT !.status = "past_due", !.grace = grace]
<1>1. /\ read \in Subscription /\ RowOK(read, charges, failures) /\ now \in Nat
      /\ EventOK(jobs[h].event, charges, failures, now) /\ jobs[h].event.type = "failed"
  BY HeldOK DEF PaymentFailed, Saves
<1>2. grace \in Nat
  BY <1>1, GraceAssumption DEF Subscription
<1>3. \E day \in failures : day + GraceDays <= grace
  <2>1. CASE read.grace = 0
    <3>1. PICK day \in failures : day <= now
      BY <1>1 DEF EventOK
    <3>2. day \in Nat
      BY DEF IInv, TypeOK
    <3> QED BY <1>1, <2>1, <3>1, <3>2, GraceAssumption
  <2>2. CASE read.grace # 0
    BY <1>1, <2>2 DEF RowOK
  <2> QED BY <2>1, <2>2
<1>4. local' = r
  BY DEF PaymentFailed
<1> HIDE DEF grace
<1>5. r \in Subscription /\ r.sub = read.sub /\ r.status = "past_due" /\ r.grace = grace
  BY <1>1, <1>2 DEF Subscription, Status
<1> HIDE DEF r
<1>6. RowOK(r, charges, failures)
  BY <1>1, <1>3, <1>5 DEF RowOK
<1> QED BY <1>4, <1>5, <1>6, WriteInv DEF PaymentFailed, IInv, TypeOK

LEMMA RepairInv == ASSUME IInv, NEW h \in Handlers, Repair(h) PROVE IInv'
<1> DEFINE e == jobs[h].event
           read == jobs[h].row
           r == [read EXCEPT !.status = e.status, !.price = e.price]
<1>1. /\ read \in Subscription /\ RowOK(read, charges, failures)
      /\ e \in Event /\ EventOK(e, charges, failures, now)
      /\ local \in Subscription /\ RowOK(local, charges, failures)
  BY HeldOK DEF Repair
<1>2. e.status \in Status /\ e.price \in Plans
  BY <1>1 DEF Event
<1>3. r \in Subscription /\ r.sub = read.sub /\ r.status = e.status /\ r.grace = read.grace
  BY <1>1, <1>2 DEF Subscription
<1>4. local' \in {local, r} /\ (Goto(h, "invalidate") \/ Done(h))
  BY DEF Repair
<1> HIDE DEF r
<1>5. RowOK(r, charges, failures)
  BY <1>1, <1>3 DEF RowOK, EventOK
<1>6. local' \in Subscription /\ RowOK(local', charges, failures)
  BY <1>1, <1>3, <1>4, <1>5
<1> QED BY <1>4, <1>6, WriteInv DEF Repair, IInv, TypeOK

LEMMA FetchInv == ASSUME IInv, NEW h \in Handlers, ReconcileFetch(h) PROVE IInv'
<1> DEFINE k == jobs[h].row.sub
           e == [type |-> "fetched", sub |-> k, status |-> remote[k].status,
                 price |-> remote[k].price, n |-> revision]
           j == [jobs[h] EXCEPT !.pc = "repair", !.event = e]
<1>1. /\ jobs \in [Handlers -> Job] /\ jobs[h] \in Job
      /\ RowOK(jobs[h].row, charges, failures) /\ k # 0
  BY HeldOK DEF ReconcileFetch, IInv, JobsOK, JobOK
<1>2. k \in Subs /\ k \in Nat /\ revision \in Nat /\ remote[k] \in Remote
  BY <1>1 DEF RowOK, Subs, IInv, TypeOK
<1>3. remote[k].status = "active" => charges # {}
  BY <1>2 DEF IInv, RemoteOK
<1>4. e \in Event /\ e.sub = k /\ e.status = remote[k].status /\ e.type = "fetched"
  BY <1>2 DEF Event, Remote
<1>5. jobs' = [jobs EXCEPT ![h] = j]
  BY <1>1 DEF ReconcileFetch
<1> HIDE DEF e
<1>6. EventOK(e, charges, failures, now)
  BY <1>2, <1>3, <1>4 DEF EventOK
<1>7. j \in Job /\ j.pc = "repair" /\ j.row = jobs[h].row /\ j.event = e
  BY <1>1, <1>4 DEF Job
<1> HIDE DEF j
<1>8. JobOK(j, charges, failures, now)
  BY <1>1, <1>6, <1>7 DEF JobOK
<1> QED BY <1>5, <1>7, <1>8, JobInv, HeldOK DEF ReconcileFetch, row, IInv, TypeOK

LEMMA ReconcileLoadInv == ASSUME IInv, NEW h \in Handlers, ReconcileLoad(h) PROVE IInv'
<1> DEFINE j == [NoJob EXCEPT !.pc = "fetch", !.row = local]
<1>1. local \in Subscription /\ RowOK(local, charges, failures)
  BY HeldOK
<1>2. j \in Job /\ j.pc = "fetch" /\ j.row = local
  BY <1>1, NoJobOK DEF NoJob, Job
<1>3. jobs' = [jobs EXCEPT ![h] = j]
  BY DEF ReconcileLoad
<1> HIDE DEF j
<1>4. JobOK(j, charges, failures, now)
  BY <1>1, <1>2 DEF JobOK, ReconcileLoad
<1> QED BY <1>1, <1>2, <1>3, <1>4, JobInv DEF ReconcileLoad, row, IInv, TypeOK

LEMMA ReasonInv == ASSUME IInv, NEW h \in Handlers, CancelReason(h) PROVE IInv'
<1> DEFINE r == [local EXCEPT !.reason = TRUE]
<1>1. local \in Subscription /\ RowOK(local, charges, failures)
  BY HeldOK
<1>2. r \in Subscription /\ r.sub = local.sub /\ r.status = local.status
        /\ r.grace = local.grace
  BY <1>1 DEF Subscription
<1>3. local' = r
  BY DEF CancelReason
<1> HIDE DEF r
<1>4. RowOK(r, charges, failures)
  BY <1>1, <1>2 DEF RowOK
<1> QED BY <1>2, <1>3, <1>4, WriteInv DEF CancelReason, IInv, TypeOK

(* Steps that leave the row alone. *)
LEMMA KeepInv ==
  ASSUME IInv, NEW h \in Handlers, Invalidate(h) \/ Settle(h) \/ Crash(h) PROVE IInv'
<1>1. local \in Subscription /\ RowOK(local, charges, failures) /\ mishaps \in Nat
  BY HeldOK
<1>2. CASE Invalidate(h)
  <2>1. told' \in Plans /\ mishaps' \in Nat
    BY <1>1, <1>2 DEF Invalidate, Subscription, IInv, TypeOK
  <2> QED BY <1>1, <1>2, <2>1, WriteInv DEF Invalidate, IInv, TypeOK
<1>3. CASE Settle(h)
  BY <1>1, <1>3, WriteInv DEF Settle, row, IInv, TypeOK
<1>4. CASE Crash(h)
  BY <1>1, <1>4, WriteInv DEF Crash, row, IInv, TypeOK
<1> QED BY <1>2, <1>3, <1>4

LEMMA ProviderInv == ASSUME IInv, Provider PROVE IInv'
<1>1. jobs \in [Handlers -> Job] /\ remote \in [Subs -> Remote] /\ Prices \subseteq Plans
  BY DEF IInv, TypeOK, Plans
<1>2. \A k \in Subs : remote[k].status \in Status /\ remote[k].price \in Plans
  BY <1>1 DEF Remote
<1>3. {"active", "trialing", "past_due", "cancelled"} \subseteq Status
  BY DEF Status
<1>4. PICK k \in Subs : \/ \E price \in Prices : Purchase(k, price) \/ ChangePlan(k, price)
                        \/ ChargeSucceeds(k) \/ ChargeFails(k) \/ Ends(k)
  BY DEF Provider
<1>5. ASSUME NEW price \in Prices, Purchase(k, price) PROVE IInv'
  <2>1. /\ UNCHANGED <<row, jobs, now, mishaps>>
        /\ \/ Changes(k, "trialing", price, {"checkout", "changed"})
           \/ Changes(k, "active", price, {"checkout", "changed", "paid"})
    BY <1>5 DEF Purchase
  <2>2. CASE Changes(k, "trialing", price, {"checkout", "changed"})
    BY <1>1, <1>3, <2>1, <2>2, ChangesInv
  <2>3. CASE Changes(k, "active", price, {"checkout", "changed", "paid"})
    BY <1>1, <1>3, <2>1, <2>3, ChangesInv
  <2> QED BY <2>1, <2>2, <2>3
<1>6. ASSUME NEW price \in Prices, ChangePlan(k, price) PROVE IInv'
  BY <1>1, <1>2, <1>6, ChangesInv DEF ChangePlan
<1>7. CASE ChargeSucceeds(k)
  BY <1>1, <1>2, <1>3, <1>7, ChangesInv DEF ChargeSucceeds
<1>8. CASE ChargeFails(k)
  BY <1>1, <1>2, <1>3, <1>8, ChangesInv DEF ChargeFails
<1>9. CASE Ends(k)
  BY <1>1, <1>2, <1>3, <1>9, ChangesInv DEF Ends
<1> QED BY <1>4, <1>5, <1>6, <1>7, <1>8, <1>9

LEMMA CancelInv == ASSUME IInv, NEW h \in Handlers, Cancel(h) PROVE IInv'
<1> DEFINE k == local.sub
<1>1. k \in Subs /\ remote[k] \in Remote
  BY DEF Cancel, IInv, TypeOK, LocalOK, RowOK
<1>2. PICK status \in {remote[k].status, "cancelled"} :
        Changes(k, status, remote[k].price, {"changed"})
  BY DEF Cancel
<1>3. status \in Status /\ remote[k].price \in Plans
        /\ (status = "active" => remote[k].status = "active")
  BY <1>1, <1>2 DEF Remote, Status
<1>4. jobs' \in [Handlers -> Job]
        /\ \A i \in Handlers : jobs'[i] \in {jobs[i], [NoJob EXCEPT !.pc = "reason"]}
  BY NoJobOK DEF Cancel, IInv, TypeOK
<1> HIDE DEF k
<1> QED BY <1>1, <1>2, <1>3, <1>4, ChangesInv DEF Cancel

LEMMA TickInv == ASSUME IInv, Tick PROVE IInv'
<1>1. /\ now \in Nat /\ now' = now + 1 /\ failures \subseteq Nat
      /\ UNCHANGED <<provider, pending, row, jobs, mishaps>>
  BY DEF Tick, IInv, TypeOK
<1>2. UNCHANGED <<remote, revision, charges, failures, local, tenant, invoices, told>>
  BY <1>1 DEF provider, row
<1>3. TypeOK'
  BY <1>1, <1>2 DEF IInv, TypeOK
<1>4. now' \in Nat /\ now <= now'
  BY <1>1
<1>5. PendingOK'
  BY <1>1, <1>2, <1>4, EventGrows DEF IInv, PendingOK
<1>6. JobsOK'
  BY <1>1, <1>2, <1>4, JobGrows DEF IInv, JobsOK
<1> QED BY <1>2, <1>3, <1>5, <1>6 DEF IInv, LocalOK, RemoteOK

LEMMA DropInv ==
  ASSUME IInv, NEW e \in pending, Ignore(e) \/ Lose(e) PROVE IInv'
<1>1. /\ UNCHANGED <<provider, row, jobs, now>> /\ pending' \subseteq pending
      /\ mishaps' \in Nat
  BY DEF Ignore, Lose, IInv, TypeOK
<1>2. UNCHANGED <<remote, revision, charges, failures, local, tenant, invoices, told>>
  BY <1>1 DEF provider, row
<1>3. TypeOK'
  BY <1>1, <1>2 DEF IInv, TypeOK
<1> QED BY <1>1, <1>2, <1>3 DEF IInv, LocalOK, PendingOK, JobsOK, RemoteOK

LEMMA InvStep == IInv /\ [Next]_vars => IInv'
<1> SUFFICES ASSUME IInv, [Next]_vars PROVE IInv'
  OBVIOUS
<1>1. ASSUME NEW e \in pending, Ignore(e) \/ Lose(e) \/ \E h \in Handlers : Load(h, e)
      PROVE  IInv'
  BY <1>1, DropInv, LoadInv
<1>2. ASSUME NEW h \in Handlers, Handle(h) PROVE IInv'
  BY <1>2, CheckoutInv, ChangedInv, PaidInv, FailedInv, KeepInv DEF Handle
<1>3. ASSUME NEW h \in Handlers, Reconcile(h) PROVE IInv'
  BY <1>3, ReconcileLoadInv, FetchInv, RepairInv DEF Reconcile
<1>4. ASSUME NEW h \in Handlers, Cancel(h) \/ CancelReason(h) \/ Crash(h) PROVE IInv'
  BY <1>4, CancelInv, ReasonInv, KeepInv
<1>5. CASE UNCHANGED vars
  <2>1. UNCHANGED <<remote, revision, charges, failures, pending, local, tenant, invoices,
                    told, jobs, now, mishaps>>
    BY <1>5 DEF vars, provider, row
  <2> QED BY <2>1 DEF IInv, TypeOK, LocalOK, PendingOK, JobsOK, RemoteOK
<1> QED BY <1>1, <1>2, <1>3, <1>4, <1>5, ProviderInv, TickInv DEF Next

LEMMA IInvHolds == Spec => []IInv
  BY InvInit, InvStep, PTL DEF Spec

(* Whatever is saved names a subscription: an event does, and a copy of the row
   was read either from a bound row or for a checkout. *)
LEMMA LinkStep == IInv /\ [Next]_vars => LinkKept
<1> SUFFICES ASSUME IInv, [Next]_vars, local.sub # 0 PROVE local'.sub # 0
  BY DEF LinkKept
<1>1. CASE local' = local
  BY <1>1
<1>2. 0 \notin Subs
  BY DEF Subs
<1>3. ASSUME NEW h \in Handlers PROVE
        /\ jobs[h].row \in Subscription /\ local \in Subscription
        /\ jobs[h].pc \in {"save", "repair"} => jobs[h].event.sub # 0
        /\ jobs[h].pc = "save" /\ jobs[h].event.type # "checkout" => jobs[h].row.sub # 0
        /\ jobs[h].pc = "repair" => jobs[h].row.sub # 0
  BY <1>2, HeldOK DEF IInv, JobsOK, JobOK, EventOK
<1>4. ASSUME NEW h \in Handlers, CheckoutCompleted(h) PROVE local'.sub # 0
  BY <1>3, <1>4 DEF CheckoutCompleted, Saves, Subscription
<1>5. ASSUME NEW h \in Handlers, SubscriptionChanged(h) PROVE local'.sub # 0
  BY <1>3, <1>5 DEF SubscriptionChanged, Saves, Subscription
<1>6. ASSUME NEW h \in Handlers, InvoicePaid(h) \/ PaymentFailed(h) PROVE local'.sub # 0
  BY <1>3, <1>6 DEF InvoicePaid, PaymentFailed, Saves, Subscription
<1>7. ASSUME NEW h \in Handlers, Repair(h) PROVE local'.sub # 0
  BY <1>3, <1>7 DEF Repair, Subscription
<1>8. ASSUME NEW h \in Handlers, CancelReason(h) PROVE local'.sub # 0
  BY <1>3, <1>8 DEF CancelReason, Subscription
<1>9. CASE Provider \/ Tick \/ UNCHANGED vars
  BY <1>1, <1>9 DEF Provider, Purchase, ChangePlan, ChargeSucceeds, ChargeFails, Ends, Tick,
                    vars, row
<1>10. ASSUME NEW e \in pending, Ignore(e) \/ Lose(e) \/ \E h \in Handlers : Load(h, e)
       PROVE  local' = local
  BY <1>10 DEF Ignore, Lose, Load, row
<1>11. ASSUME NEW h \in Handlers,
              Invalidate(h) \/ Settle(h) \/ ReconcileLoad(h) \/ ReconcileFetch(h)
                \/ Cancel(h) \/ Crash(h)
       PROVE  local' = local
  BY <1>11 DEF Invalidate, Settle, ReconcileLoad, ReconcileFetch, Cancel, Crash, row
<1> QED BY <1>1, <1>4, <1>5, <1>6, <1>7, <1>8, <1>9, <1>10, <1>11
        DEF Next, Handle, Reconcile
-----------------------------------------------------------------------------
(* Every reachable state is well typed. *)
THEOREM TypeCorrect == Spec => []TypeOK
<1>1. IInv => TypeOK
  BY DEF IInv
<1> QED BY <1>1, IInvHolds, PTL

(* No tenant is active before an invoice of it was paid, although every save
   writes back a copy read earlier (SubscriptionLifecycleService). *)
THEOREM UnpaidIsInactive == Spec => []NoUnpaidActivation
<1>1. IInv => NoUnpaidActivation
  BY DEF IInv, LocalOK, RowOK, NoUnpaidActivation
<1> QED BY <1>1, IInvHolds, PTL

(* No overlap or order of handlers puts a deadline earlier than GRACE_DAYS after
   a charge that failed (applyPaymentFailed). *)
THEOREM LockoutIsNotEarly == Spec => []NoEarlyLockout
<1>1. IInv => NoEarlyLockout
  BY DEF IInv, LocalOK, RowOK, NoEarlyLockout
<1> QED BY <1>1, IInvHolds, PTL

(* A row bound to the provider stays bound, whichever stale copy is saved over it
   (findSubscription, save). *)
THEOREM LinkIsKept == Spec => LinkIsPermanent
<1>1. IInv /\ [Next]_vars => [local.sub # 0 => local'.sub # 0]_vars
  BY LinkStep DEF LinkKept
<1> QED BY <1>1, IInvHolds, PTL DEF Spec, LinkIsPermanent
-----------------------------------------------------------------------------
(* What further holds while at most one job runs: what it read is the row still,
   and while nothing is refused and nobody dies, a plan nobody was told of is
   about to be told. *)
OneHandler == \A h, i \in Handlers : h = i

ReadIsCurrent == \A h \in Handlers : jobs[h].pc \in {"save", "fetch", "repair"} => jobs[h].row = local

SerialInv == IInv /\ ReadIsCurrent /\ PlanAnnounced

GraceKept == local.grace # 0 /\ local'.grace # 0 => local'.grace = local.grace

LEMMA SerialInit == Init => SerialInv
<1>1. Init => ReadIsCurrent /\ PlanAnnounced
  BY NoJobOK DEF Init, ReadIsCurrent, PlanAnnounced, NoJob, Provisioned
<1> QED BY <1>1, InvInit DEF SerialInv

(* A step of the job that leaves it nothing it read, and the row as it says. *)
LEMMA SerialWrite ==
  ASSUME OneHandler, SerialInv, IInv', NEW h \in Handlers, jobs'[h].pc \notin {"save", "fetch", "repair"},
         mishaps' = 0 => mishaps = 0,
         mishaps' = 0 /\ jobs'[h].pc # "invalidate" /\ (told = local.price \/ jobs[h].pc = "invalidate")
            => told' = local'.price
  PROVE  SerialInv'
<1>1. \A i \in Handlers : i = h
  BY DEF OneHandler
<1>2. ReadIsCurrent'
  BY <1>1 DEF ReadIsCurrent
<1>3. PlanAnnounced'
  <2> SUFFICES ASSUME mishaps' = 0, told' # local'.price PROVE jobs'[h].pc = "invalidate"
    BY DEF PlanAnnounced
  <2> QED BY <1>1 DEF SerialInv, PlanAnnounced
<1> QED BY <1>2, <1>3 DEF SerialInv

LEMMA SerialStep == ASSUME OneHandler, SerialInv, [Next]_vars PROVE SerialInv' /\ GraceKept
<1>i. IInv'
  BY InvStep DEF SerialInv
<1>o. \A h, i \in Handlers : h = i
  BY DEF OneHandler
<1>h. ASSUME NEW h \in Handlers PROVE
        /\ jobs \in [Handlers -> Job] /\ jobs[h] \in Job
        /\ jobs[h].row \in Subscription /\ jobs[h].event \in Event /\ local \in Subscription
        /\ jobs[h].pc \in {"save", "fetch", "repair"} => jobs[h].row = local
        /\ mishaps \in Nat
  BY HeldOK DEF SerialInv, ReadIsCurrent, IInv, TypeOK
<1>g. ASSUME NEW h \in Handlers, NEW pc, Goto(h, pc) PROVE jobs'[h].pc = pc
  BY <1>h, <1>g DEF Goto, Job
<1>d. ASSUME NEW h \in Handlers, Done(h) PROVE jobs'[h].pc = "idle"
  BY <1>h, <1>d, NoJobOK DEF Done, NoJob
<1>1. ASSUME UNCHANGED <<local, told, jobs, mishaps>> PROVE SerialInv' /\ GraceKept
  BY <1>1, <1>i DEF SerialInv, ReadIsCurrent, PlanAnnounced, GraceKept
<1>2. ASSUME NEW h \in Handlers, CheckoutCompleted(h) PROVE SerialInv' /\ GraceKept
  <2>1. jobs'[h].pc = "settle" /\ UNCHANGED <<told, mishaps>> /\ jobs[h].pc = "save"
    BY <1>2, <1>g DEF CheckoutCompleted, Saves
  <2>2. local'.price = local.price /\ local'.grace = local.grace
    BY <1>2, <1>h, <2>1 DEF CheckoutCompleted, Subscription
  <2> QED BY <1>i, <2>1, <2>2, SerialWrite DEF GraceKept
<1>3. ASSUME NEW h \in Handlers, SubscriptionChanged(h) PROVE SerialInv' /\ GraceKept
  <2> DEFINE e == jobs[h].event
  <2>1. jobs'[h].pc = (IF local.price # e.price THEN "invalidate" ELSE "settle")
          /\ UNCHANGED <<told, mishaps>> /\ jobs[h].pc = "save"
    BY <1>3, <1>g, <1>h DEF SubscriptionChanged, Saves
  <2>2. local'.price = e.price /\ local'.grace \in {0, local.grace}
    BY <1>3, <1>h, <2>1 DEF SubscriptionChanged, Subscription
  <2> QED BY <1>i, <2>1, <2>2, SerialWrite DEF GraceKept
<1>4. ASSUME NEW h \in Handlers, InvoicePaid(h) PROVE SerialInv' /\ GraceKept
  <2>1. jobs'[h].pc = "settle" /\ UNCHANGED <<told, mishaps>> /\ jobs[h].pc = "save"
    BY <1>4, <1>g DEF InvoicePaid, Saves
  <2>2. local'.price = local.price /\ local'.grace = 0
    BY <1>4, <1>h, <2>1 DEF InvoicePaid, Subscription
  <2> QED BY <1>i, <2>1, <2>2, SerialWrite DEF GraceKept
<1>5. ASSUME NEW h \in Handlers, PaymentFailed(h) PROVE SerialInv' /\ GraceKept
  <2>1. jobs'[h].pc = "settle" /\ UNCHANGED <<told, mishaps>> /\ jobs[h].pc = "save"
    BY <1>5, <1>g DEF PaymentFailed, Saves
  <2>2. local'.price = local.price /\ (local.grace # 0 => local'.grace = local.grace)
    BY <1>5, <1>h, <2>1 DEF PaymentFailed, Subscription
  <2> QED BY <1>i, <2>1, <2>2, SerialWrite DEF GraceKept
<1>6. ASSUME NEW h \in Handlers, Repair(h) PROVE SerialInv' /\ GraceKept
  <2> DEFINE e == jobs[h].event
  <2>1. jobs'[h].pc = (IF local.price # e.price THEN "invalidate" ELSE "idle")
          /\ UNCHANGED <<told, mishaps>> /\ jobs[h].pc = "repair" /\ jobs[h].row = local
    BY <1>6, <1>g, <1>d, <1>h DEF Repair
  <2>2. local' \in {local, [local EXCEPT !.status = e.status, !.price = e.price]}
          /\ (local' = local => local.price = e.price \/ local' = [local EXCEPT !.status = e.status, !.price = e.price])
    BY <1>6, <2>1 DEF Repair
  <2>3. local'.price = e.price /\ local'.grace = local.grace
    BY <1>h, <2>2 DEF Subscription
  <2> QED BY <1>i, <2>1, <2>3, SerialWrite DEF GraceKept
<1>7. ASSUME NEW h \in Handlers, CancelReason(h) \/ Settle(h) \/ Crash(h) \/ Cancel(h)
      PROVE  SerialInv' /\ GraceKept
  <2>1. jobs[h].pc # "invalidate" \/ mishaps' # 0
    BY <1>7, <1>d, <1>h, NoJobOK DEF CancelReason, Settle, Crash, Cancel, NoJob
  <2>2. jobs'[h].pc \in {"idle", "reason"}
    BY <1>7, <1>d, <1>h, NoJobOK DEF CancelReason, Settle, Crash, Cancel, NoJob
  <2>3. local'.price = local.price /\ local'.grace = local.grace /\ told' = told
    BY <1>7, <1>h DEF CancelReason, Settle, Crash, Cancel, row, Subscription
  <2>4. mishaps' = 0 => mishaps = 0
    BY <1>7, <1>h DEF CancelReason, Settle, Crash, Cancel
  <2> QED BY <1>i, <2>1, <2>2, <2>3, <2>4, SerialWrite DEF GraceKept
<1>8. ASSUME NEW h \in Handlers, Invalidate(h) PROVE SerialInv' /\ GraceKept
  <2>1. jobs'[h].pc = "settle" /\ local' = local /\ (mishaps' = 0 => told' = local.price /\ mishaps = 0)
    BY <1>8, <1>g, <1>h DEF Invalidate
  <2> QED BY <1>i, <2>1, SerialWrite DEF GraceKept
<1>9. ASSUME NEW h \in Handlers,
             ReconcileLoad(h) \/ ReconcileFetch(h) \/ \E e \in pending : Load(h, e)
      PROVE  SerialInv' /\ GraceKept
  <2>1. UNCHANGED <<local, told, mishaps>>
    BY <1>9 DEF ReconcileLoad, ReconcileFetch, Load, row
  <2>2. jobs[h].pc # "invalidate" /\ jobs'[h].pc \in {"save", "fetch", "repair"}
          /\ jobs'[h].row = local
    <3>1. CASE ReconcileLoad(h)
      BY <3>1, <1>h DEF ReconcileLoad, NoJob
    <3>2. CASE ReconcileFetch(h)
      <4>1. jobs[h].pc = "fetch" /\ jobs[h].row = local
        BY <3>2, <1>h DEF ReconcileFetch
      <4>2. jobs'[h].pc = "repair" /\ jobs'[h].row = jobs[h].row
        BY <3>2, <1>h DEF ReconcileFetch, Job
      <4> QED BY <4>1, <4>2
    <3>3. CASE \E e \in pending : Load(h, e)
      BY <3>3, <1>h DEF Load
    <3> QED BY <1>9, <3>1, <3>2, <3>3
  <2>3. ReadIsCurrent'
    BY <1>o, <2>1, <2>2 DEF ReadIsCurrent
  <2>4. PlanAnnounced'
    BY <1>o, <2>1, <2>2 DEF SerialInv, PlanAnnounced
  <2> QED BY <1>i, <2>1, <2>3, <2>4 DEF SerialInv, GraceKept
<1>10. ASSUME NEW e \in pending, Ignore(e) \/ Lose(e) PROVE SerialInv' /\ GraceKept
  <2>1. UNCHANGED <<local, told, jobs>> /\ (mishaps' = 0 => mishaps = 0)
    BY <1>10 DEF Ignore, Lose, row, SerialInv, IInv, TypeOK
  <2> QED BY <1>i, <2>1 DEF SerialInv, ReadIsCurrent, PlanAnnounced, GraceKept
<1>11. CASE Provider \/ Tick \/ UNCHANGED vars
  BY <1>1, <1>11 DEF Provider, Purchase, ChangePlan, ChargeSucceeds, ChargeFails, Ends, Tick,
                     vars, row
<1> QED BY <1>2, <1>3, <1>4, <1>5, <1>6, <1>7, <1>8, <1>9, <1>10, <1>11
        DEF Next, Handle, Reconcile

LEMMA SerialInvHolds == ASSUME OneHandler PROVE Spec => []SerialInv
<1>1. SerialInv /\ [Next]_vars => SerialInv'
  BY SerialStep
<1> QED BY SerialInit, <1>1, PTL DEF Spec

(* With one job at a time, and while nothing is refused and nobody dies, a plan
   the stores were not told of is about to be told (PlanChangeInvalidatorService). *)
THEOREM PlanIsAnnounced == ASSUME OneHandler PROVE Spec => []PlanAnnounced
<1>1. SerialInv => PlanAnnounced
  BY DEF SerialInv
<1> QED BY <1>1, SerialInvHolds, PTL

(* With one job at a time, no later failure and no snapshot moves the deadline of
   a lapse (applyPaymentFailed, applySubscriptionChanged). *)
THEOREM GraceIsNotExtended == ASSUME OneHandler PROVE Spec => GraceNotExtended
<1>1. SerialInv /\ [Next]_vars
        => [local.grace # 0 /\ local'.grace # 0 => local'.grace = local.grace]_vars
  BY SerialStep DEF GraceKept
<1> QED BY <1>1, SerialInvHolds, PTL DEF Spec, GraceNotExtended
=============================================================================
