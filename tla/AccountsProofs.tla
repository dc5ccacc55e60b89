---------------------------- MODULE AccountsProofs ----------------------------
(* Theorems about what MCAccounts composes: a user's sessions and
   what the tabs of a browser hold of them, for every number of tabs, of tokens and
   of failures; the workspace, for every number of
   requests at once, people, option sets and limits, and whichever requests die
   on the way; and the Design Lab, for every number of layers, acts, openings and
   steps of history.  AuthoringProofs goes on with the drafts. *)
EXTENDS MCAccounts, ListProofs

everything == <<vars, workspace, authoring, lab, part>>

(* Sessions.  A token of refresh_tokens, what a job may know, what a tab holds. *)
Token == [family : Nat, rotated : BOOLEAN, revoked : Reasons, given : BOOLEAN, expires : Nat]
JobPlaces == {"none", "login", "refresh", "claim", "reuse", "insert", "recheck", "logout",
           "invalidate", "granted", "rejected", "dead"}
Working == {"refresh", "claim", "reuse", "insert", "recheck", "logout"}

Turns == {"idle", "exchanging", "refresh", "waiting", "free", "retry"}

RowsOK == rows \in Seq(Token) /\ \A t \in Tokens : rows[t].family \in 1 .. t

JobOK(j, table) ==
    /\ j \in [pc : JobPlaces, token : 0 .. Len(table), next : 0 .. Len(table), access : Nat]
    /\ j.pc \in Working => j.token # None
    /\ j.pc = "recheck" => j.next # None /\ table[j.next].family = table[j.token].family
    /\ j.pc = "granted" => j.next # None

JobsOK == jobs = [tab \in Tabs |-> jobs[tab]] /\ \A tab \in Tabs : JobOK(jobs[tab], rows)

BrowserOK ==
    /\ stored \in 0 .. Len(rows)
    /\ tabs \in [Tabs -> [pc : Turns, access : Nat, token : 0 .. Len(rows)]]
    /\ \A tab \in Tabs : At(tab, "free") => tabs[tab].token # None

(* A rotation past its claim has left nothing of its session to exchange, and no
   other rotation of the session is past its own. *)
InsertsAlone ==
    \A a \in Tabs : Job(a, "insert") =>
        /\ \A t \in FamilyOf(jobs[a].token) : ~Live(t)
        /\ \A b \in Tabs : Job(b, "insert") /\ rows[jobs[b].token].family = rows[jobs[a].token].family
                             => a = b

ChainInv ==
    /\ RowsOK /\ now \in Nat /\ JobsOK /\ BrowserOK
    /\ OneSuccessor /\ InsertsAlone /\ ReuseEndsSession

(* What every step leaves. *)
ChainKept ==
    /\ ChainInv'
    /\ \A t \in Tokens : Over(rows[t].family) => Over(rows[t].family)'
    /\ \A tab \in Tabs : Sweeps(tab)

RowsGrow ==
    /\ Len(rows) <= Len(rows')
    /\ \A t \in Tokens : rows'[t].family = rows[t].family
                         /\ (rows[t].revoked # "none" => rows'[t].revoked # "none")

(* A step that claims nothing: a job at its insert is where it was. *)
ClaimsNothing == \A q \in Tabs : jobs'[q].pc = "insert" => jobs'[q] = jobs[q]

LEMMA RowFacts ==
  ASSUME RowsOK
  PROVE  /\ Len(rows) \in Nat /\ Tokens = 1 .. Len(rows)
         /\ \A t \in Tokens : rows[t] \in Token /\ rows[t].family \in 1 .. t
  BY DEF RowsOK, Tokens

LEMMA JobStays ==
  ASSUME RowsOK, RowsOK', RowsGrow, NEW j, JobOK(j, rows)
  PROVE  JobOK(j, rows')
<1>1. j.token # None => rows'[j.token].family = rows[j.token].family
  BY RowFacts DEF JobOK, RowsGrow, None
<1>2. j.next # None => rows'[j.next].family = rows[j.next].family
  BY RowFacts DEF JobOK, RowsGrow, None
<1>3. j \in [pc : JobPlaces, token : 0 .. Len(rows'), next : 0 .. Len(rows'), access : Nat]
  BY RowFacts DEF JobOK, RowsGrow, RowsOK
<1> QED BY <1>1, <1>2, <1>3 DEF JobOK, Working

LEMMA OneJob ==
  ASSUME RowsOK, RowsOK', RowsGrow, JobsOK, NEW tab \in Tabs, NEW j, JobOK(j, rows'),
         jobs' = [jobs EXCEPT ![tab] = j]
  PROVE  JobsOK' /\ \A q \in Tabs : jobs'[q] = IF q = tab THEN j ELSE jobs[q]
<1>1. \A q \in Tabs : jobs'[q] = IF q = tab THEN j ELSE jobs[q]
  BY DEF JobsOK
<1>2. \A q \in Tabs : JobOK(jobs[q], rows')
  BY JobStays DEF JobsOK
<1>3. \A q \in Tabs : JobOK(jobs'[q], rows')
  BY <1>1, <1>2
<1>4. jobs' = [q \in Tabs |-> jobs'[q]]
  BY DEF JobsOK
<1> QED BY <1>1, <1>3, <1>4 DEF JobsOK

LEMMA JobsStay ==
  ASSUME RowsOK, RowsOK', RowsGrow, JobsOK, jobs' = jobs
  PROVE  JobsOK'
<1>1. \A q \in Tabs : JobOK(jobs[q], rows')
  BY JobStays DEF JobsOK
<1> QED BY <1>1 DEF JobsOK

LEMMA BrowserStays ==
  ASSUME RowsOK, RowsOK', RowsGrow, BrowserOK, UNCHANGED browser
  PROVE  BrowserOK'
  BY RowFacts DEF BrowserOK, browser, RowsGrow, RowsOK, At

(* Rows as they were. *)
LEMMA Calm ==
  ASSUME ChainInv, UNCHANGED rows, JobsOK', BrowserOK', now' \in Nat, ClaimsNothing,
         \A tab \in Tabs : Sweeps(tab)
  PROVE  ChainKept
<1>1. RowsOK' /\ OneSuccessor' /\ ReuseEndsSession'
  BY DEF ChainInv, RowsOK, OneSuccessor, ReuseEndsSession, Tokens, Live
<1>2. InsertsAlone'
  BY DEF ChainInv, InsertsAlone, ClaimsNothing, Job, FamilyOf, Tokens, Live
<1>3. \A t \in Tokens : Over(rows[t].family) => Over(rows[t].family)'
  BY DEF Over, ClaimsNothing, Job, Tokens
<1> QED BY <1>1, <1>2, <1>3 DEF ChainInv, ChainKept

(* A sweep of whole sessions. *)
LEMMA SweptRows ==
  ASSUME RowsOK, NEW tokens, NEW reason \in Reasons \ {"none"}, Revoked(tokens, reason)
  PROVE  /\ RowsOK' /\ RowsGrow /\ Tokens' = Tokens
         /\ \A t \in Tokens : rows'[t] = IF t \in tokens /\ rows[t].revoked = "none"
                                         THEN [rows[t] EXCEPT !.revoked = reason] ELSE rows[t]
<1>1. \A t \in Tokens : rows'[t] = IF t \in tokens /\ rows[t].revoked = "none"
                                   THEN [rows[t] EXCEPT !.revoked = reason] ELSE rows[t]
  BY DEF Revoked
<1>2. \A t \in Tokens : rows'[t] \in Token /\ rows'[t].family = rows[t].family
  BY <1>1, RowFacts DEF Token
<1>3. rows' \in Seq(Token) /\ Len(rows') = Len(rows)
  <2>1. Tokens = 1 .. Len(rows) /\ Len(rows) \in Nat
    BY RowFacts
  <2>2. rows' = [t \in Tokens |-> rows'[t]]
    BY DEF Revoked
  <2>3. rows' \in [Tokens -> Token]
    BY <1>2, <2>2
  <2> QED BY <2>1, <2>3
<1>4. RowsOK'
  <2>1. DOMAIN rows' = Tokens /\ \A t \in Tokens : rows'[t].family \in 1 .. t
    BY <1>2, RowFacts DEF Revoked
  <2> QED BY <1>3, <2>1 DEF RowsOK, Tokens
<1>5. RowsGrow
  <2>1. \A t \in Tokens : rows[t].revoked # "none" => rows'[t] = rows[t]
    BY <1>1
  <2>2. Len(rows) <= Len(rows')
    BY <1>3, RowFacts
  <2> QED BY <1>2, <2>1, <2>2 DEF RowsGrow
<1>6. Tokens' = Tokens
  BY DEF Revoked, Tokens
<1> QED BY <1>1, <1>4, <1>5, <1>6

LEMMA Swept ==
  ASSUME ChainInv, NEW tokens \in SUBSET Tokens, NEW reason \in Reasons \ {"none"},
         Revoked(tokens, reason), \A t \in tokens : FamilyOf(t) \subseteq tokens,
         JobsOK', BrowserOK', now' \in Nat, ClaimsNothing, \A tab \in Tabs : Sweeps(tab)
  PROVE  ChainKept
<1>0. RowsOK
  BY DEF ChainInv
<1>1. /\ RowsOK' /\ RowsGrow /\ Tokens' = Tokens
      /\ \A t \in Tokens : rows'[t] = IF t \in tokens /\ rows[t].revoked = "none"
                                      THEN [rows[t] EXCEPT !.revoked = reason] ELSE rows[t]
  BY <1>0, SweptRows
<1>2. \A t \in Tokens : /\ rows'[t].family = rows[t].family /\ rows'[t].rotated = rows[t].rotated
                        /\ rows'[t].given = rows[t].given
                        /\ rows'[t].revoked = (IF t \in tokens /\ rows[t].revoked = "none" THEN reason
                                               ELSE rows[t].revoked)
  BY <1>0, <1>1, RowFacts DEF Token
<1>3. \A t \in Tokens : Live(t)' => Live(t)
  BY <1>1, <1>2 DEF Live
<1>4. OneSuccessor'
  BY <1>1, <1>2, <1>3 DEF ChainInv, OneSuccessor
<1>5. ReuseEndsSession'
  <2> SUFFICES \A t, u \in Tokens :
                 rows[t].family = rows[u].family /\ rows'[t].revoked = "reuse_detected" /\ rows[u].given
                   => rows'[u].revoked # "none"
    BY <1>1, <1>2 DEF ReuseEndsSession
  <2> TAKE t, u \in Tokens
  <2> HAVE rows[t].family = rows[u].family /\ rows'[t].revoked = "reuse_detected" /\ rows[u].given
  <2>1. CASE rows[t].revoked = "reuse_detected"
    BY <1>2, <2>1 DEF ChainInv, ReuseEndsSession
  <2>2. CASE t \in tokens
    <3>1. u \in tokens
      BY <2>2 DEF FamilyOf
    <3> QED BY <1>2, <3>1
  <2> QED BY <1>2, <2>1, <2>2
<1>6. \A q \in Tabs : jobs'[q].pc = "insert" =>
         jobs[q].token \in Tokens /\ jobs'[q] = jobs[q]
  <2> SUFFICES ASSUME NEW q \in Tabs, jobs'[q].pc = "insert"
               PROVE  jobs[q].token \in Tokens /\ jobs'[q] = jobs[q]
    OBVIOUS
  <2>1. jobs'[q] = jobs[q] /\ JobOK(jobs[q], rows)
    BY DEF ChainInv, JobsOK, ClaimsNothing
  <2>2. jobs[q].token \in 1 .. Len(rows) /\ Len(rows) \in Nat
    <3>1. jobs[q].token \in 0 .. Len(rows) /\ jobs[q].token # 0
      BY <2>1 DEF JobOK, Working, None
    <3> QED BY <1>0, <3>1, RowFacts
  <2> QED BY <1>0, <2>1, <2>2, RowFacts
<1>7. InsertsAlone'
  <2> SUFFICES ASSUME NEW a \in Tabs, jobs'[a].pc = "insert"
               PROVE  /\ \A t \in Tokens : rows'[t].family = rows'[jobs'[a].token].family => ~Live(t)'
                      /\ \A b \in Tabs : jobs'[b].pc = "insert"
                           /\ rows'[jobs'[b].token].family = rows'[jobs'[a].token].family => a = b
    BY <1>1 DEF InsertsAlone, Job, FamilyOf
  <2>1. /\ jobs[a].token \in Tokens /\ jobs'[a] = jobs[a]
        /\ \A t \in Tokens : rows[t].family = rows[jobs[a].token].family => ~Live(t)
    BY <1>6 DEF ChainInv, InsertsAlone, Job, FamilyOf
  <2>2. \A b \in Tabs : jobs[b].pc = "insert"
           /\ rows[jobs[b].token].family = rows[jobs[a].token].family => a = b
    BY <2>1 DEF ChainInv, InsertsAlone, Job
  <2> QED BY <1>2, <1>3, <1>6, <2>1, <2>2
<1>8. \A t \in Tokens : Over(rows[t].family) => Over(rows[t].family)'
  <2> SUFFICES ASSUME NEW t \in Tokens, Over(rows[t].family)
               PROVE  /\ \A u \in Tokens : rows'[u].family = rows'[t].family => rows'[u].revoked # "none"
                      /\ \A q \in Tabs : jobs'[q].pc = "insert"
                           => rows'[jobs'[q].token].family # rows'[t].family
    BY <1>1 DEF Over, Job
  <2>1. \A u \in Tokens : rows[u].family = rows[t].family => rows[u].revoked # "none"
    BY DEF Over
  <2>2. \A q \in Tabs : jobs[q].pc = "insert" => rows[jobs[q].token].family # rows[t].family
    BY DEF Over, Job
  <2> QED BY <1>2, <1>6, <2>1, <2>2
<1> QED BY <1>1, <1>4, <1>5, <1>7, <1>8 DEF ChainInv, ChainKept

(* Rows as they were, and one job that goes somewhere that claims nothing. *)
LEMMA CalmStep ==
  ASSUME ChainInv, UNCHANGED rows, NEW tab \in Tabs, NEW j, JobOK(j, rows), j.pc # "insert",
         jobs[tab].pc = "logout" => j.pc # "invalidate",
         jobs' = [jobs EXCEPT ![tab] = j], BrowserOK', now' \in Nat
  PROVE  ChainKept
<1>1. RowsOK /\ RowsOK' /\ RowsGrow /\ JobOK(j, rows')
  BY RowFacts DEF ChainInv, RowsOK, RowsGrow, Tokens
<1>2. JobsOK' /\ \A q \in Tabs : jobs'[q] = IF q = tab THEN j ELSE jobs[q]
  BY <1>1, OneJob DEF ChainInv
<1>3. ClaimsNothing /\ \A q \in Tabs : Sweeps(q)
  BY <1>2 DEF ClaimsNothing, Sweeps, Job
<1> QED BY <1>2, <1>3, Calm

LEMMA StillStep ==
  ASSUME ChainInv, UNCHANGED <<rows, jobs>>, BrowserOK', now' \in Nat
  PROVE  ChainKept
<1>1. RowsOK /\ RowsOK' /\ RowsGrow
  BY RowFacts DEF ChainInv, RowsOK, RowsGrow, Tokens
<1>2. JobsOK' /\ ClaimsNothing /\ \A q \in Tabs : Sweeps(q)
  BY <1>1, JobsStay DEF ChainInv, ClaimsNothing, Sweeps, Job
<1> QED BY <1>2, Calm

(* Where a job may go by itself. *)
LEMMA Answers ==
  ASSUME ChainInv
  PROVE  /\ JobOK(NoJob, rows) /\ NoJob.pc = "none"
         /\ \A pc \in {"rejected", "dead", "none", "login"} :
               JobOK([NoJob EXCEPT !.pc = pc], rows) /\ [NoJob EXCEPT !.pc = pc].pc = pc
         /\ \A t \in Tokens, pc \in {"refresh", "logout"} :
               JobOK([pc |-> pc, token |-> t, next |-> None, access |-> None], rows)
<1>1. Len(rows) \in Nat /\ Tokens = 1 .. Len(rows)
  BY RowFacts DEF ChainInv
<1>2. NoJob = [pc |-> "none", token |-> 0, next |-> 0, access |-> 0]
  BY DEF NoJob, None
<1>3. JobOK(NoJob, rows) /\ NoJob.pc = "none"
  BY <1>1, <1>2 DEF JobPlaces, JobOK, None, Working
<1>4. ASSUME NEW pc \in {"rejected", "dead", "none", "login"}
      PROVE  JobOK([NoJob EXCEPT !.pc = pc], rows) /\ [NoJob EXCEPT !.pc = pc].pc = pc
  <2>1. [NoJob EXCEPT !.pc = pc] = [pc |-> pc, token |-> 0, next |-> 0, access |-> 0]
    BY <1>2
  <2> QED BY <1>1, <2>1 DEF JobPlaces, JobOK, None, Working
<1>5. ASSUME NEW t \in Tokens, NEW pc \in {"refresh", "logout"}
      PROVE  JobOK([pc |-> pc, token |-> t, next |-> None, access |-> None], rows)
  <2>1. t \in 0 .. Len(rows) /\ t # 0 /\ 0 \in 0 .. Len(rows)
    BY <1>1
  <2> QED BY <2>1 DEF JobPlaces, JobOK, None
<1> QED BY <1>3, <1>4, <1>5

LEMMA GoesOn ==
  ASSUME ChainInv, NEW tab \in Tabs, jobs[tab].pc \in Working,
         NEW pc \in {"claim", "reuse", "invalidate", "insert"}
  PROVE  JobOK([jobs[tab] EXCEPT !.pc = pc], rows) /\ [jobs[tab] EXCEPT !.pc = pc].pc = pc
<1>1. JobOK(jobs[tab], rows)
  BY DEF ChainInv, JobsOK
<1> DEFINE k == jobs[tab]
<1>2. k \in [pc : JobPlaces, token : 0 .. Len(rows), next : 0 .. Len(rows), access : Nat] /\ k.token # None
  BY <1>1 DEF JobPlaces, JobOK
<1>3. [k EXCEPT !.pc = pc] = [pc |-> pc, token |-> k.token, next |-> k.next, access |-> k.access]
  BY <1>2
<1> HIDE DEF k
<1>4. JobOK([k EXCEPT !.pc = pc], rows) /\ [k EXCEPT !.pc = pc].pc = pc
  BY <1>2, <1>3 DEF JobPlaces, JobOK
<1> QED BY <1>4 DEF k

LEMMA FinishedCalmly ==
  ASSUME ChainInv, UNCHANGED rows, NEW tab \in Tabs, NEW pc \in {"rejected", "dead", "none"},
         Finished(tab, pc), BrowserOK', now' \in Nat
  PROVE  ChainKept
<1>1. PICK j : /\ jobs' = [jobs EXCEPT ![tab] = j] /\ JobOK(j, rows)
               /\ j.pc \in {"rejected", "dead", "none"}
  BY Answers DEF Finished
<1> QED BY <1>1, CalmStep

LEMMA GoesOnCalmly ==
  ASSUME ChainInv, UNCHANGED rows, NEW tab \in Tabs, jobs[tab].pc \in {"refresh", "claim", "recheck"},
         NEW pc \in {"claim", "reuse"}, Goto(tab, pc), BrowserOK', now' \in Nat
  PROVE  ChainKept
<1> DEFINE j == [jobs[tab] EXCEPT !.pc = pc]
<1>1. JobOK(j, rows) /\ j.pc = pc
  BY GoesOn DEF Working
<1>2. jobs' = [jobs EXCEPT ![tab] = j]
  BY DEF Goto
<1> HIDE DEF j
<1> QED BY <1>1, <1>2, CalmStep

LEMMA BrowserCalm ==
  ASSUME ChainInv, UNCHANGED <<rows, browser>>
  PROVE  BrowserOK'
  BY DEF ChainInv, BrowserOK, browser, At

LEMMA FindKept == ASSUME ChainInv, NEW tab \in Tabs, RotateFind(tab) PROVE ChainKept
<1>1. UNCHANGED rows /\ now' \in Nat /\ BrowserOK' /\ jobs[tab].pc = "refresh"
  BY BrowserCalm DEF RotateFind, ServerStep, Job, ChainInv
<1>2. Finished(tab, "rejected") \/ Goto(tab, "claim")
  BY DEF RotateFind
<1> QED BY <1>1, <1>2, FinishedCalmly, GoesOnCalmly

LEMMA InvalidatesKept == ASSUME ChainInv, NEW tab \in Tabs, LogoutInvalidates(tab) PROVE ChainKept
<1>1. UNCHANGED <<rows, browser, now>> /\ Finished(tab, "rejected")
  BY DEF LogoutInvalidates
<1> QED BY <1>1, BrowserCalm, FinishedCalmly DEF ChainInv

LEMMA DiesKept == ASSUME ChainInv, NEW tab \in Tabs, JobDies(tab) PROVE ChainKept
<1>1. UNCHANGED <<rows, browser, now>> /\ Finished(tab, "dead")
  BY DEF JobDies
<1> QED BY <1>1, BrowserCalm, FinishedCalmly DEF ChainInv

(* Sweeps of whole sessions: of reuse, of a logout and of a new password. *)
LEMMA ReuseKept == ASSUME ChainInv, NEW tab \in Tabs, RotateReuse(tab) PROVE ChainKept
<1> DEFINE swept == FamilyOf(jobs[tab].token)
<1>1. /\ Revoked(swept, "reuse_detected") /\ Finished(tab, "rejected") /\ jobs[tab].pc = "reuse"
      /\ UNCHANGED <<browser, now>>
  BY DEF RotateReuse, ServerStep, Job
<1>2. swept \subseteq Tokens /\ \A t \in swept : FamilyOf(t) \subseteq swept
  BY DEF FamilyOf
<1>3. RowsOK /\ RowsOK' /\ RowsGrow
  BY <1>1, SweptRows DEF ChainInv, Reasons
<1>4. PICK j : /\ jobs' = [jobs EXCEPT ![tab] = j] /\ JobOK(j, rows) /\ j.pc \in {"rejected", "none"}
  BY <1>1, Answers DEF Finished
<1>5. JobOK(j, rows')
  BY <1>3, <1>4, JobStays
<1>6. JobsOK' /\ \A q \in Tabs : jobs'[q] = IF q = tab THEN j ELSE jobs[q]
  BY <1>3, <1>4, <1>5, OneJob DEF ChainInv
<1>7. ClaimsNothing /\ \A q \in Tabs : Sweeps(q)
  BY <1>1, <1>4, <1>6 DEF ClaimsNothing, Sweeps, Job
<1>8. BrowserOK' /\ now' \in Nat
  BY <1>1, <1>3, BrowserStays DEF ChainInv
<1> HIDE DEF swept
<1> QED BY <1>1, <1>2, <1>6, <1>7, <1>8, Swept DEF Reasons

LEMMA RevokeKept == ASSUME ChainInv, NEW tab \in Tabs, Revoke(tab) PROVE ChainKept
<1> DEFINE swept == FamilyOf(jobs[tab].token)
           j == [jobs[tab] EXCEPT !.pc = "invalidate"]
<1>1. /\ Revoked(swept, "logout") /\ jobs' = [jobs EXCEPT ![tab] = j] /\ jobs[tab].pc = "logout"
      /\ UNCHANGED <<browser, now>>
  BY DEF Revoke, ServerStep, Job, Goto
<1>2. swept \subseteq Tokens /\ \A t \in swept : FamilyOf(t) \subseteq swept
  BY DEF FamilyOf
<1>3. /\ RowsOK /\ RowsOK' /\ RowsGrow
      /\ \A t \in Tokens : rows'[t] = IF t \in swept /\ rows[t].revoked = "none"
                                      THEN [rows[t] EXCEPT !.revoked = "logout"] ELSE rows[t]
  BY <1>1, SweptRows DEF ChainInv, Reasons
<1>4. JobOK(j, rows) /\ j.pc = "invalidate"
  BY <1>1, GoesOn DEF Working
<1> HIDE DEF j, swept
<1>5. JobOK(j, rows') /\ jobs' = [jobs EXCEPT ![tab] = j]
  BY <1>1, <1>3, <1>4, JobStays
<1>6. JobsOK' /\ \A q \in Tabs : jobs'[q] = IF q = tab THEN j ELSE jobs[q]
  <2>1. RowsOK /\ RowsOK' /\ RowsGrow /\ JobsOK
    BY <1>3 DEF ChainInv
  <2> QED BY <1>5, <2>1, OneJob
<1>7. ClaimsNothing
  BY <1>4, <1>6 DEF ClaimsNothing
<1>8. \A q \in Tabs : Sweeps(q)
  <2>1. \A t \in swept : rows'[t].revoked # "none"
    <3> TAKE t \in swept
    <3>1. t \in Tokens /\ rows[t] \in Token
      BY <1>2, <1>3, RowFacts
    <3> QED BY <1>3, <3>1 DEF Token
  <2> QED BY <1>1, <1>4, <1>6, <2>1 DEF Sweeps, Job, swept
<1>9. BrowserOK' /\ now' \in Nat
  BY <1>1, <1>3, BrowserStays DEF ChainInv
<1> QED BY <1>1, <1>2, <1>6, <1>7, <1>8, <1>9, Swept DEF Reasons

LEMMA PasswordKept == ASSUME ChainInv, ChangePassword PROVE ChainKept
<1>1. UNCHANGED <<jobs, browser, now>>
  BY DEF ChangePassword
<1>2. CASE Revoked(Tokens, "password_changed")
  <2>1. RowsOK /\ RowsOK' /\ RowsGrow
    BY <1>2, SweptRows DEF ChainInv, Reasons
  <2>2. JobsOK' /\ ClaimsNothing /\ \A q \in Tabs : Sweeps(q)
    BY <1>1, <2>1, JobsStay DEF ChainInv, ClaimsNothing, Sweeps, Job
  <2>3. BrowserOK' /\ now' \in Nat
    BY <1>1, <2>1, BrowserStays DEF ChainInv
  <2>4. \A t \in Tokens : FamilyOf(t) \subseteq Tokens
    BY DEF FamilyOf
  <2> QED BY <1>2, <2>2, <2>3, <2>4, Swept DEF Reasons
<1>3. CASE UNCHANGED rows
  BY <1>1, <1>3, BrowserCalm, StillStep DEF ChainInv
<1> QED BY <1>2, <1>3 DEF ChangePassword, PasswordChanged

(* Rotations.  The claim of a live token leaves its session with none. *)
LEMMA ClaimKept == ASSUME ChainInv, NEW tab \in Tabs, RotateClaim(tab) PROVE ChainKept
<1> DEFINE own == jobs[tab].token
<1>0. /\ UNCHANGED <<browser, now>> /\ jobs[tab].pc = "claim"
      /\ RowsOK /\ JobsOK /\ JobOK(jobs[tab], rows) /\ now' \in Nat
  BY DEF RotateClaim, ServerStep, Job, ChainInv, JobsOK
<1>1. CASE UNCHANGED rows /\ Goto(tab, "reuse")
  BY <1>0, <1>1, BrowserCalm, GoesOnCalmly
<1>2. CASE Live(own) /\ rows' = [rows EXCEPT ![own].rotated = TRUE] /\ Goto(tab, "insert")
  <2> DEFINE j == [jobs[tab] EXCEPT !.pc = "insert"]
  <2>1. own \in Tokens /\ rows[own] \in Token /\ Len(rows) \in Nat /\ Tokens = 1 .. Len(rows)
    <3>1. own \in 0 .. Len(rows) /\ own # 0
      BY <1>0 DEF JobOK, Working, None
    <3> QED BY <1>0, <3>1, RowFacts
  <2>2. [rows[own] EXCEPT !.rotated = TRUE] \in Token
        /\ [rows[own] EXCEPT !.rotated = TRUE].family = rows[own].family
        /\ [rows[own] EXCEPT !.rotated = TRUE].revoked = rows[own].revoked
        /\ [rows[own] EXCEPT !.rotated = TRUE].rotated = TRUE
        /\ [rows[own] EXCEPT !.rotated = TRUE].given = rows[own].given
    BY <2>1 DEF Token
  <2>3. PICK row \in Token :
           /\ row.family = rows[own].family /\ row.revoked = rows[own].revoked
           /\ row.rotated = TRUE /\ row.given = rows[own].given
           /\ rows' = [rows EXCEPT ![own] = row]
    BY <1>2, <2>2
  <2>4. /\ rows' \in Seq(Token) /\ Len(rows') = Len(rows) /\ Tokens' = Tokens
        /\ \A t \in Tokens : rows'[t] = IF t = own THEN row ELSE rows[t]
    BY <1>0, <2>1, <2>3 DEF RowsOK, Tokens
  <2>5. \A t \in Tokens : /\ rows'[t].family = rows[t].family /\ rows'[t].revoked = rows[t].revoked
                          /\ rows'[t].given = rows[t].given
                          /\ rows'[t].rotated = (t = own \/ rows[t].rotated)
    <3>1. \A t \in Tokens : rows[t] \in Token
      BY <1>0, RowFacts
    <3> QED BY <2>3, <2>4, <3>1 DEF Token
  <2>6. RowsOK' /\ RowsGrow
    <3>1. \A t \in Tokens : rows'[t].family \in 1 .. t
      BY <1>0, <2>5 DEF RowsOK
    <3>2. RowsOK'
      BY <2>4, <3>1 DEF RowsOK
    <3>3. \A t \in Tokens : rows'[t].family = rows[t].family /\ (rows[t].revoked # "none" => rows'[t].revoked # "none")
      BY <2>5
    <3> QED BY <2>1, <2>4, <3>2, <3>3 DEF RowsGrow
  <2>7. JobOK(j, rows) /\ j.pc = "insert" /\ j.token = own
    <3>1. jobs[tab] \in [pc : JobPlaces, token : 0 .. Len(rows), next : 0 .. Len(rows), access : Nat]
      BY <1>0 DEF JobOK
    <3> QED BY <1>0, <3>1, GoesOn DEF Working
  <2>8. jobs' = [jobs EXCEPT ![tab] = j]
    BY <1>2 DEF Goto
  <2> HIDE DEF j
  <2>9. JobOK(j, rows')
    BY <1>0, <2>6, <2>7, JobStays
  <2>10. JobsOK' /\ \A q \in Tabs : jobs'[q] = IF q = tab THEN j ELSE jobs[q]
    BY <1>0, <2>6, <2>8, <2>9, OneJob
  <2>11. BrowserOK'
    BY <1>0, <2>6, BrowserStays DEF ChainInv
  <2>12. \A t \in Tokens : Live(t)' <=> (Live(t) /\ t # own)
    BY <2>4, <2>5 DEF Live
  <2>13. OneSuccessor'
    BY <2>4, <2>5, <2>12 DEF ChainInv, OneSuccessor
  <2>14. ReuseEndsSession'
    BY <2>4, <2>5 DEF ChainInv, ReuseEndsSession
  <2>15. \A q \in Tabs : jobs'[q].pc = "insert" => jobs'[q].token \in Tokens
    <3>1. \A q \in Tabs : JobOK(jobs'[q], rows')
      BY <2>10 DEF JobsOK
    <3> QED BY <2>1, <2>4, <3>1 DEF JobOK, Working, None
  <2>16. \A q \in Tabs : jobs[q].pc = "insert" => rows[jobs[q].token].family # rows[own].family
    BY <1>2, <2>1 DEF ChainInv, InsertsAlone, Job, FamilyOf
  <2>17. InsertsAlone'
    <3> SUFFICES ASSUME NEW a \in Tabs, jobs'[a].pc = "insert"
                 PROVE  /\ \A t \in Tokens : rows[t].family = rows[jobs'[a].token].family => ~Live(t)'
                        /\ \A b \in Tabs : jobs'[b].pc = "insert"
                             /\ rows[jobs'[b].token].family = rows[jobs'[a].token].family => a = b
      BY <2>4, <2>5, <2>15 DEF InsertsAlone, Job, FamilyOf
    <3>1. CASE a = tab
      <4>1. jobs'[a].token = own
        BY <2>7, <2>10, <3>1
      <4>2. \A t \in Tokens : rows[t].family = rows[own].family => ~Live(t)'
        BY <1>2, <2>1, <2>12 DEF ChainInv, OneSuccessor
      <4> QED BY <2>10, <2>16, <3>1, <4>1, <4>2
    <3>2. CASE a # tab
      <4>1. jobs'[a] = jobs[a]
        BY <2>10, <3>2
      <4>2. \A b \in Tabs : b # tab => jobs'[b] = jobs[b]
        BY <2>10
      <4>3. jobs[a].pc = "insert" /\ rows[jobs[a].token].family # rows[own].family
        BY <2>16, <4>1
      <4>4. \A t \in Tokens : rows[t].family = rows[jobs[a].token].family => ~Live(t)
        BY <4>3 DEF ChainInv, InsertsAlone, Job, FamilyOf
      <4>5. \A b \in Tabs : jobs[b].pc = "insert"
               /\ rows[jobs[b].token].family = rows[jobs[a].token].family => a = b
        BY <4>3 DEF ChainInv, InsertsAlone, Job
      <4>6. jobs'[tab].token = own
        BY <2>7, <2>10
      <4> QED BY <2>12, <4>1, <4>2, <4>3, <4>4, <4>5, <4>6
    <3> QED BY <3>1, <3>2
  <2>18. \A t \in Tokens : Over(rows[t].family) => Over(rows[t].family)'
    <3> SUFFICES ASSUME NEW t \in Tokens, Over(rows[t].family)
                 PROVE  /\ \A u \in Tokens : rows[u].family = rows[t].family => rows[u].revoked # "none"
                        /\ \A q \in Tabs : jobs'[q].pc = "insert"
                             => rows[jobs'[q].token].family # rows[t].family
      BY <2>4, <2>5, <2>15 DEF Over, Job
    <3>1. \A u \in Tokens : rows[u].family = rows[t].family => rows[u].revoked # "none"
      BY DEF Over
    <3>2. rows[own].family # rows[t].family
      BY <1>2, <2>1, <3>1 DEF Live
    <3>3. \A q \in Tabs : jobs[q].pc = "insert" => rows[jobs[q].token].family # rows[t].family
      BY DEF Over, Job
    <3> QED BY <2>7, <2>10, <3>1, <3>2, <3>3
  <2>19. \A q \in Tabs : Sweeps(q)
    BY <1>0, <2>7, <2>10 DEF Sweeps, Job
  <2> QED BY <1>0, <2>6, <2>10, <2>11, <2>13, <2>14, <2>17, <2>18, <2>19 DEF ChainInv, ChainKept
<1> QED BY <1>1, <1>2 DEF RotateClaim

(* A row of its session that nobody has exchanged, at the end of the table. *)
LEMMA Appended ==
  ASSUME RowsOK, NEW row \in Token, row.family \in 1 .. Len(rows) + 1, rows' = Append(rows, row)
  PROVE  /\ RowsOK' /\ RowsGrow /\ Len(rows') = Len(rows) + 1
         /\ Tokens' = Tokens \cup {Len(rows) + 1} /\ Len(rows) + 1 \notin Tokens
         /\ rows'[Len(rows) + 1] = row
         /\ \A t \in Tokens : rows'[t] = rows[t]
<1>1. rows \in Seq(Token) /\ Len(rows) \in Nat /\ Tokens = 1 .. Len(rows)
  BY RowFacts DEF RowsOK
<1>2. /\ rows' \in Seq(Token) /\ Len(rows') = Len(rows) + 1 /\ rows'[Len(rows) + 1] = row
      /\ \A t \in 1 .. Len(rows) : rows'[t] = rows[t]
  BY <1>1
<1>3. Tokens' = 1 .. Len(rows) + 1
  BY <1>2 DEF Tokens
<1>4. \A t \in 1 .. Len(rows) + 1 : rows'[t].family \in 1 .. t
  BY <1>1, <1>2, RowFacts
<1> QED BY <1>1, <1>2, <1>3, <1>4, RowFacts DEF RowsOK, RowsGrow

LEMMA NewRow ==
  ASSUME ChainInv, NEW family \in Nat
  PROVE  /\ Row(family) \in Token /\ [Row(family) EXCEPT !.given = TRUE] \in Token
         /\ Row(family).family = family /\ [Row(family) EXCEPT !.given = TRUE].family = family
         /\ Row(family).revoked = "none" /\ [Row(family) EXCEPT !.given = TRUE].revoked = "none"
         /\ ~Row(family).given
<1>1. now + RefreshTtl \in Nat
  BY TtlAssumption DEF ChainInv
<1> DEFINE row == Row(family)
<1>2. /\ row \in Token /\ row.family = family /\ row.revoked = "none" /\ row.given = FALSE
  BY <1>1 DEF Row, Token, Reasons
<1> HIDE DEF row
<1>3. /\ [row EXCEPT !.given = TRUE] \in Token
      /\ [row EXCEPT !.given = TRUE].family = row.family
      /\ [row EXCEPT !.given = TRUE].revoked = row.revoked
  BY <1>2 DEF Token
<1> QED BY <1>2, <1>3 DEF row

(* Two fields at once. *)
LEMMA JobTwice ==
  ASSUME NEW P, NEW T, NEW k \in [pc : P, token : T, next : T, access : Nat], NEW pc, NEW v
  PROVE  [[k EXCEPT !.pc = pc] EXCEPT !.next = v]
           = [pc |-> pc, token |-> k.token, next |-> v, access |-> k.access]
<1> DEFINE m == [k EXCEPT !.pc = pc]
<1>1. /\ m \in [pc : {pc}, token : T, next : T, access : Nat]
      /\ m.pc = pc /\ m.token = k.token /\ m.next = k.next /\ m.access = k.access
  OBVIOUS
<1> HIDE DEF m
<1>2. [m EXCEPT !.next = v] = [pc |-> m.pc, token |-> m.token, next |-> v, access |-> m.access]
  BY <1>1
<1> QED BY <1>1, <1>2 DEF m

(* A tab that moves and loses or gains a token, in either order. *)
MovedGiven(k, pc, v) == [[k EXCEPT !.pc = pc] EXCEPT !.token = v]
GivenMoved(k, pc, v) == [[k EXCEPT !.token = v] EXCEPT !.pc = pc]
Seated(k, pc, v) == [pc |-> pc, access |-> k.access, token |-> v]

LEMMA TabTwice ==
  ASSUME NEW P, NEW T, NEW k \in [pc : P, access : Nat, token : T], NEW pc, NEW v
  PROVE  MovedGiven(k, pc, v) = Seated(k, pc, v) /\ GivenMoved(k, pc, v) = Seated(k, pc, v)
<1> DEFINE m == [k EXCEPT !.pc = pc]
           n == [k EXCEPT !.token = v]
<1>1. /\ m \in [pc : {pc}, access : Nat, token : T] /\ n \in [pc : P, access : Nat, token : {v}]
      /\ m.pc = pc /\ m.access = k.access /\ n.token = v /\ n.access = k.access
  OBVIOUS
<1> HIDE DEF m, n
<1>2. /\ [m EXCEPT !.token = v] = [pc |-> m.pc, access |-> m.access, token |-> v]
      /\ [n EXCEPT !.pc = pc] = [pc |-> pc, access |-> n.access, token |-> n.token]
  BY <1>1
<1> QED BY <1>1, <1>2 DEF m, n, MovedGiven, GivenMoved, Seated

(* What a job of a family knows of it. *)
LEMMA OwnToken ==
  ASSUME ChainInv, NEW tab \in Tabs, jobs[tab].pc \in Working
  PROVE  jobs[tab].token \in Tokens
<1>1. jobs[tab].token \in 0 .. Len(rows) /\ jobs[tab].token # 0
  BY DEF ChainInv, JobsOK, JobOK, None
<1> QED BY <1>1, RowFacts DEF ChainInv

(* The row a rotation inserts follows what its claim has left. *)
LEMMA InsertKept == ASSUME ChainInv, NEW tab \in Tabs, RotateInsert(tab) PROVE ChainKept
<1> DEFINE own == jobs[tab].token
           new == Len(rows) + 1
           family == rows[own].family
<1>0. /\ UNCHANGED <<browser, now>> /\ jobs[tab].pc = "insert"
      /\ RowsOK /\ JobsOK /\ JobOK(jobs[tab], rows) /\ now' \in Nat
      /\ rows' = Append(rows, Row(family))
      /\ jobs' = [jobs EXCEPT ![tab].pc = "recheck", ![tab].next = new]
  BY DEF RotateInsert, ServerStep, Job, ChainInv, JobsOK
<1>1. own \in Tokens /\ family \in 1 .. own /\ Len(rows) \in Nat /\ Tokens = 1 .. Len(rows)
  BY <1>0, OwnToken, RowFacts DEF Working
<1>2. PICK row \in Token : /\ rows' = Append(rows, row) /\ row.family = family
                           /\ ~row.given /\ row.revoked = "none"
  <2> DEFINE row == Row(family)
  <2>1. family \in Nat
    BY <1>1
  <2>2. row \in Token /\ row.family = family /\ ~row.given /\ row.revoked = "none"
    BY <2>1, NewRow
  <2> HIDE DEF row, family
  <2>3. rows' = Append(rows, row)
    BY <1>0 DEF row
  <2> QED BY <2>2, <2>3
<1>3. /\ RowsOK' /\ RowsGrow /\ Len(rows') = new
      /\ Tokens' = Tokens \cup {new} /\ new \notin Tokens
      /\ rows'[new] = row
      /\ \A t \in Tokens : rows'[t] = rows[t]
  BY <1>0, <1>1, <1>2, Appended
<1>4. PICK j : /\ jobs' = [jobs EXCEPT ![tab] = j] /\ j.pc = "recheck" /\ JobOK(j, rows')
  <2> DEFINE k == jobs[tab]
             j == [pc |-> "recheck", token |-> k.token, next |-> new, access |-> k.access]
  <2>1. k \in [pc : JobPlaces, token : 0 .. Len(rows), next : 0 .. Len(rows), access : Nat]
    BY <1>0 DEF JobOK
  <2>2. jobs' = [jobs EXCEPT ![tab] = j]
    <3>1. [[k EXCEPT !.pc = "recheck"] EXCEPT !.next = new] = j
      BY <2>1, JobTwice
    <3>2. jobs' = [jobs EXCEPT ![tab] = [[k EXCEPT !.pc = "recheck"] EXCEPT !.next = new]]
      BY <1>0 DEF JobsOK
    <3> QED BY <3>1, <3>2
  <2>3. rows'[new].family = rows'[own].family /\ new # 0 /\ own # 0
    BY <1>1, <1>2, <1>3
  <2>4. own \in 0 .. Len(rows') /\ new \in 0 .. Len(rows') /\ k.access \in Nat
    BY <1>1, <1>3, <2>1
  <2>5. j.pc = "recheck" /\ JobOK(j, rows')
    BY <2>3, <2>4 DEF JobOK, JobPlaces, None
  <2> QED BY <2>2, <2>5
<1>5. JobsOK' /\ \A q \in Tabs : jobs'[q] = IF q = tab THEN j ELSE jobs[q]
  BY <1>0, <1>3, <1>4, OneJob
<1>6. BrowserOK'
  BY <1>0, <1>3, BrowserStays DEF ChainInv
<1> HIDE DEF own, new, family
<1>7. \A q \in Tabs : jobs'[q].pc = "insert" =>
         q # tab /\ jobs'[q] = jobs[q] /\ jobs[q].token \in Tokens
                 /\ rows[jobs[q].token].family # family
  <2> TAKE q \in Tabs
  <2> HAVE jobs'[q].pc = "insert"
  <2>1. q # tab /\ jobs'[q] = jobs[q]
    BY <1>4, <1>5
  <2>2. jobs[q].token \in Tokens
    BY <2>1, OwnToken DEF Working
  <2>3. rows[jobs[q].token].family # family
    BY <1>0, <2>1 DEF ChainInv, InsertsAlone, Job, own, family
  <2> QED BY <2>1, <2>2, <2>3
<1>8. \A t \in Tokens : rows[t].family = family => ~Live(t)
  BY <1>0 DEF ChainInv, InsertsAlone, Job, FamilyOf, own, family
<1>9. \A t \in Tokens : Live(t)' <=> Live(t)
  BY <1>3 DEF Live
<1>10. OneSuccessor'
  <2> SUFFICES ASSUME NEW t \in Tokens \cup {new}, NEW u \in Tokens \cup {new},
                      rows'[t].family = rows'[u].family, Live(t)', Live(u)'
               PROVE  t = u
    BY <1>3 DEF OneSuccessor
  <2>1. CASE t \in Tokens /\ u \in Tokens
    BY <1>3, <1>9, <2>1 DEF ChainInv, OneSuccessor
  <2> QED BY <1>2, <1>3, <1>8, <1>9, <2>1
<1>11. ReuseEndsSession'
  <2> SUFFICES ASSUME NEW t \in Tokens \cup {new}, NEW u \in Tokens \cup {new},
                      rows'[t].family = rows'[u].family, rows'[t].revoked = "reuse_detected",
                      rows'[u].given
               PROVE  rows'[u].revoked # "none"
    BY <1>3 DEF ReuseEndsSession
  <2>1. u \in Tokens
    BY <1>2, <1>3
  <2>2. CASE t \in Tokens
    BY <1>3, <2>1, <2>2 DEF ChainInv, ReuseEndsSession
  <2>3. CASE t = new
    BY <1>2, <1>3, <2>3
  <2> QED BY <2>2, <2>3
<1>12. InsertsAlone'
  <2> SUFFICES ASSUME NEW a \in Tabs, jobs'[a].pc = "insert"
               PROVE  /\ \A t \in Tokens \cup {new} :
                            rows'[t].family = rows[jobs[a].token].family => ~Live(t)'
                      /\ \A b \in Tabs : jobs'[b].pc = "insert"
                           /\ rows[jobs[b].token].family = rows[jobs[a].token].family => a = b
    BY <1>3, <1>7 DEF InsertsAlone, Job, FamilyOf
  <2>1. jobs[a].pc = "insert" /\ rows[jobs[a].token].family # family
    BY <1>7
  <2>2. \A t \in Tokens : rows[t].family = rows[jobs[a].token].family => ~Live(t)
    BY <2>1 DEF ChainInv, InsertsAlone, Job, FamilyOf
  <2>3. \A b \in Tabs : jobs[b].pc = "insert"
           /\ rows[jobs[b].token].family = rows[jobs[a].token].family => a = b
    BY <2>1 DEF ChainInv, InsertsAlone, Job
  <2> QED BY <1>2, <1>3, <1>7, <1>9, <2>1, <2>2, <2>3
<1>13. \A t \in Tokens : Over(rows[t].family) => Over(rows[t].family)'
  <2> SUFFICES ASSUME NEW t \in Tokens, Over(rows[t].family)
               PROVE  /\ \A u \in Tokens \cup {new} :
                            rows'[u].family = rows[t].family => rows'[u].revoked # "none"
                      /\ \A q \in Tabs : jobs'[q].pc = "insert"
                           => rows[jobs[q].token].family # rows[t].family
    BY <1>3, <1>7 DEF Over, Job
  <2>1. \A u \in Tokens : rows[u].family = rows[t].family => rows[u].revoked # "none"
    BY DEF Over
  <2>2. \A q \in Tabs : jobs[q].pc = "insert" => rows[jobs[q].token].family # rows[t].family
    BY DEF Over, Job
  <2>3. family # rows[t].family
    BY <1>0, <2>2 DEF own, family
  <2> QED BY <1>2, <1>3, <1>7, <2>1, <2>2, <2>3
<1>14. \A q \in Tabs : Sweeps(q)
  BY <1>0, <1>4, <1>5 DEF Sweeps, Job
<1> QED BY <1>0, <1>3, <1>5, <1>6, <1>10, <1>11, <1>12, <1>13, <1>14 DEF ChainInv, ChainKept

(* A login starts a session of its own. *)
LEMMA IssueKept == ASSUME ChainInv, NEW tab \in Tabs, Issue(tab) PROVE ChainKept
<1> DEFINE new == Len(rows) + 1
           j == [pc |-> "granted", token |-> None, next |-> new, access |-> now]
<1>0. /\ UNCHANGED <<browser, now>> /\ jobs[tab].pc = "login"
      /\ RowsOK /\ JobsOK /\ now \in Nat /\ now' \in Nat
      /\ rows' = Append(rows, [Row(new) EXCEPT !.given = TRUE])
      /\ jobs' = [jobs EXCEPT ![tab] = j]
  BY DEF Issue, ServerStep, Job, ChainInv
<1>1. Len(rows) \in Nat /\ Tokens = 1 .. Len(rows) /\ new \in Nat
      /\ \A t \in Tokens : rows[t].family \in 1 .. t
  BY <1>0, RowFacts
<1>2. PICK row \in Token : rows' = Append(rows, row) /\ row.family = new /\ row.revoked = "none"
  BY <1>0, <1>1, NewRow
<1>3. /\ RowsOK' /\ RowsGrow /\ Len(rows') = new
      /\ Tokens' = Tokens \cup {new} /\ new \notin Tokens
      /\ rows'[new] = row
      /\ \A t \in Tokens : rows'[t] = rows[t]
  BY <1>0, <1>1, <1>2, Appended
<1>4. JobOK(j, rows') /\ j.pc = "granted"
  <2>1. 0 \in 0 .. Len(rows') /\ new \in 0 .. Len(rows') /\ new # 0
    BY <1>1, <1>3
  <2> QED BY <1>0, <2>1 DEF JobOK, JobPlaces, Working, None
<1> HIDE DEF j
<1>5. JobsOK' /\ \A q \in Tabs : jobs'[q] = IF q = tab THEN j ELSE jobs[q]
  <2>1. RowsOK /\ RowsOK' /\ RowsGrow /\ JobsOK
    BY <1>0, <1>3
  <2>2. JobOK(j, rows') /\ jobs' = [jobs EXCEPT ![tab] = j]
    BY <1>0, <1>4
  <2> HIDE DEF new
  <2> QED BY <2>1, <2>2, OneJob
<1>6. BrowserOK'
  BY <1>0, <1>3, BrowserStays DEF ChainInv
<1>7. \A t \in Tokens : rows[t].family # new
  BY <1>1
<1> HIDE DEF new
<1>8. \A q \in Tabs : jobs'[q].pc = "insert" =>
         jobs'[q] = jobs[q] /\ jobs[q].token \in Tokens
  <2> TAKE q \in Tabs
  <2> HAVE jobs'[q].pc = "insert"
  <2>1. jobs'[q] = jobs[q]
    BY <1>4, <1>5
  <2> QED BY <2>1, OwnToken DEF Working
<1>9. \A t \in Tokens : Live(t)' <=> Live(t)
  BY <1>3 DEF Live
<1>10. OneSuccessor'
  <2> SUFFICES ASSUME NEW t \in Tokens \cup {new}, NEW u \in Tokens \cup {new},
                      rows'[t].family = rows'[u].family, Live(t)', Live(u)'
               PROVE  t = u
    BY <1>3 DEF OneSuccessor
  <2>1. CASE t \in Tokens /\ u \in Tokens
    BY <1>3, <1>9, <2>1 DEF ChainInv, OneSuccessor
  <2> QED BY <1>2, <1>3, <1>7, <2>1
<1>11. ReuseEndsSession'
  <2> SUFFICES ASSUME NEW t \in Tokens \cup {new}, NEW u \in Tokens \cup {new},
                      rows'[t].family = rows'[u].family, rows'[t].revoked = "reuse_detected",
                      rows'[u].given
               PROVE  rows'[u].revoked # "none"
    BY <1>3 DEF ReuseEndsSession
  <2>1. t \in Tokens
    BY <1>2, <1>3
  <2>2. u \in Tokens
    BY <1>2, <1>3, <1>7, <2>1
  <2> QED BY <1>3, <2>1, <2>2 DEF ChainInv, ReuseEndsSession
<1>12. InsertsAlone'
  <2> SUFFICES ASSUME NEW a \in Tabs, jobs'[a].pc = "insert"
               PROVE  /\ \A t \in Tokens \cup {new} :
                            rows'[t].family = rows[jobs[a].token].family => ~Live(t)'
                      /\ \A b \in Tabs : jobs'[b].pc = "insert"
                           /\ rows[jobs[b].token].family = rows[jobs[a].token].family => a = b
    BY <1>3, <1>8 DEF InsertsAlone, Job, FamilyOf
  <2>1. jobs[a].pc = "insert" /\ jobs[a].token \in Tokens
    BY <1>8
  <2>2. \A t \in Tokens : rows[t].family = rows[jobs[a].token].family => ~Live(t)
    BY <2>1 DEF ChainInv, InsertsAlone, Job, FamilyOf
  <2>3. \A b \in Tabs : jobs[b].pc = "insert"
           /\ rows[jobs[b].token].family = rows[jobs[a].token].family => a = b
    BY <2>1 DEF ChainInv, InsertsAlone, Job
  <2>4. \A t \in Tokens : rows'[t].family = rows[jobs[a].token].family => ~Live(t)'
    BY <1>3, <1>9, <2>2
  <2>5. rows'[new].family # rows[jobs[a].token].family
    BY <1>2, <1>3, <1>7, <2>1
  <2>6. \A b \in Tabs : jobs'[b].pc = "insert" => jobs[b].pc = "insert"
    BY <1>8
  <2> QED BY <2>3, <2>4, <2>5, <2>6
<1>13. \A t \in Tokens : Over(rows[t].family) => Over(rows[t].family)'
  <2> SUFFICES ASSUME NEW t \in Tokens, Over(rows[t].family)
               PROVE  /\ \A u \in Tokens \cup {new} :
                            rows'[u].family = rows[t].family => rows'[u].revoked # "none"
                      /\ \A q \in Tabs : jobs'[q].pc = "insert"
                           => rows[jobs[q].token].family # rows[t].family
    BY <1>3, <1>8 DEF Over, Job
  <2>1. \A u \in Tokens : rows[u].family = rows[t].family => rows[u].revoked # "none"
    BY DEF Over
  <2>2. \A q \in Tabs : jobs[q].pc = "insert" => rows[jobs[q].token].family # rows[t].family
    BY DEF Over, Job
  <2>3. \A u \in Tokens : rows'[u].family = rows[t].family => rows'[u].revoked # "none"
    BY <1>3, <2>1
  <2>4. rows'[new].family # rows[t].family
    BY <1>2, <1>3, <1>7
  <2>5. \A q \in Tabs : jobs'[q].pc = "insert" => jobs[q].pc = "insert"
    BY <1>8
  <2> QED BY <2>2, <2>3, <2>4, <2>5
<1>14. \A q \in Tabs : Sweeps(q)
  BY <1>0, <1>4, <1>5 DEF Sweeps, Job
<1> QED BY <1>0, <1>3, <1>5, <1>6, <1>10, <1>11, <1>12, <1>13, <1>14 DEF ChainInv, ChainKept

(* The answer: nothing of the session has been taken for reuse. *)
LEMMA RecheckKept == ASSUME ChainInv, NEW tab \in Tabs, RotateRecheck(tab) PROVE ChainKept
<1> DEFINE own == jobs[tab].token
           next == jobs[tab].next
<1>0. /\ UNCHANGED <<browser, now>> /\ jobs[tab].pc = "recheck"
      /\ RowsOK /\ JobsOK /\ JobOK(jobs[tab], rows) /\ now \in Nat /\ now' \in Nat
  BY DEF RotateRecheck, ServerStep, Job, ChainInv, JobsOK
<1>1. CASE UNCHANGED rows /\ Goto(tab, "reuse")
  BY <1>0, <1>1, BrowserCalm, GoesOnCalmly
<1>2. CASE /\ ~\E t \in FamilyOf(own) : rows[t].revoked = "reuse_detected"
           /\ rows' = [rows EXCEPT ![next].given = TRUE]
           /\ jobs' = [jobs EXCEPT ![tab].pc = "granted", ![tab].access = now]
  <2>1. /\ next \in Tokens /\ rows[next] \in Token /\ rows[next].family = rows[own].family
        /\ Len(rows) \in Nat /\ Tokens = 1 .. Len(rows)
    <3>1. next \in 0 .. Len(rows) /\ next # 0 /\ rows[next].family = rows[own].family
      BY <1>0 DEF JobOK, None
    <3> QED BY <1>0, <3>1, RowFacts
  <2>2. PICK row \in Token :
           /\ row.family = rows[next].family /\ row.revoked = rows[next].revoked
           /\ row.rotated = rows[next].rotated
           /\ rows' = [rows EXCEPT ![next] = row]
    <3> DEFINE r == rows[next]
               row == [r EXCEPT !.given = TRUE]
    <3>1. row \in Token /\ row.family = r.family /\ row.revoked = r.revoked /\ row.rotated = r.rotated
      BY <2>1 DEF Token
    <3>2. rows' = [rows EXCEPT ![next] = row]
      BY <1>2
    <3> HIDE DEF row
    <3> QED BY <3>1, <3>2
  <2>3. PICK j : /\ jobs' = [jobs EXCEPT ![tab] = j] /\ j.pc = "granted" /\ JobOK(j, rows)
    <3> DEFINE k == jobs[tab]
               j == [pc |-> "granted", token |-> k.token, next |-> k.next, access |-> now]
    <3>1. k \in [pc : JobPlaces, token : 0 .. Len(rows), next : 0 .. Len(rows), access : Nat]
      BY <1>0 DEF JobOK
    <3>3. [[k EXCEPT !.pc = "granted"] EXCEPT !.access = now] = j
      <4> DEFINE m == [k EXCEPT !.pc = "granted"]
      <4>1. /\ m \in [pc : {"granted"}, token : 0 .. Len(rows), next : 0 .. Len(rows), access : Nat]
            /\ m.token = k.token /\ m.next = k.next
        BY <3>1
      <4> HIDE DEF m
      <4>2. [m EXCEPT !.access = now]
              = [pc |-> "granted", token |-> m.token, next |-> m.next, access |-> now]
        BY <4>1
      <4>3. [m EXCEPT !.access = now] = j
        BY <4>1, <4>2
      <4> QED BY <4>3 DEF m
    <3>4. jobs' = [jobs EXCEPT ![tab] = [[k EXCEPT !.pc = "granted"] EXCEPT !.access = now]]
      BY <1>0, <1>2 DEF JobsOK
    <3>5. j.pc = "granted" /\ JobOK(j, rows)
      BY <1>0, <2>1, <3>1 DEF JobOK, JobPlaces, Working, None
    <3> QED BY <3>3, <3>4, <3>5
  <2>4. /\ rows' \in Seq(Token) /\ Len(rows') = Len(rows) /\ Tokens' = Tokens
        /\ \A t \in Tokens : rows'[t] = IF t = next THEN row ELSE rows[t]
    BY <1>0, <2>1, <2>2 DEF RowsOK, Tokens
  <2>5. \A t \in Tokens : /\ rows'[t].family = rows[t].family /\ rows'[t].revoked = rows[t].revoked
                          /\ rows'[t].rotated = rows[t].rotated
                          /\ (t # next => rows'[t] = rows[t])
    BY <2>2, <2>4
  <2>6. RowsOK' /\ RowsGrow
    BY <1>0, <2>1, <2>4, <2>5 DEF RowsOK, RowsGrow
  <2>7. JobOK(j, rows')
    BY <1>0, <2>3, <2>6, JobStays
  <2>8. JobsOK' /\ \A q \in Tabs : jobs'[q] = IF q = tab THEN j ELSE jobs[q]
    BY <1>0, <2>3, <2>6, <2>7, OneJob
  <2>9. BrowserOK'
    BY <1>0, <2>6, BrowserStays DEF ChainInv
  <2>10. \A t \in Tokens : Live(t)' <=> Live(t)
    BY <2>4, <2>5 DEF Live
  <2>11. OneSuccessor'
    BY <2>4, <2>5, <2>10 DEF ChainInv, OneSuccessor
  <2>12. ReuseEndsSession'
    <3> SUFFICES ASSUME NEW t \in Tokens, NEW u \in Tokens,
                        rows[t].family = rows[u].family, rows[t].revoked = "reuse_detected",
                        rows'[u].given
                 PROVE  rows[u].revoked # "none"
      BY <2>4, <2>5 DEF ReuseEndsSession
    <3>1. u # next
      BY <1>2, <2>1 DEF FamilyOf
    <3> QED BY <2>5, <3>1 DEF ChainInv, ReuseEndsSession
  <2>13. \A q \in Tabs : jobs'[q].pc = "insert" =>
            jobs[q].pc = "insert" /\ jobs'[q].token = jobs[q].token /\ jobs[q].token \in Tokens
    BY <2>3, <2>8, OwnToken DEF Working
  <2>14. InsertsAlone'
    <3> SUFFICES ASSUME NEW a \in Tabs, jobs'[a].pc = "insert"
                 PROVE  /\ \A t \in Tokens : rows[t].family = rows[jobs[a].token].family => ~Live(t)
                        /\ \A b \in Tabs : jobs'[b].pc = "insert"
                             /\ rows[jobs[b].token].family = rows[jobs[a].token].family => a = b
      BY <2>4, <2>5, <2>10, <2>13 DEF InsertsAlone, Job, FamilyOf
    <3> QED BY <2>13 DEF ChainInv, InsertsAlone, Job, FamilyOf
  <2>15. \A t \in Tokens : Over(rows[t].family) => Over(rows[t].family)'
    <3> SUFFICES ASSUME NEW t \in Tokens, Over(rows[t].family)
                 PROVE  /\ \A u \in Tokens : rows[u].family = rows[t].family => rows[u].revoked # "none"
                        /\ \A q \in Tabs : jobs'[q].pc = "insert"
                             => rows[jobs[q].token].family # rows[t].family
      BY <2>4, <2>5, <2>13 DEF Over, Job
    <3> QED BY <2>13 DEF Over, Job
  <2>16. \A q \in Tabs : Sweeps(q)
    BY <1>0, <2>3, <2>8 DEF Sweeps, Job
  <2> QED BY <1>0, <2>6, <2>8, <2>9, <2>11, <2>12, <2>14, <2>15, <2>16 DEF ChainInv, ChainKept
<1> QED BY <1>1, <1>2 DEF RotateRecheck

LEMMA ServerKeeps == ASSUME ChainInv, NEW tab \in Tabs, Server(tab) PROVE ChainKept
  BY FindKept, ClaimKept, ReuseKept, InsertKept, RecheckKept, IssueKept, RevokeKept,
     InvalidatesKept, DiesKept DEF Server

(* The tabs. *)
TabOK(k) == /\ k \in [pc : Turns, access : Nat, token : 0 .. Len(rows)]
            /\ k.pc = "free" => k.token # None

LEMMA TabFacts ==
  ASSUME ChainInv
  PROVE  /\ RowsOK /\ now \in Nat /\ stored \in 0 .. Len(rows) /\ 0 \in 0 .. Len(rows)
         /\ (stored # None => stored \in Tokens)
         /\ \A tab \in Tabs : /\ TabOK(tabs[tab])
                              /\ jobs[tab].next \in 0 .. Len(rows) /\ jobs[tab].access \in Nat
         /\ TabOK(Tab)
<1>1. RowsOK /\ now \in Nat /\ stored \in 0 .. Len(rows) /\ (stored # None => stored \in Tokens)
      /\ 0 \in 0 .. Len(rows)
  BY RowFacts DEF ChainInv, BrowserOK, None
<1>2. \A tab \in Tabs : TabOK(tabs[tab])
  BY DEF ChainInv, BrowserOK, TabOK, At
<1>3. \A tab \in Tabs : jobs[tab].next \in 0 .. Len(rows) /\ jobs[tab].access \in Nat
  BY DEF ChainInv, JobsOK, JobOK
<1>4. TabOK(Tab)
  BY <1>1 DEF TabOK, Tab, Turns, None
<1> QED BY <1>1, <1>2, <1>3, <1>4

LEMMA TabMoves ==
  ASSUME ChainInv, UNCHANGED rows, NEW tab \in Tabs, NEW k, TabOK(k),
         tabs' = [tabs EXCEPT ![tab] = k], stored' \in 0 .. Len(rows)
  PROVE  BrowserOK'
<1>1. tabs' \in [Tabs -> [pc : Turns, access : Nat, token : 0 .. Len(rows)]]
      /\ \A q \in Tabs : tabs'[q] = IF q = tab THEN k ELSE tabs[q]
  BY DEF ChainInv, BrowserOK, TabOK
<1> QED BY <1>1 DEF ChainInv, BrowserOK, TabOK, At

LEMMA TabTurns ==
  ASSUME ChainInv, UNCHANGED <<rows, stored>>, NEW tab \in Tabs, NEW pc \in Turns \ {"free"}, Turn(tab, pc)
  PROVE  BrowserOK'
<1> DEFINE k == tabs[tab]
<1>1. k \in [pc : Turns, access : Nat, token : 0 .. Len(rows)]
  BY TabFacts DEF TabOK
<1>2. [k EXCEPT !.pc = pc] \in [pc : Turns, access : Nat, token : 0 .. Len(rows)]
      /\ [k EXCEPT !.pc = pc].pc = pc
  BY <1>1
<1>3. TabOK([k EXCEPT !.pc = pc])
  BY <1>2 DEF TabOK
<1>4. tabs' = [tabs EXCEPT ![tab] = [k EXCEPT !.pc = pc]]
  BY DEF Turn
<1> QED BY <1>3, <1>4, TabFacts, TabMoves

(* A job that a tab starts. *)
LEMMA StartKept ==
  ASSUME ChainInv, UNCHANGED rows, NEW tab \in Tabs, BrowserOK', now' \in Nat, Job(tab, "none"),
         NEW pc, NEW token, Start(tab, pc, token),
         \/ pc = "login" /\ token = None
         \/ pc \in {"refresh", "logout"} /\ token \in Tokens
  PROVE  ChainKept
<1> DEFINE j == [pc |-> pc, token |-> token, next |-> None, access |-> None]
<1>1. JobOK(j, rows)
  <2>1. CASE pc = "login" /\ token = None
    BY <2>1, TabFacts DEF JobOK, JobPlaces, Working, None
  <2>2. CASE pc \in {"refresh", "logout"} /\ token \in Tokens
    BY <2>2, Answers
  <2> QED BY <2>1, <2>2
<1>2. jobs' = [jobs EXCEPT ![tab] = j] /\ j.pc = pc /\ pc \in {"login", "refresh", "logout"}
  BY DEF Start
<1> HIDE DEF j
<1> QED BY <1>1, <1>2, CalmStep DEF Job

LEMMA AbandonedKept ==
  ASSUME ChainInv, UNCHANGED rows, NEW tab \in Tabs, BrowserOK', now' \in Nat, Abandoned(tab)
  PROVE  ChainKept
<1>1. CASE jobs' = jobs
  BY <1>1, StillStep
<1>2. CASE jobs' = [jobs EXCEPT ![tab] = NoJob] /\ jobs[tab].pc \in {"granted", "rejected", "dead"}
  BY <1>2, Answers, CalmStep
<1> QED BY <1>1, <1>2 DEF Abandoned

LEMMA BrowserKeeps == ASSUME ChainInv, NEW tab \in Tabs, Browser(tab) PROVE ChainKept
<1>0. now \in Nat /\ RowsOK
  BY TabFacts
<1>1. ASSUME SignIn(tab) PROVE ChainKept
  <2>1. BrowserOK'
    BY <1>1, TabTurns DEF SignIn, Turns
  <2> QED BY <1>0, <1>1, <2>1, StartKept DEF SignIn
<1>2. ASSUME SignOut(tab) PROVE ChainKept
  <2>1. BrowserOK'
    BY <1>2, TabFacts, TabMoves DEF SignOut, ClearSession, None
  <2> QED BY <1>0, <1>2, <2>1, TabFacts, StartKept DEF SignOut
<1>3. ASSUME Request(tab) PROVE ChainKept
  <2>1. BrowserOK' /\ UNCHANGED <<rows, jobs, now>>
    BY <1>3, TabTurns DEF Request, TabStep, server, Turns
  <2> QED BY <1>0, <2>1, StillStep
<1>4. ASSUME ReadClaim(tab) PROVE ChainKept
  <2>1. UNCHANGED <<rows, jobs, now, stored>>
    BY <1>4 DEF ReadClaim, server
  <2>2. PICK pc \in {"idle", "waiting", "free"} :
           /\ tabs' = [tabs EXCEPT ![tab].token = stored, ![tab].pc = pc]
           /\ pc = "free" => stored # None
    BY <1>4 DEF ReadClaim
  <2> DEFINE k == tabs[tab]
             n == Seated(k, pc, stored)
  <2>3. k \in [pc : Turns, access : Nat, token : 0 .. Len(rows)]
    BY TabFacts DEF TabOK
  <2>5. GivenMoved(k, pc, stored) = n
    BY <2>3, TabTwice
  <2>6. tabs' = [tabs EXCEPT ![tab] = GivenMoved(k, pc, stored)]
    BY <2>2 DEF ChainInv, BrowserOK, GivenMoved
  <2>7. TabOK(n)
    BY <2>2, <2>3, TabFacts DEF TabOK, Turns, Seated
  <2>8. tabs' = [tabs EXCEPT ![tab] = n]
    BY <2>5, <2>6
  <2> HIDE DEF n
  <2>9. BrowserOK'
    BY <2>1, <2>7, <2>8, TabFacts, TabMoves
  <2> QED BY <1>0, <2>1, <2>9, StillStep
<1>5. ASSUME Exchange(tab) PROVE ChainKept
  <2>1. BrowserOK'
    BY <1>5, TabTurns DEF Exchange, Turns
  <2>2. tabs[tab].token \in Tokens
    <3>1. tabs[tab].token \in 0 .. Len(rows) /\ tabs[tab].token # 0
      BY <1>5, TabFacts DEF Exchange, At, TabOK, None
    <3> QED BY <1>0, <3>1, RowFacts
  <2> QED BY <1>0, <1>5, <2>1, <2>2, StartKept DEF Exchange
<1>6. ASSUME Granted(tab) PROVE ChainKept
  <2>1. PICK pc \in {"idle", "retry"} : SetSession(tab, pc)
    BY <1>6 DEF Granted
  <2> DEFINE k == [pc |-> pc, access |-> jobs[tab].access, token |-> None]
  <2>2. TabOK(k)
    BY TabFacts DEF TabOK, Turns, None
  <2>3. tabs' = [tabs EXCEPT ![tab] = k] /\ stored' = jobs[tab].next
    BY <2>1 DEF SetSession
  <2> HIDE DEF k
  <2>4. BrowserOK'
    BY <1>6, <2>2, <2>3, TabFacts, TabMoves DEF Granted
  <2> QED BY <1>0, <1>6, <2>4, FinishedCalmly DEF Granted
<1>7. ASSUME Rejected(tab) PROVE ChainKept
  <2>1. BrowserOK'
    BY <1>7, TabFacts, TabMoves DEF Rejected, ClearSession, None
  <2> QED BY <1>0, <1>7, <2>1, FinishedCalmly DEF Rejected
<1>8. ASSUME UNCHANGED <<rows, stored, now>>, NEW pc \in {"idle", "retry"},
             \/ tabs' = [tabs EXCEPT ![tab].pc = pc, ![tab].token = None]
             \/ tabs' = [tabs EXCEPT ![tab].token = None, ![tab].pc = pc]
      PROVE  BrowserOK'
  <2> DEFINE k == tabs[tab]
             n == Seated(k, pc, None)
  <2>1. k \in [pc : Turns, access : Nat, token : 0 .. Len(rows)]
    BY TabFacts DEF TabOK
  <2>3. GivenMoved(k, pc, None) = n /\ MovedGiven(k, pc, None) = n
    BY <2>1, TabTwice
  <2>5. \/ tabs' = [tabs EXCEPT ![tab] = GivenMoved(k, pc, None)]
        \/ tabs' = [tabs EXCEPT ![tab] = MovedGiven(k, pc, None)]
    BY <1>8 DEF ChainInv, BrowserOK, MovedGiven, GivenMoved
  <2>6. TabOK(n)
    BY <2>1, TabFacts DEF TabOK, Turns, None, Seated
  <2>7. tabs' = [tabs EXCEPT ![tab] = n]
    BY <2>3, <2>5
  <2> HIDE DEF n
  <2> QED BY <1>8, <2>6, <2>7, TabFacts, TabMoves
<1>9. ASSUME Unreachable(tab) PROVE ChainKept
  <2>1. BrowserOK'
    BY <1>8, <1>9 DEF Unreachable
  <2> QED BY <1>0, <1>9, <2>1, AbandonedKept DEF Unreachable
<1>10. ASSUME Reload(tab) PROVE ChainKept
  <2>1. BrowserOK'
    BY <1>10, TabFacts, TabMoves DEF Reload
  <2> QED BY <1>0, <1>10, <2>1, AbandonedKept DEF Reload
<1>11. ASSUME Waited(tab) PROVE ChainKept
  <2>1. UNCHANGED <<rows, jobs, now, stored>>
    BY <1>11 DEF Waited, TabStep, server
  <2>2. BrowserOK'
    BY <1>8, <1>11, <2>1 DEF Waited
  <2> QED BY <1>0, <2>1, <2>2, StillStep
<1>12. ASSUME Retry(tab) PROVE ChainKept
  <2>1. BrowserOK' /\ UNCHANGED <<rows, jobs, now>>
    BY <1>12, TabTurns DEF Retry, TabStep, server, Turns
  <2> QED BY <1>0, <2>1, StillStep
<1> QED BY <1>1, <1>2, <1>3, <1>4, <1>5, <1>6, <1>7, <1>9, <1>10, <1>11, <1>12 DEF Browser

LEMMA ChainInit == ASSUME Init PROVE ChainInv
<1>1. rows = << >> /\ now = 1 /\ stored = 0 /\ Len(rows) = 0 /\ Tokens = {} /\ 0 \in 0 .. 0
  BY DEF Init, None, Tokens
<1>2. RowsOK /\ OneSuccessor /\ ReuseEndsSession
  BY <1>1 DEF RowsOK, OneSuccessor, ReuseEndsSession
<1>3. JobsOK /\ InsertsAlone
  <2>1. \A t \in Tabs : jobs[t] = [pc |-> "none", token |-> 0, next |-> 0, access |-> 0]
    BY DEF Init, NoJob, None
  <2>2. JobOK([pc |-> "none", token |-> 0, next |-> 0, access |-> 0], rows)
    BY <1>1 DEF JobOK, JobPlaces, Working
  <2> QED BY <2>1, <2>2 DEF Init, JobsOK, InsertsAlone, Job
<1>4. BrowserOK
  <2>1. \A t \in Tabs : tabs[t] = [pc |-> "idle", access |-> 0, token |-> 0]
    BY DEF Init, Tab, None
  <2>2. [pc |-> "idle", access |-> 0, token |-> 0] \in [pc : Turns, access : Nat, token : 0 .. Len(rows)]
    BY <1>1 DEF Turns
  <2> QED BY <1>1, <2>1, <2>2 DEF Init, BrowserOK, At
<1> QED BY <1>1, <1>2, <1>3, <1>4 DEF ChainInv

LEMMA ChainStep == ASSUME ChainInv, Next PROVE ChainKept
<1>1. CASE Tick
  <2>1. UNCHANGED <<rows, jobs, browser>> /\ now' \in Nat
    BY <1>1, TabFacts DEF Tick, server
  <2> QED BY <2>1, BrowserCalm, StillStep
<1> QED BY <1>1, PasswordKept, ServerKeeps, BrowserKeeps DEF Next

(* A session is one chain that ends for good, for every number of tabs that
   exchange its tokens at once: the claim of a rotation takes the one live token
   of the session, and nothing is inserted into it but by the rotation that
   holds the claim. *)
THEOREM SessionsHold == AccountsSpec => SessionsAreChains
<1>1. AccountsInit => ChainInv
  BY ChainInit DEF AccountsInit
<1>2. ChainInv /\ [AccountsNext]_everything => ChainInv' /\ (ChainKept \/ UNCHANGED vars)
  <2> SUFFICES ASSUME ChainInv, [AccountsNext]_everything
               PROVE  ChainInv' /\ (ChainKept \/ UNCHANGED vars)
    OBVIOUS
  <2>1. CASE Next
    BY <2>1, ChainStep DEF ChainKept
  <2>2. CASE UNCHANGED vars
    <3>1. UNCHANGED <<rows, jobs, browser, now>>
      BY <2>2 DEF vars, server
    <3> QED BY <2>2, <3>1, BrowserCalm, StillStep DEF ChainInv, ChainKept
  <2> QED BY <2>1, <2>2 DEF AccountsNext, everything
<1>3. ChainKept => /\ (OneSuccessor /\ ReuseEndsSession)'
                   /\ \A t \in Tokens : Over(rows[t].family) => Over(rows[t].family)'
                   /\ \A tab \in Tabs : Sweeps(tab)
  BY DEF ChainKept, ChainInv
<1> QED BY <1>1, <1>2, <1>3, PTL DEF AccountsSpec, SessionsAreChains, everything
-----------------------------------------------------------------------------
(* Of a session, one token was not exchanged yet, and none while a rotation of it
   is between its claim and its insert; and a sweep that took that token has taken
   the whole session. *)
HeadsOK ==
    /\ \A t, u \in Tokens :
          rows[t].family = rows[u].family /\ ~rows[t].rotated /\ ~rows[u].rotated => t = u
    /\ \A a \in Tabs : jobs[a].pc = "insert" =>
          \A t \in Tokens : rows[t].family = rows[jobs[a].token].family => rows[t].rotated
    /\ \A t, u \in Tokens :
          rows[t].family = rows[u].family /\ ~rows[t].rotated /\ rows[t].revoked # "none"
            => rows[u].revoked # "none"

(* The rows there were keep what they say, but for the mark of a sweep. *)
RowsStand ==
    /\ Len(rows) <= Len(rows') /\ Tokens \subseteq Tokens'
    /\ \A t \in Tokens : /\ rows'[t].family = rows[t].family
                         /\ rows'[t].rotated = rows[t].rotated
                         /\ rows[t].revoked # "none" => rows'[t].revoked # "none"

(* What a sweep marks, it marks with the whole session. *)
WholeSessions ==
    \A t, u \in Tokens :
        rows[t].family = rows[u].family /\ rows[t].revoked = "none" /\ rows'[t].revoked # "none"
          => rows'[u].revoked # "none"

LEMMA JobTokens ==
  ASSUME ChainInv
  PROVE  /\ Len(rows) \in Nat /\ Tokens = 1 .. Len(rows)
         /\ \A t \in Tokens : rows[t] \in Token /\ rows[t].family \in 1 .. t
         /\ \A a \in Tabs : jobs[a].pc \in Working => jobs[a].token \in Tokens
<1>1. /\ Len(rows) \in Nat /\ Tokens = 1 .. Len(rows)
      /\ \A t \in Tokens : rows[t] \in Token /\ rows[t].family \in 1 .. t
  BY RowFacts DEF ChainInv
<1>2. ASSUME NEW a \in Tabs, jobs[a].pc \in Working PROVE jobs[a].token \in Tokens
  <2>1. jobs[a].token \in 0 .. Len(rows) /\ jobs[a].token # 0
    BY <1>2 DEF ChainInv, JobsOK, JobOK, None
  <2> QED BY <1>1, <2>1
<1> QED BY <1>1, <1>2

LEMMA HeadsStay ==
  ASSUME ChainInv, HeadsOK, RowsStand, Tokens' = Tokens, WholeSessions, ClaimsNothing
  PROVE  HeadsOK'
<1>1. \A t, u \in Tokens :
         rows'[t].family = rows'[u].family /\ ~rows'[t].rotated /\ ~rows'[u].rotated => t = u
  BY DEF HeadsOK, RowsStand
<1>2. ASSUME NEW a \in Tabs, jobs'[a].pc = "insert"
      PROVE  \A t \in Tokens : rows'[t].family = rows'[jobs'[a].token].family => rows'[t].rotated
  <2>1. jobs'[a] = jobs[a] /\ jobs[a].token \in Tokens
    BY <1>2, JobTokens DEF ClaimsNothing, Working
  <2> QED BY <1>2, <2>1 DEF HeadsOK, RowsStand
<1>3. \A t, u \in Tokens :
         rows'[t].family = rows'[u].family /\ ~rows'[t].rotated /\ rows'[t].revoked # "none"
           => rows'[u].revoked # "none"
  BY DEF HeadsOK, RowsStand, WholeSessions
<1> QED BY <1>1, <1>2, <1>3 DEF HeadsOK

(* What is swept, and what is not touched, stands. *)
LEMMA SweepStands ==
  ASSUME ChainInv, NEW tokens \in SUBSET Tokens, NEW reason \in Reasons \ {"none"},
         Revoked(tokens, reason),
         \A t \in tokens, u \in Tokens : rows[t].family = rows[u].family => u \in tokens
  PROVE  /\ RowsStand /\ Tokens' = Tokens /\ WholeSessions
         /\ \A t \in Tokens : rows'[t].revoked =
               IF t \in tokens /\ rows[t].revoked = "none" THEN reason ELSE rows[t].revoked
<1>1. /\ RowsGrow /\ Tokens' = Tokens
      /\ \A t \in Tokens : rows'[t] = IF t \in tokens /\ rows[t].revoked = "none"
                                      THEN [rows[t] EXCEPT !.revoked = reason] ELSE rows[t]
  BY SweptRows DEF ChainInv
<1>2. \A t \in Tokens : /\ rows'[t].family = rows[t].family /\ rows'[t].rotated = rows[t].rotated
                        /\ rows'[t].revoked = (IF t \in tokens /\ rows[t].revoked = "none"
                                               THEN reason ELSE rows[t].revoked)
  BY <1>1, JobTokens DEF Token
<1>3. RowsStand
  BY <1>1, <1>2 DEF RowsStand, RowsGrow
<1>4. WholeSessions
  BY <1>2 DEF WholeSessions
<1> QED BY <1>1, <1>2, <1>3, <1>4

LEMMA StillStands ==
  ASSUME ChainInv, UNCHANGED rows PROVE RowsStand /\ Tokens' = Tokens /\ WholeSessions
<1>1. Tokens' = Tokens
  BY DEF Tokens
<1> QED BY <1>1, JobTokens DEF RowsStand, WholeSessions
LEMMA OneMoved ==
  ASSUME ChainInv, NEW tab \in Tabs, NEW j, jobs' = [jobs EXCEPT ![tab] = j]
  PROVE  \A q \in Tabs : jobs'[q] = IF q = tab THEN j ELSE jobs[q]
  BY DEF ChainInv, JobsOK

(* Where the jobs of the tabs go: one of them at a time, and to its insert with a
   claim only. *)
LEMMA JobsMove ==
  ASSUME ChainInv, NEW tab \in Tabs, Server(tab) \/ Browser(tab), ~RotateClaim(tab)
  PROVE  \E j : /\ jobs' = [jobs EXCEPT ![tab] = j] /\ (j.pc = "insert" => j = jobs[tab])
<1> DEFINE Good == \E j : /\ jobs' = [jobs EXCEPT ![tab] = j] /\ (j.pc = "insert" => j = jobs[tab])
<1>0. jobs = [jobs EXCEPT ![tab] = jobs[tab]]
  BY DEF ChainInv, JobsOK
<1>1. ASSUME NEW pc \in {"rejected", "dead", "none"}, Finished(tab, pc) PROVE Good
  <2>1. PICK j : jobs' = [jobs EXCEPT ![tab] = j] /\ j.pc \in {"rejected", "dead", "none"}
    BY <1>1, Answers DEF Finished
  <2> QED BY <2>1
<1>2. ASSUME NEW pc \in {"claim", "reuse", "invalidate"}, Goto(tab, pc), jobs[tab].pc \in Working
      PROVE Good
  <2>1. [jobs[tab] EXCEPT !.pc = pc].pc = pc
    BY <1>2, GoesOn
  <2> QED BY <1>2, <2>1 DEF Goto
<1>3. ASSUME NEW pc \in {"login", "logout", "refresh"}, NEW t, Start(tab, pc, t) PROVE Good
  <2> DEFINE j == [pc |-> pc, token |-> t, next |-> None, access |-> None]
  <2>1. j.pc # "insert" /\ jobs' = [jobs EXCEPT ![tab] = j]
    BY <1>3 DEF Start
  <2> HIDE DEF j
  <2> QED BY <2>1
<1>4. CASE RotateFind(tab) \/ RotateReuse(tab)
  BY <1>1, <1>2, <1>4 DEF RotateFind, RotateReuse, Job, Working
<1>5. CASE RotateInsert(tab)
  <2>1. jobs[tab] \in [pc : JobPlaces, token : 0 .. Len(rows), next : 0 .. Len(rows), access : Nat]
    BY DEF ChainInv, JobsOK, JobOK
  <2> DEFINE k == jobs[tab]
             j == [[k EXCEPT !.pc = "recheck"] EXCEPT !.next = Len(rows) + 1]
  <2>2. j.pc = "recheck"
    BY <2>1
  <2>3. jobs' = [jobs EXCEPT ![tab] = j]
    BY <1>5 DEF RotateInsert
  <2> HIDE DEF j
  <2> QED BY <2>2, <2>3
<1>6. CASE RotateRecheck(tab)
  <2>1. CASE Goto(tab, "reuse")
    BY <1>2, <1>6, <2>1 DEF RotateRecheck, Job, Working
  <2>2. CASE jobs' = [jobs EXCEPT ![tab].pc = "granted", ![tab].access = now]
    <3>1. jobs[tab] \in [pc : JobPlaces, token : 0 .. Len(rows), next : 0 .. Len(rows), access : Nat]
      BY DEF ChainInv, JobsOK, JobOK
    <3> DEFINE k == jobs[tab]
               j == [[k EXCEPT !.pc = "granted"] EXCEPT !.access = now]
    <3>2. j.pc = "granted"
      BY <3>1
    <3>3. jobs' = [jobs EXCEPT ![tab] = j]
      BY <2>2
    <3> HIDE DEF j
    <3> QED BY <3>2, <3>3
  <2> QED BY <1>6, <2>1, <2>2 DEF RotateRecheck
<1>7. CASE Issue(tab)
  <2> DEFINE j == [pc |-> "granted", token |-> None, next |-> Len(rows) + 1, access |-> now]
  <2>1. j.pc # "insert" /\ jobs' = [jobs EXCEPT ![tab] = j]
    BY <1>7 DEF Issue
  <2> HIDE DEF j
  <2> QED BY <2>1
<1>8. CASE Revoke(tab) \/ LogoutInvalidates(tab) \/ JobDies(tab)
  BY <1>1, <1>2, <1>8 DEF Revoke, LogoutInvalidates, JobDies, Job, Working
<1>9. CASE Request(tab) \/ ReadClaim(tab) \/ Waited(tab) \/ Retry(tab)
  BY <1>0, <1>9 DEF Request, ReadClaim, Waited, Retry, TabStep, server
<1>10. CASE SignIn(tab) \/ SignOut(tab) \/ Exchange(tab)
  BY <1>3, <1>10 DEF SignIn, SignOut, Exchange
<1>11. CASE Granted(tab) \/ Rejected(tab)
  BY <1>1, <1>11 DEF Granted, Rejected
<1>12. CASE Unreachable(tab) \/ Reload(tab)
  <2>1. NoJob.pc = "none"
    BY Answers
  <2> QED BY <1>0, <1>12, <2>1 DEF Unreachable, Reload, Abandoned
<1> QED BY <1>4, <1>5, <1>6, <1>7, <1>8, <1>9, <1>10, <1>11, <1>12 DEF Server, Browser

LEMMA NothingClaimed ==
  ASSUME ChainInv, NEW tab \in Tabs, Server(tab) \/ Browser(tab), ~RotateClaim(tab)
  PROVE  ClaimsNothing
<1>1. PICK j : jobs' = [jobs EXCEPT ![tab] = j] /\ (j.pc = "insert" => j = jobs[tab])
  BY JobsMove
<1> QED BY <1>1, OneMoved DEF ClaimsNothing

LEMMA OwnSession ==
  ASSUME ChainInv, NEW tab \in Tabs, jobs[tab].pc \in Working
  PROVE  /\ FamilyOf(jobs[tab].token) \in SUBSET Tokens
         /\ \A t \in FamilyOf(jobs[tab].token), u \in Tokens :
               rows[t].family = rows[u].family => u \in FamilyOf(jobs[tab].token)
  BY DEF FamilyOf

(* Granting writes only that a token was given. *)
LEMMA GivenStands ==
  ASSUME ChainInv, NEW next \in Tokens, rows' = [rows EXCEPT ![next].given = TRUE]
  PROVE  /\ RowsStand /\ Tokens' = Tokens /\ WholeSessions
         /\ \A t \in Tokens : rows'[t].revoked = rows[t].revoked
<1>1. \A t \in Tokens : rows'[t] = IF t = next THEN [rows[t] EXCEPT !.given = TRUE] ELSE rows[t]
  BY JobTokens DEF Tokens
<1>2. \A t \in Tokens : /\ rows'[t].family = rows[t].family /\ rows'[t].rotated = rows[t].rotated
                        /\ rows'[t].revoked = rows[t].revoked
  BY <1>1, JobTokens DEF Token
<1>3. Len(rows') = Len(rows) /\ Tokens' = Tokens
  BY DEF ChainInv, RowsOK, Tokens
<1> QED BY <1>2, <1>3, JobTokens DEF RowsStand, WholeSessions

(* The replacement, and the first token of a session. *)
LEMMA NewStands ==
  ASSUME ChainInv, NEW family \in 1 .. Len(rows) + 1, NEW row, rows' = Append(rows, row),
         row \in {Row(family), [Row(family) EXCEPT !.given = TRUE]}
  PROVE  /\ RowsStand /\ Len(rows') = Len(rows) + 1 /\ Tokens' = Tokens \cup {Len(rows) + 1}
         /\ Len(rows) + 1 \notin Tokens
         /\ rows'[Len(rows) + 1].family = family /\ rows'[Len(rows) + 1].revoked = "none"
         /\ ~rows'[Len(rows) + 1].rotated
         /\ \A t \in Tokens : rows'[t] = rows[t]
<1>0. family \in Nat /\ Len(rows) \in Nat
  BY JobTokens
<1>1. row \in Token /\ row.family = family /\ row.revoked = "none"
  BY <1>0, NewRow
<1>2. ~row.rotated
  <2> DEFINE plain == Row(family)
  <2>1. plain \in Token /\ plain.rotated = FALSE
    BY <1>0, NewRow DEF Row
  <2> HIDE DEF plain
  <2>2. [plain EXCEPT !.given = TRUE].rotated = FALSE
    BY <2>1 DEF Token
  <2> QED BY <2>1, <2>2 DEF plain
<1>3. /\ RowsGrow /\ Len(rows') = Len(rows) + 1
      /\ Tokens' = Tokens \cup {Len(rows) + 1} /\ Len(rows) + 1 \notin Tokens
      /\ rows'[Len(rows) + 1] = row
      /\ \A t \in Tokens : rows'[t] = rows[t]
  BY <1>0, <1>1, Appended DEF ChainInv
<1>4. RowsStand
  BY <1>0, <1>3 DEF RowsStand, RowsGrow
<1> QED BY <1>1, <1>2, <1>3, <1>4

LEMMA InsertAdds ==
  ASSUME ChainInv, NEW tab \in Tabs, RotateInsert(tab)
  PROVE  /\ jobs[tab].token \in Tokens
         /\ RowsStand /\ Len(rows') = Len(rows) + 1 /\ Tokens' = Tokens \cup {Len(rows) + 1}
         /\ Len(rows) + 1 \notin Tokens
         /\ rows'[Len(rows) + 1].family = rows[jobs[tab].token].family
         /\ rows'[Len(rows) + 1].revoked = "none" /\ ~rows'[Len(rows) + 1].rotated
         /\ \A t \in Tokens : rows'[t] = rows[t]
<1>1. jobs[tab].token \in Tokens
  BY JobTokens DEF RotateInsert, Job, Working
<1>2. rows[jobs[tab].token].family \in 1 .. Len(rows) + 1
  BY <1>1, JobTokens
<1>3. rows' = Append(rows, Row(rows[jobs[tab].token].family))
  BY DEF RotateInsert
<1> QED BY <1>1, <1>2, <1>3, NewStands

LEMMA IssueAdds ==
  ASSUME ChainInv, NEW tab \in Tabs, Issue(tab)
  PROVE  /\ RowsStand /\ Len(rows') = Len(rows) + 1 /\ Tokens' = Tokens \cup {Len(rows) + 1}
         /\ Len(rows) + 1 \notin Tokens
         /\ rows'[Len(rows) + 1].family = Len(rows) + 1
         /\ rows'[Len(rows) + 1].revoked = "none" /\ ~rows'[Len(rows) + 1].rotated
         /\ \A t \in Tokens : rows'[t] = rows[t]
<1>1. Len(rows) + 1 \in 1 .. Len(rows) + 1
  BY JobTokens
<1>2. rows' = Append(rows, [Row(Len(rows) + 1) EXCEPT !.given = TRUE])
  BY DEF Issue
<1> QED BY <1>1, <1>2, NewStands

LEMMA ClaimMarks ==
  ASSUME ChainInv, NEW tab \in Tabs, RotateClaim(tab), ~UNCHANGED rows
  PROVE  /\ jobs[tab].token \in Tokens /\ Live(jobs[tab].token) /\ jobs[tab].pc = "claim"
         /\ jobs' = [jobs EXCEPT ![tab] = [jobs[tab] EXCEPT !.pc = "insert"]]
         /\ Len(rows') = Len(rows) /\ Tokens' = Tokens
         /\ \A t \in Tokens : /\ rows'[t].family = rows[t].family
                              /\ rows'[t].rotated = (t = jobs[tab].token \/ rows[t].rotated)
                              /\ rows'[t].revoked = rows[t].revoked
<1> DEFINE own == jobs[tab].token
<1>1. /\ own \in Tokens /\ Live(own) /\ jobs[tab].pc = "claim"
      /\ rows' = [rows EXCEPT ![own].rotated = TRUE]
      /\ jobs' = [jobs EXCEPT ![tab] = [jobs[tab] EXCEPT !.pc = "insert"]]
  BY JobTokens DEF RotateClaim, Job, Working, Goto
<1>2. Len(rows') = Len(rows) /\ Tokens' = Tokens
  BY <1>1 DEF ChainInv, RowsOK, Tokens
<1>3. \A t \in Tokens : rows'[t] = IF t = own THEN [rows[t] EXCEPT !.rotated = TRUE] ELSE rows[t]
  BY <1>1, JobTokens DEF Tokens
<1>4. \A t \in Tokens : rows[t] \in Token
  BY JobTokens
<1> HIDE DEF own
<1>5. \A t \in Tokens : /\ rows'[t].family = rows[t].family
                        /\ rows'[t].rotated = (t = own \/ rows[t].rotated)
                        /\ rows'[t].revoked = rows[t].revoked
  BY <1>3, <1>4 DEF Token
<1> QED BY <1>1, <1>2, <1>5 DEF own
LEMMA HeadsClaim ==
  ASSUME ChainInv, HeadsOK, NEW tab \in Tabs, RotateClaim(tab) PROVE HeadsOK'
<1>1. CASE UNCHANGED rows
  <2>1. \/ jobs' = [jobs EXCEPT ![tab] = [jobs[tab] EXCEPT !.pc = "reuse"]]
        \/ Live(jobs[tab].token)
    BY DEF RotateClaim, Goto
  <2>2. ~Live(jobs[tab].token)
    <3>1. jobs[tab].token \in Tokens
      BY JobTokens DEF RotateClaim, Job, Working
    <3> SUFFICES ASSUME Live(jobs[tab].token) PROVE FALSE
      OBVIOUS
    <3>2. rows' = [rows EXCEPT ![jobs[tab].token].rotated = TRUE]
      BY DEF RotateClaim
    <3>3. rows'[jobs[tab].token].rotated = TRUE
      BY <3>1, <3>2, JobTokens DEF Tokens, Token
    <3> QED BY <1>1, <3>3 DEF Live
  <2> DEFINE j == [jobs[tab] EXCEPT !.pc = "reuse"]
  <2>3. j.pc = "reuse"
    BY GoesOn DEF RotateClaim, Job, Working
  <2>5. jobs' = [jobs EXCEPT ![tab] = j]
    BY <2>1, <2>2
  <2> HIDE DEF j
  <2>6. \A q \in Tabs : jobs'[q] = IF q = tab THEN j ELSE jobs[q]
    BY <2>5 DEF ChainInv, JobsOK
  <2>4. ClaimsNothing
    BY <2>3, <2>6 DEF ClaimsNothing
  <2> QED BY <1>1, <2>4, StillStands, HeadsStay
<1>2. CASE ~UNCHANGED rows
  <2> DEFINE own == jobs[tab].token
             j == [jobs[tab] EXCEPT !.pc = "insert"]
  <2>1. /\ own \in Tokens /\ Live(own) /\ jobs[tab].pc = "claim"
        /\ jobs' = [jobs EXCEPT ![tab] = j] /\ Tokens' = Tokens
        /\ \A t \in Tokens : /\ rows'[t].family = rows[t].family
                             /\ rows'[t].rotated = (t = own \/ rows[t].rotated)
                             /\ rows'[t].revoked = rows[t].revoked
    BY <1>2, ClaimMarks
  <2>2. j.token = own
    <3>1. jobs[tab] \in [pc : JobPlaces, token : 0 .. Len(rows), next : 0 .. Len(rows), access : Nat]
      BY DEF ChainInv, JobsOK, JobOK
    <3> QED BY <3>1
  <2> HIDE DEF j, own
  <2>3. \A q \in Tabs : jobs'[q] = IF q = tab THEN j ELSE jobs[q]
    BY <2>1 DEF ChainInv, JobsOK
  <2>4. \A q \in Tabs : jobs[q].pc = "insert" => jobs[q].token \in Tokens
    BY JobTokens DEF Working
  <2>5. \A t \in Tokens : rows[t].family = rows[own].family => t = own \/ rows[t].rotated
    BY <2>1 DEF HeadsOK, Live
  <2>6. ASSUME NEW a \in Tabs, jobs'[a].pc = "insert"
        PROVE  \A t \in Tokens : rows'[t].family = rows'[jobs'[a].token].family => rows'[t].rotated
    <3>1. CASE a = tab
      <4>1. jobs'[a].token = own
        BY <2>2, <2>3, <3>1
      <4> QED BY <2>1, <2>5, <4>1
    <3>2. CASE a # tab
      <4>1. /\ jobs'[a] = jobs[a] /\ jobs[a].pc = "insert" /\ jobs[a].token \in Tokens
            /\ rows'[jobs[a].token].family = rows[jobs[a].token].family
        BY <2>1, <2>3, <2>4, <2>6, <3>2
      <4>2. \A t \in Tokens : rows[t].family = rows[jobs[a].token].family => rows[t].rotated
        BY <4>1 DEF HeadsOK
      <4>3. rows'[jobs'[a].token].family = rows[jobs[a].token].family
        BY <4>1
      <4> SUFFICES ASSUME NEW t \in Tokens, rows'[t].family = rows[jobs[a].token].family PROVE rows'[t].rotated
        BY <4>3
      <4>4. rows'[t].family = rows[t].family /\ rows'[t].rotated = (t = own \/ rows[t].rotated)
        BY <2>1
      <4>5. rows[t].rotated
        BY <4>2, <4>4
      <4> QED BY <4>4, <4>5, Zenon
    <3> QED BY <3>1, <3>2
  <2>7. \A t, u \in Tokens :
           rows'[t].family = rows'[u].family /\ ~rows'[t].rotated /\ ~rows'[u].rotated => t = u
    BY <2>1 DEF HeadsOK
  <2>8. \A t, u \in Tokens :
           rows'[t].family = rows'[u].family /\ ~rows'[t].rotated /\ rows'[t].revoked # "none"
             => rows'[u].revoked # "none"
    <3> SUFFICES ASSUME NEW t \in Tokens, NEW u \in Tokens, rows'[t].family = rows'[u].family,
                        ~rows'[t].rotated, rows'[t].revoked # "none"
                 PROVE  rows'[u].revoked # "none"
      OBVIOUS
    <3>1. rows[t].family = rows[u].family /\ ~rows[t].rotated /\ rows[t].revoked # "none"
      BY <2>1
    <3> QED BY <2>1, <3>1 DEF HeadsOK
  <2> QED BY <2>1, <2>6, <2>7, <2>8 DEF HeadsOK
<1> QED BY <1>1, <1>2

LEMMA HeadsInsert ==
  ASSUME ChainInv, HeadsOK, NEW tab \in Tabs, RotateInsert(tab) PROVE HeadsOK'
<1> DEFINE own == jobs[tab].token
           n == Len(rows) + 1
<1>1. /\ own \in Tokens /\ Tokens' = Tokens \cup {n} /\ n \notin Tokens
      /\ rows'[n].family = rows[own].family /\ rows'[n].revoked = "none" /\ ~rows'[n].rotated
      /\ \A t \in Tokens : rows'[t] = rows[t]
  BY InsertAdds
<1>2. ~RotateClaim(tab) /\ jobs[tab].pc = "insert"
  BY DEF RotateClaim, RotateInsert, Job
<1>3. ClaimsNothing
  BY <1>2, NothingClaimed DEF Server
<1>4. \A t \in Tokens : rows[t].family = rows[own].family => rows[t].rotated
  BY <1>2 DEF HeadsOK
<1>5. jobs'[tab].pc # "insert"
  <2>1. PICK j : jobs' = [jobs EXCEPT ![tab] = j] /\ j.pc = "recheck"
    <3>1. jobs[tab] \in [pc : JobPlaces, token : 0 .. Len(rows), next : 0 .. Len(rows), access : Nat]
      BY DEF ChainInv, JobsOK, JobOK
    <3> DEFINE k == jobs[tab]
               j == [[k EXCEPT !.pc = "recheck"] EXCEPT !.next = Len(rows) + 1]
    <3>2. j.pc = "recheck"
      BY <3>1
    <3>3. jobs' = [jobs EXCEPT ![tab] = j]
      BY DEF RotateInsert
    <3> HIDE DEF j
    <3> QED BY <3>2, <3>3
  <2> QED BY <2>1 DEF ChainInv, JobsOK
<1>6. \A q \in Tabs : jobs[q].pc = "insert" => jobs[q].token \in Tokens
  BY JobTokens DEF Working
<1> HIDE DEF own, n
<1>7. ASSUME NEW a \in Tabs, jobs'[a].pc = "insert"
      PROVE  \A t \in Tokens' : rows'[t].family = rows'[jobs'[a].token].family => rows'[t].rotated
  <2>1. jobs'[a] = jobs[a] /\ a # tab /\ jobs[a].token \in Tokens
    BY <1>3, <1>5, <1>6, <1>7 DEF ClaimsNothing
  <2>2. rows[jobs[a].token].family # rows[own].family
    BY <1>2, <1>7, <2>1 DEF ChainInv, InsertsAlone, Job, own
  <2> QED BY <1>1, <1>7, <2>1, <2>2 DEF HeadsOK
<1>8. \A t, u \in Tokens' :
         rows'[t].family = rows'[u].family /\ ~rows'[t].rotated /\ ~rows'[u].rotated => t = u
  BY <1>1, <1>4 DEF HeadsOK
<1>9. \A t, u \in Tokens' :
         rows'[t].family = rows'[u].family /\ ~rows'[t].rotated /\ rows'[t].revoked # "none"
           => rows'[u].revoked # "none"
  BY <1>1, <1>4 DEF HeadsOK
<1> QED BY <1>7, <1>8, <1>9 DEF HeadsOK

LEMMA HeadsIssue ==
  ASSUME ChainInv, HeadsOK, NEW tab \in Tabs, Issue(tab) PROVE HeadsOK'
<1> DEFINE n == Len(rows) + 1
<1>1. /\ Tokens' = Tokens \cup {n} /\ n \notin Tokens
      /\ rows'[n].family = n /\ rows'[n].revoked = "none" /\ ~rows'[n].rotated
      /\ \A t \in Tokens : rows'[t] = rows[t]
  BY IssueAdds
<1>2. \A t \in Tokens : rows[t].family # n
  BY JobTokens
<1>3. ClaimsNothing
  BY NothingClaimed DEF Server, RotateClaim, Issue, Job
<1>4. \A q \in Tabs : jobs[q].pc = "insert" => jobs[q].token \in Tokens
  BY JobTokens DEF Working
<1> HIDE DEF n
<1>5. ASSUME NEW a \in Tabs, jobs'[a].pc = "insert"
      PROVE  \A t \in Tokens' : rows'[t].family = rows'[jobs'[a].token].family => rows'[t].rotated
  <2>1. jobs'[a] = jobs[a] /\ jobs[a].token \in Tokens
    BY <1>3, <1>4, <1>5 DEF ClaimsNothing
  <2> QED BY <1>1, <1>2, <1>5, <2>1 DEF HeadsOK
<1>6. \A t, u \in Tokens' :
         rows'[t].family = rows'[u].family /\ ~rows'[t].rotated /\ ~rows'[u].rotated => t = u
  BY <1>1, <1>2 DEF HeadsOK
<1>7. \A t, u \in Tokens' :
         rows'[t].family = rows'[u].family /\ ~rows'[t].rotated /\ rows'[t].revoked # "none"
           => rows'[u].revoked # "none"
  BY <1>1, <1>2 DEF HeadsOK
<1> QED BY <1>5, <1>6, <1>7 DEF HeadsOK

LEMMA RecheckMarks ==
  ASSUME ChainInv, NEW tab \in Tabs, RotateRecheck(tab)
  PROVE  /\ RowsStand /\ Tokens' = Tokens /\ WholeSessions
         /\ \A t \in Tokens : rows'[t].revoked = rows[t].revoked
<1>1. CASE UNCHANGED rows
  BY <1>1, StillStands
<1>2. CASE rows' = [rows EXCEPT ![jobs[tab].next].given = TRUE]
  <2>1. jobs[tab].next \in 0 .. Len(rows) /\ jobs[tab].next # 0
    BY DEF ChainInv, JobsOK, JobOK, RotateRecheck, Job, None
  <2>2. PICK next \in Tokens : next = jobs[tab].next
    BY <2>1, JobTokens
  <2> QED BY <1>2, <2>2, GivenStands
<1> QED BY <1>1, <1>2 DEF RotateRecheck

LEMMA HeadsKeep == ASSUME ChainInv, HeadsOK, Next PROVE HeadsOK'
<1>1. CASE Tick
  BY <1>1, StillStands, HeadsStay DEF Tick, server, ClaimsNothing
<1>2. CASE ChangePassword
  <2>1. ClaimsNothing
    BY <1>2 DEF ChangePassword, ClaimsNothing
  <2>2. CASE Revoked(Tokens, "password_changed")
    BY <2>1, <2>2, SweepStands, HeadsStay DEF Reasons
  <2>3. CASE UNCHANGED rows
    BY <2>1, <2>3, StillStands, HeadsStay
  <2> QED BY <1>2, <2>2, <2>3 DEF ChangePassword, PasswordChanged
<1>3. ASSUME NEW tab \in Tabs, Server(tab) \/ Browser(tab) PROVE HeadsOK'
  <2>1. CASE RotateClaim(tab)
    BY <2>1, HeadsClaim
  <2>2. CASE RotateInsert(tab)
    BY <2>2, HeadsInsert
  <2>3. CASE Issue(tab)
    BY <2>3, HeadsIssue
  <2>4. CASE ~RotateClaim(tab) /\ ~RotateInsert(tab) /\ ~Issue(tab)
    <3>1. ClaimsNothing
      BY <1>3, <2>4, NothingClaimed
    <3>2. CASE RotateReuse(tab) \/ Revoke(tab)
      <4>1. jobs[tab].pc \in Working
        BY <3>2 DEF RotateReuse, Revoke, Job, Working
      <4>2. PICK reason \in Reasons \ {"none"} : Revoked(FamilyOf(jobs[tab].token), reason)
        BY <3>2 DEF RotateReuse, Revoke, Reasons
      <4> QED BY <3>1, <4>1, <4>2, OwnSession, SweepStands, HeadsStay
    <3>3. CASE RotateRecheck(tab)
      BY <3>1, <3>3, RecheckMarks, HeadsStay
    <3>4. CASE UNCHANGED rows
      BY <3>1, <3>4, StillStands, HeadsStay
    <3>5. CASE Browser(tab)
      <4>1. UNCHANGED rows
        BY <3>5 DEF Browser, SignIn, SignOut, Request, ReadClaim, Exchange, Granted, Rejected, Unreachable,
                    Reload, Waited, Retry, TabStep, server
      <4> QED BY <3>4, <4>1
    <3>6. CASE RotateFind(tab) \/ LogoutInvalidates(tab) \/ JobDies(tab)
      BY <3>4, <3>6 DEF RotateFind, LogoutInvalidates, JobDies
    <3> QED BY <1>3, <2>4, <3>2, <3>3, <3>5, <3>6 DEF Server
  <2> QED BY <2>1, <2>2, <2>3, <2>4
<1> QED BY <1>1, <1>2, <1>3 DEF Next

(* While no answer was lost and no two tabs raced for the claim.  What a tab
   presents, or is about to; what its job has for it. *)
Presents(k, t) == k.pc \in {"free", "exchanging"} /\ k.token = t /\ t # None
Offers(j, t) == j.pc \in {"recheck", "granted"} /\ j.next = t

(* A tab and its job are about one exchange, whose token is the head of its session
   until the claim; a logout is the only job whose tab does not wait. *)
Fits(k, j, table) ==
    /\ k.pc \in {"idle", "refresh", "retry"} => k.token = None
    /\ k.pc = "free" => ~table[k.token].rotated
    /\ k.pc # "exchanging" => j.pc \in {"none", "logout", "invalidate"}
    /\ k.pc = "exchanging" /\ k.token = None => j.pc \in {"login", "granted"}
    /\ k.pc = "exchanging" /\ k.token # None =>
          /\ j.pc \in {"refresh", "claim", "reuse", "insert", "recheck", "granted", "rejected"}
          /\ j.pc # "rejected" => j.token = k.token
          /\ j.pc \in {"refresh", "claim", "reuse"} => ~table[k.token].rotated
          /\ j.pc = "reuse" => table[k.token].revoked # "none"
    /\ j.pc \in {"recheck", "granted"} => ~table[j.next].rotated

NoReuse == \A t \in Tokens : rows[t].revoked # "reuse_detected"

(* No two tabs present one token, and what a job has to offer is nobody's yet. *)
Apartness ==
    \A a, b \in Tabs, t \in Tokens :
        /\ Presents(tabs[a], t) /\ Presents(tabs[b], t) => a = b
        /\ Offers(jobs[a], t) => ~Presents(tabs[b], t) /\ stored # t
        /\ Offers(jobs[a], t) /\ Offers(jobs[b], t) => a = b

(* The token in localStorage is exchanged under the claim, and by nobody else than
   a tab that will replace it. *)
Claimed ==
    \A a \in Tabs : tabs[a].pc = "exchanging" /\ Presents(tabs[a], stored) => claim # None
Current ==
    stored # None /\ rows[stored].rotated =>
        \E a \in Tabs : tabs[a].pc = "exchanging" /\ tabs[a].token = stored

TabsOK ==
    /\ \A a \in Tabs : Fits(tabs[a], jobs[a], rows)
    /\ NoReuse /\ Apartness /\ Claimed /\ Current

LEMMA Held ==
  ASSUME ChainInv
  PROVE  /\ stored \in Tokens \cup {None} /\ None \notin Tokens
         /\ \A a \in Tabs : /\ tabs[a].token \in Tokens \cup {None}
                            /\ tabs[a].pc = "free" => tabs[a].token # None
                            /\ jobs[a].pc \in {"recheck", "granted"} => jobs[a].next \in Tokens
<1>1. Len(rows) \in Nat /\ Tokens = 1 .. Len(rows)
  BY JobTokens
<1>2. stored \in 0 .. Len(rows)
  BY DEF ChainInv, BrowserOK
<1>3. ASSUME NEW a \in Tabs
      PROVE  /\ tabs[a].token \in 0 .. Len(rows) /\ (tabs[a].pc = "free" => tabs[a].token # None)
             /\ jobs[a].next \in 0 .. Len(rows)
             /\ jobs[a].pc \in {"recheck", "granted"} => jobs[a].next # None
  BY DEF ChainInv, BrowserOK, JobsOK, JobOK, At
<1> QED BY <1>1, <1>2, <1>3 DEF None

LEMMA NoneIsNoToken == ASSUME ChainInv' PROVE None \notin Tokens'
<1>1. rows' \in Seq(Token)
  BY DEF ChainInv, RowsOK
<1>2. DOMAIN rows' = 1 .. Len(rows') /\ Len(rows') \in Nat
  BY <1>1
<1> QED BY <1>2 DEF None, Tokens

LEMMA FitsOn ==
  ASSUME ChainInv, RowsStand, NEW a \in Tabs, Fits(tabs[a], jobs[a], rows)
  PROVE  Fits(tabs[a], jobs[a], rows')
<1>1. /\ tabs[a].token # None => tabs[a].token \in Tokens
      /\ tabs[a].pc = "free" => tabs[a].token # None
      /\ jobs[a].pc \in {"recheck", "granted"} => jobs[a].next \in Tokens
  BY Held
<1> QED BY <1>1 DEF Fits, RowsStand

(* A step of a job that exchanges nothing. *)
LEMMA ServerStays ==
  ASSUME ChainInv, ChainInv', TabsOK, UNCHANGED browser, RowsStand, NoReuse',
         NEW tab \in Tabs, NEW j, jobs' = [jobs EXCEPT ![tab] = j], Fits(tabs[tab], j, rows'),
         \A t \in Tokens' : Offers(j, t) => Offers(jobs[tab], t) \/ t \notin Tokens
  PROVE  TabsOK'
<1>1. \A q \in Tabs : jobs'[q] = IF q = tab THEN j ELSE jobs[q]
  BY OneMoved
<1>2. \A a \in Tabs : Fits(tabs'[a], jobs'[a], rows')
  <2> SUFFICES ASSUME NEW a \in Tabs PROVE Fits(tabs'[a], jobs'[a], rows')
    OBVIOUS
  <2>1. tabs'[a] = tabs[a]
    BY DEF browser
  <2>2. a # tab => Fits(tabs[a], jobs[a], rows')
    BY FitsOn DEF TabsOK
  <2> QED BY <1>1, <2>1, <2>2
<1>3. \A a \in Tabs, t \in Tokens' : Presents(tabs[a], t) => t \in Tokens
  BY Held DEF Presents
<1>4. \A a \in Tabs, t \in Tokens' : Offers(jobs[a], t) => t \in Tokens
  BY Held DEF Offers
<1>5. \A a \in Tabs, t \in Tokens' :
         Offers(jobs'[a], t) => \/ Offers(jobs[a], t)
                                \/ a = tab /\ t \notin Tokens
  BY <1>1
<1>6. UNCHANGED <<stored, claim, tabs>>
  BY DEF browser
<1>7. Apartness'
  <2> SUFFICES ASSUME NEW a \in Tabs, NEW b \in Tabs, NEW t \in Tokens'
               PROVE  /\ Presents(tabs'[a], t) /\ Presents(tabs'[b], t) => a = b
                      /\ Offers(jobs'[a], t) => ~Presents(tabs'[b], t) /\ stored' # t
                      /\ Offers(jobs'[a], t) /\ Offers(jobs'[b], t) => a = b
    BY DEF Apartness
  <2>1. CASE t \in Tokens
    <3>1. /\ Presents(tabs[a], t) /\ Presents(tabs[b], t) => a = b
          /\ Offers(jobs[a], t) => ~Presents(tabs[b], t) /\ stored # t
          /\ Offers(jobs[a], t) /\ Offers(jobs[b], t) => a = b
      BY <2>1 DEF TabsOK, Apartness
    <3> QED BY <1>5, <1>6, <2>1, <3>1
  <2>2. CASE t \notin Tokens
    <3>1. stored # t
      BY <2>2, Held, NoneIsNoToken
    <3>2. ~Presents(tabs[a], t) /\ ~Presents(tabs[b], t)
      BY <1>3, <2>2
    <3>3. (Offers(jobs'[a], t) => a = tab) /\ (Offers(jobs'[b], t) => b = tab)
      BY <1>4, <1>5, <2>2
    <3> QED BY <1>6, <3>1, <3>2, <3>3
  <2> QED BY <2>1, <2>2
<1>8. Claimed' /\ Current'
  <2>1. Claimed'
    BY <1>6 DEF TabsOK, Claimed
  <2>2. stored # None => rows'[stored].rotated = rows[stored].rotated
    BY Held DEF RowsStand
  <2>3. Current'
    BY <1>6, <2>2 DEF TabsOK, Current
  <2> QED BY <2>1, <2>3
<1> QED BY <1>2, <1>7, <1>8 DEF TabsOK

LEMMA AnsweredFits ==
  ASSUME ChainInv, TabsOK, RowsStand, NEW tab \in Tabs, Finished(tab, "rejected"),
         jobs[tab].pc \in {"refresh", "reuse", "invalidate"}
  PROVE  \E j : /\ jobs' = [jobs EXCEPT ![tab] = j] /\ Fits(tabs[tab], j, rows')
                /\ j.pc \notin {"recheck", "granted"}
<1>1. Fits(tabs[tab], jobs[tab], rows')
  BY FitsOn DEF TabsOK
<1>2. CASE tabs[tab].pc = "exchanging"
  <2> DEFINE j == [NoJob EXCEPT !.pc = "rejected"]
  <2>1. j.pc = "rejected" /\ jobs' = [jobs EXCEPT ![tab] = j]
    BY <1>2, Answers DEF Finished
  <2> HIDE DEF j
  <2>2. Fits(tabs[tab], j, rows')
    BY <1>1, <1>2, <2>1 DEF Fits
  <2> QED BY <2>1, <2>2
<1>3. CASE tabs[tab].pc # "exchanging"
  <2>1. NoJob.pc = "none" /\ jobs' = [jobs EXCEPT ![tab] = NoJob]
    BY <1>3, Answers DEF Finished
  <2>2. Fits(tabs[tab], NoJob, rows')
    BY <1>1, <1>3, <2>1 DEF Fits
  <2> QED BY <2>1, <2>2
<1> QED BY <1>2, <1>3

LEMMA WentOn ==
  ASSUME ChainInv, NEW tab \in Tabs, jobs[tab].pc \in Working,
         NEW pc \in {"claim", "reuse", "invalidate", "insert"}, Goto(tab, pc)
  PROVE  \E j : jobs' = [jobs EXCEPT ![tab] = j] /\ j.pc = pc /\ j.token = jobs[tab].token
<1> DEFINE j == [jobs[tab] EXCEPT !.pc = pc]
<1>1. j.pc = pc
  BY GoesOn
<1>2. j.token = jobs[tab].token
  <2>1. jobs[tab] \in [pc : JobPlaces, token : 0 .. Len(rows), next : 0 .. Len(rows), access : Nat]
    BY DEF ChainInv, JobsOK, JobOK
  <2> QED BY <2>1
<1>3. jobs' = [jobs EXCEPT ![tab] = j]
  BY DEF Goto
<1> HIDE DEF j
<1> QED BY <1>1, <1>2, <1>3

LEMMA NoReuseStays ==
  ASSUME ChainInv, NoReuse, Tokens' = Tokens, \A t \in Tokens : rows'[t].revoked # "reuse_detected"
  PROVE  NoReuse'
  BY DEF NoReuse

LEMMA FindTabs ==
  ASSUME ChainInv, ChainInv', TabsOK, NEW tab \in Tabs, RotateFind(tab) PROVE TabsOK'
<1>1. RowsStand /\ Tokens' = Tokens /\ NoReuse' /\ UNCHANGED <<browser, rows>> /\ jobs[tab].pc = "refresh"
  BY StillStands DEF RotateFind, ServerStep, TabsOK, NoReuse, Job
<1>2. CASE Finished(tab, "rejected")
  BY <1>1, <1>2, AnsweredFits, ServerStays DEF Offers
<1>3. CASE Goto(tab, "claim")
  <2>1. PICK j : jobs' = [jobs EXCEPT ![tab] = j] /\ j.pc = "claim" /\ j.token = jobs[tab].token
    BY <1>1, <1>3, WentOn DEF Working
  <2>2. Fits(tabs[tab], j, rows')
    BY <1>1, <2>1, FitsOn DEF Fits, TabsOK
  <2> QED BY <1>1, <2>1, <2>2, ServerStays DEF Offers
<1> QED BY <1>2, <1>3 DEF RotateFind

(* A token that is presented was revoked with its whole session, if at all. *)
LEMMA ReuseTabs ==
  ASSUME ChainInv, ChainInv', HeadsOK, TabsOK, NEW tab \in Tabs, RotateReuse(tab) PROVE TabsOK'
<1> DEFINE own == jobs[tab].token
<1>1. /\ jobs[tab].pc = "reuse" /\ own \in Tokens /\ Revoked(FamilyOf(own), "reuse_detected")
      /\ Finished(tab, "rejected") /\ UNCHANGED browser
  BY JobTokens DEF RotateReuse, Job, Working, ServerStep
<1>2. /\ RowsStand /\ Tokens' = Tokens
      /\ \A t \in Tokens : rows'[t].revoked =
            IF t \in FamilyOf(own) /\ rows[t].revoked = "none" THEN "reuse_detected" ELSE rows[t].revoked
  BY <1>1, OwnSession, SweepStands DEF Reasons, Working
<1>3. ~rows[own].rotated /\ rows[own].revoked # "none"
  <2>1. Fits(tabs[tab], jobs[tab], rows)
    BY DEF TabsOK
  <2> QED BY <1>1, <2>1 DEF Fits
<1>4. \A t \in FamilyOf(own) : rows[t].revoked # "none"
  BY <1>1, <1>3 DEF HeadsOK, FamilyOf
<1>5. NoReuse'
  BY <1>2, <1>4 DEF TabsOK, NoReuse
<1> QED BY <1>1, <1>2, <1>5, AnsweredFits, ServerStays DEF Offers

LEMMA RecheckTabs ==
  ASSUME ChainInv, ChainInv', TabsOK, NEW tab \in Tabs, RotateRecheck(tab) PROVE TabsOK'
<1>1. RowsStand /\ Tokens' = Tokens /\ \A t \in Tokens : rows'[t].revoked = rows[t].revoked
  BY RecheckMarks
<1>2. NoReuse' /\ UNCHANGED browser /\ jobs[tab].pc = "recheck"
  BY <1>1 DEF TabsOK, NoReuse, RotateRecheck, Job, ServerStep
<1>3. jobs' = [jobs EXCEPT ![tab].pc = "granted", ![tab].access = now]
  BY DEF RotateRecheck, FamilyOf, TabsOK, NoReuse
<1>4. jobs[tab] \in [pc : JobPlaces, token : 0 .. Len(rows), next : 0 .. Len(rows), access : Nat]
  BY DEF ChainInv, JobsOK, JobOK
<1> DEFINE k == jobs[tab]
           j == [[k EXCEPT !.pc = "granted"] EXCEPT !.access = now]
<1>5. j.pc = "granted" /\ j.token = jobs[tab].token /\ j.next = jobs[tab].next
  BY <1>4
<1>6. jobs' = [jobs EXCEPT ![tab] = j]
  BY <1>3
<1> HIDE DEF j
<1>7. Fits(tabs[tab], j, rows')
  BY <1>1, <1>2, <1>5, FitsOn DEF Fits, TabsOK
<1>8. PICK i : i = j
  OBVIOUS
<1>9. /\ jobs' = [jobs EXCEPT ![tab] = i] /\ Fits(tabs[tab], i, rows')
      /\ \A t \in Tokens' : Offers(i, t) => Offers(jobs[tab], t) \/ t \notin Tokens
  BY <1>2, <1>5, <1>6, <1>7, <1>8 DEF Offers
<1> QED BY <1>1, <1>2, <1>9, ServerStays

LEMMA InsertTabs ==
  ASSUME ChainInv, ChainInv', TabsOK, NEW tab \in Tabs, RotateInsert(tab) PROVE TabsOK'
<1>1. PICK n : n = Len(rows) + 1
  OBVIOUS
<1>2. /\ RowsStand /\ Tokens' = Tokens \cup {n} /\ n \notin Tokens
      /\ rows'[n].revoked = "none" /\ ~rows'[n].rotated
      /\ \A t \in Tokens : rows'[t] = rows[t]
  BY <1>1, InsertAdds
<1>3. NoReuse' /\ UNCHANGED browser /\ jobs[tab].pc = "insert"
  BY <1>2 DEF TabsOK, NoReuse, RotateInsert, Job, ServerStep
<1>4. jobs[tab] \in [pc : JobPlaces, token : 0 .. Len(rows), next : 0 .. Len(rows), access : Nat]
  BY DEF ChainInv, JobsOK, JobOK
<1> DEFINE k == jobs[tab]
           j == [[k EXCEPT !.pc = "recheck"] EXCEPT !.next = n]
<1>5. j.pc = "recheck" /\ j.token = jobs[tab].token /\ j.next = n
  BY <1>4
<1>6. jobs' = [jobs EXCEPT ![tab] = j]
  BY <1>1 DEF RotateInsert
<1> HIDE DEF j
<1>7. Fits(tabs[tab], j, rows')
  BY <1>2, <1>3, <1>5, FitsOn DEF Fits, TabsOK
<1>8. PICK i : i = j
  OBVIOUS
<1>9. /\ jobs' = [jobs EXCEPT ![tab] = i] /\ Fits(tabs[tab], i, rows')
      /\ \A t \in Tokens' : Offers(i, t) => Offers(jobs[tab], t) \/ t \notin Tokens
  BY <1>2, <1>5, <1>6, <1>7, <1>8 DEF Offers
<1> QED BY <1>2, <1>3, <1>9, ServerStays

LEMMA IssueTabs ==
  ASSUME ChainInv, ChainInv', TabsOK, NEW tab \in Tabs, Issue(tab) PROVE TabsOK'
<1>1. PICK n : n = Len(rows) + 1
  OBVIOUS
<1>2. /\ RowsStand /\ Tokens' = Tokens \cup {n} /\ n \notin Tokens
      /\ rows'[n].revoked = "none" /\ ~rows'[n].rotated
      /\ \A t \in Tokens : rows'[t] = rows[t]
  BY <1>1, IssueAdds
<1>3. NoReuse' /\ UNCHANGED browser /\ jobs[tab].pc = "login"
  BY <1>2 DEF TabsOK, NoReuse, Issue, Job, ServerStep
<1> DEFINE j == [pc |-> "granted", token |-> None, next |-> n, access |-> now]
<1>5. j.pc = "granted" /\ j.next = n /\ jobs' = [jobs EXCEPT ![tab] = j]
  BY <1>1 DEF Issue
<1> HIDE DEF j
<1>7. Fits(tabs[tab], j, rows')
  BY <1>2, <1>3, <1>5, FitsOn DEF Fits, TabsOK
<1>8. PICK i : i = j
  OBVIOUS
<1>9. /\ jobs' = [jobs EXCEPT ![tab] = i] /\ Fits(tabs[tab], i, rows')
      /\ \A t \in Tokens' : Offers(i, t) => Offers(jobs[tab], t) \/ t \notin Tokens
  BY <1>2, <1>5, <1>7, <1>8 DEF Offers
<1> QED BY <1>2, <1>3, <1>9, ServerStays

LEMMA RevokeTabs ==
  ASSUME ChainInv, ChainInv', TabsOK, NEW tab \in Tabs, Revoke(tab) PROVE TabsOK'
<1>1. /\ jobs[tab].pc = "logout" /\ Revoked(FamilyOf(jobs[tab].token), "logout")
      /\ Goto(tab, "invalidate") /\ UNCHANGED browser
  BY DEF Revoke, Job, ServerStep
<1>2. /\ RowsStand /\ Tokens' = Tokens
      /\ \A t \in Tokens : rows'[t].revoked =
            IF t \in FamilyOf(jobs[tab].token) /\ rows[t].revoked = "none" THEN "logout"
            ELSE rows[t].revoked
  BY <1>1, OwnSession, SweepStands DEF Reasons, Working
<1>3. NoReuse'
  BY <1>2 DEF TabsOK, NoReuse
<1>4. PICK j : jobs' = [jobs EXCEPT ![tab] = j] /\ j.pc = "invalidate"
  BY <1>1, WentOn DEF Working
<1>5. Fits(tabs[tab], j, rows')
  BY <1>1, <1>2, <1>4, FitsOn DEF Fits, TabsOK
<1> QED BY <1>1, <1>2, <1>3, <1>4, <1>5, ServerStays DEF Offers

LEMMA InvalidatesTabs ==
  ASSUME ChainInv, ChainInv', TabsOK, NEW tab \in Tabs, LogoutInvalidates(tab) PROVE TabsOK'
<1>1. /\ RowsStand /\ Tokens' = Tokens /\ NoReuse' /\ UNCHANGED browser
      /\ jobs[tab].pc = "invalidate" /\ Finished(tab, "rejected")
  BY StillStands DEF LogoutInvalidates, TabsOK, NoReuse, Job
<1> QED BY <1>1, AnsweredFits, ServerStays DEF Offers

(* Nothing of the tabs moves. *)
LEMMA QuietTabs ==
  ASSUME ChainInv, ChainInv', TabsOK, UNCHANGED <<browser, jobs>>, RowsStand, NoReuse',
         Tokens' = Tokens
  PROVE  TabsOK'
<1>1. UNCHANGED <<stored, claim, tabs, jobs>>
  BY DEF browser
<1>2. \A a \in Tabs : Fits(tabs'[a], jobs'[a], rows')
  BY <1>1, FitsOn DEF TabsOK
<1>3. Apartness' /\ Claimed'
  BY <1>1 DEF TabsOK, Apartness, Claimed
<1>4. Current'
  BY <1>1, Held DEF TabsOK, Current, RowsStand
<1> QED BY <1>2, <1>3, <1>4 DEF TabsOK

LEMMA PasswordTabs ==
  ASSUME ChainInv, ChainInv', TabsOK, ChangePassword PROVE TabsOK'
<1>1. UNCHANGED <<browser, jobs>>
  BY DEF ChangePassword
<1>2. CASE Revoked(Tokens, "password_changed")
  <2>1. /\ RowsStand /\ Tokens' = Tokens
        /\ \A t \in Tokens : rows'[t].revoked = IF t \in Tokens /\ rows[t].revoked = "none"
                                                THEN "password_changed" ELSE rows[t].revoked
    BY <1>2, SweepStands DEF Reasons
  <2>2. NoReuse'
    BY <2>1 DEF TabsOK, NoReuse
  <2> QED BY <1>1, <2>1, <2>2, QuietTabs
<1>3. CASE UNCHANGED rows
  <2>1. NoReuse'
    BY <1>3 DEF TabsOK, NoReuse, Tokens
  <2> QED BY <1>1, <1>3, <2>1, StillStands, QuietTabs
<1> QED BY <1>2, <1>3 DEF ChangePassword, PasswordChanged

(* The claim of a rotation: its tab presents the token, so nobody else does. *)
LEMMA ClaimTabs ==
  ASSUME ChainInv, ChainInv', TabsOK, NEW tab \in Tabs, RotateClaim(tab) PROVE TabsOK'
<1>0. UNCHANGED <<browser, stored, claim, tabs>>
  BY DEF RotateClaim, ServerStep, browser
<1> DEFINE own == jobs[tab].token
<1>1. /\ jobs[tab].pc = "claim" /\ own \in Tokens /\ Fits(tabs[tab], jobs[tab], rows)
  BY JobTokens DEF RotateClaim, Job, Working, TabsOK
<1>2. tabs[tab].pc = "exchanging" /\ tabs[tab].token = own /\ own # None /\ ~rows[own].rotated
  BY <1>1, Held DEF Fits
<1>3. CASE ~Live(own)
  <2>1. UNCHANGED rows /\ Goto(tab, "reuse") /\ rows[own].revoked # "none"
    BY <1>2, <1>3 DEF RotateClaim, Live
  <2>2. PICK j : jobs' = [jobs EXCEPT ![tab] = j] /\ j.pc = "reuse" /\ j.token = own
    BY <1>1, <2>1, WentOn DEF Working
  <2>3. Fits(tabs[tab], j, rows')
    BY <1>1, <1>2, <2>1, <2>2 DEF Fits
  <2>4. NoReuse'
    BY <2>1 DEF TabsOK, NoReuse, Tokens
  <2> QED BY <1>0, <2>1, <2>2, <2>3, <2>4, StillStands, ServerStays DEF Offers
<1>4. CASE Live(own)
  <2>1. Goto(tab, "insert") /\ rows' = [rows EXCEPT ![own].rotated = TRUE]
    BY <1>4 DEF RotateClaim
  <2>2. PICK j : jobs' = [jobs EXCEPT ![tab] = j] /\ j.pc = "insert" /\ j.token = own
    BY <1>1, <2>1, WentOn DEF Working
  <2>3. ~UNCHANGED rows
    <3>1. rows'[own].rotated = TRUE
      BY <1>1, <2>1, JobTokens DEF Tokens, Token
    <3> QED BY <1>2, <3>1
  <2>4. /\ Tokens' = Tokens
        /\ \A t \in Tokens : /\ rows'[t].family = rows[t].family
                             /\ rows'[t].rotated = (t = own \/ rows[t].rotated)
                             /\ rows'[t].revoked = rows[t].revoked
    BY <2>3, ClaimMarks
  <2>5. \A q \in Tabs : jobs'[q] = IF q = tab THEN j ELSE jobs[q]
    BY <2>2, OneMoved
  <2>6. Presents(tabs[tab], own)
    BY <1>2 DEF Presents
  <2> HIDE DEF own
  <2>7. ASSUME NEW a \in Tabs PROVE Fits(tabs[a], jobs'[a], rows')
    <3>1. CASE a = tab
      BY <1>2, <2>2, <2>5, <3>1 DEF Fits
    <3>2. CASE a # tab
      <4>1. ~Presents(tabs[a], own) /\ ~Offers(jobs[a], own)
        BY <1>1, <2>6, <3>2 DEF TabsOK, Apartness
      <4>2. /\ tabs[a].token \in Tokens \cup {None}
            /\ tabs[a].pc = "free" => tabs[a].token # None
            /\ jobs[a].pc \in {"recheck", "granted"} => jobs[a].next \in Tokens
            /\ Fits(tabs[a], jobs[a], rows) /\ jobs'[a] = jobs[a]
        BY <2>5, <3>2, Held DEF TabsOK
      <4>3. /\ tabs[a].pc \in {"free", "exchanging"} => tabs[a].token # own
            /\ jobs[a].pc \in {"recheck", "granted"} => jobs[a].next # own
        BY <1>2, <4>1, <4>2 DEF Presents, Offers
      <4>4. /\ tabs[a].pc \in {"free", "exchanging"} /\ tabs[a].token # None =>
                  /\ rows'[tabs[a].token].rotated = rows[tabs[a].token].rotated
                  /\ rows'[tabs[a].token].revoked = rows[tabs[a].token].revoked
            /\ jobs[a].pc \in {"recheck", "granted"} =>
                  rows'[jobs[a].next].rotated = rows[jobs[a].next].rotated
        <5>1. \A t \in Tokens : rows[t].rotated \in BOOLEAN
          BY JobTokens DEF Token
        <5>2. \A t \in Tokens : t # own => /\ rows'[t].rotated = rows[t].rotated
                                          /\ rows'[t].revoked = rows[t].revoked
          BY <2>4, <5>1
        <5> QED BY <4>2, <4>3, <5>2
      <4> QED BY <4>2, <4>4 DEF Fits
    <3> QED BY <3>1, <3>2
  <2>8. NoReuse'
    BY <2>4 DEF TabsOK, NoReuse
  <2>9. \A a \in Tabs, t \in Tokens : Offers(jobs'[a], t) => Offers(jobs[a], t)
    BY <2>2, <2>5 DEF Offers
  <2>10. Apartness' /\ Claimed'
    BY <1>0, <2>4, <2>9 DEF TabsOK, Apartness, Claimed
  <2>11. Current'
    <3>1. stored # None => rows'[stored].rotated = (stored = own \/ rows[stored].rotated)
      BY <2>4, Held
    <3> QED BY <1>0, <1>2, <3>1 DEF TabsOK, Current
  <2> QED BY <1>0, <2>7, <2>8, <2>10, <2>11 DEF TabsOK
<1> QED BY <1>3, <1>4

(* A token that nobody presents but the tab that was granted it. *)
Fresh(tab, t) ==
    /\ t \in Tokens /\ ~rows[t].rotated
    /\ \A b \in Tabs : ~Presents(tabs[b], t)
    /\ \A b \in Tabs \ {tab} : ~Offers(jobs[b], t)

(* A step of a tab that has no race to fear: it leaves localStorage as it is, under
   a claim when it exchanges, or it puts there nothing, or what it was granted. *)
Keeps(tab, k) ==
    /\ UNCHANGED stored /\ tabs[tab].pc # "exchanging"
    /\ \/ claim' # None
       \/ UNCHANGED claim /\ (k.pc = "exchanging" => k.token = None)
Replaces(tab, k) == k.token = None /\ (stored' = None \/ Fresh(tab, stored'))

LEMMA BrowserMoves ==
  ASSUME ChainInv, TabsOK, UNCHANGED rows, NEW tab \in Tabs, NEW k, NEW j,
         tabs' = [tabs EXCEPT ![tab] = k], jobs' = [jobs EXCEPT ![tab] = j],
         Fits(k, j, rows), j.pc \notin {"recheck", "granted"},
         \A t \in Tokens : Presents(k, t) =>
            /\ \A b \in Tabs \ {tab} : ~Presents(tabs[b], t)
            /\ \A b \in Tabs : ~Offers(jobs[b], t),
         Keeps(tab, k) \/ Replaces(tab, k)
  PROVE  TabsOK'
<1>1. \A q \in Tabs : jobs'[q] = IF q = tab THEN j ELSE jobs[q]
  BY OneMoved
<1>2. \A q \in Tabs : tabs'[q] = IF q = tab THEN k ELSE tabs[q]
  BY DEF ChainInv, BrowserOK
<1>3. Tokens' = Tokens /\ NoReuse'
  BY DEF TabsOK, NoReuse, Tokens
<1>4. \A a \in Tabs : Fits(tabs'[a], jobs'[a], rows')
  <2>1. \A a \in Tabs : Fits(tabs'[a], jobs'[a], rows)
    BY <1>1, <1>2 DEF TabsOK
  <2> QED BY <2>1
<1>5. \A a \in Tabs, t \in Tokens : Offers(jobs'[a], t) => a # tab /\ Offers(jobs[a], t)
  BY <1>1 DEF Offers
<1>6. \A a \in Tabs, t \in Tokens : Offers(jobs'[a], t) => stored' # t
  <2> SUFFICES ASSUME NEW a \in Tabs, NEW t \in Tokens, Offers(jobs'[a], t) PROVE stored' # t
    OBVIOUS
  <2>1. a # tab /\ Offers(jobs[a], t) /\ t # None
    BY <1>5, Held
  <2>2. CASE Keeps(tab, k)
    BY <2>1, <2>2 DEF Keeps, TabsOK, Apartness
  <2>3. CASE Replaces(tab, k)
    BY <2>1, <2>3 DEF Replaces, Fresh
  <2> QED BY <2>2, <2>3
<1>7. Apartness'
  <2> SUFFICES ASSUME NEW a \in Tabs, NEW b \in Tabs, NEW t \in Tokens
               PROVE  /\ Presents(tabs'[a], t) /\ Presents(tabs'[b], t) => a = b
                      /\ Offers(jobs'[a], t) => ~Presents(tabs'[b], t) /\ stored' # t
                      /\ Offers(jobs'[a], t) /\ Offers(jobs'[b], t) => a = b
    BY <1>3 DEF Apartness
  <2>1. /\ Presents(tabs[a], t) /\ Presents(tabs[b], t) => a = b
        /\ Offers(jobs[a], t) => ~Presents(tabs[b], t) /\ stored # t
        /\ Offers(jobs[a], t) /\ Offers(jobs[b], t) => a = b
    BY DEF TabsOK, Apartness
  <2>2. Presents(tabs'[a], t) /\ Presents(tabs'[b], t) => a = b
    BY <1>2, <2>1
  <2>3. Offers(jobs'[a], t) => ~Presents(tabs'[b], t)
    BY <1>2, <1>5, <2>1
  <2> QED BY <1>5, <1>6, <2>1, <2>2, <2>3
<1>8. Claimed' /\ Current'
  <2>1. CASE Keeps(tab, k)
    <3>1. Claimed'
      <4>1. CASE claim' # None
        BY <4>1 DEF Claimed
      <4>2. CASE UNCHANGED claim /\ (k.pc = "exchanging" => k.token = None)
        BY <1>2, <2>1, <4>2 DEF Keeps, TabsOK, Claimed, Presents
      <4> QED BY <2>1, <4>1, <4>2 DEF Keeps
    <3>2. Current'
      BY <1>2, <2>1 DEF Keeps, TabsOK, Current
    <3> QED BY <3>1, <3>2
  <2>2. CASE Replaces(tab, k)
    <3>1. Claimed'
      BY <1>2, <2>2 DEF Replaces, Fresh, Claimed, Presents
    <3>2. Current'
      BY <2>2 DEF Replaces, Fresh, Current
    <3> QED BY <3>1, <3>2
  <2> QED BY <2>1, <2>2
<1> QED BY <1>3, <1>4, <1>7, <1>8 DEF TabsOK

LEMMA TurnsAside ==
  ASSUME ChainInv, TabsOK, UNCHANGED <<rows, jobs, stored, claim>>, NEW tab \in Tabs, NEW k,
         tabs' = [tabs EXCEPT ![tab] = k], tabs[tab].pc # "exchanging",
         k.pc \in {"idle", "refresh", "retry", "waiting"}, k.pc # "waiting" => k.token = None
  PROVE  TabsOK'
<1>1. PICK j : j = jobs[tab]
  OBVIOUS
<1>2. jobs' = [jobs EXCEPT ![tab] = j]
  BY <1>1 DEF ChainInv, JobsOK
<1>3. Fits(tabs[tab], j, rows)
  BY <1>1 DEF TabsOK
<1>4. Fits(k, j, rows) /\ j.pc \notin {"recheck", "granted"}
  BY <1>3 DEF Fits
<1>5. Keeps(tab, k)
  BY DEF Keeps
<1>6. \A t : ~Presents(k, t)
  BY DEF Presents
<1> QED BY <1>2, <1>4, <1>5, <1>6, BrowserMoves

LEMMA TabGoes ==
  ASSUME ChainInv, NEW tab \in Tabs, NEW pc, Turn(tab, pc)
  PROVE  \E k : tabs' = [tabs EXCEPT ![tab] = k] /\ k.pc = pc /\ k.token = tabs[tab].token
<1> DEFINE c == tabs[tab]
           k == [c EXCEPT !.pc = pc]
<1>1. c \in [pc : Turns, access : Nat, token : 0 .. Len(rows)]
  BY TabFacts DEF TabOK
<1>2. k.pc = pc /\ k.token = c.token /\ tabs' = [tabs EXCEPT ![tab] = k]
  BY <1>1 DEF Turn
<1> HIDE DEF k
<1> QED BY <1>2

LEMMA NothingHeld == Tab.pc = "idle" /\ Tab.token = None /\ NoJob.pc = "none"
  BY DEF Tab, NoJob

LEMMA SimpleTabs ==
  ASSUME ChainInv, TabsOK, NEW tab \in Tabs, ~excused',
         Request(tab) \/ Reload(tab) \/ Waited(tab) \/ Retry(tab)
  PROVE  TabsOK'
<1>0. Fits(tabs[tab], jobs[tab], rows)
  BY DEF TabsOK
<1>1. CASE Request(tab)
  <2>1. PICK k : /\ tabs' = [tabs EXCEPT ![tab] = k] /\ k.pc = "refresh"
                 /\ k.token = tabs[tab].token
    BY <1>1, TabGoes DEF Request
  <2>2. tabs[tab].pc = "idle" /\ UNCHANGED <<rows, jobs, stored, claim>>
    BY <1>1 DEF Request, At, TabStep, server
  <2> QED BY <1>0, <2>1, <2>2, TurnsAside DEF Fits
<1>2. CASE Reload(tab)
  <2>1. tabs[tab].pc # "exchanging" /\ UNCHANGED <<rows, stored, claim>>
    BY <1>2 DEF Reload, Exchanging, At
  <2>2. UNCHANGED jobs
    BY <1>0, <1>2, <2>1 DEF Fits, Reload, Abandoned
  <2>3. PICK k : k = Tab
    OBVIOUS
  <2>4. tabs' = [tabs EXCEPT ![tab] = k] /\ k.pc = "idle" /\ k.token = None
    BY <1>2, <2>3, NothingHeld DEF Reload
  <2> QED BY <2>1, <2>2, <2>4, TurnsAside
<1>3. CASE Waited(tab)
  <2>1. PICK pc \in {"retry", "idle"} : tabs' = [tabs EXCEPT ![tab].token = None, ![tab].pc = pc]
    BY <1>3 DEF Waited
  <2>2. tabs[tab].pc = "waiting" /\ UNCHANGED <<rows, jobs, stored, claim>>
    BY <1>3 DEF Waited, At, TabStep, server
  <2> DEFINE c == tabs[tab]
             k == [[c EXCEPT !.token = None] EXCEPT !.pc = pc]
  <2>3. k.pc = pc /\ k.token = None
    <3>1. c \in [pc : Turns, access : Nat, token : 0 .. Len(rows)]
      BY TabFacts DEF TabOK
    <3> QED BY <3>1
  <2>4. tabs' = [tabs EXCEPT ![tab] = k]
    BY <2>1 DEF ChainInv, BrowserOK
  <2> HIDE DEF k
  <2>5. PICK i : i = k
    OBVIOUS
  <2>6. tabs' = [tabs EXCEPT ![tab] = i] /\ i.pc \in {"idle", "retry"} /\ i.token = None
    BY <2>3, <2>4, <2>5
  <2> QED BY <2>2, <2>6, TurnsAside
<1>4. CASE Retry(tab)
  <2>1. PICK k : /\ tabs' = [tabs EXCEPT ![tab] = k] /\ k.pc = "idle"
                 /\ k.token = tabs[tab].token
    BY <1>4, TabGoes DEF Retry
  <2>2. tabs[tab].pc = "retry" /\ UNCHANGED <<rows, jobs, stored, claim>>
    BY <1>4 DEF Retry, At, TabStep, server
  <2> QED BY <1>0, <2>1, <2>2, TurnsAside DEF Fits
<1> QED BY <1>1, <1>2, <1>3, <1>4

(* What a tab starts with is a job that has nothing to offer yet. *)
LEMMA Started ==
  ASSUME NEW tab, NEW pc, NEW token, Start(tab, pc, token)
  PROVE  \E j : jobs' = [jobs EXCEPT ![tab] = j] /\ j.pc = pc /\ j.token = token
<1> DEFINE j == [pc |-> pc, token |-> token, next |-> None, access |-> None]
<1>1. jobs' = [jobs EXCEPT ![tab] = j] /\ j.pc = pc /\ j.token = token
  BY DEF Start
<1> HIDE DEF j
<1> QED BY <1>1

LEMMA SignInTabs == ASSUME ChainInv, TabsOK, NEW tab \in Tabs, SignIn(tab) PROVE TabsOK'
<1>1. tabs[tab].pc = "idle" /\ Fits(tabs[tab], jobs[tab], rows) /\ UNCHANGED <<rows, stored, claim>>
  BY DEF SignIn, At, TabsOK
<1>2. PICK k : /\ tabs' = [tabs EXCEPT ![tab] = k] /\ k.pc = "exchanging"
               /\ k.token = tabs[tab].token
  BY TabGoes DEF SignIn
<1>3. PICK j : jobs' = [jobs EXCEPT ![tab] = j] /\ j.pc = "login" /\ j.token = None
  BY Started DEF SignIn
<1>4. k.token = None
  BY <1>1, <1>2 DEF Fits
<1>5. Fits(k, j, rows)
  BY <1>2, <1>3, <1>4 DEF Fits
<1>6. Keeps(tab, k) /\ \A t : ~Presents(k, t)
  BY <1>1, <1>4 DEF Keeps, Presents
<1> QED BY <1>1, <1>2, <1>3, <1>5, <1>6, BrowserMoves

LEMMA SignOutTabs == ASSUME ChainInv, TabsOK, NEW tab \in Tabs, SignOut(tab) PROVE TabsOK'
<1>1. PICK k : k = Tab
  OBVIOUS
<1>2. /\ tabs' = [tabs EXCEPT ![tab] = k] /\ k.pc = "idle" /\ k.token = None
      /\ UNCHANGED rows /\ stored' = None
  BY <1>1, NothingHeld DEF SignOut, ClearSession
<1>3. PICK j : jobs' = [jobs EXCEPT ![tab] = j] /\ j.pc = "logout" /\ j.token = stored
  BY Started DEF SignOut
<1>4. Fits(k, j, rows)
  BY <1>2, <1>3 DEF Fits
<1>5. Replaces(tab, k) /\ \A t : ~Presents(k, t)
  BY <1>2 DEF Replaces, Presents
<1> QED BY <1>2, <1>3, <1>4, <1>5, BrowserMoves

LEMMA RejectedTabs == ASSUME ChainInv, TabsOK, NEW tab \in Tabs, Rejected(tab) PROVE TabsOK'
<1>1. PICK k : k = Tab
  OBVIOUS
<1>2. /\ tabs' = [tabs EXCEPT ![tab] = k] /\ k.pc = "idle" /\ k.token = None
      /\ UNCHANGED rows /\ stored' = None
  BY <1>1, NothingHeld DEF Rejected, ClearSession
<1>3. PICK j : jobs' = [jobs EXCEPT ![tab] = j] /\ j.pc = "none"
  BY Answers DEF Rejected, Finished
<1>4. Fits(k, j, rows)
  BY <1>2, <1>3 DEF Fits
<1>5. Replaces(tab, k) /\ \A t : ~Presents(k, t)
  BY <1>2 DEF Replaces, Presents
<1> QED BY <1>2, <1>3, <1>4, <1>5, BrowserMoves

LEMMA GrantedTabs == ASSUME ChainInv, TabsOK, NEW tab \in Tabs, Granted(tab) PROVE TabsOK'
<1>1. PICK pc \in {"idle", "retry"} : SetSession(tab, pc)
  BY DEF Granted
<1> DEFINE n == [pc |-> pc, access |-> jobs[tab].access, token |-> None]
<1>2. /\ tabs' = [tabs EXCEPT ![tab] = n] /\ n.pc \in {"idle", "retry"} /\ n.token = None
      /\ UNCHANGED rows /\ stored' = jobs[tab].next
  BY <1>1 DEF Granted, SetSession
<1> HIDE DEF n
<1>3. PICK k : k = n
  OBVIOUS
<1>4. PICK j : jobs' = [jobs EXCEPT ![tab] = j] /\ j.pc = "none"
  BY Answers DEF Granted, Finished
<1>5. /\ tabs' = [tabs EXCEPT ![tab] = k] /\ k.pc \in {"idle", "retry"} /\ k.token = None
  BY <1>2, <1>3
<1>6. Fits(k, j, rows)
  BY <1>4, <1>5 DEF Fits
<1>7. PICK next \in Tokens : next = jobs[tab].next
  BY Held DEF Granted, Job
<1>8. Offers(jobs[tab], next) /\ ~rows[next].rotated
  BY <1>7 DEF Offers, Granted, Job, TabsOK, Fits
<1>9. Fresh(tab, next)
  BY <1>8 DEF Fresh, TabsOK, Apartness
<1>10. Replaces(tab, k) /\ \A t : ~Presents(k, t)
  BY <1>2, <1>5, <1>7, <1>9 DEF Replaces, Presents
<1> QED BY <1>2, <1>4, <1>5, <1>6, <1>10, BrowserMoves

LEMMA ExchangeTabs ==
  ASSUME ChainInv, TabsOK, now # None, NEW tab \in Tabs, Exchange(tab) PROVE TabsOK'
<1>1. tabs[tab].pc = "free" /\ UNCHANGED <<rows, stored>> /\ claim' = now
  BY DEF Exchange, At
<1>2. PICK k : /\ tabs' = [tabs EXCEPT ![tab] = k] /\ k.pc = "exchanging"
               /\ k.token = tabs[tab].token
  BY TabGoes DEF Exchange
<1>3. PICK j : jobs' = [jobs EXCEPT ![tab] = j] /\ j.pc = "refresh" /\ j.token = tabs[tab].token
  BY Started DEF Exchange
<1>4. tabs[tab].token # None /\ ~rows[tabs[tab].token].rotated
  BY <1>1, Held DEF TabsOK, Fits
<1>5. Fits(k, j, rows)
  BY <1>2, <1>3, <1>4 DEF Fits
<1>6. Keeps(tab, k)
  BY <1>1 DEF Keeps
<1>7. \A t \in Tokens : Presents(k, t) => Presents(tabs[tab], t)
  BY <1>1, <1>2 DEF Presents
<1>8. \A t \in Tokens : Presents(k, t) =>
         /\ \A b \in Tabs \ {tab} : ~Presents(tabs[b], t)
         /\ \A b \in Tabs : ~Offers(jobs[b], t)
  BY <1>7 DEF TabsOK, Apartness
<1> QED BY <1>1, <1>2, <1>3, <1>5, <1>6, <1>8, BrowserMoves

(* No tab can take a token another one presents: it is under the claim, or the two
   have raced. *)
LEMMA ReadClaimTabs ==
  ASSUME ChainInv, TabsOK, claim \in 0 .. now, NEW tab \in Tabs, ReadClaim(tab), ~excused'
  PROVE  TabsOK'
<1>1. /\ tabs[tab].pc = "refresh" /\ UNCHANGED <<rows, jobs, stored, claim>> /\ ~Raced(tab)
  BY DEF ReadClaim, At, server
<1>2. PICK pc \in {"idle", "waiting", "free"} :
         /\ tabs' = [tabs EXCEPT ![tab].token = stored, ![tab].pc = pc]
         /\ pc = "idle" => stored = None
         /\ pc = "free" => stored # None /\ ~Locked
  BY DEF ReadClaim
<1> DEFINE c == tabs[tab]
           n == [[c EXCEPT !.token = stored] EXCEPT !.pc = pc]
<1>3. n.pc = pc /\ n.token = stored
  <2>1. c \in [pc : Turns, access : Nat, token : 0 .. Len(rows)]
    BY TabFacts DEF TabOK
  <2> QED BY <2>1
<1>4. tabs' = [tabs EXCEPT ![tab] = n]
  BY <1>2 DEF ChainInv, BrowserOK
<1> HIDE DEF n
<1>5. PICK k : k = n
  OBVIOUS
<1>6. tabs' = [tabs EXCEPT ![tab] = k] /\ k.pc = pc /\ k.token = stored
  BY <1>3, <1>4, <1>5
<1>7. CASE pc # "free"
  BY <1>1, <1>2, <1>6, <1>7, TurnsAside
<1>8. CASE pc = "free"
  <2>1. stored \in Tokens /\ (claim # None => now - claim >= LockTtl)
    <3>1. now \in Nat /\ LockTtl \in Nat /\ claim \in Int
      BY TabFacts, TtlAssumption
    <3> QED BY <1>2, <1>8, <3>1, Held DEF Locked
  <2>2. \A b \in Tabs \ {tab} : ~Presents(tabs[b], stored)
    <3> SUFFICES ASSUME NEW b \in Tabs \ {tab}, Presents(tabs[b], stored) PROVE FALSE
      OBVIOUS
    <3>1. tabs[b].pc # "free"
      BY <1>1 DEF Raced, At
    <3>2. tabs[b].pc = "exchanging" /\ claim # None
      BY <3>1 DEF Presents, TabsOK, Claimed
    <3> QED BY <1>1, <2>1, <3>2 DEF Raced, At
  <2>3. ~Presents(tabs[tab], stored)
    BY <1>1 DEF Presents
  <2>4. \A b \in Tabs : ~(tabs[b].pc = "exchanging" /\ tabs[b].token = stored)
    BY <1>2, <1>8, <2>2, <2>3 DEF Presents
  <2>5. ~rows[stored].rotated
    BY <1>2, <1>8, <2>4 DEF TabsOK, Current
  <2>6. PICK j : j = jobs[tab]
    OBVIOUS
  <2>7. jobs' = [jobs EXCEPT ![tab] = j]
    BY <1>1, <2>6 DEF ChainInv, JobsOK
  <2>8. j.pc \in {"none", "logout", "invalidate"}
    BY <1>1, <2>6 DEF TabsOK, Fits
  <2>9. Fits(k, j, rows)
    BY <1>6, <1>8, <2>5, <2>8 DEF Fits
  <2>10. Keeps(tab, k)
    BY <1>1, <1>6, <1>8 DEF Keeps
  <2>11. \A t \in Tokens : Presents(k, t) =>
            /\ \A b \in Tabs \ {tab} : ~Presents(tabs[b], t)
            /\ \A b \in Tabs : ~Offers(jobs[b], t)
    BY <1>6, <2>2 DEF Presents, TabsOK, Apartness
  <2> QED BY <1>1, <1>6, <2>7, <2>8, <2>9, <2>10, <2>11, BrowserMoves
<1> QED BY <1>7, <1>8

LEMMA TabsStep ==
  ASSUME ChainInv, ChainInv', HeadsOK, TabsOK, now # None, claim \in 0 .. now, ~excused', Next
  PROVE  TabsOK'
<1>1. CASE Tick
  <2>1. UNCHANGED <<rows, jobs, browser>>
    BY <1>1 DEF Tick, server
  <2>2. NoReuse'
    BY <2>1 DEF TabsOK, NoReuse, Tokens
  <2> QED BY <2>1, <2>2, StillStands, QuietTabs
<1>2. CASE ChangePassword
  BY <1>2, PasswordTabs
<1>3. ASSUME NEW tab \in Tabs, Server(tab) PROVE TabsOK'
  <2>1. ~JobDies(tab)
    BY DEF JobDies
  <2> QED BY <1>3, <2>1, FindTabs, ClaimTabs, ReuseTabs, InsertTabs, RecheckTabs, IssueTabs,
             RevokeTabs, InvalidatesTabs DEF Server
<1>4. ASSUME NEW tab \in Tabs, Browser(tab) PROVE TabsOK'
  <2>1. ~Unreachable(tab)
    BY DEF Unreachable
  <2> QED BY <1>4, <2>1, SimpleTabs, SignInTabs, SignOutTabs, ReadClaimTabs, ExchangeTabs,
             GrantedTabs, RejectedTabs DEF Browser
<1> QED BY <1>1, <1>2, <1>3, <1>4 DEF Next

RangesOK ==
    /\ Tokens \subseteq 1 .. MaxTokens
    /\ now \in 1 .. MaxTime /\ claim \in 0 .. now /\ invalidated \in 0 .. now
    /\ events \in 0 .. MaxEvents /\ excused \in BOOLEAN
    /\ password \in {"none", "revoked", "done"}

LEMMA BrowserRows ==
  ASSUME NEW tab, Browser(tab)
  PROVE  UNCHANGED <<rows, invalidated, password, now>> /\ claim' \in {claim, None, now}
<1>1. CASE SignIn(tab) \/ SignOut(tab) \/ Request(tab) \/ ReadClaim(tab)
  BY <1>1 DEF SignIn, SignOut, ClearSession, Request, TabStep, ReadClaim, server
<1>2. CASE Exchange(tab) \/ Granted(tab) \/ Rejected(tab)
  BY <1>2 DEF Exchange, Granted, Rejected, ClearSession
<1>3. CASE Unreachable(tab) \/ Reload(tab) \/ Waited(tab) \/ Retry(tab)
  BY <1>3 DEF Unreachable, Reload, Waited, Retry, TabStep, server
<1> QED BY <1>1, <1>2, <1>3 DEF Browser

LEMMA ServerRows ==
  ASSUME ChainInv, NEW tab \in Tabs, Server(tab)
  PROVE  /\ UNCHANGED <<password, now, claim>> /\ invalidated' \in {invalidated, now}
         /\ \/ Tokens' = Tokens
            \/ Tokens' = Tokens \cup {Len(rows) + 1} /\ Len(rows) < MaxTokens
<1>1. CASE RotateFind(tab) \/ LogoutInvalidates(tab) \/ JobDies(tab)
  BY <1>1 DEF RotateFind, ServerStep, LogoutInvalidates, JobDies, browser, Tokens
<1>2. CASE RotateClaim(tab)
  <2>1. Tokens' = Tokens
    BY <1>2, ClaimMarks DEF Tokens
  <2> QED BY <1>2, <2>1 DEF RotateClaim, ServerStep, browser
<1>3. CASE RotateReuse(tab) \/ Revoke(tab)
  <2>1. jobs[tab].pc \in Working
    BY <1>3 DEF RotateReuse, Revoke, Job, Working
  <2>2. PICK reason \in Reasons \ {"none"} : Revoked(FamilyOf(jobs[tab].token), reason)
    BY <1>3 DEF RotateReuse, Revoke, Reasons
  <2>3. Tokens' = Tokens
    BY <2>1, <2>2, OwnSession, SweepStands
  <2> QED BY <1>3, <2>3 DEF RotateReuse, Revoke, ServerStep, browser
<1>4. CASE RotateInsert(tab) \/ Issue(tab)
  <2>1. Tokens' = Tokens \cup {Len(rows) + 1} /\ Len(rows) < MaxTokens
    BY <1>4, InsertAdds, IssueAdds DEF RotateInsert, Issue
  <2> QED BY <1>4, <2>1 DEF RotateInsert, Issue, ServerStep, browser
<1>5. CASE RotateRecheck(tab)
  BY <1>5, RecheckMarks DEF RotateRecheck, ServerStep, browser
<1> QED BY <1>1, <1>2, <1>3, <1>4, <1>5 DEF Server

LEMMA HistoryMoves ==
  ASSUME Next, events \in 0 .. MaxEvents, excused \in BOOLEAN
  PROVE  events' \in 0 .. MaxEvents /\ excused' \in BOOLEAN /\ (excused => excused')
<1>0. Happens => events' \in 0 .. MaxEvents
  BY BoundAssumption DEF Happens
<1>1. CASE Tick \/ ChangePassword
  BY <1>0, <1>1 DEF Tick, ChangePassword, PasswordChanged
<1>2. ASSUME NEW tab \in Tabs, Server(tab)
      PROVE  events' \in 0 .. MaxEvents /\ excused' \in {excused, TRUE}
  <2>1. CASE JobDies(tab)
    BY <1>0, <2>1 DEF JobDies
  <2>2. CASE ~JobDies(tab)
    <3>1. UNCHANGED <<events, excused>>
      BY <1>2, <2>2 DEF Server, RotateFind, RotateClaim, RotateReuse, RotateInsert, RotateRecheck, Issue,
                        Revoke, LogoutInvalidates, ServerStep
    <3> QED BY <3>1
  <2> QED BY <2>1, <2>2
<1>3. ASSUME NEW tab \in Tabs, Browser(tab)
      PROVE  /\ events' \in 0 .. MaxEvents
             /\ \/ excused' \in {excused, TRUE}
                \/ excused' = (excused \/ Raced(tab))
                \/ excused' = (excused \/ Exchanging(tab))
  <2>1. CASE SignIn(tab) \/ SignOut(tab) \/ Request(tab) \/ ReadClaim(tab)
    BY <1>0, <2>1 DEF SignIn, SignOut, Request, TabStep, ReadClaim
  <2>2. CASE Exchange(tab) \/ Granted(tab) \/ Rejected(tab)
    BY <2>2 DEF Exchange, Granted, Rejected
  <2>3. CASE Unreachable(tab) \/ Reload(tab) \/ Waited(tab) \/ Retry(tab)
    BY <1>0, <2>3 DEF Unreachable, Reload, Waited, Retry, TabStep
  <2> QED BY <1>3, <2>1, <2>2, <2>3 DEF Browser
<1>4. events' \in 0 .. MaxEvents
  BY <1>0, <1>1, <1>2, <1>3 DEF Next, Tick, ChangePassword, PasswordChanged
<1>5. \/ excused' \in {excused, TRUE}
      \/ \E tab \in Tabs : \/ excused' = (excused \/ Raced(tab))
                           \/ excused' = (excused \/ Exchanging(tab))
  BY <1>2, <1>3 DEF Next, Tick, ChangePassword
<1>6. excused' \in BOOLEAN /\ (excused => excused')
  BY <1>5
<1> QED BY <1>4, <1>6

LEMMA RangesStep == ASSUME ChainInv, RangesOK, Next PROVE RangesOK'
<1>0. now \in Nat /\ MaxTime \in Nat /\ MaxTokens \in Nat /\ Len(rows) \in Nat
  BY TabFacts, JobTokens, BoundAssumption
<1>1. events' \in 0 .. MaxEvents /\ excused' \in BOOLEAN
  BY HistoryMoves DEF RangesOK
<1>2. CASE Tick
  BY <1>0, <1>1, <1>2 DEF Tick, RangesOK, server, browser, Tokens
<1>3. CASE ChangePassword
  <2>1. Tokens' = Tokens
    BY <1>3, SweepStands DEF ChangePassword, PasswordChanged, Reasons, Tokens
  <2> QED BY <1>0, <1>1, <1>3, <2>1 DEF ChangePassword, PasswordChanged, RangesOK, browser
<1>4. ASSUME NEW tab \in Tabs, Server(tab) PROVE RangesOK'
  <2>1. Tokens' \subseteq 1 .. MaxTokens
    <3>1. \/ Tokens' = Tokens
          \/ Tokens' = Tokens \cup {Len(rows) + 1} /\ Len(rows) < MaxTokens
      BY <1>4, ServerRows
    <3>2. Tokens \subseteq 1 .. MaxTokens
      BY DEF RangesOK
    <3>3. Len(rows) < MaxTokens => Len(rows) + 1 \in 1 .. MaxTokens
      BY <1>0
    <3>4. CASE Tokens' = Tokens
      BY <3>2, <3>4
    <3>5. CASE Tokens' = Tokens \cup {Len(rows) + 1} /\ Len(rows) < MaxTokens
      BY <3>2, <3>3, <3>5
    <3> QED BY <3>1, <3>4, <3>5
  <2> QED BY <1>0, <1>1, <1>4, <2>1, ServerRows DEF RangesOK
<1>5. ASSUME NEW tab \in Tabs, Browser(tab) PROVE RangesOK'
  BY <1>0, <1>1, <1>5, BrowserRows DEF RangesOK, Tokens, None
<1> QED BY <1>2, <1>3, <1>4, <1>5 DEF Next

(* The sessions of a user and the tabs that use them. *)
SessionsInv == ChainInv /\ HeadsOK /\ RangesOK /\ (~excused => TabsOK)

LEMMA SessionsInit == ASSUME Init PROVE SessionsInv
<1>1. rows = << >> /\ Tokens = {} /\ now = 1 /\ stored = None
  BY DEF Init, Tokens
<1>2. \A t \in Tabs : jobs[t] = NoJob /\ tabs[t] = Tab
  BY DEF Init
<1>3. HeadsOK
  BY <1>1 DEF HeadsOK
<1>4. RangesOK
  <2>1. /\ MaxTime \in Nat \ {0} /\ MaxEvents \in Nat
        /\ claim = 0 /\ invalidated = 0 /\ events = 0 /\ excused = FALSE /\ password = "none"
    BY BoundAssumption DEF Init, None
  <2>2. Tokens \subseteq 1 .. MaxTokens /\ now \in 1 .. MaxTime
    BY <1>1, <2>1
  <2>3. claim \in 0 .. now /\ invalidated \in 0 .. now /\ events \in 0 .. MaxEvents
    BY <1>1, <2>1
  <2>4. excused \in BOOLEAN
    BY <2>1
  <2> QED BY <2>1, <2>2, <2>3, <2>4 DEF RangesOK
<1>5. Fits(Tab, NoJob, rows)
  BY NothingHeld DEF Fits
<1>6. TabsOK
  <2>1. \A t \in Tabs : tabs[t].pc = "idle"
    BY <1>2, NothingHeld
  <2> QED BY <1>1, <1>2, <1>5, <2>1 DEF TabsOK, NoReuse, Apartness, Claimed, Current
<1> QED BY <1>3, <1>4, <1>6, ChainInit DEF SessionsInv

LEMMA SessionsStep == ASSUME SessionsInv, [Next]_vars PROVE SessionsInv'
<1>1. CASE Next
  <2>1. ChainInv' /\ HeadsOK' /\ RangesOK'
    BY <1>1, ChainStep, HeadsKeep, RangesStep DEF SessionsInv, ChainKept
  <2>2. ASSUME ~excused' PROVE TabsOK'
    <3>1. ~excused
      BY <1>1, <2>2, HistoryMoves DEF SessionsInv, RangesOK
    <3>2. now # None /\ claim \in 0 .. now
      BY DEF SessionsInv, RangesOK, None
    <3> QED BY <1>1, <2>1, <2>2, <3>1, <3>2, TabsStep DEF SessionsInv
  <2> QED BY <2>1, <2>2 DEF SessionsInv
<1>2. CASE UNCHANGED vars
  <2>1. UNCHANGED <<rows, invalidated, jobs, password, stored, claim, tabs, browser, now, events, excused>>
    BY <1>2 DEF vars, server, browser
  <2>2. ChainInv'
    <3>1. now' \in Nat
      BY <2>1, TabFacts DEF SessionsInv
    <3> QED BY <2>1, <3>1, BrowserCalm, StillStep DEF SessionsInv, ChainKept
  <2>3. HeadsOK' /\ RangesOK'
    BY <2>1 DEF SessionsInv, HeadsOK, RangesOK, Tokens
  <2>4. TabsOK => TabsOK'
    BY <2>1 DEF TabsOK, NoReuse, Apartness, Claimed, Current, Tokens
  <2> QED BY <2>1, <2>2, <2>3, <2>4 DEF SessionsInv
<1> QED BY <1>1, <1>2

LEMMA SessionsTyped == ASSUME SessionsInv PROVE TypeOK
<1>1. /\ Len(rows) \in Nat /\ Tokens = 1 .. Len(rows) /\ MaxTokens \in Nat /\ now \in Nat
      /\ \A t \in Tokens : rows[t] \in Token /\ rows[t].family \in 1 .. t
  BY JobTokens, TabFacts, BoundAssumption DEF SessionsInv
<1>2. Len(rows) <= MaxTokens
  BY <1>1 DEF SessionsInv, RangesOK
<1>3. ASSUME NEW t \in Tokens
      PROVE  rows[t] \in [family : 1..MaxTokens, rotated : BOOLEAN, revoked : Reasons,
                          given : BOOLEAN, expires : Nat]
  <2>1. rows[t].family \in 1 .. MaxTokens
    BY <1>1, <1>2
  <2> QED BY <1>1, <2>1 DEF Token
<1>4. rows \in Seq([family : 1..MaxTokens, rotated : BOOLEAN, revoked : Reasons,
                    given : BOOLEAN, expires : Nat])
  <2> DEFINE S == [family : 1..MaxTokens, rotated : BOOLEAN, revoked : Reasons,
                   given : BOOLEAN, expires : Nat]
  <2>1. rows = [t \in 1 .. Len(rows) |-> rows[t]]
    BY DEF SessionsInv, ChainInv, RowsOK
  <2>2. \A t \in 1 .. Len(rows) : rows[t] \in S
    BY <1>1, <1>3
  <2> HIDE DEF S
  <2>3. rows \in [1 .. Len(rows) -> S]
    BY <2>1, <2>2
  <2>4. rows \in Seq(S)
    BY <1>1, <2>3
  <2> QED BY <2>4 DEF S
<1>5. {stored} \cup {tabs[t].token : t \in Tabs} \subseteq Tokens \cup {None}
  BY Held DEF SessionsInv
<1>6. {jobs[t].token : t \in Tabs} \cup {jobs[t].next : t \in Tabs} \subseteq Tokens \cup {None}
  <2>1. \A t \in Tabs : jobs[t].token \in 0 .. Len(rows) /\ jobs[t].next \in 0 .. Len(rows)
    BY DEF SessionsInv, ChainInv, JobsOK, JobOK
  <2> QED BY <1>1, <2>1 DEF None
<1>7. now \in 1..MaxTime /\ {claim, invalidated} \subseteq 0..now /\ events \in 0..MaxEvents
  BY DEF SessionsInv, RangesOK
<1> QED BY <1>2, <1>4, <1>5, <1>6, <1>7 DEF TypeOK, SessionsInv, RangesOK

(* Unless an answer was lost or two tabs read the claim as free, the user's own
   tabs are never taken for a thief, and the token their browser stores was rotated
   only by an exchange whose answer is to come (refresh-lock.ts, client.ts). *)
THEOREM TabsHold == AccountsSpec => []TabsKeepUp
<1>1. AccountsInit => SessionsInv
  BY SessionsInit DEF AccountsInit
<1>2. SessionsInv /\ [AccountsNext]_everything => SessionsInv'
  BY SessionsStep DEF AccountsNext, everything
<1>3. SessionsInv => TabsKeepUp
  <2>1. ASSUME TabsOK PROVE NoSpuriousReuse /\ StorageCurrent
    BY <2>1 DEF TabsOK, NoReuse, Current, NoSpuriousReuse, StorageCurrent, Exchanging, At
  <2> QED BY <2>1 DEF SessionsInv, TabsKeepUp, NoSpuriousReuse, StorageCurrent
<1> QED BY <1>1, <1>2, <1>3, PTL DEF AccountsSpec, everything
-----------------------------------------------------------------------------
Change == [role : W!Roles \cup {"none"}, live : BOOLEAN]
Invitation == [person : People, role : W!Roles, accepted : BOOLEAN, revoked : BOOLEAN,
               expired : BOOLEAN]
Link == [spent : BOOLEAN, expired : BOOLEAN]

Inviting == {"supersede", "send"}
Redeeming == {"redeem", "password", "revoke"}
Naming == {"create", "duplicate"}

(* What a request has read is there. *)
RequestType(ni, nl) ==
    {W!Idle} \cup [pc : {"mint"}] \cup [pc : Naming]
    \cup [pc : Inviting, person : People, role : W!Roles]
    \cup [pc : {"claim"}, invitation : 1 .. ni]
    \cup [pc : {"guarded", "plain"}, person : People, change : Change]
    \cup [pc : {"assign"}, set : Sets, wanted : SUBSET Products]
    \cup [pc : Redeeming, link : 1 .. nl]

RequestsOK == /\ requests = [r \in Requests |-> requests[r]]
              /\ \A r \in Requests : requests[r] \in RequestType(Len(invitations), Len(links))

TeamOK ==
    /\ members \in [People -> Change]
    /\ invitations \in Seq(Invitation) /\ joins \in Seq(Nat) /\ Len(joins) = Len(invitations)
    /\ \A i \in DOMAIN joins : joins[i] = IF invitations[i].accepted THEN 1 ELSE 0
    /\ overwrote \in BOOLEAN /\ W!LastOwnerStays

UsageOK ==
    /\ sets \subseteq Sets /\ IsFiniteSet(sets) /\ assigned \subseteq Sets \X Products
    /\ limits \in [W!Metrics -> Nat] /\ peak \in [W!Metrics -> Nat]
    /\ \A m \in W!Metrics : limits[m] <= peak[m]

AccountOK == links \in Seq(Link) /\ settled \in 0 .. Len(links) /\ W!ResetClosesLinks

(* Seats and sets that are taken, with those that requests are about to take:
   one that has been counted for but not yet written, and an invitation that
   somebody has read as pending and may still accept. *)
Taken == {p \in People : members[p].live}
Offered == {i \in DOMAIN invitations :
              \/ W!Pending(invitations[i])
              \/ /\ ~invitations[i].accepted
                 /\ \E r \in Requests : requests[r].pc = "claim" /\ requests[r].invitation = i}
Inviters == {r \in Requests : requests[r].pc \in Inviting}
Creators == {r \in Requests : requests[r].pc = "create"}

(* A plan of zero lets in nobody but the founder. *)
Room(metric) == IF peak[metric] = 0 THEN 1 ELSE peak[metric] - 1 + Cardinality(Requests)

SeatsOK == Cardinality(Taken) + Cardinality(Offered) + Cardinality(Inviters) <= Room("team_seats")
SetsOK == Cardinality(sets) + Cardinality(Creators) <= Room("option_sets")

WorkspaceInv ==
    /\ TeamOK /\ UsageOK /\ AccountOK /\ RequestsOK /\ SeatsOK /\ SetsOK
    /\ work \in 0 .. MaxWork
-----------------------------------------------------------------------------
(* The workspace counts as everything does. *)
LEMMA SameSize == \A S : W!Cardinality(S) = Cardinality(S)
  BY Zenon DEF W!Cardinality, Cardinality

LEMMA Finite ==
  ASSUME TeamOK
  PROVE  /\ IsFiniteSet(Taken) /\ IsFiniteSet(Offered) /\ IsFiniteSet(Inviters)
         /\ IsFiniteSet(Creators)
         /\ Cardinality(Taken) \in Nat /\ Cardinality(Offered) \in Nat
         /\ Cardinality(Inviters) \in Nat /\ Cardinality(Creators) \in Nat
         /\ Cardinality(Requests) \in Nat
<1>1. IsFiniteSet(DOMAIN invitations)
  BY FS_Interval DEF TeamOK
<1>2. Taken \subseteq People /\ Offered \subseteq DOMAIN invitations
      /\ Inviters \subseteq Requests /\ Creators \subseteq Requests
  BY DEF Taken, Offered, Inviters, Creators
<1> QED BY <1>1, <1>2, FS_Subset, FS_CardinalityType, TeamAssumption

LEMMA OneMore ==
  ASSUME NEW S, IsFiniteSet(S), NEW x
  PROVE  IsFiniteSet(S \cup {x}) /\ Cardinality(S \cup {x}) <= Cardinality(S) + 1
<1>1. Cardinality(S) \in Nat
  BY FS_CardinalityType
<1>2. /\ IsFiniteSet(S \cup {x})
      /\ Cardinality(S \cup {x}) = IF x \in S THEN Cardinality(S) ELSE Cardinality(S) + 1
  BY FS_AddElement
<1> QED BY <1>1, <1>2

LEMMA SomeRequests ==
  Cardinality(Requests) \in Nat /\ Cardinality(Requests) >= 1
<1>1. Cardinality(Requests) \in Nat /\ Cardinality(Requests) # 0
  BY FS_CardinalityType, FS_EmptySet, TeamAssumption
<1> QED BY <1>1

LEMMA Rooms ==
  ASSUME UsageOK, NEW metric \in W!Metrics
  PROVE  Room(metric) \in Nat
<1>1. Cardinality(Requests) \in Nat
  BY SomeRequests
<1> QED BY <1>1 DEF Room, UsageOK

(* A plan's peak only ever rises, and room with it. *)
LEMMA RoomRises ==
  ASSUME UsageOK, UsageOK', NEW metric \in W!Metrics,
         peak[metric] <= peak'[metric]
  PROVE  Room(metric) <= Room(metric)'
<1>1. Cardinality(Requests) \in Nat /\ Cardinality(Requests) >= 1
  BY SomeRequests
<1> QED BY <1>1 DEF Room, UsageOK

LEMMA SeatsShrink ==
  ASSUME TeamOK, TeamOK', UsageOK, UsageOK', SeatsOK,
         peak["team_seats"] <= peak'["team_seats"],
         Taken' \subseteq Taken, Offered' \subseteq Offered, Inviters' \subseteq Inviters
  PROVE  SeatsOK'
<1>1. /\ Cardinality(Taken') <= Cardinality(Taken) /\ Cardinality(Offered') <= Cardinality(Offered)
      /\ Cardinality(Inviters') <= Cardinality(Inviters)
  BY Finite, FS_Subset
<1>2. /\ Cardinality(Taken') \in Nat /\ Cardinality(Offered') \in Nat /\ Cardinality(Inviters') \in Nat
      /\ Cardinality(Taken) \in Nat /\ Cardinality(Offered) \in Nat /\ Cardinality(Inviters) \in Nat
  <2>1. IsFiniteSet(Taken') /\ IsFiniteSet(Offered') /\ IsFiniteSet(Inviters')
    BY Finite, FS_Subset
  <2> QED BY <2>1, Finite, FS_CardinalityType
<1>3. Room("team_seats") \in Nat /\ Room("team_seats") <= Room("team_seats")'
  BY RoomRises, Rooms DEF W!Metrics
<1>4. Room("team_seats")' \in Nat
  <2>1. Cardinality(Requests) \in Nat
    BY FS_CardinalityType, TeamAssumption
  <2> QED BY <2>1 DEF Room, UsageOK, W!Metrics
<1> QED BY <1>1, <1>2, <1>3, <1>4 DEF SeatsOK

LEMMA SetsShrink ==
  ASSUME TeamOK, UsageOK, UsageOK', SetsOK,
         peak["option_sets"] <= peak'["option_sets"],
         sets' \subseteq sets, Creators' \subseteq Creators
  PROVE  SetsOK'
<1>1. Cardinality(sets') <= Cardinality(sets) /\ Cardinality(Creators') <= Cardinality(Creators)
  BY Finite, FS_Subset DEF UsageOK
<1>2. /\ Cardinality(sets') \in Nat /\ Cardinality(Creators') \in Nat
      /\ Cardinality(sets) \in Nat /\ Cardinality(Creators) \in Nat
  <2>1. IsFiniteSet(Creators')
    BY Finite, FS_Subset
  <2> QED BY <2>1, Finite, FS_CardinalityType DEF UsageOK
<1>3. Room("option_sets") \in Nat /\ Room("option_sets") <= Room("option_sets")'
  BY RoomRises, Rooms DEF W!Metrics
<1>4. Room("option_sets")' \in Nat
  <2>1. Cardinality(Requests) \in Nat
    BY FS_CardinalityType, TeamAssumption
  <2> QED BY <2>1 DEF Room, UsageOK, W!Metrics
<1> QED BY <1>1, <1>2, <1>3, <1>4 DEF SetsOK
-----------------------------------------------------------------------------
(* Requests.  One moves at a time; rows of invitations and links stay. *)
RowsOutlast == Len(invitations) <= Len(invitations') /\ Len(links) <= Len(links')

LEMMA RequestsStep ==
  ASSUME TeamOK, TeamOK', AccountOK, AccountOK', RowsOutlast, RequestsOK, NEW r \in Requests, NEW j,
         j \in RequestType(Len(invitations'), Len(links')), requests' = [requests EXCEPT ![r] = j]
  PROVE  RequestsOK' /\ \A q \in Requests : requests'[q] = IF q = r THEN j ELSE requests[q]
<1>1. RequestType(Len(invitations), Len(links)) \subseteq RequestType(Len(invitations'), Len(links'))
  BY DEF RequestType, TeamOK, AccountOK, RowsOutlast
<1>2. \A q \in Requests : requests'[q] = IF q = r THEN j ELSE requests[q]
  BY DEF RequestsOK
<1> QED BY <1>1, <1>2 DEF RequestsOK

LEMMA RequestsStay ==
  ASSUME TeamOK, TeamOK', AccountOK, AccountOK', RowsOutlast, RequestsOK, requests' = requests
  PROVE  RequestsOK'
<1>1. RequestType(Len(invitations), Len(links)) \subseteq RequestType(Len(invitations'), Len(links'))
  BY DEF RequestType, TeamOK, AccountOK, RowsOutlast
<1> QED BY <1>1 DEF RequestsOK

(* What a request knows, by where it is. *)
LEMMA RequestKnows ==
  ASSUME WorkspaceInv, NEW r \in Requests
  PROVE  /\ requests[r].pc \in Inviting => requests[r].person \in People /\ requests[r].role \in W!Roles
         /\ requests[r].pc = "claim" => requests[r].invitation \in DOMAIN invitations
         /\ requests[r].pc \in {"guarded", "plain"} => requests[r].person \in People /\ requests[r].change \in Change
         /\ requests[r].pc = "assign" => requests[r].set \in Sets /\ requests[r].wanted \subseteq Products
         /\ requests[r].pc \in Redeeming => requests[r].link \in DOMAIN links
<1>1. requests[r] \in RequestType(Len(invitations), Len(links))
  BY DEF WorkspaceInv, RequestsOK
<1>2. DOMAIN invitations = 1 .. Len(invitations) /\ DOMAIN links = 1 .. Len(links)
  BY DEF WorkspaceInv, TeamOK, AccountOK
<1> QED BY <1>1, <1>2 DEF RequestType, W!Idle, Naming, Inviting, Redeeming

(* A job that goes on keeps what it knows. *)
LEMMA Moved ==
  ASSUME NEW ni, NEW nl, NEW j \in RequestType(ni, nl), NEW pc,
         \/ j.pc \in Inviting /\ pc \in Inviting
         \/ j.pc \in Naming /\ pc \in Naming
         \/ j.pc \in Redeeming /\ pc \in Redeeming
  PROVE  [j EXCEPT !.pc = pc] \in RequestType(ni, nl)
<1>1. CASE j.pc \in Inviting /\ pc \in Inviting
  <2>1. j \in [pc : Inviting, person : People, role : W!Roles]
    BY <1>1 DEF RequestType, Inviting, Naming, Redeeming, W!Idle
  <2> QED BY <1>1, <2>1 DEF RequestType
<1>2. CASE j.pc \in Naming /\ pc \in Naming
  <2>1. j \in [pc : Naming]
    BY <1>2 DEF RequestType, Inviting, Naming, Redeeming, W!Idle
  <2> QED BY <1>2, <2>1 DEF RequestType
<1>3. CASE j.pc \in Redeeming /\ pc \in Redeeming
  <2>1. j \in [pc : Redeeming, link : 1 .. nl]
    BY <1>3 DEF RequestType, Inviting, Naming, Redeeming, W!Idle
  <2> QED BY <1>3, <2>1 DEF RequestType
<1> QED BY <1>1, <1>2, <1>3

LEMMA IdleOK == ASSUME NEW ni, NEW nl PROVE W!Idle \in RequestType(ni, nl)
  BY DEF RequestType

(* A request that is now somewhere nothing is counted. *)
Apart(j) == j.pc \notin Inviting \cup {"claim", "create"}

LEMMA SetAside ==
  ASSUME TeamOK, NEW r \in Requests, NEW j, Apart(j), UNCHANGED invitations,
         \A q \in Requests : requests'[q] = IF q = r THEN j ELSE requests[q]
  PROVE  Offered' \subseteq Offered /\ Inviters' \subseteq Inviters /\ Creators' \subseteq Creators
<1>1. Inviters' \subseteq Inviters /\ Creators' \subseteq Creators
  BY DEF Inviters, Creators, Apart
<1>2. \A q \in Requests : \A i : requests'[q].pc = "claim" /\ requests'[q].invitation = i
                               => requests[q].pc = "claim" /\ requests[q].invitation = i
  BY DEF Apart
<1>3. Offered' \subseteq Offered
  BY <1>2 DEF Offered, W!Pending, W!Outstanding
<1> QED BY <1>1, <1>3
-----------------------------------------------------------------------------
LEMMA TeamStays ==
  ASSUME TeamOK, UNCHANGED W!team
  PROVE  TeamOK' /\ Taken' = Taken /\ invitations' = invitations
  BY DEF TeamOK, W!team, W!LastOwnerStays, W!Owners, Taken

LEMMA UsageStays ==
  ASSUME UsageOK, UNCHANGED W!usage
  PROVE  UsageOK' /\ sets' = sets /\ peak' = peak
  BY DEF UsageOK, W!usage

LEMMA AccountStays ==
  ASSUME AccountOK, UNCHANGED W!account
  PROVE  AccountOK' /\ links' = links
  BY DEF AccountOK, W!account, W!ResetClosesLinks

(* Steps that count for nothing: of what a plan meters, no row is written and
   no request is about to write one. *)
LEMMA Uncounted ==
  ASSUME WorkspaceInv, TeamOK', AccountOK', RowsOutlast, UNCHANGED invitations, Taken' \subseteq Taken,
         UsageOK', sets' \subseteq sets, \A m \in W!Metrics : peak[m] <= peak'[m],
         work' \in 0 .. MaxWork,
         \/ requests' = requests
         \/ \E r \in Requests : \E j \in RequestType(Len(invitations'), Len(links')) :
               Apart(j) /\ requests' = [requests EXCEPT ![r] = j]
  PROVE  WorkspaceInv'
<1>1. CASE requests' = requests
  <2>1. RequestsOK'
    BY <1>1, RequestsStay DEF WorkspaceInv
  <2>2. Offered' \subseteq Offered /\ Inviters' \subseteq Inviters /\ Creators' \subseteq Creators
    BY <1>1 DEF Offered, Inviters, Creators, W!Pending, W!Outstanding
  <2> QED BY <2>1, <2>2, SeatsShrink, SetsShrink DEF WorkspaceInv, W!Metrics
<1>2. ASSUME NEW r \in Requests, NEW j \in RequestType(Len(invitations'), Len(links')), Apart(j),
             requests' = [requests EXCEPT ![r] = j]
      PROVE WorkspaceInv'
  <2>1. RequestsOK' /\ \A q \in Requests : requests'[q] = IF q = r THEN j ELSE requests[q]
    BY <1>2, RequestsStep DEF WorkspaceInv
  <2>2. Offered' \subseteq Offered /\ Inviters' \subseteq Inviters /\ Creators' \subseteq Creators
    BY <1>2, <2>1, SetAside DEF WorkspaceInv
  <2> QED BY <2>1, <2>2, SeatsShrink, SetsShrink DEF WorkspaceInv, W!Metrics
<1> QED BY <1>1, <1>2

LEMMA RequestStarted ==
  ASSUME WorkspaceInv, NEW r, NEW j, W!Start(r, j)
  PROVE  requests' = [requests EXCEPT ![r] = j] /\ work' \in 0 .. MaxWork
  BY TeamAssumption DEF WorkspaceInv, W!Start

LEMMA Quiet ==
  ASSUME WorkspaceInv, UNCHANGED <<W!team, W!usage, W!account>>, work' \in 0 .. MaxWork,
         NEW r \in Requests, NEW j \in RequestType(Len(invitations), Len(links)), Apart(j),
         requests' = [requests EXCEPT ![r] = j]
  PROVE  WorkspaceInv'
<1>1. /\ TeamOK' /\ Taken' = Taken /\ invitations' = invitations
      /\ UsageOK' /\ sets' = sets /\ peak' = peak /\ AccountOK' /\ links' = links
  BY TeamStays, UsageStays, AccountStays DEF WorkspaceInv
<1>2. RowsOutlast /\ \A m \in W!Metrics : peak[m] <= peak'[m]
  BY <1>1 DEF RowsOutlast, WorkspaceInv, TeamOK, AccountOK, UsageOK
<1> QED BY <1>1, <1>2, Uncounted

LEMMA AbortKeeps == ASSUME WorkspaceInv, NEW r \in Requests, W!Abort(r) PROVE WorkspaceInv'
<1>1. Apart(W!Idle) /\ W!Idle \in RequestType(Len(invitations), Len(links))
  BY IdleOK DEF Apart, W!Idle, Inviting
<1> QED BY <1>1, Quiet DEF W!Abort, W!Done, WorkspaceInv
-----------------------------------------------------------------------------
(* The team: what a member's row becomes. *)
LEMMA MemberReadKeeps ==
  ASSUME WorkspaceInv, NEW r \in Requests, NEW person \in People, NEW change \in Change,
         W!MemberRead(r, person, change)
  PROVE  WorkspaceInv'
<1> DEFINE guarded == members[person].role = "owner" /\ change # members[person]
           j == [pc |-> IF guarded THEN "guarded" ELSE "plain", person |-> person, change |-> change]
<1>1. W!Start(r, j) /\ UNCHANGED <<W!team, W!usage, W!account>>
  BY DEF W!MemberRead
<1>2. j \in RequestType(Len(invitations), Len(links)) /\ Apart(j)
  BY DEF RequestType, Apart, Inviting
<1> HIDE DEF j
<1> QED BY <1>1, <1>2, RequestStarted, Quiet

LEMMA WrittenKeeps ==
  ASSUME WorkspaceInv, NEW r \in Requests, W!Done(r), requests[r].pc \in {"guarded", "plain"},
         \/ members' = members \/ W!Changed(r),
         overwrote' \in BOOLEAN, W!LastOwnerStays',
         UNCHANGED <<invitations, joins, W!usage, W!account>>
  PROVE  WorkspaceInv'
<1>1. requests[r].person \in People /\ requests[r].change \in Change
  BY RequestKnows
<1>2. members' \in [People -> Change] /\ Taken' \subseteq Taken
  <2>0. members \in [People -> Change]
    BY DEF WorkspaceInv, TeamOK
  <2>1. CASE members' = members
    BY <2>0, <2>1 DEF Taken
  <2>2. CASE W!Changed(r)
    <3> DEFINE person == requests[r].person
               row == IF requests[r].change.live THEN [members[person] EXCEPT !.role = requests[r].change.role]
                      ELSE [members[person] EXCEPT !.live = FALSE]
    <3>1. members[person] \in Change
      BY <1>1, <2>0
    <3>2. row \in Change /\ (row.live => members[person].live)
      BY <1>1, <3>1 DEF Change
    <3>3. members' = [members EXCEPT ![person] = row]
      BY <2>2 DEF W!Changed
    <3> HIDE DEF row
    <3> QED BY <1>1, <2>0, <3>2, <3>3 DEF Taken
  <2> QED BY <2>1, <2>2
<1>3. TeamOK'
  BY <1>2 DEF WorkspaceInv, TeamOK
<1>4. UsageOK' /\ sets' = sets /\ peak' = peak /\ AccountOK' /\ links' = links
  BY UsageStays, AccountStays DEF WorkspaceInv
<1>5. RowsOutlast /\ \A m \in W!Metrics : peak[m] <= peak'[m]
  BY <1>4 DEF RowsOutlast, WorkspaceInv, TeamOK, AccountOK, UsageOK
<1>6. Apart(W!Idle) /\ W!Idle \in RequestType(Len(invitations'), Len(links'))
  BY IdleOK DEF Apart, W!Idle, Inviting
<1> QED BY <1>2, <1>3, <1>4, <1>5, <1>6, Uncounted DEF W!Done, WorkspaceInv

(* Two owners at least are read in the statement that writes one of them. *)
LEMMA GuardedKeeps == ASSUME WorkspaceInv, NEW r \in Requests, W!GuardedWrite(r) PROVE WorkspaceInv'
<1>1. requests[r].person \in People
  BY RequestKnows DEF W!GuardedWrite, W!At
<1>2. CASE W!NotTheLastOwner(requests[r].person)
  <2>1. W!Owners(members) \subseteq People /\ IsFiniteSet(W!Owners(members))
    BY FS_Subset, TeamAssumption DEF W!Owners
  <2>2. PICK q \in W!Owners(members) : q # requests[r].person
    <3>0. Cardinality({requests[r].person}) = 1
      BY FS_Singleton
    <3>1. W!Owners(members) # {requests[r].person}
      BY <1>2, <3>0, SameSize DEF W!NotTheLastOwner
    <3> QED BY <3>1, <1>2, SameSize DEF W!NotTheLastOwner
  <2>3. q \in People /\ members'[q] = members[q]
    BY <1>1, <1>2, <2>1, <2>2 DEF W!GuardedWrite, W!Changed, WorkspaceInv, TeamOK
  <2>4. W!LastOwnerStays'
    BY <2>2, <2>3 DEF W!LastOwnerStays, W!Owners
  <2> QED BY <1>2, <2>4, WrittenKeeps DEF W!GuardedWrite, W!At, WorkspaceInv, TeamOK
<1>3. CASE ~W!NotTheLastOwner(requests[r].person)
  <2>1. W!LastOwnerStays'
    BY <1>3 DEF W!GuardedWrite, W!LastOwnerStays, WorkspaceInv, TeamOK
  <2> QED BY <1>3, <2>1, WrittenKeeps DEF W!GuardedWrite, W!At, WorkspaceInv, TeamOK
<1> QED BY <1>2, <1>3

LEMMA PlainKeeps == ASSUME WorkspaceInv, NEW r \in Requests, W!PlainWrite(r) PROVE WorkspaceInv'
<1>1. requests[r].person \in People
  BY RequestKnows DEF W!PlainWrite, W!At
<1>2. W!LastOwnerStays' /\ overwrote' \in BOOLEAN
  <2>1. CASE requests[r].person \in W!Owners(members)
    BY <2>1 DEF W!PlainWrite, W!LastOwnerStays
  <2>2. CASE requests[r].person \notin W!Owners(members)
    <3>1. \A q \in People \ {requests[r].person} : members'[q] = members[q]
      BY <1>1 DEF W!PlainWrite, W!Changed, WorkspaceInv, TeamOK
    <3>2. W!Owners(members) \subseteq W!Owners(members')
      BY <2>2, <3>1 DEF W!Owners
    <3> QED BY <2>2, <3>2 DEF W!PlainWrite, W!LastOwnerStays, WorkspaceInv, TeamOK
  <2> QED BY <2>1, <2>2
<1> QED BY <1>2, WrittenKeeps DEF W!PlainWrite, W!At

(* A seat is offered when the count was under the limit: what may still be
   accepted of what no longer counts has a request each. *)
LEMMA OfferedBound ==
  ASSUME WorkspaceInv, NEW n \in Nat,
         n = Cardinality({i \in DOMAIN invitations : W!Pending(invitations[i])})
  PROVE  Cardinality(Offered) <= n + Cardinality({r \in Requests : requests[r].pc = "claim"})
<1> DEFINE pending == {i \in DOMAIN invitations : W!Pending(invitations[i])}
           stale == Offered \ pending
           claimants == {r \in Requests : requests[r].pc = "claim"}
           f == [i \in stale |-> CHOOSE r \in Requests : requests[r].pc = "claim" /\ requests[r].invitation = i]
<1>1. IsFiniteSet(Offered) /\ IsFiniteSet(pending) /\ IsFiniteSet(claimants)
  <2>1. pending \subseteq Offered /\ claimants \subseteq Requests
    BY DEF Offered
  <2> QED BY <2>1, Finite, FS_Subset, TeamAssumption DEF WorkspaceInv
<1>2. \A i \in stale : f[i] \in claimants /\ requests[f[i]].invitation = i
  BY DEF Offered
<1>3. f \in Injection(stale, claimants)
  BY <1>2 DEF Injection, IsInjective
<1>4. IsFiniteSet(stale) /\ Cardinality(stale) <= Cardinality(claimants)
  BY <1>1, <1>3, FS_Injection
<1>5. Offered = pending \cup stale /\ pending \cap stale = {}
  BY DEF Offered
<1>6. Cardinality(Offered) = Cardinality(pending) + Cardinality(stale)
  <2>1. Cardinality(pending \cup stale)
          = Cardinality(pending) + Cardinality(stale) - Cardinality(pending \cap stale)
    BY <1>1, <1>4, FS_Union
  <2>2. Cardinality(pending) \in Nat /\ Cardinality(stale) \in Nat
    BY <1>1, <1>4, FS_CardinalityType
  <2> HIDE DEF pending, stale
  <2> QED BY <2>1, <2>2, <1>5, FS_EmptySet
<1>7. Cardinality(stale) \in Nat /\ Cardinality(claimants) \in Nat /\ Cardinality(pending) = n
  BY <1>1, <1>4, FS_CardinalityType
<1> HIDE DEF stale, pending
<1> QED BY <1>4, <1>6, <1>7

LEMMA InviteCheckKeeps ==
  ASSUME WorkspaceInv, NEW r \in Requests, NEW by \in People, NEW person \in People,
         NEW role \in W!Roles, W!InviteCheck(r, by, person, role)
  PROVE  WorkspaceInv'
<1> DEFINE j == [pc |-> "supersede", person |-> person, role |-> role]
           pending == {i \in DOMAIN invitations : W!Pending(invitations[i])}
           claimants == {q \in Requests : requests[q].pc = "claim"}
<1>1. W!Start(r, j) /\ UNCHANGED <<W!team, W!usage, W!account>> /\ W!WithinPlan("team_seats") /\ W!At(r, "idle")
  BY DEF W!InviteCheck, W!Start
<1>2. /\ TeamOK' /\ Taken' = Taken /\ invitations' = invitations
      /\ UsageOK' /\ sets' = sets /\ peak' = peak /\ AccountOK' /\ links' = links
  BY <1>1, TeamStays, UsageStays, AccountStays DEF WorkspaceInv
<1>3. RowsOutlast
  BY <1>2 DEF RowsOutlast, WorkspaceInv, TeamOK, AccountOK
<1>4. j \in RequestType(Len(invitations'), Len(links'))
  BY DEF RequestType, Inviting
<1>5. requests' = [requests EXCEPT ![r] = j] /\ work' \in 0 .. MaxWork
  BY <1>1, RequestStarted
<1>6. RequestsOK' /\ \A q \in Requests : requests'[q] = IF q = r THEN j ELSE requests[q]
  <2> HIDE DEF j
  <2> QED BY <1>2, <1>3, <1>4, <1>5, RequestsStep DEF WorkspaceInv
<1>7. Creators' \subseteq Creators /\ Offered' \subseteq Offered
  BY <1>2, <1>6 DEF Creators, Offered, W!Pending, W!Outstanding
<1>8. SetsOK'
  BY <1>2, <1>7, SetsShrink DEF WorkspaceInv, UsageOK, W!Metrics
<1>9. SeatsOK'
  <2>0. IsFiniteSet(pending) /\ IsFiniteSet(claimants)
    <3>1. pending \subseteq Offered /\ claimants \subseteq Requests
      BY DEF Offered
    <3> QED BY <3>1, Finite, FS_Subset, TeamAssumption DEF WorkspaceInv
  <2>1. Cardinality(pending) \in Nat /\ Cardinality(claimants) \in Nat
    BY <2>0, FS_CardinalityType
  <2>2. Cardinality(Offered) <= Cardinality(pending) + Cardinality(claimants)
    BY <2>1, OfferedBound
  <2>3. Cardinality(Offered') <= Cardinality(Offered) /\ IsFiniteSet(Offered')
    BY <1>7, Finite, FS_Subset DEF WorkspaceInv
  <2>4. Cardinality(Inviters') + Cardinality(claimants) <= Cardinality(Requests)
    <3>1. Inviters' \subseteq Requests /\ Inviters' \cap claimants = {}
      BY <1>1, <1>6 DEF Inviters, W!At, Inviting
    <3>2. IsFiniteSet(Inviters') /\ (Inviters' \cup claimants) \subseteq Requests
      BY <3>1, FS_Subset, TeamAssumption
    <3>3. Cardinality(Inviters' \cup claimants) <= Cardinality(Requests)
      BY <3>2, FS_Subset, TeamAssumption
    <3>4. Cardinality(Inviters' \cup claimants)
            = Cardinality(Inviters') + Cardinality(claimants) - Cardinality(Inviters' \cap claimants)
      BY <2>0, <3>2, FS_Union
    <3>5. Cardinality(Inviters' \cap claimants) = 0
      BY <3>1, FS_EmptySet
    <3>6. Cardinality(Inviters') \in Nat
      BY <3>2, FS_CardinalityType
    <3> HIDE DEF claimants
    <3> QED BY <2>1, <3>3, <3>4, <3>5, <3>6
  <2>5. Cardinality(Taken) + Cardinality(pending) < limits["team_seats"]
    BY <1>1, SameSize DEF W!WithinPlan, W!Count, Taken
  <2>6. limits["team_seats"] \in Nat /\ peak["team_seats"] \in Nat
        /\ limits["team_seats"] <= peak["team_seats"]
    BY DEF WorkspaceInv, UsageOK, W!Metrics
  <2>7. /\ Cardinality(Taken) \in Nat /\ Cardinality(Offered) \in Nat
        /\ Cardinality(Offered') \in Nat /\ Cardinality(Inviters') \in Nat /\ Cardinality(Requests) \in Nat
    <3>1. Inviters' \subseteq Requests
      BY DEF Inviters
    <3> QED BY <2>3, <3>1, Finite, FS_Subset, FS_CardinalityType, TeamAssumption DEF WorkspaceInv
  <2>8. Cardinality(Taken') + Cardinality(Offered') + Cardinality(Inviters')
          <= peak["team_seats"] - 1 + Cardinality(Requests)
    <3> HIDE DEF pending, claimants
    <3> QED BY <1>2, <2>1, <2>2, <2>3, <2>4, <2>5, <2>6, <2>7
  <2>9. peak'["team_seats"] # 0
    <3> HIDE DEF pending
    <3> QED BY <1>2, <2>1, <2>5, <2>6, <2>7
  <2> QED BY <1>2, <2>8, <2>9 DEF SeatsOK, Room
<1> QED BY <1>2, <1>5, <1>6, <1>8, <1>9 DEF WorkspaceInv

(* Invitations withdrawn or out of time.  What has been accepted stays so. *)
LEMMA WithdrawnKeeps ==
  ASSUME WorkspaceInv,
         invitations' \in Seq(Invitation), Len(invitations') = Len(invitations),
         \A i \in DOMAIN invitations : /\ invitations'[i].accepted = invitations[i].accepted
                                       /\ W!Pending(invitations'[i]) => W!Pending(invitations[i]),
         UNCHANGED <<members, joins, overwrote, W!usage, W!account>>, work' \in 0 .. MaxWork,
         \/ requests' = requests
         \/ \E r \in Requests : \E pc \in Inviting :
               requests[r].pc \in Inviting /\ requests' = [requests EXCEPT ![r].pc = pc]
  PROVE  WorkspaceInv'
<1>0. /\ invitations \in Seq(Invitation) /\ DOMAIN invitations = 1 .. Len(invitations)
      /\ DOMAIN invitations' = DOMAIN invitations /\ DOMAIN joins = DOMAIN invitations
  BY DEF WorkspaceInv, TeamOK
<1>1. TeamOK' /\ Taken' = Taken
  BY <1>0 DEF WorkspaceInv, TeamOK, W!LastOwnerStays, W!Owners, Taken
<1>2. UsageOK' /\ sets' = sets /\ peak' = peak /\ AccountOK' /\ links' = links
  BY UsageStays, AccountStays DEF WorkspaceInv
<1>3. RowsOutlast
  BY <1>2 DEF RowsOutlast, WorkspaceInv, TeamOK, AccountOK
<1>4. /\ RequestsOK' /\ Inviters' \subseteq Inviters /\ Creators' \subseteq Creators
      /\ \A q \in Requests : \A i : requests'[q].pc = "claim" /\ requests'[q].invitation = i
                                 => requests[q].pc = "claim" /\ requests[q].invitation = i
  <2>1. CASE requests' = requests
    BY <1>1, <1>2, <1>3, <2>1, RequestsStay DEF WorkspaceInv, Inviters, Creators
  <2>2. ASSUME NEW r \in Requests, NEW pc \in Inviting, requests[r].pc \in Inviting,
               requests' = [requests EXCEPT ![r].pc = pc]
        PROVE  /\ RequestsOK' /\ Inviters' \subseteq Inviters /\ Creators' \subseteq Creators
               /\ \A q \in Requests : \A i : requests'[q].pc = "claim" /\ requests'[q].invitation = i
                                          => requests[q].pc = "claim" /\ requests[q].invitation = i
    <3>1. requests[r] \in RequestType(Len(invitations'), Len(links'))
      BY <1>2 DEF WorkspaceInv, RequestsOK
    <3>2. [requests[r] EXCEPT !.pc = pc] \in RequestType(Len(invitations'), Len(links'))
      BY <2>2, <3>1, Moved
    <3>3. PICK j \in RequestType(Len(invitations'), Len(links')) :
            requests' = [requests EXCEPT ![r] = j] /\ j.pc = pc
      <4>1. [requests[r] EXCEPT !.pc = pc].pc = pc
        BY <2>2, <3>1 DEF RequestType, Inviting, Naming, Redeeming, W!Idle
      <4> QED BY <2>2, <3>2, <4>1
    <3>4. RequestsOK' /\ \A q \in Requests : requests'[q] = IF q = r THEN j ELSE requests[q]
      BY <1>1, <1>2, <1>3, <2>2, <3>3, RequestsStep DEF WorkspaceInv
    <3> QED BY <2>2, <3>3, <3>4 DEF Inviters, Creators, Inviting
  <2> QED BY <2>1, <2>2
<1>5. Offered' \subseteq Offered
  BY <1>0, <1>4 DEF Offered
<1>6. SeatsOK' /\ SetsOK'
  BY <1>1, <1>2, <1>4, <1>5, SeatsShrink, SetsShrink DEF WorkspaceInv, UsageOK, W!Metrics
<1> QED BY <1>1, <1>2, <1>4, <1>6 DEF WorkspaceInv

LEMMA SupersedeKeeps == ASSUME WorkspaceInv, NEW r \in Requests, W!InviteSupersede(r) PROVE WorkspaceInv'
<1> DEFINE row(i) == IF invitations[i].person = requests[r].person /\ W!Outstanding(invitations[i])
                     THEN [invitations[i] EXCEPT !.revoked = TRUE] ELSE invitations[i]
<1>0. invitations \in Seq(Invitation) /\ \A i \in DOMAIN invitations : invitations[i] \in Invitation
  BY DEF WorkspaceInv, TeamOK
<1>1. invitations' = [i \in DOMAIN invitations |-> row(i)]
  BY DEF W!InviteSupersede
<1>2. \A i \in DOMAIN invitations :
        /\ row(i) \in Invitation /\ row(i).accepted = invitations[i].accepted
        /\ W!Pending(row(i)) => W!Pending(invitations[i])
  BY <1>0 DEF Invitation, W!Pending, W!Outstanding
<1> HIDE DEF row
<1>3. invitations' \in [DOMAIN invitations -> Invitation]
      /\ \A i \in DOMAIN invitations : invitations'[i] = row(i)
  BY <1>1, <1>2
<1>4. invitations' \in Seq(Invitation) /\ Len(invitations') = Len(invitations)
  BY <1>0, <1>3
<1>5. /\ requests[r].pc \in Inviting /\ "send" \in Inviting /\ requests' = [requests EXCEPT ![r].pc = "send"]
      /\ UNCHANGED <<members, joins, overwrote, W!usage, W!account>> /\ work' \in 0 .. MaxWork
  BY DEF W!InviteSupersede, W!At, W!Goto, Inviting, WorkspaceInv
<1> QED BY <1>2, <1>3, <1>4, <1>5, WithdrawnKeeps

LEMMA InvitationUpdated ==
  ASSUME WorkspaceInv, NEW i \in DOMAIN invitations, NEW row \in Invitation,
         invitations' = [invitations EXCEPT ![i] = row]
  PROVE  /\ invitations' \in Seq(Invitation) /\ Len(invitations') = Len(invitations)
         /\ DOMAIN invitations' = DOMAIN invitations
         /\ \A k \in DOMAIN invitations : invitations'[k] = IF k = i THEN row ELSE invitations[k]
  BY DEF WorkspaceInv, TeamOK

LEMMA LapseKeeps ==
  ASSUME WorkspaceInv, NEW i \in DOMAIN invitations,
         W!InvitationExpires(i) \/ W!RevokeInvitation(i)
  PROVE  WorkspaceInv'
<1>0. invitations[i] \in Invitation
  BY DEF WorkspaceInv, TeamOK
<1>1. PICK row \in Invitation : /\ invitations' = [invitations EXCEPT ![i] = row]
                                /\ row.accepted = invitations[i].accepted /\ ~W!Pending(row)
  <2>1. CASE W!InvitationExpires(i)
    <3> DEFINE row == [invitations[i] EXCEPT !.expired = TRUE]
    <3>1. row \in Invitation /\ row.accepted = invitations[i].accepted /\ ~W!Pending(row)
      BY <1>0 DEF Invitation, W!Pending
    <3>2. invitations' = [invitations EXCEPT ![i] = row]
      BY <2>1 DEF W!InvitationExpires
    <3> QED BY <3>1, <3>2
  <2>2. CASE W!RevokeInvitation(i)
    <3> DEFINE row == [invitations[i] EXCEPT !.revoked = TRUE]
    <3>1. row \in Invitation /\ row.accepted = invitations[i].accepted /\ ~W!Pending(row)
      BY <1>0 DEF Invitation, W!Pending, W!Outstanding
    <3>2. invitations' = [invitations EXCEPT ![i] = row]
      BY <2>2 DEF W!RevokeInvitation
    <3> QED BY <3>1, <3>2
  <2> QED BY <2>1, <2>2
<1>2. /\ invitations' \in Seq(Invitation) /\ Len(invitations') = Len(invitations)
      /\ \A k \in DOMAIN invitations : invitations'[k] = IF k = i THEN row ELSE invitations[k]
  BY <1>1, InvitationUpdated
<1>3. /\ UNCHANGED <<members, joins, overwrote, W!usage, W!account>> /\ requests' = requests
      /\ work' \in 0 .. MaxWork
  BY DEF W!InvitationExpires, W!RevokeInvitation, WorkspaceInv
<1> QED BY <1>1, <1>2, <1>3, WithdrawnKeeps

(* The seat that was counted for becomes an invitation. *)
LEMMA SendKeeps == ASSUME WorkspaceInv, NEW r \in Requests, W!InviteSend(r) PROVE WorkspaceInv'
<1> DEFINE row == [person |-> requests[r].person, role |-> requests[r].role,
                   accepted |-> FALSE, revoked |-> FALSE, expired |-> FALSE]
           n == Len(invitations) + 1
<1>0. /\ invitations \in Seq(Invitation) /\ joins \in Seq(Nat) /\ Len(joins) = Len(invitations)
      /\ Len(invitations) \in Nat /\ DOMAIN invitations = 1 .. Len(invitations)
  BY DEF WorkspaceInv, TeamOK
<1>1. row \in Invitation /\ requests[r].pc = "send"
  BY RequestKnows DEF W!InviteSend, W!At, Inviting, Invitation
<1>2. /\ invitations' = Append(invitations, row) /\ joins' = Append(joins, 0)
      /\ requests' = [requests EXCEPT ![r] = W!Idle] /\ work' = work
      /\ UNCHANGED <<members, overwrote, W!usage, W!account>>
  BY DEF W!InviteSend, W!Done
<1>3. row.accepted = FALSE
  OBVIOUS
<1> HIDE DEF row
<1>4. /\ invitations' \in Seq(Invitation) /\ Len(invitations') = n
      /\ joins' \in Seq(Nat) /\ Len(joins') = n
      /\ DOMAIN invitations' = DOMAIN invitations \cup {n} /\ DOMAIN joins' = DOMAIN joins \cup {n}
      /\ \A i \in DOMAIN invitations : invitations'[i] = invitations[i] /\ joins'[i] = joins[i]
      /\ invitations'[n] = row /\ joins'[n] = 0
  BY <1>0, <1>1, <1>2
<1>5. TeamOK' /\ Taken' = Taken
  BY <1>0, <1>2, <1>3, <1>4 DEF WorkspaceInv, TeamOK, W!LastOwnerStays, W!Owners, Taken
<1>6. UsageOK' /\ sets' = sets /\ peak' = peak /\ AccountOK' /\ links' = links
  BY <1>2, UsageStays, AccountStays DEF WorkspaceInv
<1>7. RowsOutlast
  BY <1>0, <1>4, <1>6 DEF RowsOutlast, WorkspaceInv, AccountOK
<1>8. RequestsOK' /\ \A q \in Requests : requests'[q] = IF q = r THEN W!Idle ELSE requests[q]
  BY <1>2, <1>5, <1>6, <1>7, IdleOK, RequestsStep DEF WorkspaceInv
<1>9. Inviters' = Inviters \ {r} /\ r \in Inviters /\ Creators' \subseteq Creators
  BY <1>1, <1>8 DEF Inviters, Inviting, Creators, W!Idle
<1>10. Offered' \subseteq Offered \cup {n}
  BY <1>4, <1>8 DEF Offered, W!Idle
<1>11. SetsOK'
  BY <1>6, <1>9, SetsShrink DEF WorkspaceInv, UsageOK, W!Metrics
<1>12. SeatsOK'
  <2>0. IsFiniteSet(Offered) /\ IsFiniteSet(Inviters) /\ Cardinality(Offered) \in Nat
        /\ Cardinality(Inviters) \in Nat /\ Cardinality(Taken) \in Nat
    BY Finite DEF WorkspaceInv
  <2>1. Cardinality(Inviters') = Cardinality(Inviters) - 1
    BY <1>9, <2>0, FS_RemoveElement
  <2>2. IsFiniteSet(Offered \cup {n}) /\ Cardinality(Offered \cup {n}) <= Cardinality(Offered) + 1
    BY <2>0, OneMore
  <2>3. IsFiniteSet(Offered') /\ Cardinality(Offered') <= Cardinality(Offered \cup {n})
    BY <1>10, <2>2, FS_Subset
  <2>4. Cardinality(Offered') \in Nat /\ Cardinality(Offered \cup {n}) \in Nat
    BY <2>2, <2>3, FS_CardinalityType
  <2>5. Room("team_seats")' = Room("team_seats") /\ Room("team_seats") \in Nat
    BY <1>6, Rooms DEF Room, WorkspaceInv, W!Metrics
  <2>6. Cardinality(Taken) + Cardinality(Offered) + Cardinality(Inviters) <= Room("team_seats")
    BY DEF WorkspaceInv, SeatsOK
  <2>7. Cardinality(Taken') + Cardinality(Offered') + Cardinality(Inviters') <= Room("team_seats")
    <3> HIDE DEF n
    <3> QED BY <1>5, <2>0, <2>1, <2>2, <2>3, <2>4, <2>5, <2>6
  <2> QED BY <2>5, <2>7 DEF SeatsOK
<1> QED BY <1>2, <1>5, <1>6, <1>8, <1>11, <1>12 DEF WorkspaceInv

LEMMA AcceptReadKeeps ==
  ASSUME WorkspaceInv, NEW r \in Requests, NEW i \in DOMAIN invitations, W!AcceptRead(r, i)
  PROVE  WorkspaceInv'
<1> DEFINE j == [pc |-> "claim", invitation |-> i]
<1>1. W!Start(r, j) /\ UNCHANGED <<W!team, W!usage, W!account>> /\ W!Pending(invitations[i])
  BY DEF W!AcceptRead
<1>2. /\ TeamOK' /\ Taken' = Taken /\ invitations' = invitations
      /\ UsageOK' /\ sets' = sets /\ peak' = peak /\ AccountOK' /\ links' = links
  BY <1>1, TeamStays, UsageStays, AccountStays DEF WorkspaceInv
<1>3. RowsOutlast /\ i \in 1 .. Len(invitations')
  BY <1>2 DEF RowsOutlast, WorkspaceInv, TeamOK, AccountOK
<1>4. j \in RequestType(Len(invitations'), Len(links'))
  BY <1>3 DEF RequestType
<1>5. requests' = [requests EXCEPT ![r] = j] /\ work' \in 0 .. MaxWork
  BY <1>1, RequestStarted
<1>6. RequestsOK' /\ \A q \in Requests : requests'[q] = IF q = r THEN j ELSE requests[q]
  <2> HIDE DEF j
  <2> QED BY <1>2, <1>3, <1>4, <1>5, RequestsStep DEF WorkspaceInv
<1>7. Inviters' \subseteq Inviters /\ Creators' \subseteq Creators
  BY <1>6 DEF Inviters, Inviting, Creators
<1>8. Offered' \subseteq Offered
  BY <1>1, <1>2, <1>6 DEF Offered
<1>9. SeatsOK' /\ SetsOK'
  BY <1>2, <1>7, <1>8, SeatsShrink, SetsShrink DEF WorkspaceInv, UsageOK, W!Metrics
<1> QED BY <1>2, <1>5, <1>6, <1>9 DEF WorkspaceInv

(* Of those who read an invitation one claims it, and the seat is taken. *)
LEMMA AcceptClaimKeeps == ASSUME WorkspaceInv, NEW r \in Requests, W!AcceptClaim(r) PROVE WorkspaceInv'
<1> DEFINE i == requests[r].invitation
<1>0. i \in DOMAIN invitations /\ requests[r].pc = "claim"
  BY RequestKnows DEF W!AcceptClaim, W!At
<1>1. requests' = [requests EXCEPT ![r] = W!Idle] /\ work' = work /\ UNCHANGED <<W!usage, W!account>>
  BY DEF W!AcceptClaim, W!Done
<1>2. CASE ~W!Claims(i)
  <2>1. UNCHANGED W!team
    BY <1>2 DEF W!AcceptClaim
  <2>2. Apart(W!Idle) /\ W!Idle \in RequestType(Len(invitations), Len(links))
    BY IdleOK DEF Apart, W!Idle, Inviting
  <2> QED BY <1>1, <2>1, <2>2, Quiet DEF WorkspaceInv
<1>3. CASE W!Claims(i)
  <2> DEFINE row == [invitations[i] EXCEPT !.accepted = TRUE]
             p == invitations[i].person
             new == [role |-> invitations[i].role, live |-> TRUE]
  <2>0. /\ invitations[i] \in Invitation /\ DOMAIN joins = DOMAIN invitations
        /\ joins \in Seq(Nat) /\ members \in [People -> Change] /\ ~invitations[i].accepted
    BY <1>0, <1>3 DEF WorkspaceInv, TeamOK, W!Claims
  <2>1. row \in Invitation /\ row.accepted /\ p \in People /\ new \in Change
    BY <2>0 DEF Invitation, Change
  <2>2. /\ invitations' = [invitations EXCEPT ![i] = row]
        /\ joins' = [joins EXCEPT ![i] = joins[i] + 1]
        /\ members' = [members EXCEPT ![p] = new]
        /\ overwrote' = (overwrote \/ p \in W!Owners(members))
    BY <1>3 DEF W!AcceptClaim, W!Joined
  <2> HIDE DEF row, new
  <2>3. /\ invitations' \in Seq(Invitation) /\ Len(invitations') = Len(invitations)
        /\ DOMAIN invitations' = DOMAIN invitations
        /\ \A k \in DOMAIN invitations : invitations'[k] = IF k = i THEN row ELSE invitations[k]
    BY <1>0, <2>1, <2>2, InvitationUpdated
  <2>4. /\ joins[i] = 0 /\ joins' \in Seq(Nat) /\ Len(joins') = Len(joins)
        /\ \A k \in DOMAIN joins : joins'[k] = IF k = i THEN 1 ELSE joins[k]
    BY <1>0, <2>0, <2>2 DEF WorkspaceInv, TeamOK
  <2>5. members' \in [People -> Change] /\ \A q \in People \ {p} : members'[q] = members[q]
    BY <2>0, <2>1, <2>2
  <2>6. W!LastOwnerStays' /\ overwrote' \in BOOLEAN
    <3>1. CASE p \in W!Owners(members)
      BY <2>2, <3>1 DEF W!LastOwnerStays
    <3>2. CASE p \notin W!Owners(members)
      <4>1. W!Owners(members) \subseteq W!Owners(members')
        BY <2>5, <3>2 DEF W!Owners
      <4> QED BY <2>2, <3>2, <4>1 DEF W!LastOwnerStays, WorkspaceInv, TeamOK
    <3> QED BY <3>1, <3>2
  <2>7. TeamOK'
    BY <2>0, <2>1, <2>3, <2>4, <2>5, <2>6 DEF WorkspaceInv, TeamOK
  <2>8. UsageOK' /\ sets' = sets /\ peak' = peak /\ AccountOK' /\ links' = links
    BY <1>1, UsageStays, AccountStays DEF WorkspaceInv
  <2>9. RowsOutlast
    BY <2>3, <2>8 DEF RowsOutlast, WorkspaceInv, TeamOK, AccountOK
  <2>10. RequestsOK' /\ \A q \in Requests : requests'[q] = IF q = r THEN W!Idle ELSE requests[q]
    BY <1>1, <2>7, <2>8, <2>9, IdleOK, RequestsStep DEF WorkspaceInv
  <2>11. Inviters' \subseteq Inviters /\ Creators' \subseteq Creators
    BY <2>10 DEF Inviters, Inviting, Creators, W!Idle
  <2>12. Offered' \subseteq Offered \ {i} /\ i \in Offered
    <3>1. i \in Offered
      BY <1>0, <2>0, <2>1 DEF Offered
    <3>2. i \notin Offered'
      BY <1>0, <2>1, <2>3 DEF Offered, W!Pending, W!Outstanding
    <3>3. ASSUME NEW k \in Offered' PROVE k \in Offered
      <4>1. k # i /\ k \in DOMAIN invitations /\ invitations'[k] = invitations[k]
        BY <2>3, <3>2 DEF Offered
      <4>2. \A q \in Requests : requests'[q].pc = "claim" => requests'[q] = requests[q]
        BY <2>10 DEF W!Idle
      <4> QED BY <4>1, <4>2 DEF Offered, W!Pending, W!Outstanding
    <3> QED BY <3>1, <3>2, <3>3
  <2>13. Taken' \subseteq Taken \cup {p}
    BY <2>5 DEF Taken
  <2>14. SetsOK'
    BY <2>7, <2>8, <2>11, SetsShrink DEF WorkspaceInv, UsageOK, W!Metrics
  <2>15. SeatsOK'
    <3>0. /\ IsFiniteSet(Offered) /\ IsFiniteSet(Inviters) /\ IsFiniteSet(Taken)
          /\ Cardinality(Offered) \in Nat /\ Cardinality(Inviters) \in Nat /\ Cardinality(Taken) \in Nat
      BY Finite DEF WorkspaceInv
    <3>1. IsFiniteSet(Offered \ {i}) /\ Cardinality(Offered \ {i}) = Cardinality(Offered) - 1
      BY <2>12, <3>0, FS_RemoveElement
    <3>2. IsFiniteSet(Taken \cup {p}) /\ Cardinality(Taken \cup {p}) <= Cardinality(Taken) + 1
      BY <3>0, OneMore
    <3>3. /\ Cardinality(Offered') <= Cardinality(Offered \ {i}) /\ IsFiniteSet(Offered')
          /\ Cardinality(Taken') <= Cardinality(Taken \cup {p}) /\ IsFiniteSet(Taken')
          /\ Cardinality(Inviters') <= Cardinality(Inviters) /\ IsFiniteSet(Inviters')
      BY <2>11, <2>12, <2>13, <3>0, <3>1, <3>2, FS_Subset
    <3>4. /\ Cardinality(Offered') \in Nat /\ Cardinality(Taken') \in Nat /\ Cardinality(Inviters') \in Nat
          /\ Cardinality(Taken \cup {p}) \in Nat
      BY <3>2, <3>3, FS_CardinalityType
    <3>5. Room("team_seats")' = Room("team_seats") /\ Room("team_seats") \in Nat
      BY <2>8, Rooms DEF Room, WorkspaceInv, W!Metrics
    <3>6. Cardinality(Taken) + Cardinality(Offered) + Cardinality(Inviters) <= Room("team_seats")
      BY DEF WorkspaceInv, SeatsOK
    <3>7. Cardinality(Taken') + Cardinality(Offered') + Cardinality(Inviters') <= Room("team_seats")
      <4> HIDE DEF i, p
      <4> QED BY <3>0, <3>1, <3>2, <3>3, <3>4, <3>5, <3>6
    <3> QED BY <3>5, <3>7 DEF SeatsOK
  <2> QED BY <1>1, <2>7, <2>8, <2>10, <2>14, <2>15 DEF WorkspaceInv
<1> QED BY <1>2, <1>3
-----------------------------------------------------------------------------
(* Option sets: one is about to be created when the count was under the limit. *)
LEMMA CreatorKeeps ==
  ASSUME WorkspaceInv, NEW r \in Requests, NEW j \in [pc : {"create"}],
         requests' = [requests EXCEPT ![r] = j], work' \in 0 .. MaxWork, W!WithinPlan("option_sets"),
         UNCHANGED <<W!team, W!usage, W!account>>
  PROVE  WorkspaceInv'
<1>2. /\ TeamOK' /\ Taken' = Taken /\ invitations' = invitations
      /\ UsageOK' /\ sets' = sets /\ peak' = peak /\ AccountOK' /\ links' = links
  BY TeamStays, UsageStays, AccountStays DEF WorkspaceInv
<1>3. RowsOutlast
  BY <1>2 DEF RowsOutlast, WorkspaceInv, TeamOK, AccountOK
<1>4. j \in RequestType(Len(invitations'), Len(links'))
  BY DEF RequestType, Naming
<1>5. RequestsOK' /\ \A q \in Requests : requests'[q] = IF q = r THEN j ELSE requests[q]
  BY <1>2, <1>3, <1>4, RequestsStep DEF WorkspaceInv
<1>6. Inviters' \subseteq Inviters /\ Offered' \subseteq Offered
  BY <1>2, <1>5 DEF Inviters, Inviting, Offered, W!Pending, W!Outstanding
<1>7. SeatsOK'
  BY <1>2, <1>6, SeatsShrink DEF WorkspaceInv, UsageOK, W!Metrics
<1>8. SetsOK'
  <2>1. Cardinality(sets) \in Nat /\ Cardinality(sets) < limits["option_sets"]
    BY FS_CardinalityType, SameSize DEF WorkspaceInv, UsageOK, W!WithinPlan, W!Count
  <2>2. limits["option_sets"] \in Nat /\ peak["option_sets"] \in Nat
        /\ limits["option_sets"] <= peak["option_sets"]
    BY DEF WorkspaceInv, UsageOK, W!Metrics
  <2>3. /\ Cardinality(Creators') \in Nat /\ Cardinality(Requests) \in Nat
        /\ Cardinality(Creators') <= Cardinality(Requests)
    <3>1. Creators' \subseteq Requests
      BY DEF Creators
    <3> QED BY <3>1, FS_Subset, FS_CardinalityType, TeamAssumption
  <2> QED BY <1>2, <2>1, <2>2, <2>3 DEF SetsOK, Room
<1> QED BY <1>2, <1>5, <1>7, <1>8 DEF WorkspaceInv

LEMMA SetCountKeeps ==
  ASSUME WorkspaceInv, NEW r \in Requests, W!SetCount(r) \/ W!DuplicateCount(r)
  PROVE  WorkspaceInv'
<1>1. CASE W!SetCount(r)
  BY <1>1, RequestStarted, CreatorKeeps DEF W!SetCount
<1>2. CASE W!DuplicateCount(r)
  <2>1. requests[r] \in RequestType(Len(invitations), Len(links)) /\ requests[r].pc = "duplicate"
    BY <1>2 DEF WorkspaceInv, RequestsOK, W!DuplicateCount, W!At
  <2>2. [requests[r] EXCEPT !.pc = "create"] \in [pc : {"create"}]
    BY <2>1 DEF RequestType, W!Idle, Naming, Inviting, Redeeming
  <2>3. PICK j \in [pc : {"create"}] : requests' = [requests EXCEPT ![r] = j]
    BY <1>2, <2>2 DEF W!DuplicateCount, W!Goto
  <2> QED BY <1>2, <2>3, CreatorKeeps DEF W!DuplicateCount, W!Goto, WorkspaceInv
<1> QED BY <1>1, <1>2

LEMMA SetCreateKeeps ==
  ASSUME WorkspaceInv, NEW r \in Requests, NEW s \in Sets, W!SetCreate(r, s)
  PROVE  WorkspaceInv'
<1>1. /\ requests[r].pc = "create" /\ requests' = [requests EXCEPT ![r] = W!Idle] /\ work' = work
      /\ s \notin sets /\ sets' = sets \cup {s}
      /\ UNCHANGED <<W!team, assigned, limits, peak, W!account>>
  BY DEF W!SetCreate, W!At, W!Done
<1>2. /\ TeamOK' /\ Taken' = Taken /\ invitations' = invitations /\ AccountOK' /\ links' = links
  BY <1>1, TeamStays, AccountStays DEF WorkspaceInv
<1>3. /\ IsFiniteSet(sets) /\ IsFiniteSet(sets') /\ Cardinality(sets') = Cardinality(sets) + 1
      /\ Cardinality(sets) \in Nat
  BY <1>1, FS_AddElement, FS_CardinalityType DEF WorkspaceInv, UsageOK
<1>4. UsageOK'
  BY <1>1, <1>3 DEF WorkspaceInv, UsageOK
<1>5. RowsOutlast
  BY <1>2 DEF RowsOutlast, WorkspaceInv, TeamOK, AccountOK
<1>6. RequestsOK' /\ \A q \in Requests : requests'[q] = IF q = r THEN W!Idle ELSE requests[q]
  BY <1>1, <1>2, <1>5, IdleOK, RequestsStep DEF WorkspaceInv
<1>7. Inviters' \subseteq Inviters /\ Offered' \subseteq Offered
  BY <1>2, <1>6 DEF Inviters, Inviting, W!Idle, Offered, W!Pending, W!Outstanding
<1>8. SeatsOK'
  BY <1>1, <1>2, <1>4, <1>7, SeatsShrink DEF WorkspaceInv, UsageOK, W!Metrics
<1>9. Creators' = Creators \ {r} /\ r \in Creators
  BY <1>1, <1>6 DEF Creators, W!Idle
<1>10. SetsOK'
  <2>1. Cardinality(Creators') = Cardinality(Creators) - 1 /\ Cardinality(Creators) \in Nat
    BY <1>9, Finite, FS_RemoveElement DEF WorkspaceInv
  <2>2. Room("option_sets")' = Room("option_sets") /\ Room("option_sets") \in Nat
    BY <1>1, Rooms DEF Room, WorkspaceInv, W!Metrics
  <2> QED BY <1>3, <2>1, <2>2 DEF SetsOK, WorkspaceInv
<1> QED BY <1>1, <1>2, <1>4, <1>6, <1>8, <1>10 DEF WorkspaceInv

(* The rest of what a plan meters. *)
LEMMA MeteredKeeps ==
  ASSUME WorkspaceInv, UNCHANGED <<W!team, W!account>>, UsageOK', sets' \subseteq sets,
         \A m \in W!Metrics : peak[m] <= peak'[m], work' \in 0 .. MaxWork,
         requests' = requests \/ \E r \in Requests : W!Done(r)
  PROVE  WorkspaceInv'
<1>1. TeamOK' /\ Taken' = Taken /\ invitations' = invitations /\ AccountOK' /\ links' = links
  BY TeamStays, AccountStays DEF WorkspaceInv
<1>2. RowsOutlast
  BY <1>1 DEF RowsOutlast, WorkspaceInv, TeamOK, AccountOK
<1>3. Apart(W!Idle) /\ W!Idle \in RequestType(Len(invitations'), Len(links'))
  BY IdleOK DEF Apart, W!Idle, Inviting
<1> QED BY <1>1, <1>2, <1>3, Uncounted DEF W!Done

LEMMA UsageKeeps == ASSUME WorkspaceInv, W!UsageStep PROVE WorkspaceInv'
<1>0. UsageOK /\ work \in 0 .. MaxWork /\ \A m \in W!Metrics : peak[m] \in Nat /\ limits[m] \in Nat
  BY DEF WorkspaceInv, UsageOK
<1>1. ASSUME NEW r \in Requests, W!SetCount(r) \/ W!DuplicateCount(r) PROVE WorkspaceInv'
  BY <1>1, SetCountKeeps
<1>2. ASSUME NEW r \in Requests, NEW s \in Sets, W!SetCreate(r, s) PROVE WorkspaceInv'
  BY <1>2, SetCreateKeeps
<1>3. ASSUME NEW r \in Requests, W!AssignUpsert(r) PROVE WorkspaceInv'
  <2>1. requests[r].set \in Sets /\ requests[r].wanted \subseteq Products
    BY <1>3, RequestKnows DEF W!AssignUpsert, W!At
  <2>2. assigned' \subseteq Sets \X Products /\ UNCHANGED <<sets, limits, peak>>
    BY <1>0, <1>3, <2>1 DEF W!AssignUpsert, UsageOK
  <2>3. UsageOK' /\ \A m \in W!Metrics : peak[m] <= peak'[m]
    BY <1>0, <2>2 DEF UsageOK
  <2> QED BY <1>0, <1>3, <2>2, <2>3, MeteredKeeps DEF W!AssignUpsert, W!Done
<1>4. ASSUME NEW r \in Requests, NEW s \in Sets, W!DuplicateFind(r, s) PROVE WorkspaceInv'
  <2>1. [pc |-> "duplicate"] \in RequestType(Len(invitations), Len(links)) /\ Apart([pc |-> "duplicate"])
    BY DEF RequestType, Naming, Apart, Inviting
  <2> QED BY <1>4, <2>1, RequestStarted, Quiet DEF W!DuplicateFind
<1>5. ASSUME NEW r \in Requests, NEW s \in Sets, NEW wanted \in (SUBSET Products) \ {{}},
             W!AssignCount(r, s, wanted)
      PROVE WorkspaceInv'
  <2> DEFINE j == [pc |-> "assign", set |-> s, wanted |-> wanted]
  <2>1. j \in RequestType(Len(invitations), Len(links)) /\ Apart(j)
    BY <1>5 DEF RequestType, Apart, Inviting
  <2>2. W!Start(r, j) /\ UNCHANGED <<W!team, W!usage, W!account>>
    BY <1>5 DEF W!AssignCount
  <2> HIDE DEF j
  <2> QED BY <1>5, <2>1, <2>2, RequestStarted, Quiet
<1>6. ASSUME NEW s \in Sets, W!SetDelete(s) PROVE WorkspaceInv'
  <2>1. UsageOK' /\ sets' \subseteq sets
    BY <1>0, <1>6, FS_RemoveElement DEF W!SetDelete, UsageOK
  <2>2. \A m \in W!Metrics : peak[m] <= peak'[m]
    BY <1>0, <1>6 DEF W!SetDelete
  <2> QED BY <1>0, <1>6, <2>1, <2>2, MeteredKeeps DEF W!SetDelete
<1>7. ASSUME NEW s \in Sets, NEW gone \in (SUBSET Products) \ {{}}, W!Unassign(s, gone) PROVE WorkspaceInv'
  <2>1. UsageOK' /\ sets' \subseteq sets /\ \A m \in W!Metrics : peak[m] <= peak'[m]
    BY <1>0, <1>7 DEF W!Unassign, UsageOK
  <2> QED BY <1>0, <1>7, <2>1, MeteredKeeps DEF W!Unassign
<1>8. ASSUME NEW metric \in W!Metrics, NEW n \in Limits, W!SetLimits(metric, n) PROVE WorkspaceInv'
  <2>0. n \in Nat
    BY TeamAssumption
  <2>1. /\ limits' = [limits EXCEPT ![metric] = n] /\ UNCHANGED <<sets, assigned>>
        /\ peak' = [peak EXCEPT ![metric] = IF n > peak[metric] THEN n ELSE peak[metric]]
    BY <1>8 DEF W!SetLimits
  <2>2. /\ \A m \in W!Metrics : /\ limits'[m] = IF m = metric THEN n ELSE limits[m]
                                /\ peak'[m] = IF m = metric /\ n > peak[m] THEN n ELSE peak[m]
        /\ limits' \in [W!Metrics -> Nat] /\ peak' \in [W!Metrics -> Nat]
    BY <1>0, <1>8, <2>0, <2>1 DEF UsageOK
  <2>3. \A m \in W!Metrics : peak[m] <= peak'[m] /\ limits'[m] <= peak'[m]
    BY <1>0, <2>0, <2>2 DEF UsageOK
  <2>4. UsageOK'
    BY <1>0, <2>1, <2>2, <2>3 DEF UsageOK
  <2>5. work' \in 0 .. MaxWork
    BY <1>0, <1>8, TeamAssumption DEF W!SetLimits
  <2> QED BY <1>8, <2>1, <2>3, <2>4, <2>5, MeteredKeeps DEF W!SetLimits
<1> QED BY <1>1, <1>2, <1>3, <1>4, <1>5, <1>6, <1>7, <1>8 DEF W!UsageStep
-----------------------------------------------------------------------------
(* The links of an account. *)
LEMMA SpentLinks ==
  ASSUME AccountOK
  PROVE  /\ W!Spent \in Seq(Link) /\ Len(W!Spent) = Len(links)
         /\ \A l \in 1 .. Len(links) : W!Spent[l].spent
<1>1. \A l \in DOMAIN links : links[l] \in Link
  BY DEF AccountOK
<1>2. \A l \in DOMAIN links : [links[l] EXCEPT !.spent = TRUE] \in Link
                             /\ [links[l] EXCEPT !.spent = TRUE].spent
  BY <1>1 DEF Link
<1>3. W!Spent \in [DOMAIN links -> Link] /\ \A l \in DOMAIN links : W!Spent[l].spent
  BY <1>2 DEF W!Spent
<1> QED BY <1>3 DEF AccountOK

LEMMA LinkUpdated ==
  ASSUME AccountOK, NEW l \in DOMAIN links, NEW row \in Link, links[l].spent => row.spent,
         links' = [links EXCEPT ![l] = row], settled' = settled
  PROVE  AccountOK' /\ Len(links') = Len(links)
<1>1. /\ links' \in Seq(Link) /\ Len(links') = Len(links)
      /\ \A k \in DOMAIN links : links'[k] = IF k = l THEN row ELSE links[k]
  BY DEF AccountOK
<1> QED BY <1>1 DEF AccountOK, W!ResetClosesLinks

LEMMA LinkStepKeeps ==
  ASSUME WorkspaceInv, UNCHANGED <<W!team, W!usage>>, AccountOK', Len(links) <= Len(links'),
         work' \in 0 .. MaxWork,
         \/ requests' = requests
         \/ \E r \in Requests : \E j \in RequestType(Len(invitations), Len(links')) :
               Apart(j) /\ requests' = [requests EXCEPT ![r] = j]
  PROVE  WorkspaceInv'
<1>1. /\ TeamOK' /\ Taken' = Taken /\ invitations' = invitations
      /\ UsageOK' /\ sets' = sets /\ peak' = peak
  BY TeamStays, UsageStays DEF WorkspaceInv
<1>2. RowsOutlast /\ \A m \in W!Metrics : peak[m] <= peak'[m]
  BY <1>1 DEF RowsOutlast, WorkspaceInv, TeamOK, UsageOK
<1> QED BY <1>1, <1>2, Uncounted

LEMMA AccountKeeps == ASSUME WorkspaceInv, W!AccountStep PROVE WorkspaceInv'
<1>0. /\ AccountOK /\ work \in 0 .. MaxWork /\ Len(links) \in Nat
      /\ DOMAIN links = 1 .. Len(links) /\ \A l \in DOMAIN links : links[l] \in Link
  BY DEF WorkspaceInv, AccountOK
<1>1. Apart(W!Idle) /\ \A nl : W!Idle \in RequestType(Len(invitations), nl)
  BY IdleOK DEF Apart, W!Idle, Inviting
<1>2. ASSUME NEW r \in Requests, W!IssueConsume(r) PROVE WorkspaceInv'
  <2>1. [pc |-> "mint"] \in RequestType(Len(invitations), Len(links')) /\ Apart([pc |-> "mint"])
    BY DEF RequestType, Apart, Inviting
  <2>2. AccountOK' /\ Len(links') = Len(links)
    BY <1>0, <1>2, SpentLinks DEF W!IssueConsume, AccountOK, W!ResetClosesLinks
  <2> QED BY <1>0, <1>2, <2>1, <2>2, RequestStarted, LinkStepKeeps DEF W!IssueConsume
<1>3. ASSUME NEW r \in Requests, W!IssueMint(r) PROVE WorkspaceInv'
  <2> DEFINE new == [spent |-> FALSE, expired |-> FALSE]
  <2>1. new \in Link /\ links \in Seq(Link)
    BY <1>0 DEF Link, AccountOK
  <2>2. links' = Append(links, new) /\ settled' = settled
    BY <1>3 DEF W!IssueMint
  <2> HIDE DEF new
  <2>3. /\ links' \in Seq(Link) /\ Len(links') = Len(links) + 1
        /\ \A l \in 1 .. Len(links) : links'[l] = links[l]
    BY <1>0, <2>1, <2>2
  <2>4. AccountOK'
    BY <1>0, <2>2, <2>3 DEF AccountOK, W!ResetClosesLinks
  <2>5. UNCHANGED <<W!team, W!usage>> /\ work' = work /\ requests' = [requests EXCEPT ![r] = W!Idle]
    BY <1>3 DEF W!IssueMint, W!Done
  <2>6. Len(links) <= Len(links') /\ W!Idle \in RequestType(Len(invitations), Len(links'))
    BY <1>0, <1>1, <2>3
  <2> QED BY <1>0, <1>1, <1>3, <2>4, <2>5, <2>6, LinkStepKeeps
<1>4. ASSUME NEW l \in DOMAIN links, W!LinkExpires(l) PROVE WorkspaceInv'
  <2>1. [links[l] EXCEPT !.expired = TRUE] \in Link
        /\ (links[l].spent => [links[l] EXCEPT !.expired = TRUE].spent)
    BY <1>0, <1>4 DEF Link
  <2>2. AccountOK' /\ Len(links') = Len(links)
    BY <1>0, <1>4, <2>1, LinkUpdated DEF W!LinkExpires
  <2> QED BY <1>0, <1>4, <2>2, LinkStepKeeps DEF W!LinkExpires
<1>5. ASSUME NEW r \in Requests, NEW l \in DOMAIN links, W!RedeemRead(r, l) PROVE WorkspaceInv'
  <2> DEFINE j == [pc |-> "redeem", link |-> l]
  <2>1. j \in RequestType(Len(invitations), Len(links)) /\ Apart(j)
    BY <1>0, <1>5 DEF RequestType, Redeeming, Apart, Inviting
  <2>2. W!Start(r, j) /\ UNCHANGED <<W!team, W!usage, W!account>>
    BY <1>5 DEF W!RedeemRead
  <2> HIDE DEF j
  <2> QED BY <1>5, <2>1, <2>2, RequestStarted, Quiet
<1>6. ASSUME NEW r \in Requests, NEW pc \in Redeeming, requests[r].pc \in Redeeming, W!Goto(r, pc),
             Len(links') = Len(links)
      PROVE  \E j \in RequestType(Len(invitations), Len(links')) : Apart(j) /\ requests' = [requests EXCEPT ![r] = j]
  <2>1. requests[r] \in RequestType(Len(invitations), Len(links))
    BY <1>6 DEF WorkspaceInv, RequestsOK
  <2>2. [requests[r] EXCEPT !.pc = pc] \in RequestType(Len(invitations), Len(links'))
    BY <1>6, <2>1, Moved
  <2>3. [requests[r] EXCEPT !.pc = pc].pc = pc
    BY <1>6, <2>1 DEF RequestType, Inviting, Naming, Redeeming, W!Idle
  <2>4. PICK j \in RequestType(Len(invitations), Len(links')) : requests' = [requests EXCEPT ![r] = j] /\ j.pc = pc
    BY <1>6, <2>2, <2>3 DEF W!Goto
  <2> QED BY <1>6, <2>4 DEF Apart, Redeeming, Inviting
<1>7. ASSUME NEW r \in Requests, W!RedeemSave(r) PROVE WorkspaceInv'
  <2> DEFINE l == requests[r].link
  <2>1. l \in DOMAIN links /\ requests[r].pc \in Redeeming
    BY <1>7, RequestKnows DEF W!RedeemSave, W!At, Redeeming
  <2>2. [links[l] EXCEPT !.spent = TRUE] \in Link /\ [links[l] EXCEPT !.spent = TRUE].spent
    BY <1>0, <2>1 DEF Link
  <2>3. AccountOK' /\ Len(links') = Len(links)
    BY <1>0, <1>7, <2>1, <2>2, LinkUpdated DEF W!RedeemSave
  <2>4. \E j \in RequestType(Len(invitations), Len(links')) : Apart(j) /\ requests' = [requests EXCEPT ![r] = j]
    BY <1>6, <1>7, <2>1, <2>3 DEF W!RedeemSave, Redeeming
  <2>5. UNCHANGED <<W!team, W!usage>> /\ work' = work
    BY <1>7 DEF W!RedeemSave, W!Goto
  <2>6. Len(links) <= Len(links') /\ work' \in 0 .. MaxWork
    BY <1>0, <2>3, <2>5
  <2> QED BY <2>3, <2>4, <2>5, <2>6, LinkStepKeeps
<1>8. ASSUME NEW r \in Requests, W!PasswordWrite(r) PROVE WorkspaceInv'
  <2>1. AccountOK' /\ links' = links
    BY <1>0, <1>8, AccountStays DEF W!PasswordWrite
  <2>2. \E j \in RequestType(Len(invitations), Len(links')) : Apart(j) /\ requests' = [requests EXCEPT ![r] = j]
    BY <1>6, <1>8, <2>1 DEF W!PasswordWrite, W!At, Redeeming
  <2>3. UNCHANGED <<W!team, W!usage>> /\ work' = work
    BY <1>8 DEF W!PasswordWrite, W!Goto
  <2>4. Len(links) <= Len(links') /\ work' \in 0 .. MaxWork
    BY <1>0, <2>1, <2>3
  <2> QED BY <2>1, <2>2, <2>3, <2>4, LinkStepKeeps
<1>9. ASSUME NEW r \in Requests, W!RevokeResets(r) PROVE WorkspaceInv'
  <2>1. AccountOK' /\ Len(links') = Len(links)
    BY <1>0, <1>9, SpentLinks DEF W!RevokeResets, W!AllSpent, AccountOK, W!ResetClosesLinks
  <2>2. UNCHANGED <<W!team, W!usage>> /\ work' = work /\ requests' = [requests EXCEPT ![r] = W!Idle]
    BY <1>9 DEF W!RevokeResets, W!Done
  <2>3. W!Idle \in RequestType(Len(invitations), Len(links'))
    BY <1>1
  <2>4. Len(links) <= Len(links') /\ work' \in 0 .. MaxWork
    BY <1>0, <2>1, <2>2
  <2>5. \E q \in Requests : \E j \in RequestType(Len(invitations), Len(links')) :
           Apart(j) /\ requests' = [requests EXCEPT ![q] = j]
    BY <1>1, <1>9, <2>2, <2>3
  <2> QED BY <2>1, <2>2, <2>4, <2>5, LinkStepKeeps
<1> QED BY <1>2, <1>3, <1>4, <1>5, <1>7, <1>8, <1>9 DEF W!AccountStep
-----------------------------------------------------------------------------
LEMMA TeamKeeps == ASSUME WorkspaceInv, W!TeamStep PROVE WorkspaceInv'
<1>1. ASSUME NEW r \in Requests, NEW person \in People, NEW role \in W!Roles, NEW live \in BOOLEAN,
             ~live => role = members[person].role,
             W!MemberRead(r, person, [role |-> role, live |-> live])
      PROVE WorkspaceInv'
  <2>1. [role |-> role, live |-> live] \in Change
    BY <1>1 DEF Change
  <2> QED BY <1>1, <2>1, MemberReadKeeps
<1> QED BY <1>1, InviteCheckKeeps, AcceptReadKeeps, SupersedeKeeps, SendKeeps, AcceptClaimKeeps,
           GuardedKeeps, PlainKeeps, LapseKeeps DEF W!TeamStep

LEMMA WorkspaceInit == ASSUME W!Init PROVE WorkspaceInv
<1>1. TeamOK
  <2>1. members[Founder] = [role |-> "owner", live |-> TRUE] /\ members \in [People -> Change]
    BY TeamAssumption DEF W!Init, Change, W!Roles, W!NoMember
  <2>2. W!Owners(members) # {}
    BY <2>1, TeamAssumption DEF W!Owners
  <2>3. W!LastOwnerStays /\ overwrote \in BOOLEAN
    BY <2>2 DEF W!Init, W!LastOwnerStays
  <2>4. invitations = << >> /\ joins = << >>
    BY DEF W!Init
  <2>5. /\ invitations \in Seq(Invitation) /\ joins \in Seq(Nat) /\ Len(joins) = Len(invitations)
        /\ DOMAIN joins = {}
    BY <2>4
  <2> QED BY <2>1, <2>3, <2>5 DEF TeamOK
<1>2. UsageOK
  BY FS_EmptySet, TeamAssumption DEF W!Init, UsageOK, W!Metrics
<1>3. AccountOK
  BY DEF W!Init, AccountOK, W!ResetClosesLinks
<1>4. RequestsOK
  BY IdleOK DEF W!Init, RequestsOK
<1>5. Inviters = {} /\ Creators = {} /\ Offered = {}
  BY DEF W!Init, Inviters, Creators, Offered, W!Idle, Inviting
<1>6. Cardinality(Requests) \in Nat /\ Cardinality(Requests) >= 1
  BY SomeRequests
<1>7. SetsOK
  BY <1>2, <1>5, <1>6, FS_EmptySet DEF W!Init, SetsOK, Room, UsageOK, W!Metrics
<1>8. SeatsOK
  <2>1. Taken = {Founder}
    BY TeamAssumption DEF W!Init, Taken, W!NoMember
  <2>2. Cardinality(Taken) = 1 /\ Cardinality(Offered) = 0 /\ Cardinality(Inviters) = 0
    BY <1>5, <2>1, FS_Singleton, FS_EmptySet
  <2>3. peak["team_seats"] \in Nat
    BY <1>2 DEF UsageOK, W!Metrics
  <2> QED BY <1>6, <2>2, <2>3 DEF SeatsOK, Room
<1> QED BY <1>1, <1>2, <1>3, <1>4, <1>7, <1>8, TeamAssumption DEF WorkspaceInv, W!Init

LEMMA WorkspaceStep == ASSUME WorkspaceInv, [W!Next]_W!vars PROVE WorkspaceInv'
<1>1. CASE UNCHANGED W!vars
  <2>1. /\ TeamOK' /\ Taken' = Taken /\ invitations' = invitations
        /\ UsageOK' /\ sets' = sets /\ peak' = peak /\ AccountOK' /\ links' = links
    BY <1>1, TeamStays, UsageStays, AccountStays DEF WorkspaceInv, W!vars
  <2>2. RowsOutlast /\ \A m \in W!Metrics : peak[m] <= peak'[m]
    BY <2>1 DEF RowsOutlast, WorkspaceInv, TeamOK, AccountOK, UsageOK
  <2>3. requests' = requests /\ work' = work
    BY <1>1 DEF W!vars
  <2>4. work' \in 0 .. MaxWork
    BY <2>3 DEF WorkspaceInv
  <2> QED BY <2>1, <2>2, <2>3, <2>4, Uncounted
<1> QED BY <1>1, TeamKeeps, UsageKeeps, AccountKeeps, AbortKeeps DEF W!Next

LEMMA OvershootOK == ASSUME WorkspaceInv PROVE W!OvershootIsBounded
<1>1. /\ Cardinality(Taken) \in Nat /\ Cardinality(Offered) \in Nat
      /\ Cardinality(Inviters) \in Nat /\ Cardinality(Creators) \in Nat
      /\ Cardinality(Requests) \in Nat /\ IsFiniteSet(Offered)
  BY Finite DEF WorkspaceInv
<1>2. \A m \in W!Metrics : peak[m] \in Nat
  BY DEF WorkspaceInv, UsageOK
<1>3. Cardinality(sets) \in Nat
  BY FS_CardinalityType DEF WorkspaceInv, UsageOK
<1> DEFINE pending == {i \in DOMAIN invitations : W!Pending(invitations[i])}
<1>4. Cardinality(pending) \in Nat /\ Cardinality(pending) <= Cardinality(Offered)
  <2>1. pending \subseteq Offered
    BY DEF Offered
  <2> QED BY <1>1, <2>1, FS_Subset, FS_CardinalityType
<1>5. W!Count("team_seats") = Cardinality(Taken) + Cardinality(pending)
      /\ W!Count("option_sets") = Cardinality(sets)
  BY SameSize DEF W!Count, Taken
<1> HIDE DEF pending
<1>6. peak["team_seats"] > 0 => W!Count("team_seats") < peak["team_seats"] + Cardinality(Requests)
  BY <1>1, <1>2, <1>4, <1>5 DEF WorkspaceInv, SeatsOK, Room, W!Metrics
<1>7. peak["option_sets"] > 0 => W!Count("option_sets") < peak["option_sets"] + Cardinality(Requests)
  BY <1>1, <1>2, <1>3, <1>5 DEF WorkspaceInv, SetsOK, Room, W!Metrics
<1> QED BY <1>6, <1>7, SameSize DEF W!OvershootIsBounded

(* The strengthening holds in every reachable state of the composition, whichever
   part a behaviour is of. *)
THEOREM WorkspaceInvariance == AccountsSpec => []WorkspaceInv
<1>1. AccountsInit => WorkspaceInv
  BY WorkspaceInit DEF AccountsInit
<1>2. WorkspaceInv /\ [AccountsNext]_everything => WorkspaceInv'
  <2>1. [AccountsNext]_everything => [W!Next]_(W!vars)
    BY DEF AccountsNext, everything, workspace, W!vars, W!team, W!usage, W!account
  <2> QED BY <2>1, WorkspaceStep
<1> QED BY <1>1, <1>2, PTL DEF AccountsSpec, everything

LEMMA WorkspaceTyped == ASSUME WorkspaceInv PROVE W!TypeOK
  BY DEF WorkspaceInv, TeamOK, UsageOK, AccountOK, RequestsOK, W!TypeOK, Change, Invitation, Link

(* Whatever else a behaviour of the composition is of, for every number of
   requests, people and sets: however many owners are demoted and removed at
   once, a workspace without an owner was written by a statement that does not
   count; however many requests follow one link, one is let in; a count that is
   read and then acted on passes the plan by less than the number of requests at
   once, what is in flight being counted with what is written; and no reset link
   issued before a reset finished works after it. *)
THEOREM WorkspacesHold == AccountsSpec => []WorkspaceIsSound
<1>1. WorkspaceInv => WorkspaceIsSound
  BY OvershootOK DEF WorkspaceInv, TeamOK, AccountOK, WorkspaceIsSound, W!AcceptedOnce
<1> QED BY <1>1, WorkspaceInvariance, PTL
-----------------------------------------------------------------------------

(* The Design Lab.  The layers a list may hold, with ids that were given. *)
LayersUpTo(n) ==
    [id : 1 .. n, kind : {"layer", "background"}, at : Nat, style : {"free", "cover"},
     framed : BOOLEAN, cropped : BOOLEAN, locked : BOOLEAN, since : Nat, asked : Nat]

(* One layer has an id, and the photo is at the bottom. *)
OneEach(q) == \A i, j \in DOMAIN q : q[i].id = q[j].id => i = j
OnGround(q) == \A i \in DOMAIN q : q[i].kind = "background" => i = 1
Overlaid(q) == {l \in D!ToSet(q) : l.kind = "layer"}

Stacks(n) ==
    {q \in Seq(LayersUpTo(n)) : OneEach(q) /\ OnGround(q) /\ Cardinality(Overlaid(q)) <= MaxLayers}

(* What can be shown or undone to: composed, and of the session that is open. *)
Figures(n) == [layers : Stacks(n), text : Nat, textSelected : BOOLEAN, selected : 0 .. n]
Designs(n, h, s) ==
    {d \in Figures(n) :
        /\ d.selected # D!None => ~d.textSelected /\ \E l \in Overlaid(d.layers) : l.id = d.selected
        /\ d.textSelected => d.text # D!None
        /\ h => \A l \in D!ToSet(d.layers) : l.since = s}

Dragging == [id : Nat \ {0}, crop : BOOLEAN, attached : BOOLEAN, changed : BOOLEAN]
SavedLayers ==
    [id : Nat, kind : {"layer"}, at : Nat, style : {"free", "cover"}, framed : BOOLEAN,
     cropped : BOOLEAN, locked : BOOLEAN, since : Nat, asked : Nat]

DialogOK ==
    /\ cropping \in Nat /\ acts \in 0 .. MaxActs /\ session \in 0 .. MaxOpens /\ counter \in Nat
    /\ dialog \in [open : BOOLEAN, hydrated : BOOLEAN]
    /\ timers \subseteq {"nudge", "slider", "text"} /\ images \subseteq 0 .. MaxOpens
    /\ drag = D!NoDrag \/ drag \in Dragging
    /\ saved \in [layers : Seq(SavedLayers), text : Nat] /\ Len(saved.layers) <= MaxLayers

HistoryOK ==
    /\ Len(history) <= HistoryLimit /\ hidx \in 0 .. Len(history)
    /\ dialog.hydrated => dialog.open /\ hidx > 0

(* The store, of a number of ids, of a dialog and of a session. *)
StoreFits(n, h, s) ==
    /\ n = counter /\ h = dialog.hydrated /\ s = session
    /\ design \in Designs(n, h, s) /\ history \in Seq(Designs(n, h, s))

(* What no timer and no gesture is to commit has been committed. *)
Settled ==
    /\ dialog.hydrated /\ timers \subseteq {"text"} /\ cropping = D!None
    /\ drag # D!NoDrag => ~drag.changed
CanvasOK == Settled => design.layers = history[hidx].layers

LabInv ==
    /\ DialogOK /\ HistoryOK /\ CanvasOK
    /\ \E n \in Nat, h \in BOOLEAN, s \in Nat : StoreFits(n, h, s)

-----------------------------------------------------------------------------
(* The lab's lists are the lists the lemmas are about. *)
LEMMA SameLists ==
    /\ \A q, keep : D!Only(q, keep) = Only(q, keep)
    /\ \A q : D!ToSet(q) = ToSet(q)
<1>1. \A q, keep : D!Only(q, keep) = Only(q, keep)
  BY Zenon DEF D!Only, Only
<1>2. \A q : D!ToSet(q) = ToSet(q)
  BY Zenon DEF D!ToSet, ToSet
<1> QED BY <1>1, <1>2

LEMMA DSize == \A S : D!Cardinality(S) = Cardinality(S)
  BY Zenon DEF D!Cardinality, Cardinality

LEMMA Bounds ==
  /\ HistoryLimit \in Nat /\ HistoryLimit >= 1 /\ MaxLayers \in Nat /\ MaxLayers >= 1
  /\ MaxActs \in Nat /\ MaxOpens \in Nat /\ MaxOpens >= 1
  BY LabAssumption

(* What a list of layers is. *)
LEMMA StackFacts ==
  ASSUME NEW n \in Nat, NEW q \in Stacks(n)
  PROVE  /\ q \in Seq(LayersUpTo(n)) /\ Len(q) \in Nat /\ DOMAIN q = 1 .. Len(q)
         /\ \A i \in 1 .. Len(q) : q[i] \in LayersUpTo(n)
         /\ D!ToSet(q) = {q[i] : i \in 1 .. Len(q)} /\ D!ToSet(q) \subseteq LayersUpTo(n)
         /\ OneEach(q) /\ OnGround(q) /\ Cardinality(Overlaid(q)) <= MaxLayers
<1>1. q \in Seq(LayersUpTo(n)) /\ OneEach(q) /\ OnGround(q) /\ Cardinality(Overlaid(q)) <= MaxLayers
  BY DEF Stacks
<1>2. Len(q) \in Nat /\ DOMAIN q = 1 .. Len(q) /\ \A i \in 1 .. Len(q) : q[i] \in LayersUpTo(n)
  BY <1>1, SeqFacts
<1>3. D!ToSet(q) = {q[i] : i \in 1 .. Len(q)}
  BY <1>2 DEF D!ToSet
<1> QED BY <1>1, <1>2, <1>3

LEMMA OverIsFinite ==
  ASSUME NEW S, NEW q \in Seq(S)
  PROVE  IsFiniteSet(D!ToSet(q)) /\ IsFiniteSet(Overlaid(q)) /\ Cardinality(Overlaid(q)) \in Nat
<1>1. Len(q) \in Nat /\ DOMAIN q = 1 .. Len(q)
  OBVIOUS
<1>2. D!ToSet(q) = {q[i] : i \in 1 .. Len(q)}
  BY <1>1 DEF D!ToSet
<1>3. IsFiniteSet(1 .. Len(q))
  BY <1>1, FS_Interval
<1>4. IsFiniteSet({q[i] : i \in 1 .. Len(q)})
  <2> DEFINE f == [i \in 1 .. Len(q) |-> q[i]]
  <2>1. f \in Surjection(1 .. Len(q), {q[i] : i \in 1 .. Len(q)})
    BY DEF Surjection
  <2> QED BY <2>1, <1>3, FS_Surjection
<1>5. Overlaid(q) \subseteq D!ToSet(q)
  BY DEF Overlaid
<1> QED BY <1>2, <1>4, <1>5, FS_Subset, FS_CardinalityType

(* Ids that were given stay given. *)
LEMMA LayersGrow ==
  ASSUME NEW n \in Nat, NEW m \in Nat, n <= m
  PROVE  LayersUpTo(n) \subseteq LayersUpTo(m)
<1>1. 1 .. n \subseteq 1 .. m
  OBVIOUS
<1> QED BY <1>1 DEF LayersUpTo

LEMMA DesignsGrow ==
  ASSUME NEW n \in Nat, NEW m \in Nat, n <= m, NEW h, NEW s
  PROVE  Designs(n, h, s) \subseteq Designs(m, h, s)
<1>1. Seq(LayersUpTo(n)) \subseteq Seq(LayersUpTo(m))
  <2> SUFFICES ASSUME NEW q \in Seq(LayersUpTo(n)) PROVE q \in Seq(LayersUpTo(m))
    OBVIOUS
  <2> QED BY LayersGrow, SeqFacts
<1>2. Stacks(n) \subseteq Stacks(m)
  BY <1>1 DEF Stacks
<1>3. 0 .. n \subseteq 0 .. m
  OBVIOUS
<1>4. Figures(n) \subseteq Figures(m)
  BY <1>2, <1>3 DEF Figures
<1> QED BY <1>4 DEF Designs

LEMMA DesignFacts ==
  ASSUME NEW n \in Nat, NEW h, NEW s, NEW d \in Designs(n, h, s)
  PROVE  /\ d = [layers |-> d.layers, text |-> d.text, textSelected |-> d.textSelected,
                 selected |-> d.selected]
         /\ d.layers \in Stacks(n) /\ d.text \in Nat /\ d.textSelected \in BOOLEAN /\ d.selected \in 0 .. n
         /\ d.selected # D!None => ~d.textSelected /\ \E l \in Overlaid(d.layers) : l.id = d.selected
         /\ d.textSelected => d.text # D!None
         /\ h => \A l \in D!ToSet(d.layers) : l.since = s
  BY DEF Designs, Figures

LEMMA IsDesign ==
  ASSUME NEW n \in Nat, NEW h, NEW s, NEW d, d \in Figures(n),
         d.selected # D!None => ~d.textSelected /\ \E l \in Overlaid(d.layers) : l.id = d.selected,
         d.textSelected => d.text # D!None,
         h => \A l \in D!ToSet(d.layers) : l.since = s
  PROVE  d \in Designs(n, h, s)
  BY DEF Designs

(* As many layers, one of them otherwise. *)
LEMMA LayerChanged ==
  ASSUME NEW n \in Nat, NEW q \in Stacks(n), NEW l \in D!ToSet(q), NEW m \in LayersUpTo(n),
         m.id = l.id, m.kind = l.kind,
         NEW r, r = [i \in DOMAIN q |-> IF q[i].id = l.id THEN m ELSE q[i]]
  PROVE  /\ r \in Stacks(n) /\ DOMAIN r = DOMAIN q
         /\ \A i \in DOMAIN q : r[i].id = q[i].id /\ r[i].kind = q[i].kind /\ (r[i] = q[i] \/ (r[i] = m /\ q[i] = l))
<1>1. /\ q \in Seq(LayersUpTo(n)) /\ Len(q) \in Nat /\ DOMAIN q = 1 .. Len(q)
      /\ \A i \in 1 .. Len(q) : q[i] \in LayersUpTo(n)
      /\ D!ToSet(q) = {q[i] : i \in 1 .. Len(q)}
      /\ OneEach(q) /\ OnGround(q) /\ Cardinality(Overlaid(q)) <= MaxLayers
  BY StackFacts
<1>2. PICK k \in 1 .. Len(q) : q[k] = l
  BY <1>1
<1>3. \A i \in 1 .. Len(q) : q[i].id = l.id <=> i = k
  BY <1>1, <1>2 DEF OneEach
<1>4. /\ DOMAIN r = 1 .. Len(q) /\ r = [i \in 1 .. Len(q) |-> r[i]]
      /\ \A i \in 1 .. Len(q) : r[i] = IF i = k THEN m ELSE q[i]
  BY <1>1, <1>3
<1>5. \A i \in 1 .. Len(q) : r[i] \in LayersUpTo(n)
  BY <1>1, <1>4
<1>6. r \in Seq(LayersUpTo(n)) /\ Len(r) = Len(q)
  BY <1>1, <1>4, <1>5, Listed
<1>7. \A i \in 1 .. Len(q) : r[i].id = q[i].id /\ r[i].kind = q[i].kind /\ (r[i] = q[i] \/ (r[i] = m /\ q[i] = l))
  BY <1>2, <1>4
<1>8. OneEach(r) /\ OnGround(r)
  BY <1>1, <1>4, <1>7 DEF OneEach, OnGround
<1>9. Cardinality(Overlaid(r)) <= Cardinality(Overlaid(q))
  <2> DEFINE f == [x \in Overlaid(q) |-> IF x.id = l.id THEN m ELSE x]
  <2>1. D!ToSet(r) = {r[i] : i \in 1 .. Len(q)}
    BY <1>4 DEF D!ToSet
  <2>2. \A x \in Overlaid(q) : f[x] \in Overlaid(r)
    <3> SUFFICES ASSUME NEW x \in Overlaid(q) PROVE f[x] \in Overlaid(r)
      OBVIOUS
    <3>1. PICK i \in 1 .. Len(q) : x = q[i]
      BY <1>1 DEF Overlaid
    <3>2. f[x] = r[i]
      BY <3>1, <1>2, <1>3, <1>4
    <3>3. x.kind = "layer" /\ r[i].kind = x.kind
      BY <3>1, <1>7 DEF Overlaid
    <3> QED BY <3>2, <3>3, <2>1 DEF Overlaid
  <2>3. \A y \in Overlaid(r) : \E x \in Overlaid(q) : f[x] = y
    <3> SUFFICES ASSUME NEW y \in Overlaid(r) PROVE \E x \in Overlaid(q) : f[x] = y
      OBVIOUS
    <3>1. PICK i \in 1 .. Len(q) : y = r[i]
      BY <2>1 DEF Overlaid
    <3>2. q[i] \in Overlaid(q)
      BY <3>1, <1>1, <1>7 DEF Overlaid
    <3>3. f[q[i]] = y
      BY <3>1, <3>2, <1>2, <1>3, <1>4
    <3> QED BY <3>2, <3>3
  <2>4. f \in Surjection(Overlaid(q), Overlaid(r))
    BY <2>2, <2>3 DEF Surjection
  <2> QED BY <1>1, <2>4, OverIsFinite, FS_Surjection
<1>10. Cardinality(Overlaid(q)) \in Nat /\ Cardinality(Overlaid(r)) \in Nat
  BY <1>1, <1>6, OverIsFinite
<1>11. Cardinality(Overlaid(r)) <= MaxLayers
  BY <1>1, <1>9, <1>10, Bounds
<1> QED BY <1>1, <1>4, <1>6, <1>7, <1>8, <1>11 DEF Stacks

LEMMA DesignChanged ==
  ASSUME NEW n \in Nat, NEW h, NEW s, NEW d \in Designs(n, h, s), NEW l \in D!ToSet(d.layers),
         NEW m \in LayersUpTo(n), m.id = l.id, m.kind = l.kind, m.since = l.since
  PROVE  D!Changing(d, l.id, m) \in Designs(n, h, s)
<1> DEFINE q == d.layers
           r == [i \in DOMAIN q |-> IF q[i].id = l.id THEN m ELSE q[i]]
           c == [d EXCEPT !.layers = r]
<1>1. D!Changing(d, l.id, m) = c
  BY DEF D!Changing
<1>2. /\ q \in Stacks(n) /\ d.text \in Nat /\ d.textSelected \in BOOLEAN /\ d.selected \in 0 .. n
      /\ d.selected # D!None => ~d.textSelected /\ \E x \in Overlaid(q) : x.id = d.selected
      /\ d.textSelected => d.text # D!None
      /\ h => \A x \in D!ToSet(q) : x.since = s
      /\ d = [layers |-> d.layers, text |-> d.text, textSelected |-> d.textSelected, selected |-> d.selected]
  BY DesignFacts
<1>3. c = [layers |-> r, text |-> d.text, textSelected |-> d.textSelected, selected |-> d.selected]
  BY <1>2
<1>4. /\ r \in Stacks(n) /\ DOMAIN r = DOMAIN q
      /\ \A i \in DOMAIN q : r[i].id = q[i].id /\ r[i].kind = q[i].kind /\ (r[i] = q[i] \/ (r[i] = m /\ q[i] = l))
  <2>1. \E p : p = r
    OBVIOUS
  <2>2. PICK p : p = r
    BY <2>1
  <2>3. p = [i \in DOMAIN q |-> IF q[i].id = l.id THEN m ELSE q[i]]
    BY <2>2
  <2> HIDE DEF r, q
  <2>4. l \in D!ToSet(q)
    BY DEF q
  <2> QED BY <1>2, <2>2, <2>3, <2>4, LayerChanged
<1> HIDE DEF r, c, q
<1>5. D!ToSet(r) = {r[i] : i \in DOMAIN q} /\ D!ToSet(q) = {q[i] : i \in DOMAIN q}
  BY <1>4 DEF D!ToSet
<1>6. c \in Figures(n)
  BY <1>2, <1>3, <1>4 DEF Figures
<1>7. \A x \in Overlaid(q) : \E y \in Overlaid(r) : y.id = x.id
  BY <1>4, <1>5 DEF Overlaid
<1>8. c.selected # D!None => ~c.textSelected /\ \E y \in Overlaid(c.layers) : y.id = c.selected
  BY <1>2, <1>3, <1>7
<1>9. h => \A x \in D!ToSet(c.layers) : x.since = s
  BY <1>2, <1>3, <1>4, <1>5
<1>10. c.textSelected => c.text # D!None
  BY <1>2, <1>3
<1>11. c \in Designs(n, h, s)
  BY <1>6, <1>8, <1>9, <1>10, IsDesign
<1> QED BY <1>1, <1>11

LEMMA FigureSelected ==
  ASSUME NEW m \in Nat, NEW d \in Figures(m), NEW i \in 0 .. m, NEW e, e = D!Selecting(d, i)
  PROVE  /\ e \in Figures(m) /\ e.layers = d.layers /\ e.text = d.text /\ e.selected = i
         /\ ~e.textSelected
  BY DEF D!Selecting, Figures

(* Another layer selected, or none. *)
LEMMA DesignSelected ==
  ASSUME NEW n \in Nat, NEW h, NEW s, NEW d \in Designs(n, h, s), NEW id,
         id # D!None => \E l \in Overlaid(d.layers) : l.id = id
  PROVE  D!Selecting(d, id) \in Designs(n, h, s) /\ D!Selecting(d, id).layers = d.layers
<1>1. d \in Figures(n) /\ d.layers \in Stacks(n) /\ (h => \A x \in D!ToSet(d.layers) : x.since = s)
  BY DEF Designs, Figures
<1>2. id \in 0 .. n
  <2>1. D!ToSet(d.layers) \subseteq LayersUpTo(n)
    BY <1>1, StackFacts
  <2> QED BY <2>1 DEF Overlaid, LayersUpTo, D!None
<1>3. PICK e : e = D!Selecting(d, id)
  OBVIOUS
<1>4. e \in Figures(n) /\ e.layers = d.layers /\ e.text = d.text /\ e.selected = id /\ ~e.textSelected
  BY <1>1, <1>2, <1>3, FigureSelected
<1>5. e \in Designs(n, h, s)
  BY <1>1, <1>4, IsDesign
<1> QED BY <1>3, <1>4, <1>5

(* The text changed, or gone. *)
LEMMA DesignTexted ==
  ASSUME NEW n \in Nat, NEW h, NEW s, NEW d \in Designs(n, h, s), NEW text \in Nat,
         d.textSelected => text # D!None
  PROVE  [d EXCEPT !.text = text] \in Designs(n, h, s)
<1> DEFINE c == [layers |-> d.layers, text |-> text, textSelected |-> d.textSelected, selected |-> d.selected]
<1>1. /\ d.layers \in Stacks(n) /\ d.textSelected \in BOOLEAN /\ d.selected \in 0 .. n
      /\ d.selected # D!None => ~d.textSelected /\ \E l \in Overlaid(d.layers) : l.id = d.selected
      /\ h => \A x \in D!ToSet(d.layers) : x.since = s
      /\ d = [layers |-> d.layers, text |-> d.text, textSelected |-> d.textSelected, selected |-> d.selected]
  BY DesignFacts
<1>2. [d EXCEPT !.text = text] = c /\ c \in Figures(n)
  BY <1>1 DEF Figures
<1>3. c \in Designs(n, h, s)
  BY <1>1, <1>2, IsDesign
<1> QED BY <1>2, <1>3

LEMMA TextSelectedOrNot ==
  ASSUME NEW n \in Nat, NEW h, NEW s, NEW d \in Designs(n, h, s), NEW text \in Nat,
         NEW chosen \in BOOLEAN, chosen => text # D!None
  PROVE  [layers |-> d.layers, text |-> text, textSelected |-> chosen, selected |-> D!None] \in Designs(n, h, s)
<1> DEFINE c == [layers |-> d.layers, text |-> text, textSelected |-> chosen, selected |-> D!None]
<1>1. d.layers \in Stacks(n) /\ (h => \A x \in D!ToSet(d.layers) : x.since = s)
  BY DesignFacts
<1>2. c \in Figures(n)
  BY <1>1 DEF Figures, D!None
<1> QED BY <1>1, <1>2, IsDesign

(* Some of a list, in its order. *)
LEMMA Fewer ==
  ASSUME NEW n \in Nat, NEW q \in Stacks(n), NEW keep
  PROVE  /\ D!Only(q, keep) \in Stacks(n) /\ D!ToSet(D!Only(q, keep)) = D!ToSet(q) \cap keep
         /\ Len(D!Only(q, keep)) <= Len(q)
<1> DEFINE r == D!Only(q, keep)
<1>1. /\ q \in Seq(LayersUpTo(n)) /\ Len(q) \in Nat /\ DOMAIN q = 1 .. Len(q)
      /\ OneEach(q) /\ OnGround(q) /\ Cardinality(Overlaid(q)) <= MaxLayers
  BY StackFacts
<1>2. r \in Seq(LayersUpTo(n)) /\ Len(r) <= Len(q) /\ D!ToSet(r) = D!ToSet(q) \cap keep
  BY <1>1, OnlyFacts, SameLists
<1>3. PICK g : Places(g, r, q, Len(q))
  BY <1>1, OnlyInOrder, SameLists
<1> HIDE DEF r
<1>4. Len(r) \in Nat /\ DOMAIN r = 1 .. Len(r)
  BY <1>2
<1>5. /\ \A a \in 1 .. Len(r) : g[a] \in 1 .. Len(q) /\ r[a] = q[g[a]]
      /\ \A a, b \in 1 .. Len(r) : a < b => g[a] < g[b]
  BY <1>3 DEF Places
<1>6. OneEach(r)
  <2> SUFFICES ASSUME NEW a \in 1 .. Len(r), NEW b \in 1 .. Len(r), r[a].id = r[b].id PROVE a = b
    BY <1>4 DEF OneEach
  <2>1. g[a] = g[b]
    BY <1>1, <1>5 DEF OneEach
  <2>2. g[a] \in 1 .. Len(q) /\ g[b] \in 1 .. Len(q)
    BY <1>5
  <2> QED BY <2>1, <2>2, <1>1, <1>4, <1>5
<1>7. OnGround(r)
  <2> SUFFICES ASSUME NEW a \in 1 .. Len(r), r[a].kind = "background", a # 1 PROVE FALSE
    BY <1>4 DEF OnGround
  <2>1. g[a] = 1
    BY <1>1, <1>5 DEF OnGround
  <2>2. 1 \in 1 .. Len(r) /\ 1 < a
    BY <1>4
  <2>3. g[1] \in 1 .. Len(q) /\ g[1] < g[a]
    BY <2>2, <1>5
  <2> QED BY <2>1, <2>3, <1>1
<1>8. Cardinality(Overlaid(r)) <= MaxLayers
  <2>1. Overlaid(r) \subseteq Overlaid(q)
    BY <1>2 DEF Overlaid
  <2>2. IsFiniteSet(Overlaid(q)) /\ Cardinality(Overlaid(q)) \in Nat /\ Cardinality(Overlaid(r)) \in Nat
    BY <1>1, <1>2, OverIsFinite
  <2>3. Cardinality(Overlaid(r)) <= Cardinality(Overlaid(q))
    BY <2>1, <2>2, FS_Subset
  <2> QED BY <1>1, <2>2, <2>3, Bounds
<1>9. r \in Stacks(n)
  BY <1>2, <1>6, <1>7, <1>8 DEF Stacks
<1> QED BY <1>2, <1>9 DEF r

(* The overlays: all that is over the photo, one place each. *)
LEMMA OverlaysAre ==
  ASSUME NEW n \in Nat, NEW q \in Stacks(n)
  PROVE  /\ D!Overlays(q) \in Stacks(n) /\ D!ToSet(D!Overlays(q)) = Overlaid(q)
         /\ D!OfKind(q, "background") \in Stacks(n)
         /\ D!ToSet(D!OfKind(q, "background")) = {l \in D!ToSet(q) : l.kind = "background"}
<1>1. D!ToSet(q) \cap {l \in D!ToSet(q) : l.kind = "layer"} = Overlaid(q)
  BY DEF Overlaid
<1>2. D!ToSet(q) \cap {l \in D!ToSet(q) : l.kind = "background"} = {l \in D!ToSet(q) : l.kind = "background"}
  OBVIOUS
<1>3. ASSUME NEW kind
      PROVE  D!OfKind(q, kind) \in Stacks(n)
             /\ D!ToSet(D!OfKind(q, kind)) = D!ToSet(q) \cap {l \in D!ToSet(q) : l.kind = kind}
  <2> DEFINE keep == {l \in D!ToSet(q) : l.kind = kind}
  <2>1. D!OfKind(q, kind) = D!Only(q, keep)
    BY DEF D!OfKind
  <2> HIDE DEF keep
  <2>2. D!OfKind(q, kind) \in Stacks(n) /\ D!ToSet(D!OfKind(q, kind)) = D!ToSet(q) \cap keep
    BY <2>1, Fewer
  <2> QED BY <2>2 DEF keep
<1>4. D!Overlays(q) = D!OfKind(q, "layer")
  BY DEF D!Overlays
<1> QED BY <1>1, <1>2, <1>3, <1>4, Zenon

LEMMA TopIs ==
  ASSUME NEW n \in Nat, NEW q \in Stacks(n)
  PROVE  D!TopOf(q) # D!None => \E l \in Overlaid(q) : l.id = D!TopOf(q)
<1> DEFINE o == D!Overlays(q)
<1>1. o \in Stacks(n) /\ D!ToSet(o) = Overlaid(q)
  BY OverlaysAre
<1> HIDE DEF o
<1>2. Len(o) \in Nat /\ o \in Seq(LayersUpTo(n)) /\ D!ToSet(o) = {o[i] : i \in 1 .. Len(o)}
  BY <1>1, StackFacts
<1>3. ASSUME o # <<>> PROVE D!Last(o) \in Overlaid(q)
  <2>1. Len(o) >= 1
    BY <1>2, <1>3, NotEmpty
  <2>2. Len(o) \in 1 .. Len(o)
    BY <2>1, <1>2
  <2> QED BY <2>2, <1>1, <1>2 DEF D!Last
<1>4. D!TopOf(q) = IF o = <<>> THEN D!None ELSE D!Last(o).id
  BY DEF D!TopOf, o
<1> QED BY <1>3, <1>4

(* A layer deleted: what is selected next is there. *)
LEMMA DesignWithout ==
  ASSUME NEW n \in Nat, NEW h, NEW s, NEW d \in Designs(n, h, s), NEW id
  PROVE  D!Removed([d EXCEPT !.layers = D!Without(@, id)], id) \in Designs(n, h, s)
<1> DEFINE r == D!Without(d.layers, id)
           c == [layers |-> r, text |-> d.text, textSelected |-> d.textSelected, selected |-> d.selected]
<1>1. /\ d.layers \in Stacks(n) /\ d.text \in Nat /\ d.textSelected \in BOOLEAN /\ d.selected \in 0 .. n
      /\ d.selected # D!None => ~d.textSelected /\ \E l \in Overlaid(d.layers) : l.id = d.selected
      /\ d.textSelected => d.text # D!None
      /\ h => \A l \in D!ToSet(d.layers) : l.since = s
      /\ d = [layers |-> d.layers, text |-> d.text, textSelected |-> d.textSelected, selected |-> d.selected]
  BY DesignFacts
<1>2. r \in Stacks(n) /\ D!ToSet(r) = {l \in D!ToSet(d.layers) : l.id # id}
  <2>1. D!ToSet(d.layers) \cap {l \in D!ToSet(d.layers) : l.id # id} = {l \in D!ToSet(d.layers) : l.id # id}
    OBVIOUS
  <2> QED BY <1>1, <2>1, Fewer DEF D!Without
<1>3. [d EXCEPT !.layers = D!Without(@, id)] = c
  BY <1>1
<1> HIDE DEF r
<1>4. D!TopOf(r) # D!None => \E l \in Overlaid(r) : l.id = D!TopOf(r)
  BY <1>2, TopIs
<1>5. D!TopOf(r) \in 0 .. n
  <2>1. D!ToSet(r) \subseteq LayersUpTo(n)
    BY <1>2, StackFacts
  <2> QED BY <2>1, <1>4 DEF Overlaid, LayersUpTo, D!None
<1>6. h => \A l \in D!ToSet(r) : l.since = s
  BY <1>1, <1>2
<1>7. CASE d.selected = id
  <2>1. PICK e : e = D!Selecting(c, D!TopOf(r))
    OBVIOUS
  <2>2. D!Removed(c, id) = e
    BY <1>7, <2>1 DEF D!Removed
  <2>3. c \in Figures(n) /\ c.layers = r
    BY <1>1, <1>2 DEF Figures
  <2> HIDE DEF c
  <2>4. e \in Figures(n) /\ e.layers = r /\ e.selected = D!TopOf(r) /\ ~e.textSelected
    BY <1>5, <2>1, <2>3, FigureSelected
  <2>5. e \in Designs(n, h, s)
    BY <2>4, <1>4, <1>6, IsDesign
  <2> QED BY <1>3, <2>2, <2>5
<1>8. CASE d.selected # id
  <2>1. D!Removed(c, id) = c
    BY <1>8 DEF D!Removed
  <2>2. c \in Figures(n)
    BY <1>1, <1>2 DEF Figures
  <2>3. c.selected # D!None => \E l \in Overlaid(r) : l.id = c.selected
    BY <1>1, <1>2, <1>8 DEF Overlaid
  <2>4. c \in Designs(n, h, s)
    BY <2>2, <2>3, <1>1, <1>6, IsDesign
  <2> QED BY <1>3, <2>1, <2>4
<1> QED BY <1>7, <1>8

(* A new layer in a list: over the photo, where there is room. *)
(* A layer put above the first i. *)
Insertion(q, i, c) == [j \in 1 .. Len(q) + 1 |-> IF j <= i THEN q[j] ELSE IF j = i + 1 THEN c ELSE q[j - 1]]

LEMMA LayerInserted ==
  ASSUME NEW n \in Nat, NEW q \in Stacks(n), Cardinality(Overlaid(q)) < MaxLayers,
         NEW i \in 0 .. Len(q), i = 0 => Len(q) = 0,
         NEW c \in LayersUpTo(n + 1), c.id = n + 1, c.kind = "layer"
  PROVE  Insertion(q, i, c) \in Stacks(n + 1) /\ D!ToSet(Insertion(q, i, c)) = D!ToSet(q) \cup {c}
<1>0. PICK r : r = Insertion(q, i, c)
  OBVIOUS
<1>1. /\ q \in Seq(LayersUpTo(n)) /\ Len(q) \in Nat /\ DOMAIN q = 1 .. Len(q)
      /\ \A j \in 1 .. Len(q) : q[j] \in LayersUpTo(n)
      /\ D!ToSet(q) = {q[j] : j \in 1 .. Len(q)}
      /\ OneEach(q) /\ OnGround(q) /\ Cardinality(Overlaid(q)) <= MaxLayers
  BY StackFacts
<1>2. DOMAIN r = 1 .. Len(q) + 1 /\ n + 1 \in Nat
  BY <1>0, <1>1 DEF Insertion
<1>3. LayersUpTo(n) \subseteq LayersUpTo(n + 1)
  BY <1>2, LayersGrow
<1>4. \A j \in 1 .. Len(q) + 1 : \/ j = i + 1 /\ r[j] = c
                                 \/ j <= i /\ j \in 1 .. Len(q) /\ r[j] = q[j]
                                 \/ j > i + 1 /\ j - 1 \in 1 .. Len(q) /\ r[j] = q[j - 1]
  BY <1>0, <1>1 DEF Insertion
<1>5. i + 1 \in 1 .. Len(q) + 1 /\ r[i + 1] = c
  BY <1>0, <1>1 DEF Insertion
<1>6. /\ \A j \in 1 .. Len(q) : j <= i => r[j] = q[j]
      /\ \A j \in 1 .. Len(q) : j > i => r[j + 1] = q[j]
  BY <1>0, <1>1 DEF Insertion
<1>7. r \in Seq(LayersUpTo(n + 1))
  <2>1. \A j \in 1 .. Len(q) + 1 : r[j] \in LayersUpTo(n + 1)
    BY <1>1, <1>3, <1>4
  <2>2. Len(q) + 1 \in Nat /\ r = [j \in 1 .. Len(q) + 1 |-> r[j]]
    BY <1>0, <1>1 DEF Insertion
  <2> QED BY <1>2, <2>1, <2>2, Listed
<1>8. \A j \in 1 .. Len(q) : q[j].id \in 1 .. n /\ q[j].id # n + 1
  <2> SUFFICES ASSUME NEW j \in 1 .. Len(q) PROVE q[j].id \in 1 .. n
    OBVIOUS
  <2>1. q[j] \in LayersUpTo(n)
    BY <1>1
  <2> QED BY <2>1 DEF LayersUpTo
<1>9. OneEach(r)
  <2> SUFFICES ASSUME NEW a \in 1 .. Len(q) + 1, NEW b \in 1 .. Len(q) + 1, r[a].id = r[b].id, a < b
               PROVE  FALSE
    BY <1>1, <1>2 DEF OneEach
  <2>1. CASE a = i + 1
    <3>1. r[a].id = n + 1
      BY <2>1, <1>5
    <3>2. b > i + 1
      BY <2>1
    <3>3. b - 1 \in 1 .. Len(q) /\ r[b] = q[b - 1]
      BY <3>2, <1>1, <1>4
    <3>4. r[b].id # n + 1
      BY <3>3, <1>8
    <3> QED BY <3>1, <3>4
  <2>2. CASE b = i + 1
    BY <2>2, <1>4, <1>8
  <2>3. CASE a # i + 1 /\ b # i + 1
    <3> DEFINE at(j) == IF j <= i THEN j ELSE j - 1
    <3>1. at(a) \in 1 .. Len(q) /\ r[a] = q[at(a)]
      BY <2>3, <1>4
    <3>2. at(b) \in 1 .. Len(q) /\ r[b] = q[at(b)]
      BY <2>3, <1>4
    <3>3. at(a) # at(b)
      BY <2>3, <1>1
    <3> HIDE DEF at
    <3> QED BY <3>1, <3>2, <3>3, <1>1 DEF OneEach
  <2> QED BY <2>1, <2>2, <2>3
<1>10. OnGround(r)
  <2> SUFFICES ASSUME NEW a \in 1 .. Len(q) + 1, r[a].kind = "background" PROVE a = 1
    BY <1>2 DEF OnGround
  <2>1. a # i + 1
    BY <1>5
  <2>2. CASE a <= i
    BY <2>2, <1>1, <1>4 DEF OnGround
  <2>3. CASE a > i + 1
    <3>1. a - 1 \in 1 .. Len(q) /\ q[a - 1].kind = "background"
      BY <2>3, <1>4
    <3>2. a - 1 = 1
      BY <3>1, <1>1 DEF OnGround
    <3> QED BY <3>1, <3>2, <2>3
  <2> QED BY <2>1, <2>2, <2>3
<1>11. D!ToSet(r) = D!ToSet(q) \cup {c}
  <2>1. D!ToSet(r) = {r[j] : j \in 1 .. Len(q) + 1}
    BY <1>2 DEF D!ToSet
  <2>2. \A j \in 1 .. Len(q) : q[j] \in D!ToSet(r)
    <3> SUFFICES ASSUME NEW j \in 1 .. Len(q) PROVE q[j] \in D!ToSet(r)
      OBVIOUS
    <3>1. j \in 1 .. Len(q) + 1 /\ j + 1 \in 1 .. Len(q) + 1
      BY <1>1
    <3> QED BY <3>1, <2>1, <1>6, <1>1
  <2>3. c \in D!ToSet(r)
    BY <2>1, <1>5
  <2>4. \A j \in 1 .. Len(q) + 1 : r[j] \in D!ToSet(q) \cup {c}
    BY <1>1, <1>4
  <2> QED BY <2>1, <2>2, <2>3, <2>4, <1>1
<1>12. Cardinality(Overlaid(r)) <= MaxLayers
  <2>1. Overlaid(r) = Overlaid(q) \cup {c}
    BY <1>11 DEF Overlaid
  <2>2. IsFiniteSet(Overlaid(q)) /\ Cardinality(Overlaid(q)) \in Nat
    BY <1>1, OverIsFinite
  <2>3. Cardinality(Overlaid(q) \cup {c})
          = IF c \in Overlaid(q) THEN Cardinality(Overlaid(q)) ELSE Cardinality(Overlaid(q)) + 1
    BY <2>2, FS_AddElement
  <2> DEFINE K == Cardinality(Overlaid(q))
             L == Cardinality(Overlaid(r))
  <2>4. L = K \/ L = K + 1
    BY <2>1, <2>3
  <2>5. K \in Nat /\ K < MaxLayers
    BY <2>2
  <2> HIDE DEF K, L
  <2>6. L <= MaxLayers
    BY <2>4, <2>5, Bounds
  <2> QED BY <2>6 DEF L
<1> QED BY <1>0, <1>7, <1>9, <1>10, <1>11, <1>12 DEF Stacks

(* The new layer is selected. *)
LEMMA DesignWith ==
  ASSUME NEW n \in Nat, NEW h, NEW s, NEW d \in Designs(n, h, s), NEW r \in Stacks(n + 1),
         NEW c \in LayersUpTo(n + 1), c.id = n + 1, c.kind = "layer", h => c.since = s,
         D!ToSet(r) = D!ToSet(d.layers) \cup {c}
  PROVE  D!Selecting([d EXCEPT !.layers = r], n + 1) \in Designs(n + 1, h, s)
<1>1. /\ d.text \in Nat /\ d.textSelected \in BOOLEAN /\ d.selected \in 0 .. n
      /\ h => \A x \in D!ToSet(d.layers) : x.since = s
      /\ d = [layers |-> d.layers, text |-> d.text, textSelected |-> d.textSelected, selected |-> d.selected]
  BY DesignFacts
<1>2. PICK f : f = [d EXCEPT !.layers = r]
  OBVIOUS
<1>3. f = [layers |-> r, text |-> d.text, textSelected |-> d.textSelected, selected |-> d.selected]
  BY <1>1, <1>2
<1>4. n + 1 \in Nat /\ n + 1 # D!None /\ n + 1 \in 0 .. n + 1 /\ d.selected \in 0 .. n + 1
  BY <1>1 DEF D!None
<1>5. f \in Figures(n + 1) /\ f.layers = r
  BY <1>1, <1>3, <1>4 DEF Figures
<1>6. PICK e : e = D!Selecting(f, n + 1)
  OBVIOUS
<1>7. e \in Figures(n + 1) /\ e.layers = r /\ e.selected = n + 1 /\ ~e.textSelected
  <2>1. PICK m \in Nat : m = n + 1
    BY <1>4
  <2>2. f \in Figures(m) /\ m \in 0 .. m /\ e = D!Selecting(f, m)
    BY <1>4, <1>5, <1>6, <2>1
  <2>3. e \in Figures(m) /\ e.layers = f.layers /\ e.selected = m /\ ~e.textSelected
    BY <2>2, FigureSelected
  <2> QED BY <1>5, <2>1, <2>3
<1>8. \E l \in Overlaid(r) : l.id = n + 1
  BY DEF Overlaid
<1>9. h => \A x \in D!ToSet(r) : x.since = s
  BY <1>1
<1>10. e \in Designs(n + 1, h, s)
  BY <1>4, <1>7, <1>8, <1>9, IsDesign
<1> QED BY <1>2, <1>6, <1>10

LEMMA Joined ==
  ASSUME NEW S, NEW g \in Seq(S), NEW p \in Seq(S)
  PROVE  /\ g \o p \in Seq(S) /\ Len(g \o p) = Len(g) + Len(p) /\ DOMAIN (g \o p) = 1 .. Len(g \o p)
         /\ \A j \in 1 .. Len(g) : (g \o p)[j] = g[j]
         /\ \A j \in 1 .. Len(p) : (g \o p)[Len(g) + j] = p[j]
         /\ \A j \in 1 .. Len(g \o p) :
               j <= Len(g) \/ (j - Len(g) \in 1 .. Len(p) /\ (g \o p)[j] = p[j - Len(g)])
  OBVIOUS

(* One layer up: the same layers, the photo still below them. *)
LEMMA LayersReordered ==
  ASSUME NEW n \in Nat, NEW q \in Stacks(n), NEW above \in Overlaid(q), above # D!Last(D!Overlays(q))
  PROVE  D!Reordered(q, above) \in Stacks(n) /\ D!ToSet(D!Reordered(q, above)) = D!ToSet(q)
<1> DEFINE o == D!Overlays(q)
           g == D!OfKind(q, "background")
           i == CHOOSE j \in DOMAIN o : o[j] = above
           p == [o EXCEPT ![i] = o[i + 1], ![i + 1] = above]
           r == g \o p
<1>1. /\ o \in Stacks(n) /\ D!ToSet(o) = Overlaid(q)
      /\ g \in Stacks(n) /\ D!ToSet(g) = {l \in D!ToSet(q) : l.kind = "background"}
  BY OverlaysAre
<1> HIDE DEF o, g
<1>2. /\ o \in Seq(LayersUpTo(n)) /\ Len(o) \in Nat /\ DOMAIN o = 1 .. Len(o) /\ D!ToSet(o) = {o[j] : j \in 1 .. Len(o)}
      /\ OneEach(o) /\ \A j \in 1 .. Len(o) : o[j] \in LayersUpTo(n)
  BY <1>1, StackFacts
<1>3. /\ g \in Seq(LayersUpTo(n)) /\ Len(g) \in Nat /\ DOMAIN g = 1 .. Len(g) /\ D!ToSet(g) = {g[j] : j \in 1 .. Len(g)}
      /\ OneEach(g) /\ OnGround(g) /\ \A j \in 1 .. Len(g) : g[j] \in LayersUpTo(n)
  BY <1>1, StackFacts
<1>4. /\ q \in Seq(LayersUpTo(n)) /\ Len(q) \in Nat /\ DOMAIN q = 1 .. Len(q) /\ D!ToSet(q) = {q[j] : j \in 1 .. Len(q)}
      /\ OneEach(q) /\ Cardinality(Overlaid(q)) <= MaxLayers
      /\ \A l \in D!ToSet(q) : l.kind \in {"layer", "background"}
  <2>1. D!ToSet(q) \subseteq LayersUpTo(n)
    BY StackFacts
  <2>2. \A l \in D!ToSet(q) : l.kind \in {"layer", "background"}
    BY <2>1 DEF LayersUpTo
  <2> QED BY <2>2, StackFacts
<1>5. i \in 1 .. Len(o) /\ o[i] = above
  BY <1>1, <1>2
<1>6. i # Len(o)
  BY <1>5 DEF D!Last, o
<1> HIDE DEF i
<1>7. i + 1 \in 1 .. Len(o)
  <2>1. Len(o) \in Nat
    BY <1>2
  <2> QED BY <2>1, <1>5, <1>6
<1>8. /\ p = [j \in 1 .. Len(o) |-> p[j]] /\ DOMAIN p = 1 .. Len(o)
      /\ \A j \in 1 .. Len(o) : p[j] = IF j = i + 1 THEN o[i] ELSE IF j = i THEN o[i + 1] ELSE o[j]
  BY <1>2, <1>5, <1>7
<1> HIDE DEF p
<1>9. p \in Seq(LayersUpTo(n)) /\ Len(p) = Len(o)
  <2>1. \A j \in 1 .. Len(o) : p[j] \in LayersUpTo(n)
    BY <1>2, <1>5, <1>7, <1>8
  <2> QED BY <1>2, <1>8, <2>1, Listed
<1>10. /\ p[i] = o[i + 1] /\ p[i + 1] = o[i] /\ \A j \in 1 .. Len(o) : j # i /\ j # i + 1 => p[j] = o[j]
  BY <1>2, <1>5, <1>7, <1>8
<1>11. D!ToSet(p) = D!ToSet(o)
  <2>1. D!ToSet(p) = {p[j] : j \in 1 .. Len(o)}
    BY <1>8 DEF D!ToSet
  <2>2. \A j \in 1 .. Len(o) : p[j] \in D!ToSet(o)
    BY <1>2, <1>5, <1>7, <1>8
  <2>3. \A j \in 1 .. Len(o) : o[j] \in D!ToSet(p)
    <3> SUFFICES ASSUME NEW j \in 1 .. Len(o) PROVE o[j] \in D!ToSet(p)
      OBVIOUS
    <3>1. CASE j = i
      BY <3>1, <2>1, <1>7, <1>10
    <3>2. CASE j = i + 1
      BY <3>2, <2>1, <1>5, <1>10
    <3>3. CASE j # i /\ j # i + 1
      BY <3>3, <2>1, <1>10
    <3> QED BY <3>1, <3>2, <3>3
  <2> QED BY <2>1, <2>2, <2>3, <1>2
<1>12. OneEach(p)
  <2> SUFFICES ASSUME NEW a \in 1 .. Len(o), NEW b \in 1 .. Len(o), p[a].id = p[b].id PROVE a = b
    BY <1>8 DEF OneEach
  <2> DEFINE at(j) == IF j = i + 1 THEN i ELSE IF j = i THEN i + 1 ELSE j
  <2>1. at(a) \in 1 .. Len(o) /\ at(b) \in 1 .. Len(o) /\ p[a] = o[at(a)] /\ p[b] = o[at(b)]
    BY <1>5, <1>7, <1>8
  <2>2. at(a) = at(b)
    <3> HIDE DEF at
    <3> QED BY <2>1, <1>2 DEF OneEach
  <2> QED BY <2>2, <1>5, <1>2
<1>13. \A j \in 1 .. Len(g) : j = 1
  BY <1>1, <1>3 DEF OnGround
<1>14. /\ r \in Seq(LayersUpTo(n)) /\ Len(r) = Len(g) + Len(o) /\ DOMAIN r = 1 .. Len(r)
       /\ \A j \in 1 .. Len(g) : r[j] = g[j]
       /\ \A j \in 1 .. Len(o) : r[Len(g) + j] = p[j]
       /\ \A j \in 1 .. Len(r) : j <= Len(g) \/ (j - Len(g) \in 1 .. Len(o) /\ r[j] = p[j - Len(g)])
  <2>1. g \in Seq(LayersUpTo(n)) /\ p \in Seq(LayersUpTo(n))
    BY <1>3, <1>9
  <2>2. /\ r \in Seq(LayersUpTo(n)) /\ Len(r) = Len(g) + Len(p) /\ DOMAIN r = 1 .. Len(r)
        /\ \A j \in 1 .. Len(g) : r[j] = g[j]
        /\ \A j \in 1 .. Len(p) : r[Len(g) + j] = p[j]
        /\ \A j \in 1 .. Len(r) : j <= Len(g) \/ (j - Len(g) \in 1 .. Len(p) /\ r[j] = p[j - Len(g)])
    BY <2>1, Joined, Zenon
  <2> HIDE DEF r
  <2> QED BY <2>2, <1>9
<1> HIDE DEF r
<1>15. D!ToSet(r) = D!ToSet(q)
  <2>1. D!ToSet(p) = {p[j] : j \in 1 .. Len(o)}
    BY <1>8 DEF D!ToSet
  <2>2. D!ToSet(r) = D!ToSet(g) \cup D!ToSet(p)
    <3>1. D!ToSet(r) = {r[j] : j \in 1 .. Len(r)}
      BY <1>14 DEF D!ToSet
    <3>2. \A j \in 1 .. Len(r) : r[j] \in D!ToSet(g) \cup D!ToSet(p)
      BY <1>3, <1>14, <2>1
    <3>3. \A j \in 1 .. Len(g) : g[j] \in D!ToSet(r)
      <4> SUFFICES ASSUME NEW j \in 1 .. Len(g) PROVE g[j] \in D!ToSet(r)
        OBVIOUS
      <4>1. j \in 1 .. Len(r)
        BY <1>2, <1>3, <1>14
      <4> QED BY <4>1, <3>1, <1>14
    <3>4. \A j \in 1 .. Len(o) : p[j] \in D!ToSet(r)
      <4> SUFFICES ASSUME NEW j \in 1 .. Len(o) PROVE p[j] \in D!ToSet(r)
        OBVIOUS
      <4>1. Len(g) + j \in 1 .. Len(r)
        BY <1>2, <1>3, <1>14
      <4> QED BY <4>1, <3>1, <1>14
    <3> QED BY <3>1, <3>2, <3>3, <3>4, <2>1, <1>3
  <2> QED BY <2>2, <1>1, <1>4, <1>11 DEF Overlaid
<1>16. OneEach(r)
  <2>1. \A a \in 1 .. Len(g), b \in 1 .. Len(o) : g[a].id # p[b].id
    <3> SUFFICES ASSUME NEW a \in 1 .. Len(g), NEW b \in 1 .. Len(o), g[a].id = p[b].id PROVE FALSE
      OBVIOUS
    <3>1. g[a] \in D!ToSet(q) /\ g[a].kind = "background"
      BY <1>1, <1>3
    <3>2. p[b] \in D!ToSet(q) /\ p[b].kind = "layer"
      <4>1. p[b] \in D!ToSet(p)
        BY <1>8 DEF D!ToSet
      <4> QED BY <4>1, <1>1, <1>11 DEF Overlaid
    <3> QED BY <3>1, <3>2, <1>4 DEF OneEach
  <2> SUFFICES ASSUME NEW a \in 1 .. Len(r), NEW b \in 1 .. Len(r), r[a].id = r[b].id PROVE a = b
    BY <1>14 DEF OneEach
  <2>2. CASE a <= Len(g) /\ b <= Len(g)
    BY <2>2, <1>13, <1>14
  <2>3. CASE a <= Len(g) /\ ~(b <= Len(g))
    BY <2>1, <2>3, <1>14
  <2>4. CASE ~(a <= Len(g)) /\ b <= Len(g)
    BY <2>1, <2>4, <1>14
  <2>5. CASE ~(a <= Len(g)) /\ ~(b <= Len(g))
    <3>1. a - Len(g) \in DOMAIN p /\ b - Len(g) \in DOMAIN p /\ p[a - Len(g)].id = p[b - Len(g)].id
      BY <2>5, <1>8, <1>14
    <3>2. a - Len(g) = b - Len(g)
      BY <3>1, <1>12 DEF OneEach
    <3> QED BY <3>2, <1>3, <1>14
  <2> QED BY <2>2, <2>3, <2>4, <2>5
<1>17. OnGround(r)
  <2> SUFFICES ASSUME NEW a \in 1 .. Len(r), r[a].kind = "background" PROVE a = 1
    BY <1>14 DEF OnGround
  <2>1. CASE a <= Len(g)
    BY <2>1, <1>13, <1>14
  <2>2. CASE ~(a <= Len(g))
    <3>1. a - Len(g) \in 1 .. Len(o) /\ r[a] = p[a - Len(g)]
      BY <2>2, <1>14
    <3>2. p[a - Len(g)] \in D!ToSet(p)
      BY <3>1, <1>8 DEF D!ToSet
    <3> QED BY <3>1, <3>2, <1>1, <1>11 DEF Overlaid
  <2> QED BY <2>1, <2>2
<1>18. Overlaid(r) = Overlaid(q)
  BY <1>15 DEF Overlaid
<1>19. r \in Stacks(n)
  BY <1>4, <1>14, <1>16, <1>17, <1>18 DEF Stacks
<1>20. D!Reordered(q, above) = r
  BY <1>6 DEF D!Reordered, o, g, i, p, r
<1> QED BY <1>15, <1>19, <1>20

(* What is imported: the photo under what is saved, all of the session. *)
LEMMA ImportedFits ==
  ASSUME NEW n \in Nat, n = counter, NEW s \in Nat, s = session', NEW photo \in BOOLEAN, NEW h,
         acts \in Nat, saved \in [layers : Seq(SavedLayers), text : Nat],
         Len(saved.layers) <= MaxLayers
  PROVE  /\ D!Imported(photo) \in Designs(n + 1 + Len(saved.layers), h, s)
         /\ Len(saved.layers) \in Nat
<1> DEFINE v == saved.layers
           k == Len(v)
           m == n + 1 + k
           ground == IF photo THEN <<D!NewLayer(n + 1, "background", s, s)>> ELSE <<>>
           row(i) == [v[i] EXCEPT !.id = n + 1 + i, !.since = s, !.asked = s]
           over == [i \in DOMAIN v |-> row(i)]
           q == ground \o over
           d == [layers |-> q, text |-> saved.text, selected |-> D!TopOf(q),
                 textSelected |-> saved.text # D!None /\ D!TopOf(q) = D!None]
<1>1. D!Imported(photo) = d
  BY DEF D!Imported
<1>2. /\ v \in Seq(SavedLayers) /\ k \in Nat /\ DOMAIN v = 1 .. k /\ saved.text \in Nat
      /\ \A i \in 1 .. k : v[i] \in SavedLayers
  <2>1. v \in Seq(SavedLayers) /\ saved.text \in Nat
    OBVIOUS
  <2> QED BY <2>1, SeqFacts
<1>3. m \in Nat /\ n + 1 \in 1 .. m /\ \A i \in 1 .. k : n + 1 + i \in 1 .. m
  BY <1>2
<1>4. \A i \in 1 .. k : /\ row(i) \in LayersUpTo(m) /\ row(i).id = n + 1 + i /\ row(i).kind = "layer"
                        /\ row(i).since = s
  <2> SUFFICES ASSUME NEW i \in 1 .. k
               PROVE  /\ row(i) \in LayersUpTo(m) /\ row(i).id = n + 1 + i /\ row(i).kind = "layer"
                      /\ row(i).since = s
    OBVIOUS
  <2>1. v[i] \in SavedLayers /\ n + 1 + i \in 1 .. m
    BY <1>2, <1>3
  <2> PICK e : e = v[i]
    OBVIOUS
  <2>2. e \in SavedLayers /\ row(i) = [e EXCEPT !.id = n + 1 + i, !.since = s, !.asked = s]
    BY <2>1
  <2> HIDE DEF m, v, k, row
  <2>3. row(i) = [id |-> n + 1 + i, kind |-> e.kind, at |-> e.at, style |-> e.style, framed |-> e.framed,
                  cropped |-> e.cropped, locked |-> e.locked, since |-> s, asked |-> s]
    BY <2>2 DEF SavedLayers
  <2>4. /\ e.kind = "layer" /\ e.at \in Nat /\ e.style \in {"free", "cover"} /\ e.framed \in BOOLEAN
        /\ e.cropped \in BOOLEAN /\ e.locked \in BOOLEAN
    BY <2>2 DEF SavedLayers
  <2>5. row(i) \in LayersUpTo(m)
    BY <2>1, <2>3, <2>4 DEF LayersUpTo
  <2> QED BY <2>3, <2>4, <2>5
<1>5. /\ over \in Seq(LayersUpTo(m)) /\ Len(over) = k /\ DOMAIN over = 1 .. k
      /\ \A i \in 1 .. k : over[i] = row(i)
  <2>1. DOMAIN over = 1 .. k /\ over = [i \in 1 .. k |-> over[i]] /\ \A i \in 1 .. k : over[i] = row(i)
    BY <1>2
  <2>2. \A i \in 1 .. k : over[i] \in LayersUpTo(m)
    BY <1>4, <2>1
  <2> HIDE DEF over, k, m
  <2>3. over \in Seq(LayersUpTo(m)) /\ Len(over) = k
    BY <2>1, <2>2, <1>2, Listed
  <2> QED BY <2>1, <2>3
<1> DEFINE b == D!NewLayer(n + 1, "background", s, s)
<1>6. b \in LayersUpTo(m) /\ b.id = n + 1 /\ b.kind = "background" /\ b.since = s
  <2> HIDE DEF m
  <2> QED BY <1>3 DEF D!NewLayer, LayersUpTo
<1>7. /\ ground \in Seq(LayersUpTo(m)) /\ Len(ground) \in {0, 1}
      /\ \A i \in 1 .. Len(ground) : i = 1 /\ ground[i] = b
  <2> HIDE DEF b, m
  <2>1. ground = IF photo THEN <<b>> ELSE <<>>
    BY DEF b
  <2> HIDE DEF ground
  <2>2. CASE photo
    BY <1>6, <2>1, <2>2
  <2>3. CASE ~photo
    BY <2>1, <2>3
  <2> QED BY <2>2, <2>3
<1> HIDE DEF ground, over, row, b
<1>8. /\ q \in Seq(LayersUpTo(m)) /\ Len(q) = Len(ground) + Len(over) /\ DOMAIN q = 1 .. Len(q)
      /\ \A j \in 1 .. Len(ground) : q[j] = ground[j]
      /\ \A j \in 1 .. Len(over) : q[Len(ground) + j] = over[j]
      /\ \A j \in 1 .. Len(q) :
            j <= Len(ground) \/ (j - Len(ground) \in 1 .. Len(over) /\ q[j] = over[j - Len(ground)])
  <2> HIDE DEF m
  <2>1. ground \in Seq(LayersUpTo(m)) /\ over \in Seq(LayersUpTo(m))
    BY <1>5, <1>7
  <2> QED BY <2>1, Joined, Zenon
<1> HIDE DEF q
<1>9. \A j \in 1 .. Len(q) : \/ j = 1 /\ j = Len(ground) /\ q[j] = b
                             \/ j > Len(ground) /\ j - Len(ground) \in 1 .. k /\ q[j] = row(j - Len(ground))
  <2> HIDE DEF k, m
  <2> SUFFICES ASSUME NEW j \in 1 .. Len(q)
               PROVE  \/ j = 1 /\ j = Len(ground) /\ q[j] = b
                      \/ j > Len(ground) /\ j - Len(ground) \in 1 .. k /\ q[j] = row(j - Len(ground))
    OBVIOUS
  <2>1. CASE j <= Len(ground)
    <3>1. j \in 1 .. Len(ground)
      BY <2>1, <1>7
    <3>2. j = 1 /\ ground[j] = b /\ Len(ground) = 1
      BY <2>1, <3>1, <1>7
    <3>3. q[j] = ground[j]
      BY <3>1, <1>8
    <3> QED BY <3>2, <3>3
  <2>2. CASE ~(j <= Len(ground))
    <3>1. j - Len(ground) \in 1 .. k /\ q[j] = over[j - Len(ground)]
      BY <2>2, <1>5, <1>8
    <3>2. over[j - Len(ground)] = row(j - Len(ground))
      BY <3>1, <1>5
    <3>3. j > Len(ground)
      BY <2>2, <1>7
    <3> QED BY <3>1, <3>2, <3>3
  <2> QED BY <2>1, <2>2
<1>10. \A j \in 1 .. Len(q) : q[j].id = (n + 1 + j) - Len(ground)
  <2> SUFFICES ASSUME NEW j \in 1 .. Len(q) PROVE q[j].id = (n + 1 + j) - Len(ground)
    OBVIOUS
  <2>1. CASE j = 1 /\ j = Len(ground) /\ q[j] = b
    <3>1. Len(ground) = 1 /\ q[j].id = n + 1
      BY <2>1, <1>6
    <3> QED BY <2>1, <3>1
  <2>2. CASE j > Len(ground) /\ j - Len(ground) \in 1 .. k /\ q[j] = row(j - Len(ground))
    <3>1. q[j].id = n + 1 + (j - Len(ground))
      BY <2>2, <1>4
    <3> QED BY <3>1, <1>7
  <2> QED BY <2>1, <2>2, <1>9
<1>11. OneEach(q)
  <2> SUFFICES ASSUME NEW x \in 1 .. Len(q), NEW y \in 1 .. Len(q), q[x].id = q[y].id PROVE x = y
    BY <1>8 DEF OneEach
  <2>1. Len(ground) \in Nat
    BY <1>7
  <2>2. (n + 1 + x) - Len(ground) = (n + 1 + y) - Len(ground)
    BY <1>10
  <2> QED BY <2>1, <2>2
<1>12. OnGround(q)
  <2> SUFFICES ASSUME NEW x \in 1 .. Len(q), q[x].kind = "background" PROVE x = 1
    BY <1>8 DEF OnGround
  <2> QED BY <1>4, <1>9
<1>13. \A l \in D!ToSet(q) : l.since = s
  <2>1. D!ToSet(q) = {q[j] : j \in 1 .. Len(q)}
    BY <1>8 DEF D!ToSet
  <2> QED BY <2>1, <1>4, <1>6, <1>9
<1>14. Cardinality(Overlaid(q)) <= MaxLayers
  <2> DEFINE T == Overlaid(q)
             f == [i \in 1 .. k |-> row(i)]
  <2>1. D!ToSet(q) = {q[j] : j \in 1 .. Len(q)}
    BY <1>8 DEF D!ToSet
  <2>2. \A i \in 1 .. k : row(i) \in T
    <3> SUFFICES ASSUME NEW i \in 1 .. k PROVE row(i) \in T
      OBVIOUS
    <3>1. Len(ground) + i \in 1 .. Len(q) /\ q[Len(ground) + i] = over[i]
      <4> HIDE DEF m
      <4> QED BY <1>2, <1>5, <1>7, <1>8
    <3>2. q[Len(ground) + i] \in D!ToSet(q)
      BY <2>1, <3>1
    <3>3. q[Len(ground) + i] = row(i)
      BY <3>1, <1>5
    <3> QED BY <3>2, <3>3, <1>4 DEF Overlaid
  <2>3. \A y \in T : \E i \in 1 .. k : y = row(i)
    <3> SUFFICES ASSUME NEW y \in T PROVE \E i \in 1 .. k : y = row(i)
      OBVIOUS
    <3>1. PICK j \in 1 .. Len(q) : y = q[j]
      BY <2>1 DEF Overlaid
    <3>2. y.kind = "layer"
      BY DEF Overlaid
    <3> QED BY <3>1, <3>2, <1>6, <1>9
  <2> HIDE DEF T
  <2>4. f \in Surjection(1 .. k, T)
    BY <2>2, <2>3 DEF Surjection
  <2>5. IsFiniteSet(1 .. k) /\ Cardinality(1 .. k) = k
    <3>1. k \in Nat
      BY <1>2
    <3> HIDE DEF k
    <3>2. IsFiniteSet(1 .. k) /\ Cardinality(1 .. k) = IF 1 > k THEN 0 ELSE k - 1 + 1
      BY <3>1, 1 \in Int, k \in Int, FS_Interval, Zenon
    <3> QED BY <3>1, <3>2
  <2> HIDE DEF f, k
  <2>6. IsFiniteSet(T) /\ Cardinality(T) <= k
    BY <2>4, <2>5, FS_Surjection
  <2>7. Cardinality(T) \in Nat /\ k \in Nat /\ k <= MaxLayers
    BY <2>6, FS_CardinalityType, <1>2 DEF k
  <2>8. Cardinality(T) <= MaxLayers
    BY <2>6, <2>7, Bounds
  <2> QED BY <2>8 DEF T
<1>15. q \in Stacks(m)
  BY <1>8, <1>11, <1>12, <1>14 DEF Stacks
<1>16. D!TopOf(q) # D!None => \E l \in Overlaid(q) : l.id = D!TopOf(q)
  <2> HIDE DEF m
  <2> QED BY <1>3, <1>15, TopIs
<1>17. D!TopOf(q) \in 0 .. m
  <2>1. D!ToSet(q) \subseteq LayersUpTo(m)
    <3> HIDE DEF m
    <3> QED BY <1>3, <1>15, StackFacts
  <2> HIDE DEF m
  <2> QED BY <2>1, <1>3, <1>16 DEF Overlaid, LayersUpTo, D!None
<1> DEFINE t == saved.text # D!None /\ D!TopOf(q) = D!None
<1>18. t \in BOOLEAN
  OBVIOUS
<1>19. d = [layers |-> q, text |-> saved.text, textSelected |-> t, selected |-> D!TopOf(q)]
  OBVIOUS
<1>20. t => saved.text # D!None /\ D!TopOf(q) = D!None
  OBVIOUS
<1> HIDE DEF t
<1>21. d \in Figures(m)
  <2> HIDE DEF m
  <2> QED BY <1>2, <1>15, <1>17, <1>18, <1>19 DEF Figures
<1>22. d.layers = q /\ d.text = saved.text /\ d.textSelected = t /\ d.selected = D!TopOf(q)
  BY <1>19
<1> HIDE DEF d
<1>23. d \in Designs(m, h, s)
  <2> HIDE DEF m
  <2> QED BY <1>3, <1>13, <1>16, <1>20, <1>21, <1>22, IsDesign
<1> QED BY <1>1, <1>2, <1>23 DEF m, d

(* What is known of a store, with its ids, its dialog and its session named. *)
Holds(n, h, s) ==
    /\ n \in Nat /\ h \in BOOLEAN /\ s \in Nat
    /\ DialogOK /\ HistoryOK /\ CanvasOK /\ StoreFits(n, h, s)

LEMMA Pushed ==
  ASSUME NEW F, history \in Seq(F), hidx \in 0 .. Len(history), Len(history) <= HistoryLimit, NEW d \in F, D!Push(d)
  PROVE  /\ history' \in Seq(F) /\ Len(history') <= HistoryLimit
         /\ hidx' \in 1 .. Len(history') /\ history'[hidx'] = d
<1> DEFINE cut == SubSeq(history, 1, hidx)
           all == Append(cut, d)
<1>1. Len(history) \in Nat /\ hidx \in Nat
  OBVIOUS
<1>2. cut \in Seq(F) /\ Len(cut) = hidx
  <2>1. 1 \in 1 .. Len(history) + 1 /\ hidx \in 1 - 1 .. Len(history)
    BY <1>1
  <2>2. Len(cut) = hidx - 1 + 1
    BY <2>1, PartOf
  <2>3. cut \in Seq(F)
    BY <2>1, PartOf
  <2> QED BY <2>2, <2>3, <1>1
<1> HIDE DEF cut
<1>3. all \in Seq(F) /\ Len(all) = hidx + 1 /\ all[hidx + 1] = d
  BY <1>1, <1>2
<1> HIDE DEF all
<1>4. history' = (IF Len(all) > HistoryLimit THEN Tail(all) ELSE all) /\ hidx' = Len(history')
  BY DEF D!Push, all, cut
<1>5. CASE Len(all) > HistoryLimit
  <2>1. history' = Tail(all) /\ Len(all) >= 2
    BY <1>3, <1>4, <1>5, Bounds
  <2>2. Tail(all) \in Seq(F) /\ Len(Tail(all)) = hidx /\ Tail(all)[hidx] = d
    BY <1>1, <1>3, <2>1
  <2>3. hidx <= HistoryLimit /\ hidx >= 1
    BY <2>1, <1>1, <1>3, Bounds
  <2> QED BY <2>1, <2>2, <2>3, <1>1, <1>4
<1>6. CASE ~(Len(all) > HistoryLimit)
  <2>1. history' = all
    BY <1>4, <1>6
  <2> QED BY <2>1, <1>1, <1>3, <1>4, <1>6, Bounds
<1> QED BY <1>5, <1>6

(* A step that stays in its session. *)
LEMMA Stays ==
  ASSUME NEW n, NEW h, NEW s, Holds(n, h, s), NEW m \in Nat, n <= m, counter' = m,
         design' \in Designs(m, h, s), UNCHANGED <<dialog, session, saved>>,
         acts' \in 0 .. MaxActs, cropping' \in Nat, drag' = D!NoDrag \/ drag' \in Dragging,
         timers' \subseteq {"nudge", "slider", "text"}, images' \subseteq 0 .. MaxOpens,
         \/ \E x \in Designs(m, h, s) : D!Push(x) /\ x.layers = design'.layers
         \/ /\ UNCHANGED <<history, hidx>>
            /\ Settled' => Settled /\ design'.layers = design.layers
         \/ history' = history /\ hidx' \in 1 .. Len(history) /\ design' = history[hidx']
  PROVE  LabInv'
<1>1. /\ n \in Nat /\ h \in BOOLEAN /\ s \in Nat /\ DialogOK /\ HistoryOK /\ CanvasOK
      /\ n = counter /\ h = dialog.hydrated /\ s = session
      /\ design \in Designs(n, h, s) /\ history \in Seq(Designs(n, h, s))
  BY DEF Holds, StoreFits
<1>2. Designs(n, h, s) \subseteq Designs(m, h, s)
  BY <1>1, DesignsGrow
<1>3. history \in Seq(Designs(m, h, s)) /\ hidx \in 0 .. Len(history) /\ Len(history) \in Nat
  BY <1>1, <1>2, SeqFacts DEF HistoryOK
<1>4. DialogOK'
  BY <1>1 DEF DialogOK
<1>5. /\ history' \in Seq(Designs(m, h, s)) /\ Len(history') <= HistoryLimit
      /\ hidx' \in 0 .. Len(history') /\ (dialog'.hydrated => dialog'.open /\ hidx' > 0) /\ CanvasOK'
  <2>1. CASE \E x \in Designs(m, h, s) : D!Push(x) /\ x.layers = design'.layers
    <3>1. PICK x \in Designs(m, h, s) : D!Push(x) /\ x.layers = design'.layers
      BY <2>1
    <3>2. /\ history' \in Seq(Designs(m, h, s)) /\ Len(history') <= HistoryLimit
          /\ hidx' \in 1 .. Len(history') /\ history'[hidx'] = x
      BY <1>1, <1>3, <3>1, Pushed DEF HistoryOK
    <3>3. CanvasOK'
      BY <3>1, <3>2 DEF CanvasOK
    <3>4. Len(history') \in Nat /\ dialog' = dialog
      BY <3>2
    <3> QED BY <1>1, <3>2, <3>3, <3>4 DEF HistoryOK
  <2>2. CASE UNCHANGED <<history, hidx>> /\ (Settled' => Settled /\ design'.layers = design.layers)
    BY <1>1, <1>3, <2>2 DEF CanvasOK, HistoryOK
  <2>3. CASE history' = history /\ hidx' \in 1 .. Len(history) /\ design' = history[hidx']
    <3>1. CanvasOK'
      BY <2>3 DEF CanvasOK
    <3> QED BY <1>1, <1>3, <2>3, <3>1 DEF HistoryOK
  <2> QED BY <2>1, <2>2, <2>3
<1>6. HistoryOK'
  BY <1>5 DEF HistoryOK
<1>7. StoreFits(m, h, s)'
  BY <1>1, <1>5 DEF StoreFits
<1> QED BY <1>1, <1>4, <1>5, <1>6, <1>7 DEF LabInv

LEMMA HoldsFacts ==
  ASSUME NEW n, NEW h, NEW s, Holds(n, h, s)
  PROVE  /\ n \in Nat /\ h \in BOOLEAN /\ s \in Nat /\ n = counter /\ h = dialog.hydrated /\ s = session
         /\ design \in Designs(n, h, s) /\ history \in Seq(Designs(n, h, s))
         /\ cropping \in Nat /\ acts \in 0 .. MaxActs /\ acts + 1 \in Nat /\ session \in 0 .. MaxOpens
         /\ dialog \in [open : BOOLEAN, hydrated : BOOLEAN]
         /\ timers \subseteq {"nudge", "slider", "text"} /\ images \subseteq 0 .. MaxOpens
         /\ drag = D!NoDrag \/ drag \in Dragging
         /\ saved \in [layers : Seq(SavedLayers), text : Nat] /\ Len(saved.layers) <= MaxLayers
         /\ hidx \in 0 .. Len(history) /\ Len(history) \in Nat
  BY Bounds DEF Holds, StoreFits, DialogOK, HistoryOK

LEMMA ActsFacts == ASSUME acts \in 0 .. MaxActs, D!Acts PROVE acts' \in 0 .. MaxActs /\ acts' = acts + 1
  BY Bounds DEF D!Acts

LEMMA DoingFacts ==
  ASSUME NEW kinds, kinds \subseteq {"nudge", "slider", "text"}, timers \subseteq {"nudge", "slider", "text"},
         D!Debounced(kinds)
  PROVE  /\ timers' \subseteq {"nudge", "slider", "text"}
         /\ timers' \subseteq {"text"} => timers \subseteq {"text"} /\ kinds \subseteq {"text"}
  BY DEF D!Debounced

(* What can be pointed at, or is selected, is a layer over the photo. *)
LEMMA LayerFacts ==
  ASSUME NEW n, NEW h, NEW s, Holds(n, h, s), NEW l \in D!Shown \cup D!SelectedLayers
  PROVE  /\ l \in Overlaid(design.layers) /\ l \in D!ToSet(design.layers) /\ l \in LayersUpTo(n)
         /\ l.id \in 1 .. n /\ l.id # D!None /\ l.kind = "layer" /\ (h => l.since = s)
<1>1. n \in Nat /\ design \in Designs(n, h, s)
  BY HoldsFacts
<1>2. design.layers \in Stacks(n)
      /\ (design.selected # D!None => \E x \in Overlaid(design.layers) : x.id = design.selected)
      /\ (h => \A x \in D!ToSet(design.layers) : x.since = s)
  BY <1>1, DesignFacts
<1>3. /\ DOMAIN design.layers = 1 .. Len(design.layers)
      /\ D!ToSet(design.layers) = {design.layers[i] : i \in 1 .. Len(design.layers)}
      /\ D!ToSet(design.layers) \subseteq LayersUpTo(n) /\ OneEach(design.layers)
  BY <1>1, <1>2, StackFacts
<1>4. l \in D!ToSet(design.layers)
  BY DEF D!Shown, D!SelectedLayers
<1>5. l.id \in 1 .. n /\ l.id # D!None
  <2>1. l \in LayersUpTo(n)
    BY <1>3, <1>4
  <2>2. l.id \in 1 .. n
    BY <2>1 DEF LayersUpTo
  <2> QED BY <2>2, <1>1 DEF D!None
<1>6. l \in Overlaid(design.layers)
  <2>1. CASE l \in D!Shown
    BY <2>1 DEF D!Shown, Overlaid
  <2>2. CASE l \in D!SelectedLayers
    <3>1. PICK x \in Overlaid(design.layers) : x.id = l.id
      BY <1>2, <1>5, <2>2 DEF D!SelectedLayers
    <3>2. x \in D!ToSet(design.layers) /\ x.kind = "layer"
      BY <3>1 DEF Overlaid
    <3>3. x = l
      BY <3>1, <3>2, <1>3, <1>4 DEF OneEach
    <3> QED BY <3>3
  <2> QED BY <2>1, <2>2
<1> QED BY <1>2, <1>3, <1>4, <1>5, <1>6 DEF Overlaid

(* A layer with something of it changed. *)
LEMMA Dragged ==
  ASSUME NEW n, NEW l \in LayersUpTo(n), NEW a \in Nat, NEW m, m = [l EXCEPT !.at = a]
  PROVE  m \in LayersUpTo(n) /\ m.id = l.id /\ m.kind = l.kind /\ m.since = l.since
  BY DEF LayersUpTo

LEMMA Unlocked ==
  ASSUME NEW n, NEW l \in LayersUpTo(n), NEW m, m = [l EXCEPT !.locked = ~@]
  PROVE  m \in LayersUpTo(n) /\ m.id = l.id /\ m.kind = l.kind /\ m.since = l.since
  BY DEF LayersUpTo

LEMMA Cropped ==
  ASSUME NEW n, NEW l \in LayersUpTo(n), NEW m, m = [l EXCEPT !.cropped = TRUE]
  PROVE  m \in LayersUpTo(n) /\ m.id = l.id /\ m.kind = l.kind /\ m.since = l.since
  BY DEF LayersUpTo

Restyled(l, style, a) == [l EXCEPT !.style = style, !.at = a]

LEMMA Styled ==
  ASSUME NEW n, NEW l \in LayersUpTo(n), NEW a \in Nat, NEW style \in {"free", "cover"}
  PROVE  LET m == Restyled(l, style, a) IN m \in LayersUpTo(n) /\ m.id = l.id /\ m.kind = l.kind /\ m.since = l.since
  BY DEF LayersUpTo, Restyled

Reframed(l, a) ==
    [l EXCEPT !.framed = ~@, !.cropped = ~l.framed, !.at = a, !.style = IF l.framed THEN "free" ELSE @]

LEMMA Framed ==
  ASSUME NEW n, NEW l \in LayersUpTo(n), NEW a \in Nat
  PROVE  LET m == Reframed(l, a) IN m \in LayersUpTo(n) /\ m.id = l.id /\ m.kind = l.kind /\ m.since = l.since
<1>0. PICK m : m = Reframed(l, a)
  OBVIOUS
<1>1. PICK style \in {"free", "cover"} : style = IF l.framed THEN "free" ELSE l.style
  BY DEF LayersUpTo
<1>2. PICK no \in BOOLEAN : no = ~l.framed
  OBVIOUS
<1>3. /\ l.framed \in BOOLEAN /\ l.id \in 1 .. n /\ l.kind \in {"layer", "background"} /\ l.locked \in BOOLEAN
      /\ l.since \in Nat /\ l.asked \in Nat
  BY DEF LayersUpTo
<1>4. m = [id |-> l.id, kind |-> l.kind, at |-> a, style |-> style, framed |-> no, cropped |-> no,
           locked |-> l.locked, since |-> l.since, asked |-> l.asked]
  <2>1. l = [id |-> l.id, kind |-> l.kind, at |-> l.at, style |-> l.style, framed |-> l.framed,
             cropped |-> l.cropped, locked |-> l.locked, since |-> l.since, asked |-> l.asked]
    BY DEF LayersUpTo
  <2>2. m = [l EXCEPT !.framed = no, !.cropped = no, !.at = a, !.style = style]
    BY <1>0, <1>1, <1>2 DEF Reframed
  <2> QED BY <2>1, <2>2
<1> QED BY <1>0, <1>3, <1>4 DEF LayersUpTo

LEMMA EditedFits ==
  ASSUME NEW n, NEW h, NEW s, Holds(n, h, s), NEW id, id \in D!Ids(design)
  PROVE  D!Edited(id) \in Designs(n, h, s)
<1>1. n \in Nat /\ design \in Designs(n, h, s) /\ acts + 1 \in Nat
  BY HoldsFacts
<1>2. design.layers \in Stacks(n)
  BY <1>1, DesignFacts
<1>3. D!ToSet(design.layers) \subseteq LayersUpTo(n)
  BY <1>1, <1>2, StackFacts
<1>4. \E l \in D!ToSet(design.layers) : l.id = id
  BY DEF D!Ids, D!ToSet
<1>5. PICK l \in D!ToSet(design.layers) : l = D!Layer(id) /\ l.id = id
  BY <1>4 DEF D!Layer
<1>6. PICK m : m = [l EXCEPT !.at = acts + 1]
  OBVIOUS
<1>7. m \in LayersUpTo(n) /\ m.id = l.id /\ m.kind = l.kind /\ m.since = l.since
  BY <1>1, <1>3, <1>6, Dragged
<1>8. D!Changing(design, l.id, m) \in Designs(n, h, s)
  BY <1>1, <1>7, DesignChanged
<1> QED BY <1>5, <1>6, <1>8 DEF D!Edited

LEMMA IdsAre == ASSUME NEW l \in D!ToSet(design.layers) PROVE l.id \in D!Ids(design)
  BY DEF D!Ids, D!ToSet

(* A step that leaves crop mode, or not, and selects. *)
LEMMA Selects ==
  ASSUME NEW n, NEW h, NEW s, Holds(n, h, s), NEW id, D!LeaveCrop(id), design' \in Designs(n, h, s),
         design'.layers = design.layers, acts' \in 0 .. MaxActs, D!Doing({}), D!Still
  PROVE  LabInv'
<1>1. /\ n \in Nat /\ n = counter /\ design \in Designs(n, h, s) /\ cropping \in Nat
      /\ timers \subseteq {"nudge", "slider", "text"} /\ images \subseteq 0 .. MaxOpens
      /\ drag = D!NoDrag \/ drag \in Dragging
  BY HoldsFacts
<1>2. UNCHANGED <<dialog, session, saved, images, drag, counter>> /\ D!Debounced({})
  BY DEF D!Doing, D!Still
<1>3. timers' \subseteq {"nudge", "slider", "text"} /\ (timers' \subseteq {"text"} => timers \subseteq {"text"})
  BY <1>1, <1>2, DoingFacts
<1>4. CASE cropping \in {D!None, id}
  <2>1. UNCHANGED <<cropping, history, hidx>>
    BY <1>4 DEF D!LeaveCrop
  <2>2. Settled' => Settled /\ design'.layers = design.layers
    BY <1>2, <1>3, <2>1 DEF Settled
  <2> QED BY <1>1, <1>2, <1>3, <2>1, <2>2, Stays
<1>5. CASE cropping \notin {D!None, id}
  <2>1. cropping' = D!None /\ D!Push(design)
    BY <1>5 DEF D!LeaveCrop
  <2>2. cropping' \in Nat
    BY <2>1 DEF D!None
  <2>3. \E x \in Designs(n, h, s) : D!Push(x) /\ x.layers = design'.layers
    BY <1>1, <2>1
  <2> QED BY <1>1, <1>2, <1>3, <2>1, <2>2, <2>3, Stays
<1> QED BY <1>4, <1>5

LEMMA SelectsALayer ==
  ASSUME NEW n, NEW h, NEW s, Holds(n, h, s), NEW id, id # D!None => \E l \in Overlaid(design.layers) : l.id = id,
         D!Select(id), acts' \in 0 .. MaxActs, D!Doing({}), D!Still
  PROVE  LabInv'
<1>1. n \in Nat /\ design \in Designs(n, h, s)
  BY HoldsFacts
<1>2. D!Selecting(design, id) \in Designs(n, h, s) /\ D!Selecting(design, id).layers = design.layers
  BY <1>1, DesignSelected
<1>3. D!LeaveCrop(id) /\ design' = D!Selecting(design, id)
  BY DEF D!Select
<1> QED BY <1>2, <1>3, Selects

(* A step that commits what it shows. *)
LEMMA Commits ==
  ASSUME NEW n, NEW h, NEW s, Holds(n, h, s), NEW m \in Nat, n <= m, counter' = m,
         NEW d \in Designs(m, h, s), D!Commit(d),
         cropping' \in {D!None, cropping}, drag' = D!NoDrag \/ drag' \in Dragging, acts' \in 0 .. MaxActs,
         NEW kinds \in SUBSET {"nudge", "slider", "text"}, D!Debounced(kinds),
         UNCHANGED <<dialog, session, saved>>, images' \subseteq 0 .. MaxOpens
  PROVE  LabInv'
<1>1. cropping \in Nat /\ timers \subseteq {"nudge", "slider", "text"}
  BY HoldsFacts
<1>2. timers' \subseteq {"nudge", "slider", "text"}
  BY <1>1, DoingFacts
<1>3. cropping' \in Nat
  BY <1>1 DEF D!None
<1>4. design' = d /\ D!Push(d)
  BY DEF D!Commit
<1>5. \E x \in Designs(m, h, s) : D!Push(x) /\ x.layers = design'.layers
  BY <1>4
<1> QED BY <1>2, <1>3, <1>4, <1>5, Stays

LEMMA CommitsHere ==
  ASSUME NEW n, NEW h, NEW s, Holds(n, h, s), NEW d \in Designs(n, h, s), D!Commit(d),
         cropping' \in {D!None, cropping}, acts' \in 0 .. MaxActs,
         NEW kinds \in SUBSET {"nudge", "slider", "text"}, D!Doing(kinds), D!Still
  PROVE  LabInv'
<1>1. /\ n \in Nat /\ n = counter /\ images \subseteq 0 .. MaxOpens
      /\ drag = D!NoDrag \/ drag \in Dragging
  BY HoldsFacts
<1>2. UNCHANGED <<dialog, session, saved, images, drag, counter>> /\ D!Debounced(kinds)
  BY DEF D!Doing, D!Still
<1> QED BY <1>1, <1>2, Commits

(* A step that shows what is yet to be committed, and says who will. *)
LEMMA Shows ==
  ASSUME NEW n, NEW h, NEW s, Holds(n, h, s), NEW d \in Designs(n, h, s), D!Notify(d),
         cropping' \in Nat, acts' \in 0 .. MaxActs, drag' = D!NoDrag \/ drag' \in Dragging, UNCHANGED counter,
         NEW kinds \in SUBSET {"nudge", "slider", "text"}, D!Doing(kinds),
         \/ ~Settled'
         \/ d.layers = design.layers /\ cropping' = cropping /\ (drag # D!NoDrag => drag.changed = drag'.changed /\ drag' # D!NoDrag)
  PROVE  LabInv'
<1>1. /\ n \in Nat /\ n = counter /\ images \subseteq 0 .. MaxOpens /\ timers \subseteq {"nudge", "slider", "text"}
  BY HoldsFacts
<1>2. UNCHANGED <<dialog, session, saved, images>> /\ D!Debounced(kinds)
  BY DEF D!Doing
<1>3. timers' \subseteq {"nudge", "slider", "text"} /\ (timers' \subseteq {"text"} => timers \subseteq {"text"})
  BY <1>1, <1>2, DoingFacts
<1>4. design' = d /\ UNCHANGED <<history, hidx>>
  BY DEF D!Notify
<1>5. Settled' => Settled /\ design'.layers = design.layers
  BY <1>2, <1>3, <1>4 DEF Settled
<1> QED BY <1>1, <1>2, <1>3, <1>4, <1>5, Stays

(* What a layer is changed into, where it is. *)
LEMMA LayerFits ==
  ASSUME NEW n, NEW h, NEW s, Holds(n, h, s), NEW l \in D!Shown \cup D!SelectedLayers, NEW m \in LayersUpTo(n),
         m.id = l.id, m.kind = l.kind, m.since = l.since
  PROVE  D!Changing(design, l.id, m) \in Designs(n, h, s)
<1>1. n \in Nat /\ design \in Designs(n, h, s) /\ l \in D!ToSet(design.layers)
  BY HoldsFacts, LayerFacts
<1> QED BY <1>1, DesignChanged

LEMMA EditsALayer ==
  ASSUME NEW n, NEW h, NEW s, Holds(n, h, s), NEW l \in D!Shown \cup D!SelectedLayers
  PROVE  D!Edited(l.id) \in Designs(n, h, s)
  BY LayerFacts, IdsAre, EditedFits

(* The keyboard and the list of layers. *)
LEMMA DeleteSteps ==
  ASSUME NEW n, NEW h, NEW s, Holds(n, h, s), NEW l, D!Delete(l), acts' \in 0 .. MaxActs
  PROVE  LabInv'
<1>1. n \in Nat /\ design \in Designs(n, h, s)
  BY HoldsFacts
<1> DEFINE d == D!Removed([design EXCEPT !.layers = D!Without(@, l.id)], l.id)
<1>2. d \in Designs(n, h, s)
  BY <1>1, DesignWithout
<1>3. D!Commit(d) /\ cropping' \in {D!None, cropping} /\ D!Doing({}) /\ D!Still
  BY DEF D!Delete
<1> HIDE DEF d
<1> QED BY <1>2, <1>3, CommitsHere

Join(g, p) == g \o p

LEMMA JoinIs ==
  ASSUME NEW S, NEW g \in Seq(S), NEW p \in Seq(S)
  PROVE  /\ Join(g, p) \in Seq(S) /\ Len(Join(g, p)) = Len(g) + Len(p) /\ DOMAIN Join(g, p) = 1 .. Len(Join(g, p))
         /\ \A j \in 1 .. Len(g) : Join(g, p)[j] = g[j]
         /\ \A j \in 1 .. Len(p) : Join(g, p)[Len(g) + j] = p[j]
  BY Joined DEF Join

LEMMA Inserted ==
  ASSUME NEW S, NEW q \in Seq(S), NEW i \in 1 .. Len(q), NEW copy \in S
  PROVE  D!InsertAt(q, i + 1, copy) = Insertion(q, i, copy)
<1> DEFINE r == D!InsertAt(q, i + 1, copy)
<1>1. (i + 1) - 1 = i /\ Len(q) \in Nat
  OBVIOUS
<1>2. r = SubSeq(q, 1, i) \o <<copy>> \o SubSeq(q, i + 1, Len(q))
  BY <1>1 DEF D!InsertAt
<1> HIDE DEF r
<1> DEFINE u == SubSeq(q, 1, i)
           v == SubSeq(q, i + 1, Len(q))
<1>4. PICK N \in Nat : N = Len(q) /\ i \in 1 .. N
  BY <1>1
<1>5. u \in Seq(S) /\ Len(u) = i /\ \A j \in 1 .. i : u[j] = q[j]
  <2>1. 1 \in 1 .. Len(q) + 1 /\ i \in 1 - 1 .. Len(q)
    BY <1>4
  <2>2. u \in Seq(S) /\ Len(u) = i - 1 + 1 /\ \A k \in 1 .. i - 1 + 1 : u[k] = q[1 + k - 1]
    BY <2>1, PartOf
  <2>3. i - 1 + 1 = i /\ \A k \in 1 .. i : 1 + k - 1 = k
    BY <1>4
  <2> QED BY <2>2, <2>3
<1>6. v \in Seq(S) /\ Len(v) = N - i /\ \A j \in 1 .. N - i : v[j] = q[i + j]
  <2>1. i + 1 \in 1 .. Len(q) + 1
    BY <1>4
  <2>2. PICK k : k = i + 1 /\ k \in 1 .. Len(q) + 1
    BY <2>1
  <2>3. v = SubSeq(q, k, N)
    BY <1>4, <2>2
  <2> HIDE DEF v
  <2>4. v \in Seq(S) /\ Len(v) = N - k + 1 /\ \A j \in 1 .. N - k + 1 : v[j] = q[k + j - 1]
    BY <1>4, <2>2, <2>3, EndOf
  <2>5. N - k + 1 = N - i /\ \A j \in 1 .. N - i : k + j - 1 = i + j
    BY <1>4, <2>2
  <2> QED BY <2>4, <2>5
<1> HIDE DEF u, v
<1>7. PICK one : one = <<copy>>
  OBVIOUS
<1>8. one \in Seq(S) /\ Len(one) = 1 /\ one[1] = copy
  BY <1>7
<1> DEFINE w == Join(u, one)
<1>10. /\ w \in Seq(S) /\ Len(w) = i + 1 /\ w[i + 1] = copy
       /\ \A j \in 1 .. i : w[j] = u[j]
  <2>1. /\ w \in Seq(S) /\ Len(w) = Len(u) + Len(one)
        /\ \A j \in 1 .. Len(u) : w[j] = u[j]
        /\ \A j \in 1 .. Len(one) : w[Len(u) + j] = one[j]
    <3>1. u \in Seq(S) /\ one \in Seq(S)
      BY <1>5, <1>8
    <3> QED BY <3>1, JoinIs
  <2> HIDE DEF w
  <2>2. 1 \in 1 .. Len(one)
    BY <1>8
  <2> QED BY <1>5, <1>8, <2>1, <2>2
<1>11. r = Join(w, v)
  BY <1>2, <1>7 DEF u, v, Join
<1> HIDE DEF w
<1>12. /\ r \in Seq(S) /\ Len(r) = N + 1 /\ DOMAIN r = 1 .. Len(r)
       /\ \A j \in 1 .. i + 1 : r[j] = w[j]
       /\ \A j \in 1 .. N - i : r[(i + 1) + j] = v[j]
  <2>1. /\ r \in Seq(S) /\ Len(r) = Len(w) + Len(v) /\ DOMAIN r = 1 .. Len(r)
        /\ \A j \in 1 .. Len(w) : r[j] = w[j]
        /\ \A j \in 1 .. Len(v) : r[Len(w) + j] = v[j]
    <3>1. w \in Seq(S) /\ v \in Seq(S)
      BY <1>6, <1>10
    <3> DEFINE z == Join(w, v)
    <3>2. /\ z \in Seq(S) /\ Len(z) = Len(w) + Len(v) /\ DOMAIN z = 1 .. Len(z)
          /\ \A j \in 1 .. Len(w) : z[j] = w[j]
          /\ \A j \in 1 .. Len(v) : z[Len(w) + j] = v[j]
      BY <3>1, JoinIs
    <3>3. r = z
      BY <1>11
    <3> HIDE DEF z
    <3> QED BY <3>2, <3>3
  <2> QED BY <1>4, <1>6, <1>10, <2>1
<1>13. \A j \in 1 .. N + 1 : r[j] = IF j <= i THEN q[j] ELSE IF j = i + 1 THEN copy ELSE q[j - 1]
  <2> SUFFICES ASSUME NEW j \in 1 .. N + 1
               PROVE  r[j] = IF j <= i THEN q[j] ELSE IF j = i + 1 THEN copy ELSE q[j - 1]
    OBVIOUS
  <2>1. CASE j <= i
    <3>1. j \in 1 .. i /\ j \in 1 .. i + 1
      BY <2>1, <1>4
    <3> QED BY <3>1, <2>1, <1>5, <1>10, <1>12
  <2>2. CASE j = i + 1
    <3>1. j \in 1 .. i + 1 /\ ~(j <= i)
      BY <2>2, <1>4
    <3> QED BY <3>1, <2>2, <1>10, <1>12
  <2>3. CASE j > i + 1
    <3>1. j - i - 1 \in 1 .. N - i /\ (i + 1) + (j - i - 1) = j /\ i + (j - i - 1) = j - 1
      BY <2>3, <1>4
    <3>2. PICK k : k = j - i - 1
      OBVIOUS
    <3>3. k \in 1 .. N - i /\ (i + 1) + k = j /\ i + k = j - 1
      BY <3>1, <3>2
    <3>4. r[j] = v[k] /\ v[k] = q[j - 1]
      BY <3>3, <1>6, <1>12
    <3>5. ~(j <= i) /\ j # i + 1
      BY <2>3, <1>4
    <3> QED BY <3>4, <3>5
  <2> QED BY <2>1, <2>2, <2>3, <1>4
<1>14. r = [j \in 1 .. N + 1 |-> r[j]]
  BY <1>12
<1> QED BY <1>4, <1>13, <1>14 DEF r, Insertion

LEMMA DuplicateSteps ==
  ASSUME NEW n, NEW h, NEW s, Holds(n, h, s), NEW l \in D!Shown \cup D!SelectedLayers, D!Duplicate(l),
         acts' \in 0 .. MaxActs
  PROVE  LabInv'
<1>1. /\ n \in Nat /\ n = counter /\ design \in Designs(n, h, s) /\ acts + 1 \in Nat
      /\ images \subseteq 0 .. MaxOpens /\ (drag = D!NoDrag \/ drag \in Dragging)
  BY HoldsFacts
<1>2. l \in D!ToSet(design.layers) /\ l \in LayersUpTo(n) /\ l.kind = "layer" /\ (h => l.since = s)
  BY LayerFacts
<1> DEFINE q == design.layers
           i == CHOOSE j \in DOMAIN q : q[j].id = l.id
           copy == [l EXCEPT !.id = counter + 1, !.at = acts + 1]
           r == D!InsertAt(q, i + 1, copy)
           e == [design EXCEPT !.layers = r]
           d == D!Selecting(e, copy.id)
<1>3. q \in Stacks(n)
  BY <1>1, DesignFacts
<1>4. q \in Seq(LayersUpTo(n)) /\ Len(q) \in Nat /\ DOMAIN q = 1 .. Len(q) /\ D!ToSet(q) = {q[j] : j \in 1 .. Len(q)}
  BY <1>1, <1>3, StackFacts
<1>5. i \in 1 .. Len(q)
  BY <1>2, <1>4
<1>6. copy \in LayersUpTo(n + 1) /\ copy.id = n + 1 /\ copy.kind = "layer" /\ (h => copy.since = s)
  <2>1. n + 1 \in 1 .. n + 1
    BY <1>1
  <2> QED BY <2>1, <1>1, <1>2 DEF LayersUpTo
<1>7. Cardinality(Overlaid(q)) < MaxLayers
  <2>1. Overlaid(q) = D!Shown
    BY DEF Overlaid, D!Shown
  <2> QED BY <2>1, DSize DEF D!Duplicate
<1>8. counter' = n + 1 /\ D!Commit(d) /\ D!Doing({}) /\ UNCHANGED <<cropping, drag>>
  BY <1>1 DEF D!Duplicate
<1> HIDE DEF i, copy
<1>9. r = Insertion(q, i, copy)
  <2> HIDE DEF q
  <2>1. q \in Seq(LayersUpTo(n + 1))
    BY <1>1, <1>4, LayersGrow, SeqFacts
  <2> QED BY <1>5, <1>6, <2>1, Inserted
<1>10. r \in Stacks(n + 1) /\ D!ToSet(r) = D!ToSet(q) \cup {copy}
  <2> HIDE DEF q, r
  <2>1. i \in 0 .. Len(q) /\ (i = 0 => Len(q) = 0)
    BY <1>4, <1>5
  <2> QED BY <2>1, <1>1, <1>3, <1>6, <1>7, <1>9, LayerInserted
<1> HIDE DEF r
<1>11. d \in Designs(n + 1, h, s)
  BY <1>1, <1>6, <1>10, DesignWith
<1> HIDE DEF d
<1>12. n + 1 \in Nat /\ n <= n + 1 /\ {} \in SUBSET {"nudge", "slider", "text"}
  BY <1>1
<1>13. UNCHANGED <<dialog, session, saved, images, drag>> /\ D!Debounced({}) /\ cropping' \in {D!None, cropping}
  BY <1>8 DEF D!Doing
<1> QED BY <1>1, <1>8, <1>11, <1>12, <1>13, Commits

LEMMA MoveUpSteps ==
  ASSUME NEW n, NEW h, NEW s, Holds(n, h, s), NEW l \in D!Shown, D!MoveUp(l)
  PROVE  LabInv'
<1>1. /\ n \in Nat /\ design \in Designs(n, h, s) /\ acts \in 0 .. MaxActs /\ l \in Overlaid(design.layers)
  BY HoldsFacts, LayerFacts
<1>2. /\ D!Acts /\ l # D!Last(D!Overlays(design.layers)) /\ D!Doing({}) /\ D!Still /\ UNCHANGED cropping
      /\ D!Commit([design EXCEPT !.layers = D!Reordered(@, l)])
  BY DEF D!MoveUp, D!Pointing
<1>3. /\ design.layers \in Stacks(n) /\ design.text \in Nat /\ design.textSelected \in BOOLEAN
      /\ design.selected \in 0 .. n
      /\ design.selected # D!None => ~design.textSelected /\ \E x \in Overlaid(design.layers) : x.id = design.selected
      /\ design.textSelected => design.text # D!None
      /\ h => \A x \in D!ToSet(design.layers) : x.since = s
      /\ design = [layers |-> design.layers, text |-> design.text, textSelected |-> design.textSelected,
                   selected |-> design.selected]
  BY <1>1, DesignFacts
<1>4. PICK r : r = D!Reordered(design.layers, l)
  OBVIOUS
<1>5. r \in Stacks(n) /\ D!ToSet(r) = D!ToSet(design.layers)
  BY <1>1, <1>2, <1>3, <1>4, LayersReordered
<1>6. PICK d : d = [design EXCEPT !.layers = r]
  OBVIOUS
<1>7. d = [layers |-> r, text |-> design.text, textSelected |-> design.textSelected,
           selected |-> design.selected]
  BY <1>3, <1>6
<1>8. d \in Figures(n)
  BY <1>3, <1>5, <1>7 DEF Figures
<1>9. Overlaid(r) = Overlaid(design.layers)
  BY <1>5 DEF Overlaid
<1>10. d \in Designs(n, h, s)
  <2>1. /\ d.layers = r /\ d.text = design.text /\ d.textSelected = design.textSelected
        /\ d.selected = design.selected
    BY <1>7
  <2>2. d.selected # D!None => ~d.textSelected /\ \E x \in Overlaid(d.layers) : x.id = d.selected
    BY <1>3, <1>9, <2>1
  <2>3. (d.textSelected => d.text # D!None) /\ (h => \A x \in D!ToSet(d.layers) : x.since = s)
    BY <1>3, <1>5, <2>1
  <2> QED BY <1>1, <1>8, <2>2, <2>3, IsDesign
<1>11. D!Commit(d) /\ acts' \in 0 .. MaxActs /\ {} \in SUBSET {"nudge", "slider", "text"}
  BY <1>1, <1>2, <1>4, <1>6, ActsFacts
<1> QED BY <1>2, <1>10, <1>11, CommitsHere

LEMMA NoKinds == {} \in SUBSET {"nudge", "slider", "text"} /\ {} \subseteq {"nudge", "slider", "text"}
  OBVIOUS

LEMMA RowSteps ==
  ASSUME NEW n, NEW h, NEW s, Holds(n, h, s), NEW l \in D!Shown,
         D!SelectRow(l) \/ D!DeleteRow(l) \/ D!DuplicateRow(l) \/ D!ToggleLock(l) \/ D!ToggleVisible(l)
  PROVE  LabInv'
<1>1. /\ n \in Nat /\ design \in Designs(n, h, s) /\ acts \in 0 .. MaxActs /\ acts + 1 \in Nat
      /\ l \in Overlaid(design.layers) /\ l \in LayersUpTo(n)
  BY HoldsFacts, LayerFacts
<1>2. D!Pointing
  BY DEF D!SelectRow, D!DeleteRow, D!DuplicateRow, D!ToggleLock, D!ToggleVisible
<1>3. acts' \in 0 .. MaxActs
  BY <1>1, <1>2, ActsFacts DEF D!Pointing
<1>4. CASE D!SelectRow(l)
  <2>1. D!Select(l.id) /\ D!Doing({}) /\ D!Still
    BY <1>4 DEF D!SelectRow
  <2> QED BY <1>1, <1>3, <2>1, SelectsALayer
<1>5. CASE D!DeleteRow(l)
  BY <1>3, <1>5, DeleteSteps DEF D!DeleteRow
<1>6. CASE D!DuplicateRow(l)
  BY <1>3, <1>6, DuplicateSteps DEF D!DuplicateRow
<1>7. CASE D!ToggleLock(l)
  <2>1. PICK m : m = [l EXCEPT !.locked = ~@]
    OBVIOUS
  <2>2. m \in LayersUpTo(n) /\ m.id = l.id /\ m.kind = l.kind /\ m.since = l.since
    BY <1>1, <2>1, Unlocked
  <2>3. D!Changing(design, l.id, m) \in Designs(n, h, s)
    BY <2>2, LayerFits
  <2>4. D!Commit(D!Changing(design, l.id, m)) /\ cropping' \in {D!None, cropping} /\ D!Doing({}) /\ D!Still
    BY <1>7, <2>1 DEF D!ToggleLock
  <2> QED BY <1>3, <2>3, <2>4, NoKinds, CommitsHere
<1>8. CASE D!ToggleVisible(l)
  <2>1. D!Edited(l.id) \in Designs(n, h, s)
    BY EditsALayer
  <2>2. D!Commit(D!Edited(l.id)) /\ cropping' \in {D!None, cropping} /\ D!Doing({}) /\ D!Still
    BY <1>8 DEF D!ToggleVisible
  <2> QED BY <1>3, <2>1, <2>2, NoKinds, CommitsHere
<1> QED BY <1>4, <1>5, <1>6, <1>7, <1>8

LEMMA KeySteps ==
  ASSUME NEW n, NEW h, NEW s, Holds(n, h, s), D!Deselect \/ D!Nudge \/ D!DeleteKey \/ D!DuplicateKey
  PROVE  LabInv'
<1>1. n \in Nat /\ design \in Designs(n, h, s) /\ acts \in 0 .. MaxActs /\ cropping \in Nat
      /\ (drag = D!NoDrag \/ drag \in Dragging)
  BY HoldsFacts
<1>2. acts' \in 0 .. MaxActs
  BY <1>1, ActsFacts DEF D!Deselect, D!Nudge, D!DeleteKey, D!DuplicateKey
<1>3. CASE D!Deselect
  <2>1. D!Select(D!None) /\ D!Doing({}) /\ D!Still
    BY <1>3 DEF D!Deselect
  <2> QED BY <1>2, <2>1, SelectsALayer
<1>4. CASE D!Nudge
  <2>1. PICK l \in D!SelectedLayers : D!Notify(D!Edited(l.id))
    BY <1>4 DEF D!Nudge
  <2>2. D!Edited(l.id) \in Designs(n, h, s)
    BY EditsALayer
  <2>3. D!Doing(D!Nudged) /\ D!Nudged \in SUBSET {"nudge", "slider", "text"} /\ UNCHANGED <<cropping, counter, drag>>
    BY <1>4 DEF D!Nudge, D!Nudged, D!Still
  <2>4. "nudge" \in timers'
    BY <1>4 DEF D!Nudge, D!Nudged, D!Doing, D!Debounced
  <2>5. ~Settled'
    BY <2>4 DEF Settled
  <2> QED BY <1>1, <1>2, <2>1, <2>2, <2>3, <2>5, Shows
<1>5. CASE D!DeleteKey
  <2>1. PICK l \in D!SelectedLayers : D!Delete(l)
    BY <1>5 DEF D!DeleteKey
  <2> QED BY <1>2, <2>1, DeleteSteps
<1>6. CASE D!DuplicateKey
  <2>1. PICK l \in D!SelectedLayers : D!Duplicate(l)
    BY <1>6 DEF D!DuplicateKey
  <2> QED BY <1>2, <2>1, DuplicateSteps
<1> QED BY <1>3, <1>4, <1>5, <1>6

LEMMA AppendIs ==
  ASSUME NEW S, NEW q \in Seq(S), NEW c \in S
  PROVE  Append(q, c) = Insertion(q, Len(q), c)
<1> DEFINE r == Append(q, c)
<1>1. Len(q) \in Nat /\ r \in Seq(S) /\ Len(r) = Len(q) + 1
  OBVIOUS
<1>2. r[Len(q) + 1] = c /\ \A j \in 1 .. Len(q) : r[j] = q[j]
  OBVIOUS
<1> HIDE DEF r
<1>3. DOMAIN r = 1 .. Len(q) + 1 /\ r = [j \in 1 .. Len(q) + 1 |-> r[j]]
  BY <1>1
<1>4. \A j \in 1 .. Len(q) + 1 : r[j] = IF j <= Len(q) THEN q[j] ELSE IF j = Len(q) + 1 THEN c ELSE q[j - 1]
  BY <1>1, <1>2
<1> QED BY <1>3, <1>4 DEF r, Insertion

(* The layer of an image that has loaded goes on top. *)
LEMMA LayerAdded ==
  ASSUME NEW n, NEW h, NEW s, Holds(n, h, s), NEW asked \in Nat, Cardinality(D!Shown) < MaxLayers
  PROVE  D!Selecting([design EXCEPT !.layers = Append(@, D!NewLayer(n + 1, "layer", session, asked))], n + 1)
           \in Designs(n + 1, h, s)
<1>1. n \in Nat /\ design \in Designs(n, h, s) /\ s = session /\ s \in Nat /\ acts \in 0 .. MaxActs
  BY HoldsFacts
<1>2. PICK q : q = design.layers
  OBVIOUS
<1>3. q \in Stacks(n)
  BY <1>1, <1>2, DesignFacts
<1>4. q \in Seq(LayersUpTo(n)) /\ Len(q) \in Nat /\ DOMAIN q = 1 .. Len(q)
  BY <1>1, <1>3, StackFacts
<1>5. PICK c : c = D!NewLayer(n + 1, "layer", session, asked)
  OBVIOUS
<1>6. c \in LayersUpTo(n + 1) /\ c.id = n + 1 /\ c.kind = "layer" /\ c.since = s
  <2>1. n + 1 \in 1 .. n + 1 /\ acts \in Nat
    BY <1>1, Bounds
  <2> QED BY <2>1, <1>1, <1>5 DEF LayersUpTo, D!NewLayer
<1>7. PICK r : r = Append(q, c)
  OBVIOUS
<1>8. r = Insertion(q, Len(q), c)
  <2>1. q \in Seq(LayersUpTo(n + 1))
    BY <1>1, <1>4, LayersGrow, SeqFacts
  <2> QED BY <2>1, <1>6, <1>7, AppendIs
<1>9. Cardinality(Overlaid(q)) < MaxLayers
  <2>1. Overlaid(q) = D!Shown
    BY <1>2 DEF Overlaid, D!Shown
  <2> QED BY <2>1
<1>10. Len(q) \in 0 .. Len(q) /\ (Len(q) = 0 => Len(q) = 0)
  BY <1>4
<1>13. r \in Stacks(n + 1) /\ D!ToSet(r) = D!ToSet(q) \cup {c}
  BY <1>1, <1>3, <1>6, <1>8, <1>9, <1>10, LayerInserted
<1>14. D!Selecting([design EXCEPT !.layers = r], n + 1) \in Designs(n + 1, h, s)
  BY <1>1, <1>2, <1>6, <1>13, DesignWith
<1> QED BY <1>2, <1>5, <1>7, <1>14

LEMMA ImageSteps ==
  ASSUME NEW n, NEW h, NEW s, Holds(n, h, s),
         D!AddLayer \/ \E asked \in images : D!ImageLoads(asked) \/ D!ImageFails(asked)
  PROVE  LabInv'
<1>1. /\ n \in Nat /\ n = counter /\ design \in Designs(n, h, s) /\ acts \in 0 .. MaxActs /\ cropping \in Nat
      /\ (drag = D!NoDrag \/ drag \in Dragging)
      /\ timers \subseteq {"nudge", "slider", "text"} /\ images \subseteq 0 .. MaxOpens /\ session \in 0 .. MaxOpens
  BY HoldsFacts
<1>2. CASE D!AddLayer
  <2>1. /\ D!Acts /\ images' = images \cup {session}
        /\ UNCHANGED <<design, cropping, history, hidx, dialog, session, timers, drag, saved, counter>>
    BY <1>2 DEF D!AddLayer, D!Pointing, D!store
  <2>2. acts' \in 0 .. MaxActs
    BY <1>1, <2>1, ActsFacts
  <2>3. Settled' => Settled /\ design'.layers = design.layers
    BY <2>1 DEF Settled
  <2> QED BY <1>1, <2>1, <2>2, <2>3, Stays
<1>3. ASSUME NEW asked \in images, D!ImageFails(asked) PROVE LabInv'
  <2>1. /\ images' = images \ {asked}
        /\ UNCHANGED <<design, cropping, history, hidx, dialog, session, timers, drag, saved, counter, acts>>
    BY <1>3 DEF D!ImageFails, D!store
  <2>3. Settled' => Settled /\ design'.layers = design.layers
    BY <2>1 DEF Settled
  <2> QED BY <1>1, <2>1, <2>3, Stays
<1>4. ASSUME NEW asked \in images, D!ImageLoads(asked) PROVE LabInv'
  <2>1. /\ images' = images \ {asked} /\ D!Debounced({})
        /\ UNCHANGED <<cropping, dialog, session, drag, saved, acts>>
    BY <1>4 DEF D!ImageLoads
  <2>2. timers' \subseteq {"nudge", "slider", "text"} /\ (timers' \subseteq {"text"} => timers \subseteq {"text"})
    BY <1>1, <2>1, NoKinds, DoingFacts
  <2>3. CASE Cardinality(D!Shown) < MaxLayers
    <3> DEFINE d == D!Selecting([design EXCEPT !.layers = Append(@, D!NewLayer(n + 1, "layer", session, asked))], n + 1)
    <3>1. D!Commit(d) /\ counter' = n + 1
      BY <1>1, <1>4, <2>3, DSize DEF D!ImageLoads
    <3>2. asked \in Nat
      BY <1>1, Bounds
    <3>3. d \in Designs(n + 1, h, s)
      BY <2>3, <3>2, LayerAdded
    <3> HIDE DEF d
    <3>4. n + 1 \in Nat /\ n <= n + 1
      BY <1>1
    <3>5. PICK m \in Nat : m = n + 1
      BY <3>4
    <3>6. counter' = m /\ d \in Designs(m, h, s) /\ n <= m
      BY <3>1, <3>3, <3>4, <3>5
    <3>7. images' \subseteq 0 .. MaxOpens /\ cropping' \in {D!None, cropping} /\ acts' \in 0 .. MaxActs
          /\ (drag' = D!NoDrag \/ drag' \in Dragging)
      BY <1>1, <2>1
    <3> QED BY <2>1, <3>1, <3>5, <3>6, <3>7, NoKinds, Commits
  <2>4. CASE ~(Cardinality(D!Shown) < MaxLayers)
    <3>1. UNCHANGED <<design, history, hidx, counter>>
      BY <1>4, <2>4, DSize DEF D!ImageLoads
    <3>2. Settled' => Settled /\ design'.layers = design.layers
      BY <2>1, <2>2, <3>1 DEF Settled
    <3> QED BY <1>1, <2>1, <2>2, <3>1, <3>2, Stays
  <2> QED BY <2>3, <2>4
<1> QED BY <1>2, <1>3, <1>4

Texting(d, t, yes) == [d EXCEPT !.text = t, !.selected = D!None, !.textSelected = yes]
Reading(q, t, yes) == [layers |-> q, text |-> t, textSelected |-> yes, selected |-> D!None]

LEMMA Retexted ==
  ASSUME NEW x, NEW y, NEW z, NEW w, NEW t, NEW yes
  PROVE  Texting([layers |-> x, text |-> y, textSelected |-> z, selected |-> w], t, yes) = Reading(x, t, yes)
<1> DEFINE a == [layers |-> x, text |-> y, textSelected |-> z, selected |-> w]
           b == [layers |-> x, text |-> t, textSelected |-> z, selected |-> w]
           c == [layers |-> x, text |-> t, textSelected |-> z, selected |-> D!None]
           d == [layers |-> x, text |-> t, textSelected |-> yes, selected |-> D!None]
<1>1. [a EXCEPT !.text = t] = b
  OBVIOUS
<1>2. [b EXCEPT !.selected = D!None] = c
  OBVIOUS
<1>3. [c EXCEPT !.textSelected = yes] = d
  OBVIOUS
<1> HIDE DEF a, b, c, d
<1>4. [a EXCEPT !.text = t, !.selected = D!None, !.textSelected = yes] = d
  BY <1>1, <1>2, <1>3
<1> QED BY <1>4 DEF a, d, Texting, Reading

LEMMA Texted ==
  ASSUME NEW Q, NEW d \in [layers : Q, text : Nat, textSelected : BOOLEAN, selected : Nat], NEW t \in Nat, NEW yes \in BOOLEAN
  PROVE  Texting(d, t, yes) = Reading(d.layers, t, yes)
<1>1. d = [layers |-> d.layers, text |-> d.text, textSelected |-> d.textSelected, selected |-> d.selected]
  OBVIOUS
<1>2. PICK x, y, z, w : x = d.layers /\ y = d.text /\ z = d.textSelected /\ w = d.selected
  OBVIOUS
<1>3. d = [layers |-> x, text |-> y, textSelected |-> z, selected |-> w]
  BY <1>1, <1>2
<1>4. Texting(d, t, yes) = Reading(x, t, yes)
  BY <1>3, Retexted
<1> QED BY <1>2, <1>4

LEMMA TextSteps ==
  ASSUME NEW n, NEW h, NEW s, Holds(n, h, s), D!AddText \/ D!UpdateText \/ D!SlideText \/ D!RemoveText \/ D!FontMeasured
  PROVE  LabInv'
<1>1. /\ n \in Nat /\ design \in Designs(n, h, s) /\ acts \in 0 .. MaxActs /\ acts + 1 \in Nat /\ cropping \in Nat
      /\ (drag = D!NoDrag \/ drag \in Dragging)
  BY HoldsFacts
<1>2. acts' \in 0 .. MaxActs
  BY <1>1, ActsFacts DEF D!AddText, D!UpdateText, D!SlideText, D!RemoveText, D!FontMeasured, D!TextPanel, D!Pointing
<1>3. /\ design = [layers |-> design.layers, text |-> design.text, textSelected |-> design.textSelected,
                   selected |-> design.selected]
      /\ design.text \in Nat
      /\ (design.selected # D!None => ~design.textSelected)
      /\ (design.textSelected => design.text # D!None)
      /\ design \in [layers : Stacks(n), text : Nat, textSelected : BOOLEAN, selected : Nat]
  BY <1>1, DesignFacts
<1>4. acts + 1 # D!None
  BY <1>1, Bounds DEF D!None
<1>5. [design EXCEPT !.text = acts + 1] \in Designs(n, h, s)
  BY <1>1, <1>4, DesignTexted
<1>6. CASE D!AddText
  <2>2. CASE design.text = D!None
    <3> DEFINE d == Reading(design.layers, acts + 1, TRUE)
    <3>1. d \in Designs(n, h, s)
      BY <1>1, <1>4, TextSelectedOrNot DEF Reading
    <3>2. d = [design EXCEPT !.text = acts + 1, !.selected = D!None, !.textSelected = TRUE]
      BY <1>1, <1>3, Texted DEF Texting
    <3> HIDE DEF d
    <3>3. D!Commit(d) /\ cropping' \in {D!None, cropping} /\ D!Doing({}) /\ D!Still
      BY <1>6, <2>2, <3>2 DEF D!AddText
    <3> QED BY <1>2, <3>1, <3>3, NoKinds, CommitsHere
  <2>3. CASE design.text # D!None
    <3> DEFINE d == Reading(design.layers, design.text, TRUE)
    <3>1. d \in Designs(n, h, s)
      BY <1>1, <1>3, <2>3, TextSelectedOrNot DEF Reading
    <3>2. d = [design EXCEPT !.selected = D!None, !.textSelected = TRUE]
      <4>1. d = Texting(design, design.text, TRUE)
        BY <1>3, Texted
      <4>2. design = [design EXCEPT !.text = design.text]
        BY <1>3
      <4> HIDE DEF d
      <4> QED BY <4>1, <4>2 DEF Texting
    <3>3. d.layers = design.layers
      BY DEF Reading
    <3> HIDE DEF d
    <3>4. D!LeaveCrop(D!None) /\ design' = d /\ D!Doing({}) /\ D!Still
      BY <1>6, <2>3, <3>2 DEF D!AddText
    <3> QED BY <1>2, <3>1, <3>3, <3>4, Selects
  <2> QED BY <2>2, <2>3
<1>7. CASE D!UpdateText
  <2>1. D!Commit([design EXCEPT !.text = acts + 1]) /\ cropping' \in {D!None, cropping} /\ D!Doing({}) /\ D!Still
    BY <1>7 DEF D!UpdateText, D!TextPanel
  <2> QED BY <1>2, <1>5, <2>1, NoKinds, CommitsHere
<1>8. [design EXCEPT !.text = acts + 1].layers = design.layers
  BY <1>3
<1>9. CASE D!SlideText \/ D!FontMeasured
  <2>1. PICK d : d = [design EXCEPT !.text = acts + 1]
    OBVIOUS
  <2>2. PICK kinds \in SUBSET {"nudge", "slider", "text"} : D!Doing(kinds)
    BY <1>9, NoKinds DEF D!SlideText, D!FontMeasured
  <2>3. D!Notify(d) /\ UNCHANGED <<cropping, drag, counter>>
    BY <1>9, <2>1 DEF D!SlideText, D!FontMeasured, D!TextPanel, D!Still
  <2>4. d \in Designs(n, h, s) /\ d.layers = design.layers
    BY <1>5, <1>8, <2>1
  <2> QED BY <1>1, <1>2, <2>2, <2>3, <2>4, Shows
<1>10. CASE D!RemoveText
  <2> DEFINE d == Reading(design.layers, D!None, FALSE)
  <2>2. d \in Designs(n, h, s)
    BY <1>1, TextSelectedOrNot DEF D!None, Reading
  <2>3. design.textSelected
    BY <1>10 DEF D!RemoveText, D!TextPanel
  <2>4. design.selected = D!None
    BY <1>3, <2>3
  <2>5. d = [design EXCEPT !.text = D!None, !.textSelected = FALSE]
    <3>1. d = Texting(design, D!None, FALSE)
      BY <1>3, Texted DEF D!None
    <3> DEFINE e == [design EXCEPT !.text = D!None]
    <3>2. e = [e EXCEPT !.selected = D!None]
      BY <1>3, <2>4
    <3> HIDE DEF d
    <3> QED BY <3>1, <3>2 DEF Texting
  <2> HIDE DEF d
  <2>6. D!Commit(d) /\ cropping' \in {D!None, cropping} /\ D!Doing({}) /\ D!Still
    BY <1>10, <2>5 DEF D!RemoveText, D!TextPanel
  <2> QED BY <1>2, <2>2, <2>6, NoKinds, CommitsHere
<1> QED BY <1>6, <1>7, <1>9, <1>10

(* The properties of the selected layer. *)
LEMMA PanelSteps ==
  ASSUME NEW n, NEW h, NEW s, Holds(n, h, s), NEW l \in D!SelectedLayers, D!OnSelected(l)
  PROVE  LabInv'
<1>1. /\ n \in Nat /\ design \in Designs(n, h, s) /\ acts \in 0 .. MaxActs /\ acts + 1 \in Nat /\ cropping \in Nat
      /\ (drag = D!NoDrag \/ drag \in Dragging) /\ l \in LayersUpTo(n)
  BY HoldsFacts, LayerFacts
<1>2. D!Panel(l)
  BY DEF D!OnSelected, D!SetFrame, D!Align, D!Slide, D!SetStyle
<1>3. acts' \in 0 .. MaxActs /\ D!Still
  BY <1>1, <1>2, ActsFacts DEF D!Panel, D!Pointing
<1>4. D!Edited(l.id) \in Designs(n, h, s)
  BY EditsALayer
<1>5. CASE D!SetFrame(l)
  <2>1. PICK m : m = Reframed(l, acts + 1)
    OBVIOUS
  <2>2. m \in LayersUpTo(n) /\ m.id = l.id /\ m.kind = l.kind /\ m.since = l.since
    BY <1>1, <2>1, Framed
  <2>3. D!Changing(design, l.id, m) \in Designs(n, h, s)
    BY <2>2, LayerFits
  <2>4. D!Commit(D!Changing(design, l.id, m)) /\ cropping' \in {D!None, cropping} /\ D!Doing({})
    BY <1>5, <2>1 DEF D!SetFrame, Reframed
  <2> QED BY <1>3, <2>3, <2>4, NoKinds, CommitsHere
<1>6. CASE D!Align(l)
  <2>1. D!Commit(D!Edited(l.id)) /\ cropping' \in {D!None, cropping} /\ D!Doing({})
    BY <1>6 DEF D!Align
  <2> QED BY <1>3, <1>4, <2>1, NoKinds, CommitsHere
<1>7. CASE D!Slide(l)
  <2>1. D!Notify(D!Edited(l.id)) /\ D!Doing({"slider"}) /\ UNCHANGED cropping
    BY <1>7 DEF D!Slide
  <2>2. "slider" \in timers'
    BY <2>1 DEF D!Doing, D!Debounced
  <2>3. ~Settled'
    BY <2>2 DEF Settled
  <2>4. {"slider"} \in SUBSET {"nudge", "slider", "text"} /\ UNCHANGED <<drag, counter>>
    BY <1>3 DEF D!Still
  <2> QED BY <1>1, <1>3, <1>4, <2>1, <2>3, <2>4, Shows
<1>8. CASE \E style \in {"free", "cover"} \ {l.style} : D!SetStyle(l, style)
  <2>1. PICK style \in {"free", "cover"} : D!SetStyle(l, style)
    BY <1>8
  <2>2. PICK m : m = Restyled(l, style, acts + 1)
    OBVIOUS
  <2>3. m \in LayersUpTo(n) /\ m.id = l.id /\ m.kind = l.kind /\ m.since = l.since
    BY <1>1, <2>2, Styled
  <2>4. D!Changing(design, l.id, m) \in Designs(n, h, s)
    BY <2>3, LayerFits
  <2>5. PICK d \in Designs(n, h, s) : d = IF D!InCropMode(l) THEN design ELSE D!Changing(design, l.id, m)
    BY <1>1, <2>4
  <2>6. D!Commit(d) /\ cropping' \in {D!None, cropping} /\ D!Doing({})
    BY <2>1, <2>2, <2>5 DEF D!SetStyle, Restyled
  <2> QED BY <1>3, <2>5, <2>6, NoKinds, CommitsHere
<1> QED BY <1>5, <1>6, <1>7, <1>8 DEF D!OnSelected

(* The gesture of the pointer. *)
LEMMA Grabbed ==
  ASSUME NEW id \in Nat \ {0}, NEW crop \in BOOLEAN, D!Grab(id, crop)
  PROVE  drag' \in Dragging
  BY DEF D!Grab, Dragging

LEMMA DragFacts ==
  ASSUME drag \in Dragging
  PROVE  /\ drag # D!NoDrag
         /\ [drag EXCEPT !.attached = FALSE] \in Dragging /\ [drag EXCEPT !.changed = TRUE] \in Dragging
         /\ [drag EXCEPT !.changed = TRUE] # D!NoDrag /\ [drag EXCEPT !.changed = TRUE].changed
         /\ [drag EXCEPT !.attached = FALSE].changed = drag.changed
<1>1. drag.id # D!None /\ D!NoDrag.id = D!None
  BY DEF Dragging, D!NoDrag, D!None
<1>2. [drag EXCEPT !.attached = FALSE] \in Dragging /\ [drag EXCEPT !.changed = TRUE] \in Dragging
  BY DEF Dragging
<1>3. [drag EXCEPT !.changed = TRUE].id = drag.id /\ [drag EXCEPT !.changed = TRUE].changed
  BY DEF Dragging
<1>4. [drag EXCEPT !.attached = FALSE].changed = drag.changed
  BY DEF Dragging
<1> QED BY <1>1, <1>2, <1>3, <1>4

LEMMA PointSteps ==
  ASSUME NEW n, NEW h, NEW s, Holds(n, h, s), NEW l \in D!Shown,
         D!MouseDown(l) \/ D!MouseDownInCrop(l) \/ D!DoubleClick(l)
  PROVE  LabInv'
<1>1. /\ n \in Nat /\ n = counter /\ design \in Designs(n, h, s) /\ acts \in 0 .. MaxActs /\ cropping \in Nat
      /\ timers \subseteq {"nudge", "slider", "text"} /\ images \subseteq 0 .. MaxOpens
      /\ l \in Overlaid(design.layers) /\ l \in D!ToSet(design.layers) /\ l \in LayersUpTo(n) /\ l.id \in 1 .. n /\ l.id # D!None
  BY HoldsFacts, LayerFacts
<1>2. D!Pointing /\ D!Doing({})
  BY DEF D!MouseDown, D!MouseDownInCrop, D!DoubleClick
<1>3. /\ acts' \in 0 .. MaxActs /\ drag = D!NoDrag
      /\ D!Debounced({}) /\ UNCHANGED <<dialog, session, images, saved>>
  BY <1>1, <1>2, ActsFacts DEF D!Pointing, D!Doing
<1>4. timers' \subseteq {"nudge", "slider", "text"} /\ (timers' \subseteq {"text"} => timers \subseteq {"text"})
  BY <1>1, <1>3, NoKinds, DoingFacts
<1>5. l.id \in Nat \ {0}
  BY <1>1 DEF D!None
<1>6. D!Selecting(design, l.id) \in Designs(n, h, s) /\ D!Selecting(design, l.id).layers = design.layers
  BY <1>1, DesignSelected
<1>7. CASE D!MouseDown(l)
  <2>1. /\ UNCHANGED <<history, hidx, cropping, counter>>
        /\ design' = design \/ design' = D!Selecting(design, l.id)
        /\ drag' = drag \/ D!Grab(l.id, FALSE)
    BY <1>7 DEF D!MouseDown, D!Notify
  <2>2. design' \in Designs(n, h, s) /\ design'.layers = design.layers
    BY <1>1, <1>6, <2>1
  <2>3. drag' = D!NoDrag \/ drag' \in Dragging
    BY <1>3, <1>5, <2>1, Grabbed
  <2>4. Settled' => Settled /\ design'.layers = design.layers
    BY <1>3, <1>4, <2>1, <2>2 DEF Settled
  <2> QED BY <1>1, <1>3, <1>4, <2>1, <2>2, <2>3, <2>4, Stays
<1>8. CASE D!MouseDownInCrop(l)
  <2>1. UNCHANGED <<design, cropping, history, hidx, counter>> /\ D!Grab(l.id, TRUE) /\ cropping = l.id
    BY <1>8 DEF D!MouseDownInCrop, D!store
  <2>2. drag' \in Dragging
    BY <1>5, <2>1, Grabbed
  <2>3. ~Settled'
    BY <1>1, <2>1 DEF Settled
  <2> QED BY <1>1, <1>3, <1>4, <2>1, <2>2, <2>3, Stays
<1>9. CASE D!DoubleClick(l)
  <2>1. D!Still
    BY <1>9 DEF D!DoubleClick
  <2>2. CASE cropping = l.id /\ cropping' = D!None /\ D!Commit(design)
    BY <1>1, <1>2, <1>3, <2>1, <2>2, NoKinds, CommitsHere
  <2>3. CASE /\ cropping = D!None /\ l.framed /\ ~l.locked
             /\ cropping' = l.id
             /\ D!Notify(D!Changing(D!Selecting(design, l.id), l.id, [l EXCEPT !.cropped = TRUE]))
    <3>1. PICK m, e : m = [l EXCEPT !.cropped = TRUE] /\ e = D!Selecting(design, l.id)
      OBVIOUS
    <3>2. m \in LayersUpTo(n) /\ m.id = l.id /\ m.kind = l.kind /\ m.since = l.since
      BY <1>1, <3>1, Cropped
    <3>3. e \in Designs(n, h, s) /\ l \in D!ToSet(e.layers)
      BY <1>1, <1>6, <3>1
    <3>4. D!Changing(e, l.id, m) \in Designs(n, h, s)
      BY <1>1, <3>2, <3>3, DesignChanged
    <3>5. D!Notify(D!Changing(e, l.id, m)) /\ cropping' \in Nat
      BY <1>5, <2>3, <3>1
    <3>6. ~Settled'
      BY <1>1, <2>3 DEF Settled
    <3>7. (drag' = D!NoDrag \/ drag' \in Dragging) /\ UNCHANGED counter
      BY <1>3, <2>1 DEF D!Still
    <3> QED BY <1>2, <1>3, <3>4, <3>5, <3>6, <3>7, NoKinds, Shows
  <2> QED BY <1>9, <2>2, <2>3 DEF D!DoubleClick
<1> QED BY <1>7, <1>8, <1>9

LEMMA CanvasSteps ==
  ASSUME NEW n, NEW h, NEW s, Holds(n, h, s), D!MouseDownOutside \/ D!MouseMove \/ D!MouseUp
  PROVE  LabInv'
<1>1. /\ n \in Nat /\ n = counter /\ design \in Designs(n, h, s) /\ acts \in 0 .. MaxActs /\ cropping \in Nat
      /\ timers \subseteq {"nudge", "slider", "text"} /\ images \subseteq 0 .. MaxOpens
      /\ (drag = D!NoDrag \/ drag \in Dragging)
  BY HoldsFacts
<1>2. CASE D!MouseDownOutside
  <2>1. acts' \in 0 .. MaxActs /\ D!Doing({}) /\ D!Still
    BY <1>1, <1>2, ActsFacts DEF D!MouseDownOutside, D!Pointing
  <2>2. CASE cropping # D!None
    <3>1. cropping' = D!None /\ D!Commit(design)
      BY <1>2, <2>2 DEF D!MouseDownOutside
    <3> QED BY <1>1, <2>1, <3>1, NoKinds, CommitsHere
  <2>3. CASE cropping = D!None
    <3>1. D!Select(D!None)
      BY <1>2, <2>3 DEF D!MouseDownOutside
    <3> QED BY <2>1, <3>1, SelectsALayer
  <2> QED BY <2>2, <2>3
<1>3. CASE D!MouseMove
  <2>1. /\ acts' \in 0 .. MaxActs /\ D!Doing({}) /\ UNCHANGED <<cropping, counter>>
        /\ drag # D!NoDrag /\ drag' = [drag EXCEPT !.changed = TRUE]
    BY <1>1, <1>3, ActsFacts DEF D!MouseMove
  <2>2. drag' \in Dragging /\ drag' # D!NoDrag /\ drag'.changed
    BY <1>1, <2>1, DragFacts
  <2>3. ~Settled'
    BY <2>2 DEF Settled
  <2>4. CASE drag.attached /\ drag.id \in D!Ids(design) /\ (drag.crop => D!Layer(drag.id).framed)
    <3>1. D!Notify(D!Edited(drag.id))
      BY <1>3, <2>4 DEF D!MouseMove
    <3>2. D!Edited(drag.id) \in Designs(n, h, s)
      BY <2>4, EditedFits
    <3> QED BY <1>1, <2>1, <2>2, <2>3, <3>1, <3>2, NoKinds, Shows
  <2>5. CASE ~(drag.attached /\ drag.id \in D!Ids(design) /\ (drag.crop => D!Layer(drag.id).framed))
    <3>1. D!Notify(design)
      BY <1>3, <2>5 DEF D!MouseMove, D!Notify
    <3> QED BY <1>1, <2>1, <2>2, <2>3, <3>1, NoKinds, Shows
  <2> QED BY <2>4, <2>5
<1>4. CASE D!MouseUp
  <2>1. drag' = D!NoDrag /\ D!Doing({}) /\ UNCHANGED <<cropping, counter, acts>>
    BY <1>4 DEF D!MouseUp
  <2>2. /\ D!Debounced({}) /\ UNCHANGED <<dialog, session, images, saved>>
    BY <2>1 DEF D!Doing
  <2>3. timers' \subseteq {"nudge", "slider", "text"} /\ (timers' \subseteq {"text"} => timers \subseteq {"text"})
    BY <1>1, <2>2, NoKinds, DoingFacts
  <2>4. CASE drag.changed
    <3>1. D!Commit(design)
      BY <1>4, <2>4 DEF D!MouseUp
    <3> QED BY <1>1, <2>1, <2>2, <3>1, NoKinds, Commits
  <2>5. CASE ~drag.changed
    <3>1. UNCHANGED <<design, history, hidx>>
      BY <1>4, <2>5 DEF D!MouseUp
    <3>2. Settled' => Settled /\ design'.layers = design.layers
      BY <2>1, <2>2, <2>3, <2>5, <3>1 DEF Settled
    <3> QED BY <1>1, <2>1, <2>2, <2>3, <3>1, <3>2, Stays
  <2> QED BY <2>4, <2>5
<1> QED BY <1>2, <1>3, <1>4

LEMMA HistorySteps ==
  ASSUME NEW n, NEW h, NEW s, Holds(n, h, s), D!Undo \/ D!Redo \/ \E kind \in timers : D!TimerFires(kind)
  PROVE  LabInv'
<1>1. /\ n \in Nat /\ n = counter /\ design \in Designs(n, h, s) /\ acts \in 0 .. MaxActs /\ cropping \in Nat
      /\ timers \subseteq {"nudge", "slider", "text"} /\ images \subseteq 0 .. MaxOpens
      /\ (drag = D!NoDrag \/ drag \in Dragging) /\ history \in Seq(Designs(n, h, s))
      /\ hidx \in 0 .. Len(history) /\ Len(history) \in Nat
  BY HoldsFacts
<1>2. CASE D!Undo \/ D!Redo
  <2>1. PICK i \in 1 .. Len(history) : D!Acts /\ D!Restore(i)
    <3>1. CASE D!Undo
      BY <3>1, <1>1 DEF D!Undo
    <3>2. CASE D!Redo
      BY <3>2, <1>1 DEF D!Redo
    <3> QED BY <1>2, <3>1, <3>2
  <2>2. /\ hidx' = i /\ design' = history[i] /\ D!Doing({}) /\ UNCHANGED <<cropping, history, counter>>
        /\ drag' = IF drag = D!NoDrag THEN drag ELSE [drag EXCEPT !.attached = FALSE]
    BY <2>1 DEF D!Restore
  <2>3. drag' = D!NoDrag \/ drag' \in Dragging
    BY <1>1, <2>2, DragFacts
  <2>4. /\ D!Debounced({}) /\ UNCHANGED <<dialog, session, images, saved>> /\ acts' \in 0 .. MaxActs
    BY <1>1, <2>1, <2>2, ActsFacts DEF D!Doing
  <2>5. timers' \subseteq {"nudge", "slider", "text"}
    BY <1>1, <2>4, NoKinds, DoingFacts
  <2>6. design' \in Designs(n, h, s)
    BY <1>1, <2>2, SeqFacts
  <2>7. history' = history /\ hidx' \in 1 .. Len(history) /\ design' = history[hidx']
    BY <2>1, <2>2
  <2>8. /\ n \in Nat /\ n <= n /\ counter' = n /\ cropping' \in Nat /\ images' \subseteq 0 .. MaxOpens
        /\ UNCHANGED <<dialog, session, saved>> /\ acts' \in 0 .. MaxActs
    BY <1>1, <2>2, <2>4
  <2> QED BY <2>3, <2>5, <2>6, <2>7, <2>8, Stays
<1>3. ASSUME NEW kind \in timers, D!TimerFires(kind) PROVE LabInv'
  <2>1. /\ design' = design /\ D!Push(design) /\ timers' = timers \ {kind}
        /\ UNCHANGED <<cropping, dialog, session, drag, images, saved, counter, acts>>
    BY <1>3 DEF D!TimerFires, D!Commit
  <2>2. \E x \in Designs(n, h, s) : D!Push(x) /\ x.layers = design'.layers
    BY <1>1, <2>1
  <2> QED BY <1>1, <2>1, <2>2, Stays
<1> QED BY <1>2, <1>3

(* Opening and closing. *)
LEMMA AnySession ==
  ASSUME NEW n \in Nat, NEW s, NEW h, NEW t, NEW f, ~f
  PROVE  Designs(n, h, s) \subseteq Designs(n, f, t)
  BY DEF Designs

LEMMA Unhydrated ==
  ASSUME NEW n, NEW h, NEW s, Holds(n, h, s), UNCHANGED <<design, history, hidx, counter>>,
         NEW f, dialog'.hydrated = f, ~f, f \in BOOLEAN, session' \in 0 .. MaxOpens, DialogOK'
  PROVE  LabInv'
<1>1. /\ n \in Nat /\ n = counter /\ design \in Designs(n, h, s) /\ history \in Seq(Designs(n, h, s))
      /\ hidx \in 0 .. Len(history)
  BY HoldsFacts
<1>2. Designs(n, h, s) \subseteq Designs(n, f, session')
  BY <1>1, AnySession
<1>3. design' \in Designs(n, f, session') /\ history' \in Seq(Designs(n, f, session'))
  BY <1>1, <1>2, SeqFacts
<1>4. HistoryOK' /\ CanvasOK'
  <2>1. HistoryOK
    BY DEF Holds
  <2> QED BY <2>1 DEF HistoryOK, CanvasOK, Settled
<1>5. session' \in Nat /\ n = counter'
  BY <1>1, Bounds
<1>6. PICK t \in Nat : t = session'
  BY <1>5
<1>7. StoreFits(n, f, t)'
  BY <1>3, <1>5, <1>6 DEF StoreFits
<1> QED BY <1>1, <1>4, <1>6, <1>7 DEF LabInv

LEMMA Hydrates ==
  ASSUME NEW n, NEW h, NEW s, Holds(n, h, s), NEW photo \in BOOLEAN, D!Hydrate(photo),
         session' \in 0 .. MaxOpens, timers' \subseteq {"nudge", "slider", "text"}, UNCHANGED <<images, saved, acts>>
  PROVE  LabInv'
<1>1. /\ n \in Nat /\ n = counter /\ acts \in 0 .. MaxActs /\ cropping \in Nat
      /\ images \subseteq 0 .. MaxOpens /\ (drag = D!NoDrag \/ drag \in Dragging)
      /\ saved \in [layers : Seq(SavedLayers), text : Nat] /\ Len(saved.layers) <= MaxLayers
  BY HoldsFacts
<1>2. session' \in Nat /\ acts \in Nat
  BY <1>1, Bounds
<1>3. PICK t \in Nat : t = session'
  BY <1>2
<1>4. PICK yes \in BOOLEAN : yes
  OBVIOUS
<1>5. D!Imported(photo) \in Designs(n + 1 + Len(saved.layers), yes, t) /\ Len(saved.layers) \in Nat
  BY <1>1, <1>2, <1>3, ImportedFits
<1>6. PICK m \in Nat : m = n + 1 + Len(saved.layers)
  BY <1>1, <1>5
<1>7. /\ design' = D!Imported(photo) /\ history' = <<design'>> /\ hidx' = 1 /\ cropping' = cropping
      /\ dialog' = [open |-> TRUE, hydrated |-> TRUE] /\ counter' = counter + 1 + Len(saved.layers)
      /\ drag' = IF drag = D!NoDrag THEN drag ELSE [drag EXCEPT !.attached = FALSE]
  BY DEF D!Hydrate, D!Import
<1>8. drag' = D!NoDrag \/ drag' \in Dragging
  BY <1>1, <1>7, DragFacts
<1>9. dialog'.hydrated = yes /\ dialog'.open /\ dialog' \in [open : BOOLEAN, hydrated : BOOLEAN]
  BY <1>4, <1>7
<1>10. m = counter' /\ counter' \in Nat
  BY <1>1, <1>6, <1>7
<1>11. DialogOK'
  BY <1>1, <1>7, <1>8, <1>9, <1>10 DEF DialogOK
<1>12. PICK d \in Designs(m, yes, t) : d = design'
  BY <1>5, <1>6, <1>7
<1>13. history' = <<d>>
  BY <1>7, <1>12
<1>14. <<d>> \in Seq(Designs(m, yes, t)) /\ Len(<<d>>) = 1 /\ <<d>>[1] = d
  OBVIOUS
<1>15. history' \in Seq(Designs(m, yes, t)) /\ Len(history') = 1 /\ history'[hidx'] = d
  BY <1>7, <1>13, <1>14
<1>16. HistoryOK'
  BY <1>7, <1>9, <1>15, Bounds DEF HistoryOK
<1>17. CanvasOK'
  BY <1>12, <1>15 DEF CanvasOK
<1>18. StoreFits(m, yes, t)'
  BY <1>3, <1>9, <1>10, <1>12, <1>15 DEF StoreFits
<1> QED BY <1>11, <1>16, <1>17, <1>18 DEF LabInv

LEMMA OpenSteps ==
  ASSUME NEW n, NEW h, NEW s, Holds(n, h, s), NEW photo \in BOOLEAN, D!Open(photo) \/ D!PhotoAnswers(photo)
  PROVE  LabInv'
<1>1. /\ n \in Nat /\ n = counter /\ acts \in 0 .. MaxActs /\ cropping \in Nat /\ session \in 0 .. MaxOpens
      /\ images \subseteq 0 .. MaxOpens /\ timers \subseteq {"nudge", "slider", "text"}
  BY HoldsFacts
<1>2. CASE D!Open(photo)
  <2>1. /\ session' \in 0 .. MaxOpens /\ timers' \subseteq {"nudge", "slider", "text"}
        /\ UNCHANGED <<timers, images, saved, acts>>
    BY <1>1, <1>2, Bounds DEF D!Open
  <2>2. CASE photo
    <3>1. /\ dialog' = [open |-> TRUE, hydrated |-> FALSE]
          /\ UNCHANGED <<design, cropping, history, hidx, counter, drag>>
      BY <1>2, <2>2 DEF D!Open, D!store
    <3>2. dialog' \in [open : BOOLEAN, hydrated : BOOLEAN]
      BY <3>1
    <3>3. DialogOK
      BY DEF Holds
    <3>4. DialogOK'
      BY <2>1, <3>1, <3>2, <3>3 DEF DialogOK
    <3>5. PICK f \in BOOLEAN : dialog'.hydrated = f /\ ~f
      BY <3>1
    <3> QED BY <2>1, <3>1, <3>4, <3>5, Unhydrated
  <2>3. CASE ~photo
    <3>1. D!Hydrate(FALSE)
      BY <1>2, <2>3 DEF D!Open
    <3> QED BY <2>1, <3>1, Hydrates
  <2> QED BY <2>2, <2>3
<1>3. CASE D!PhotoAnswers(photo)
  <2>1. D!Hydrate(photo) /\ D!Debounced({}) /\ UNCHANGED <<session, images, saved, acts>>
    BY <1>3 DEF D!PhotoAnswers
  <2>2. timers' \subseteq {"nudge", "slider", "text"}
    BY <1>1, <2>1, NoKinds, DoingFacts
  <2>3. session' \in 0 .. MaxOpens
    BY <1>1, <2>1
  <2> QED BY <2>1, <2>2, <2>3, Hydrates
<1> QED BY <1>2, <1>3

LEMMA Interval == ASSUME NEW n \in Nat PROVE Cardinality(1 .. n) = n /\ IsFiniteSet(1 .. n)
<1>1. n \in Int /\ 1 \in Int /\ n >= 0
  OBVIOUS
<1>2. PICK k \in Int : k = n
  BY <1>1
<1>3. Cardinality(1 .. k) = (IF 1 > k THEN 0 ELSE k - 1 + 1) /\ IsFiniteSet(1 .. k)
  BY <1>1, FS_Interval, Zenon
<1> QED BY <1>1, <1>2, <1>3

Values(f, n) == {f[i] : i \in 1 .. n}

LEMMA Counted ==
  ASSUME NEW n \in Nat, NEW f, \A i, j \in 1 .. n : f[i] = f[j] => i = j
  PROVE  Cardinality(Values(f, n)) = n
<1> DEFINE T == Values(f, n)
           g == [i \in 1 .. n |-> f[i]]
<1>1. g \in Bijection(1 .. n, T)
  BY DEF Bijection, Injection, Surjection, IsInjective, Values
<1>2. ExistsBijection(1 .. n, T)
  BY <1>1 DEF ExistsBijection
<1> HIDE DEF T
<1>3. Cardinality(1 .. n) = n /\ IsFiniteSet(1 .. n)
  BY Interval
<1>4. Cardinality(T) = Cardinality(1 .. n)
  BY <1>2, <1>3, FS_Bijection
<1> QED BY <1>3, <1>4 DEF T

(* A layer is counted once, and so is its id. *)
LEMMA OneByOne ==
  ASSUME NEW n \in Nat, NEW q \in Stacks(n)
  PROVE  Cardinality(D!ToSet(q)) = Len(q) /\ Cardinality({q[i].id : i \in DOMAIN q}) = Len(q)
<1>1. Len(q) \in Nat /\ DOMAIN q = 1 .. Len(q) /\ D!ToSet(q) = {q[i] : i \in 1 .. Len(q)} /\ OneEach(q)
  BY StackFacts
<1>2. Cardinality(Values(q, Len(q))) = Len(q)
  <2>1. \A i, j \in 1 .. Len(q) : q[i] = q[j] => i = j
    BY <1>1 DEF OneEach
  <2> QED BY <1>1, <2>1, Counted
<1>3. Cardinality({q[i].id : i \in DOMAIN q}) = Len(q)
  <2> DEFINE f == [i \in 1 .. Len(q) |-> q[i].id]
  <2>1. \A i, j \in 1 .. Len(q) : f[i] = f[j] => i = j
    BY <1>1 DEF OneEach
  <2>2. {q[i].id : i \in DOMAIN q} = Values(f, Len(q))
    BY <1>1 DEF Values
  <2> HIDE DEF f
  <2>3. Cardinality(Values(f, Len(q))) = Len(q)
    BY <1>1, <2>1, Counted
  <2> QED BY <2>2, <2>3
<1> QED BY <1>1, <1>2, <1>3 DEF Values

LEMMA SavedLayer ==
  ASSUME NEW n \in Nat, NEW l \in LayersUpTo(n), l.kind = "layer"
  PROVE  [l EXCEPT !.locked = FALSE] \in SavedLayers
<1>1. PICK m : m = [l EXCEPT !.locked = FALSE]
  OBVIOUS
<1>2. m \in LayersUpTo(n) /\ m.kind = l.kind
  BY <1>1 DEF LayersUpTo
<1>3. m \in SavedLayers
  BY <1>2 DEF LayersUpTo, SavedLayers
<1> QED BY <1>1, <1>3

LEMMA ExportedFits ==
  ASSUME NEW n, NEW h, NEW s, Holds(n, h, s)
  PROVE  D!Exported \in [layers : Seq(SavedLayers), text : Nat] /\ Len(D!Exported.layers) <= MaxLayers
<1>1. n \in Nat /\ design \in Designs(n, h, s)
  BY HoldsFacts
<1>2. design.layers \in Stacks(n) /\ design.text \in Nat
  BY <1>1, DesignFacts
<1>3. PICK q : q = design.layers
  OBVIOUS
<1>4. PICK o : o = D!Overlays(q)
  OBVIOUS
<1>5. o \in Stacks(n) /\ D!ToSet(o) = Overlaid(q)
  BY <1>1, <1>2, <1>3, <1>4, OverlaysAre
<1>6. /\ Len(o) \in Nat /\ DOMAIN o = 1 .. Len(o) /\ D!ToSet(o) = {o[i] : i \in 1 .. Len(o)}
      /\ \A i \in 1 .. Len(o) : o[i] \in LayersUpTo(n)
  BY <1>1, <1>5, StackFacts
<1>7. Len(o) <= MaxLayers
  <2>1. Cardinality(D!ToSet(o)) = Len(o)
    BY <1>1, <1>5, OneByOne
  <2>2. Cardinality(Overlaid(q)) <= MaxLayers
    BY <1>1, <1>2, <1>3, StackFacts
  <2> QED BY <1>5, <2>1, <2>2
<1> DEFINE v == [i \in DOMAIN o |-> [o[i] EXCEPT !.locked = FALSE]]
<1>8. \A i \in 1 .. Len(o) : v[i] \in SavedLayers
  <2> SUFFICES ASSUME NEW i \in 1 .. Len(o) PROVE v[i] \in SavedLayers
    OBVIOUS
  <2>1. o[i] \in LayersUpTo(n) /\ o[i].kind = "layer"
    BY <1>5, <1>6 DEF Overlaid
  <2>2. [o[i] EXCEPT !.locked = FALSE] \in SavedLayers
    BY <1>1, <2>1, SavedLayer
  <2> QED BY <1>6, <2>2
<1>9. DOMAIN v = 1 .. Len(o) /\ v = [i \in 1 .. Len(o) |-> v[i]]
  BY <1>6
<1>10. D!Exported = [layers |-> v, text |-> design.text]
  BY <1>3, <1>4 DEF D!Exported
<1> HIDE DEF v
<1>11. v \in Seq(SavedLayers) /\ Len(v) = Len(o)
  BY <1>6, <1>8, <1>9, Listed
<1> QED BY <1>2, <1>7, <1>10, <1>11

LEMMA CloseSteps ==
  ASSUME NEW n, NEW h, NEW s, Holds(n, h, s), D!Apply \/ D!Cancel
  PROVE  LabInv'
<1>1. DialogOK
  BY DEF Holds
<1>2. /\ dialog' = [open |-> FALSE, hydrated |-> FALSE] /\ timers' = {}
      /\ UNCHANGED <<design, cropping, history, hidx, session, drag, images, counter, acts>>
      /\ saved' = saved \/ saved' = D!Exported
  BY DEF D!Apply, D!Cancel, D!Close, D!store
<1>3. saved' \in [layers : Seq(SavedLayers), text : Nat] /\ Len(saved'.layers) <= MaxLayers
  <2>1. saved \in [layers : Seq(SavedLayers), text : Nat] /\ Len(saved.layers) <= MaxLayers
    BY HoldsFacts
  <2> QED BY <1>2, <2>1, ExportedFits
<1>4. dialog' \in [open : BOOLEAN, hydrated : BOOLEAN]
  BY <1>2
<1>5. PICK f \in BOOLEAN : dialog'.hydrated = f /\ ~f
  BY <1>2
<1>6. session' \in 0 .. MaxOpens
  BY <1>1, <1>2 DEF DialogOK
<1>7. DialogOK'
  BY <1>1, <1>2, <1>3, <1>4 DEF DialogOK
<1> QED BY <1>2, <1>5, <1>6, <1>7, Unhydrated

LEMMA LabStarts == D!Init => LabInv
<1> SUFFICES ASSUME D!Init PROVE LabInv
  OBVIOUS
<1> DEFINE empty == <<>>
<1>1. /\ design = D!Blank /\ cropping = D!None /\ history = <<>> /\ hidx = 0
      /\ dialog = [open |-> FALSE, hydrated |-> FALSE] /\ session = 0
      /\ timers = {} /\ drag = D!NoDrag /\ images = {} /\ acts = 0 /\ counter = 0
  BY DEF D!Init
<1>2. PICK framed \in BOOLEAN :
         saved = [layers |-> <<[D!NewLayer(0, "layer", 0, 0) EXCEPT !.framed = framed]>>, text |-> D!None]
  BY DEF D!Init
<1>3. PICK l : l = [D!NewLayer(0, "layer", 0, 0) EXCEPT !.framed = framed]
  OBVIOUS
<1>4. l \in SavedLayers
  BY <1>1, <1>3 DEF D!NewLayer, SavedLayers
<1>5. <<l>> \in Seq(SavedLayers) /\ Len(<<l>>) = 1
  BY <1>4
<1>6. saved \in [layers : Seq(SavedLayers), text : Nat] /\ Len(saved.layers) <= MaxLayers
  BY <1>2, <1>3, <1>5, Bounds DEF D!None
<1>7. empty \in Stacks(0)
  <2>1. empty \in Seq(LayersUpTo(0)) /\ DOMAIN empty = {} /\ D!ToSet(empty) = {}
    BY DEF D!ToSet
  <2>2. Overlaid(empty) = {} /\ Cardinality({}) = 0
    BY <2>1, FS_EmptySet DEF Overlaid
  <2> HIDE DEF empty
  <2>3. OneEach(empty) /\ OnGround(empty)
    BY <2>1 DEF OneEach, OnGround
  <2>4. Cardinality(Overlaid(empty)) <= MaxLayers
    BY <2>2, Bounds
  <2> QED BY <2>1, <2>3, <2>4 DEF Stacks
<1>8. PICK no \in BOOLEAN : no = FALSE
  OBVIOUS
<1> DEFINE b == [layers |-> empty, text |-> 0, textSelected |-> no, selected |-> 0]
<1>9. b \in Figures(0)
  <2> HIDE DEF empty
  <2> QED BY <1>7 DEF Figures
<1>10. design = b
  <2> HIDE DEF b
  <2>1. b = D!Blank
    BY <1>8 DEF b, D!Blank, D!None
  <2> QED BY <1>1, <2>1
<1>11. b.selected = 0 /\ b.textSelected = no
  OBVIOUS
<1> HIDE DEF b
<1>12. b \in Designs(0, no, 0)
  BY <1>8, <1>9, <1>11 DEF Designs, D!None
<1>13. history \in Seq(Designs(0, no, 0)) /\ Len(history) = 0
  BY <1>1
<1>14. dialog \in [open : BOOLEAN, hydrated : BOOLEAN] /\ dialog.hydrated = no
  BY <1>1, <1>8
<1>15. DialogOK
  BY <1>1, <1>6, <1>14, Bounds DEF DialogOK, D!None
<1>16. HistoryOK
  BY <1>1, <1>8, <1>13, <1>14, Bounds DEF HistoryOK
<1>17. CanvasOK
  BY <1>8, <1>14 DEF CanvasOK, Settled
<1>18. StoreFits(0, no, 0)
  BY <1>1, <1>10, <1>12, <1>13, <1>14 DEF StoreFits
<1> QED BY <1>15, <1>16, <1>17, <1>18 DEF LabInv

LEMMA Holding ==
  ASSUME LabInv
  PROVE  \E n, h, s : Holds(n, h, s)
  BY DEF LabInv, Holds

LEMMA LabSteps == LabInv /\ D!Next => LabInv'
<1> SUFFICES ASSUME LabInv, D!Next PROVE LabInv'
  OBVIOUS
<1>1. PICK n, h, s : Holds(n, h, s)
  BY Holding
<1>2. CASE \E photo \in BOOLEAN : D!Open(photo) \/ D!PhotoAnswers(photo)
  BY <1>1, <1>2, OpenSteps
<1>3. CASE D!Apply \/ D!Cancel
  BY <1>1, <1>3, CloseSteps
<1>4. CASE D!Undo \/ D!Redo \/ \E k \in timers : D!TimerFires(k)
  BY <1>1, <1>4, HistorySteps
<1>5. CASE D!Deselect \/ D!Nudge \/ D!DeleteKey \/ D!DuplicateKey
  BY <1>1, <1>5, KeySteps
<1>6. CASE D!AddLayer \/ \E asked \in images : D!ImageLoads(asked) \/ D!ImageFails(asked)
  BY <1>1, <1>6, ImageSteps
<1>7. CASE D!AddText \/ D!UpdateText \/ D!SlideText \/ D!RemoveText \/ D!FontMeasured
  BY <1>1, <1>7, TextSteps
<1>8. CASE D!MouseDownOutside \/ D!MouseMove \/ D!MouseUp
  BY <1>1, <1>8, CanvasSteps
<1>9. CASE \E l \in D!Shown : D!OnLayer(l)
  <2>1. PICK l \in D!Shown : D!OnLayer(l)
    BY <1>9
  <2>2. CASE D!SelectRow(l) \/ D!DeleteRow(l) \/ D!DuplicateRow(l) \/ D!ToggleLock(l) \/ D!ToggleVisible(l)
    BY <1>1, <2>2, RowSteps
  <2>3. CASE D!MoveUp(l)
    BY <1>1, <2>3, MoveUpSteps
  <2>4. CASE D!MouseDown(l) \/ D!MouseDownInCrop(l) \/ D!DoubleClick(l)
    BY <1>1, <2>4, PointSteps
  <2> QED BY <2>1, <2>2, <2>3, <2>4 DEF D!OnLayer
<1>10. CASE \E l \in D!SelectedLayers : D!OnSelected(l)
  BY <1>1, <1>10, PanelSteps
<1> QED BY <1>2, <1>3, <1>4, <1>5, <1>6, <1>7, <1>8, <1>9, <1>10 DEF D!Next

LEMMA LabStutters == LabInv /\ UNCHANGED D!vars => LabInv'
<1> SUFFICES ASSUME LabInv, UNCHANGED D!vars PROVE LabInv'
  OBVIOUS
<1>1. /\ design' = design /\ cropping' = cropping /\ history' = history /\ hidx' = hidx /\ dialog' = dialog
      /\ session' = session /\ timers' = timers /\ drag' = drag /\ images' = images /\ saved' = saved
      /\ counter' = counter /\ acts' = acts
  BY DEF D!vars
<1>2. PICK n \in Nat, h \in BOOLEAN, s \in Nat : StoreFits(n, h, s)
  BY DEF LabInv
<1>3. StoreFits(n, h, s)'
  BY <1>1, <1>2 DEF StoreFits
<1>4. DialogOK' /\ HistoryOK' /\ CanvasOK'
  BY <1>1 DEF LabInv, DialogOK, HistoryOK, CanvasOK, Settled
<1> QED BY <1>2, <1>3, <1>4 DEF LabInv

LEMMA DesignIsComposed ==
  ASSUME NEW n \in Nat, NEW h, NEW s, NEW d \in Designs(n, h, s)
  PROVE  D!Composed(d)
<1>1. /\ d.layers \in Stacks(n)
      /\ (d.selected # D!None => ~d.textSelected /\ \E l \in Overlaid(d.layers) : l.id = d.selected)
      /\ (d.textSelected => d.text # D!None)
  BY DesignFacts
<1>2. OnGround(d.layers)
  BY <1>1, StackFacts
<1>3. Cardinality({d.layers[i].id : i \in DOMAIN d.layers}) = Len(d.layers)
  BY <1>1, OneByOne
<1>4. d.selected # D!None => \E l \in D!ToSet(d.layers) : l.id = d.selected /\ l.kind = "layer"
  BY <1>1 DEF Overlaid
<1> QED BY <1>1, <1>2, <1>3, <1>4, DSize DEF D!Composed, D!Ids, OnGround

LEMMA LabIsSound == LabInv => D!TypeOK /\ D!DesignsAreComposed /\ D!CanvasIsCommitted /\ D!HistoryIsThisSessions
<1> SUFFICES ASSUME LabInv PROVE D!TypeOK /\ D!DesignsAreComposed /\ D!CanvasIsCommitted /\ D!HistoryIsThisSessions
  OBVIOUS
<1>1. PICK n, h, s : Holds(n, h, s)
  BY Holding
<1>2. /\ n \in Nat /\ h = dialog.hydrated /\ s = session
      /\ design \in Designs(n, h, s) /\ history \in Seq(Designs(n, h, s))
  BY <1>1, HoldsFacts
<1>3. \A d \in D!Kept \cup {design} : d \in Designs(n, h, s)
  BY <1>2, SeqFacts DEF D!Kept
<1>4. D!TypeOK
  <2>1. design.layers \in Stacks(n)
    BY <1>2, DesignFacts
  <2>2. Cardinality(Overlaid(design.layers)) <= MaxLayers /\ Overlaid(design.layers) = D!Shown
    BY <1>2, <2>1, StackFacts DEF Overlaid, D!Shown
  <2> QED BY <1>1, <2>2, DSize DEF Holds, D!TypeOK, DialogOK, HistoryOK
<1>5. D!DesignsAreComposed
  BY <1>2, <1>3, DesignIsComposed DEF D!DesignsAreComposed
<1>6. D!CanvasIsCommitted
  BY <1>1 DEF Holds, CanvasOK, D!CanvasIsCommitted, Settled
<1>7. D!HistoryIsThisSessions
  <2> SUFFICES ASSUME dialog.hydrated, NEW d \in D!Kept \cup {design}, NEW i \in DOMAIN d.layers
               PROVE  d.layers[i].since = session
    BY DEF D!HistoryIsThisSessions
  <2>1. \A l \in D!ToSet(d.layers) : l.since = s
    <3>1. d \in Designs(n, h, s) /\ h
      BY <1>2, <1>3
    <3> QED BY <1>2, <3>1 DEF Designs
  <2> QED BY <1>2, <2>1 DEF D!ToSet
<1> QED BY <1>4, <1>5, <1>6, <1>7


LEMMA LabStep == ASSUME LabInv, [D!Next]_(D!vars) PROVE LabInv'
  BY LabSteps, LabStutters

(* Of every number of layers, of steps of history and of sessions of the     *)
(* dialog (design-lab/store.ts), the inductive invariant of the Design Lab.  *)
THEOREM LabInvariance == AccountsSpec => []LabInv
<1>1. AccountsInit => LabInv
  BY LabStarts DEF AccountsInit
<1>2. [AccountsNext]_everything => [D!Next]_(D!vars)
  BY DEF AccountsNext, everything, lab, D!vars, D!store
<1>3. LabInv /\ [AccountsNext]_everything => LabInv'
  BY <1>2, LabStep
<1> QED BY <1>1, <1>3, PTL DEF AccountsSpec, everything

(* What the Design Lab shows and could undo to is composed: one layer has an *)
(* id, the photo lies at the bottom and the selection is of what is there;   *)
(* what no timer or gesture is still to commit is where undo starts from;    *)
(* and every design it could go back to is of the session that is open       *)
(* (design-lab/store.ts, commit, undo, open).                                *)
THEOREM DesignsHold ==
    AccountsSpec => [](D!TypeOK /\ D!DesignsAreComposed /\ D!CanvasIsCommitted /\ D!HistoryIsThisSessions)
<1> QED BY LabInvariance, LabIsSound, PTL
=============================================================================
