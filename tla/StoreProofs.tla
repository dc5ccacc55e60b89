----------------------------- MODULE StoreProofs -----------------------------
(* Theorems about a store, for every value of its constants.  First the
   handshake of Connection by itself, for every number of requests, workspaces,
   codes and credentials, whatever is lost and whoever dies; then what MCStore
   puts together, to which the handshake's invariant and the circuit breaker's
   are carried over, and where that of the reconciliation is proved. *)
EXTENDS MCStore, ListProofs, FiniteSetTheorems

(* A job knows codes and credentials that are there, and a code that is being
   exchanged was approved into a workspace. *)
Exchanging == {"exchange", "spend", "refused"}
Arriving == {"granted", "save", "arrive"}
Leaving == {"disconnect", "clear", "leave"}
Beating == {"beat", "unauthorized"}

JobType(nc, nk) ==
    {Nobody} \cup [pc : {"initiate"}]
    \cup [pc : Exchanging \cup {"remember"}, code : 1 .. nc]
    \cup [pc : Arriving, code : 1 .. nc, key : 1 .. nk]
    \cup [pc : Leaving, key : 1 .. nk]
    \cup [pc : Beating, key : 0 .. nk, seen : States]

JobOK(j, cs, nk) ==
    /\ j \in JobType(Len(cs), nk)
    /\ j.pc \in Exchanging \cup Arriving => cs[j.code].tenant \in Tenants

JobsOK == /\ jobs = [r \in Requests |-> jobs[r]]
          /\ \A r \in Requests : JobOK(jobs[r], codes, Len(keys))

(* The tables of the cloud by themselves. *)
CloudType ==
    /\ codes \in Seq(Code) /\ keys \in Seq(Key) /\ Len(codes) <= MaxCodes
    /\ status \in [Tenants -> States \cup {Absent}] /\ pushUrl \in [Tenants -> BOOLEAN]
    /\ rotating \in Tenants \cup {"none"}
    /\ closed \subseteq DOMAIN codes /\ outrun \subseteq Tenants

(* A code that has given a credential, or was out at a disconnect, is spent. *)
SpentOK ==
    /\ \A k \in DOMAIN keys : keys[k].code # None =>
          keys[k].code \in DOMAIN codes /\ codes[keys[k].code].spent
    /\ \A c \in closed : codes[c].spent

CloudOK == CloudType /\ SpentOK /\ OneKeyPerCode /\ EndedHoldsNoKey /\ ConnectedHasKey

(* The options of the plugin.  A handshake is waited for only on the way. *)
PluginOK ==
    /\ state \in States /\ token \in 0 .. Len(keys) /\ handshake \in 0 .. Len(codes)
    /\ state = "disconnected" => handshake = None

IInv == CloudOK /\ PluginOK /\ JobsOK /\ faults \in 0 .. MaxFaults

(* Rows are added and approvals stay: what every step leaves of the cloud. *)
Grows ==
    /\ Len(codes) <= Len(codes') /\ Len(keys) <= Len(keys')
    /\ \A c \in DOMAIN codes : codes[c].tenant # Absent => codes'[c].tenant = codes[c].tenant
-----------------------------------------------------------------------------
LEMMA Lengths ==
  ASSUME CloudType
  PROVE  /\ Len(codes) \in Nat /\ DOMAIN codes = 1 .. Len(codes)
         /\ Len(keys) \in Nat /\ DOMAIN keys = 1 .. Len(keys)
         /\ \A c \in DOMAIN codes : codes[c] \in Code
         /\ \A k \in DOMAIN keys : keys[k] \in Key
  BY DEF CloudType

LEMMA JobGrows ==
  ASSUME CloudType, CloudType', Grows, NEW j, JobOK(j, codes, Len(keys))
  PROVE  JobOK(j, codes', Len(keys'))
<1>1. JobType(Len(codes), Len(keys)) \subseteq JobType(Len(codes'), Len(keys'))
  BY DEF JobType, CloudType, Grows
<1>2. ASSUME j.pc \in Exchanging \cup Arriving PROVE codes'[j.code].tenant \in Tenants
  <2>1. j.code \in DOMAIN codes
    BY <1>2 DEF JobOK, JobType, CloudType, Exchanging, Arriving, Leaving, Beating, Nobody
  <2>2. codes[j.code].tenant \in Tenants
    BY <1>2 DEF JobOK
  <2> QED BY <2>1, <2>2, TenantAssumption DEF Grows
<1> QED BY <1>1, <1>2 DEF JobOK

(* One job moves, at most: the others are as right as they were. *)
LEMMA JobsStep ==
  ASSUME CloudType, CloudType', Grows, JobsOK, NEW r \in Requests, NEW j,
         JobOK(j, codes', Len(keys')), jobs' = [jobs EXCEPT ![r] = j]
  PROVE  JobsOK'
<1>1. \A q \in Requests : jobs'[q] = IF q = r THEN j ELSE jobs[q]
  BY DEF JobsOK
<1>2. \A q \in Requests : JobOK(jobs[q], codes', Len(keys'))
  BY JobGrows DEF JobsOK
<1> QED BY <1>1, <1>2 DEF JobsOK

LEMMA JobsStay ==
  ASSUME CloudType, CloudType', Grows, JobsOK, jobs' = jobs
  PROVE  JobsOK'
  BY JobGrows DEF JobsOK

LEMMA NobodyOK == ASSUME NEW cs, NEW nk PROVE JobOK(Nobody, cs, nk)
  BY DEF JobOK, JobType, Nobody, Exchanging, Arriving

LEMMA JobDone ==
  ASSUME CloudType, CloudType', Grows, JobsOK, NEW r \in Requests, Done(r)
  PROVE  JobsOK'
  BY JobsStep, NobodyOK DEF Done

(* A job that goes on keeps what it knows. *)
LEMMA Moved ==
  ASSUME NEW cs, NEW nk, NEW j, NEW pc, JobOK(j, cs, nk),
         \/ j.pc \in Exchanging /\ pc \in Exchanging
         \/ j.pc \in Arriving /\ pc \in Arriving
         \/ j.pc \in Leaving /\ pc \in Leaving
         \/ j.pc \in Beating /\ pc \in Beating
  PROVE  JobOK([j EXCEPT !.pc = pc], cs, nk)
<1>1. CASE j.pc \in Exchanging /\ pc \in Exchanging
  <2>1. j \in [pc : Exchanging \cup {"remember"}, code : 1 .. Len(cs)]
    BY <1>1 DEF JobOK, JobType, Exchanging, Arriving, Leaving, Beating, Nobody
  <2> QED BY <1>1, <2>1 DEF JobOK, JobType, Exchanging
<1>2. CASE j.pc \in Arriving /\ pc \in Arriving
  <2>1. j \in [pc : Arriving, code : 1 .. Len(cs), key : 1 .. nk]
    BY <1>2 DEF JobOK, JobType, Exchanging, Arriving, Leaving, Beating, Nobody
  <2> QED BY <1>2, <2>1 DEF JobOK, JobType, Arriving
<1>3. CASE j.pc \in Leaving /\ pc \in Leaving
  <2>1. j \in [pc : Leaving, key : 1 .. nk]
    BY <1>3 DEF JobOK, JobType, Exchanging, Arriving, Leaving, Beating, Nobody
  <2> QED BY <1>3, <2>1 DEF JobOK, JobType, Exchanging, Arriving, Leaving
<1>4. CASE j.pc \in Beating /\ pc \in Beating
  <2>1. j \in [pc : Beating, key : 0 .. nk, seen : States]
    BY <1>4 DEF JobOK, JobType, Exchanging, Arriving, Leaving, Beating, Nobody
  <2> QED BY <1>4, <2>1 DEF JobOK, JobType, Exchanging, Arriving, Beating
<1> QED BY <1>1, <1>2, <1>3, <1>4

LEMMA JobGoes ==
  ASSUME CloudType, CloudType', Grows, JobsOK, NEW r \in Requests, NEW pc, Goto(r, pc),
         \/ jobs[r].pc \in Exchanging /\ pc \in Exchanging
         \/ jobs[r].pc \in Arriving /\ pc \in Arriving
         \/ jobs[r].pc \in Leaving /\ pc \in Leaving
         \/ jobs[r].pc \in Beating /\ pc \in Beating
  PROVE  JobsOK'
<1>1. JobOK(jobs[r], codes', Len(keys'))
  BY JobGrows DEF JobsOK
<1>2. JobOK([jobs[r] EXCEPT !.pc = pc], codes', Len(keys'))
  BY <1>1, Moved
<1>3. jobs' = [jobs EXCEPT ![r] = [jobs[r] EXCEPT !.pc = pc]]
  BY DEF Goto
<1> QED BY <1>2, <1>3, JobsStep

LEMMA CloudStays ==
  ASSUME CloudOK, UNCHANGED cloud
  PROVE  CloudOK' /\ CloudType' /\ Grows
<1>1. codes' = codes /\ keys' = keys /\ status' = status /\ pushUrl' = pushUrl
      /\ rotating' = rotating /\ closed' = closed /\ outrun' = outrun
  BY DEF cloud
<1>2. Len(codes) \in Nat /\ Len(keys) \in Nat
  BY Lengths DEF CloudOK
<1> QED BY <1>1, <1>2 DEF CloudOK, CloudType, SpentOK, OneKeyPerCode, EndedHoldsNoKey, ConnectedHasKey, Grows
-----------------------------------------------------------------------------
(* What changes the cloud.  A request to connect is a new code, of no workspace. *)
LEMMA InitiateCloud ==
  ASSUME CloudOK, NEW r \in Requests, Initiate(r)
  PROVE  CloudOK' /\ CloudType' /\ Grows /\ Len(codes') = Len(codes) + 1
<1> DEFINE new == [tenant |-> Absent, spent |-> FALSE, expired |-> FALSE]
<1>1. CloudType /\ codes \in Seq(Code) /\ new \in Code
  BY DEF CloudOK, CloudType, Code
<1>2. /\ codes' = Append(codes, new) /\ Len(codes) < MaxCodes
      /\ UNCHANGED <<status, pushUrl, keys, rotating, closed, outrun>>
  BY DEF Initiate
<1>3. /\ codes' \in Seq(Code) /\ Len(codes') = Len(codes) + 1
      /\ DOMAIN codes \subseteq DOMAIN codes' /\ \A c \in DOMAIN codes : codes'[c] = codes[c]
  BY <1>1, <1>2
<1>4. CloudType'
  BY <1>1, <1>2, <1>3, Lengths, BoundAssumption DEF CloudType
<1>5. SpentOK'
  BY <1>1, <1>2, <1>3 DEF CloudOK, SpentOK, CloudType
<1>6. Grows
  BY <1>1, <1>2, <1>3, Lengths DEF Grows
<1> QED BY <1>2, <1>3, <1>4, <1>5, <1>6 DEF CloudOK, OneKeyPerCode, EndedHoldsNoKey, ConnectedHasKey

(* A row of a code is updated, and nothing of it that was settled. *)
LEMMA CodeUpdated ==
  ASSUME CloudOK, NEW c \in DOMAIN codes, NEW row \in Code,
         codes' = [codes EXCEPT ![c] = row],
         codes[c].spent => row.spent,
         codes[c].tenant # Absent => row.tenant = codes[c].tenant
  PROVE  /\ codes' \in Seq(Code) /\ Len(codes') = Len(codes) /\ DOMAIN codes' = DOMAIN codes
         /\ \A b \in DOMAIN codes : /\ codes[b].spent => codes'[b].spent
                                   /\ codes[b].tenant # Absent => codes'[b].tenant = codes[b].tenant
  BY DEF CloudOK, CloudType

LEMMA AuthorizeCloud ==
  ASSUME CloudOK, NEW c \in DOMAIN codes, NEW t \in Tenants, Authorize(c, t)
  PROVE  CloudOK' /\ CloudType' /\ Grows
<1> DEFINE row == [codes[c] EXCEPT !.tenant = t]
<1>1. codes[c] \in Code /\ row \in Code /\ row.spent = codes[c].spent
  BY Lengths DEF CloudOK, Code
<1>2. /\ codes' = [codes EXCEPT ![c] = row] /\ codes[c].tenant = Absent
      /\ status' = [status EXCEPT ![t] = "connecting"]
      /\ pushUrl' = [pushUrl EXCEPT ![t] = FALSE]
      /\ UNCHANGED <<keys, rotating, closed, outrun>>
  BY DEF Authorize, Unapproved, SelectedPushUrl
<1>3. /\ codes' \in Seq(Code) /\ Len(codes') = Len(codes) /\ DOMAIN codes' = DOMAIN codes
      /\ \A b \in DOMAIN codes : /\ codes[b].spent => codes'[b].spent
                                /\ codes[b].tenant # Absent => codes'[b].tenant = codes[b].tenant
  <2> HIDE DEF row
  <2> QED BY <1>1, <1>2, CodeUpdated
<1>4. CloudType'
  BY <1>2, <1>3 DEF CloudOK, CloudType, States
<1>5. SpentOK' /\ OneKeyPerCode'
  BY <1>2, <1>3 DEF CloudOK, CloudType, SpentOK, OneKeyPerCode
<1>6. EndedHoldsNoKey' /\ ConnectedHasKey'
  BY <1>2 DEF CloudOK, CloudType, EndedHoldsNoKey, ConnectedHasKey
<1>7. Grows
  BY <1>2, <1>3, Lengths DEF Grows, CloudOK
<1> QED BY <1>4, <1>5, <1>6, <1>7 DEF CloudOK

LEMMA ExpiryCloud ==
  ASSUME CloudOK, NEW c \in DOMAIN codes, RequestExpires(c)
  PROVE  CloudOK' /\ CloudType' /\ Grows
<1> DEFINE row == [codes[c] EXCEPT !.expired = TRUE]
<1>1. codes[c] \in Code /\ row \in Code /\ row.spent = codes[c].spent /\ row.tenant = codes[c].tenant
  BY Lengths DEF CloudOK, Code
<1>2. /\ codes' = [codes EXCEPT ![c] = row]
      /\ UNCHANGED <<status, pushUrl, keys, rotating, closed, outrun>>
  BY DEF RequestExpires
<1>3. /\ codes' \in Seq(Code) /\ Len(codes') = Len(codes) /\ DOMAIN codes' = DOMAIN codes
      /\ \A b \in DOMAIN codes : /\ codes[b].spent => codes'[b].spent
                                /\ codes[b].tenant # Absent => codes'[b].tenant = codes[b].tenant
  <2> HIDE DEF row
  <2> QED BY <1>1, <1>2, CodeUpdated
<1> QED BY <1>2, <1>3, Lengths DEF CloudOK, CloudType, SpentOK, OneKeyPerCode, EndedHoldsNoKey, ConnectedHasKey, Grows

(* An exchange spends a code that was not, for the one key it gives. *)
LEMMA SpendCloud ==
  ASSUME CloudOK, NEW c \in DOMAIN codes, NEW t \in Tenants, codes[c].tenant = t,
         ~codes[c].spent,
         codes' = [codes EXCEPT ![c].spent = TRUE],
         keys' = Append(keys, MintedFor(t, c)),
         status' = [status EXCEPT ![t] = "connected"],
         UNCHANGED <<pushUrl, rotating, closed, outrun>>
  PROVE  /\ CloudOK' /\ CloudType' /\ Grows /\ Len(keys') = Len(keys) + 1
         /\ \A k \in DOMAIN keys' \ DOMAIN keys : keys'[k].code = c
<1> DEFINE row == [codes[c] EXCEPT !.spent = TRUE]
<1>0. CloudType /\ Len(codes) \in Nat /\ Len(keys) \in Nat
      /\ DOMAIN codes = 1 .. Len(codes) /\ DOMAIN keys = 1 .. Len(keys) /\ MaxCodes \in Nat
  BY Lengths, BoundAssumption DEF CloudOK
<1>1. codes[c] \in Code /\ row \in Code /\ row.spent /\ row.tenant = t
  BY <1>0, Lengths DEF Code
<1>2. codes' = [codes EXCEPT ![c] = row]
  OBVIOUS
<1>3. /\ codes' \in Seq(Code) /\ Len(codes') = Len(codes) /\ DOMAIN codes' = DOMAIN codes
      /\ \A b \in DOMAIN codes : /\ codes[b].spent => codes'[b].spent
                                /\ codes[b].tenant # Absent => codes'[b].tenant = codes[b].tenant
  <2> HIDE DEF row
  <2> QED BY <1>1, <1>2, CodeUpdated
<1>4. codes'[c].spent
  BY <1>0, <1>1, <1>2
<1>5. MintedFor(t, c) \in Key /\ MintedFor(t, c).code = c /\ MintedFor(t, c).live
      /\ MintedFor(t, c).tenant = t
  BY <1>0 DEF MintedFor, Key, CloudType
<1>6. /\ keys' \in Seq(Key) /\ Len(keys') = Len(keys) + 1 /\ DOMAIN keys' = 1 .. Len(keys) + 1
      /\ \A k \in DOMAIN keys : keys'[k] = keys[k]
      /\ keys'[Len(keys) + 1] = MintedFor(t, c)
  <2> keys \in Seq(Key)
    BY <1>0 DEF CloudType
  <2> QED BY <1>0, <1>5
<1>7. CloudType'
  BY <1>0, <1>3, <1>6 DEF CloudType, States
<1>8. SpentOK'
  BY <1>0, <1>3, <1>4, <1>5, <1>6 DEF CloudOK, SpentOK
<1>9. OneKeyPerCode'
  <2>1. \A k \in DOMAIN keys : keys[k].code # c
    BY <1>0 DEF CloudOK, SpentOK, None
  <2> QED BY <1>0, <2>1, <1>5, <1>6 DEF CloudOK, OneKeyPerCode
<1>10. EndedHoldsNoKey'
  BY <1>0, <1>5, <1>6 DEF CloudOK, CloudType, EndedHoldsNoKey
<1>11. ConnectedHasKey'
  <2>1. ASSUME NEW u \in Tenants, status'[u] = "connected"
        PROVE  \E k \in DOMAIN keys' : keys'[k].tenant = u /\ keys'[k].live
    <3>1. CASE u = t
      <4>1. Len(keys) + 1 \in DOMAIN keys' /\ keys'[Len(keys) + 1].tenant = u
            /\ keys'[Len(keys) + 1].live
        BY <1>0, <1>5, <1>6, <3>1
      <4> QED BY <4>1
    <3>2. CASE u # t
      <4>1. status[u] = "connected"
        BY <2>1, <3>2, <1>0 DEF CloudType
      <4>2. PICK k \in DOMAIN keys : keys[k].tenant = u /\ keys[k].live
        BY <4>1 DEF CloudOK, ConnectedHasKey
      <4> QED BY <4>2, <1>0, <1>6
    <3> QED BY <3>1, <3>2
  <2> QED BY <2>1 DEF ConnectedHasKey
<1>12. Grows
  BY <1>0, <1>3, <1>6 DEF Grows
<1> QED BY <1>0, <1>5, <1>6, <1>7, <1>8, <1>9, <1>10, <1>11, <1>12 DEF CloudOK

(* Retiring credentials takes their life and nothing else of them. *)
LEMMA RetiredKeys ==
  ASSUME CloudType, NEW t \in Tenants
  PROVE  /\ Retired(t) \in Seq(Key) /\ Len(Retired(t)) = Len(keys)
         /\ DOMAIN Retired(t) = DOMAIN keys
         /\ \A k \in DOMAIN keys :
               /\ Retired(t)[k].code = keys[k].code /\ Retired(t)[k].tenant = keys[k].tenant
               /\ Retired(t)[k].live <=> keys[k].live /\ keys[k].tenant # t
<1>1. keys \in Seq(Key) /\ \A k \in DOMAIN keys : keys[k] \in Key
  BY Lengths DEF CloudType
<1>2. DOMAIN Retired(t) = DOMAIN keys
  BY DEF Retired
<1>3. \A k \in DOMAIN keys :
        Retired(t)[k] = IF keys[k].tenant = t THEN [keys[k] EXCEPT !.live = FALSE] ELSE keys[k]
  BY DEF Retired
<1>4. \A k \in DOMAIN keys :
        /\ Retired(t)[k] \in Key
        /\ Retired(t)[k].code = keys[k].code /\ Retired(t)[k].tenant = keys[k].tenant
        /\ Retired(t)[k].live <=> keys[k].live /\ keys[k].tenant # t
  BY <1>1, <1>3 DEF Key
<1>5. Retired(t) \in [DOMAIN keys -> Key]
  BY <1>4 DEF Retired
<1>6. Retired(t) \in Seq(Key) /\ Len(Retired(t)) = Len(keys)
  BY <1>1, <1>5
<1> QED BY <1>2, <1>4, <1>6

LEMMA EndCloud ==
  ASSUME CloudOK, NEW t \in Tenants, EndStore(t)
  PROVE  CloudOK' /\ CloudType' /\ Grows /\ Len(codes') = Len(codes) /\ Len(keys') = Len(keys)
<1>0. CloudType /\ Len(codes) \in Nat /\ Len(keys) \in Nat
      /\ DOMAIN codes = 1 .. Len(codes) /\ DOMAIN keys = 1 .. Len(keys)
      /\ \A c \in DOMAIN codes : codes[c] \in Code
  BY Lengths DEF CloudOK
<1>1. /\ keys' \in Seq(Key) /\ Len(keys') = Len(keys) /\ DOMAIN keys' = DOMAIN keys
      /\ \A k \in DOMAIN keys :
            /\ keys'[k].code = keys[k].code /\ keys'[k].tenant = keys[k].tenant
            /\ keys'[k].live <=> keys[k].live /\ keys[k].tenant # t
  BY <1>0, RetiredKeys DEF EndStore, KeysRevoked
<1>2. \A c \in DOMAIN codes :
        codes'[c] = IF codes[c].tenant = t THEN [codes[c] EXCEPT !.spent = TRUE] ELSE codes[c]
  BY DEF EndStore, CodesSpentOf
<1>3. \A c \in DOMAIN codes :
        /\ codes'[c] \in Code /\ codes'[c].tenant = codes[c].tenant
        /\ codes'[c].spent <=> codes[c].spent \/ codes[c].tenant = t
  BY <1>0, <1>2 DEF Code
<1>4. codes' \in [DOMAIN codes -> Code]
  BY <1>3 DEF EndStore, CodesSpentOf
<1>5. codes' \in Seq(Code) /\ Len(codes') = Len(codes) /\ DOMAIN codes' = DOMAIN codes
  BY <1>0, <1>4
<1>6. /\ status' = [status EXCEPT ![t] = "disconnected"] /\ UNCHANGED <<pushUrl, rotating>>
      /\ closed' = closed \cup {c \in DOMAIN codes : codes[c].tenant = t} /\ outrun' = outrun \ {t}
  BY DEF EndStore
<1>7. CloudType'
  BY <1>0, <1>1, <1>5, <1>6 DEF CloudType, States
<1>8. SpentOK'
  BY <1>0, <1>1, <1>3, <1>5, <1>6 DEF CloudOK, SpentOK, CloudType
<1>9. OneKeyPerCode'
  BY <1>1 DEF CloudOK, OneKeyPerCode
<1>10. EndedHoldsNoKey'
  BY <1>0, <1>1, <1>6 DEF CloudOK, EndedHoldsNoKey, CloudType
<1>11. ConnectedHasKey'
  BY <1>0, <1>1, <1>6 DEF CloudOK, ConnectedHasKey, CloudType
<1>12. Grows
  BY <1>0, <1>1, <1>3, <1>5 DEF Grows
<1> QED BY <1>1, <1>5, <1>7, <1>8, <1>9, <1>10, <1>11, <1>12 DEF CloudOK

(* A rotation may give a store that has left a credential: it is then outrun. *)
LEMMA RotateCloud ==
  ASSUME CloudOK, NEW t \in Tenants, RotateWrite(t)
  PROVE  /\ CloudOK' /\ CloudType' /\ Grows /\ Len(keys') = Len(keys) + 1
         /\ \A k \in DOMAIN keys' \ DOMAIN keys : keys'[k].code = None
<1> DEFINE new == MintedFor(t, None)
<1>0. CloudType /\ Len(codes) \in Nat /\ Len(keys) \in Nat
      /\ DOMAIN codes = 1 .. Len(codes) /\ DOMAIN keys = 1 .. Len(keys) /\ MaxCodes \in Nat
  BY Lengths, BoundAssumption DEF CloudOK
<1>1. new \in Key /\ new.code = None /\ new.live /\ new.tenant = t
  BY <1>0 DEF MintedFor, Key, None
<1>2. /\ keys' = Append(Retired(t), new) /\ rotating' = "none"
      /\ outrun' = (IF status[t] = "disconnected" THEN outrun \cup {t} ELSE outrun)
      /\ UNCHANGED <<codes, status, pushUrl, closed>>
  BY DEF RotateWrite, Rotated
<1>3. /\ keys' \in Seq(Key) /\ Len(keys') = Len(keys) + 1 /\ DOMAIN keys' = 1 .. Len(keys) + 1
      /\ keys'[Len(keys) + 1] = new
      /\ \A k \in DOMAIN keys : keys'[k] = Retired(t)[k]
  <2>1. Retired(t) \in Seq(Key) /\ Len(Retired(t)) = Len(keys)
    BY <1>0, RetiredKeys
  <2> HIDE DEF new
  <2> QED BY <1>0, <1>1, <1>2, <2>1
<1>4. \A k \in DOMAIN keys :
        /\ keys'[k].code = keys[k].code /\ keys'[k].tenant = keys[k].tenant
        /\ keys'[k].live <=> keys[k].live /\ keys[k].tenant # t
  BY <1>0, <1>3, RetiredKeys
<1> HIDE DEF new
<1>5. CloudType'
  BY <1>0, <1>2, <1>3 DEF CloudType
<1>6. SpentOK'
  BY <1>0, <1>1, <1>2, <1>3, <1>4 DEF CloudOK, SpentOK
<1>7. OneKeyPerCode'
  BY <1>0, <1>1, <1>3, <1>4 DEF CloudOK, OneKeyPerCode
<1>8. EndedHoldsNoKey'
  BY <1>0, <1>1, <1>2, <1>3, <1>4 DEF CloudOK, EndedHoldsNoKey
<1>9. ConnectedHasKey'
  <2>1. ASSUME NEW u \in Tenants, status'[u] = "connected"
        PROVE  \E k \in DOMAIN keys' : keys'[k].tenant = u /\ keys'[k].live
    <3>1. CASE u = t
      <4>1. Len(keys) + 1 \in DOMAIN keys'
        BY <1>0, <1>3
      <4> QED BY <1>1, <1>3, <3>1, <4>1
    <3>2. CASE u # t
      <4>1. PICK k \in DOMAIN keys : keys[k].tenant = u /\ keys[k].live
        BY <1>2, <2>1 DEF CloudOK, ConnectedHasKey
      <4> QED BY <4>1, <3>2, <1>0, <1>3, <1>4
    <3> QED BY <3>1, <3>2
  <2> QED BY <2>1 DEF ConnectedHasKey
<1>10. Grows
  BY <1>0, <1>2, <1>3 DEF Grows
<1> QED BY <1>0, <1>1, <1>3, <1>5, <1>6, <1>7, <1>8, <1>9, <1>10 DEF CloudOK
-----------------------------------------------------------------------------
(* What a step has to show: the invariant, that rows grow, and that a new
   credential is not of a code that was closed. *)
CloudKept == CloudOK' /\ CloudType' /\ Grows /\ LeavesClosed
Kept == IInv' /\ Grows /\ LeavesClosed

LEMMA KeysAsLong ==
  ASSUME CloudType, CloudType', Len(keys') = Len(keys)
  PROVE  LeavesClosed
  BY Lengths DEF LeavesClosed, CloudType

LEMMA Quiet ==
  ASSUME IInv, UNCHANGED cloud
  PROVE  CloudKept
<1>1. CloudOK' /\ CloudType' /\ Grows
  BY CloudStays DEF IInv
<1>2. keys' = keys
  BY DEF cloud
<1> QED BY <1>1, <1>2 DEF CloudKept, LeavesClosed

LEMMA PluginStays ==
  ASSUME IInv, CloudKept, UNCHANGED plugin
  PROVE  PluginOK'
<1>1. Len(codes) <= Len(codes') /\ Len(keys) <= Len(keys')
  BY DEF CloudKept, Grows
<1>2. Len(codes) \in Nat /\ Len(keys) \in Nat /\ Len(codes') \in Nat /\ Len(keys') \in Nat
  BY DEF CloudKept, IInv, CloudOK, CloudType
<1> QED BY <1>1, <1>2 DEF IInv, PluginOK, plugin, None

LEMMA Assembled ==
  ASSUME CloudKept, PluginOK', JobsOK', faults' \in 0 .. MaxFaults
  PROVE  Kept
  BY DEF Kept, CloudKept, IInv

LEMMA Counted ==
  ASSUME IInv, \/ faults' = faults
               \/ faults < MaxFaults /\ faults' = faults + 1
  PROVE  faults' \in 0 .. MaxFaults
  BY BoundAssumption DEF IInv

LEMMA Transitions ==
  ASSUME state \in States, NEW before, before \in States, NEW to, to \in States, Transition(before, to)
  PROVE  /\ state' \in {state, to}
         /\ to \in {"connecting", "disconnected"} => state' = to
  BY DEF Transition, AllowedFrom, States

(* A request that ends, or begins, away from the cloud. *)
LEMMA Ends ==
  ASSUME IInv, NEW r \in Requests, UNCHANGED cloud, Done(r), PluginOK',
         faults' \in 0 .. MaxFaults
  PROVE  Kept
<1>1. CloudKept
  BY Quiet
<1>2. JobsOK'
  BY <1>1, JobDone DEF IInv, CloudKept, CloudOK
<1> QED BY <1>1, <1>2, Assembled

LEMMA Begins ==
  ASSUME IInv, NEW r \in Requests, UNCHANGED cloud, NEW j, JobOK(j, codes, Len(keys)),
         jobs' = [jobs EXCEPT ![r] = j], PluginOK', faults' \in 0 .. MaxFaults
  PROVE  Kept
<1>1. CloudKept
  BY Quiet
<1>2. JobOK(j, codes', Len(keys'))
  BY DEF cloud
<1>3. JobsOK'
  BY <1>1, <1>2, JobsStep DEF IInv, CloudKept, CloudOK
<1> QED BY <1>1, <1>3, Assembled

LEMMA GoesOn ==
  ASSUME IInv, NEW r \in Requests, UNCHANGED cloud, NEW pc, Goto(r, pc),
         \/ jobs[r].pc \in Exchanging /\ pc \in Exchanging
         \/ jobs[r].pc \in Arriving /\ pc \in Arriving
         \/ jobs[r].pc \in Leaving /\ pc \in Leaving
         \/ jobs[r].pc \in Beating /\ pc \in Beating,
         PluginOK', faults' \in 0 .. MaxFaults
  PROVE  Kept
<1>1. CloudKept
  BY Quiet
<1>2. JobsOK'
  BY <1>1, JobGoes DEF IInv, CloudKept, CloudOK
<1> QED BY <1>1, <1>2, Assembled

(* What a request knows, by where it is. *)
LEMMA JobKnows ==
  ASSUME IInv, NEW r \in Requests
  PROVE  /\ jobs[r].pc \in Exchanging \cup {"remember"} \cup Arriving => jobs[r].code \in DOMAIN codes
         /\ jobs[r].pc \in Exchanging \cup Arriving => codes[jobs[r].code].tenant \in Tenants
         /\ jobs[r].pc \in Arriving \cup Leaving => jobs[r].key \in DOMAIN keys
         /\ jobs[r].pc \in Beating => jobs[r].key \in 0 .. Len(keys) /\ jobs[r].seen \in States
<1>1. JobOK(jobs[r], codes, Len(keys)) /\ CloudType
  BY DEF IInv, JobsOK, CloudOK
<1>2. DOMAIN codes = 1 .. Len(codes) /\ DOMAIN keys = 1 .. Len(keys)
  BY <1>1, Lengths
<1> QED BY <1>1, <1>2 DEF JobOK, JobType, Exchanging, Arriving, Leaving, Beating, Nobody
-----------------------------------------------------------------------------
LEMMA ConnectingKeeps ==
  ASSUME IInv, NEW r \in Requests, Connecting(r)
  PROVE  Kept
<1>0. /\ CloudOK /\ CloudType /\ PluginOK /\ JobsOK /\ faults \in 0 .. MaxFaults
      /\ Len(codes) \in Nat /\ Len(keys) \in Nat
      /\ DOMAIN codes = 1 .. Len(codes) /\ DOMAIN keys = 1 .. Len(keys)
      /\ \A c \in DOMAIN codes : codes[c] \in Code
  BY Lengths DEF IInv, CloudOK
<1>1. CASE ConnectStart(r)
  <2>1. JobOK([pc |-> "initiate"], codes, Len(keys))
    BY DEF JobOK, JobType, Exchanging, Arriving
  <2>2. PluginOK'
    BY <1>1, PluginStays, Quiet DEF ConnectStart
  <2> QED BY <1>0, <1>1, <2>1, <2>2, Begins DEF ConnectStart, Start
<1>2. CASE InitiateFails(r)
  <2>1. PluginOK'
    BY <1>2, PluginStays, Quiet DEF InitiateFails
  <2> QED BY <1>0, <1>2, <2>1, Ends DEF InitiateFails
<1>3. CASE Initiate(r)
  <2>1. CloudOK' /\ CloudType' /\ Grows /\ Len(codes') = Len(codes) + 1
    BY <1>0, <1>3, InitiateCloud
  <2>2. CloudKept
    BY <1>0, <1>3, <2>1, KeysAsLong DEF CloudKept, Initiate
  <2>3. PluginOK'
    BY <1>3, <2>2, PluginStays DEF Initiate
  <2>4. JobOK([pc |-> "remember", code |-> Len(codes) + 1], codes', Len(keys'))
    BY <1>0, <2>1 DEF JobOK, JobType, Exchanging, Arriving
  <2>5. JobsOK'
    BY <1>0, <1>3, <2>1, <2>4, JobsStep DEF Initiate
  <2> QED BY <1>0, <1>3, <2>2, <2>3, <2>5, Assembled DEF Initiate
<1>4. CASE Remember(r)
  <2>1. state' = "connecting" /\ handshake' \in DOMAIN codes
    BY <1>0, <1>4, JobKnows, Transitions DEF Remember, PluginOK, At, States
  <2>2. PluginOK'
    BY <1>0, <1>4, <2>1 DEF PluginOK, Remember, cloud, States, None
  <2> QED BY <1>0, <1>4, <2>2, Ends DEF Remember
<1>5. CASE ExchangeRead(r)
  <2>1. PluginOK'
    BY <1>5, PluginStays, Quiet DEF ExchangeRead
  <2>2. PICK pc \in {"refused", "spend"} : Goto(r, pc)
    BY <1>5 DEF ExchangeRead
  <2> QED BY <1>0, <1>5, <2>1, <2>2, GoesOn DEF ExchangeRead, At, Exchanging
<1>6. CASE Spend(r)
  <2> DEFINE c == jobs[r].code
             t == codes[c].tenant
             granted == [pc |-> "granted", code |-> c, key |-> Len(keys) + 1]
  <2>0. c \in DOMAIN codes /\ t \in Tenants
    BY <1>6, JobKnows DEF Spend, At, Exchanging
  <2>1. CASE Spendable(c)
    <3>1. /\ codes' = [codes EXCEPT ![c].spent = TRUE] /\ ~codes[c].spent
          /\ keys' = Append(keys, MintedFor(t, c))
          /\ status' = [status EXCEPT ![t] = "connected"]
          /\ jobs' = [jobs EXCEPT ![r] = granted]
          /\ UNCHANGED <<pushUrl, rotating, closed, outrun, plugin, faults>>
      BY <1>6, <2>1 DEF Spend, Spendable
    <3>2. /\ CloudOK' /\ CloudType' /\ Grows /\ Len(keys') = Len(keys) + 1
          /\ \A k \in DOMAIN keys' \ DOMAIN keys : keys'[k].code = c
      <4> HIDE DEF c, t
      <4> QED BY <1>0, <2>0, <3>1, SpendCloud DEF t
    <3>3. c \notin closed
      BY <1>0, <2>0, <3>1 DEF CloudOK, SpentOK
    <3>4. CloudKept
      BY <3>2, <3>3 DEF CloudKept, LeavesClosed
    <3>5. JobOK(granted, codes', Len(keys'))
      <4>1. Len(codes') \in Nat /\ c \in 1 .. Len(codes') /\ Len(keys) + 1 \in 1 .. Len(keys')
        BY <1>0, <2>0, <3>2 DEF Grows, CloudType
      <4>2. codes'[c].tenant \in Tenants
        BY <2>0, <3>2, TenantAssumption DEF Grows
      <4> QED BY <4>1, <4>2 DEF JobOK, JobType, Arriving
    <3>6. JobsOK'
      <4> HIDE DEF granted
      <4> QED BY <1>0, <3>1, <3>2, <3>5, JobsStep
    <3>7. PluginOK'
      BY <3>1, <3>4, PluginStays
    <3> QED BY <1>0, <3>1, <3>4, <3>6, <3>7, Assembled
  <2>2. CASE ~Spendable(c)
    <3>1. UNCHANGED cloud /\ UNCHANGED plugin /\ Goto(r, "refused") /\ UNCHANGED faults
      BY <1>6, <2>2 DEF Spend, cloud
    <3>2. PluginOK'
      BY <3>1, PluginStays, Quiet
    <3> QED BY <1>0, <1>6, <3>1, <3>2, GoesOn DEF Spend, At, Exchanging
  <2> QED BY <2>1, <2>2
<1>7. CASE AnswerLost(r)
  <2>1. jobs[r].code \in DOMAIN codes /\ codes[jobs[r].code].tenant \in Tenants
    BY <1>7, JobKnows DEF AnswerLost, Arriving, Exchanging
  <2>2. JobOK([pc |-> "exchange", code |-> jobs[r].code], codes, Len(keys))
    BY <1>0, <2>1 DEF JobOK, JobType, Exchanging
  <2>3. PluginOK' /\ faults' \in 0 .. MaxFaults
    BY <1>7, PluginStays, Quiet, Counted DEF AnswerLost
  <2> QED BY <1>7, <2>2, <2>3, Begins DEF AnswerLost
<1>8. CASE CallbackRefused(r)
  <2>1. Unauthorized(state) \in States
    BY <1>0 DEF PluginOK, Unauthorized, States
  <2>2. state' = "disconnected"
    BY <1>0, <1>8, <2>1, Transitions DEF CallbackRefused, PluginOK, States
  <2>3. PluginOK'
    BY <1>0, <1>8, <2>2 DEF PluginOK, CallbackRefused, cloud, States, None
  <2> QED BY <1>0, <1>8, <2>3, Ends DEF CallbackRefused
<1>9. CASE CallbackFailed(r)
  <2>1. state' = "disconnected"
    BY <1>0, <1>9, Transitions DEF CallbackFailed, PluginOK, States
  <2>2. PluginOK' /\ faults' \in 0 .. MaxFaults
    BY <1>0, <1>9, <2>1, Counted DEF PluginOK, CallbackFailed, cloud, States, None
  <2> QED BY <1>9, <2>2, Ends DEF CallbackFailed
<1>10. CASE CallbackForget(r)
  <2>1. PluginOK'
    BY <1>0, <1>10 DEF PluginOK, CallbackForget, cloud, None
  <2> QED BY <1>0, <1>10, <2>1, GoesOn DEF CallbackForget, At, Arriving
<1>11. CASE CallbackSave(r)
  <2>1. jobs[r].key \in DOMAIN keys
    BY <1>11, JobKnows DEF CallbackSave, At, Arriving
  <2>2. PluginOK'
    BY <1>0, <1>11, <2>1 DEF PluginOK, CallbackSave, cloud
  <2> QED BY <1>0, <1>11, <2>2, GoesOn DEF CallbackSave, At, Arriving
<1>12. CASE CallbackArrive(r)
  <2>1. state' \in {state, "connected"}
    BY <1>0, <1>12, Transitions DEF CallbackArrive, PluginOK, States
  <2>2. PluginOK'
    BY <1>0, <1>12, <2>1 DEF PluginOK, CallbackArrive, cloud, States
  <2> QED BY <1>0, <1>12, <2>2, Ends DEF CallbackArrive
<1>13. ASSUME NEW c \in DOMAIN codes, CallbackStart(r, c) PROVE Kept
  <2>1. codes[c].tenant \in Tenants
    BY <1>0, <1>13 DEF CallbackStart, Code
  <2>2. JobOK([pc |-> "exchange", code |-> c], codes, Len(keys))
    BY <1>0, <2>1 DEF JobOK, JobType, Exchanging
  <2>3. PluginOK'
    BY <1>13, PluginStays, Quiet DEF CallbackStart
  <2> QED BY <1>0, <1>13, <2>2, <2>3, Begins DEF CallbackStart, Start
<1> QED BY <1>1, <1>2, <1>3, <1>4, <1>5, <1>6, <1>7, <1>8, <1>9, <1>10, <1>11, <1>12, <1>13 DEF Connecting

LEMMA EndingKeeps ==
  ASSUME IInv, NEW t \in Tenants, EndStore(t)
  PROVE  CloudKept
<1>1. CloudOK' /\ CloudType' /\ Grows /\ Len(keys') = Len(keys)
  BY EndCloud DEF IInv
<1> QED BY <1>1, KeysAsLong DEF CloudKept, IInv, CloudOK

LEMMA DisconnectingKeeps ==
  ASSUME IInv, NEW r \in Requests, Disconnecting(r)
  PROVE  Kept
<1>0. /\ CloudOK /\ CloudType /\ PluginOK /\ JobsOK /\ faults \in 0 .. MaxFaults
      /\ Len(codes) \in Nat /\ Len(keys) \in Nat
      /\ DOMAIN codes = 1 .. Len(codes) /\ DOMAIN keys = 1 .. Len(keys)
      /\ \A k \in DOMAIN keys : keys[k] \in Key
  BY Lengths DEF IInv, CloudOK
<1>1. CASE DisconnectStart(r)
  <2>1. JobOK([pc |-> "disconnect", key |-> token], codes, Len(keys))
    BY <1>0, <1>1 DEF DisconnectStart, JobOK, JobType, PluginOK, None, Exchanging, Arriving, Leaving
  <2>2. PluginOK'
    BY <1>1, PluginStays, Quiet DEF DisconnectStart
  <2> QED BY <1>0, <1>1, <2>1, <2>2, Begins DEF DisconnectStart, Start
<1>2. CASE DisconnectTold(r)
  <2>1. jobs[r].key \in DOMAIN keys
    BY <1>2, JobKnows DEF DisconnectTold, At, Leaving
  <2>2. keys[jobs[r].key].tenant \in Tenants
    BY <1>0, <2>1 DEF Key
  <2>3. CloudKept
    BY <1>2, <2>2, EndingKeeps DEF DisconnectTold
  <2>4. JobsOK'
    BY <1>0, <1>2, <2>3, JobGoes DEF DisconnectTold, CloudKept, At, Leaving
  <2>5. PluginOK'
    BY <1>2, <2>3, PluginStays DEF DisconnectTold
  <2> QED BY <1>0, <1>2, <2>3, <2>4, <2>5, Assembled DEF DisconnectTold
<1>3. CASE DisconnectRefused(r)
  <2>1. PluginOK'
    BY <1>0, <1>3 DEF PluginOK, DisconnectRefused, Unauthorized, cloud, States
  <2> QED BY <1>0, <1>3, <2>1, GoesOn DEF DisconnectRefused, At, Leaving
<1>4. CASE DisconnectUnheard(r)
  <2>1. PluginOK' /\ faults' \in 0 .. MaxFaults
    BY <1>4, PluginStays, Quiet, Counted DEF DisconnectUnheard
  <2> QED BY <1>4, <2>1, GoesOn DEF DisconnectUnheard, At, Leaving
<1>5. CASE DisconnectClear(r)
  <2>1. PluginOK'
    BY <1>0, <1>5 DEF PluginOK, DisconnectClear, cloud, None
  <2> QED BY <1>0, <1>5, <2>1, GoesOn DEF DisconnectClear, At, Leaving
<1>6. CASE DisconnectLeave(r)
  <2>1. state' = "disconnected"
    BY <1>0, <1>6, Transitions DEF DisconnectLeave, PluginOK, States
  <2>2. PluginOK'
    BY <1>0, <1>6, <2>1 DEF PluginOK, DisconnectLeave, HandshakeForgotten, cloud, States, None
  <2> QED BY <1>0, <1>6, <2>2, Ends DEF DisconnectLeave
<1> QED BY <1>1, <1>2, <1>3, <1>4, <1>5, <1>6 DEF Disconnecting

LEMMA HeartbeatKeeps ==
  ASSUME IInv, NEW r \in Requests, Heartbeat(r)
  PROVE  Kept
<1>0. PluginOK /\ faults \in 0 .. MaxFaults
  BY DEF IInv
<1>1. CASE HeartbeatStart(r)
  <2>1. JobOK([pc |-> "beat", key |-> token, seen |-> state], codes, Len(keys))
    BY <1>0 DEF JobOK, JobType, PluginOK, Exchanging, Arriving, Beating
  <2>2. PluginOK'
    BY <1>1, PluginStays, Quiet DEF HeartbeatStart
  <2> QED BY <1>0, <1>1, <2>1, <2>2, Begins DEF HeartbeatStart, Start
<1>2. CASE HeartbeatAnswered(r)
  <2>1. PluginOK'
    BY <1>2, PluginStays, Quiet DEF HeartbeatAnswered
  <2>2. CASE Done(r)
    BY <1>0, <1>2, <2>1, <2>2, Ends DEF HeartbeatAnswered
  <2>3. CASE Goto(r, "unauthorized")
    BY <1>0, <1>2, <2>1, <2>3, GoesOn DEF HeartbeatAnswered, At, Beating
  <2> QED BY <1>2, <2>2, <2>3 DEF HeartbeatAnswered
<1>3. CASE HeartbeatRevoked(r)
  <2>1. PluginOK'
    BY <1>0, <1>3 DEF PluginOK, HeartbeatRevoked, cloud, States
  <2> QED BY <1>0, <1>3, <2>1, Ends DEF HeartbeatRevoked
<1> QED BY <1>1, <1>2, <1>3 DEF Heartbeat

(* A step of the cloud, or of a sync, that no request is part of. *)
LEMMA Apart ==
  ASSUME IInv, CloudKept, UNCHANGED jobs, PluginOK', faults' \in 0 .. MaxFaults
  PROVE  Kept
<1>1. JobsOK'
  BY JobsStay DEF IInv, CloudOK, CloudKept
<1> QED BY <1>1, Assembled

LEMMA TenantKeeps ==
  ASSUME IInv, NEW t \in Tenants,
         \/ DashboardDisconnects(t) \/ RotateCheck(t) \/ RotateWrite(t)
         \/ \E c \in DOMAIN codes : Authorize(c, t)
  PROVE  Kept
<1>0. CloudOK /\ CloudType /\ faults \in 0 .. MaxFaults
  BY DEF IInv, CloudOK
<1>1. CASE DashboardDisconnects(t)
  <2>1. CloudKept
    BY <1>1, EndingKeeps DEF DashboardDisconnects
  <2> QED BY <1>0, <1>1, <2>1, PluginStays, Apart DEF DashboardDisconnects
<1>2. CASE RotateCheck(t)
  <2>1. /\ rotating' = t
        /\ UNCHANGED <<codes, status, pushUrl, keys, closed, outrun, plugin, jobs, faults>>
    BY <1>2 DEF RotateCheck
  <2>2. CloudOK' /\ CloudType' /\ Grows
    BY <1>0, <2>1, Lengths DEF CloudOK, CloudType, SpentOK, OneKeyPerCode, EndedHoldsNoKey, ConnectedHasKey, Grows
  <2>3. CloudKept
    BY <2>1, <2>2 DEF CloudKept, LeavesClosed
  <2> QED BY <1>0, <2>1, <2>3, PluginStays, Apart
<1>3. CASE RotateWrite(t)
  <2>1. /\ CloudOK' /\ CloudType' /\ Grows
        /\ \A k \in DOMAIN keys' \ DOMAIN keys : keys'[k].code = None
    BY <1>0, <1>3, RotateCloud
  <2>2. None \notin closed
    BY <1>0, Lengths DEF CloudType, None
  <2>3. CloudKept
    BY <2>1, <2>2 DEF CloudKept, LeavesClosed
  <2> QED BY <1>0, <1>3, <2>3, PluginStays, Apart DEF RotateWrite
<1>4. ASSUME NEW c \in DOMAIN codes, Authorize(c, t) PROVE Kept
  <2>1. CloudOK' /\ CloudType' /\ Grows
    BY <1>0, <1>4, AuthorizeCloud
  <2>2. CloudKept
    BY <1>4, <2>1 DEF CloudKept, LeavesClosed, Authorize
  <2> QED BY <1>0, <1>4, <2>2, PluginStays, Apart DEF Authorize
<1> QED BY <1>1, <1>2, <1>3, <1>4

LEMMA InvStep ==
  ASSUME IInv, [Next]_vars
  PROVE  Kept
<1>0. CloudOK /\ CloudType /\ PluginOK /\ JobsOK /\ faults \in 0 .. MaxFaults
  BY DEF IInv, CloudOK
<1>1. ASSUME NEW r \in Requests, Connecting(r) PROVE Kept
  BY <1>1, ConnectingKeeps
<1>2. ASSUME NEW r \in Requests, Disconnecting(r) PROVE Kept
  BY <1>2, DisconnectingKeeps
<1>3. ASSUME NEW r \in Requests, Heartbeat(r) PROVE Kept
  BY <1>3, HeartbeatKeeps
<1>4. ASSUME NEW r \in Requests, Dies(r) PROVE Kept
  <2>1. PluginOK' /\ faults' \in 0 .. MaxFaults
    BY <1>4, PluginStays, Quiet, Counted DEF Dies
  <2> QED BY <1>4, <2>1, Ends DEF Dies
<1>5. ASSUME NEW t \in Tenants,
             \/ DashboardDisconnects(t) \/ RotateCheck(t) \/ RotateWrite(t)
             \/ \E c \in DOMAIN codes : Authorize(c, t)
      PROVE Kept
  BY <1>5, TenantKeeps
<1>6. ASSUME NEW c \in DOMAIN codes, RequestExpires(c) PROVE Kept
  <2>1. CloudOK' /\ CloudType' /\ Grows
    BY <1>0, <1>6, ExpiryCloud
  <2>2. CloudKept
    BY <1>6, <2>1 DEF CloudKept, LeavesClosed, RequestExpires
  <2> QED BY <1>6, <2>2, PluginStays, Counted, Apart DEF RequestExpires
<1>7. CASE HandshakeExpires
  <2>1. PluginOK' /\ faults' \in 0 .. MaxFaults
    BY <1>0, <1>7, Counted DEF HandshakeExpires, PluginOK, cloud, None
  <2> QED BY <1>7, <2>1, Quiet, Apart DEF HandshakeExpires
<1>8. CASE SyncFails
  <2>1. PluginOK' /\ faults' \in 0 .. MaxFaults
    BY <1>0, <1>8, Counted DEF SyncFails, PluginOK, cloud, States
  <2> QED BY <1>8, <2>1, Quiet, Apart DEF SyncFails
<1>9. CASE SyncRecovers
  <2>1. PluginOK'
    BY <1>0, <1>9 DEF SyncRecovers, PluginOK, cloud, States
  <2> QED BY <1>0, <1>9, <2>1, Quiet, Apart DEF SyncRecovers
<1>10. CASE UNCHANGED vars
  <2>1. UNCHANGED cloud /\ UNCHANGED plugin /\ UNCHANGED jobs /\ UNCHANGED faults
    BY <1>10 DEF vars
  <2> QED BY <1>0, <2>1, PluginStays, Quiet, Apart
<1> QED BY <1>1, <1>2, <1>3, <1>4, <1>5, <1>6, <1>7, <1>8, <1>9, <1>10 DEF Next

LEMMA InvInit == Init => IInv
<1> SUFFICES ASSUME Init PROVE IInv
  OBVIOUS
<1>1. CloudOK
  BY BoundAssumption, TenantAssumption
  DEF Init, CloudOK, CloudType, SpentOK, OneKeyPerCode, EndedHoldsNoKey, ConnectedHasKey, States, Absent
<1>2. PluginOK
  BY DEF Init, PluginOK, States, None
<1>3. JobsOK
  BY NobodyOK DEF Init, JobsOK
<1> QED BY <1>1, <1>2, <1>3, BoundAssumption DEF IInv, Init

(* The strengthening holds in every reachable state of the handshake. *)
THEOREM Invariance == Spec => []IInv
<1>1. IInv /\ [Next]_vars => IInv'
  BY InvStep DEF Kept
<1> QED BY InvInit, <1>1, PTL DEF Spec
-----------------------------------------------------------------------------
(* Every variable of the handshake has its type, of the cloud and of the plugin. *)
THEOREM TypeCorrect == Spec => []TypeOK
<1>1. IInv => TypeOK
  BY DEF IInv, CloudOK, CloudType, PluginOK, TypeOK
<1> QED BY <1>1, Invariance, PTL

(* A code is redeemed for one credential, whatever is lost and sent again and
   however many requests present it (ConnectService.exchange). *)
THEOREM CodesAreRedeemedOnce == Spec => []OneKeyPerCode
<1>1. IInv => OneKeyPerCode
  BY DEF IInv, CloudOK
<1> QED BY <1>1, Invariance, PTL

(* A disconnect leaves no credential that is honoured, but for a rotation that
   had passed its check (StoresService.disconnect, rotate). *)
THEOREM EndedStoresHoldNoKey == Spec => []EndedHoldsNoKey
<1>1. IInv => EndedHoldsNoKey
  BY DEF IInv, CloudOK
<1> QED BY <1>1, Invariance, PTL

(* A connected store has a credential, in whatever order exchanges, rotations
   and disconnects come. *)
THEOREM ConnectedStoresHaveKeys == Spec => []ConnectedHasKey
<1>1. IInv => ConnectedHasKey
  BY DEF IInv, CloudOK
<1> QED BY <1>1, Invariance, PTL

(* A disconnected plugin waits for no code (ConnectionSection, Callback). *)
THEOREM LeavingForgets == Spec => []NoHandshakeAfterLeaving
<1>1. IInv => NoHandshakeAfterLeaving
  BY DEF IInv, PluginOK, NoHandshakeAfterLeaving
<1> QED BY <1>1, Invariance, PTL

(* A request that was approved into a workspace is never approved into another
   (ConnectService.authorize). *)
THEOREM ApprovalsAreFinal == Spec => ApprovedOnce
<1>1. IInv /\ [Next]_vars => [ApprovesOnce]_vars
  BY InvStep DEF Kept, Grows, ApprovesOnce
<1> QED BY <1>1, Invariance, PTL DEF Spec, ApprovedOnce

(* A code that was out when its store disconnected gives no credential, ever. *)
THEOREM ClosedCodesStayClosed == Spec => OldCodeStaysDead
<1>1. IInv /\ [Next]_vars => [LeavesClosed]_vars
  BY InvStep DEF Kept
<1> QED BY <1>1, Invariance, PTL DEF Spec, OldCodeStaysDead
-----------------------------------------------------------------------------
(* The circuit breaker. *)
(* What is stored, and what any request has read and may store again, has a
   stamp that is no later than now, and has one if it is open. *)
CircuitOK(s, now) ==
    /\ s \in [failures : 0 .. MaxCount, openedAt : {0} \cup Cooldown .. now]
    /\ s.failures >= Threshold => s.openedAt # 0

OnTheWire == {"stamp", "call", "count"}

CallOK(call, now) ==
    \/ call = B!Waiting
    \/ call.pc \in OnTheWire /\ call = [pc |-> call.pc, saw |-> call.saw] /\ CircuitOK(call.saw, now)

BreakerInv ==
    /\ raced \in BOOLEAN /\ clock \in Cooldown .. MaxClock
    /\ probes \subseteq Requests \X (Cooldown .. MaxClock)
    /\ DOMAIN calls = Requests /\ calls = [r \in Requests |-> calls[r]]
    /\ CircuitOK(circuit, clock)
    /\ \A r \in Requests : CallOK(calls[r], clock)
-----------------------------------------------------------------------------
LEMMA CircuitGrows ==
  ASSUME NEW s, NEW now \in Nat, NEW later \in Nat, now <= later,
         CircuitOK(s, now)
  PROVE  CircuitOK(s, later)
  BY BreakerAssumption DEF CircuitOK

LEMMA CallGrows ==
  ASSUME NEW c, NEW now \in Nat, NEW later \in Nat, now <= later,
         CallOK(c, now)
  PROVE  CallOK(c, later)
  BY CircuitGrows DEF CallOK

LEMMA ClosedOK == ASSUME NEW now \in Nat PROVE CircuitOK(B!Closed, now)
  BY BreakerAssumption DEF CircuitOK, B!Closed

(* A stamp opens or re-opens a circuit at this moment, ... *)
LEMMA StampedOK ==
  ASSUME BreakerInv, NEW s, CircuitOK(s, clock)
  PROVE  CircuitOK(B!Stamped(s), clock)
  BY BreakerAssumption DEF BreakerInv, CircuitOK, B!Stamped

(* ... and a failure that reaches the threshold does, unless it has a stamp. *)
LEMMA CountedOK ==
  ASSUME BreakerInv, NEW s, CircuitOK(s, clock), s.failures < MaxCount
  PROVE  CircuitOK(B!Counted(s), clock)
  BY BreakerAssumption DEF BreakerInv, CircuitOK, B!Counted

LEMMA BusyCall ==
  ASSUME NEW pc \in OnTheWire, NEW s, NEW now, CircuitOK(s, now)
  PROVE  CallOK([pc |-> pc, saw |-> s], now)
  BY DEF CallOK

LEMMA CallSaw ==
  ASSUME NEW call, NEW now, CallOK(call, now), call.pc \in OnTheWire
  PROVE  CircuitOK(call.saw, now)
  BY DEF CallOK, OnTheWire, B!Waiting

(* A request that steps leaves the others where they were. *)
LEMMA CallStepOK ==
  ASSUME BreakerInv, NEW r \in Requests, NEW call, CallOK(call, clock), B!Step(r, call),
         UNCHANGED clock
  PROVE  /\ raced' \in BOOLEAN /\ DOMAIN calls' = Requests
         /\ calls' = [q \in Requests |-> calls'[q]]
         /\ \A q \in Requests : CallOK(calls'[q], clock')
  BY DEF BreakerInv, B!Step

LEMMA BreakerInit == ASSUME B!Init PROVE BreakerInv
<1>1. clock \in Nat
  BY BreakerAssumption DEF B!Init
<1>2. CircuitOK(circuit, clock)
  BY <1>1, ClosedOK DEF B!Init
<1>3. \A r \in Requests : CallOK(calls[r], clock)
  BY DEF B!Init, CallOK
<1>4. DOMAIN calls = Requests /\ calls = [r \in Requests |-> calls[r]]
  BY DEF B!Init
<1>5. raced = FALSE /\ clock \in Cooldown .. MaxClock /\ probes = {}
  BY BreakerAssumption DEF B!Init
<1> QED BY <1>2, <1>3, <1>4, <1>5 DEF BreakerInv

LEMMA BreakerStep == ASSUME BreakerInv, [B!Next]_B!vars PROVE BreakerInv'
<1>1. clock \in Nat /\ CircuitOK(circuit, clock) /\ \A r \in Requests : CallOK(calls[r], clock)
  BY BreakerAssumption DEF BreakerInv
<1>2. CASE B!Tick
  <2>1. clock' = clock + 1 /\ clock' \in Nat /\ clock' \in Cooldown .. MaxClock
    BY <1>2, BreakerAssumption DEF B!Tick, BreakerInv
  <2>2. CircuitOK(circuit', clock')
    BY <1>1, <1>2, <2>1, CircuitGrows DEF B!Tick
  <2>3. \A r \in Requests : CallOK(calls'[r], clock')
    BY <1>1, <1>2, <2>1, CallGrows DEF B!Tick
  <2> QED BY <1>2, <2>1, <2>2, <2>3 DEF B!Tick, BreakerInv
<1>3. CASE B!DeliberateRetry
  BY <1>1, <1>3, ClosedOK DEF B!DeliberateRetry, BreakerInv
<1>4. ASSUME NEW r \in Requests, B!Ask(r) PROVE BreakerInv'
  <2> DEFINE call == IF circuit.failures < Threshold THEN [pc |-> "call", saw |-> circuit]
                     ELSE IF clock - circuit.openedAt < Cooldown THEN B!Waiting
                     ELSE [pc |-> "stamp", saw |-> circuit]
  <2>1. CallOK(call, clock)
    BY <1>1, BusyCall DEF CallOK, OnTheWire
  <2>2. B!Step(r, call) /\ UNCHANGED <<circuit, clock, probes>>
    BY <1>4 DEF B!Ask
  <2> HIDE DEF call
  <2> QED BY <1>1, <2>1, <2>2, CallStepOK DEF BreakerInv
<1>5. ASSUME NEW r \in Requests, B!Probe(r) PROVE BreakerInv'
  <2>1. CircuitOK(calls[r].saw, clock)
    BY <1>1, <1>5, CallSaw DEF B!Probe, B!Calling, OnTheWire
  <2>2. CircuitOK(B!Stamped(calls[r].saw), clock)
    BY <2>1, StampedOK
  <2>3. CallOK([pc |-> "call", saw |-> B!Stamped(calls[r].saw)], clock)
    BY <2>2, BusyCall DEF OnTheWire
  <2>4. /\ raced' \in BOOLEAN /\ DOMAIN calls' = Requests
        /\ calls' = [q \in Requests |-> calls'[q]]
        /\ \A q \in Requests : CallOK(calls'[q], clock')
    BY <1>5, <2>3, CallStepOK DEF B!Probe
  <2>5. probes' \subseteq Requests \X (Cooldown .. MaxClock)
    BY <1>5 DEF B!Probe, BreakerInv
  <2> QED BY <1>5, <2>2, <2>4, <2>5 DEF B!Probe, BreakerInv
<1>6. ASSUME NEW r \in Requests, B!Fails(r) PROVE BreakerInv'
  <2>1. CallOK([pc |-> "count", saw |-> circuit], clock)
    BY <1>1, BusyCall DEF OnTheWire
  <2> QED BY <1>1, <1>6, <2>1, CallStepOK DEF B!Fails, BreakerInv
<1>7. ASSUME NEW r \in Requests, B!Count(r) PROVE BreakerInv'
  <2>1. CircuitOK(calls[r].saw, clock)
    BY <1>1, <1>7, CallSaw DEF B!Count, B!Calling, OnTheWire
  <2>2. CircuitOK(B!Counted(calls[r].saw), clock)
    BY <1>7, <2>1, CountedOK DEF B!Count
  <2>3. CallOK(B!Waiting, clock)
    BY DEF CallOK
  <2> QED BY <1>7, <2>2, <2>3, CallStepOK DEF B!Count, BreakerInv
<1>8. ASSUME NEW r \in Requests, B!Succeeds(r) PROVE BreakerInv'
  <2>1. CallOK(B!Waiting, clock)
    BY DEF CallOK
  <2>2. CircuitOK(circuit', clock)
    BY <1>1, <1>8, ClosedOK DEF B!Succeeds
  <2>3. probes' \subseteq probes
    BY <1>8 DEF B!Succeeds
  <2> QED BY <1>8, <2>1, <2>2, <2>3, CallStepOK DEF B!Succeeds, BreakerInv
<1>9. CASE UNCHANGED B!vars
  BY <1>9 DEF B!vars, BreakerInv
<1> QED BY <1>2, <1>3, <1>4, <1>5, <1>6, <1>7, <1>8, <1>9 DEF B!Next
-----------------------------------------------------------------------------
(* While requests come one at a time.  A circuit that has been probed is open,
   its stamp is that of the last probe or later, and a request that is about to
   probe it has seen that the cooldown is over. *)
Alone == \A q, r \in Requests : calls[q].pc # "idle" /\ calls[r].pc # "idle" => q = r

ProbesApart == \A p, q \in probes : p # q => p[2] - q[2] \notin 1 - Cooldown .. Cooldown - 1

ProbedBy(s, ps) == ps # {} => s.failures >= Threshold /\ \A p \in ps : p[2] <= s.openedAt

CallReady(call, ps, now) ==
    /\ call.pc = "stamp" => \A p \in ps : now - p[2] >= Cooldown
    /\ call.pc = "stamp" => call.saw.failures >= Threshold
    /\ call.pc = "count" => ProbedBy(call.saw, ps)

AloneInv ==
    ~raced => /\ Alone /\ ProbesApart /\ ProbedBy(circuit, probes)
              /\ \A r \in Requests : CallReady(calls[r], probes, clock)

LEMMA AloneStep ==
  ASSUME BreakerInv, AloneInv, NEW r \in Requests, NEW call, B!Step(r, call), ~raced'
  PROVE  /\ ~raced /\ Alone' /\ calls'[r] = call
         /\ \A q \in Requests \ {r} : calls'[q] = calls[q] /\ calls[q].pc = "idle"
  BY DEF BreakerInv, AloneInv, Alone, B!Step, B!Calling

LEMMA AloneInit == ASSUME B!Init PROVE AloneInv
  BY DEF B!Init, AloneInv, Alone, ProbesApart, ProbedBy, CallReady, B!Waiting

LEMMA AloneNext ==
  ASSUME BreakerInv, BreakerInv', AloneInv, [B!Next]_B!vars
  PROVE  AloneInv'
<1> SUFFICES ASSUME ~raced' PROVE Alone' /\ ProbesApart' /\ ProbedBy(circuit', probes')
                                  /\ \A r \in Requests : CallReady(calls'[r], probes', clock')
  BY DEF AloneInv
<1>0. /\ clock \in Nat /\ Cooldown \in Nat \ {0} /\ Threshold \in Nat \ {0}
      /\ CircuitOK(circuit, clock) /\ \A p \in probes : p[2] \in Nat
  BY BreakerAssumption DEF BreakerInv
<1>1. CASE B!Tick
  BY <1>0, <1>1 DEF B!Tick, AloneInv, Alone, ProbesApart, ProbedBy, CallReady
<1>2. CASE B!DeliberateRetry
  BY <1>0, <1>2 DEF B!DeliberateRetry, AloneInv, Alone, ProbesApart, ProbedBy, CallReady, BreakerInv, CallOK, CircuitOK
<1>3. ASSUME NEW r \in Requests, NEW call, B!Step(r, call),
             ProbesApart', ProbedBy(circuit', probes'), CallReady(call, probes', clock'), ~B!Calling(r, "idle") \/ probes' = probes
      PROVE  Alone' /\ ProbesApart' /\ ProbedBy(circuit', probes') /\ \A q \in Requests : CallReady(calls'[q], probes', clock')
  <2>1. /\ calls'[r] = call
        /\ \A q \in Requests \ {r} : calls'[q] = calls[q] /\ calls[q].pc = "idle"
        /\ Alone'
    BY <1>3, AloneStep
  <2>2. \A q \in Requests \ {r} : CallReady(calls'[q], probes', clock')
    BY <2>1 DEF CallReady
  <2>3. CallReady(calls'[r], probes', clock')
    BY <1>3, <2>1 DEF CallReady
  <2> QED BY <1>3, <2>1, <2>2, <2>3
<1>4. ASSUME NEW r \in Requests, B!Ask(r)
      PROVE  Alone' /\ ProbesApart' /\ ProbedBy(circuit', probes') /\ \A q \in Requests : CallReady(calls'[q], probes', clock')
  <2> DEFINE call == IF circuit.failures < Threshold THEN [pc |-> "call", saw |-> circuit]
                     ELSE IF clock - circuit.openedAt < Cooldown THEN B!Waiting
                     ELSE [pc |-> "stamp", saw |-> circuit]
  <2>1. B!Step(r, call) /\ UNCHANGED <<circuit, clock, probes>>
    BY <1>4 DEF B!Ask
  <2>2. ProbesApart /\ ProbedBy(circuit, probes)
    BY <2>1, AloneStep DEF AloneInv
  <2>3. ProbesApart' /\ ProbedBy(circuit', probes')
    BY <2>1, <2>2 DEF ProbesApart, ProbedBy
  <2>4. CallReady(call, probes', clock')
    BY <1>0, <2>1, <2>2 DEF CallReady, ProbedBy, B!Waiting, CircuitOK
  <2> HIDE DEF call
  <2> QED BY <1>3, <2>1, <2>3, <2>4
<1>5. ASSUME NEW r \in Requests, B!Probe(r)
      PROVE  Alone' /\ ProbesApart' /\ ProbedBy(circuit', probes') /\ \A q \in Requests : CallReady(calls'[q], probes', clock')
  <2> DEFINE call == [pc |-> "call", saw |-> B!Stamped(calls[r].saw)]
  <2>1. B!Step(r, call) /\ clock' = clock /\ circuit' = B!Stamped(calls[r].saw)
        /\ probes' = probes \cup {<<r, clock>>} /\ calls[r].pc = "stamp"
    BY <1>5 DEF B!Probe, B!Calling
  <2>2. AloneInv /\ ~raced
    BY <2>1, AloneStep
  <2>3. ProbesApart /\ CallReady(calls[r], probes, clock)
    BY <2>2 DEF AloneInv
  <2>4. /\ \A p \in probes : clock - p[2] >= Cooldown
        /\ calls[r].saw.failures >= Threshold
    BY <2>1, <2>3 DEF CallReady
  <2>5. ProbesApart'
    BY <1>0, <2>1, <2>3, <2>4 DEF ProbesApart
  <2>6. CircuitOK(calls[r].saw, clock)
    BY <2>1, CallSaw DEF BreakerInv, OnTheWire
  <2>7. circuit'.failures >= Threshold /\ circuit'.openedAt = clock
    BY <2>1, <2>4, <2>6 DEF B!Stamped, CircuitOK
  <2>8. ProbedBy(circuit', probes')
    BY <1>0, <2>1, <2>4, <2>7 DEF ProbedBy
  <2>9. CallReady(call, probes', clock')
    BY DEF CallReady
  <2> HIDE DEF call
  <2> QED BY <1>3, <2>1, <2>5, <2>8, <2>9 DEF B!Calling
<1>6. ASSUME NEW r \in Requests, B!Fails(r)
      PROVE  Alone' /\ ProbesApart' /\ ProbedBy(circuit', probes') /\ \A q \in Requests : CallReady(calls'[q], probes', clock')
  <2>1. B!Step(r, [pc |-> "count", saw |-> circuit]) /\ UNCHANGED <<circuit, clock, probes>>
    BY <1>6 DEF B!Fails
  <2>2. ProbesApart /\ ProbedBy(circuit, probes)
    BY <2>1, AloneStep DEF AloneInv
  <2>3. ProbesApart' /\ ProbedBy(circuit', probes') /\ CallReady([pc |-> "count", saw |-> circuit], probes', clock')
    BY <2>1, <2>2 DEF ProbesApart, ProbedBy, CallReady
  <2> QED BY <1>3, <2>1, <2>3
<1>7. ASSUME NEW r \in Requests, B!Count(r)
      PROVE  Alone' /\ ProbesApart' /\ ProbedBy(circuit', probes') /\ \A q \in Requests : CallReady(calls'[q], probes', clock')
  <2>1. B!Step(r, B!Waiting) /\ UNCHANGED <<clock, probes>> /\ calls[r].pc = "count"
        /\ circuit' = B!Counted(calls[r].saw)
    BY <1>7 DEF B!Count, B!Calling
  <2>2. ProbesApart /\ CallReady(calls[r], probes, clock)
    BY <2>1, AloneStep DEF AloneInv
  <2>3. CircuitOK(calls[r].saw, clock)
    BY <2>1, CallSaw DEF BreakerInv, OnTheWire
  <2>4. ProbedBy(calls[r].saw, probes)
    BY <2>1, <2>2 DEF CallReady
  <2>5. ProbedBy(circuit', probes')
    BY <1>0, <2>1, <2>3, <2>4 DEF ProbedBy, B!Counted, CircuitOK
  <2>6. ProbesApart' /\ CallReady(B!Waiting, probes', clock')
    BY <2>1, <2>2 DEF ProbesApart, CallReady, B!Waiting
  <2> QED BY <1>3, <2>1, <2>5, <2>6
<1>8. ASSUME NEW r \in Requests, B!Succeeds(r)
      PROVE  Alone' /\ ProbesApart' /\ ProbedBy(circuit', probes') /\ \A q \in Requests : CallReady(calls'[q], probes', clock')
  <2>1. B!Step(r, B!Waiting) /\ calls[r].pc = "call" /\ UNCHANGED clock
        /\ \/ UNCHANGED <<circuit, probes>>
           \/ circuit' = B!Closed /\ probes' = {}
    BY <1>8 DEF B!Succeeds, B!Calling
  <2>2. ProbesApart /\ ProbedBy(circuit, probes)
    BY <2>1, AloneStep DEF AloneInv
  <2>3. ProbesApart' /\ ProbedBy(circuit', probes') /\ CallReady(B!Waiting, probes', clock')
    BY <2>1, <2>2 DEF ProbesApart, ProbedBy, CallReady, B!Waiting
  <2> QED BY <1>3, <2>1, <2>3 DEF B!Calling
<1>9. CASE UNCHANGED B!vars
  BY <1>9 DEF B!vars, AloneInv, Alone, ProbesApart, ProbedBy, CallReady
<1> QED BY <1>1, <1>2, <1>4, <1>5, <1>6, <1>7, <1>8, <1>9 DEF B!Next
-----------------------------------------------------------------------------
(* Of the breaker alone: every reachable state is well typed. *)
THEOREM CircuitIsTyped == B!Spec => []B!TypeOK
<1>1. BreakerInv => B!TypeOK
  BY BreakerAssumption DEF BreakerInv, B!TypeOK, CircuitOK
<1> QED BY <1>1, BreakerInit, BreakerStep, PTL DEF B!Spec

(* An open circuit knows when it opened, and the stamp is not in the future:
   however requests count, stamp and close at once, its cooldown ends
   (CircuitBreaker.php). *)
THEOREM OpenIsAlwaysTimed == B!Spec => []B!OpenIsTimed
<1>1. BreakerInv => B!OpenIsTimed
  BY BreakerAssumption DEF BreakerInv, B!OpenIsTimed, CircuitOK
<1> QED BY <1>1, BreakerInit, BreakerStep, PTL DEF B!Spec

(* As long as no two requests have been under way at once, two probes of an open
   circuit are a cooldown apart (allows_request). *)
THEOREM ProbesAreApart == B!Spec => []B!OneProbeEach
<1>1. AloneInv => B!OneProbeEach
  BY DEF AloneInv, B!OneProbeEach, ProbesApart
<1> QED BY <1>1, BreakerInit, BreakerStep, AloneInit, AloneNext, PTL DEF B!Spec

(* The reports of orders. *)
(* The lists of this part are gone through as any other. *)
LEMMA QueueOnly ==
  ASSUME NEW S, NEW s \in Seq(S), NEW keep
  PROVE  /\ O!Only(s, keep) \in Seq(S) /\ Len(O!Only(s, keep)) <= Len(s)
         /\ O!ToSet(O!Only(s, keep)) = O!ToSet(s) \cap keep
<1>1. O!Only(s, keep) = Only(s, keep)
  BY Zenon DEF O!Only, Only
<1> QED BY <1>1, OnlyFacts DEF O!ToSet, ToSet

LEMMA QueueAppend ==
  ASSUME NEW S, NEW q \in Seq(S), NEW e \in S
  PROVE  O!ToSet(Append(q, e)) = O!ToSet(q) \cup {e}
  BY ToSetAppend DEF O!ToSet, ToSet

Report == [selections : Nat, revenue : Int]

LEMMA AddingALine ==
  ASSUME NEW report \in Report, NEW line \in O!Line
  PROVE  /\ O!AddLine(report, line) \in Report /\ O!DeltaOf(line) \in Int
         /\ O!AddLine(report, line).revenue = report.revenue + O!DeltaOf(line)
<1>1. O!DeltaOf(line) \in Int
  BY DEF O!DeltaOf, O!Line
<1>2. report.selections \in Nat /\ report.revenue \in Int /\ line.picks \in Nat /\ MaxSelections \in Nat
  BY ReportsAssumption DEF Report, O!Line
<1>3. O!AddLine(report, line) \in Report
  BY <1>1, <1>2 DEF O!AddLine, Report
<1> QED BY <1>1, <1>3 DEF O!AddLine

(* The revenue of a report is that of every line, whatever part of the
   selections fits in it. *)
LEMMA PayloadFacts ==
  ASSUME NEW o \in Orders
  PROVE  O!Payload(o) \in Report /\ O!Payload(o).revenue = O!Earned(o)
<1> DEFINE n == Len(Lines[o])
           base == [selections |-> 0, revenue |-> 0]
           step == [i \in 1 .. n |-> [report \in Report |-> O!AddLine(report, Lines[o][i])]]
           sums == [i \in 1 .. n |-> [sum \in Int |-> sum + O!DeltaOf(Lines[o][i])]]
<1>1. n \in Nat /\ base \in Report /\ 0 \in Int /\ \A i \in 1 .. n : Lines[o][i] \in O!Line
  BY ReportsAssumption DEF Report
<1>2. step \in [1 .. n -> [Report -> Report]] /\ sums \in [1 .. n -> [Int -> Int]]
  <2>1. \A i \in 1 .. n : \A report \in Report : O!AddLine(report, Lines[o][i]) \in Report
    BY <1>1, AddingALine
  <2>2. \A i \in 1 .. n : O!DeltaOf(Lines[o][i]) \in Int
    BY <1>1, AddingALine
  <2> HIDE DEF n
  <2> QED BY <2>1, <2>2
<1>3. /\ \A i \in 1 .. n : \A report \in Report : step[i][report] = O!AddLine(report, Lines[o][i])
      /\ \A i \in 1 .. n : \A sum \in Int : sums[i][sum] = sum + O!DeltaOf(Lines[o][i])
  OBVIOUS
<1> HIDE DEF step, sums, base
<1>4. PICK f : Solves(f, n, Report, base, step)
  <2> HIDE DEF n
  <2> QED BY <1>1, <1>2, Recursion
<1>5. PICK g : Solves(g, n, Int, 0, sums)
  <2> HIDE DEF n
  <2> QED BY <1>1, <1>2, Recursion
<1>6. /\ f = [i \in 0 .. n |-> IF i = 0 THEN base ELSE O!AddLine(f[i - 1], Lines[o][i])]
      /\ g = [i \in 0 .. n |-> IF i = 0 THEN 0 ELSE g[i - 1] + O!DeltaOf(Lines[o][i])]
  <2> HIDE DEF n
  <2>1. /\ f \in [0 .. n -> Report] /\ f[0] = base
        /\ \A i \in 1 .. n : f[i - 1] \in Report /\ f[i] = step[i][f[i - 1]]
    BY <1>1, <1>4 DEF Solves
  <2>2. /\ g \in [0 .. n -> Int] /\ g[0] = 0
        /\ \A i \in 1 .. n : g[i - 1] \in Int /\ g[i] = sums[i][g[i - 1]]
    BY <1>1, <1>5 DEF Solves
  <2>3. \A i \in 1 .. n : f[i] = O!AddLine(f[i - 1], Lines[o][i])
    BY <1>3, <2>1
  <2>4. \A i \in 1 .. n : g[i] = g[i - 1] + O!DeltaOf(Lines[o][i])
    BY <1>3, <2>2
  <2> QED BY <1>1, <2>1, <2>2, <2>3, <2>4
<1> DEFINE fold[i \in 0 .. n] == IF i = 0 THEN base ELSE O!AddLine(fold[i - 1], Lines[o][i])
           earned[i \in 0 .. n] == IF i = 0 THEN 0 ELSE earned[i - 1] + O!DeltaOf(Lines[o][i])
<1>7. fold = [i \in 0 .. n |-> IF i = 0 THEN base ELSE O!AddLine(fold[i - 1], Lines[o][i])]
  BY <1>6, Zenon
<1>8. earned = [i \in 0 .. n |-> IF i = 0 THEN 0 ELSE earned[i - 1] + O!DeltaOf(Lines[o][i])]
  BY <1>6, Zenon
<1>9. O!Payload(o) = fold[n] /\ O!Earned(o) = earned[n]
  BY Zenon DEF O!Payload, O!Folded, O!Earned, base
<1> HIDE DEF fold, earned, n
<1> DEFINE T == {k \in Nat : k <= n => /\ fold[k] \in Report /\ earned[k] \in Int
                                       /\ fold[k].revenue = earned[k]}
<1>10. 0 \in T
  <2>1. fold[0] = base /\ earned[0] = 0
    BY <1>1, <1>7, <1>8
  <2> QED BY <1>1, <2>1 DEF base
<1>11. ASSUME NEW k \in Nat, k \in T PROVE k + 1 \in T
  <2> SUFFICES ASSUME k + 1 <= n
               PROVE /\ fold[k + 1] \in Report /\ earned[k + 1] \in Int
                     /\ fold[k + 1].revenue = earned[k + 1]
    OBVIOUS
  <2>1. /\ k + 1 \in 1 .. n /\ fold[k] \in Report /\ earned[k] \in Int
        /\ fold[k].revenue = earned[k] /\ Lines[o][k + 1] \in O!Line
    BY <1>1, <1>11
  <2>2. /\ fold[k + 1] = O!AddLine(fold[k], Lines[o][k + 1])
        /\ earned[k + 1] = earned[k] + O!DeltaOf(Lines[o][k + 1])
    BY <1>1, <1>7, <1>8, <2>1
  <2> QED BY <2>1, <2>2, AddingALine
<1>12. n \in T
  <2> HIDE DEF T
  <2> QED BY <1>1, <1>10, <1>11, Induction
<1> QED BY <1>9, <1>12
-----------------------------------------------------------------------------
(* Of every order that was paid for, the cloud knows, or the queue, or it has been
   given up: nothing leaves this set. *)
Settled == marked \cup refused
Known == Settled \cup gone \cup O!ToSet(queue)
Recorded == {o \in Orders : events[o] # O!NoEvent}

Draining == {"report", "mark", "forget"}

PostType(orders) ==
    {O!Idle} \cup [pc : {"push"}, order : orders, seen : Seq(orders)]
    \cup [pc : Draining, seen : Seq(orders), batch : Seq(orders)]

(* What a request has read is of orders that are still known of.  One that is
   about to mark an order had it recorded, and one about to forget it knows that
   it is marked or refused. *)
PostOK(j, orders, known, recorded, settled) ==
    /\ j \in PostType(orders)
    /\ j.pc # "idle" => Len(j.seen) <= MaxReports /\ O!ToSet(j.seen) \subseteq known
    /\ j.pc \in Draining => j.batch # <<>>
    /\ j.pc = "mark" => Head(j.batch) \in recorded
    /\ j.pc = "forget" => Head(j.batch) \in settled

PostsOK ==
    /\ posts = [r \in Requests |-> posts[r]]
    /\ \A r \in Requests : PostOK(posts[r], paid, Known, Recorded, Settled)

TablesOK ==
    /\ paid \subseteq Orders /\ marked \subseteq paid /\ refused \subseteq paid /\ gone \subseteq paid
    /\ queue \in Seq(paid) /\ Len(queue) <= MaxReports
    /\ moved \in BOOLEAN /\ troubles \in 0 .. ReportTroubles

EventsOK ==
    /\ events = [o \in Orders |-> events[o]]
    /\ \A o \in Orders : events[o] \in {O!NoEvent, O!Payload(o)}
    /\ marked \subseteq Recorded

ReportsInv == TablesOK /\ EventsOK /\ PostsOK /\ O!PaidIsAccountedFor

(* What every step leaves: nothing known of is lost, nothing settled reopened. *)
ReportsGrow ==
    /\ paid \subseteq paid' /\ Known \subseteq Known'
    /\ Recorded \subseteq Recorded' /\ Settled \subseteq Settled'

LEMMA PostGrows ==
  ASSUME NEW j, NEW orders, NEW known, NEW recorded, NEW settled,
         NEW orders2, NEW known2, NEW recorded2, NEW settled2,
         orders \subseteq orders2, known \subseteq known2,
         recorded \subseteq recorded2, settled \subseteq settled2,
         PostOK(j, orders, known, recorded, settled)
  PROVE  PostOK(j, orders2, known2, recorded2, settled2)
<1>1. j \in PostType(orders2)
  <2>1. Seq(orders) \subseteq Seq(orders2)
    OBVIOUS
  <2> QED BY <2>1 DEF PostOK, PostType
<1> QED BY <1>1 DEF PostOK

(* A request moves on, and the others are as right as they were. *)
LEMMA PostsStep ==
  ASSUME PostsOK, ReportsGrow, NEW r \in Requests, NEW j, O!Become(r, j),
         PostOK(j, paid', Known', Recorded', Settled')
  PROVE  PostsOK'
<1>1. \A q \in Requests : posts'[q] = IF q = r THEN j ELSE posts[q]
  BY DEF PostsOK, O!Become
<1>2. \A q \in Requests : PostOK(posts[q], paid', Known', Recorded', Settled')
  BY PostGrows DEF PostsOK, ReportsGrow
<1>3. posts' = [q \in Requests |-> posts'[q]]
  BY DEF PostsOK, O!Become
<1> QED BY <1>1, <1>2, <1>3 DEF PostsOK

LEMMA PostsStay ==
  ASSUME PostsOK, ReportsGrow, posts' = posts
  PROVE  PostsOK'
<1>1. \A q \in Requests : PostOK(posts[q], paid', Known', Recorded', Settled')
  BY PostGrows DEF PostsOK, ReportsGrow
<1> QED BY <1>1 DEF PostsOK

LEMMA IdlePostOK == ASSUME NEW a, NEW b, NEW c, NEW d PROVE PostOK(O!Idle, a, b, c, d)
  BY DEF PostOK, PostType, O!Idle, Draining

(* No order is forgotten by a request that ends what it was doing with it. *)
LEMMA AccountKept ==
  ASSUME PostsOK, O!PaidIsAccountedFor, ReportsGrow, paid' = paid, NEW r \in Requests, NEW j, O!Become(r, j),
         posts[r].pc = "push" => posts[r].order \in Known'
  PROVE  O!PaidIsAccountedFor'
<1> SUFFICES ASSUME NEW o \in paid, o \notin Known'
             PROVE  \E q \in Requests : posts'[q].pc = "push" /\ posts'[q].order = o
  BY DEF O!PaidIsAccountedFor, Known, Settled, O!Doing
<1>1. PICK q \in Requests : posts[q].pc = "push" /\ posts[q].order = o
  BY DEF O!PaidIsAccountedFor, Known, Settled, O!Doing, ReportsGrow
<1>2. q # r
  BY <1>1
<1>3. posts'[q] = posts[q]
  BY <1>2 DEF O!Become, PostsOK
<1> QED BY <1>1, <1>3

LEMMA AccountStays ==
  ASSUME O!PaidIsAccountedFor, ReportsGrow, paid' = paid, posts' = posts
  PROVE  O!PaidIsAccountedFor'
  BY DEF O!PaidIsAccountedFor, Known, Settled, O!Doing, ReportsGrow

(* The steps of a request, by what they know of its job. *)
LEMMA PushKnows ==
  ASSUME PostsOK, NEW r \in Requests, O!Doing(r, "push")
  PROVE  /\ posts[r] \in [pc : {"push"}, order : paid, seen : Seq(paid)]
         /\ Len(posts[r].seen) <= MaxReports /\ O!ToSet(posts[r].seen) \subseteq Known
<1>1. PostOK(posts[r], paid, Known, Recorded, Settled) /\ posts[r].pc = "push"
  BY DEF PostsOK, O!Doing
<1> QED BY <1>1 DEF PostOK, PostType, O!Idle, Draining

LEMMA DrainKnows ==
  ASSUME PostsOK, NEW r \in Requests, posts[r].pc \in Draining
  PROVE  /\ posts[r] \in [pc : Draining, seen : Seq(paid), batch : Seq(paid)]
         /\ posts[r].batch # <<>> /\ Head(posts[r].batch) \in paid
         /\ Len(posts[r].seen) <= MaxReports /\ O!ToSet(posts[r].seen) \subseteq Known
         /\ posts[r].pc = "mark" => Head(posts[r].batch) \in Recorded
         /\ posts[r].pc = "forget" => Head(posts[r].batch) \in Settled
<1>1. PostOK(posts[r], paid, Known, Recorded, Settled)
  BY DEF PostsOK
<1>2. posts[r] \in [pc : Draining, seen : Seq(paid), batch : Seq(paid)]
  BY <1>1 DEF PostOK, PostType, O!Idle, Draining
<1> QED BY <1>1, <1>2 DEF PostOK, Draining
-----------------------------------------------------------------------------
(* The queue as it is written: what is shed by the cap is the oldest, and the
   newest entry stays. *)
LEMMA CappedFacts ==
  ASSUME NEW S, NEW q \in Seq(S), NEW e \in S, NEW next, next = O!Capped(Append(q, e)),
         Len(q) <= MaxReports
  PROVE  /\ next \in Seq(S) /\ Len(next) <= MaxReports
         /\ e \in O!ToSet(next) /\ O!ToSet(next) \subseteq O!ToSet(q) \cup {e}
<1> DEFINE all == Append(q, e)
           from == Len(all) - MaxReports + 1
<1>1. /\ all \in Seq(S) /\ Len(all) = Len(q) + 1 /\ all[Len(all)] = e
      /\ Len(q) \in Nat /\ MaxReports \in Nat \ {0}
  BY ReportsAssumption
<1>2. O!ToSet(all) = O!ToSet(q) \cup {e} /\ DOMAIN all = 1 .. Len(all)
  BY <1>1, QueueAppend
<1> HIDE DEF all
<1>3. CASE Len(all) > MaxReports
  <2>0. next = SubSeq(all, from, Len(all))
    BY <1>3 DEF O!Capped, all
  <2>1. from \in 1 .. Len(all) + 1 /\ Len(all) \in from - 1 .. Len(all)
    BY <1>1, <1>3
  <2>2. /\ next \in Seq(S) /\ Len(next) = Len(all) - from + 1
        /\ \A k \in 1 .. Len(all) - from + 1 : next[k] = all[from + k - 1]
    <3> HIDE DEF from
    <3> QED BY <1>1, <2>0, <2>1, PartOf
  <2>3. /\ Len(next) = MaxReports /\ DOMAIN next = 1 .. MaxReports
        /\ \A k \in 1 .. MaxReports : next[k] = all[Len(all) - MaxReports + k]
    BY <1>1, <1>3, <2>2
  <2>4. next[MaxReports] = e /\ MaxReports \in DOMAIN next
    BY <1>1, <2>3
  <2>5. ASSUME NEW k \in DOMAIN next PROVE next[k] \in O!ToSet(all)
    <3>1. Len(all) - MaxReports + k \in DOMAIN all
      BY <1>1, <1>2, <1>3, <2>3
    <3> QED BY <2>3, <3>1 DEF O!ToSet
  <2>6. e \in O!ToSet(next) /\ O!ToSet(next) \subseteq O!ToSet(all)
    BY <2>4, <2>5 DEF O!ToSet
  <2>7. Len(next) <= MaxReports
    BY <1>1, <2>3
  <2> QED BY <1>2, <2>2, <2>6, <2>7
<1>4. CASE ~(Len(all) > MaxReports)
  <2>1. next = all
    BY <1>4 DEF O!Capped, all
  <2> QED BY <1>1, <1>2, <1>4, <2>1
<1> QED BY <1>1, <1>3, <1>4

LEMMA EventsStay ==
  ASSUME EventsOK, UNCHANGED events, marked' \subseteq Recorded
  PROVE  EventsOK' /\ Recorded' = Recorded
  BY DEF EventsOK, Recorded

LEMMA EventRecorded ==
  ASSUME EventsOK, NEW o \in Orders, O!Record(o), UNCHANGED marked
  PROVE  EventsOK' /\ Recorded \subseteq Recorded' /\ o \in Recorded'
<1>1. /\ \A p \in Orders : events'[p] = IF p = o THEN O!Payload(o) ELSE events[p]
      /\ events' = [p \in Orders |-> events'[p]]
  BY DEF EventsOK, O!Record, O!Replaced
<1>2. O!Payload(o) # O!NoEvent
  BY PayloadFacts DEF Report, O!NoEvent
<1> QED BY <1>1, <1>2 DEF EventsOK, Recorded

LEMMA StatusKeeps ==
  ASSUME ReportsInv, NEW r \in Requests, NEW o \in Orders, O!StatusChanges(r, o)
  PROVE  ReportsInv'
<1> DEFINE job == IF o \in marked THEN O!Idle ELSE [pc |-> "push", order |-> o, seen |-> queue]
<1>1. /\ paid' = paid \cup {o} /\ O!Become(r, job) /\ posts[r].pc = "idle"
      /\ UNCHANGED <<marked, queue, moved, events, troubles, refused, gone>>
  BY DEF O!StatusChanges, O!Doing
<1>2. ReportsGrow /\ Known' = Known
  BY <1>1 DEF ReportsGrow, Known, Settled, Recorded
<1>3. TablesOK' /\ EventsOK'
  BY <1>1 DEF ReportsInv, TablesOK, EventsOK, Recorded
<1>4. PostOK(job, paid', Known', Recorded', Settled')
  <2>1. CASE o \in marked
    BY <2>1, IdlePostOK
  <2>2. CASE o \notin marked
    <3>1. queue \in Seq(paid') /\ Len(queue) <= MaxReports /\ O!ToSet(queue) \subseteq Known' /\ o \in paid'
      BY <1>1, <1>2 DEF ReportsInv, TablesOK, Known
    <3> QED BY <2>2, <3>1 DEF PostOK, PostType, Draining
  <2> QED BY <2>1, <2>2
<1>5. PostsOK'
  <2> HIDE DEF job
  <2> QED BY <1>1, <1>2, <1>4, PostsStep DEF ReportsInv
<1>6. O!PaidIsAccountedFor'
  <2> SUFFICES ASSUME NEW p \in paid', p \notin Known'
               PROVE  \E q \in Requests : posts'[q].pc = "push" /\ posts'[q].order = p
    BY DEF O!PaidIsAccountedFor, Known, Settled, O!Doing
  <2>1. CASE p = o
    <3>1. posts'[r] = job /\ o \notin marked
      BY <1>1, <1>2, <2>1 DEF O!Become, ReportsInv, PostsOK, Known, Settled
    <3> QED BY <2>1, <3>1
  <2>2. CASE p # o
    <3>1. PICK q \in Requests : posts[q].pc = "push" /\ posts[q].order = p
      BY <1>1, <1>2, <2>2 DEF ReportsInv, O!PaidIsAccountedFor, Known, Settled, O!Doing
    <3>2. q # r /\ posts'[q] = posts[q]
      BY <1>1, <3>1 DEF O!Become, ReportsInv, PostsOK
    <3> QED BY <3>1, <3>2
  <2> QED BY <2>1, <2>2
<1> QED BY <1>3, <1>5, <1>6 DEF ReportsInv

LEMMA PushKeeps ==
  ASSUME ReportsInv, NEW r \in Requests, O!Push(r)
  PROVE  ReportsInv'
<1> DEFINE o == posts[r].order
           held == posts[r].seen
           next == O!Capped(Append(held, o))
<1>1. /\ posts[r] \in [pc : {"push"}, order : paid, seen : Seq(paid)]
      /\ o \in paid /\ held \in Seq(paid) /\ Len(held) <= MaxReports /\ O!ToSet(held) \subseteq Known
      /\ O!Become(r, O!Idle) /\ UNCHANGED <<paid, marked, moved, events, troubles, refused>>
  BY PushKnows DEF O!Push, ReportsInv
<1>2. /\ next \in Seq(paid) /\ Len(next) <= MaxReports
      /\ o \in O!ToSet(next) /\ O!ToSet(next) \subseteq O!ToSet(held) \cup {o}
  <2> HIDE DEF o, held
  <2> QED BY <1>1, CappedFacts
<1>3. \/ o \in O!ToSet(held) /\ UNCHANGED <<queue, gone>>
      \/ queue' = next /\ gone' = gone \cup O!Overwritten(r, next) \cup (O!ToSet(held) \ O!ToSet(next))
  BY DEF O!Push
<1>4. /\ TablesOK' /\ Known \subseteq Known' /\ o \in Known'
  <2>1. CASE o \in O!ToSet(held) /\ UNCHANGED <<queue, gone>>
    BY <1>1, <2>1 DEF ReportsInv, TablesOK, Known, Settled
  <2>2. CASE queue' = next /\ gone' = gone \cup O!Overwritten(r, next) \cup (O!ToSet(held) \ O!ToSet(next))
    <3>1. O!ToSet(held) \subseteq paid /\ O!ToSet(queue) \subseteq paid
      BY <1>1 DEF ReportsInv, TablesOK, O!ToSet
    <3>2. O!Overwritten(r, next) = O!ToSet(queue) \ (O!ToSet(held) \cup O!ToSet(next))
      BY DEF O!Overwritten
    <3> HIDE DEF next, held, o
    <3> QED BY <1>1, <1>2, <2>2, <3>1, <3>2 DEF ReportsInv, TablesOK, Known, Settled
  <2> QED BY <1>3, <2>1, <2>2
<1>5. ReportsGrow /\ EventsOK'
  BY <1>1, <1>4, EventsStay DEF ReportsGrow, ReportsInv, EventsOK, Settled
<1>6. PostsOK'
  BY <1>1, <1>5, IdlePostOK, PostsStep DEF ReportsInv
<1>7. O!PaidIsAccountedFor'
  BY <1>1, <1>4, <1>5, AccountKept DEF ReportsInv
<1> QED BY <1>4, <1>5, <1>6, <1>7 DEF ReportsInv

(* A drain that goes on, or ends, with the queue as it is. *)
LEMMA DrainStep ==
  ASSUME ReportsInv, NEW r \in Requests, NEW j, O!Become(r, j),
         posts[r].pc # "push", UNCHANGED <<paid, queue, gone>>, ReportsGrow, EventsOK',
         marked' \subseteq paid, refused' \subseteq paid, moved' \in BOOLEAN,
         troubles' \in 0 .. ReportTroubles, PostOK(j, paid', Known', Recorded', Settled')
  PROVE  ReportsInv'
<1>1. TablesOK'
  BY DEF ReportsInv, TablesOK
<1>2. PostsOK'
  BY PostsStep DEF ReportsInv
<1>3. O!PaidIsAccountedFor'
  BY AccountKept DEF ReportsInv
<1> QED BY <1>1, <1>2, <1>3 DEF ReportsInv

LEMMA DrainStartKeeps ==
  ASSUME ReportsInv, NEW r \in Requests, O!DrainStart(r)
  PROVE  ReportsInv'
<1> DEFINE count == IF Len(queue) < ReportBatch THEN Len(queue) ELSE ReportBatch
           job == [pc |-> "report", seen |-> queue, batch |-> SubSeq(queue, 1, count)]
<1>1. /\ O!Become(r, job) /\ posts[r].pc = "idle" /\ queue # <<>>
      /\ UNCHANGED <<paid, marked, queue, moved, events, troubles, refused, gone>>
  BY DEF O!DrainStart, O!Doing
<1>2. queue \in Seq(paid) /\ Len(queue) \in Nat \ {0} /\ ReportBatch \in Nat \ {0}
  BY <1>1, ReportsAssumption DEF ReportsInv, TablesOK
<1>3. SubSeq(queue, 1, count) \in Seq(paid) /\ SubSeq(queue, 1, count) # <<>>
  <2>1. count \in 1 .. Len(queue) /\ 1 \in 1 .. Len(queue) + 1 /\ count \in 1 - 1 .. Len(queue)
    BY <1>2
  <2> HIDE DEF count
  <2>2. SubSeq(queue, 1, count) \in Seq(paid) /\ Len(SubSeq(queue, 1, count)) = count - 1 + 1
    BY <1>2, <2>1, PartOf
  <2> QED BY <2>1, <2>2, NotEmpty
<1>4. ReportsGrow /\ EventsOK'
  BY <1>1, EventsStay DEF ReportsGrow, Known, Settled, ReportsInv, EventsOK
<1>5. PostOK(job, paid', Known', Recorded', Settled')
  <2>1. O!ToSet(queue) \subseteq Known' /\ Len(queue) <= MaxReports
    BY <1>1 DEF Known, ReportsInv, TablesOK
  <2> HIDE DEF count
  <2> QED BY <1>1, <1>2, <1>3, <2>1 DEF PostOK, PostType, Draining
<1> HIDE DEF job
<1> QED BY <1>1, <1>4, <1>5, DrainStep DEF ReportsInv, TablesOK

(* A drain that goes on with the order at the head of its batch. *)
LEMMA PostGoesOn ==
  ASSUME ReportsInv, NEW r \in Requests, posts[r].pc \in Draining, NEW pc \in Draining, O!Going(r, pc),
         UNCHANGED <<paid, queue, gone>>, ReportsGrow, EventsOK',
         marked' \subseteq paid, refused' \subseteq paid, moved' \in BOOLEAN,
         troubles' \in 0 .. ReportTroubles,
         pc = "mark" => Head(posts[r].batch) \in Recorded',
         pc = "forget" => Head(posts[r].batch) \in Settled'
  PROVE  ReportsInv'
<1> DEFINE job == [posts[r] EXCEPT !.pc = pc]
<1>1. /\ posts[r] \in [pc : Draining, seen : Seq(paid), batch : Seq(paid)] /\ posts[r].batch # <<>>
      /\ Len(posts[r].seen) <= MaxReports /\ O!ToSet(posts[r].seen) \subseteq Known
  BY DrainKnows DEF ReportsInv
<1>2. /\ job \in [pc : Draining, seen : Seq(paid), batch : Seq(paid)]
      /\ job.pc = pc /\ job.seen = posts[r].seen /\ job.batch = posts[r].batch
  BY <1>1
<1>3. O!Become(r, job)
  BY DEF O!Going
<1> HIDE DEF job
<1>4. PostOK(job, paid', Known', Recorded', Settled')
  BY <1>1, <1>2 DEF PostOK, PostType, ReportsGrow, Draining
<1>5. posts[r].pc # "push"
  BY DEF Draining
<1> QED BY <1>3, <1>4, <1>5, DrainStep

LEMMA EndsHere ==
  ASSUME ReportsInv, NEW r \in Requests, posts[r].pc \in Draining, O!Become(r, O!Idle),
         UNCHANGED <<paid, queue, gone>>, ReportsGrow, EventsOK',
         marked' \subseteq paid, refused' \subseteq paid, moved' \in BOOLEAN,
         troubles' \in 0 .. ReportTroubles
  PROVE  ReportsInv'
<1>1. posts[r].pc # "push"
  BY DEF Draining
<1> QED BY <1>1, IdlePostOK, DrainStep

(* Whatever the answer is, the drain keeps the order, or will mark what has been
   recorded, or will forget what was refused. *)
LEMMA AnsweredKeeps ==
  ASSUME ReportsInv, NEW r \in Requests, posts[r].pc = "report",
         NEW answer \in {"0", "200", "401", "403", "422", "429", "500"}, O!Answered(r, answer),
         UNCHANGED <<paid, marked, queue, moved, gone>>, troubles' \in 0 .. ReportTroubles,
         \/ UNCHANGED events
         \/ O!Record(Head(posts[r].batch)),
         answer = "200" => O!Record(Head(posts[r].batch))
  PROVE  ReportsInv'
<1> DEFINE o == Head(posts[r].batch)
<1>1. o \in paid /\ o \in Orders
  BY DrainKnows DEF Draining, ReportsInv, TablesOK
<1>2. EventsOK' /\ Recorded \subseteq Recorded' /\ (answer = "200" => o \in Recorded')
  <2>1. CASE UNCHANGED events
    <3>1. marked' \subseteq Recorded /\ EventsOK
      BY DEF ReportsInv, EventsOK
    <3>2. EventsOK' /\ Recorded' = Recorded
      BY <2>1, <3>1, EventsStay
    <3>3. ASSUME answer = "200" PROVE o \in Recorded'
      BY <1>1, <3>3, <3>1, EventRecorded
    <3> QED BY <3>2, <3>3
  <2>2. CASE O!Record(o)
    BY <1>1, <2>2, EventRecorded DEF ReportsInv
  <2> QED BY <2>1, <2>2
<1>3. /\ refused' = IF answer \in {"403", "422"} THEN refused \cup {o} ELSE refused
      /\ IF O!Kept(answer) THEN O!Become(r, O!Idle)
         ELSE O!Going(r, IF O!Accepted(answer) THEN "mark" ELSE "forget")
  BY DEF O!Answered
<1>4. ReportsGrow /\ refused' \subseteq paid
  BY <1>1, <1>2, <1>3 DEF ReportsGrow, Known, Settled, ReportsInv, TablesOK
<1>5. /\ marked' \subseteq paid /\ moved' \in BOOLEAN /\ posts[r].pc \in Draining
      /\ "mark" \in Draining /\ "forget" \in Draining
  BY DEF ReportsInv, TablesOK, Draining
<1>6. CASE O!Kept(answer)
  BY <1>2, <1>3, <1>4, <1>5, <1>6, EndsHere
<1>7. CASE ~O!Kept(answer) /\ answer = "200"
  BY <1>2, <1>3, <1>4, <1>5, <1>7, PostGoesOn DEF O!Accepted
<1>8. CASE ~O!Kept(answer) /\ answer # "200"
  <2>1. answer \in {"403", "422"}
    BY <1>8 DEF O!Kept
  <2>2. o \in Settled'
    BY <1>3, <2>1 DEF Settled
  <2>3. O!Going(r, "forget")
    BY <1>3, <1>8 DEF O!Accepted
  <2> HIDE DEF o
  <2> QED BY <1>2, <1>4, <1>5, <2>2, <2>3, PostGoesOn DEF o
<1> QED BY <1>6, <1>7, <1>8

LEMMA PostKeeps ==
  ASSUME ReportsInv, NEW r \in Requests, O!Post(r) \/ O!PostFails(r) \/ O!AnswerLost(r)
  PROVE  ReportsInv'
<1>0. troubles \in 0 .. ReportTroubles /\ ReportTroubles \in Nat
  BY ReportsAssumption DEF ReportsInv, TablesOK
<1>1. CASE O!Post(r)
  <2> DEFINE answer == O!AnswerTo(Head(posts[r].batch))
  <2>1. answer \in {"200", "403", "422"}
    BY DEF O!AnswerTo
  <2>2. /\ posts[r].pc = "report" /\ O!Answered(r, answer)
        /\ UNCHANGED <<paid, marked, queue, moved, gone, troubles>>
        /\ IF answer = "200" THEN O!Record(Head(posts[r].batch)) ELSE UNCHANGED events
    BY <1>1 DEF O!Post, O!Doing
  <2> HIDE DEF answer
  <2> QED BY <1>0, <2>1, <2>2, AnsweredKeeps
<1>2. CASE O!PostFails(r)
  <2>1. PICK answer \in {"0", "401", "429", "500"} : O!Answered(r, answer)
    BY <1>2 DEF O!PostFails
  <2>2. /\ posts[r].pc = "report" /\ troubles' \in 0 .. ReportTroubles
        /\ UNCHANGED <<paid, marked, queue, moved, gone, events>>
    BY <1>0, <1>2 DEF O!PostFails, O!Doing, O!Trouble
  <2> QED BY <2>1, <2>2, AnsweredKeeps
<1>3. CASE O!AnswerLost(r)
  <2>1. /\ posts[r].pc = "report" /\ troubles' \in 0 .. ReportTroubles /\ O!Answered(r, "0")
        /\ O!Record(Head(posts[r].batch))
        /\ UNCHANGED <<paid, marked, queue, moved, gone>>
    BY <1>0, <1>3 DEF O!AnswerLost, O!Doing, O!Trouble
  <2> QED BY <2>1, AnsweredKeeps
<1> QED BY <1>1, <1>2, <1>3

LEMMA MarkKeeps ==
  ASSUME ReportsInv, NEW r \in Requests, O!Mark(r) \/ O!AlreadyReported(r)
  PROVE  ReportsInv'
<1> DEFINE o == Head(posts[r].batch)
<1>1. /\ posts[r].pc \in Draining /\ O!Going(r, "forget") /\ "forget" \in Draining
      /\ UNCHANGED <<paid, queue, moved, events, troubles, refused, gone>>
  BY DEF O!Mark, O!AlreadyReported, O!Doing, Draining
<1>2. o \in paid /\ (posts[r].pc = "mark" => o \in Recorded)
  BY <1>1, DrainKnows DEF ReportsInv
<1>3. marked' = marked \cup {o} /\ o \in Recorded
  BY <1>2 DEF O!Mark, O!AlreadyReported, O!Doing, ReportsInv, EventsOK
<1>4. EventsOK' /\ Recorded' = Recorded
  <2>1. marked' \subseteq Recorded
    BY <1>3 DEF ReportsInv, EventsOK
  <2> QED BY <1>1, <2>1, EventsStay DEF ReportsInv
<1>5. ReportsGrow /\ o \in Settled' /\ marked' \subseteq paid
  BY <1>1, <1>2, <1>3, <1>4 DEF ReportsGrow, Known, Settled, ReportsInv, TablesOK
<1> QED BY <1>1, <1>4, <1>5, PostGoesOn DEF ReportsInv, TablesOK

LEMMA ForgetKeeps ==
  ASSUME ReportsInv, NEW r \in Requests, O!Forget(r)
  PROVE  ReportsInv'
<1> DEFINE o == Head(posts[r].batch)
           held == posts[r].seen
           kept == O!Only(held, Orders \ {o})
           job == IF Len(posts[r].batch) = 1 THEN O!Idle
                  ELSE [pc |-> "report", seen |-> kept, batch |-> Tail(posts[r].batch)]
<1>1. /\ posts[r].pc = "forget" /\ O!Become(r, job)
      /\ queue' = kept /\ gone' = gone \cup O!Overwritten(r, kept)
      /\ UNCHANGED <<paid, marked, moved, events, troubles, refused>>
  BY DEF O!Forget, O!Doing
<1>2. /\ held \in Seq(paid) /\ posts[r].batch \in Seq(paid) /\ posts[r].batch # <<>>
      /\ Len(held) <= MaxReports /\ O!ToSet(held) \subseteq Known /\ o \in Settled
  BY <1>1, DrainKnows DEF ReportsInv, Draining
<1>3. /\ kept \in Seq(paid) /\ Len(kept) <= MaxReports
      /\ O!ToSet(kept) = O!ToSet(held) \cap (Orders \ {o})
  <2>1. kept \in Seq(paid) /\ Len(kept) <= Len(held) /\ O!ToSet(kept) = O!ToSet(held) \cap (Orders \ {o})
    BY <1>2, QueueOnly
  <2>2. Len(kept) \in Nat /\ Len(held) \in Nat /\ MaxReports \in Nat
    BY <1>2, <2>1, ReportsAssumption
  <2> HIDE DEF kept, held, o
  <2> QED BY <1>2, <2>1, <2>2
<1>4. O!Overwritten(r, kept) = O!ToSet(queue) \ (O!ToSet(held) \cup O!ToSet(kept))
  BY DEF O!Overwritten
<1>5. O!ToSet(queue) \subseteq paid /\ O!ToSet(held) \subseteq paid /\ paid \subseteq Orders
  BY <1>2 DEF ReportsInv, TablesOK, O!ToSet
<1> HIDE DEF kept, held, o
<1>6. TablesOK' /\ Known \subseteq Known'
  BY <1>1, <1>2, <1>3, <1>4, <1>5 DEF ReportsInv, TablesOK, Known, Settled
<1>7. ReportsGrow /\ EventsOK'
  BY <1>1, <1>6, EventsStay DEF ReportsGrow, Settled, ReportsInv, EventsOK
<1>8. PostOK(job, paid', Known', Recorded', Settled')
  <2>1. CASE Len(posts[r].batch) = 1
    BY <2>1, IdlePostOK
  <2>2. CASE Len(posts[r].batch) # 1
    <3>1. Tail(posts[r].batch) \in Seq(paid) /\ Tail(posts[r].batch) # <<>>
      BY <1>2, <2>2, TailOf
    <3>2. O!ToSet(kept) \subseteq Known' /\ kept \in Seq(paid')
      BY <1>1, <1>3 DEF Known
    <3> QED BY <1>1, <1>3, <2>2, <3>1, <3>2 DEF PostOK, PostType, Draining
  <2> QED BY <2>1, <2>2
<1> HIDE DEF job
<1>9. PostsOK' /\ O!PaidIsAccountedFor'
  BY <1>1, <1>7, <1>8, PostsStep, AccountKept DEF ReportsInv
<1> QED BY <1>6, <1>7, <1>9 DEF ReportsInv

LEMMA DiesKeeps ==
  ASSUME ReportsInv, NEW r \in Requests, O!Dies(r)
  PROVE  ReportsInv'
<1>1. /\ O!Become(r, O!Idle) /\ troubles' \in 0 .. ReportTroubles
      /\ UNCHANGED <<paid, marked, queue, moved, events, refused>>
      /\ gone' = IF posts[r].pc = "push" THEN gone \cup {posts[r].order} ELSE gone
  BY ReportsAssumption DEF O!Dies, O!Doing, O!Trouble, ReportsInv, TablesOK
<1>2. posts[r].pc = "push" => posts[r].order \in paid
  BY PushKnows DEF ReportsInv, O!Doing
<1>3. /\ TablesOK' /\ Known \subseteq Known' /\ (posts[r].pc = "push" => posts[r].order \in Known')
  BY <1>1, <1>2 DEF ReportsInv, TablesOK, Known, Settled
<1>4. ReportsGrow /\ EventsOK'
  BY <1>1, <1>3, EventsStay DEF ReportsGrow, Settled, ReportsInv, EventsOK
<1> QED BY <1>1, <1>3, <1>4, IdlePostOK, PostsStep, AccountKept DEF ReportsInv

LEMMA SiteKeeps ==
  ASSUME ReportsInv, O!Move \/ O!Reconnect \/ UNCHANGED O!vars
  PROVE  ReportsInv'
<1>0. troubles \in 0 .. ReportTroubles /\ ReportTroubles \in Nat /\ moved \in BOOLEAN
  BY ReportsAssumption DEF ReportsInv, TablesOK
<1>1. /\ UNCHANGED <<paid, queue, posts, events, refused, gone, marked>>
      /\ moved' \in BOOLEAN /\ troubles' \in 0 .. ReportTroubles
  <2>1. CASE O!Move
    BY <1>0, <2>1 DEF O!Move, O!Trouble
  <2>2. CASE O!Reconnect
    BY <1>0, <2>2 DEF O!Reconnect
  <2>3. CASE UNCHANGED O!vars
    BY <1>0, <2>3 DEF O!vars
  <2> QED BY <2>1, <2>2, <2>3
<1>2. ReportsGrow /\ TablesOK' /\ EventsOK'
  BY <1>1 DEF ReportsGrow, Known, Settled, Recorded, ReportsInv, TablesOK, EventsOK
<1> QED BY <1>1, <1>2, PostsStay, AccountStays DEF ReportsInv

LEMMA ReportsInit == O!Init => ReportsInv
<1> SUFFICES ASSUME O!Init PROVE ReportsInv
  OBVIOUS
<1>1. TablesOK
  <2>1. MaxReports \in Nat /\ ReportTroubles \in Nat
    BY ReportsAssumption
  <2>2. queue \in Seq(paid) /\ Len(queue) <= MaxReports
    BY <2>1 DEF O!Init
  <2>3. moved \in BOOLEAN
    BY DEF O!Init
  <2>4. troubles \in 0 .. ReportTroubles
    BY <2>1 DEF O!Init
  <2> QED BY <2>2, <2>3, <2>4 DEF O!Init, TablesOK
<1>2. EventsOK
  BY DEF O!Init, EventsOK, Recorded
<1>3. PostsOK
  BY IdlePostOK DEF O!Init, PostsOK
<1> QED BY <1>1, <1>2, <1>3 DEF ReportsInv, O!Init, O!PaidIsAccountedFor

LEMMA ReportsStep ==
  ASSUME ReportsInv, [O!Next]_O!vars
  PROVE  ReportsInv'
  BY StatusKeeps, PushKeeps, DrainStartKeeps, PostKeeps, MarkKeeps, ForgetKeeps, DiesKeeps, SiteKeeps
  DEF O!Next

LEMMA ReportsMean ==
  ASSUME ReportsInv
  PROVE  O!TypeOK /\ O!MarkedIsRecorded /\ O!CountedOnce /\ O!RevenueComplete /\ O!PaidIsAccountedFor
<1>1. \A o \in Orders : O!Payload(o) \in Report /\ O!Payload(o).revenue = O!Earned(o)
  BY PayloadFacts
<1>2. \A o \in Orders : events[o] = O!NoEvent \/ events[o] = O!Payload(o)
  BY DEF ReportsInv, EventsOK
<1>3. O!ToSet(queue) \subseteq Orders
  <2>1. \A i \in DOMAIN queue : queue[i] \in Orders
    BY DEF ReportsInv, TablesOK
  <2> QED BY <2>1 DEF O!ToSet
<1>4. events \in [Orders -> {O!NoEvent} \cup Report]
  <2>1. \A o \in Orders : events[o] \in {O!NoEvent} \cup Report
    BY <1>1, <1>2
  <2> QED BY <2>1 DEF ReportsInv, EventsOK
<1>5. O!TypeOK
  BY <1>3, <1>4 DEF ReportsInv, TablesOK, O!TypeOK, Report
<1>6. O!CountedOnce
  <2>1. \A o \in Orders : O!Payload(o).selections \in Nat
    BY <1>1 DEF Report
  <2>2. \A o \in Orders : O!Payload(o).selections <= O!Payload(o).selections
    BY <2>1
  <2> QED BY <1>2, <2>2 DEF O!CountedOnce
<1>7. O!RevenueComplete
  BY <1>1, <1>2 DEF O!RevenueComplete
<1>8. O!MarkedIsRecorded
  BY DEF ReportsInv, EventsOK, Recorded, O!MarkedIsRecorded
<1> QED BY <1>5, <1>6, <1>7, <1>8 DEF ReportsInv
-----------------------------------------------------------------------------
(* The counts of views. *)
LEMMA ViewsOnly == \A s, keep : V!Only(s, keep) = Only(s, keep)
  BY Zenon DEF V!Only, Only

ViewRow == [pair : Pairs, views : 1 .. MaxViews]
Distinct(c) == \A i, j \in 1 .. Len(c) : c[i].pair = c[j].pair => i = j
Counts == {c \in Seq(ViewRow) : Len(c) <= MaxPairs /\ Distinct(c)}
PageStates == {V!Idle} \cup [pc : {"write"}, options : Seq(Pairs), read : Counts]
DrainStates ==
    {V!Idle} \cup [pc : {"sent"}, batch : Counts]
    \cup [pc : {"answered"}, batch : Counts,
          status : {"ok", "lost", "rejected", "throttled", "unauthorised", "failed"}]
    \cup [pc : {"clear"}, batch : Counts, read : Counts]

(* The state, typed ... *)
ViewsTyped ==
    /\ counts \in Counts /\ pages \in [Requests -> PageStates] /\ drain \in DrainStates
    /\ totals \in [Pairs -> Int] /\ seen \in [Pairs -> Int]
    /\ dropped \in [Pairs -> Int] /\ again \in [Pairs -> Int]
    /\ muddled \in BOOLEAN /\ visits \in 0 .. MaxPages /\ drains \in 0 .. MaxDrains

(* ... and while no two writes cross, what is about to be written was read from *)
(* what stands, and the batch under way is still in it.                       *)
Current ==
    /\ \A b \in Requests : pages[b].pc = "write" => pages[b].read = counts
    /\ drain.pc = "clear" => drain.read = counts
    /\ drain.pc # "idle" => \A p \in Pairs : V!ViewsOf(drain.batch, p) <= V!ViewsOf(counts, p)

ViewsInv == ViewsTyped /\ (~muddled => Current) /\ V!ViewsAddUp

LEMMA ViewsIs ==
  ASSUME NEW c \in Seq([pair : Pairs, views : Int]), Distinct(c)
  PROVE  /\ \A i \in 1 .. Len(c) : V!ViewsOf(c, c[i].pair) = c[i].views
         /\ \A p : (\A i \in 1 .. Len(c) : c[i].pair # p) => V!ViewsOf(c, p) = 0
         /\ \A p : V!ViewsOf(c, p) \in Int
         /\ V!Keys(c) = {c[i].pair : i \in 1 .. Len(c)}
<1>1. DOMAIN c = 1 .. Len(c) /\ Len(c) \in Nat /\ \A i \in 1 .. Len(c) : c[i].views \in Int
  <2>1. DOMAIN c = 1 .. Len(c) /\ Len(c) \in Nat /\ \A i \in 1 .. Len(c) : c[i] \in [pair : Pairs, views : Int]
    BY SeqFacts
  <2> QED BY <2>1
<1>2. ASSUME NEW p, NEW i \in 1 .. Len(c), c[i].pair = p
      PROVE  p \in V!Keys(c) /\ (CHOOSE j \in DOMAIN c : c[j].pair = p) = i
  BY <1>1, <1>2 DEF V!Keys, Distinct
<1>3. \A i \in 1 .. Len(c) : V!ViewsOf(c, c[i].pair) = c[i].views
  BY <1>2 DEF V!ViewsOf
<1>4. \A p : (\A i \in 1 .. Len(c) : c[i].pair # p) => V!ViewsOf(c, p) = 0
  BY <1>1 DEF V!ViewsOf, V!Keys
<1>5. ASSUME NEW p PROVE V!ViewsOf(c, p) \in Int
  <2>1. CASE \A i \in 1 .. Len(c) : c[i].pair # p
    BY <1>4, <2>1
  <2>2. CASE \E i \in 1 .. Len(c) : c[i].pair = p
    BY <1>1, <1>3, <2>2
  <2> QED BY <2>1, <2>2
<1>6. V!Keys(c) = {c[i].pair : i \in 1 .. Len(c)}
  BY <1>1 DEF V!Keys
<1> QED BY <1>3, <1>4, <1>5, <1>6

LEMMA CountsAre ==
  ASSUME NEW c \in Counts
  PROVE  /\ c \in Seq(ViewRow) /\ c \in Seq([pair : Pairs, views : Int]) /\ Distinct(c)
         /\ Len(c) \in Nat /\ Len(c) <= MaxPairs
         /\ \A i \in 1 .. Len(c) : c[i].pair \in Pairs /\ c[i].views \in Nat
         /\ \A p : V!ViewsOf(c, p) \in Nat
<1>1. c \in Seq(ViewRow) /\ Len(c) <= MaxPairs /\ Distinct(c)
  BY DEF Counts
<1>2. Len(c) \in Nat /\ \A i \in 1 .. Len(c) : c[i] \in ViewRow
  BY <1>1, SeqFacts
<1>3. ViewRow \subseteq [pair : Pairs, views : Int] /\ \A r \in ViewRow : r.pair \in Pairs /\ r.views \in Nat
  BY ViewsAssumption DEF ViewRow
<1>4. c \in Seq([pair : Pairs, views : Int])
  BY <1>1, <1>3, SeqFacts
<1>5. ASSUME NEW p PROVE V!ViewsOf(c, p) \in Nat
  <2>1. CASE \A i \in 1 .. Len(c) : c[i].pair # p
    <3>1. V!ViewsOf(c, p) = 0
      <4>1. \A q : (\A i \in 1 .. Len(c) : c[i].pair # q) => V!ViewsOf(c, q) = 0
        BY <1>1, <1>4, ViewsIs
      <4> QED BY <2>1, <4>1
    <3> QED BY <3>1
  <2>2. CASE \E i \in 1 .. Len(c) : c[i].pair = p
    <3>1. PICK i \in 1 .. Len(c) : c[i].pair = p
      BY <2>2
    <3>2. V!ViewsOf(c, p) = c[i].views
      BY <1>1, <1>4, <3>1, ViewsIs
    <3> QED BY <1>2, <1>3, <3>2
  <2> QED BY <2>1, <2>2
<1> QED BY <1>1, <1>2, <1>3, <1>4, <1>5

(* add: nothing that was counted is lost, and the limits hold. *)
LEMMA CountedFacts ==
  ASSUME NEW c \in Counts, NEW p \in Pairs
  PROVE  V!Counted(c, p) \in Counts /\ \A q : V!ViewsOf(V!Counted(c, p), q) >= V!ViewsOf(c, q)
<1> DEFINE n == Len(c)
<1>1. /\ c \in Seq(ViewRow) /\ c \in Seq([pair : Pairs, views : Int]) /\ Distinct(c)
      /\ n \in Nat /\ n <= MaxPairs /\ DOMAIN c = 1 .. n /\ \A i \in 1 .. n : c[i] \in ViewRow
      /\ \A q : V!ViewsOf(c, q) \in Nat
  BY CountsAre, SeqFacts
<1>2. /\ \A i \in 1 .. n : V!ViewsOf(c, c[i].pair) = c[i].views
      /\ \A q : (\A i \in 1 .. n : c[i].pair # q) => V!ViewsOf(c, q) = 0
      /\ p \in V!Keys(c) <=> \E i \in 1 .. n : c[i].pair = p
  BY <1>1, ViewsIs
<1>3. CASE ~V!Takes(c, p)
  <2>1. V!Counted(c, p) = c
    BY <1>3 DEF V!Counted
  <2> QED BY <1>1, <2>1
<1>4. CASE V!Takes(c, p) /\ p \in V!Keys(c)
  <2> DEFINE Up(r) == IF r.pair = p THEN [r EXCEPT !.views = @ + 1] ELSE r
             d == [i \in 1 .. n |-> Up(c[i])]
  <2>1. V!Counted(c, p) = [i \in DOMAIN c |-> Up(c[i])]
    BY <1>4 DEF V!Counted
  <2>2. V!Counted(c, p) = d
    BY <1>1, <2>1
  <2>3. V!ViewsOf(c, p) < MaxViews
    BY <1>4 DEF V!Takes
  <2>4. ASSUME NEW i \in 1 .. n
        PROVE  /\ Up(c[i]) \in ViewRow /\ Up(c[i]).pair = c[i].pair /\ Up(c[i]).views >= c[i].views
    <3>1. c[i] \in [pair : Pairs, views : 1 .. MaxViews] /\ (c[i].pair = p => c[i].views < MaxViews)
      BY <1>1, <1>2, <2>3 DEF ViewRow
    <3>2. CASE c[i].pair = p
      <4>1. Up(c[i]) = [pair |-> p, views |-> c[i].views + 1]
        BY <3>1, <3>2
      <4> HIDE DEF Up
      <4>2. c[i].views + 1 \in 1 .. MaxViews
        BY <3>1, <3>2, ViewsAssumption
      <4> QED BY <3>1, <3>2, <4>1, <4>2 DEF ViewRow
    <3>3. CASE c[i].pair # p
      BY <3>1, <3>3 DEF ViewRow
    <3> QED BY <3>2, <3>3
  <2> HIDE DEF Up
  <2>5. d \in Seq(ViewRow) /\ Len(d) = n /\ \A i \in 1 .. n : d[i] = Up(c[i])
    BY <1>1, <2>4
  <2> HIDE DEF d
  <2>6. d \in Counts
    BY <1>1, <2>4, <2>5 DEF Counts, Distinct
  <2>7. d \in Seq([pair : Pairs, views : Int]) /\ Distinct(d)
    BY <2>6, CountsAre
  <2>8. ASSUME NEW q PROVE V!ViewsOf(d, q) >= V!ViewsOf(c, q)
    <3>1. CASE \A i \in 1 .. n : c[i].pair # q
      <4>1. V!ViewsOf(c, q) = 0 /\ V!ViewsOf(d, q) \in Nat
        BY <1>2, <2>6, <3>1, CountsAre
      <4> QED BY <4>1
    <3>2. CASE \E i \in 1 .. n : c[i].pair = q
      <4>1. PICK i \in 1 .. n : c[i].pair = q
        BY <3>2
      <4>2. V!ViewsOf(c, q) = c[i].views
        BY <1>2, <4>1
      <4>3. d[i].pair = q /\ d[i].views >= c[i].views
        BY <2>4, <2>5, <4>1
      <4>4. \A j \in 1 .. Len(d) : V!ViewsOf(d, d[j].pair) = d[j].views
        BY <2>7, ViewsIs
      <4>5. V!ViewsOf(d, q) = d[i].views
        BY <2>5, <4>3, <4>4
      <4> QED BY <4>2, <4>3, <4>5
    <3> QED BY <3>1, <3>2
  <2> QED BY <2>2, <2>6, <2>8
<1>5. CASE V!Takes(c, p) /\ p \notin V!Keys(c)
  <2> DEFINE row == [pair |-> p, views |-> 1]
             d == Append(c, row)
  <2>1. V!Counted(c, p) = d
    BY <1>5 DEF V!Counted
  <2>2. n < MaxPairs /\ \A i \in 1 .. n : c[i].pair # p
    BY <1>2, <1>5 DEF V!Takes
  <2>3. row \in ViewRow /\ row.pair = p
    BY ViewsAssumption DEF ViewRow
  <2> HIDE DEF row
  <2>4. /\ d \in Seq(ViewRow) /\ Len(d) = n + 1 /\ d[n + 1] = row
        /\ \A i \in 1 .. n : d[i] = c[i]
    BY <1>1, <2>3
  <2> HIDE DEF d
  <2>5. d \in Counts
    <3>1. Len(d) <= MaxPairs
      BY <1>1, <2>2, <2>4, ViewsAssumption
    <3>2. Distinct(d)
      BY <1>1, <2>2, <2>3, <2>4 DEF Distinct
    <3> QED BY <2>4, <3>1, <3>2 DEF Counts
  <2>6. d \in Seq([pair : Pairs, views : Int]) /\ Distinct(d)
    BY <2>5, CountsAre
  <2>7. ASSUME NEW q PROVE V!ViewsOf(d, q) >= V!ViewsOf(c, q)
    <3>1. CASE \A i \in 1 .. n : c[i].pair # q
      <4>1. V!ViewsOf(c, q) = 0 /\ V!ViewsOf(d, q) \in Nat
        BY <1>2, <2>5, <3>1, CountsAre
      <4> QED BY <4>1
    <3>2. CASE \E i \in 1 .. n : c[i].pair = q
      <4>1. PICK i \in 1 .. n : c[i].pair = q
        BY <3>2
      <4>2. V!ViewsOf(c, q) = c[i].views
        BY <1>2, <4>1
      <4>3. \A j \in 1 .. Len(d) : V!ViewsOf(d, d[j].pair) = d[j].views
        BY <2>6, ViewsIs
      <4>4. i \in 1 .. Len(d) /\ d[i] = c[i]
        BY <1>1, <2>4
      <4>5. V!ViewsOf(d, q) = c[i].views
        BY <4>1, <4>3, <4>4
      <4>6. V!ViewsOf(c, q) \in Nat
        BY <1>1
      <4> QED BY <4>2, <4>5, <4>6
    <3> QED BY <3>1, <3>2
  <2> QED BY <2>1, <2>5, <2>7
<1> QED BY <1>3, <1>4, <1>5

(* ... nor by a whole beacon, however many options it lists. *)
LEMMA AddedFacts ==
  ASSUME NEW c \in Counts, NEW options \in Seq(Pairs)
  PROVE  V!Added(c, options) \in Counts /\ \A q : V!ViewsOf(V!Added(c, options), q) >= V!ViewsOf(c, q)
<1> DEFINE n == Len(options)
           step == [i \in 1 .. n |-> [d \in Counts |-> V!Counted(d, options[i])]]
<1>1. n \in Nat /\ \A i \in 1 .. n : options[i] \in Pairs
  OBVIOUS
<1>2. \A i \in 1 .. n : \A d \in Counts : V!Counted(d, options[i]) \in Counts
  BY <1>1, CountedFacts
<1>3. step \in [1 .. n -> [Counts -> Counts]]
  BY <1>2
<1>4. \A i \in 1 .. n : \A d \in Counts : step[i][d] = V!Counted(d, options[i])
  OBVIOUS
<1> HIDE DEF step, n
<1>5. PICK f : Solves(f, n, Counts, c, step)
  BY <1>1, <1>3, Recursion
<1>6. /\ f \in [0 .. n -> Counts] /\ f[0] = c
      /\ \A i \in 1 .. n : f[i] = V!Counted(f[i - 1], options[i])
  <2>1. f \in [0 .. n -> Counts] /\ f[0] = c /\ \A i \in 1 .. n : f[i] = step[i][f[i - 1]]
    BY <1>5 DEF Solves
  <2>2. \A i \in 1 .. n : f[i - 1] \in Counts
    BY <1>1, <2>1
  <2> QED BY <1>4, <2>1, <2>2
<1>7. f = [i \in 0 .. n |-> IF i = 0 THEN c ELSE V!Counted(f[i - 1], options[i])]
  BY <1>1, <1>6
<1> DEFINE fold[i \in 0 .. Len(options)] == IF i = 0 THEN c ELSE V!Counted(fold[i - 1], options[i])
<1>8. fold = [i \in 0 .. n |-> IF i = 0 THEN c ELSE V!Counted(fold[i - 1], options[i])]
  BY <1>7, Zenon DEF n
<1>9. V!Added(c, options) = fold[n]
  BY Zenon DEF V!Added, V!Folded, n
<1> HIDE DEF fold
<1> DEFINE T == {k \in Nat : k <= n =>
                    fold[k] = f[k] /\ \A q : V!ViewsOf(f[k], q) >= V!ViewsOf(c, q)}
<1>10. 0 \in T
  <2>1. fold[0] = c
    BY <1>1, <1>8
  <2>2. \A q : V!ViewsOf(c, q) \in Nat
    BY CountsAre
  <2> QED BY <1>6, <2>1, <2>2
<1>11. ASSUME NEW k \in Nat, k \in T PROVE k + 1 \in T
  <2> SUFFICES ASSUME k + 1 <= n
               PROVE  fold[k + 1] = f[k + 1] /\ \A q : V!ViewsOf(f[k + 1], q) >= V!ViewsOf(c, q)
    OBVIOUS
  <2>1. /\ k + 1 \in 1 .. n /\ k \in 0 .. n /\ fold[k] = f[k] /\ f[k] \in Counts
        /\ \A q : V!ViewsOf(f[k], q) >= V!ViewsOf(c, q)
    BY <1>1, <1>6, <1>11
  <2>2. fold[k + 1] = V!Counted(fold[k], options[k + 1])
    BY <1>1, <1>8, <2>1
  <2>3. f[k + 1] = V!Counted(f[k], options[k + 1])
    BY <1>1, <1>6, <2>1
  <2>4. f[k + 1] \in Counts /\ \A q : V!ViewsOf(f[k + 1], q) >= V!ViewsOf(f[k], q)
    BY <1>1, <2>1, <2>3, CountedFacts
  <2>5. \A q : V!ViewsOf(f[k + 1], q) \in Nat /\ V!ViewsOf(f[k], q) \in Nat /\ V!ViewsOf(c, q) \in Nat
    BY <2>1, <2>4, CountsAre
  <2>6. ASSUME NEW q PROVE V!ViewsOf(f[k + 1], q) >= V!ViewsOf(c, q)
    BY <2>1, <2>4, <2>5
  <2> QED BY <2>1, <2>2, <2>3, <2>6
<1>12. n \in T
  <2> HIDE DEF T
  <2> QED BY <1>1, <1>10, <1>11, Induction
<1> QED BY <1>1, <1>6, <1>9, <1>12

(* drain: the rows it takes are rows of the list. *)
LEMMA FirstRows ==
  ASSUME NEW c \in Counts, NEW k \in 0 .. Len(c)
  PROVE  SubSeq(c, 1, k) \in Counts /\ \A q : V!ViewsOf(SubSeq(c, 1, k), q) <= V!ViewsOf(c, q)
<1> DEFINE d == SubSeq(c, 1, k)
<1>1. /\ c \in Seq(ViewRow) /\ c \in Seq([pair : Pairs, views : Int]) /\ Distinct(c)
      /\ Len(c) \in Nat /\ Len(c) <= MaxPairs /\ \A q : V!ViewsOf(c, q) \in Nat
  BY CountsAre
<1>2. d \in Seq(ViewRow) /\ Len(d) = k /\ \A i \in 1 .. k : d[i] = c[i]
  <2>1. 1 \in 1 .. Len(c) + 1 /\ k \in 1 - 1 .. Len(c) /\ k - 1 + 1 = k
    BY <1>1
  <2>2. d \in Seq(ViewRow) /\ Len(d) = k - 1 + 1 /\ \A i \in 1 .. k - 1 + 1 : d[i] = c[1 + i - 1]
    BY <1>1, <2>1, PartOf
  <2>3. \A i \in 1 .. k : 1 + i - 1 = i
    BY <1>1
  <2> HIDE DEF d
  <2> QED BY <2>1, <2>2, <2>3
<1> HIDE DEF d
<1>3. d \in Counts
  <2>1. Distinct(d)
    BY <1>1, <1>2 DEF Distinct
  <2>2. Len(d) <= MaxPairs
    BY <1>1, <1>2, ViewsAssumption
  <2> QED BY <1>2, <2>1, <2>2 DEF Counts
<1>4. d \in Seq([pair : Pairs, views : Int]) /\ Distinct(d) /\ \A q : V!ViewsOf(d, q) \in Nat
  BY <1>3, CountsAre
<1>5. \A i \in 1 .. Len(c) : V!ViewsOf(c, c[i].pair) = c[i].views
  BY <1>1, ViewsIs
<1>6. /\ \A i \in 1 .. Len(d) : V!ViewsOf(d, d[i].pair) = d[i].views
      /\ \A q : (\A i \in 1 .. Len(d) : d[i].pair # q) => V!ViewsOf(d, q) = 0
  BY <1>4, ViewsIs
<1>7. ASSUME NEW q PROVE V!ViewsOf(d, q) <= V!ViewsOf(c, q)
  <2>1. CASE \A i \in 1 .. k : d[i].pair # q
    <3>1. V!ViewsOf(d, q) = 0 /\ V!ViewsOf(c, q) \in Nat
      BY <1>1, <1>2, <1>6, <2>1
    <3> QED BY <3>1
  <2>2. CASE \E i \in 1 .. k : d[i].pair = q
    <3>1. PICK i \in 1 .. k : d[i].pair = q
      BY <2>2
    <3>2. V!ViewsOf(d, q) = d[i].views /\ d[i] = c[i] /\ i \in 1 .. Len(c)
      BY <1>1, <1>2, <1>6, <3>1
    <3>3. V!ViewsOf(c, q) = c[i].views
      BY <1>5, <3>1, <3>2
    <3>4. V!ViewsOf(d, q) \in Nat
      BY <1>4
    <3> QED BY <3>2, <3>3, <3>4
  <2> QED BY <2>1, <2>2
<1> QED BY <1>3, <1>7 DEF d

(* clear: each count is less by what was sent, whatever rows went with it. *)
LEMMA ClearedFacts ==
  ASSUME NEW c \in Counts, NEW batch \in Counts
  PROVE  /\ V!Cleared(c, batch) \in Counts
         /\ (\A p \in Pairs : V!ViewsOf(batch, p) <= V!ViewsOf(c, p)) =>
               \A p \in Pairs : V!ViewsOf(V!Cleared(c, batch), p) = V!ViewsOf(c, p) - V!ViewsOf(batch, p)
<1> DEFINE n == Len(c)
           Less(r) == [r EXCEPT !.views = @ - V!ViewsOf(batch, r.pair)]
           e == [i \in 1 .. n |-> Less(c[i])]
           d == Only(e, ViewRow)
<1>1. /\ c \in Seq(ViewRow) /\ c \in Seq([pair : Pairs, views : Int]) /\ Distinct(c)
      /\ n \in Nat /\ n <= MaxPairs /\ DOMAIN c = 1 .. n /\ \A i \in 1 .. n : c[i] \in ViewRow
      /\ \A q : V!ViewsOf(c, q) \in Nat /\ V!ViewsOf(batch, q) \in Nat
  BY CountsAre, SeqFacts
<1>2. ASSUME NEW i \in 1 .. n
      PROVE  /\ Less(c[i]) \in [pair : Pairs, views : Int] /\ Less(c[i]).pair = c[i].pair
             /\ Less(c[i]).views = c[i].views - V!ViewsOf(batch, c[i].pair)
             /\ Less(c[i]) \in ViewRow <=> c[i].views - V!ViewsOf(batch, c[i].pair) >= 1
  <2>1. /\ c[i].pair \in Pairs /\ c[i].views \in Nat /\ c[i].views <= MaxViews
        /\ c[i] \in [pair : Pairs, views : 1 .. MaxViews]
    BY <1>1, ViewsAssumption DEF ViewRow
  <2>2. V!ViewsOf(batch, c[i].pair) \in Nat
    BY <1>1
  <2>3. Less(c[i]) = [pair |-> c[i].pair, views |-> c[i].views - V!ViewsOf(batch, c[i].pair)]
    BY <2>1
  <2> HIDE DEF Less
  <2> QED BY <2>1, <2>2, <2>3, ViewsAssumption DEF ViewRow
<1>3. V!Cleared(c, batch) = d
  BY <1>1, ViewsOnly DEF V!Cleared, ViewRow
<1> HIDE DEF Less
<1>4. /\ e \in Seq([pair : Pairs, views : Int]) /\ Len(e) = n
      /\ \A i \in 1 .. n : e[i] = Less(c[i])
  BY <1>1, <1>2
<1> HIDE DEF e
<1>5. /\ d \in Seq([pair : Pairs, views : Int]) /\ Len(d) <= n
      /\ ToSet(d) = ToSet(e) \cap ViewRow
  BY <1>4, OnlyFacts
<1>6. PICK g : Places(g, d, e, n)
  BY <1>4, OnlyInOrder
<1> HIDE DEF d
<1>7. /\ Len(d) \in Nat /\ \A a \in 1 .. Len(d) : g[a] \in 1 .. n /\ d[a] = e[g[a]]
      /\ \A a, b \in 1 .. Len(d) : a < b => g[a] < g[b]
  BY <1>5, <1>6, SeqFacts DEF Places
<1>8. Distinct(d)
  <2> SUFFICES ASSUME NEW a \in 1 .. Len(d), NEW b \in 1 .. Len(d), d[a].pair = d[b].pair PROVE a = b
    BY DEF Distinct
  <2>1. c[g[a]].pair = c[g[b]].pair
    <3>1. /\ g[a] \in 1 .. n /\ d[a] = Less(c[g[a]])
          /\ g[b] \in 1 .. n /\ d[b] = Less(c[g[b]])
      BY <1>4, <1>7
    <3> QED BY <1>2, <3>1
  <2>2. g[a] = g[b] /\ g[a] \in 1 .. n /\ g[b] \in 1 .. n
    BY <1>1, <1>7, <2>1 DEF Distinct
  <2>3. g[a] \in Int /\ ~(g[a] < g[b]) /\ ~(g[b] < g[a])
    BY <1>1, <2>2
  <2>4. ~(a < b) /\ ~(b < a)
    BY <1>7, <2>3
  <2> QED BY <1>7, <2>4
<1>9. d \in Counts
  <2>1. \A i \in 1 .. Len(d) : d[i] \in ToSet(d)
    BY <1>5, SeqFacts DEF ToSet
  <2>2. \A i \in 1 .. Len(d) : d[i] \in ViewRow
    BY <1>5, <2>1
  <2>3. d \in Seq(ViewRow)
    BY <1>5, <2>2, SeqFacts
  <2>4. Len(d) <= MaxPairs
    BY <1>1, <1>5, <1>7, ViewsAssumption
  <2> QED BY <1>8, <2>3, <2>4 DEF Counts
<1>10. ASSUME NEW p \in Pairs, V!ViewsOf(batch, p) <= V!ViewsOf(c, p)
       PROVE  V!ViewsOf(d, p) = V!ViewsOf(c, p) - V!ViewsOf(batch, p)
  <2>1. /\ \A i \in 1 .. n : V!ViewsOf(c, c[i].pair) = c[i].views
        /\ \A q : (\A i \in 1 .. n : c[i].pair # q) => V!ViewsOf(c, q) = 0
    BY <1>1, ViewsIs
  <2>2. /\ \A i \in 1 .. Len(d) : V!ViewsOf(d, d[i].pair) = d[i].views
        /\ \A q : (\A i \in 1 .. Len(d) : d[i].pair # q) => V!ViewsOf(d, q) = 0
    BY <1>5, <1>8, ViewsIs
  <2>3. CASE \A i \in 1 .. n : c[i].pair # p
    <3>1. V!ViewsOf(c, p) = 0
      BY <2>1, <2>3
    <3>2. V!ViewsOf(batch, p) = 0
      BY <1>1, <1>10, <3>1
    <3>3. ASSUME NEW a \in 1 .. Len(d) PROVE d[a].pair # p
      <4>1. d[a] = e[g[a]] /\ g[a] \in 1 .. n
        BY <1>7
      <4>2. d[a] = Less(c[g[a]])
        BY <1>4, <4>1
      <4>3. d[a].pair = c[g[a]].pair
        BY <1>2, <4>1, <4>2
      <4> QED BY <2>3, <4>1, <4>3
    <3>4. V!ViewsOf(d, p) = 0
      BY <2>2, <3>3
    <3> QED BY <3>1, <3>2, <3>4
  <2>4. CASE \E i \in 1 .. n : c[i].pair = p
    <3>1. PICK i \in 1 .. n : c[i].pair = p
      BY <2>4
    <3>2. V!ViewsOf(c, p) = c[i].views
      BY <2>1, <3>1
    <3>3. e[i] \in ToSet(e) /\ e[i].pair = p /\ e[i].views = V!ViewsOf(c, p) - V!ViewsOf(batch, p)
          /\ (e[i] \in ViewRow <=> V!ViewsOf(c, p) - V!ViewsOf(batch, p) >= 1)
      <4>1. e[i] \in ToSet(e)
        BY <1>4, SeqFacts DEF ToSet
      <4> QED BY <1>2, <1>4, <3>1, <3>2, <4>1
    <3>4. CASE V!ViewsOf(c, p) - V!ViewsOf(batch, p) >= 1
      <4>1. e[i] \in ToSet(d)
        BY <1>5, <3>3, <3>4
      <4>2. PICK a \in 1 .. Len(d) : d[a] = e[i]
        BY <1>5, <4>1, SeqFacts DEF ToSet
      <4> QED BY <2>2, <3>3, <4>2
    <3>5. CASE V!ViewsOf(c, p) = V!ViewsOf(batch, p)
      <4>1. \A a \in 1 .. Len(d) : d[a].pair # p
        <5> SUFFICES ASSUME NEW a \in 1 .. Len(d), d[a].pair = p PROVE FALSE
          OBVIOUS
        <5>1. c[g[a]].pair = p /\ g[a] \in 1 .. n
          <6>1. d[a] = e[g[a]] /\ g[a] \in 1 .. n
            BY <1>7
          <6>2. d[a] = Less(c[g[a]])
            BY <1>4, <6>1
          <6>3. d[a].pair = c[g[a]].pair
            BY <1>2, <6>1, <6>2
          <6> QED BY <6>1, <6>3
        <5>2. g[a] = i
          BY <1>1, <3>1, <5>1 DEF Distinct
        <5>3. d[a] = e[i] /\ d[a] \in ViewRow
          BY <1>7, <1>9, <5>2, CountsAre, SeqFacts
        <5>4. V!ViewsOf(c, p) - V!ViewsOf(batch, p) >= 1
          BY <3>3, <5>3
        <5> QED BY <1>1, <3>5, <5>4
      <4>2. V!ViewsOf(d, p) = 0
        BY <2>2, <4>1
      <4> QED BY <1>1, <3>5, <4>2
    <3> QED BY <1>1, <1>10, <3>4, <3>5
  <2> QED BY <2>3, <2>4
<1> QED BY <1>3, <1>9, <1>10

LEMMA StatesAre ==
  /\ \A d \in DrainStates :
        /\ d = V!Idle <=> d.pc = "idle"
        /\ d.pc # "idle" => d.batch \in Counts
        /\ d.pc = "clear" => d.read \in Counts
  /\ \A s \in PageStates : s.pc = "write" => s.options \in Seq(Pairs) /\ s.read \in Counts
  /\ V!Idle.pc = "idle"
  BY DEF DrainStates, PageStates, V!Idle

LEMMA ViewsInitially == V!Init => ViewsInv
<1> SUFFICES ASSUME V!Init PROVE ViewsInv
  OBVIOUS
<1>1. counts = <<>> /\ <<>> \in Seq(ViewRow) /\ Len(<<>>) = 0
  BY DEF V!Init
<1>2. counts \in Counts
  BY <1>1, ViewsAssumption DEF Counts, Distinct
<1>3. \A p : V!ViewsOf(counts, p) = 0
  BY <1>1 DEF V!ViewsOf, V!Keys
<1>4. /\ pages = [b \in Requests |-> V!Idle] /\ drain = V!Idle /\ muddled = FALSE /\ visits = 0 /\ drains = 0
      /\ totals = [p \in Pairs |-> 0] /\ seen = totals /\ dropped = totals /\ again = totals
  BY DEF V!Init
<1>5. ViewsTyped
  <2>1. totals \in [Pairs -> Int]
    BY <1>4
  <2>2. V!Idle \in PageStates /\ V!Idle \in DrainStates
    BY DEF PageStates, DrainStates
  <2>3. 0 \in 0 .. MaxPages /\ 0 \in 0 .. MaxDrains
    BY ViewsAssumption
  <2> QED BY <1>2, <1>4, <2>1, <2>2, <2>3 DEF ViewsTyped
<1>6. Current
  BY <1>4 DEF Current, V!Idle
<1>7. \A p \in Pairs : V!Unsettled(p) = 0
  BY <1>4 DEF V!Unsettled, V!Idle
<1>8. V!ViewsAddUp
  BY <1>3, <1>4, <1>7 DEF V!ViewsAddUp
<1> QED BY <1>5, <1>6, <1>8 DEF ViewsInv

(* A step that leaves the list alone, or writes it with nobody reading. *)
LEMMA BeaconKeeps ==
  ASSUME ViewsInv, NEW b \in Requests, NEW options \in V!Listings, V!Beacon(b, options)
  PROVE  ViewsInv'
<1>1. options \in Seq(Pairs)
  <2>1. PICK n \in Nat : options \in [1 .. n -> Pairs]
    BY DEF V!Listings
  <2> QED BY <2>1
<1> DEFINE page == [pc |-> "write", options |-> options, read |-> counts]
<1>2. /\ pages' = [pages EXCEPT ![b] = page] /\ visits' = visits + 1 /\ visits < MaxPages
      /\ counts' = counts /\ drain' = drain /\ totals' = totals /\ seen' = seen
      /\ dropped' = dropped /\ again' = again /\ muddled' = muddled /\ drains' = drains
  BY DEF V!Beacon
<1>3. page \in PageStates /\ page.read = counts
  BY <1>1 DEF ViewsInv, ViewsTyped, PageStates
<1> HIDE DEF page
<1>4. ViewsTyped'
  BY <1>2, <1>3, ViewsAssumption DEF ViewsInv, ViewsTyped
<1>5. (~muddled => Current)'
  BY <1>2, <1>3 DEF ViewsInv, ViewsTyped, Current
<1>6. V!ViewsAddUp'
  BY <1>2 DEF ViewsInv, V!ViewsAddUp, V!Unsettled
<1> QED BY <1>4, <1>5, <1>6 DEF ViewsInv

LEMMA PageDiesKeeps ==
  ASSUME ViewsInv, NEW b \in Requests, V!PageDies(b)
  PROVE  ViewsInv'
<1>2. /\ pages' = [pages EXCEPT ![b] = V!Idle] /\ visits' = visits
      /\ counts' = counts /\ drain' = drain /\ totals' = totals /\ seen' = seen
      /\ dropped' = dropped /\ again' = again /\ muddled' = muddled /\ drains' = drains
  BY DEF V!PageDies
<1>3. V!Idle \in PageStates /\ V!Idle.pc # "write"
  BY DEF PageStates, V!Idle
<1>4. ViewsTyped'
  BY <1>2, <1>3 DEF ViewsInv, ViewsTyped
<1>5. (~muddled => Current)'
  BY <1>2, <1>3 DEF ViewsInv, ViewsTyped, Current
<1>6. V!ViewsAddUp'
  BY <1>2 DEF ViewsInv, V!ViewsAddUp, V!Unsettled
<1> QED BY <1>4, <1>5, <1>6 DEF ViewsInv

(* A page writes what it read with its own views added. *)
LEMMA WriteKeeps ==
  ASSUME ViewsInv, NEW b \in Requests, V!Write(b)
  PROVE  ViewsInv'
<1> DEFINE read == pages[b].read
           new == V!Added(read, pages[b].options)
<1>1. /\ ViewsTyped /\ pages[b] \in PageStates /\ pages[b].pc = "write"
      /\ pages[b].options \in Seq(Pairs) /\ read \in Counts
  BY StatesAre DEF ViewsInv, ViewsTyped, V!Write
<1>2. /\ pages' = [pages EXCEPT ![b] = V!Idle] /\ drain' = drain /\ totals' = totals
      /\ dropped' = dropped /\ again' = again /\ visits' = visits /\ drains' = drains
      /\ seen' = [p \in Pairs |-> seen[p] + V!ViewsOf(new, p) - V!ViewsOf(read, p)]
      /\ IF new # read THEN V!Written(b, new) ELSE UNCHANGED <<counts, muddled>>
  BY Zenon DEF V!Write
<1>3. new \in Counts /\ \A p : /\ V!ViewsOf(new, p) >= V!ViewsOf(read, p)
                               /\ V!ViewsOf(new, p) \in Nat /\ V!ViewsOf(read, p) \in Nat
  <2>1. new \in Counts /\ \A p : V!ViewsOf(new, p) >= V!ViewsOf(read, p)
    BY <1>1, AddedFacts
  <2> HIDE DEF new, read
  <2> QED BY <1>1, <2>1, CountsAre
<1> HIDE DEF new, read
<1>4. /\ counts' \in {counts, new} /\ muddled' \in BOOLEAN /\ (~muddled' => ~muddled)
      /\ ~muddled' => counts' = counts \/ V!Reading \ {b} = {}
  <2>1. CASE new # read
    BY <1>1, <1>2, <2>1, Zenon DEF V!Written, ViewsTyped
  <2>2. CASE new = read
    BY <1>1, <1>2, <2>2, Zenon DEF ViewsTyped
  <2> QED BY <2>1, <2>2
<1>5. ~muddled => read = counts
  BY <1>1 DEF ViewsInv, Current, read
<1>6. ~muddled => counts' = new
  BY <1>2, <1>5 DEF V!Written
<1>7. V!Idle \in PageStates /\ V!Idle.pc # "write"
  BY DEF PageStates, V!Idle
<1>8. ViewsTyped'
  <2>1. seen' \in [Pairs -> Int]
    BY <1>1, <1>2, <1>3 DEF ViewsTyped
  <2> QED BY <1>1, <1>2, <1>3, <1>4, <1>7, <2>1 DEF ViewsTyped
<1>9. ASSUME ~muddled' PROVE Current'
  <2>1. ~muddled /\ Current /\ read = counts /\ counts' = new
    BY <1>4, <1>5, <1>6, <1>9 DEF ViewsInv
  <2>2. ASSUME NEW a \in Requests, pages'[a].pc = "write" PROVE pages'[a].read = counts'
    <3>1. a # b /\ pages'[a] = pages[a]
      BY <1>1, <1>2, <1>7, <2>2 DEF ViewsTyped
    <3>2. a \in V!Reading
      BY <2>2, <3>1 DEF V!Reading
    <3>3. counts' = counts
      BY <1>4, <1>9, <3>1, <3>2
    <3> QED BY <2>1, <2>2, <3>1, <3>3 DEF Current
  <2>3. drain.pc = "clear" => drain.read = counts'
    <3>1. drain.pc = "clear" => "drain" \in V!Reading
      BY DEF V!Reading
    <3>2. CASE counts' = counts
      BY <2>1, <3>2 DEF Current
    <3>3. CASE "drain" \in V!Reading /\ b = "drain"
      <4> QED BY <3>3, ViewsAssumption
    <3> QED BY <1>4, <1>9, <3>1, <3>2, <3>3
  <2>4. drain.pc # "idle" => \A p \in Pairs : V!ViewsOf(drain.batch, p) <= V!ViewsOf(counts', p)
    <3>1. drain.pc # "idle" => drain.batch \in Counts
      BY <1>1, StatesAre DEF ViewsTyped
    <3>2. drain.pc # "idle" => \A p \in Pairs : V!ViewsOf(drain.batch, p) \in Nat
      BY <3>1, CountsAre
    <3> QED BY <1>3, <2>1, <3>2 DEF Current
  <2> QED BY <1>2, <2>2, <2>3, <2>4 DEF Current
<1>10. V!ViewsAddUp'
  <2> SUFFICES ASSUME ~muddled', NEW p \in Pairs
               PROVE  totals'[p] + V!ViewsOf(counts, p)' + dropped'[p] = seen'[p] + again'[p] + V!Unsettled(p)'
    BY DEF V!ViewsAddUp
  <2>1. ~muddled /\ read = counts /\ counts' = new
    BY <1>4, <1>5, <1>6
  <2>2. totals[p] + V!ViewsOf(counts, p) + dropped[p] = seen[p] + again[p] + V!Unsettled(p)
    BY <2>1 DEF ViewsInv, V!ViewsAddUp
  <2>3. V!Unsettled(p)' = V!Unsettled(p)
    BY <1>2 DEF V!Unsettled
  <2>4. seen'[p] = seen[p] + V!ViewsOf(new, p) - V!ViewsOf(counts, p) /\ V!ViewsOf(counts, p)' = V!ViewsOf(new, p)
    BY <1>2, <2>1
  <2>5. /\ totals[p] \in Int /\ dropped[p] \in Int /\ again[p] \in Int /\ seen[p] \in Int
        /\ V!ViewsOf(new, p) \in Int /\ V!ViewsOf(counts, p) \in Int /\ V!Unsettled(p) \in Int
    <3>1. drain.pc # "idle" => drain.batch \in Counts
      BY <1>1, StatesAre DEF ViewsTyped
    <3>2. V!Unsettled(p) \in Int
      BY <3>1, CountsAre DEF V!Unsettled
    <3> QED BY <1>1, <1>3, <2>1, <3>2 DEF ViewsTyped
  <2>6. totals'[p] = totals[p] /\ dropped'[p] = dropped[p] /\ again'[p] = again[p]
    BY <1>2
  <2> QED BY <2>2, <2>3, <2>4, <2>5, <2>6
<1> QED BY <1>8, <1>9, <1>10 DEF ViewsInv

(* The run: it takes rows of the list as it is, ... *)
LEMMA DrainKeeps ==
  ASSUME ViewsInv, V!Drain
  PROVE  ViewsInv'
<1> DEFINE k == IF Len(counts) < MaxRows THEN Len(counts) ELSE MaxRows
           batch == SubSeq(counts, 1, k)
<1>1. /\ ViewsTyped /\ drain = V!Idle /\ drains < MaxDrains /\ drains' = drains + 1
      /\ drain' = [pc |-> "sent", batch |-> batch]
      /\ counts' = counts /\ pages' = pages /\ totals' = totals /\ seen' = seen
      /\ dropped' = dropped /\ again' = again /\ muddled' = muddled /\ visits' = visits
  BY DEF V!Drain, ViewsInv
<1>2. k \in 0 .. Len(counts)
  BY <1>1, CountsAre, ViewsAssumption DEF ViewsTyped
<1> HIDE DEF k
<1>3. batch \in Counts /\ \A q : V!ViewsOf(batch, q) <= V!ViewsOf(counts, q)
  BY <1>1, <1>2, FirstRows DEF ViewsTyped
<1> HIDE DEF batch
<1>4. drain' \in DrainStates /\ drain'.pc = "sent" /\ drain'.batch = batch
  BY <1>1, <1>3 DEF DrainStates
<1>5. ViewsTyped'
  BY <1>1, <1>4, ViewsAssumption DEF ViewsTyped
<1>6. (~muddled => Current)'
  BY <1>1, <1>3, <1>4 DEF ViewsInv, Current
<1>7. ASSUME NEW p PROVE V!Unsettled(p)' = V!Unsettled(p)
  BY <1>1, <1>4 DEF V!Unsettled, V!Idle
<1>8. V!ViewsAddUp'
  BY <1>1, <1>7 DEF ViewsInv, V!ViewsAddUp
<1> QED BY <1>5, <1>6, <1>8 DEF ViewsInv

(* ... the cloud adds all of it ... *)
LEMMA RecordKeeps ==
  ASSUME ViewsInv, NEW heard \in BOOLEAN, V!Record(heard)
  PROVE  ViewsInv'
<1> DEFINE batch == drain.batch
           answer == IF heard THEN "ok" ELSE "lost"
<1>1. /\ ViewsTyped /\ drain.pc = "sent" /\ batch \in Counts
      /\ totals' = V!Plus(totals, batch)
      /\ again' = IF heard THEN again ELSE V!Plus(again, batch)
      /\ drain' = [pc |-> "answered", batch |-> batch, status |-> answer]
      /\ counts' = counts /\ pages' = pages /\ seen' = seen /\ dropped' = dropped
      /\ muddled' = muddled /\ visits' = visits /\ drains' = drains
  BY StatesAre DEF V!Record, V!Answer, ViewsInv, ViewsTyped
<1>2. answer \in {"ok", "lost"} /\ (answer = "ok" <=> heard)
  OBVIOUS
<1> HIDE DEF batch, answer
<1>3. \A p : V!ViewsOf(batch, p) \in Nat
  BY <1>1, CountsAre
<1>4. /\ drain' \in DrainStates /\ drain'.pc = "answered" /\ drain'.batch = batch
      /\ drain'.status = answer
  BY <1>1, <1>2 DEF DrainStates
<1>5. \A p \in Pairs : /\ totals'[p] = totals[p] + V!ViewsOf(batch, p)
                       /\ again'[p] = again[p] + (IF heard THEN 0 ELSE V!ViewsOf(batch, p))
  BY <1>1, <1>3 DEF V!Plus, ViewsTyped
<1>6. totals' \in [Pairs -> Int] /\ again' \in [Pairs -> Int]
  BY <1>1, <1>3 DEF V!Plus, ViewsTyped
<1>7. ViewsTyped'
  BY <1>1, <1>4, <1>6 DEF ViewsTyped
<1>8. (~muddled => Current)'
  BY <1>1, <1>4 DEF ViewsInv, Current, batch
<1>9. V!ViewsAddUp'
  <2> SUFFICES ASSUME ~muddled', NEW p \in Pairs
               PROVE  totals'[p] + V!ViewsOf(counts, p)' + dropped'[p] = seen'[p] + again'[p] + V!Unsettled(p)'
    BY DEF V!ViewsAddUp
  <2>1. totals[p] + V!ViewsOf(counts, p) + dropped[p] = seen[p] + again[p] + V!Unsettled(p)
    BY <1>1 DEF ViewsInv, V!ViewsAddUp
  <2>2. V!Unsettled(p) = 0
    BY <1>1 DEF V!Unsettled
  <2>3. V!Unsettled(p)' = IF heard THEN V!ViewsOf(batch, p) ELSE 0
    BY <1>2, <1>4 DEF V!Unsettled
  <2>4. /\ totals[p] \in Int /\ dropped[p] \in Int /\ again[p] \in Int /\ seen[p] \in Int
        /\ V!ViewsOf(batch, p) \in Nat /\ V!ViewsOf(counts, p) \in Nat
    BY <1>1, <1>3, CountsAre DEF ViewsTyped
  <2>5. V!ViewsOf(counts, p)' = V!ViewsOf(counts, p) /\ dropped'[p] = dropped[p] /\ seen'[p] = seen[p]
    BY <1>1
  <2> QED BY <1>5, <2>1, <2>2, <2>3, <2>4, <2>5
<1> QED BY <1>7, <1>8, <1>9 DEF ViewsInv

(* ... or none of it ... *)
LEMMA RefuseKeeps ==
  ASSUME ViewsInv, NEW answer \in {"rejected", "throttled", "unauthorised", "failed"}, V!Refuse(answer)
  PROVE  ViewsInv'
<1> DEFINE batch == drain.batch
<1>1. /\ ViewsTyped /\ drain.pc = "sent" /\ batch \in Counts
      /\ drain' = [pc |-> "answered", batch |-> batch, status |-> answer]
      /\ counts' = counts /\ pages' = pages /\ totals' = totals /\ seen' = seen /\ dropped' = dropped
      /\ again' = again /\ muddled' = muddled /\ visits' = visits /\ drains' = drains
  BY StatesAre DEF V!Refuse, V!Answer, ViewsInv, ViewsTyped
<1> HIDE DEF batch
<1>2. /\ drain' \in DrainStates /\ drain'.pc = "answered" /\ drain'.batch = batch
      /\ drain'.status = answer
  BY <1>1 DEF DrainStates
<1>3. ViewsTyped'
  BY <1>1, <1>2 DEF ViewsTyped
<1>4. (~muddled => Current)'
  BY <1>1, <1>2 DEF ViewsInv, Current, batch
<1>5. ASSUME NEW p PROVE V!Unsettled(p)' = V!Unsettled(p)
  BY <1>1, <1>2 DEF V!Unsettled
<1>6. V!ViewsAddUp'
  BY <1>1, <1>5 DEF ViewsInv, V!ViewsAddUp
<1> QED BY <1>3, <1>4, <1>6 DEF ViewsInv

(* ... the answer settles it or it stays ... *)
LEMMA HearKeeps ==
  ASSUME ViewsInv, V!Hear
  PROVE  ViewsInv'
<1> DEFINE batch == drain.batch
           answer == drain.status
<1>1. /\ ViewsTyped /\ drain.pc = "answered" /\ batch \in Counts
      /\ IF V!Settled(answer)
         THEN /\ drain' = [pc |-> "clear", batch |-> batch, read |-> counts]
              /\ dropped' = IF answer = "rejected" THEN V!Plus(dropped, batch) ELSE dropped
         ELSE drain' = V!Idle /\ dropped' = dropped
      /\ counts' = counts /\ pages' = pages /\ totals' = totals /\ seen' = seen
      /\ again' = again /\ muddled' = muddled /\ visits' = visits /\ drains' = drains
  BY StatesAre DEF V!Hear, ViewsInv, ViewsTyped
<1> HIDE DEF batch
<1>2. \A p : V!ViewsOf(batch, p) \in Nat
  BY <1>1, CountsAre
<1>3. /\ \A p \in Pairs : totals[p] \in Int /\ dropped[p] \in Int /\ again[p] \in Int /\ seen[p] \in Int
      /\ \A p : V!ViewsOf(counts, p) \in Nat
  BY <1>1, CountsAre DEF ViewsTyped
<1>4. \A p : V!Unsettled(p) = IF answer = "ok" THEN V!ViewsOf(batch, p) ELSE 0
  BY <1>1 DEF V!Unsettled, batch, answer
<1> HIDE DEF answer
<1>5. CASE V!Settled(answer)
  <2>1. /\ drain' \in DrainStates /\ drain'.pc = "clear" /\ drain'.batch = batch /\ drain'.read = counts
    BY <1>1, <1>5 DEF DrainStates, ViewsTyped
  <2>2. dropped' \in [Pairs -> Int]
    BY <1>1, <1>2, <1>5 DEF V!Plus, ViewsTyped
  <2>3. ViewsTyped'
    BY <1>1, <2>1, <2>2 DEF ViewsTyped
  <2>4. (~muddled => Current)'
    BY <1>1, <2>1 DEF ViewsInv, Current, batch
  <2>5. V!ViewsAddUp'
    <3> SUFFICES ASSUME ~muddled', NEW p \in Pairs
                 PROVE  totals'[p] + V!ViewsOf(counts, p)' + dropped'[p] = seen'[p] + again'[p] + V!Unsettled(p)'
      BY DEF V!ViewsAddUp
    <3>1. totals[p] + V!ViewsOf(counts, p) + dropped[p] = seen[p] + again[p] + V!Unsettled(p)
      BY <1>1 DEF ViewsInv, V!ViewsAddUp
    <3>2. V!Unsettled(p)' = V!ViewsOf(batch, p)
      BY <2>1 DEF V!Unsettled
    <3>3. dropped'[p] = dropped[p] + (IF answer = "rejected" THEN V!ViewsOf(batch, p) ELSE 0)
      BY <1>1, <1>3, <1>5 DEF V!Plus
    <3>4. answer = "rejected" <=> answer # "ok"
      BY <1>5 DEF V!Settled
    <3>5. /\ V!ViewsOf(counts, p)' = V!ViewsOf(counts, p) /\ totals'[p] = totals[p] /\ seen'[p] = seen[p]
          /\ again'[p] = again[p]
      BY <1>1
    <3> QED BY <1>2, <1>3, <1>4, <3>1, <3>2, <3>3, <3>4, <3>5
  <2> QED BY <2>3, <2>4, <2>5 DEF ViewsInv
<1>6. CASE ~V!Settled(answer)
  <2>1. drain' = V!Idle /\ dropped' = dropped /\ V!Idle \in DrainStates /\ V!Idle.pc = "idle"
    BY <1>1, <1>6 DEF DrainStates, V!Idle
  <2>2. ViewsTyped'
    BY <1>1, <2>1 DEF ViewsTyped
  <2>3. (~muddled => Current)'
    BY <1>1, <2>1 DEF ViewsInv, Current
  <2>4. ASSUME NEW p PROVE V!Unsettled(p)' = V!Unsettled(p)
    BY <1>4, <1>6, <2>1 DEF V!Unsettled, V!Settled
  <2>5. V!ViewsAddUp'
    BY <1>1, <2>1, <2>4 DEF ViewsInv, V!ViewsAddUp
  <2> QED BY <2>2, <2>3, <2>5 DEF ViewsInv
<1> QED BY <1>5, <1>6

(* ... and what is settled is taken off. *)
LEMMA ClearKeeps ==
  ASSUME ViewsInv, V!Clear
  PROVE  ViewsInv'
<1> DEFINE batch == drain.batch
           read == drain.read
           left == V!Cleared(read, batch)
<1>1. /\ ViewsTyped /\ drain.pc = "clear" /\ batch \in Counts /\ read \in Counts
      /\ counts' = left /\ muddled' = (muddled \/ V!Reading \ {"drain"} # {}) /\ drain' = V!Idle
      /\ pages' = pages /\ totals' = totals /\ seen' = seen /\ dropped' = dropped
      /\ again' = again /\ visits' = visits /\ drains' = drains
  BY StatesAre DEF V!Clear, V!Written, ViewsInv, ViewsTyped
<1>2. /\ left \in Counts
      /\ (\A p \in Pairs : V!ViewsOf(batch, p) <= V!ViewsOf(read, p)) =>
            \A p \in Pairs : V!ViewsOf(left, p) = V!ViewsOf(read, p) - V!ViewsOf(batch, p)
  BY <1>1, ClearedFacts
<1>3. ~muddled => Current
  BY DEF ViewsInv
<1>4. V!Idle \in DrainStates /\ V!Idle.pc = "idle"
  BY DEF DrainStates, V!Idle
<1>5. \A p : V!Unsettled(p) = V!ViewsOf(batch, p)
  BY <1>1 DEF V!Unsettled
<1>6. ~muddled => read = counts /\ \A p \in Pairs : V!ViewsOf(batch, p) <= V!ViewsOf(counts, p)
  BY <1>1, <1>3 DEF Current
<1> HIDE DEF left, read, batch
<1>7. ViewsTyped'
  <2>1. muddled' \in BOOLEAN
    BY <1>1
  <2> QED BY <1>1, <1>2, <1>4, <2>1 DEF ViewsTyped
<1>8. ASSUME ~muddled' PROVE ~muddled /\ \A b \in Requests : pages[b].pc # "write"
  BY <1>1, <1>8, ViewsAssumption DEF V!Reading
<1>9. (~muddled => Current)'
  BY <1>1, <1>4, <1>8 DEF Current
<1>10. V!ViewsAddUp'
  <2> SUFFICES ASSUME ~muddled', NEW p \in Pairs
               PROVE  totals'[p] + V!ViewsOf(counts, p)' + dropped'[p] = seen'[p] + again'[p] + V!Unsettled(p)'
    BY DEF V!ViewsAddUp
  <2>1. ~muddled
    BY <1>8
  <2>2. totals[p] + V!ViewsOf(counts, p) + dropped[p] = seen[p] + again[p] + V!Unsettled(p)
    BY <2>1 DEF ViewsInv, V!ViewsAddUp
  <2>3. V!ViewsOf(left, p) = V!ViewsOf(counts, p) - V!ViewsOf(batch, p)
    BY <1>2, <1>6, <2>1
  <2>4. V!ViewsOf(counts, p)' = V!ViewsOf(left, p) /\ V!Unsettled(p)' = 0
    BY <1>1, <1>4 DEF V!Unsettled
  <2>5. /\ totals[p] \in Int /\ dropped[p] \in Int /\ again[p] \in Int /\ seen[p] \in Int
        /\ V!ViewsOf(batch, p) \in Nat /\ V!ViewsOf(counts, p) \in Nat
    BY <1>1, CountsAre DEF ViewsTyped
  <2>6. totals'[p] = totals[p] /\ seen'[p] = seen[p] /\ dropped'[p] = dropped[p] /\ again'[p] = again[p]
    BY <1>1
  <2> QED BY <1>5, <2>2, <2>3, <2>4, <2>5, <2>6
<1> QED BY <1>7, <1>9, <1>10 DEF ViewsInv

LEMMA ViewsStep == ASSUME ViewsInv, [V!Next]_V!vars PROVE ViewsInv'
<1>1. CASE \E b \in Requests : (\E options \in V!Listings : V!Beacon(b, options)) \/ V!Write(b) \/ V!PageDies(b)
  BY <1>1, BeaconKeeps, WriteKeeps, PageDiesKeeps
<1>2. CASE \E heard \in BOOLEAN : V!Record(heard)
  BY <1>2, RecordKeeps
<1>3. CASE \E answer \in {"rejected", "throttled", "unauthorised", "failed"} : V!Refuse(answer)
  BY <1>3, RefuseKeeps
<1>4. CASE V!Drain \/ V!Hear \/ V!Clear
  BY <1>4, DrainKeeps, HearKeeps, ClearKeeps
<1>5. CASE UNCHANGED V!vars
  <2>1. /\ pages' = pages /\ visits' = visits
        /\ counts' = counts /\ drain' = drain /\ totals' = totals /\ seen' = seen
        /\ dropped' = dropped /\ again' = again /\ muddled' = muddled /\ drains' = drains
    BY <1>5 DEF V!vars
  <2> QED BY <2>1 DEF ViewsInv, ViewsTyped, Current, V!ViewsAddUp, V!Unsettled
<1> QED BY <1>1, <1>2, <1>3, <1>4, <1>5 DEF V!Next

LEMMA ViewsMeans == ViewsInv => V!TypeOK /\ V!ViewsAddUp
<1> SUFFICES ASSUME ViewsInv PROVE V!TypeOK
  BY DEF ViewsInv
<1>1. /\ counts \in Seq(ViewRow) /\ Len(counts) <= MaxPairs /\ Distinct(counts)
      /\ DOMAIN counts = 1 .. Len(counts) /\ \A i \in 1 .. Len(counts) : counts[i] \in ViewRow
  BY SeqFacts DEF ViewsInv, ViewsTyped, Counts
<1>2. \A r \in ViewRow : r.pair \in Pairs /\ r.views \in 1 .. MaxViews
  BY DEF ViewRow
<1> QED BY <1>1, <1>2 DEF ViewsInv, ViewsTyped, V!TypeOK, Distinct
-----------------------------------------------------------------------------
(* The installation of the plugin. *)
LEMMA InstallationBounds ==
  /\ I!Releases \subseteq Nat \ {0} /\ 1 \in I!Releases /\ Schema \in [I!Releases -> Nat]
  /\ DOMAIN Events = I!Releases /\ {MaxChanges, MaxLoads, MaxMishaps} \subseteq Nat
  /\ \A r, s \in I!Releases : r < s => Schema[r] <= Schema[s] /\ Events[r] \subseteq Events[s]
  /\ IsFiniteSet(Requests) /\ I!Admin \notin Requests
  BY InstallationAssumption DEF I!Releases, I!Admin

VisitSteps == {"tables", "marks", "check", "add", "db", "version"}
StepsTo(goal) ==
    CASE goal = "activate" -> {"tables", "marks", "check", "add", "active"}
      [] goal = "deactivate" -> {"clear", "inactive"}
      [] goal = "erase" -> {"options", "hooks", "drop", "uploads", "files"}
      [] goal = "delete" -> {"files"}
      [] goal = "visit" -> VisitSteps
      [] goal = "none" -> {}
MerchantGoals == {"activate", "deactivate", "erase", "delete", "none"}

(* The order in which steps come: no table is made after it has been recorded,  *)
(* events are added after a look at them, and what ends a list is its end.    *)
Ordered(q) ==
    /\ \A i \in 1 .. Len(q) : q[i] \in {"marks", "db", "active"} => \A j \in i .. Len(q) : q[j] # "tables"
    /\ \A i \in 1 .. Len(q) : q[i] = "active" => \A j \in i .. Len(q) : q[j] # "marks"
    /\ \A i \in 1 .. Len(q) : q[i] = "add" => i # 1 /\ q[i - 1] = "check"
    /\ \A i \in 1 .. Len(q) : q[i] \in {"files", "active"} => i = Len(q)

(* What is left of a list may begin with the adding. *)
Begun(q) ==
    /\ \A i \in 1 .. Len(q) : q[i] \in {"marks", "db", "active"} => \A j \in i .. Len(q) : q[j] # "tables"
    /\ \A i \in 1 .. Len(q) : q[i] = "active" => \A j \in i .. Len(q) : q[j] # "marks"
    /\ \A i \in 2 .. Len(q) : q[i] = "add" => q[i - 1] = "check"
    /\ \A i \in 1 .. Len(q) : q[i] \in {"files", "active"} => i = Len(q)

LEMMA Onward ==
  ASSUME NEW S, NEW q \in Seq(S), q # <<>>, Begun(q)
  PROVE  /\ Tail(q) \in Seq(S) /\ Begun(Tail(q)) /\ Head(q) \in ToSet(q)
         /\ ToSet(Tail(q)) \subseteq ToSet(q) /\ ToSet(q) \ {Head(q)} \subseteq ToSet(Tail(q))
         /\ Tail(q) # <<>> /\ Head(Tail(q)) = "add" => Head(q) = "check"
         /\ Head(q) \in {"marks", "db", "active"} => "tables" \notin ToSet(q)
         /\ Head(q) = "active" => "marks" \notin ToSet(q)
         /\ Head(q) \in {"files", "active"} => Tail(q) = <<>>
<1> DEFINE n == Len(q)
           t == Tail(q)
<1>1. /\ n \in Nat /\ n >= 1 /\ t \in Seq(S) /\ Len(t) = n - 1 /\ Head(q) = q[1]
      /\ \A i \in 1 .. n - 1 : t[i] = q[i + 1]
  BY NotEmpty
<1>2. DOMAIN q = 1 .. n /\ DOMAIN t = 1 .. n - 1
  BY <1>1, SeqFacts
<1> HIDE DEF t
<1>3. Begun(t)
  <2>1. \A i \in 1 .. Len(t) : t[i] \in {"marks", "db", "active"} => \A j \in i .. Len(t) : t[j] # "tables"
    BY <1>1 DEF Begun
  <2>2. \A i \in 1 .. Len(t) : t[i] = "active" => \A j \in i .. Len(t) : t[j] # "marks"
    BY <1>1 DEF Begun
  <2>3. \A i \in 2 .. Len(t) : t[i] = "add" => t[i - 1] = "check"
    BY <1>1 DEF Begun
  <2>4. \A i \in 1 .. Len(t) : t[i] \in {"files", "active"} => i = Len(t)
    BY <1>1 DEF Begun
  <2> QED BY <2>1, <2>2, <2>3, <2>4 DEF Begun
<1>4. /\ q[1] \in ToSet(q) /\ ToSet(t) \subseteq ToSet(q) /\ ToSet(q) \ {q[1]} \subseteq ToSet(t)
  <2>1. q[1] \in ToSet(q) /\ ToSet(t) \subseteq ToSet(q)
    BY <1>1, <1>2 DEF ToSet
  <2>2. ASSUME NEW i \in 1 .. n, q[i] # q[1] PROVE q[i] \in ToSet(t)
    <3>1. i - 1 \in 1 .. n - 1 /\ t[i - 1] = q[(i - 1) + 1] /\ (i - 1) + 1 = i
      BY <1>1, <2>2
    <3> QED BY <1>2, <3>1 DEF ToSet
  <2> QED BY <1>2, <2>1, <2>2 DEF ToSet
<1>5. t # <<>> => Head(t) = t[1] /\ t[1] = q[2] /\ 2 \in 2 .. n
  BY <1>1, NotEmpty
<1>6. t # <<>> /\ Head(t) = "add" => q[1] = "check"
  BY <1>1, <1>5 DEF Begun
<1>7. q[1] \in {"marks", "db", "active"} => "tables" \notin ToSet(q)
  BY <1>1, <1>2 DEF Begun, ToSet
<1>8. q[1] = "active" => "marks" \notin ToSet(q)
  BY <1>1, <1>2 DEF Begun, ToSet
<1>9. q[1] \in {"files", "active"} => t = <<>>
  BY <1>1, NotEmpty DEF Begun
<1> QED BY <1>1, <1>3, <1>4, <1>6, <1>7, <1>8, <1>9 DEF t

LEMMA Joined ==
  ASSUME NEW S, NEW s \in Seq(S), NEW t \in Seq(S), s # <<>>, Ordered(s), Ordered(t),
         ToSet(s) \cap {"files", "active"} = {},
         ToSet(s) \cap {"marks", "db"} = {} \/ "tables" \notin ToSet(t)
  PROVE  /\ s \o t \in Seq(S) /\ ToSet(s \o t) = ToSet(s) \cup ToSet(t) /\ Ordered(s \o t)
         /\ s \o t # <<>>
<1> DEFINE m == Len(s)
           n == Len(t)
           q == s \o t
<1>1. /\ m \in Nat /\ m >= 1 /\ n \in Nat /\ q \in Seq(S) /\ Len(q) = m + n
      /\ \A i \in 1 .. m : q[i] = s[i]
      /\ \A i \in 1 .. n : q[m + i] = t[i]
  BY NotEmpty
<1>2. DOMAIN s = 1 .. m /\ DOMAIN t = 1 .. n /\ DOMAIN q = 1 .. m + n
  BY <1>1, SeqFacts
<1> HIDE DEF q
<1>3. \A i \in 1 .. m + n : IF i <= m THEN q[i] = s[i] ELSE i - m \in 1 .. n /\ q[i] = t[i - m]
  <2> SUFFICES ASSUME NEW i \in 1 .. m + n, ~(i <= m) PROVE i - m \in 1 .. n /\ q[i] = t[i - m]
    BY <1>1
  <2>1. i - m \in 1 .. n /\ m + (i - m) = i
    BY <1>1
  <2>2. \A k \in 1 .. n : q[m + k] = t[k]
    BY <1>1
  <2>3. q[m + (i - m)] = t[i - m]
    BY <2>1, <2>2
  <2> QED BY <2>1, <2>3
<1>4. ToSet(q) = ToSet(s) \cup ToSet(t)
  <2>1. ASSUME NEW i \in 1 .. m + n PROVE q[i] \in ToSet(s) \cup ToSet(t)
    <3>1. CASE i <= m
      <4>1. i \in 1 .. m /\ q[i] = s[i]
        BY <1>1, <3>1
      <4> QED BY <1>2, <4>1 DEF ToSet
    <3>2. CASE ~(i <= m)
      BY <1>2, <1>3, <3>2 DEF ToSet
    <3> QED BY <3>1, <3>2
  <2>2. ToSet(s) \subseteq ToSet(q)
    BY <1>1, <1>2 DEF ToSet
  <2>3. ASSUME NEW i \in 1 .. n PROVE t[i] \in ToSet(q)
    <3>1. m + i \in 1 .. m + n /\ q[m + i] = t[i]
      BY <1>1
    <3> QED BY <1>2, <3>1 DEF ToSet
  <2> QED BY <1>2, <2>1, <2>2, <2>3 DEF ToSet
<1>5. \A i \in 1 .. m : s[i] \notin {"files", "active"}
  BY <1>2 DEF ToSet
<1>6. /\ \A i \in 1 .. m : s[i] \in ToSet(s)
      /\ \A i \in 1 .. n : t[i] \in ToSet(t)
  BY <1>2 DEF ToSet
<1>7. ASSUME NEW i \in 1 .. m + n, q[i] \in {"marks", "db", "active"}, NEW j \in i .. m + n
      PROVE  q[j] # "tables"
  <2>0. j \in 1 .. m + n
    BY <1>1
  <2>1. CASE j <= m
    <3>1. i \in 1 .. m /\ j \in 1 .. m /\ i <= j /\ q[i] = s[i] /\ q[j] = s[j]
      BY <1>1, <1>3, <1>7, <2>0, <2>1
    <3> QED BY <1>1, <1>7, <3>1 DEF Ordered
  <2>2. CASE ~(j <= m) /\ i <= m
    <3>1. q[i] = s[i] /\ s[i] \in ToSet(s) /\ s[i] \in {"marks", "db"} /\ q[j] = t[j - m] /\ j - m \in 1 .. n
      BY <1>1, <1>3, <1>5, <1>6, <1>7, <2>0, <2>2
    <3> QED BY <1>6, <3>1
  <2>3. CASE ~(i <= m)
    <3>1. i - m \in 1 .. n /\ j - m \in i - m .. n /\ q[i] = t[i - m] /\ q[j] = t[j - m]
      BY <1>1, <1>3, <2>0, <2>3
    <3> QED BY <1>7, <3>1 DEF Ordered
  <2> QED BY <2>1, <2>2, <2>3
<1>8. ASSUME NEW i \in 1 .. m + n, q[i] = "active", NEW j \in i .. m + n
      PROVE  q[j] # "marks"
  <2>1. ~(i <= m)
    BY <1>1, <1>3, <1>5, <1>8
  <2>2. i - m \in 1 .. n /\ j - m \in i - m .. n /\ q[i] = t[i - m] /\ q[j] = t[j - m]
    BY <1>1, <1>3, <2>1
  <2> QED BY <1>8, <2>2 DEF Ordered
<1>9. ASSUME NEW i \in 1 .. m + n, q[i] = "add" PROVE i # 1 /\ q[i - 1] = "check"
  <2>1. CASE i <= m
    <3>1. s[i] = "add" /\ i \in 1 .. m
      BY <1>1, <1>3, <1>9, <2>1
    <3>2. i # 1 /\ s[i - 1] = "check" /\ i - 1 \in 1 .. m
      BY <1>1, <3>1 DEF Ordered
    <3> QED BY <1>1, <3>2
  <2>2. CASE ~(i <= m)
    <3>1. i - m \in 1 .. n /\ t[i - m] = "add"
      BY <1>1, <1>3, <1>9, <2>2
    <3>2. i - m # 1 /\ t[(i - m) - 1] = "check"
      BY <3>1 DEF Ordered
    <3>3. i - 1 \in 1 .. m + n /\ ~(i - 1 <= m) /\ (i - m) - 1 = (i - 1) - m /\ i # 1
      BY <1>1, <2>2, <3>1, <3>2
    <3> QED BY <1>3, <3>2, <3>3
  <2> QED BY <2>1, <2>2
<1>10. ASSUME NEW i \in 1 .. m + n, q[i] \in {"files", "active"} PROVE i = m + n
  <2>1. ~(i <= m)
    BY <1>1, <1>3, <1>5, <1>10
  <2>2. i - m \in 1 .. n /\ q[i] = t[i - m]
    BY <1>1, <1>3, <2>1
  <2>3. i - m = n
    BY <1>10, <2>2 DEF Ordered
  <2> QED BY <1>1, <2>3
<1>11. Ordered(q)
  BY <1>1, <1>7, <1>8, <1>9, <1>10 DEF Ordered
<1>12. q # <<>>
  BY <1>1, NotEmpty
<1> QED BY <1>1, <1>4, <1>11, <1>12 DEF q
-----------------------------------------------------------------------------
DutyGoals == MerchantGoals \cup {"visit"}
DutySteps == VisitSteps \cup {"active", "clear", "inactive", "options", "hooks", "drop", "uploads", "files"}
Duty == [goal : DutyGoals, release : I!Releases \cup {0}, fresh : BOOLEAN, alone : BOOLEAN,
         missing : SUBSET I!Hooks, todo : Seq(DutySteps)]
StillToDo(task) == ToSet(task.todo)

DutyOK(task) == Begun(task.todo) /\ \A h \in task.missing : h \in Events[task.release]

VisitOK(task) ==
    /\ task.goal \in {"none", "visit"} /\ StillToDo(task) \subseteq VisitSteps
    /\ task.todo # <<>> => task.goal = "visit"
    /\ task.goal = "visit" => task.release \in I!Releases

AdminOK(task, installed, on) ==
    /\ task.goal \in MerchantGoals /\ StillToDo(task) \subseteq StepsTo(task.goal)
    /\ task.goal = "activate" /\ "tables" \in StillToDo(task) => "marks" \in StillToDo(task)
    /\ task.todo # <<>> => /\ task.release = installed /\ installed \in I!Releases
                           /\ task.goal # "deactivate" => ~on

(* The state, typed. *)
SiteTyped ==
    /\ release \in I!Releases \cup {0} /\ version \in I!Releases \cup {0}
    /\ active \in BOOLEAN /\ woocommerce \in BOOLEAN /\ bytes \in BOOLEAN /\ skipped \in BOOLEAN
    /\ db \in {0} \cup {Schema[r] : r \in I!Releases} /\ agreed \in {"unset", "no", "yes"}
    /\ tables \subseteq Nat /\ cron \in [I!Hooks -> Nat]
    /\ active => release # 0
    /\ changes \in 0 .. MaxChanges /\ loads \in 0 .. MaxLoads /\ deaths \in 0 .. MaxMishaps

DutiesTyped ==
    /\ duties \in [I!Processes -> Duty]
    /\ \A p \in I!Processes : DutyOK(duties[p])
    /\ \A p \in Requests : VisitOK(duties[p])
    /\ AdminOK(duties[I!Admin], release, active)

(* Nothing there is of a newer release than the one installed. *)
NoneNewer ==
    release # 0 =>
        /\ tables \subseteq 1 .. Schema[release] /\ \A h \in I!Hooks : cron[h] > 0 => h \in Events[release]
        /\ \A p \in Requests : I!Busy(p) => duties[p].release <= release

(* What records a schema has made it: those that run, once the merchant's own   *)
(* activation has.                                                            *)
Activating(step) == I!Busy(I!Admin) /\ duties[I!Admin].goal = "activate" /\ step \notin StillToDo(duties[I!Admin])
SchemaKept ==
    /\ active \/ Activating("marks") => 1 .. db \subseteq tables
    /\ Activating("tables") => 1 .. Schema[duties[I!Admin].release] \subseteq tables
    /\ active \/ Activating("tables") =>
          \A p \in Requests :
              "tables" \notin StillToDo(duties[p]) /\ StillToDo(duties[p]) \cap {"marks", "db"} # {} =>
                  1 .. Schema[duties[p].release] \subseteq tables

(* How far one has come that nothing disturbs. *)
Repaired(task, v, d, made, scheduled, failed) ==
    task.goal = "visit" /\ task.alone /\ ~task.fresh =>
        /\ "version" \notin StillToDo(task) => v = task.release
        /\ "db" \notin StillToDo(task) => d >= Schema[task.release]
        /\ ~failed /\ "tables" \notin StillToDo(task) => 1 .. Schema[task.release] \subseteq made
        /\ "add" \notin StillToDo(task) => \A h \in Events[task.release] : scheduled[h] > 0
        /\ task.todo # <<>> /\ Head(task.todo) = "add" =>
              \A h \in Events[task.release] : scheduled[h] > 0 \/ h \in task.missing

Erased(task, v, d, made, scheduled, stored) ==
    task.alone =>
        /\ task.goal = "deactivate" /\ "clear" \notin StillToDo(task) => \A h \in I!Hooks : scheduled[h] = 0
        /\ task.goal = "erase" /\ "hooks" \notin StillToDo(task) => \A h \in I!Hooks : scheduled[h] = 0
        /\ task.goal = "erase" /\ "options" \notin StillToDo(task) => v = 0 /\ d = 0
        /\ task.goal = "erase" /\ "drop" \notin StillToDo(task) => made = {}
        /\ task.goal = "erase" /\ "uploads" \notin StillToDo(task) => ~stored

Undisturbed ==
    /\ \A p \in Requests : Repaired(duties[p], version, db, tables, cron, skipped)
    /\ Erased(duties[I!Admin], version, db, tables, cron, bytes)

(* Each time a hook is scheduled one of those under way has found it missing. *)
AtWork == {p \in I!Processes : I!Busy(p)}
ScheduledBy(h) == {p \in I!Processes : I!Busy(p) /\ Head(duties[p].todo) = "add" /\ h \in duties[p].missing}
FewEvents ==
    /\ Cardinality(AtWork) <= loads + changes
    /\ \A h \in I!Hooks : cron[h] + Cardinality(ScheduledBy(h)) <= loads + changes

InstallInv ==
    SiteTyped /\ DutiesTyped /\ NoneNewer /\ (~skipped => SchemaKept) /\ Undisturbed /\ FewEvents
-----------------------------------------------------------------------------
LEMMA DutyLists ==
  /\ <<"check", "add">> \in Seq(VisitSteps) /\ Ordered(<<"check", "add">>) /\ <<"check", "add">> # <<>>
  /\ ToSet(<<"check", "add">>) = {"check", "add"}
  /\ I!Activation \in Seq(VisitSteps) /\ Ordered(I!Activation) /\ I!Activation # <<>>
  /\ ToSet(I!Activation) = {"tables", "marks", "check", "add"}
  /\ I!Activation \o <<"db">> \in Seq(VisitSteps) /\ Ordered(I!Activation \o <<"db">>) /\ I!Activation \o <<"db">> # <<>>
  /\ ToSet(I!Activation \o <<"db">>) = {"tables", "marks", "check", "add", "db"}
  /\ I!Activation \o <<"active">> \in Seq(DutySteps) /\ Ordered(I!Activation \o <<"active">>)
  /\ I!Activation \o <<"active">> # <<>>
  /\ ToSet(I!Activation \o <<"active">>) = {"tables", "marks", "check", "add", "active"}
<1>1. /\ <<"check", "add">> \in Seq(VisitSteps) /\ Ordered(<<"check", "add">>)
      /\ ToSet(<<"check", "add">>) = {"check", "add"} /\ <<"check", "add">> # <<>>
  BY DEF Ordered, ToSet, VisitSteps
<1>2. /\ <<"tables", "marks">> \in Seq(VisitSteps) /\ Ordered(<<"tables", "marks">>)
      /\ ToSet(<<"tables", "marks">>) = {"tables", "marks"} /\ <<"tables", "marks">> # <<>>
  BY DEF Ordered, ToSet, VisitSteps
<1>3. /\ <<"db">> \in Seq(VisitSteps) /\ Ordered(<<"db">>) /\ ToSet(<<"db">>) = {"db"}
      /\ <<"active">> \in Seq(DutySteps) /\ Ordered(<<"active">>) /\ ToSet(<<"active">>) = {"active"}
  BY DEF Ordered, ToSet, VisitSteps, DutySteps
<1>4. /\ I!Activation \in Seq(VisitSteps) /\ Ordered(I!Activation) /\ I!Activation # <<>>
      /\ ToSet(I!Activation) = {"tables", "marks", "check", "add"}
  <2>1. I!Activation = <<"tables", "marks">> \o <<"check", "add">>
    BY DEF I!Activation, I!Schedule
  <2> DEFINE s == <<"tables", "marks">>
             t == <<"check", "add">>
  <2> HIDE DEF s, t
  <2>2. /\ s \in Seq(VisitSteps) /\ t \in Seq(VisitSteps) /\ s # <<>> /\ Ordered(s) /\ Ordered(t)
        /\ ToSet(s) \cap {"files", "active"} = {} /\ "tables" \notin ToSet(t)
    BY <1>1, <1>2 DEF s, t
  <2>3. /\ s \o t \in Seq(VisitSteps) /\ ToSet(s \o t) = ToSet(s) \cup ToSet(t) /\ Ordered(s \o t)
        /\ s \o t # <<>>
    BY <2>2, Joined
  <2> QED BY <1>1, <1>2, <2>1, <2>3 DEF s, t
<1> DEFINE a == I!Activation
           d == <<"db">>
           e == <<"active">>
<1> HIDE DEF a, d, e
<1>5. /\ a \o d \in Seq(VisitSteps) /\ Ordered(a \o d) /\ a \o d # <<>> /\ ToSet(a \o d) = ToSet(a) \cup {"db"}
  <2>1. /\ a \in Seq(VisitSteps) /\ d \in Seq(VisitSteps) /\ a # <<>> /\ Ordered(a) /\ Ordered(d)
        /\ ToSet(a) \cap {"files", "active"} = {} /\ "tables" \notin ToSet(d) /\ ToSet(d) = {"db"}
    BY <1>3, <1>4 DEF a, d
  <2> QED BY <2>1, Joined
<1>6. /\ a \o e \in Seq(DutySteps) /\ Ordered(a \o e) /\ a \o e # <<>> /\ ToSet(a \o e) = ToSet(a) \cup {"active"}
  <2>1. VisitSteps \subseteq DutySteps
    BY DEF DutySteps
  <2>2. /\ a \in Seq(DutySteps) /\ e \in Seq(DutySteps) /\ a # <<>> /\ Ordered(a) /\ Ordered(e)
        /\ ToSet(a) \cap {"files", "active"} = {} /\ "tables" \notin ToSet(e) /\ ToSet(e) = {"active"}
    BY <1>3, <1>4, <2>1, SeqFacts DEF a, e
  <2> QED BY <2>2, Joined
<1> QED BY <1>1, <1>4, <1>5, <1>6 DEF a, d, e

(* What a request finds to do: all of an upgrade or none, and its own version   *)
(* unless it is there.                                                        *)
LEMMA MigrationFacts ==
  ASSUME NEW r \in I!Releases, db \in Int
  PROVE  LET list == I!Migration(r) \o I!Schedule IN
         /\ list \in Seq(VisitSteps) /\ Ordered(list) /\ list # <<>>
         /\ "add" \in ToSet(list)
         /\ "version" \in ToSet(list) \/ version = r
         /\ version # 0 /\ "db" \notin ToSet(list) => db >= Schema[r]
         /\ "tables" \notin ToSet(list) =>
               ToSet(list) \cap {"marks", "db"} = {} /\ (version # 0 => db >= Schema[r])
<1> DEFINE k == <<"check", "add">>
           u == I!Upgrade(r)
           v == <<"version">>
<1>1. /\ k \in Seq(VisitSteps) /\ Ordered(k) /\ k # <<>> /\ ToSet(k) = {"check", "add"}
      /\ I!Schedule = k
  BY DutyLists DEF I!Schedule
<1>2. /\ v \in Seq(VisitSteps) /\ Ordered(v) /\ v # <<>> /\ ToSet(v) = {"version"}
  BY DEF Ordered, ToSet, VisitSteps
<1>3. \/ db >= Schema[r] /\ u = <<>>
      \/ /\ u \in Seq(VisitSteps) /\ Ordered(u) /\ u # <<>>
         /\ ToSet(u) = {"tables", "marks", "check", "add", "db"}
  BY DutyLists DEF I!Upgrade
<1> HIDE DEF k, u, v
<1>4. /\ \A q \in Seq(VisitSteps) : <<>> \o q = q
      /\ ToSet(k) \cap {"marks", "db", "files", "active"} = {} /\ "tables" \notin ToSet(k)
      /\ ToSet(v) \cap {"marks", "db", "files", "active"} = {} /\ "tables" \notin ToSet(v)
  BY <1>1, <1>2
<1>5. /\ v \o k \in Seq(VisitSteps) /\ Ordered(v \o k) /\ v \o k # <<>>
      /\ ToSet(v \o k) = {"version", "check", "add"}
  BY <1>1, <1>2, <1>4, Joined
<1>6. /\ k \o v \in Seq(VisitSteps) /\ Ordered(k \o v) /\ k \o v # <<>>
      /\ ToSet(k \o v) = {"version", "check", "add"}
  BY <1>1, <1>2, <1>4, Joined
<1>7. u # <<>> => /\ u \o k \in Seq(VisitSteps) /\ Ordered(u \o k) /\ u \o k # <<>>
                  /\ ToSet(u \o k) = {"tables", "marks", "check", "add", "db"}
  BY <1>1, <1>3, <1>4, Joined
<1> DEFINE w == (u \o k) \o v
<1>8. /\ w \in Seq(VisitSteps) /\ Ordered(w) /\ w # <<>> /\ ToSet(w) \cap {"files", "active"} = {}
      /\ \/ db >= Schema[r] /\ ToSet(w) = {"version", "check", "add"}
         \/ ToSet(w) = {"tables", "marks", "check", "add", "db", "version"}
  <2>1. CASE u = <<>>
    <3>1. w = k \o v
      BY <1>1, <1>4, <2>1
    <3> HIDE DEF w
    <3> QED BY <1>3, <1>6, <2>1, <3>1
  <2>2. CASE u # <<>>
    <3> DEFINE x == u \o k
    <3>1. /\ x \in Seq(VisitSteps) /\ Ordered(x) /\ x # <<>>
          /\ ToSet(x) = {"tables", "marks", "check", "add", "db"}
      BY <1>7, <2>2
    <3> HIDE DEF x
    <3>2. /\ x \o v \in Seq(VisitSteps) /\ Ordered(x \o v) /\ x \o v # <<>>
          /\ ToSet(x \o v) = ToSet(x) \cup ToSet(v)
      <4>1. ToSet(x) \cap {"files", "active"} = {}
        BY <3>1
      <4> QED BY <1>2, <1>4, <3>1, <4>1, Joined
    <3> QED BY <1>2, <3>1, <3>2 DEF x
  <2> QED BY <2>1, <2>2
<1> HIDE DEF w
<1>9. /\ w \o k \in Seq(VisitSteps) /\ Ordered(w \o k) /\ w \o k # <<>>
      /\ ToSet(w \o k) = ToSet(w) \cup ToSet(k)
  BY <1>1, <1>4, <1>8, Joined
<1> DEFINE list == I!Migration(r) \o I!Schedule
<1>10. CASE version = r
  <2>1. r # 0 /\ list = u \o k
    BY <1>1, <1>10, InstallationBounds DEF I!Migration, u
  <2> HIDE DEF list
  <2>2. CASE u = <<>>
    <3>1. list = k /\ db >= Schema[r]
      BY <1>1, <1>3, <1>4, <2>1, <2>2
    <3> QED BY <1>1, <1>10, <3>1 DEF list
  <2>3. CASE u # <<>>
    <3>1. ToSet(list) = {"tables", "marks", "check", "add", "db"}
      BY <1>7, <2>1, <2>3
    <3> QED BY <1>7, <1>10, <2>1, <2>3, <3>1 DEF list
  <2> QED BY <2>2, <2>3
<1>11. CASE version = 0
  <2>1. list = v \o k
    BY <1>1, <1>11, InstallationBounds DEF I!Migration, v
  <2> HIDE DEF list
  <2>2. ToSet(list) = {"version", "check", "add"} /\ list \in Seq(VisitSteps) /\ Ordered(list) /\ list # <<>>
    BY <1>5, <2>1
  <2> QED BY <1>11, <2>2 DEF list
<1>12. CASE version # 0 /\ version # r
  <2>1. I!Migration(r) = u \o k \o v
    BY <1>1, <1>12 DEF I!Migration, u, v
  <2>2. list = w \o k
    BY <1>1, <2>1 DEF w
  <2> HIDE DEF list
  <2>3. /\ list \in Seq(VisitSteps) /\ Ordered(list) /\ list # <<>> /\ {"add", "version"} \subseteq ToSet(list)
        /\ \/ db >= Schema[r] /\ ToSet(list) = {"version", "check", "add"}
           \/ ToSet(list) = {"tables", "marks", "check", "add", "db", "version"}
    BY <1>1, <1>8, <1>9, <2>2
  <2> QED BY <2>3 DEF list
<1> QED BY <1>10, <1>11, <1>12
-----------------------------------------------------------------------------
(* A process that has moved takes the place of what it was; the others keep     *)
(* what they have to do, and have had company.                                *)
DutyKept(t, u) ==
    /\ u \in Duty /\ u.goal = t.goal /\ u.release = t.release /\ u.fresh = t.fresh
    /\ u.missing = t.missing /\ u.todo = t.todo /\ u.alone = FALSE

LEMMA DutyApart ==
  ASSUME NEW t \in Duty
  PROVE  DutyKept(t, [t EXCEPT !.alone = FALSE])
  BY DEF Duty, DutyKept

LEMMA OtherDuties ==
  ASSUME duties \in [I!Processes -> Duty], NEW p \in I!Processes, NEW u \in Duty, I!Became(p, u)
  PROVE  /\ duties' \in [I!Processes -> Duty] /\ duties'[p] = u
         /\ \A q \in I!Processes \ {p} : DutyKept(duties[q], duties'[q])
<1>1. duties' = [q \in I!Processes |-> IF q = p THEN u ELSE [duties[q] EXCEPT !.alone = FALSE]]
  BY DEF I!Became
<1>2. \A q \in I!Processes : duties[q] \in Duty /\ DutyKept(duties[q], [duties[q] EXCEPT !.alone = FALSE])
  BY DutyApart
<1>3. \A q \in I!Processes \ {p} : duties'[q] = [duties[q] EXCEPT !.alone = FALSE]
  BY <1>1
<1>4. \A q \in I!Processes \ {p} : DutyKept(duties[q], duties'[q]) /\ duties'[q] \in Duty
  BY <1>2, <1>3 DEF DutyKept
<1>5. duties'[p] = u
  BY <1>1
<1>6. duties' = [q \in I!Processes |-> duties'[q]]
  BY <1>1
<1> QED BY <1>4, <1>5, <1>6

LEMMA DutiesGoOn ==
  ASSUME DutiesTyped, NEW p \in I!Processes, NEW u \in Duty, I!Became(p, u), DutyOK(u),
         p \in Requests => VisitOK(u),
         AdminOK(IF p = I!Admin THEN u ELSE duties[I!Admin], release', active')
  PROVE  DutiesTyped'
<1>1. /\ duties' \in [I!Processes -> Duty] /\ duties'[p] = u
      /\ \A q \in I!Processes \ {p} : DutyKept(duties[q], duties'[q])
  BY OtherDuties DEF DutiesTyped
<1>2. \A q \in I!Processes : DutyOK(duties'[q])
  BY <1>1 DEF DutiesTyped, DutyOK, DutyKept
<1>3. \A q \in Requests : VisitOK(duties'[q])
  BY <1>1 DEF DutiesTyped, VisitOK, DutyKept, StillToDo, I!Processes
<1>4. AdminOK(duties'[I!Admin], release', active')
  <2>1. CASE p = I!Admin
    BY <1>1, <2>1
  <2>2. CASE p # I!Admin
    BY <1>1, <2>2 DEF AdminOK, DutyKept, StillToDo, I!Processes
  <2> QED BY <2>1, <2>2
<1> QED BY <1>1, <1>2, <1>3, <1>4 DEF DutiesTyped

LEMMA NooneElse ==
  ASSUME DutiesTyped, NEW p \in I!Processes, NEW u \in Duty, I!Became(p, u),
         p \in Requests => Repaired(u, version', db', tables', cron', skipped'),
         p = I!Admin => Erased(u, version', db', tables', cron', bytes')
  PROVE  Undisturbed'
<1>1. /\ duties'[p] = u /\ \A q \in I!Processes \ {p} : DutyKept(duties[q], duties'[q])
  BY OtherDuties DEF DutiesTyped
<1>2. \A q \in Requests : Repaired(duties'[q], version', db', tables', cron', skipped')
  BY <1>1 DEF DutyKept, Repaired, I!Processes
<1>3. Erased(duties'[I!Admin], version', db', tables', cron', bytes')
  BY <1>1 DEF DutyKept, Erased, I!Processes
<1> QED BY <1>2, <1>3 DEF Undisturbed
-----------------------------------------------------------------------------
DutyAdds(task, h) == task.todo # <<>> /\ Head(task.todo) = "add" /\ h \in task.missing

LEMMA DutiesFinite ==
  /\ IsFiniteSet(AtWork) /\ \A h : IsFiniteSet(ScheduledBy(h)) /\ ScheduledBy(h) \subseteq AtWork
  /\ Cardinality(AtWork) \in Nat /\ \A h : Cardinality(ScheduledBy(h)) \in Nat
<1>1. IsFiniteSet(I!Processes)
  <2>1. IsFiniteSet({I!Admin})
    BY FS_Singleton
  <2> QED BY <2>1, InstallationBounds, FS_Union DEF I!Processes
<1>2. AtWork \subseteq I!Processes /\ \A h : ScheduledBy(h) \subseteq AtWork
  BY DEF AtWork, ScheduledBy
<1> QED BY <1>1, <1>2, FS_Subset, FS_CardinalityType

LEMMA FewWorking ==
  ASSUME InstallInv, NEW p \in I!Processes, NEW u \in Duty, I!Became(p, u),
         {loads', changes'} \subseteq Nat, loads' + changes' >= loads + changes,
         I!Busy(p) \/ u.todo = <<>> \/ loads' + changes' = loads + changes + 1
  PROVE  IsFiniteSet(AtWork') /\ Cardinality(AtWork') <= loads' + changes'
<1>1. /\ duties'[p] = u /\ \A q \in I!Processes \ {p} : duties'[q].todo = duties[q].todo
  BY OtherDuties DEF InstallInv, DutiesTyped, DutyKept
<1>2. AtWork' \subseteq AtWork \cup {p} /\ (I!Busy(p) \/ u.todo = <<>> => AtWork' \subseteq AtWork)
  BY <1>1 DEF AtWork, I!Busy
<1>3. IsFiniteSet(AtWork) /\ Cardinality(AtWork) \in Nat /\ Cardinality(AtWork) <= loads + changes
  BY DutiesFinite DEF InstallInv, FewEvents
<1>4. IsFiniteSet(AtWork \cup {p}) /\ Cardinality(AtWork \cup {p}) <= Cardinality(AtWork) + 1
      /\ Cardinality(AtWork \cup {p}) \in Nat
  <2>1. /\ IsFiniteSet(AtWork \cup {p})
        /\ Cardinality(AtWork \cup {p}) =
              IF p \in AtWork THEN Cardinality(AtWork) ELSE Cardinality(AtWork) + 1
    BY <1>3, FS_AddElement
  <2> QED BY <1>3, <2>1
<1>5. IsFiniteSet(AtWork') /\ Cardinality(AtWork') \in Nat /\ Cardinality(AtWork') <= Cardinality(AtWork \cup {p})
  BY <1>2, <1>4, FS_Subset, FS_CardinalityType
<1>6. loads \in Nat /\ changes \in Nat
  BY InstallationBounds DEF InstallInv, SiteTyped
<1>7. CASE I!Busy(p) \/ u.todo = <<>>
  <2>1. Cardinality(AtWork') <= Cardinality(AtWork)
    BY <1>2, <1>3, <1>7, FS_Subset
  <2> QED BY <1>3, <1>5, <1>6, <2>1
<1>8. CASE loads' + changes' = loads + changes + 1
  BY <1>3, <1>4, <1>5, <1>6, <1>8
<1> QED BY <1>7, <1>8

(* However it moves, what is scheduled and about to be does not outnumber those *)
(* who have been at it.                                                       *)
LEMMA FewScheduled ==
  ASSUME InstallInv, NEW p \in I!Processes, NEW u \in Duty, I!Became(p, u),
         {loads', changes'} \subseteq Nat, loads' + changes' >= loads + changes,
         I!Busy(p) \/ u.todo = <<>> \/ loads' + changes' = loads + changes + 1,
         \A h \in I!Hooks :
            /\ cron'[h] \in Nat
            /\ \/ DutyAdds(u, h) /\ cron'[h] = 0
               \/ ~DutyAdds(u, h) /\ cron'[h] <= cron[h]
               \/ ~DutyAdds(u, h) /\ p \in ScheduledBy(h) /\ cron'[h] <= cron[h] + 1
  PROVE  FewEvents'
<1>1. IsFiniteSet(AtWork') /\ Cardinality(AtWork') \in Nat /\ Cardinality(AtWork') <= loads' + changes'
  BY FewWorking, FS_CardinalityType
<1>2. /\ duties'[p] = u /\ \A q \in I!Processes \ {p} : duties'[q].todo = duties[q].todo /\ duties'[q].missing = duties[q].missing
  BY OtherDuties DEF InstallInv, DutiesTyped, DutyKept
<1>3. ASSUME NEW h \in I!Hooks PROVE cron'[h] + Cardinality(ScheduledBy(h)') <= loads' + changes'
  <2>1. /\ IsFiniteSet(ScheduledBy(h)) /\ Cardinality(ScheduledBy(h)) \in Nat /\ cron[h] \in Nat
        /\ cron[h] + Cardinality(ScheduledBy(h)) <= loads + changes /\ loads \in Nat /\ changes \in Nat
    BY DutiesFinite, InstallationBounds DEF InstallInv, FewEvents, SiteTyped
  <2>2. ScheduledBy(h)' \subseteq AtWork'
    BY DEF ScheduledBy, AtWork
  <2>3. IsFiniteSet(ScheduledBy(h)') /\ Cardinality(ScheduledBy(h)') \in Nat /\ Cardinality(ScheduledBy(h)') <= Cardinality(AtWork')
    BY <1>1, <2>2, FS_Subset, FS_CardinalityType
  <2>4. CASE DutyAdds(u, h) /\ cron'[h] = 0
    BY <1>1, <2>3, <2>4
  <2>5. CASE ~DutyAdds(u, h)
    <3>1. ScheduledBy(h)' \subseteq ScheduledBy(h) \ {p}
      BY <1>2, <2>5 DEF ScheduledBy, DutyAdds, I!Busy
    <3>2. IsFiniteSet(ScheduledBy(h) \ {p}) /\ Cardinality(ScheduledBy(h) \ {p}) \in Nat
          /\ Cardinality(ScheduledBy(h) \ {p}) = IF p \in ScheduledBy(h) THEN Cardinality(ScheduledBy(h)) - 1 ELSE Cardinality(ScheduledBy(h))
      BY <2>1, FS_RemoveElement, FS_CardinalityType
    <3>3. Cardinality(ScheduledBy(h)') <= Cardinality(ScheduledBy(h) \ {p})
      BY <3>1, <3>2, FS_Subset
    <3>4. Cardinality(ScheduledBy(h)') <= Cardinality(ScheduledBy(h))
      BY <2>1, <2>3, <3>2, <3>3
    <3>5. PICK x \in Nat, y \in Nat, begun \in Nat :
             x = cron[h] /\ y = cron'[h] /\ begun = loads + changes /\ begun <= loads' + changes'
      BY <2>1
    <3>6. PICK a \in Nat, b \in Nat : a = Cardinality(ScheduledBy(h)') /\ b = Cardinality(ScheduledBy(h))
      BY <2>1, <2>3
    <3>7. x + b <= begun /\ a <= b
      BY <2>1, <3>4, <3>5, <3>6
    <3>8. y <= x \/ (y <= x + 1 /\ p \in ScheduledBy(h))
      BY <2>5, <3>5
    <3>9. p \in ScheduledBy(h) => a <= b - 1
      BY <3>2, <3>3, <3>6
    <3>10. y + a <= begun
      BY <3>7, <3>8, <3>9
    <3>11. \A c \in Nat, d \in Nat : y + a <= begun /\ begun <= c + d => y + a <= c + d
      OBVIOUS
    <3>12. y + a <= loads' + changes'
      BY <3>5, <3>10, <3>11
    <3> QED BY <3>5, <3>6, <3>12
  <2> QED BY <2>4, <2>5
<1> QED BY <1>1, <1>3 DEF FewEvents
-----------------------------------------------------------------------------
(* A process that has done the first of its steps. *)
DutyMoved(t, u, m) ==
    /\ u \in Duty /\ u.goal = t.goal /\ u.release = t.release /\ u.fresh = t.fresh
    /\ u.alone = t.alone /\ u.missing = m /\ u.todo = Tail(t.todo)

LEMMA DutyMoves ==
  ASSUME NEW t \in Duty, t.todo # <<>>, NEW m \in SUBSET I!Hooks
  PROVE  /\ DutyMoved(t, [t EXCEPT !.todo = Tail(@)], t.missing)
         /\ DutyMoved(t, [t EXCEPT !.todo = Tail(@), !.missing = m], m)
<1>1. Tail(t.todo) \in Seq(DutySteps)
  BY NotEmpty DEF Duty
<1>2. DutyMoved(t, [t EXCEPT !.todo = Tail(@)], t.missing)
  BY <1>1 DEF Duty, DutyMoved
<1>3. DutyMoved(t, [t EXCEPT !.todo = Tail(@), !.missing = m], m)
  BY <1>1 DEF Duty, DutyMoved
<1> QED BY <1>2, <1>3

(* What it has done was on its list, and what is left is the rest. *)
DutyRest(t, u) ==
    /\ Head(t.todo) \in StillToDo(t) /\ StillToDo(u) \subseteq StillToDo(t) /\ StillToDo(t) \ {Head(t.todo)} \subseteq StillToDo(u)
    /\ u.todo # <<>> /\ Head(u.todo) = "add" => Head(t.todo) = "check"
    /\ Head(t.todo) \in {"marks", "db", "active"} => "tables" \notin StillToDo(t)
    /\ Head(t.todo) = "active" => "marks" \notin StillToDo(t)
    /\ Head(t.todo) \in {"files", "active"} => u.todo = <<>> /\ StillToDo(u) = {}

LEMMA DutyRested ==
  ASSUME DutiesTyped, NEW p \in I!Processes, I!Busy(p), NEW m \in SUBSET I!Hooks,
         NEW u \in Duty, DutyMoved(duties[p], u, m), \A h \in m : h \in Events[duties[p].release]
  PROVE  DutyRest(duties[p], u) /\ DutyOK(u)
<1>1. /\ duties[p] \in Duty /\ duties[p].todo \in Seq(DutySteps) /\ duties[p].todo # <<>> /\ Begun(duties[p].todo)
  BY DEF DutiesTyped, I!Busy, Duty, DutyOK
<1>2. DutyRest(duties[p], u) /\ Begun(u.todo)
  <2> DEFINE q == duties[p].todo
  <2>1. u.todo = Tail(q)
    BY DEF DutyMoved
  <2>2. /\ Begun(Tail(q)) /\ Head(q) \in ToSet(q)
        /\ ToSet(Tail(q)) \subseteq ToSet(q) /\ ToSet(q) \ {Head(q)} \subseteq ToSet(Tail(q))
        /\ Tail(q) # <<>> /\ Head(Tail(q)) = "add" => Head(q) = "check"
        /\ Head(q) \in {"marks", "db", "active"} => "tables" \notin ToSet(q)
        /\ Head(q) = "active" => "marks" \notin ToSet(q)
        /\ Head(q) \in {"files", "active"} => Tail(q) = <<>>
    BY <1>1, Onward
  <2>3. ToSet(<<>>) = {}
    BY DEF ToSet
  <2> HIDE DEF q
  <2> QED BY <2>1, <2>2, <2>3 DEF DutyRest, StillToDo, q
<1>3. \A h \in u.missing : h \in Events[u.release]
  BY DEF DutyMoved
<1> QED BY <1>2, <1>3 DEF DutyOK

LEMMA VisitMoves ==
  ASSUME DutiesTyped, NEW p \in Requests, I!Busy(p), NEW m, NEW u \in Duty, DutyMoved(duties[p], u, m), DutyRest(duties[p], u)
  PROVE  /\ VisitOK(u) /\ u.goal = "visit" /\ duties[p].release \in I!Releases
         /\ Head(duties[p].todo) \in VisitSteps
  BY DEF DutiesTyped, DutyMoved, DutyRest, VisitOK, I!Busy

LEMMA AdminMoved ==
  ASSUME DutiesTyped, I!Busy(I!Admin), NEW m, NEW u \in Duty, DutyMoved(duties[I!Admin], u, m), DutyRest(duties[I!Admin], u)
  PROVE  /\ duties[I!Admin].release = release /\ release \in I!Releases
         /\ duties[I!Admin].goal # "deactivate" => ~active
         /\ Head(duties[I!Admin].todo) \in StepsTo(u.goal) /\ duties[I!Admin].goal = u.goal
         /\ u.goal \in MerchantGoals
         /\ AdminOK(u, release, active)
<1>1. AdminOK(duties[I!Admin], release, active) /\ duties[I!Admin].todo # <<>>
  BY DEF DutiesTyped, I!Busy
<1>2. u.goal = "activate" /\ "tables" \in StillToDo(u) => "marks" \in StillToDo(u)
  BY <1>1 DEF AdminOK, DutyMoved, DutyRest
<1> QED BY <1>1, <1>2 DEF AdminOK, DutyMoved, DutyRest

(* As for what is recorded: while neither the site changes nor what would make  *)
(* one rely on it. *)
LEMMA SchemaStays ==
  ASSUME InstallInv, ~skipped, NEW p \in I!Processes, NEW u \in Duty, I!Became(p, u),
         db' = db, tables \subseteq tables', active' => active,
         p \in Requests /\ "tables" \notin StillToDo(u) /\ StillToDo(u) \cap {"marks", "db"} # {} =>
            /\ "tables" \notin StillToDo(duties[p]) /\ StillToDo(duties[p]) \cap {"marks", "db"} # {}
            /\ u.release = duties[p].release,
         p = I!Admin => \A step \in {"marks", "tables"} :
            u.todo # <<>> /\ u.goal = "activate" /\ step \notin StillToDo(u) =>
                Activating(step) /\ u.release = duties[I!Admin].release
  PROVE  SchemaKept'
<1>1. /\ duties'[p] = u /\ \A q \in I!Processes \ {p} : DutyKept(duties[q], duties'[q])
  BY OtherDuties DEF InstallInv, DutiesTyped
<1>2. \A step \in {"marks", "tables"} :
        Activating(step)' => Activating(step) /\ duties'[I!Admin].release = duties[I!Admin].release
  BY <1>1 DEF Activating, I!Busy, DutyKept, StillToDo, I!Processes
<1>3. SchemaKept
  BY DEF InstallInv
<1>4. active' \/ Activating("marks")' => 1 .. db' \subseteq tables'
  BY <1>2, <1>3 DEF SchemaKept
<1>5. Activating("tables")' => 1 .. Schema[duties'[I!Admin].release] \subseteq tables'
  BY <1>2, <1>3 DEF SchemaKept
<1>6. ASSUME active' \/ Activating("tables")', NEW q \in Requests,
             "tables" \notin StillToDo(duties'[q]), StillToDo(duties'[q]) \cap {"marks", "db"} # {}
      PROVE  1 .. Schema[duties'[q].release] \subseteq tables'
  <2>1. /\ "tables" \notin StillToDo(duties[q]) /\ StillToDo(duties[q]) \cap {"marks", "db"} # {}
        /\ duties'[q].release = duties[q].release
    BY <1>1, <1>6 DEF DutyKept, StillToDo, I!Processes
  <2> QED BY <1>2, <1>3, <1>6, <2>1 DEF SchemaKept
<1> QED BY <1>4, <1>5, <1>6 DEF SchemaKept
-----------------------------------------------------------------------------
(* A process that has done the step its list begins with. *)
DutyDid(p, step, u, m) ==
    /\ I!Became(p, u) /\ I!Busy(p) /\ Head(duties[p].todo) = step
    /\ DutyMoved(duties[p], u, m) /\ DutyRest(duties[p], u) /\ DutyOK(u)
    /\ p \in Requests => /\ VisitOK(u) /\ u.goal = "visit" /\ u.release \in I!Releases /\ step \in VisitSteps
    /\ p = I!Admin =>
          /\ u.release = release /\ release \in I!Releases
          /\ u.goal # "deactivate" => ~active
          /\ step \in StepsTo(u.goal) /\ u.goal \in MerchantGoals /\ AdminOK(u, release, active)

LEMMA Doings ==
  ASSUME InstallInv, NEW p \in I!Processes, NEW step, I!Doing(p, step), NEW m \in SUBSET I!Hooks,
         \A h \in m : h \in Events[duties[p].release], NEW u \in Duty, DutyMoved(duties[p], u, m), I!Became(p, u)
  PROVE  DutyDid(p, step, u, m)
<1>1. DutiesTyped /\ I!Busy(p) /\ Head(duties[p].todo) = step
  BY DEF InstallInv, I!Doing
<1>2. DutyRest(duties[p], u) /\ DutyOK(u)
  BY <1>1, DutyRested
<1>3. u.release = duties[p].release
  BY DEF DutyMoved
<1>4. p \in Requests => /\ VisitOK(u) /\ u.goal = "visit" /\ u.release \in I!Releases /\ step \in VisitSteps
  BY <1>1, <1>2, <1>3, VisitMoves
<1>5. p = I!Admin => /\ u.release = release /\ release \in I!Releases
                     /\ u.goal # "deactivate" => ~active
                     /\ step \in StepsTo(u.goal) /\ u.goal \in MerchantGoals /\ AdminOK(u, release, active)
  BY <1>1, <1>2, <1>3, AdminMoved
<1> QED BY <1>1, <1>2, <1>4, <1>5 DEF DutyDid

LEMMA DutyDoes ==
  ASSUME InstallInv, NEW p \in I!Processes, NEW step, I!Doing(p, step), I!Continues(p)
  PROVE  \E u \in Duty : DutyDid(p, step, u, duties[p].missing)
<1> DEFINE t == duties[p]
           u == [t EXCEPT !.todo = Tail(@)]
<1>1. t \in Duty /\ t.todo # <<>> /\ t.missing \in SUBSET I!Hooks /\ \A h \in t.missing : h \in Events[t.release]
  BY DEF InstallInv, DutiesTyped, DutyOK, Duty, I!Doing, I!Busy
<1>2. DutyMoved(t, u, t.missing)
  <2> HIDE DEF t
  <2> QED BY <1>1, DutyMoves
<1>3. u \in Duty
  BY <1>2 DEF DutyMoved
<1>4. I!Became(p, u)
  BY DEF I!Continues
<1> HIDE DEF u
<1> QED BY <1>1, <1>2, <1>3, <1>4, Doings

LEMMA OnItsWay ==
  ASSUME InstallInv, NEW p \in I!Processes, NEW step, NEW m, NEW u \in Duty, DutyDid(p, step, u, m),
         release' = release, active' = active
  PROVE  DutiesTyped'
<1>1. AdminOK(IF p = I!Admin THEN u ELSE duties[I!Admin], release', active')
  BY DEF DutyDid, InstallInv, DutiesTyped
<1> QED BY <1>1, DutiesGoOn DEF DutyDid, InstallInv

LEMMA StillNoneNewer ==
  ASSUME InstallInv, NEW p \in I!Processes, NEW u \in Duty, I!Became(p, u), release' = release,
         release # 0 => /\ tables' \subseteq 1 .. Schema[release]
                        /\ \A h \in I!Hooks : cron'[h] > 0 => h \in Events[release],
         p \in Requests /\ u.todo # <<>> => u.release <= release \/ (I!Busy(p) /\ u.release = duties[p].release)
  PROVE  NoneNewer'
<1>1. /\ duties'[p] = u /\ \A q \in I!Processes \ {p} : DutyKept(duties[q], duties'[q])
  BY OtherDuties DEF InstallInv, DutiesTyped
<1>2. ASSUME release # 0, NEW q \in Requests, duties'[q].todo # <<>> PROVE duties'[q].release <= release
  BY <1>1, <1>2 DEF InstallInv, NoneNewer, DutyKept, I!Processes, I!Busy
<1> QED BY <1>2 DEF NoneNewer, I!Busy

LEMMA QuietSchema ==
  ASSUME InstallInv, ~skipped, NEW p \in I!Processes, NEW step, NEW m, NEW u \in Duty, DutyDid(p, step, u, m),
         step \notin {"tables", "marks"}, db' = db, tables \subseteq tables', active' => active
  PROVE  SchemaKept'
<1>1. /\ StillToDo(u) \subseteq StillToDo(duties[p]) /\ StillToDo(duties[p]) \ {step} \subseteq StillToDo(u)
      /\ u.release = duties[p].release /\ u.goal = duties[p].goal
  BY DEF DutyDid, DutyRest, DutyMoved
<1>2. "tables" \in StillToDo(duties[p]) => "tables" \in StillToDo(u)
  BY <1>1
<1>3. "marks" \in StillToDo(duties[p]) => "marks" \in StillToDo(u)
  BY <1>1
<1> QED BY <1>1, <1>2, <1>3, SchemaStays DEF DutyDid, Activating

(* With the plugin off and nobody turning it on, no schema is relied on. *)
LEMMA OffSchema ==
  ASSUME InstallInv, NEW u \in Duty, I!Became(I!Admin, u), active' = FALSE,
         u.goal # "activate" \/ {"tables", "marks"} \subseteq StillToDo(u)
  PROVE  SchemaKept'
<1>1. duties'[I!Admin] = u
  BY OtherDuties DEF InstallInv, DutiesTyped, I!Processes
<1>2. ~Activating("marks")' /\ ~Activating("tables")'
  BY <1>1 DEF Activating
<1> QED BY <1>2 DEF SchemaKept

(* A step that schedules nothing. *)
LEMMA QuietEvents ==
  ASSUME InstallInv, NEW p \in I!Processes, NEW step, NEW m, NEW u \in Duty, DutyDid(p, step, u, m),
         step # "check", loads' = loads, changes' = changes, cron' \in [I!Hooks -> Nat],
         \A h \in I!Hooks : cron'[h] <= cron[h] \/ (p \in ScheduledBy(h) /\ cron'[h] <= cron[h] + 1)
  PROVE  FewEvents'
<1>1. loads \in Nat /\ changes \in Nat
  BY InstallationBounds DEF InstallInv, SiteTyped
<1>2. \A h \in I!Hooks : ~DutyAdds(u, h)
  BY DEF DutyAdds, DutyDid, DutyRest
<1>3. I!Became(p, u) /\ I!Busy(p)
  BY DEF DutyDid
<1> QED BY <1>1, <1>2, <1>3, FewScheduled
-----------------------------------------------------------------------------
LEMMA Releasing ==
  /\ \A r \in I!Releases : r \in Nat /\ r >= 1 /\ Schema[r] \in Nat /\ Events[r] \subseteq I!Hooks
  /\ \A r, s \in I!Releases : r <= s => Schema[r] <= Schema[s] /\ Events[r] \subseteq Events[s]
<1>1. \A r \in I!Releases : r \in Nat /\ r >= 1 /\ Schema[r] \in Nat /\ Events[r] \subseteq I!Hooks
  BY InstallationBounds DEF I!Hooks
<1>2. ASSUME NEW r \in I!Releases, NEW s \in I!Releases, r <= s
      PROVE Schema[r] <= Schema[s] /\ Events[r] \subseteq Events[s]
  <2>1. CASE r = s
    BY <1>1, <2>1
  <2>2. CASE r < s
    BY <2>2, InstallationBounds
  <2> QED BY <1>1, <1>2, <2>1, <2>2
<1> QED BY <1>1, <1>2

LEMMA DoesCreateTables ==
  ASSUME InstallInv, NEW p \in I!Processes, NEW made \in BOOLEAN, I!CreateTables(p, made)
  PROVE  InstallInv'
<1>1. PICK u \in Duty : DutyDid(p, "tables", u, duties[p].missing)
  BY DutyDoes DEF I!CreateTables
<1> DEFINE t == duties[p]
<1>2. /\ I!Became(p, u) /\ t.goal = u.goal /\ t.release = u.release /\ t.alone = u.alone /\ t.fresh = u.fresh
      /\ t.missing = u.missing /\ StillToDo(u) \subseteq StillToDo(t) /\ StillToDo(t) \ {"tables"} \subseteq StillToDo(u)
      /\ u.release \in I!Releases /\ I!Busy(p)
  BY <1>1 DEF DutyDid, DutyMoved, DutyRest, I!Processes
<1>3. /\ tables' = IF made THEN tables \cup 1 .. Schema[u.release] ELSE tables
      /\ skipped' = (skipped \/ ~made) /\ deaths' \in 0 .. MaxMishaps
      /\ UNCHANGED <<release, active, woocommerce, version, db, agreed, cron, bytes, changes, loads>>
  BY <1>2, InstallationBounds DEF I!CreateTables, InstallInv, SiteTyped
<1>4. DutiesTyped'
  BY <1>1, <1>3, OnItsWay
<1>5. SiteTyped'
  <2>1. 1 .. Schema[u.release] \subseteq Nat
    BY <1>2, Releasing
  <2>2. tables' \subseteq Nat /\ skipped' \in BOOLEAN
    BY <1>3, <2>1 DEF InstallInv, SiteTyped
  <2> QED BY <1>3, <2>2 DEF InstallInv, SiteTyped
<1>6. release # 0 => u.release <= release /\ release \in I!Releases
  <2>1. CASE p = I!Admin
    BY <1>1, <2>1, Releasing DEF DutyDid
  <2>2. CASE p \in Requests
    BY <1>2, <2>2 DEF InstallInv, NoneNewer, SiteTyped
  <2> QED BY <2>1, <2>2 DEF I!Processes
<1>7. NoneNewer'
  <2>1. release # 0 => 1 .. Schema[u.release] \subseteq 1 .. Schema[release]
    BY <1>2, <1>6, Releasing
  <2>2. release # 0 => /\ tables' \subseteq 1 .. Schema[release]
                       /\ \A h \in I!Hooks : cron'[h] > 0 => h \in Events[release]
    BY <1>3, <2>1 DEF InstallInv, NoneNewer
  <2> QED BY <1>2, <1>3, <2>2, StillNoneNewer
<1>8. ~skipped' => SchemaKept'
  <2> SUFFICES ASSUME ~skipped' PROVE SchemaKept'
    OBVIOUS
  <2>1. SchemaKept /\ tables' = tables \cup 1 .. Schema[u.release] /\ ~skipped
    BY <1>3 DEF InstallInv
  <2>2. /\ duties'[p] = u /\ \A q \in I!Processes \ {p} : DutyKept(duties[q], duties'[q])
    BY <1>2, OtherDuties DEF InstallInv, DutiesTyped
  <2>3. Activating("marks")' => Activating("marks")
    BY <1>2, <2>2 DEF Activating, I!Busy, DutyKept, StillToDo, I!Processes
  <2>4. active' \/ Activating("marks")' => 1 .. db' \subseteq tables'
    BY <1>3, <2>1, <2>3 DEF SchemaKept
  <2>5. CASE p = I!Admin
    <3>1. ASSUME NEW q \in Requests, StillToDo(duties'[q]) \cap {"marks", "db"} # {}
          PROVE  1 .. Schema[duties'[q].release] \subseteq tables'
      <4>1. DutyKept(duties[q], duties'[q]) /\ q \in I!Processes /\ I!Admin \notin Requests
        BY <2>2, <2>5, InstallationBounds DEF I!Processes
      <4>2. duties[q].todo # <<>> /\ duties[q].goal = "visit" /\ duties[q].release \in I!Releases
        <5>1. ToSet(<<>>) = {}
          BY DEF ToSet
        <5> QED BY <3>1, <4>1, <5>1 DEF DutyKept, StillToDo, InstallInv, DutiesTyped, VisitOK
      <4>3. u.release = release /\ release \in I!Releases /\ release # 0
        BY <1>1, <2>5, Releasing DEF DutyDid
      <4>4. duties[q].release <= release
        BY <4>2, <4>3 DEF InstallInv, NoneNewer, I!Busy
      <4>5. 1 .. Schema[duties[q].release] \subseteq 1 .. Schema[release]
        BY <4>2, <4>3, <4>4, Releasing
      <4> QED BY <2>1, <4>1, <4>3, <4>5 DEF DutyKept
    <3> QED BY <2>1, <2>2, <2>4, <2>5, <3>1 DEF SchemaKept
  <2>6. CASE p \in Requests
    <3>1. duties'[I!Admin].release = duties[I!Admin].release /\ (Activating("tables")' => Activating("tables"))
      BY <2>2, <2>6, InstallationBounds DEF Activating, I!Busy, DutyKept, StillToDo, I!Processes
    <3>2. ASSUME active' \/ Activating("tables")', NEW q \in Requests,
                 "tables" \notin StillToDo(duties'[q]), StillToDo(duties'[q]) \cap {"marks", "db"} # {}
          PROVE  1 .. Schema[duties'[q].release] \subseteq tables'
      <4>1. CASE q = p
        BY <2>1, <2>2, <4>1
      <4>2. CASE q # p
        BY <1>3, <2>1, <2>2, <3>1, <3>2, <4>2 DEF DutyKept, StillToDo, SchemaKept, I!Processes
      <4> QED BY <4>1, <4>2
    <3> QED BY <1>3, <2>1, <2>4, <3>1, <3>2 DEF SchemaKept
  <2> QED BY <2>5, <2>6 DEF I!Processes
<1>9. Undisturbed'
  <2>1. p \in Requests => Repaired(u, version', db', tables', cron', skipped')
    <3> SUFFICES ASSUME p \in Requests PROVE Repaired(u, version', db', tables', cron', skipped')
      OBVIOUS
    <3>1. Repaired(t, version, db, tables, cron, skipped)
      BY DEF InstallInv, Undisturbed
    <3>2. u.todo # <<>> => Head(u.todo) # "add"
      BY <1>1 DEF DutyDid, DutyRest
    <3> QED BY <1>2, <1>3, <3>1, <3>2 DEF Repaired
  <2>2. p = I!Admin => Erased(u, version', db', tables', cron', bytes')
    BY <1>1 DEF Erased, DutyDid, StepsTo
  <2> QED BY <1>2, <2>1, <2>2, NooneElse DEF InstallInv
<1>10. FewEvents'
  BY <1>1, <1>3, QuietEvents DEF InstallInv, SiteTyped
<1> QED BY <1>4, <1>5, <1>7, <1>8, <1>9, <1>10 DEF InstallInv

(* What every step of a list but the making of tables has in common. *)
LEMMA StepFacts ==
  ASSUME InstallInv, NEW p \in I!Processes, NEW step, NEW m, NEW u \in Duty, DutyDid(p, step, u, m)
  PROVE  LET t == duties[p] IN
         /\ I!Became(p, u) /\ I!Busy(p) /\ t \in Duty
         /\ t.goal = u.goal /\ t.release = u.release /\ t.alone = u.alone /\ t.fresh = u.fresh /\ u.missing = m
         /\ Head(t.todo) = step /\ step \in StillToDo(t)
         /\ StillToDo(u) \subseteq StillToDo(t) /\ StillToDo(t) \ {step} \subseteq StillToDo(u)
         /\ u.release \in I!Releases /\ (release # 0 => u.release <= release /\ release \in I!Releases)
         /\ u.todo # <<>> /\ Head(u.todo) = "add" => step = "check"
         /\ DutiesTyped /\ SiteTyped /\ NoneNewer /\ Undisturbed
<1>1. release # 0 => u.release <= release /\ release \in I!Releases
  <2>1. CASE p = I!Admin
    BY <2>1, Releasing DEF DutyDid
  <2>2. CASE p \in Requests
    BY <2>2 DEF InstallInv, NoneNewer, SiteTyped, DutyDid, DutyMoved
  <2> QED BY <2>1, <2>2 DEF I!Processes
<1>2. u.release \in I!Releases
  BY DEF DutyDid, I!Processes
<1> QED BY <1>1, <1>2 DEF DutyDid, DutyRest, DutyMoved, InstallInv, DutiesTyped

(* A version is recorded where its tables are there. *)
LEMMA SchemaRecorded ==
  ASSUME InstallInv, NEW p \in I!Processes, NEW step \in {"marks", "db"}, NEW u \in Duty,
         DutyDid(p, step, u, duties[p].missing), ~skipped, db' = Schema[u.release], tables' = tables, active' = active
  PROVE  SchemaKept'
<1> DEFINE t == duties[p]
<1>1. /\ I!Became(p, u) /\ I!Busy(p) /\ t.goal = u.goal /\ t.release = u.release
      /\ step \in StillToDo(t) /\ StillToDo(u) \subseteq StillToDo(t) /\ StillToDo(t) \ {step} \subseteq StillToDo(u)
  BY StepFacts
<1>2. "tables" \notin StillToDo(t) /\ "tables" \notin StillToDo(u)
  BY DEF DutyDid, DutyRest
<1>3. SchemaKept
  BY DEF InstallInv
<1>4. /\ duties'[p] = u /\ \A q \in I!Processes \ {p} : DutyKept(duties[q], duties'[q])
  BY <1>1, OtherDuties DEF InstallInv, DutiesTyped
<1>5. CASE p \in Requests
  <2>1. p # I!Admin
    BY <1>5, InstallationBounds
  <2>2. /\ duties'[I!Admin].release = duties[I!Admin].release
        /\ \A k \in {"marks", "tables"} : Activating(k)' => Activating(k)
    BY <1>4, <2>1 DEF Activating, I!Busy, DutyKept, StillToDo, I!Processes
  <2>3. Activating("marks")' => Activating("tables")
    BY <2>2 DEF Activating, InstallInv, DutiesTyped, AdminOK
  <2>4. active \/ Activating("tables") => 1 .. Schema[u.release] \subseteq tables
    BY <1>1, <1>2, <1>3, <1>5 DEF SchemaKept
  <2>5. active' \/ Activating("marks")' => 1 .. db' \subseteq tables'
    BY <2>3, <2>4
  <2>6. Activating("tables")' => 1 .. Schema[duties'[I!Admin].release] \subseteq tables'
    BY <1>3, <2>2 DEF SchemaKept
  <2>7. ASSUME active' \/ Activating("tables")', NEW q \in Requests,
               "tables" \notin StillToDo(duties'[q]), StillToDo(duties'[q]) \cap {"marks", "db"} # {}
        PROVE  1 .. Schema[duties'[q].release] \subseteq tables'
    <3>1. CASE q = p
      BY <1>4, <2>2, <2>4, <2>7, <3>1
    <3>2. CASE q # p
      BY <1>3, <1>4, <2>2, <2>7, <3>2 DEF DutyKept, StillToDo, SchemaKept, I!Processes
    <3> QED BY <3>1, <3>2
  <2> QED BY <2>5, <2>6, <2>7 DEF SchemaKept
<1>6. CASE p = I!Admin
  <2>1. u.goal = "activate"
    BY <1>6 DEF DutyDid, StepsTo, MerchantGoals
  <2>2. Activating("tables")
    BY <1>1, <1>2, <1>6, <2>1 DEF Activating
  <2>3. 1 .. Schema[u.release] \subseteq tables
    BY <1>1, <1>3, <1>6, <2>2 DEF SchemaKept
  <2>4. duties'[I!Admin].release = u.release
    BY <1>4, <1>6
  <2>5. ASSUME NEW q \in Requests,
               "tables" \notin StillToDo(duties'[q]), StillToDo(duties'[q]) \cap {"marks", "db"} # {}
        PROVE  1 .. Schema[duties'[q].release] \subseteq tables'
    <3>1. q \in I!Processes \ {p}
      BY <1>6, InstallationBounds DEF I!Processes
    <3> QED BY <1>3, <1>4, <2>2, <2>5, <3>1 DEF DutyKept, StillToDo, SchemaKept
  <2> QED BY <2>3, <2>4, <2>5 DEF SchemaKept
<1> QED BY <1>5, <1>6 DEF I!Processes

(* A step that schedules nothing, makes no table and puts the plugin neither    *)
(* on nor off, and that takes no one back. *)
LEMMA ReleaseRecorded ==
  ASSUME InstallInv, NEW p \in I!Processes, NEW step, NEW u \in Duty, DutyDid(p, step, u, duties[p].missing),
         step \in {"marks", "db", "version"},
         UNCHANGED <<release, active, woocommerce, tables, cron, bytes, changes, loads, deaths, skipped>>,
         agreed' \in {"unset", "no", "yes"},
         IF step = "version" THEN db' = db ELSE db' = Schema[u.release],
         IF step = "db" THEN version' = version ELSE version' = u.release
  PROVE  InstallInv'
<1> DEFINE t == duties[p]
<1>1. /\ I!Became(p, u) /\ t.goal = u.goal /\ t.release = u.release /\ t.alone = u.alone /\ t.fresh = u.fresh
      /\ u.missing = t.missing /\ step \in StillToDo(t) /\ StillToDo(u) \subseteq StillToDo(t) /\ StillToDo(t) \ {step} \subseteq StillToDo(u)
      /\ u.release \in I!Releases /\ I!Busy(p) /\ (u.todo # <<>> => Head(u.todo) # "add")
      /\ DutiesTyped /\ SiteTyped /\ NoneNewer /\ Undisturbed
  BY StepFacts
<1>2. DutiesTyped'
  BY OnItsWay
<1>3. SiteTyped'
  BY <1>1 DEF SiteTyped
<1>4. NoneNewer'
  BY <1>1, StillNoneNewer DEF NoneNewer
<1>5. ~skipped' => SchemaKept'
  <2>1. CASE step = "version"
    BY <2>1, QuietSchema
  <2>2. CASE step # "version"
    BY <2>2, SchemaRecorded
  <2> QED BY <2>1, <2>2
<1>6. Undisturbed'
  <2>1. p \in Requests => Repaired(u, version', db', tables', cron', skipped')
    <3> SUFFICES ASSUME p \in Requests PROVE Repaired(u, version', db', tables', cron', skipped')
      OBVIOUS
    <3>1. Repaired(t, version, db, tables, cron, skipped)
      BY <1>1 DEF Undisturbed
    <3>2. db \in Int /\ Schema[u.release] \in Nat
      BY <1>1, Releasing DEF SiteTyped
    <3> SUFFICES ASSUME u.goal = "visit", u.alone, ~u.fresh
                 PROVE  Repaired(u, version', db', tables', cron', skipped')
      BY DEF Repaired
    <3>3. "version" \notin StillToDo(u) => version' = u.release
      BY <1>1, <3>1 DEF Repaired
    <3>4. "db" \notin StillToDo(u) => db' >= Schema[u.release]
      BY <1>1, <3>1, <3>2 DEF Repaired
    <3>5. "tables" \notin StillToDo(u) => "tables" \notin StillToDo(t)
      BY <1>1
    <3>6. "add" \notin StillToDo(u) => "add" \notin StillToDo(t)
      BY <1>1
    <3> QED BY <1>1, <3>1, <3>3, <3>4, <3>5, <3>6 DEF Repaired
  <2>2. p = I!Admin => Erased(u, version', db', tables', cron', bytes')
    BY DEF Erased, DutyDid, StepsTo
  <2> QED BY <1>1, <2>1, <2>2, NooneElse
<1>7. FewEvents'
  BY <1>1, QuietEvents DEF SiteTyped
<1> QED BY <1>2, <1>3, <1>4, <1>5, <1>6, <1>7 DEF InstallInv

LEMMA DoesMark ==
  ASSUME InstallInv, NEW p \in I!Processes, I!Mark(p) \/ I!MarkSchema(p) \/ I!MarkVersion(p)
  PROVE  InstallInv'
<1>1. agreed \in {"unset", "no", "yes"}
  BY DEF InstallInv, SiteTyped
<1>2. CASE I!Mark(p)
  <2>1. PICK u \in Duty : DutyDid(p, "marks", u, duties[p].missing)
    BY <1>2, DutyDoes DEF I!Mark
  <2>2. u.release = duties[p].release
    BY <2>1, StepFacts
  <2> QED BY <1>1, <1>2, <2>1, <2>2, ReleaseRecorded DEF I!Mark
<1>3. CASE I!MarkSchema(p)
  <2>1. PICK u \in Duty : DutyDid(p, "db", u, duties[p].missing)
    BY <1>3, DutyDoes DEF I!MarkSchema
  <2>2. u.release = duties[p].release
    BY <2>1, StepFacts
  <2> QED BY <1>1, <1>3, <2>1, <2>2, ReleaseRecorded DEF I!MarkSchema
<1>4. CASE I!MarkVersion(p)
  <2>1. PICK u \in Duty : DutyDid(p, "version", u, duties[p].missing)
    BY <1>4, DutyDoes DEF I!MarkVersion
  <2>2. u.release = duties[p].release
    BY <2>1, StepFacts
  <2> QED BY <1>1, <1>4, <2>1, <2>2, ReleaseRecorded DEF I!MarkVersion
<1> QED BY <1>2, <1>3, <1>4

LEMMA DoesCheck ==
  ASSUME InstallInv, NEW p \in I!Processes, I!Check(p)
  PROVE  InstallInv'
<1> DEFINE t == duties[p]
           m == I!Unscheduled(p)
           u == [t EXCEPT !.todo = Tail(@), !.missing = m]
<1>1. t \in Duty /\ t.todo # <<>> /\ I!Doing(p, "check") /\ t.release \in I!Releases
  BY DEF InstallInv, DutiesTyped, I!Check, I!Doing, I!Busy, VisitOK, AdminOK, I!Processes
<1>2. m \in SUBSET I!Hooks /\ \A h \in m : h \in Events[t.release]
  BY <1>1, Releasing DEF I!Unscheduled
<1>3. DutyMoved(t, u, m) /\ u \in Duty
  <2> HIDE DEF t, m
  <2>1. DutyMoved(t, u, m)
    BY <1>1, <1>2, DutyMoves
  <2> QED BY <2>1 DEF DutyMoved
<1>4. I!Became(p, u)
  BY DEF I!Check
<1>5. \A h \in Events[t.release] : h \in m \/ (h \notin m /\ cron[h] # 0)
  BY DEF I!Unscheduled
<1>6. \A h \in m : cron[h] = 0
  BY DEF I!Unscheduled
<1> HIDE DEF u, m
<1>7. DutyDid(p, "check", u, m)
  BY <1>1, <1>2, <1>3, <1>4, Doings
<1>8. /\ t.goal = u.goal /\ t.release = u.release /\ t.alone = u.alone /\ t.fresh = u.fresh
      /\ u.missing = m /\ StillToDo(u) \subseteq StillToDo(t) /\ StillToDo(t) \ {"check"} \subseteq StillToDo(u)
      /\ u.release \in I!Releases /\ I!Busy(p)
      /\ DutiesTyped /\ SiteTyped /\ NoneNewer /\ Undisturbed
  BY <1>3, <1>7, StepFacts
<1>9. UNCHANGED <<release, active, woocommerce, version, db, agreed, tables, cron, bytes, changes, loads, deaths, skipped>>
  BY DEF I!Check, I!site
<1>10. DutiesTyped' /\ SiteTyped' /\ NoneNewer'
  <2>1. DutiesTyped'
    BY <1>3, <1>7, <1>9, OnItsWay
  <2>2. SiteTyped'
    BY <1>8, <1>9 DEF SiteTyped
  <2>3. NoneNewer'
    BY <1>3, <1>4, <1>8, <1>9, StillNoneNewer DEF NoneNewer
  <2> QED BY <2>1, <2>2, <2>3
<1>11. ~skipped' => SchemaKept'
  BY <1>3, <1>7, <1>9, QuietSchema
<1>12. Undisturbed'
  <2>1. p \in Requests => Repaired(u, version', db', tables', cron', skipped')
    <3> SUFFICES ASSUME p \in Requests, u.goal = "visit", u.alone, ~u.fresh
                 PROVE  Repaired(u, version', db', tables', cron', skipped')
      BY DEF Repaired
    <3>1. Repaired(t, version, db, tables, cron, skipped)
      BY <1>8 DEF Undisturbed
    <3>2. \A k \in {"version", "db", "tables", "add"} : k \notin StillToDo(u) => k \notin StillToDo(t)
      BY <1>8
    <3>3. \A h \in Events[u.release] : cron[h] > 0 \/ h \in u.missing
      <4>1. \A h \in Events[u.release] : cron[h] \in Nat
        BY <1>8, Releasing DEF SiteTyped
      <4> QED BY <1>5, <1>8, <4>1
    <3> QED BY <1>8, <1>9, <3>1, <3>2, <3>3 DEF Repaired
  <2>2. p = I!Admin => Erased(u, version', db', tables', cron', bytes')
    BY <1>7 DEF Erased, DutyDid, StepsTo
  <2> QED BY <1>3, <1>4, <1>8, <2>1, <2>2, NooneElse
<1>13. FewEvents'
  <2>1. \A h \in I!Hooks : /\ cron'[h] \in Nat
                           /\ (DutyAdds(u, h) /\ cron'[h] = 0) \/ (~DutyAdds(u, h) /\ cron'[h] <= cron[h])
    BY <1>6, <1>8, <1>9 DEF SiteTyped, DutyAdds
  <2>2. {loads', changes'} \subseteq Nat /\ loads' + changes' >= loads + changes
    BY <1>8, <1>9, InstallationBounds DEF SiteTyped
  <2> QED BY <1>3, <1>4, <1>8, <2>1, <2>2, FewScheduled
<1> QED BY <1>10, <1>11, <1>12, <1>13 DEF InstallInv

LEMMA DoesAdd ==
  ASSUME InstallInv, NEW p \in I!Processes, I!Add(p)
  PROVE  InstallInv'
<1> DEFINE t == duties[p]
<1>1. PICK u \in Duty : DutyDid(p, "add", u, t.missing)
  BY DutyDoes DEF I!Add
<1>2. /\ I!Became(p, u) /\ t.goal = u.goal /\ t.release = u.release /\ t.alone = u.alone /\ t.fresh = u.fresh
      /\ u.missing = t.missing /\ StillToDo(u) \subseteq StillToDo(t) /\ StillToDo(t) \ {"add"} \subseteq StillToDo(u)
      /\ Head(t.todo) = "add" /\ "add" \in StillToDo(t)
      /\ u.release \in I!Releases /\ I!Busy(p) /\ (u.todo # <<>> => Head(u.todo) # "add")
      /\ (release # 0 => u.release <= release /\ release \in I!Releases)
      /\ DutiesTyped /\ SiteTyped /\ NoneNewer /\ Undisturbed
  BY <1>1, StepFacts
<1>3. /\ cron' = [h \in I!Hooks |-> IF h \in t.missing THEN cron[h] + 1 ELSE cron[h]]
      /\ UNCHANGED <<release, active, woocommerce, version, db, agreed, tables, bytes, changes, loads, deaths, skipped>>
  BY DEF I!Add
<1>4. \A h \in I!Hooks : cron[h] \in Nat /\ cron'[h] = IF h \in t.missing THEN cron[h] + 1 ELSE cron[h]
  BY <1>2, <1>3 DEF SiteTyped
<1>5. \A h \in t.missing : h \in Events[u.release] /\ h \in I!Hooks
  <2>1. \A h \in t.missing : h \in Events[t.release]
    BY <1>2 DEF DutiesTyped, DutyOK
  <2> QED BY <1>2, <2>1, Releasing
<1>6. cron' \in [I!Hooks -> Nat]
  BY <1>3, <1>4
<1>7. DutiesTyped' /\ SiteTyped'
  <2>1. DutiesTyped'
    BY <1>1, <1>3, OnItsWay
  <2>2. SiteTyped'
    BY <1>2, <1>3, <1>6 DEF SiteTyped
  <2> QED BY <2>1, <2>2
<1>8. NoneNewer'
  <2>1. release # 0 => \A h \in I!Hooks : cron'[h] > 0 => h \in Events[release]
    BY <1>2, <1>4, <1>5, Releasing DEF NoneNewer
  <2> QED BY <1>2, <1>3, <2>1, StillNoneNewer DEF NoneNewer
<1>9. ~skipped' => SchemaKept'
  BY <1>1, <1>3, QuietSchema
<1>10. Undisturbed'
  <2>1. p \in Requests => Repaired(u, version', db', tables', cron', skipped')
    <3> SUFFICES ASSUME p \in Requests, u.goal = "visit", u.alone, ~u.fresh
                 PROVE  Repaired(u, version', db', tables', cron', skipped')
      BY DEF Repaired
    <3>1. Repaired(t, version, db, tables, cron, skipped)
      BY <1>2 DEF Undisturbed
    <3>2. \A k \in {"version", "db", "tables"} : k \notin StillToDo(u) => k \notin StillToDo(t)
      BY <1>2
    <3>3. \A h \in Events[u.release] : cron'[h] > 0
      <4>1. \A h \in Events[u.release] : h \in I!Hooks /\ (cron[h] > 0 \/ h \in t.missing)
        BY <1>2, <3>1, Releasing DEF Repaired, I!Busy
      <4> QED BY <1>4, <4>1
    <3> QED BY <1>2, <1>3, <3>1, <3>2, <3>3 DEF Repaired
  <2>2. p = I!Admin => Erased(u, version', db', tables', cron', bytes')
    BY <1>1 DEF Erased, DutyDid, StepsTo
  <2> QED BY <1>2, <2>1, <2>2, NooneElse
<1>11. FewEvents'
  <2>1. \A h \in t.missing : p \in ScheduledBy(h)
    BY <1>2 DEF ScheduledBy, I!Busy
  <2>2. \A h \in I!Hooks : cron'[h] <= cron[h] \/ (p \in ScheduledBy(h) /\ cron'[h] <= cron[h] + 1)
    BY <1>4, <2>1
  <2> QED BY <1>1, <1>3, <1>6, <2>2, QuietEvents
<1> QED BY <1>7, <1>8, <1>9, <1>10, <1>11 DEF InstallInv

(* Every process has had company when nobody moved but a customer. *)
LEMMA DoesUpload ==
  ASSUME InstallInv, I!Upload
  PROVE  InstallInv'
<1>1. /\ duties' = [q \in I!Processes |-> [duties[q] EXCEPT !.alone = FALSE]]
      /\ UNCHANGED <<release, active, woocommerce, version, db, agreed, tables, cron, changes, loads, deaths, skipped>>
      /\ bytes' = TRUE
  BY DEF I!Upload
<1>2. \A q \in I!Processes : duties[q] \in Duty /\ DutyKept(duties[q], [duties[q] EXCEPT !.alone = FALSE])
  BY DutyApart DEF InstallInv, DutiesTyped
<1>3. \A q \in I!Processes : duties'[q] = [duties[q] EXCEPT !.alone = FALSE]
  BY <1>1
<1>4. \A q \in I!Processes : DutyKept(duties[q], duties'[q])
  BY <1>2, <1>3
<1>5. duties' \in [I!Processes -> Duty]
  BY <1>1, <1>3, <1>4 DEF DutyKept
<1>6. \A q \in I!Processes : /\ duties'[q].todo = duties[q].todo /\ duties'[q].missing = duties[q].missing
                             /\ duties'[q].release = duties[q].release /\ duties'[q].goal = duties[q].goal
                             /\ duties'[q].alone = FALSE
  BY <1>4 DEF DutyKept
<1>7. I!Admin \in I!Processes /\ Requests \subseteq I!Processes
  BY DEF I!Processes
<1>8. DutiesTyped'
  <2>1. \A q \in I!Processes : DutyOK(duties'[q])
    BY <1>6 DEF InstallInv, DutiesTyped, DutyOK
  <2>2. \A q \in Requests : VisitOK(duties'[q])
    BY <1>6, <1>7 DEF InstallInv, DutiesTyped, VisitOK, StillToDo
  <2>3. AdminOK(duties'[I!Admin], release', active')
    BY <1>1, <1>6, <1>7 DEF InstallInv, DutiesTyped, AdminOK, StillToDo
  <2> QED BY <1>5, <2>1, <2>2, <2>3 DEF DutiesTyped
<1>9. SiteTyped'
  BY <1>1 DEF InstallInv, SiteTyped
<1>10. NoneNewer'
  BY <1>1, <1>6, <1>7 DEF InstallInv, NoneNewer, I!Busy
<1>11. ~skipped' => SchemaKept'
  <2>1. \A k \in {"tables", "marks"} : Activating(k)' <=> Activating(k)
    BY <1>6, <1>7 DEF Activating, I!Busy, StillToDo
  <2>2. \A q \in Requests : StillToDo(duties'[q]) = StillToDo(duties[q])
    BY <1>6, <1>7 DEF StillToDo
  <2> QED BY <1>1, <1>6, <1>7, <2>1, <2>2 DEF InstallInv, SchemaKept
<1>12. Undisturbed'
  BY <1>6, <1>7 DEF Undisturbed, Repaired, Erased
<1>13. FewEvents'
  <2>1. AtWork' = AtWork /\ \A h \in I!Hooks : ScheduledBy(h)' = ScheduledBy(h)
    BY <1>6 DEF AtWork, ScheduledBy, I!Busy
  <2> QED BY <1>1, <2>1 DEF InstallInv, FewEvents
<1> QED BY <1>8, <1>9, <1>10, <1>11, <1>12, <1>13 DEF InstallInv

(* Nobody owes anything. *)
LEMMA NobodyFacts ==
  /\ I!Nobody \in Duty /\ DutyOK(I!Nobody) /\ VisitOK(I!Nobody) /\ StillToDo(I!Nobody) = {} /\ I!Nobody.todo = <<>>
  /\ I!Nobody.goal = "none" /\ I!Nobody.missing = {}
  /\ \A installed, on : AdminOK(I!Nobody, installed, on)
  /\ \A v, d, made, scheduled, failed : Repaired(I!Nobody, v, d, made, scheduled, failed)
  /\ \A v, d, made, scheduled, stored : Erased(I!Nobody, v, d, made, scheduled, stored)
<1>1. /\ I!Nobody.todo = <<>> /\ I!Nobody.goal = "none" /\ I!Nobody.missing = {} /\ I!Nobody.release = 0
      /\ I!Nobody \in Duty
  BY DEF I!Nobody, Duty, DutyGoals, MerchantGoals
<1>2. StillToDo(I!Nobody) = {} /\ DutyOK(I!Nobody)
  BY <1>1 DEF StillToDo, ToSet, DutyOK, Begun
<1>3. VisitOK(I!Nobody) /\ \A installed, on : AdminOK(I!Nobody, installed, on)
  BY <1>1, <1>2 DEF VisitOK, AdminOK, MerchantGoals
<1> QED BY <1>1, <1>2, <1>3 DEF Repaired, Erased

(* Whoever stops leaves the rest as it is. *)
LEMMA Stops ==
  ASSUME InstallInv, NEW p \in I!Processes, I!Became(p, I!Nobody), SiteTyped', NoneNewer',
         db' = db, tables' = tables, cron' = cron, skipped' = skipped, active' = active,
         release' = release \/ p = I!Admin, loads' + changes' >= loads + changes
  PROVE  InstallInv'
<1>1. /\ duties'[p] = I!Nobody /\ \A q \in I!Processes \ {p} : DutyKept(duties[q], duties'[q])
  BY OtherDuties, NobodyFacts DEF InstallInv, DutiesTyped
<1>2. DutiesTyped'
  <2>1. AdminOK(IF p = I!Admin THEN I!Nobody ELSE duties[I!Admin], release', active')
    BY NobodyFacts DEF InstallInv, DutiesTyped
  <2> QED BY <2>1, NobodyFacts, DutiesGoOn DEF InstallInv
<1>3. ~skipped' => SchemaKept'
  BY NobodyFacts, SchemaStays
<1>4. Undisturbed'
  BY NobodyFacts, NooneElse DEF InstallInv
<1>5. FewEvents'
  <2>1. \A h \in I!Hooks : ~DutyAdds(I!Nobody, h) /\ cron'[h] \in Nat /\ cron'[h] <= cron[h]
    BY NobodyFacts DEF DutyAdds, InstallInv, SiteTyped
  <2>2. {loads', changes'} \subseteq Nat
    BY InstallationBounds DEF SiteTyped
  <2> QED BY <2>1, <2>2, NobodyFacts, FewScheduled
<1> QED BY <1>2, <1>3, <1>4, <1>5 DEF InstallInv

LEMMA DoesStop ==
  ASSUME InstallInv,
         \/ \E p \in I!Processes : I!Dies(p)
         \/ \E r \in I!Releases : I!Install(r)
         \/ I!ToggleWooCommerce \/ I!Agree
  PROVE  InstallInv'
<1>1. SiteTyped /\ NoneNewer /\ DutiesTyped
  BY DEF InstallInv
<1>2. changes \in Nat /\ loads \in Nat /\ MaxChanges \in Nat /\ MaxMishaps \in Nat /\ deaths \in Nat
  BY <1>1, InstallationBounds DEF SiteTyped
<1>3. CASE \E p \in I!Processes : I!Dies(p)
  <2>1. PICK p \in I!Processes : I!Dies(p)
    BY <1>3
  <2>2. /\ I!Became(p, I!Nobody) /\ deaths < MaxMishaps /\ deaths' = deaths + 1
        /\ UNCHANGED <<release, active, woocommerce, version, db, agreed, tables, cron, bytes, changes, loads, skipped>>
    BY <2>1 DEF I!Dies, I!site
  <2>3. SiteTyped'
    BY <1>1, <1>2, <2>2 DEF SiteTyped
  <2>4. NoneNewer'
    BY <1>1, <2>2, NobodyFacts, StillNoneNewer DEF NoneNewer
  <2> QED BY <1>2, <2>2, <2>3, <2>4, Stops
<1>4. CASE \E r \in I!Releases : I!Install(r)
  <2>1. PICK r \in I!Releases : I!Install(r)
    BY <1>4
  <2>2. /\ I!Became(I!Admin, I!Nobody) /\ release' = r /\ I!NothingNewer(r) /\ changes < MaxChanges /\ changes' = changes + 1
        /\ UNCHANGED <<active, woocommerce, version, db, agreed, tables, cron, bytes, loads, deaths, skipped>>
    BY <2>1 DEF I!Install, I!Changing
  <2>3. SiteTyped'
    BY <1>1, <1>2, <2>2, Releasing DEF SiteTyped
  <2>4. \A q \in I!Processes \ {I!Admin} : DutyKept(duties[q], duties'[q])
    BY <1>1, <2>2, NobodyFacts, OtherDuties DEF DutiesTyped, I!Processes
  <2>5. \A q \in Requests : I!Busy(q)' => duties'[q].release <= release'
    BY <2>2, <2>4, InstallationBounds DEF I!NothingNewer, I!Busy, DutyKept, I!Processes
  <2>6. NoneNewer'
    BY <2>2, <2>5 DEF NoneNewer, I!NothingNewer
  <2>7. I!Admin \in I!Processes /\ loads' + changes' >= loads + changes
    BY <1>2, <2>2 DEF I!Processes
  <2> QED BY <2>2, <2>3, <2>6, <2>7, Stops
<1>5. CASE I!ToggleWooCommerce \/ I!Agree
  <2>1. /\ I!Became(I!Admin, I!Nobody) /\ changes < MaxChanges /\ changes' = changes + 1
        /\ woocommerce' \in BOOLEAN /\ agreed' \in {"unset", "no", "yes"}
        /\ UNCHANGED <<release, active, version, db, tables, cron, bytes, loads, deaths, skipped>>
    BY <1>1, <1>5 DEF I!ToggleWooCommerce, I!Agree, I!Changing, SiteTyped
  <2>2. SiteTyped'
    BY <1>1, <1>2, <2>1 DEF SiteTyped
  <2>3. NoneNewer'
    BY <1>1, <2>1, NobodyFacts, StillNoneNewer DEF NoneNewer, I!Processes
  <2>4. I!Admin \in I!Processes /\ loads' + changes' >= loads + changes
    BY <1>2, <2>1 DEF I!Processes
  <2> QED BY <2>1, <2>2, <2>3, <2>4, Stops
<1> QED BY <1>3, <1>4, <1>5
-----------------------------------------------------------------------------
(* Whoever begins has a list before it and adds nothing yet. *)
DutyStarts(p, u, goal, list) ==
    /\ I!Became(p, u) /\ DutyOK(u) /\ u.goal = goal /\ u.release = release /\ u.todo = list
    /\ u.fresh = (version = 0) /\ u.missing = {} /\ \A h : ~DutyAdds(u, h)
    /\ StillToDo(u) = ToSet(list) /\ Head(u.todo) # "add"

LEMMA Beginning ==
  ASSUME InstallInv, NEW p \in I!Processes, NEW goal \in DutyGoals, NEW list \in Seq(DutySteps), Ordered(list), list # <<>>,
         I!Begins(p, goal, list)
  PROVE  \E u \in Duty : DutyStarts(p, u, goal, list)
<1> DEFINE u == [goal |-> goal, release |-> release, fresh |-> version = 0,
                 alone |-> \A q \in I!Processes \ {p} : ~I!Busy(q), missing |-> {}, todo |-> list]
<1>1. I!Became(p, u)
  BY DEF I!Begins
<1>2. (version = 0) \in BOOLEAN /\ (\A q \in I!Processes \ {p} : ~I!Busy(q)) \in BOOLEAN /\ release \in I!Releases \cup {0}
  BY DEF InstallInv, SiteTyped
<1>3. u \in Duty
  BY <1>2 DEF Duty
<1>4. /\ u.goal = goal /\ u.release = release /\ u.todo = list /\ u.fresh = (version = 0) /\ u.missing = {}
  OBVIOUS
<1> HIDE DEF u
<1>5. Begun(list) /\ Head(list) # "add"
  <2>1. Len(list) \in Nat /\ 1 \in 1 .. Len(list) /\ Head(list) = list[1]
    BY NotEmpty
  <2>2. \A i \in 2 .. Len(list) : i \in 1 .. Len(list)
    BY <2>1
  <2> QED BY <2>1, <2>2 DEF Ordered, Begun
<1>6. DutyOK(u) /\ StillToDo(u) = ToSet(list) /\ \A h : ~DutyAdds(u, h)
  BY <1>4, <1>5 DEF DutyOK, StillToDo, DutyAdds
<1> QED BY <1>1, <1>3, <1>4, <1>5, <1>6 DEF DutyStarts

(* Beginning disturbs nothing but the peace of the others. *)
LEMMA DutyStarted ==
  ASSUME InstallInv, NEW p \in I!Processes, NEW u \in Duty, I!Became(p, u), DutyOK(u), \A h : ~DutyAdds(u, h),
         p \in Requests => VisitOK(u), AdminOK(IF p = I!Admin THEN u ELSE duties[I!Admin], release, active),
         u.release = release,
         UNCHANGED <<release, active, woocommerce, version, db, agreed, tables, cron, bytes, deaths, skipped>>,
         loads' \in 0 .. MaxLoads, changes' \in 0 .. MaxChanges,
         loads' + changes' = loads + changes + 1, loads' + changes' >= loads + changes,
         ~skipped => SchemaKept',
         p \in Requests => Repaired(u, version, db, tables, cron, skipped),
         p = I!Admin => Erased(u, version, db, tables, cron, bytes)
  PROVE  InstallInv'
<1>1. DutiesTyped /\ SiteTyped /\ NoneNewer /\ loads \in Nat /\ changes \in Nat
  BY InstallationBounds DEF InstallInv, SiteTyped
<1>2. DutiesTyped'
  BY <1>1, DutiesGoOn
<1>3. SiteTyped'
  BY <1>1 DEF SiteTyped
<1>4. NoneNewer'
  <2>1. release # 0 => u.release <= release
    BY <1>1, Releasing DEF SiteTyped
  <2>2. CASE release # 0
    BY <1>1, <2>1, <2>2, StillNoneNewer DEF NoneNewer
  <2>3. CASE release = 0
    BY <2>3 DEF NoneNewer
  <2> QED BY <2>2, <2>3
<1>5. Undisturbed'
  BY <1>1, NooneElse
<1>6. FewEvents'
  <2>1. \A h \in I!Hooks : cron'[h] \in Nat /\ cron'[h] <= cron[h]
    BY <1>1 DEF SiteTyped
  <2>2. {loads', changes'} \subseteq Nat /\ loads' + changes' >= loads + changes
    <3>1. MaxLoads \in Nat /\ MaxChanges \in Nat
      BY InstallationBounds
    <3>2. loads' \in Nat /\ changes' \in Nat
      BY <3>1
    <3> QED BY <3>2
  <2> QED BY <2>1, <2>2, FewScheduled
<1> QED BY <1>2, <1>3, <1>4, <1>5, <1>6 DEF InstallInv

LEMMA DoesLoad ==
  ASSUME InstallInv, NEW p \in Requests, I!Load(p)
  PROVE  InstallInv'
<1> DEFINE list == I!Migration(release) \o I!Schedule
<1>1. /\ active /\ loads < MaxLoads /\ loads' = loads + 1 /\ I!Begins(p, "visit", list)
      /\ UNCHANGED <<release, active, woocommerce, version, db, agreed, tables, cron, bytes, changes, deaths, skipped>>
  BY DEF I!Load, I!site
<1>2. /\ release \in I!Releases /\ db \in Int /\ loads \in Nat /\ changes \in 0 .. MaxChanges /\ MaxLoads \in Nat
      /\ changes \in Nat /\ p \in I!Processes /\ p # I!Admin /\ "visit" \in DutyGoals
  BY <1>1, InstallationBounds, Releasing DEF InstallInv, SiteTyped, I!Processes, DutyGoals
<1>3. /\ list \in Seq(VisitSteps) /\ Ordered(list) /\ list # <<>>
      /\ "add" \in ToSet(list)
      /\ "version" \in ToSet(list) \/ version = release
      /\ version # 0 /\ "db" \notin ToSet(list) => db >= Schema[release]
      /\ "tables" \notin ToSet(list) =>
            ToSet(list) \cap {"marks", "db"} = {} /\ (version # 0 => db >= Schema[release])
  BY <1>2, MigrationFacts
<1> HIDE DEF list
<1>4. VisitSteps \subseteq DutySteps /\ list \in Seq(DutySteps) /\ ToSet(list) \subseteq VisitSteps
  <2>1. VisitSteps \subseteq DutySteps
    BY DEF DutySteps
  <2>2. ToSet(list) \subseteq VisitSteps
    BY <1>3, SeqFacts DEF ToSet
  <2> QED BY <1>3, <2>1, <2>2, SeqFacts
<1>5. PICK u \in Duty : DutyStarts(p, u, "visit", list)
  BY <1>1, <1>2, <1>3, <1>4, Beginning
<1>6. VisitOK(u)
  BY <1>2, <1>4, <1>5 DEF VisitOK, DutyStarts
<1>7. ~skipped => SchemaKept'
  BY <1>1, <1>2, <1>3, <1>5, SchemaStays DEF DutyStarts
<1>8. Repaired(u, version, db, tables, cron, skipped)
  <2> SUFFICES ASSUME ~u.fresh PROVE Repaired(u, version, db, tables, cron, skipped)
    BY DEF Repaired
  <2>1. version # 0
    BY <1>5 DEF DutyStarts
  <2>2. ~skipped /\ "tables" \notin StillToDo(u) => 1 .. Schema[u.release] \subseteq tables
    <3> SUFFICES ASSUME ~skipped, "tables" \notin StillToDo(u) PROVE 1 .. Schema[u.release] \subseteq tables
      OBVIOUS
    <3>1. db >= Schema[release] /\ Schema[release] \in Nat
      BY <1>2, <1>3, <1>5, <2>1, Releasing DEF DutyStarts
    <3>2. 1 .. Schema[release] \subseteq 1 .. db
      BY <1>2, <3>1
    <3>3. 1 .. db \subseteq tables
      BY <1>1 DEF InstallInv, SchemaKept
    <3> QED BY <1>5, <3>2, <3>3 DEF DutyStarts
  <2> QED BY <1>3, <1>5, <2>1, <2>2 DEF Repaired, DutyStarts
<1>9. AdminOK(duties[I!Admin], release, active)
  BY DEF InstallInv, DutiesTyped
<1>10. /\ loads' \in 0 .. MaxLoads /\ changes' \in 0 .. MaxChanges
       /\ loads' + changes' = loads + changes + 1 /\ loads' + changes' >= loads + changes
  BY <1>1, <1>2
<1> QED BY <1>1, <1>2, <1>5, <1>6, <1>7, <1>8, <1>9, <1>10, DutyStarted DEF DutyStarts

LEMMA MerchantLists ==
  /\ <<"clear", "inactive">> \in Seq(DutySteps) /\ Ordered(<<"clear", "inactive">>) /\ <<"clear", "inactive">> # <<>>
  /\ ToSet(<<"clear", "inactive">>) = {"clear", "inactive"}
  /\ LET list == <<"options", "hooks", "drop", "uploads">> \o <<"files">>
     IN  /\ list \in Seq(DutySteps) /\ Ordered(list) /\ list # <<>>
         /\ ToSet(list) = {"options", "hooks", "drop", "uploads", "files"}
  /\ LET list == <<>> \o <<"files">>
     IN list \in Seq(DutySteps) /\ Ordered(list) /\ list # <<>> /\ ToSet(list) = {"files"}
<1>1. /\ <<"clear", "inactive">> \in Seq(DutySteps) /\ Ordered(<<"clear", "inactive">>) /\ <<"clear", "inactive">> # <<>>
      /\ ToSet(<<"clear", "inactive">>) = {"clear", "inactive"}
  BY DEF Ordered, ToSet, DutySteps
<1>2. /\ <<"files">> \in Seq(DutySteps) /\ Ordered(<<"files">>) /\ <<"files">> # <<>> /\ ToSet(<<"files">>) = {"files"}
  BY DEF Ordered, ToSet, DutySteps
<1> DEFINE s == <<"options", "hooks", "drop", "uploads">>
           f == <<"files">>
<1>3. /\ s \in Seq(DutySteps) /\ Ordered(s) /\ s # <<>> /\ ToSet(s) = {"options", "hooks", "drop", "uploads"}
  <2>1. s \in Seq(DutySteps) /\ s # <<>>
    BY DEF DutySteps
  <2>2. Len(s) = 4 /\ s[1] = "options" /\ s[2] = "hooks" /\ s[3] = "drop" /\ s[4] = "uploads"
    OBVIOUS
  <2>3. DOMAIN s = 1 .. 4
    OBVIOUS
  <2> HIDE DEF s
  <2>4. \A i \in 1 .. 4 : s[i] \in {"options", "hooks", "drop", "uploads"}
    BY <2>2
  <2>5. Ordered(s)
    BY <2>2, <2>4 DEF Ordered
  <2>6. ToSet(s) = {"options", "hooks", "drop", "uploads"}
    BY <2>2, <2>3, <2>4 DEF ToSet
  <2> QED BY <2>1, <2>5, <2>6
<1> HIDE DEF s, f
<1>4. /\ s \o f \in Seq(DutySteps) /\ ToSet(s \o f) = ToSet(s) \cup ToSet(f) /\ Ordered(s \o f) /\ s \o f # <<>>
  <2>1. /\ f \in Seq(DutySteps) /\ Ordered(f) /\ ToSet(s) \cap {"files", "active"} = {} /\ "tables" \notin ToSet(f)
    BY <1>2, <1>3 DEF f
  <2> QED BY <1>3, <2>1, Joined
<1>5. <<>> \o f = f
  BY <1>2 DEF f
<1> QED BY <1>1, <1>2, <1>3, <1>4, <1>5 DEF s, f

LEMMA DoesBegin ==
  ASSUME InstallInv, I!Activate \/ I!Deactivate \/ I!Delete
  PROVE  InstallInv'
<1>1. /\ SiteTyped /\ DutiesTyped /\ changes \in Nat /\ loads \in Nat /\ MaxChanges \in Nat /\ I!Admin \in I!Processes
      /\ I!Admin \notin Requests
  BY InstallationBounds DEF InstallInv, SiteTyped, I!Processes
<1>2. /\ changes < MaxChanges /\ changes' = changes + 1 /\ ~I!Busy(I!Admin)
      /\ UNCHANGED <<release, active, woocommerce, version, db, agreed, tables, cron, bytes, loads, deaths, skipped>>
  BY DEF I!Activate, I!Deactivate, I!Delete, I!Changing, I!site
<1>3. /\ changes' \in 0 .. MaxChanges /\ loads' \in 0 .. MaxLoads
      /\ loads' + changes' = loads + changes + 1 /\ loads' + changes' >= loads + changes
  BY <1>1, <1>2 DEF SiteTyped
<1>4. CASE I!Activate
  <2> DEFINE list == I!Activation \o <<"active">>
  <2>1. I!Begins(I!Admin, "activate", list) /\ release # 0 /\ ~active /\ "activate" \in DutyGoals
    BY <1>4 DEF I!Activate, DutyGoals, MerchantGoals
  <2>2. /\ list \in Seq(DutySteps) /\ Ordered(list) /\ list # <<>>
        /\ ToSet(list) = {"tables", "marks", "check", "add", "active"}
    BY DutyLists
  <2> HIDE DEF list
  <2>3. PICK u \in Duty : DutyStarts(I!Admin, u, "activate", list)
    BY <1>1, <2>1, <2>2, Beginning
  <2>4. AdminOK(u, release, active)
    BY <1>1, <2>1, <2>2, <2>3 DEF AdminOK, StepsTo, MerchantGoals, SiteTyped, DutyStarts
  <2>5. SchemaKept'
    <3>1. active' = FALSE
      BY <1>1, <1>2, <2>1 DEF SiteTyped
    <3> QED BY <2>2, <2>3, <3>1, OffSchema DEF DutyStarts
  <2>6. Erased(u, version, db, tables, cron, bytes)
    BY <2>3 DEF Erased, DutyStarts
  <2> QED BY <1>1, <1>2, <1>3, <2>3, <2>4, <2>5, <2>6, DutyStarted DEF DutyStarts
<1>5. CASE I!Deactivate
  <2> DEFINE list == <<"clear", "inactive">>
  <2>1. I!Begins(I!Admin, "deactivate", list) /\ active /\ "deactivate" \in DutyGoals
    BY <1>5 DEF I!Deactivate, DutyGoals, MerchantGoals
  <2>2. /\ list \in Seq(DutySteps) /\ Ordered(list) /\ list # <<>> /\ ToSet(list) = {"clear", "inactive"}
    BY MerchantLists
  <2> HIDE DEF list
  <2>3. PICK u \in Duty : DutyStarts(I!Admin, u, "deactivate", list)
    BY <1>1, <2>1, <2>2, Beginning
  <2>4. AdminOK(u, release, active)
    BY <1>1, <2>1, <2>2, <2>3 DEF AdminOK, StepsTo, MerchantGoals, SiteTyped, DutyStarts
  <2>5. ~skipped => SchemaKept'
    BY <1>1, <1>2, <2>3, SchemaStays DEF DutyStarts
  <2>6. Erased(u, version, db, tables, cron, bytes)
    BY <2>2, <2>3 DEF Erased, DutyStarts
  <2> QED BY <1>1, <1>2, <1>3, <2>3, <2>4, <2>5, <2>6, DutyStarted DEF DutyStarts
<1>6. CASE I!Delete
  <2> DEFINE goal == IF agreed = "yes" THEN "erase" ELSE "delete"
             list == (IF agreed = "yes" THEN <<"options", "hooks", "drop", "uploads">> ELSE <<>>) \o <<"files">>
  <2>1. I!Begins(I!Admin, goal, list) /\ release # 0 /\ ~active
    BY <1>6 DEF I!Delete
  <2>2. /\ list \in Seq(DutySteps) /\ Ordered(list) /\ list # <<>> /\ goal \in {"erase", "delete"}
        /\ ToSet(list) = IF agreed = "yes" THEN {"options", "hooks", "drop", "uploads", "files"} ELSE {"files"}
    BY MerchantLists
  <2>3. /\ goal \in DutyGoals /\ ToSet(list) = StepsTo(goal)
        /\ goal = "erase" => ToSet(list) = {"options", "hooks", "drop", "uploads", "files"}
    <3>1. CASE agreed = "yes"
      BY <2>2, <3>1 DEF DutyGoals, MerchantGoals, StepsTo
    <3>2. CASE agreed # "yes"
      BY <2>2, <3>2 DEF DutyGoals, MerchantGoals, StepsTo
    <3> QED BY <3>1, <3>2
  <2> HIDE DEF list, goal
  <2>4. PICK u \in Duty : DutyStarts(I!Admin, u, goal, list)
    BY <1>1, <2>1, <2>2, <2>3, Beginning
  <2>5. AdminOK(u, release, active)
    BY <1>1, <2>1, <2>2, <2>3, <2>4 DEF AdminOK, MerchantGoals, SiteTyped, DutyStarts
  <2>6. SchemaKept'
    <3>1. active' = FALSE
      BY <1>1, <1>2, <2>1 DEF SiteTyped
    <3> QED BY <2>2, <2>4, <3>1, OffSchema DEF DutyStarts
  <2>7. Erased(u, version, db, tables, cron, bytes)
    BY <2>2, <2>3, <2>4 DEF Erased, DutyStarts
  <2> QED BY <1>1, <1>2, <1>3, <2>4, <2>5, <2>6, <2>7, DutyStarted DEF DutyStarts
<1> QED BY <1>4, <1>5, <1>6
-----------------------------------------------------------------------------
(* The steps of the merchant's own. *)
LEMMA DoesSwitch ==
  ASSUME InstallInv, I!Activated \/ I!Deactivated
  PROVE  InstallInv'
<1>1. SiteTyped /\ DutiesTyped /\ NoneNewer /\ Undisturbed /\ I!Admin \in I!Processes /\ I!Admin \notin Requests
  BY InstallationBounds DEF InstallInv, I!Processes
<1>2. UNCHANGED <<release, woocommerce, version, db, agreed, tables, cron, bytes, changes, loads, deaths, skipped>>
  BY DEF I!Activated, I!Deactivated
<1> DEFINE t == duties[I!Admin]
           step == IF I!Activated THEN "active" ELSE "inactive"
<1>3. PICK u \in Duty : DutyDid(I!Admin, step, u, t.missing)
  BY <1>1, DutyDoes DEF I!Activated, I!Deactivated
<1>4. /\ I!Became(I!Admin, u) /\ I!Busy(I!Admin) /\ t.goal = u.goal /\ t.release = u.release /\ t.alone = u.alone
      /\ u.missing = t.missing /\ StillToDo(u) \subseteq StillToDo(t) /\ StillToDo(t) \ {step} \subseteq StillToDo(u)
      /\ u.release = release /\ release \in I!Releases /\ step \in StepsTo(u.goal) /\ u.goal \in MerchantGoals
      /\ DutyOK(u) /\ AdminOK(u, release, active)
  <2> HIDE DEF step
  <2>1. /\ I!Became(I!Admin, u) /\ I!Busy(I!Admin) /\ t.goal = u.goal /\ t.release = u.release /\ t.alone = u.alone
        /\ u.missing = t.missing /\ StillToDo(u) \subseteq StillToDo(t) /\ StillToDo(t) \ {step} \subseteq StillToDo(u)
    BY <1>1, <1>3, StepFacts
  <2>2. /\ u.release = release /\ release \in I!Releases /\ step \in StepsTo(u.goal) /\ u.goal \in MerchantGoals
        /\ DutyOK(u) /\ AdminOK(u, release, active)
    BY <1>3 DEF DutyDid
  <2> QED BY <2>1, <2>2
<1>5. IF I!Activated THEN active' = TRUE /\ u.goal = "activate" /\ u.todo = <<>> /\ StillToDo(u) = {}
                        /\ "tables" \notin StillToDo(t) /\ "marks" \notin StillToDo(t)
      ELSE active' = FALSE /\ u.goal = "deactivate"
  <2>1. CASE I!Activated
    BY <1>3, <1>4, <2>1 DEF I!Activated, DutyDid, DutyRest, StepsTo, MerchantGoals
  <2>2. CASE ~I!Activated
    BY <1>3, <1>4, <2>2 DEF I!Deactivated, StepsTo, MerchantGoals
  <2> QED BY <2>1, <2>2
<1>6. SiteTyped'
  <2>1. release # 0
    BY <1>4, Releasing
  <2>2. active' \in BOOLEAN
    BY <1>5, Zenon
  <2> QED BY <1>1, <1>2, <2>1, <2>2 DEF SiteTyped
<1>7. DutiesTyped'
  <2>1. AdminOK(u, release', active')
    BY <1>2, <1>4, <1>5 DEF AdminOK
  <2> QED BY <1>1, <1>4, <2>1, DutiesGoOn
<1>8. NoneNewer'
  BY <1>1, <1>2, <1>4, StillNoneNewer DEF NoneNewer
<1>9. ~skipped' => SchemaKept'
  <2> SUFFICES ASSUME ~skipped PROVE SchemaKept'
    BY <1>2
  <2>1. CASE I!Activated
    <3>1. Activating("marks") /\ Activating("tables") /\ SchemaKept
      BY <1>4, <1>5, <2>1 DEF Activating, InstallInv
    <3>2. duties'[I!Admin] = u /\ \A q \in Requests : DutyKept(duties[q], duties'[q])
      BY <1>1, <1>4, OtherDuties DEF DutiesTyped, I!Processes
    <3>3. ~Activating("tables")' /\ ~Activating("marks")'
      BY <1>5, <2>1, <3>2 DEF Activating, I!Busy
    <3>4. \A q \in Requests :
              "tables" \notin StillToDo(duties'[q]) /\ StillToDo(duties'[q]) \cap {"marks", "db"} # {} =>
                  1 .. Schema[duties'[q].release] \subseteq tables'
      BY <1>2, <3>1, <3>2 DEF SchemaKept, DutyKept, StillToDo
    <3> QED BY <1>2, <3>1, <3>3, <3>4 DEF SchemaKept
  <2>2. CASE ~I!Activated
    BY <1>4, <1>5, <2>2, OffSchema
  <2> QED BY <2>1, <2>2
<1>10. Undisturbed'
  <2>1. Erased(t, version, db, tables, cron, bytes)
    BY <1>1 DEF Undisturbed
  <2>2. \A k \in {"clear", "hooks", "options", "drop", "uploads"} : k \notin StillToDo(u) => k \notin StillToDo(t)
    BY <1>4
  <2>3. Erased(u, version', db', tables', cron', bytes')
    BY <1>2, <1>4, <2>1, <2>2 DEF Erased
  <2> QED BY <1>1, <1>4, <2>3, NooneElse
<1>11. FewEvents'
  <2>1. step # "check" /\ cron' \in [I!Hooks -> Nat] /\ \A h \in I!Hooks : cron'[h] <= cron[h]
    BY <1>1, <1>2 DEF SiteTyped
  <2> HIDE DEF step
  <2> QED BY <1>1, <1>2, <1>3, <2>1, QuietEvents
<1> QED BY <1>6, <1>7, <1>8, <1>9, <1>10, <1>11 DEF InstallInv

(* What clears and erases: it takes away, with the plugin off or going off. *)
LEMMA Clearing ==
  ASSUME InstallInv, NEW step \in {"clear", "hooks", "options", "drop", "uploads", "files"}, NEW u \in Duty,
         DutyDid(I!Admin, step, u, duties[I!Admin].missing),
         UNCHANGED <<active, woocommerce, changes, loads, deaths, skipped>>,
         IF step = "files" THEN release' = 0 ELSE release' = release,
         IF step = "options" THEN version' = 0 /\ db' = 0 /\ agreed' = "unset" ELSE UNCHANGED <<version, db, agreed>>,
         IF step = "drop" THEN tables' = tables \ 1 .. Schema[u.release] ELSE tables' = tables,
         IF step = "uploads" THEN bytes' = FALSE ELSE bytes' = bytes,
         IF step \in {"clear", "hooks"}
         THEN cron' = [h \in I!Hooks |-> IF h \in Events[u.release] THEN 0 ELSE cron[h]] ELSE cron' = cron
  PROVE  InstallInv'
<1> DEFINE t == duties[I!Admin]
<1>1. /\ SiteTyped /\ DutiesTyped /\ NoneNewer /\ Undisturbed /\ I!Admin \in I!Processes /\ I!Admin \notin Requests
  BY InstallationBounds DEF InstallInv, I!Processes
<1>2. /\ I!Became(I!Admin, u) /\ I!Busy(I!Admin) /\ t.goal = u.goal /\ t.release = u.release /\ t.alone = u.alone
      /\ u.missing = t.missing /\ step \in StillToDo(t) /\ StillToDo(u) \subseteq StillToDo(t) /\ StillToDo(t) \ {step} \subseteq StillToDo(u)
      /\ u.release = release /\ release \in I!Releases /\ step \in StepsTo(u.goal) /\ u.goal \in MerchantGoals
      /\ DutyOK(u) /\ AdminOK(u, release, active)
  <2>1. /\ I!Became(I!Admin, u) /\ I!Busy(I!Admin) /\ t.goal = u.goal /\ t.release = u.release /\ t.alone = u.alone
        /\ u.missing = t.missing /\ step \in StillToDo(t) /\ StillToDo(u) \subseteq StillToDo(t) /\ StillToDo(t) \ {step} \subseteq StillToDo(u)
    BY <1>1, StepFacts
  <2>2. /\ u.release = release /\ release \in I!Releases /\ step \in StepsTo(u.goal) /\ u.goal \in MerchantGoals
        /\ DutyOK(u) /\ AdminOK(u, release, active)
    BY Zenon DEF DutyDid
  <2> QED BY <2>1, <2>2
<1>3. /\ u.goal \in {"deactivate", "erase", "delete"} /\ (step = "clear" <=> u.goal = "deactivate")
      /\ (u.goal # "deactivate" => active = FALSE) /\ (step = "files" => u.todo = <<>>)
      /\ step \notin {"clear", "files"} => u.goal = "erase"
  BY <1>1, <1>2 DEF StepsTo, MerchantGoals, VisitSteps, DutyDid, DutyRest, SiteTyped
<1>4. /\ cron' \in [I!Hooks -> Nat]
      /\ \A h \in I!Hooks : cron'[h] <= cron[h]
      /\ step \in {"clear", "hooks"} => \A h \in I!Hooks : cron'[h] = 0
  <2>1. CASE step \in {"clear", "hooks"}
    <3>1. \A h \in I!Hooks : cron[h] \in Nat /\ cron'[h] = IF h \in Events[release] THEN 0 ELSE cron[h]
      BY <1>1, <1>2, <2>1 DEF SiteTyped
    <3>2. cron' = [h \in I!Hooks |-> cron'[h]]
      BY <2>1
    <3>3. \A h \in I!Hooks : cron[h] > 0 => h \in Events[release]
      BY <1>1, <1>2, Releasing DEF NoneNewer
    <3> QED BY <3>1, <3>2, <3>3
  <2>2. CASE step \notin {"clear", "hooks"}
    BY <1>1, <2>2 DEF SiteTyped
  <2> QED BY <2>1, <2>2
<1>5. tables' \subseteq tables /\ (step = "drop" => tables' = {})
  <2>1. tables \subseteq 1 .. Schema[release]
    BY <1>1, <1>2, Releasing DEF NoneNewer
  <2> QED BY <1>2, <2>1
<1>6. SiteTyped'
  <2>1. release' \in I!Releases \cup {0} /\ version' \in I!Releases \cup {0} /\ active' \in BOOLEAN
        /\ woocommerce' \in BOOLEAN /\ bytes' \in BOOLEAN /\ skipped' \in BOOLEAN
    BY <1>1 DEF SiteTyped
  <2>2. db' \in {0} \cup {Schema[r] : r \in I!Releases} /\ agreed' \in {"unset", "no", "yes"}
    BY <1>1 DEF SiteTyped
  <2>3. active' => release' # 0
    BY <1>1, <1>2, <1>3 DEF SiteTyped
  <2>4. changes' \in 0 .. MaxChanges /\ loads' \in 0 .. MaxLoads /\ deaths' \in 0 .. MaxMishaps
    BY <1>1 DEF SiteTyped
  <2>5. tables' \subseteq Nat
    BY <1>1, <1>5 DEF SiteTyped
  <2> QED BY <1>4, <2>1, <2>2, <2>3, <2>4, <2>5 DEF SiteTyped
<1>7. DutiesTyped'
  <2>1. AdminOK(u, release', active')
    BY <1>2, <1>3 DEF AdminOK
  <2> QED BY <1>1, <1>2, <2>1, DutiesGoOn
<1>8. NoneNewer'
  <2>1. CASE step = "files"
    BY <2>1 DEF NoneNewer
  <2>2. CASE step # "files"
    <3>1. \A h \in I!Hooks : cron'[h] > 0 => cron[h] > 0
      BY <1>1, <1>4 DEF SiteTyped
    <3> QED BY <1>1, <1>2, <1>5, <2>2, <3>1, StillNoneNewer DEF NoneNewer
  <2> QED BY <2>1, <2>2
<1>9. ~skipped' => SchemaKept'
  <2>1. CASE step = "clear"
    <3>1. UNCHANGED <<db, tables>>
      BY <2>1
    <3> QED BY <1>1, <2>1, <3>1, QuietSchema
  <2>2. CASE step # "clear"
    BY <1>2, <1>3, <2>2, OffSchema
  <2> QED BY <2>1, <2>2
<1>10. Undisturbed'
  <2> SUFFICES ASSUME u.alone PROVE Erased(u, version', db', tables', cron', bytes')
    BY <1>1, <1>2, NooneElse DEF Erased
  <2>1. Erased(t, version, db, tables, cron, bytes)
    BY <1>1 DEF Undisturbed
  <2>2. \A k \in {"clear", "hooks", "options", "drop", "uploads"} : k \notin StillToDo(u) => k = step \/ k \notin StillToDo(t)
    BY <1>2
  <2>3. \A h \in I!Hooks : cron[h] \in Nat
    BY <1>1 DEF SiteTyped
  <2>4. u.goal = "deactivate" /\ "clear" \notin StillToDo(u) => \A h \in I!Hooks : cron'[h] = 0
    BY <1>2, <1>4, <2>1, <2>2, <2>3 DEF Erased
  <2>5. u.goal = "erase" /\ "hooks" \notin StillToDo(u) => \A h \in I!Hooks : cron'[h] = 0
    BY <1>2, <1>4, <2>1, <2>2, <2>3 DEF Erased
  <2>6. u.goal = "erase" /\ "options" \notin StillToDo(u) => version' = 0 /\ db' = 0
    BY <1>2, <2>1, <2>2 DEF Erased
  <2>7. u.goal = "erase" /\ "drop" \notin StillToDo(u) => tables' = {}
    BY <1>2, <1>5, <2>1, <2>2 DEF Erased
  <2>8. u.goal = "erase" /\ "uploads" \notin StillToDo(u) => ~bytes'
    BY <1>2, <2>1, <2>2 DEF Erased
  <2> QED BY <2>4, <2>5, <2>6, <2>7, <2>8 DEF Erased
<1>11. FewEvents'
  BY <1>1, <1>4, QuietEvents
<1> QED BY <1>6, <1>7, <1>8, <1>9, <1>10, <1>11 DEF InstallInv

LEMMA DoesErase ==
  ASSUME InstallInv, I!Clear \/ I!DeleteOptions \/ I!DropTables \/ I!DeleteUploads \/ I!RemoveFiles
  PROVE  InstallInv'
<1>1. I!Admin \in I!Processes
  BY DEF I!Processes
<1>2. CASE I!Clear
  <2> DEFINE step == Head(duties[I!Admin].todo)
  <2>1. I!Doing(I!Admin, step) /\ I!Continues(I!Admin) /\ step \in {"clear", "hooks"}
    BY <1>2 DEF I!Clear, I!Doing
  <2>2. PICK u \in Duty : DutyDid(I!Admin, step, u, duties[I!Admin].missing)
    BY <1>1, <2>1, DutyDoes
  <2>3. u.release = duties[I!Admin].release
    BY <1>1, <2>2, StepFacts
  <2>4. /\ cron' = [h \in I!Hooks |-> IF h \in Events[u.release] THEN 0 ELSE cron[h]]
        /\ UNCHANGED <<release, active, woocommerce, version, db, agreed, tables, bytes, changes, loads, deaths, skipped>>
    BY <1>2, <2>3 DEF I!Clear, I!Cleared
  <2> HIDE DEF step
  <2> QED BY <2>1, <2>2, <2>4, Clearing
<1>3. CASE I!DeleteOptions
  <2>1. PICK u \in Duty : DutyDid(I!Admin, "options", u, duties[I!Admin].missing)
    BY <1>1, <1>3, DutyDoes DEF I!DeleteOptions
  <2> QED BY <1>3, <2>1, Clearing DEF I!DeleteOptions
<1>4. CASE I!DropTables
  <2>1. PICK u \in Duty : DutyDid(I!Admin, "drop", u, duties[I!Admin].missing)
    BY <1>1, <1>4, DutyDoes DEF I!DropTables
  <2>2. u.release = duties[I!Admin].release
    BY <1>1, <2>1, StepFacts
  <2> QED BY <1>4, <2>1, <2>2, Clearing DEF I!DropTables
<1>5. CASE I!DeleteUploads
  <2>1. PICK u \in Duty : DutyDid(I!Admin, "uploads", u, duties[I!Admin].missing)
    BY <1>1, <1>5, DutyDoes DEF I!DeleteUploads
  <2> QED BY <1>5, <2>1, Clearing DEF I!DeleteUploads
<1>6. CASE I!RemoveFiles
  <2>1. PICK u \in Duty : DutyDid(I!Admin, "files", u, duties[I!Admin].missing)
    BY <1>1, <1>6, DutyDoes DEF I!RemoveFiles
  <2> QED BY <1>6, <2>1, Clearing DEF I!RemoveFiles
<1> QED BY <1>2, <1>3, <1>4, <1>5, <1>6
-----------------------------------------------------------------------------
LEMMA InstallInit ==
  I!Init => InstallInv
<1> SUFFICES ASSUME I!Init PROVE InstallInv
  OBVIOUS
<1>1. \A p \in I!Processes : duties[p] = I!Nobody
  BY DEF I!Init
<1>2. I!Admin \in I!Processes /\ Requests \subseteq I!Processes
  BY DEF I!Processes
<1>3. DutiesTyped
  <2>1. duties \in [I!Processes -> Duty]
    BY NobodyFacts DEF I!Init
  <2> QED BY <1>1, <1>2, <2>1, NobodyFacts DEF DutiesTyped
<1>4. SiteTyped
  <2>1. MaxChanges \in Nat /\ MaxLoads \in Nat /\ MaxMishaps \in Nat /\ 1 \in I!Releases
    BY InstallationBounds
  <2>2. cron \in [I!Hooks -> Nat]
    BY DEF I!Init
  <2>3. release \in {0, 1} /\ active \in BOOLEAN /\ (active => release = 1)
    BY DEF I!Init
  <2>4. release \in I!Releases \cup {0} /\ (active => release # 0)
    BY <2>1, <2>3
  <2>5. changes \in 0 .. MaxChanges /\ loads \in 0 .. MaxLoads /\ deaths \in 0 .. MaxMishaps
    BY <2>1 DEF I!Init
  <2>6. /\ version \in I!Releases \cup {0} /\ woocommerce \in BOOLEAN /\ bytes \in BOOLEAN /\ skipped \in BOOLEAN
        /\ db \in {0} \cup {Schema[r] : r \in I!Releases} /\ agreed \in {"unset", "no", "yes"} /\ tables \subseteq Nat
    BY DEF I!Init
  <2> QED BY <2>2, <2>3, <2>4, <2>5, <2>6 DEF SiteTyped
<1>5. \A p \in I!Processes : ~I!Busy(p)
  BY <1>1, NobodyFacts DEF I!Busy
<1>6. NoneNewer
  BY <1>2, <1>5 DEF I!Init, NoneNewer
<1>7. SchemaKept
  <2>1. \A q \in Requests : StillToDo(duties[q]) = {}
    BY <1>1, <1>2, NobodyFacts
  <2>2. ~Activating("tables") /\ ~Activating("marks")
    BY <1>2, <1>5 DEF Activating
  <2>3. 1 .. db = {}
    BY DEF I!Init
  <2> QED BY <2>1, <2>2, <2>3 DEF SchemaKept
<1>8. Undisturbed
  BY <1>1, <1>2, NobodyFacts DEF Undisturbed
<1>9. FewEvents
  <2>1. AtWork = {} /\ \A h \in I!Hooks : ScheduledBy(h) = {}
    BY <1>5 DEF AtWork, ScheduledBy
  <2>2. Cardinality({}) = 0
    BY FS_EmptySet
  <2> QED BY <2>1, <2>2 DEF I!Init, FewEvents
<1> QED BY <1>3, <1>4, <1>6, <1>7, <1>8, <1>9 DEF InstallInv

LEMMA InstallStep ==
  InstallInv /\ [I!Next]_I!vars => InstallInv'
<1> SUFFICES ASSUME InstallInv, [I!Next]_I!vars PROVE InstallInv'
  OBVIOUS
<1>1. CASE \E p \in Requests : I!Load(p)
  BY <1>1, DoesLoad
<1>2. CASE \E p \in I!Processes : I!Requested(p)
  <2>1. PICK p \in I!Processes : I!Requested(p)
    BY <1>2
  <2>2. CASE \E made \in BOOLEAN : I!CreateTables(p, made)
    BY <2>2, DoesCreateTables
  <2>3. CASE I!Mark(p) \/ I!MarkSchema(p) \/ I!MarkVersion(p)
    BY <2>3, DoesMark
  <2>4. CASE I!Check(p)
    BY <2>4, DoesCheck
  <2>5. CASE I!Add(p)
    BY <2>5, DoesAdd
  <2>6. CASE I!Dies(p)
    BY <2>6, DoesStop
  <2> QED BY <2>1, <2>2, <2>3, <2>4, <2>5, <2>6 DEF I!Requested
<1>3. CASE I!Upload
  BY <1>3, DoesUpload
<1>4. CASE (\E r \in I!Releases : I!Install(r)) \/ I!ToggleWooCommerce \/ I!Agree
  BY <1>4, DoesStop
<1>5. CASE I!Activate \/ I!Deactivate \/ I!Delete
  BY <1>5, DoesBegin
<1>6. CASE I!Activated \/ I!Deactivated
  BY <1>6, DoesSwitch
<1>7. CASE I!Clear \/ I!DeleteOptions \/ I!DropTables \/ I!DeleteUploads \/ I!RemoveFiles
  BY <1>7, DoesErase
<1>8. CASE UNCHANGED I!vars
  <2>1. SiteTyped'
    BY <1>8 DEF I!vars, InstallInv, SiteTyped
  <2>2. DutiesTyped'
    BY <1>8 DEF I!vars, InstallInv, DutiesTyped
  <2>3. NoneNewer'
    BY <1>8 DEF I!vars, InstallInv, NoneNewer, I!Busy
  <2>4. (~skipped => SchemaKept)'
    BY <1>8 DEF I!vars, InstallInv, SchemaKept, Activating, I!Busy
  <2>5. Undisturbed'
    BY <1>8 DEF I!vars, InstallInv, Undisturbed
  <2>6. FewEvents'
    BY <1>8 DEF I!vars, InstallInv, FewEvents, AtWork, ScheduledBy, I!Busy
  <2> QED BY <2>1, <2>2, <2>3, <2>4, <2>5, <2>6 DEF InstallInv
<1> QED BY <1>1, <1>2, <1>3, <1>4, <1>5, <1>6, <1>7, <1>8 DEF I!Next

LEMMA InstallMeans ==
  InstallInv => I!TypeOK /\ I!OneVisitRepairs /\ I!SchemaIsThere /\ I!NothingIsLeftBehind
<1> SUFFICES ASSUME InstallInv PROVE I!TypeOK /\ I!OneVisitRepairs /\ I!SchemaIsThere /\ I!NothingIsLeftBehind
  OBVIOUS
<1>1. \A p \in I!Processes : ~I!Busy(p) => StillToDo(duties[p]) = {}
  BY DEF I!Busy, StillToDo, ToSet
<1>2. I!Admin \in I!Processes /\ Requests \subseteq I!Processes
  BY DEF I!Processes
<1>3. I!TypeOK
  <2>1. \A h \in I!Hooks : cron[h] \in 0 .. MaxLoads + MaxChanges
    <3> TAKE h \in I!Hooks
    <3>1. /\ cron[h] \in Nat /\ Cardinality(ScheduledBy(h)) \in Nat
          /\ cron[h] + Cardinality(ScheduledBy(h)) <= loads + changes
      BY DutiesFinite DEF InstallInv, SiteTyped, FewEvents
    <3>2. MaxLoads \in Nat /\ MaxChanges \in Nat /\ loads \in 0 .. MaxLoads /\ changes \in 0 .. MaxChanges
      BY InstallationBounds DEF InstallInv, SiteTyped
    <3> QED BY <3>1, <3>2
  <2> QED BY <2>1 DEF InstallInv, SiteTyped, I!TypeOK
<1>4. I!OneVisitRepairs
  <2> SUFFICES ASSUME NEW p \in Requests, I!Finished(p, "visit"), ~duties[p].fresh PROVE I!Ready(duties[p].release)
    BY DEF I!OneVisitRepairs
  <2>1. Repaired(duties[p], version, db, tables, cron, skipped) /\ StillToDo(duties[p]) = {}
    BY <1>1, <1>2 DEF InstallInv, Undisturbed, I!Finished
  <2> QED BY <2>1 DEF Repaired, I!Finished, I!Ready
<1>5. I!SchemaIsThere
  BY DEF InstallInv, SchemaKept, I!SchemaIsThere
<1>6. I!NothingIsLeftBehind
  <2>1. Erased(duties[I!Admin], version, db, tables, cron, bytes) /\ (~I!Busy(I!Admin) => StillToDo(duties[I!Admin]) = {})
    BY <1>1, <1>2 DEF InstallInv, Undisturbed
  <2> QED BY <2>1 DEF Erased, I!Finished, I!NothingIsLeftBehind
<1> QED BY <1>3, <1>4, <1>5, <1>6
-----------------------------------------------------------------------------
(* The cloud's mirror of the catalogue. *)
(* The lists of this part, too. *)
LEMMA MirrorOnly ==
  ASSUME NEW S, NEW s \in Seq(S), NEW keep
  PROVE  /\ C!Only(s, keep) \in Seq(S) /\ Len(C!Only(s, keep)) <= Len(s)
         /\ C!ToSet(C!Only(s, keep)) = C!ToSet(s) \cap keep
<1>1. C!Only(s, keep) = Only(s, keep)
  BY Zenon DEF C!Only, Only
<1> QED BY <1>1, OnlyFacts DEF C!ToSet, ToSet

LEMMA MirrorPlaces ==
  ASSUME NEW S, NEW s \in Seq(S), NEW keep, NEW i \in 1 .. Len(s), s[i] \in keep
  PROVE  LET n == Cardinality(Passed(s, keep, i)) IN
         n \in Nat /\ n < Len(C!Only(s, keep)) /\ C!Only(s, keep)[n + 1] = s[i]
<1>1. C!Only(s, keep) = Only(s, keep)
  BY Zenon DEF C!Only, Only
<1> QED BY <1>1, OnlyPlaces

Walks == {"claim", "page", "send", "release"}
Entries == [id : C!Ids, action : {"upsert", "remove"}]
Snaps == [id : C!Ids, v : Nat]
Cursors == [run : 0 .. MaxRuns, offset : 0 .. Len(Products), total : 0 .. Len(Products), claimed : BOOLEAN]

(* One intent, one copy, for a product. *)
Once(q) == \A e, f \in C!ToSet(q) : e.id = f.id => e = f
QueueOK(q) == q \in Seq(Entries) /\ Len(q) <= MaxProducts /\ Once(q)

(* Copies of what the shop has or had: of the newest only if it is there. *)
BatchOK(batch, s) ==
    /\ batch \in Seq(Snaps) /\ Once(batch)
    /\ \A e \in C!ToSet(batch) : e.v <= s[e.id].v /\ (e.v = s[e.id].v => s[e.id].live)

TaskOK(t, s) ==
    /\ t.pc = "push" => t.id \in C!Ids /\ t.action \in {"upsert", "remove"} /\ QueueOK(t.seen)
    /\ t.pc \in {"upserts", "removals"} => QueueOK(t.seen) /\ t.removals \in Seq(C!Ids)
    /\ t.pc = "upserts" => t.ids \subseteq C!Ids /\ BatchOK(t.batch, s)
    /\ t.pc \in Walks => t.at \in Cursors
    /\ t.pc = "send" =>
          BatchOK(t.batch, s) /\ t.at.run # 0 /\ t.at.offset + Len(t.batch) <= Len(Products)

MirrorTyped ==
    /\ shop \in [C!Ids -> C!Versions] /\ mirror \in [C!Ids -> C!Versions]
    /\ QueueOK(backlog) /\ cursor \in Cursors
    /\ runs \in 0 .. MaxRuns /\ mishaps \in 0 .. MirrorTroubles /\ missed \subseteq C!Ids
    /\ DOMAIN tasks = Requests /\ \A r \in Requests : TaskOK(tasks[r], shop)

(* Where a product comes in the walk: after those there are before it. *)
Where(p) == CHOOSE i \in DOMAIN Products : Products[i] = p
LiveIn(s) == {p \in C!Ids : s[p].live}
Row(s, p) == Cardinality(Passed(Products, LiveIn(s), Where(p)))
AheadOf(c, s, p) == s[p].live /\ (c.run # 0 => c.offset <= Row(s, p) /\ Row(s, p) < c.total)
Batched(t, s, p) ==
    Row(s, p) < t.at.offset + Len(t.batch) => t.batch[Row(s, p) - t.at.offset + 1].id = p

(* The mirror has what the shop has, or somebody is to tell it, or nobody can. *)
Pushed(p) == \E r \in Requests : tasks[r].pc = "push" /\ tasks[r].id = p
Delivered(p) == p \in missed \/ mirror[p] = shop[p] \/ Pushed(p) \/ p \in C!IdsOf(backlog)

(* A product that is to be sent and has gone is somebody's to remove. *)
Told(p) ==
    \/ p \in missed \/ shop[p].live \/ mirror[p] = shop[p] \/ Pushed(p)
    \/ [id |-> p, action |-> "remove"] \in C!ToSet(backlog)

(* Or the walk, and every request that walks, has not come to it yet. *)
Ahead(p) ==
    /\ AheadOf(cursor, shop, p)
    /\ \A r \in Requests :
          /\ tasks[r].pc \in Walks => AheadOf(tasks[r].at, shop, p)
          /\ tasks[r].pc = "send" => Batched(tasks[r], shop, p)

Upserts(q) == {p \in C!Ids : [id |-> p, action |-> "upsert"] \in C!ToSet(q)}

MirrorInv ==
    /\ MirrorTyped
    /\ \A p \in C!Ids : Delivered(p) \/ Ahead(p)
    /\ \A p \in Upserts(backlog) : Told(p)
    /\ \A r \in Requests :
          /\ tasks[r].pc \in {"push", "upserts", "removals"} => \A p \in Upserts(tasks[r].seen) : Told(p)
          /\ tasks[r].pc = "send" =>
                \A e \in C!ToSet(tasks[r].batch) : e.v = shop[e.id].v \/ Delivered(e.id)
-----------------------------------------------------------------------------
LEMMA ProductsFacts ==
  /\ Len(Products) \in Nat /\ DOMAIN Products = 1 .. Len(Products) /\ C!Ids = C!ToSet(Products)
  /\ \A i \in 1 .. Len(Products) : Products[i] \in C!Ids
  /\ \A p \in C!Ids : Where(p) \in 1 .. Len(Products) /\ Products[Where(p)] = p
<1>1. /\ Len(Products) \in Nat /\ DOMAIN Products = 1 .. Len(Products)
      /\ \A i \in 1 .. Len(Products) : Products[i] \in C!Ids
  BY MirrorAssumption, SeqFacts
<1>2. ASSUME NEW p \in C!Ids PROVE Where(p) \in DOMAIN Products /\ Products[Where(p)] = p
  <2>1. \E i \in DOMAIN Products : Products[i] = p
    BY DEF C!Ids, C!ToSet
  <2> QED BY <2>1 DEF Where
<1> QED BY <1>1, <1>2 DEF C!Ids

LEMMA RowIs ==
  ASSUME NEW s, NEW p \in C!Ids, s[p].live
  PROVE  /\ Row(s, p) \in Nat /\ Row(s, p) < Len(C!Only(Products, LiveIn(s)))
         /\ C!Only(Products, LiveIn(s))[Row(s, p) + 1] = p
<1>1. Where(p) \in 1 .. Len(Products) /\ Products[Where(p)] = p /\ p \in LiveIn(s)
  BY ProductsFacts DEF LiveIn
<1>2. Products \in Seq(C!Ids)
  BY MirrorAssumption
<1> QED BY <1>1, <1>2, MirrorPlaces DEF Row

LEMMA RowIsNat ==
  ASSUME NEW s, NEW p \in C!Ids
  PROVE  Row(s, p) \in Nat
<1>1. Where(p) \in Nat
  BY ProductsFacts
<1> QED BY <1>1, PassedIsFinite DEF Row

LEMMA InShopFacts ==
  /\ C!InShop = C!Only(Products, LiveIn(shop)) /\ C!InShop \in Seq(C!Ids) /\ Len(C!InShop) \in Nat
  /\ Len(C!InShop) <= Len(Products)
  /\ \A i \in 1 .. Len(C!InShop) : C!InShop[i] \in C!Ids /\ shop[C!InShop[i]].live
<1>1. C!InShop = C!Only(Products, LiveIn(shop))
  BY DEF C!InShop, C!Live, LiveIn
<1>2. /\ C!InShop \in Seq(C!Ids) /\ Len(C!InShop) <= Len(Products)
      /\ C!ToSet(C!InShop) = C!ToSet(Products) \cap LiveIn(shop)
  BY <1>1, MirrorAssumption, MirrorOnly
<1>3. DOMAIN C!InShop = 1 .. Len(C!InShop) /\ Len(C!InShop) \in Nat
  BY <1>2, SeqFacts
<1>4. \A i \in 1 .. Len(C!InShop) : C!InShop[i] \in C!ToSet(C!InShop)
  BY <1>3 DEF C!ToSet
<1> QED BY <1>1, <1>2, <1>3, <1>4 DEF LiveIn

(* A change of one moves only what comes after it. *)
After(p) == {Products[i] : i \in {i \in DOMAIN Products : \E j \in 1 .. i - 1 : Products[j] = p}}

NotBefore(s, u, p, q) ==
    /\ \A x \in C!Ids \ {p} : s[x].live = u[x].live
    /\ s[p].live = u[p].live \/ q \notin After(p)

LEMMA RowStays ==
  ASSUME NEW s, NEW u, NEW p \in C!Ids, NEW q \in C!Ids, NotBefore(s, u, p, q)
  PROVE  Row(u, q) = Row(s, q)
<1> USE DEF NotBefore
<1> DEFINE i == Where(q)
<1>1. i \in 1 .. Len(Products) /\ Products[i] = q /\ DOMAIN Products = 1 .. Len(Products)
      /\ Len(Products) \in Nat
  BY ProductsFacts
<1>2. \A j \in 1 .. i - 1 : Products[j] \in C!Ids
  BY <1>1, ProductsFacts
<1> HIDE DEF i
<1>3. CASE s[p].live = u[p].live
  <2>1. \A x \in C!Ids : s[x].live = u[x].live
    BY <1>3
  <2>2. LiveIn(s) = LiveIn(u)
    BY <2>1 DEF LiveIn
  <2> QED BY <2>2 DEF Row
<1>4. CASE q \notin After(p)
  <2>1. \A j \in 1 .. i - 1 : Products[j] # p
    BY <1>1, <1>4 DEF After
  <2>2. \A j \in 1 .. i - 1 : Products[j] \in LiveIn(s) <=> Products[j] \in LiveIn(u)
    BY <1>2, <2>1 DEF LiveIn
  <2>3. Passed(Products, LiveIn(s), i) = Passed(Products, LiveIn(u), i)
    BY <2>2 DEF Passed
  <2> QED BY <2>3 DEF Row, i
<1> QED BY <1>3, <1>4

(* The requests. *)
LEMMA SetFacts ==
  ASSUME DOMAIN tasks = Requests, NEW r \in Requests, NEW t, C!Set(r, t)
  PROVE  /\ DOMAIN tasks' = Requests /\ tasks'[r] = t
         /\ \A q \in Requests \ {r} : tasks'[q] = tasks[q]
  BY DEF C!Set

LEMMA PushedStays ==
  ASSUME NEW r \in Requests, \A q \in Requests \ {r} : tasks'[q] = tasks[q], tasks[r].pc # "push"
  PROVE  \A p : Pushed(p) => Pushed(p)'
  BY DEF Pushed

(* What a batch brings. *)
LEMMA BatchFacts ==
  ASSUME NEW b, NEW s, BatchOK(b, s)
  PROVE  /\ DOMAIN b = 1 .. Len(b) /\ Len(b) \in Nat /\ \A i \in DOMAIN b : b[i] \in C!ToSet(b)
         /\ \A e \in C!ToSet(b) : e \in Snaps /\ e.id \in C!Ids /\ e.v \in Nat /\ \E i \in DOMAIN b : b[i] = e
<1>1. DOMAIN b = 1 .. Len(b) /\ Len(b) \in Nat /\ \A i \in 1 .. Len(b) : b[i] \in Snaps
  BY SeqFacts DEF BatchOK
<1>2. \A e \in C!ToSet(b) : \E i \in DOMAIN b : b[i] = e
  BY DEF C!ToSet
<1>3. \A i \in DOMAIN b : b[i] \in C!ToSet(b)
  BY DEF C!ToSet
<1> QED BY <1>1, <1>2, <1>3 DEF Snaps

LEMMA BatchGrows ==
  ASSUME shop \in [C!Ids -> C!Versions], NEW p \in C!Ids, NEW b \in BOOLEAN,
         shop' = [shop EXCEPT ![p] = [v |-> @.v + 1, live |-> b]], NEW batch, BatchOK(batch, shop)
  PROVE  BatchOK(batch, shop')
<1>1. \A x \in C!Ids : shop[x].v \in Nat /\ shop'[x].v \in Nat /\ (x = p => shop'[x].v = shop[x].v + 1)
                   /\ (x # p => shop'[x] = shop[x])
  BY MirrorAssumption DEF C!Versions
<1>2. \A e \in C!ToSet(batch) : e.id \in C!Ids /\ e.v \in Nat
  BY BatchFacts
<1>3. ASSUME NEW e \in C!ToSet(batch)
      PROVE  e.v <= shop'[e.id].v /\ (e.v = shop'[e.id].v => shop'[e.id].live)
  <2>1. e.v <= shop[e.id].v /\ (e.v = shop[e.id].v => shop[e.id].live)
    BY DEF BatchOK
  <2> QED BY <1>1, <1>2, <2>1
<1> QED BY <1>3 DEF BatchOK

LEMMA UpsertFacts ==
  ASSUME mirror \in [C!Ids -> C!Versions], shop \in [C!Ids -> C!Versions], NEW b, BatchOK(b, shop)
  PROVE  /\ C!Upserted(b) \in [C!Ids -> C!Versions]
         /\ \A e \in C!ToSet(b) : C!Upserted(b)[e.id] = [v |-> e.v, live |-> TRUE]
         /\ \A p \in C!Ids : (\A e \in C!ToSet(b) : e.id # p) => C!Upserted(b)[p] = mirror[p]
         /\ \A p \in C!Ids : mirror[p] = shop[p] => C!Upserted(b)[p] = shop[p] \/ p \in C!Overtaken(b)
         /\ \A e \in C!ToSet(b) : e.v = shop[e.id].v => C!Upserted(b)[e.id] = shop[e.id]
         /\ C!Overtaken(b) \subseteq C!Ids
<1> DEFINE M == C!Upserted(b)
<1>1. \A p \in C!Ids : M[p] = IF \E i \in DOMAIN b : b[i].id = p
                           THEN [v |-> (CHOOSE e \in C!ToSet(b) : e.id = p).v, live |-> TRUE] ELSE mirror[p]
  BY DEF C!Upserted
<1>2. ASSUME NEW e \in C!ToSet(b) PROVE M[e.id] = [v |-> e.v, live |-> TRUE] /\ e.id \in C!Ids
  <2>1. e.id \in C!Ids /\ \E i \in DOMAIN b : b[i].id = e.id
    BY BatchFacts
  <2>2. (CHOOSE f \in C!ToSet(b) : f.id = e.id) = e
    <3>1. \A f \in C!ToSet(b) : f.id = e.id => f = e
      BY DEF BatchOK, Once
    <3> QED BY <3>1
  <2> QED BY <1>1, <2>1, <2>2
<1>3. ASSUME NEW p \in C!Ids, \A e \in C!ToSet(b) : e.id # p PROVE M[p] = mirror[p]
  <2>1. ~ \E i \in DOMAIN b : b[i].id = p
    BY <1>3, BatchFacts
  <2> QED BY <1>1, <2>1
<1>4. \A e \in C!ToSet(b) : /\ e.v \in Nat /\ e.v <= shop[e.id].v /\ (e.v = shop[e.id].v => shop[e.id].live = TRUE)
                            /\ shop[e.id] \in C!Versions /\ e.id \in C!Ids
  <2>1. \A e \in C!ToSet(b) : e.id \in C!Ids /\ e.v \in Nat
    BY BatchFacts
  <2>2. \A p \in C!Ids : shop[p] \in C!Versions /\ shop[p].live \in BOOLEAN
    BY DEF C!Versions
  <2> QED BY <2>1, <2>2 DEF BatchOK
<1>5. ASSUME NEW e \in C!ToSet(b), e.v = shop[e.id].v PROVE M[e.id] = shop[e.id]
  <2>1. shop[e.id] = [v |-> shop[e.id].v, live |-> shop[e.id].live]
    BY <1>4 DEF C!Versions
  <2> QED BY <1>2, <1>4, <1>5, <2>1
<1>6. \A p \in C!Ids : M[p] \in C!Versions
  <2> TAKE p \in C!Ids
  <2>1. CASE \E e \in C!ToSet(b) : e.id = p
    <3>1. PICK e \in C!ToSet(b) : e.id = p
      BY <2>1
    <3>2. e.v \in 0 .. MaxSaves
      BY <1>4, <3>1, MirrorAssumption DEF C!Versions
    <3>3. M[p] = [v |-> e.v, live |-> TRUE]
      BY <1>2, <3>1
    <3> HIDE DEF M
    <3> QED BY <3>2, <3>3 DEF C!Versions
  <2>2. CASE \A e \in C!ToSet(b) : e.id # p
    BY <1>3, <2>2
  <2> QED BY <2>1, <2>2
<1>7. M \in [C!Ids -> C!Versions]
  <2>1. M = [p \in C!Ids |-> M[p]]
    BY DEF C!Upserted
  <2> HIDE DEF M
  <2> QED BY <1>6, <2>1
<1>8. ASSUME NEW p \in C!Ids, mirror[p] = shop[p] PROVE M[p] = shop[p] \/ p \in C!Overtaken(b)
  <2>1. CASE \E e \in C!ToSet(b) : e.id = p
    <3>1. PICK e \in C!ToSet(b) : e.id = p
      BY <2>1
    <3>2. CASE e.v = shop[p].v
      BY <1>5, <3>1, <3>2
    <3>3. CASE e.v # shop[p].v
      <4>1. e.v < mirror[e.id].v
        <5>1. e.v \in Nat /\ e.v <= shop[p].v /\ shop[p].v \in Nat
          BY <1>4, <3>1 DEF C!Versions
        <5>2. mirror[e.id].v = shop[p].v
          BY <1>8, <3>1
        <5> QED BY <3>3, <5>1, <5>2
      <4> QED BY <3>1, <4>1 DEF C!Overtaken
    <3> QED BY <3>2, <3>3
  <2>2. CASE \A e \in C!ToSet(b) : e.id # p
    BY <1>3, <1>8, <2>2
  <2> QED BY <2>1, <2>2
<1>9. C!Overtaken(b) \subseteq C!Ids
  BY <1>4 DEF C!Overtaken
<1> QED BY <1>2, <1>3, <1>5, <1>7, <1>8, <1>9

LEMMA SentIs ==
  ASSUME NEW s, NEW b, BatchOK(b, s)
  PROVE  /\ BatchOK(C!Sent(b), s) /\ Len(C!Sent(b)) \in 0 .. Len(b)
         /\ \A i \in 1 .. Len(C!Sent(b)) : C!Sent(b)[i] = b[i]
<1> DEFINE n == IF Len(b) = 1 THEN 1 ELSE Len(b) \div 2
           half == SubSeq(b, 1, n)
<1>1. b \in Seq(Snaps) /\ Len(b) \in Nat
  BY BatchFacts DEF BatchOK
<1>2. n \in 0 .. Len(b)
  BY <1>1
<1> HIDE DEF n
<1>3. half \in Seq(Snaps) /\ Len(half) = n /\ \A i \in 1 .. n : half[i] = b[i]
  <2>1. 1 \in 1 .. Len(b) + 1 /\ n \in 1 - 1 .. Len(b)
    BY <1>1, <1>2
  <2>2. /\ half \in Seq(Snaps) /\ Len(half) = n - 1 + 1
        /\ \A k \in 1 .. n - 1 + 1 : half[k] = b[1 + k - 1]
    BY <1>1, <2>1, PartOf
  <2>3. n - 1 + 1 = n /\ \A k \in 1 .. n : 1 + k - 1 = k
    BY <1>2
  <2> QED BY <2>2, <2>3
<1> HIDE DEF half
<1>4. C!Sent(b) \in {b, half, <<>>}
  BY DEF C!Sent, half, n
<1>5. /\ C!Sent(b) \in Seq(Snaps) /\ Len(C!Sent(b)) \in 0 .. Len(b)
      /\ \A i \in 1 .. Len(C!Sent(b)) : C!Sent(b)[i] = b[i]
  <2>1. CASE C!Sent(b) = b
    BY <1>1, <2>1
  <2>2. CASE C!Sent(b) = half
    BY <1>1, <1>2, <1>3, <2>2
  <2>3. CASE C!Sent(b) = <<>>
    BY <1>1, <2>3
  <2> QED BY <1>4, <2>1, <2>2, <2>3
<1>6. C!ToSet(C!Sent(b)) \subseteq C!ToSet(b)
  <2>1. DOMAIN C!Sent(b) = 1 .. Len(C!Sent(b)) /\ DOMAIN b = 1 .. Len(b)
    BY <1>1, <1>5, SeqFacts
  <2>2. \A i \in 1 .. Len(C!Sent(b)) : i \in 1 .. Len(b) /\ C!Sent(b)[i] = b[i]
    BY <1>1, <1>5
  <2> QED BY <2>1, <2>2 DEF C!ToSet
<1> QED BY <1>5, <1>6 DEF BatchOK, Once
-----------------------------------------------------------------------------
LEMMA MirrorInit == C!Init => MirrorInv
<1> SUFFICES ASSUME C!Init PROVE MirrorInv
  OBVIOUS
<1>1. MirrorTyped
  <2>1. shop \in [C!Ids -> C!Versions] /\ mirror \in [C!Ids -> C!Versions]
    BY MirrorAssumption DEF C!Init, C!Versions
  <2>2. QueueOK(backlog)
    BY MirrorAssumption DEF C!Init, QueueOK, Once, C!ToSet
  <2>3. cursor \in Cursors
    BY MirrorAssumption, ProductsFacts DEF C!Init, C!NoCursor, Cursors
  <2>4. DOMAIN tasks = Requests /\ \A r \in Requests : TaskOK(tasks[r], shop)
    BY DEF C!Init, C!Free, TaskOK, Walks
  <2> QED BY <2>1, <2>2, <2>3, <2>4, MirrorAssumption DEF MirrorTyped, C!Init
<1>2. \A r \in Requests : tasks[r].pc = "idle"
  BY DEF C!Init, C!Free
<1>3. ASSUME NEW p \in C!Ids PROVE Delivered(p) \/ Ahead(p)
  <2>1. mirror[p] = [v |-> 0, live |-> FALSE] /\ \E b \in BOOLEAN : shop[p] = [v |-> 0, live |-> b]
    BY DEF C!Init
  <2>2. CASE shop[p] = [v |-> 0, live |-> FALSE]
    BY <2>1, <2>2 DEF Delivered
  <2>3. CASE shop[p] = [v |-> 0, live |-> TRUE]
    BY <1>2, <2>3 DEF Ahead, AheadOf, Walks, C!Init, C!NoCursor
  <2> QED BY <2>1, <2>2, <2>3
<1>4. Upserts(backlog) = {}
  BY DEF C!Init, Upserts, C!ToSet
<1> QED BY <1>1, <1>2, <1>3, <1>4 DEF MirrorInv

(* A request that does not write to the queue turns to something else. *)
LEMMA Turns ==
  ASSUME MirrorInv, NEW r \in Requests, NEW t, C!Set(r, t), tasks[r].pc # "push",
         UNCHANGED <<shop, mirror, backlog>>, missed \subseteq missed', missed' \subseteq C!Ids,
         cursor' \in Cursors, runs' \in 0 .. MaxRuns, mishaps' \in 0 .. MirrorTroubles, TaskOK(t, shop),
         \A p \in C!Ids : Ahead(p) => Delivered(p) \/
             /\ AheadOf(cursor', shop, p)
             /\ t.pc \in Walks => AheadOf(t.at, shop, p)
             /\ t.pc = "send" => Batched(t, shop, p),
         t.pc \in {"push", "upserts", "removals"} => \A p \in Upserts(t.seen) : Told(p),
         t.pc = "send" => \A e \in C!ToSet(t.batch) : e.v = shop[e.id].v \/ Delivered(e.id)
  PROVE  MirrorInv'
<1>1. DOMAIN tasks' = Requests /\ tasks'[r] = t /\ \A q \in Requests \ {r} : tasks'[q] = tasks[q]
  BY SetFacts DEF MirrorInv, MirrorTyped
<1>2. \A p : (Delivered(p) => Delivered(p)') /\ (Told(p) => Told(p)')
  BY <1>1, PushedStays DEF Delivered, Told
<1>3. MirrorTyped'
  BY <1>1 DEF MirrorInv, MirrorTyped
<1>4. ASSUME NEW p \in C!Ids PROVE Delivered(p)' \/ Ahead(p)'
  <2>1. CASE Delivered(p)
    BY <1>2, <2>1
  <2>2. CASE ~Delivered(p)
    <3>1. Ahead(p) /\ AheadOf(cursor', shop', p)
      BY <2>2 DEF MirrorInv
    <3>2. ASSUME NEW q \in Requests
          PROVE  /\ tasks'[q].pc \in Walks => AheadOf(tasks'[q].at, shop', p)
                 /\ tasks'[q].pc = "send" => Batched(tasks'[q], shop', p)
      <4>1. CASE q = r
        BY <1>1, <2>2, <3>1, <4>1
      <4>2. CASE q # r
        BY <1>1, <3>1, <4>2 DEF Ahead
      <4> QED BY <4>1, <4>2
    <3> QED BY <3>1, <3>2 DEF Ahead
  <2> QED BY <2>1, <2>2
<1>5. \A p \in Upserts(backlog') : Told(p)'
  BY <1>2 DEF MirrorInv
<1>6. ASSUME NEW q \in Requests
      PROVE  /\ tasks'[q].pc \in {"push", "upserts", "removals"} =>
                    \A p \in Upserts(tasks'[q].seen) : Told(p)'
             /\ tasks'[q].pc = "send" =>
                    \A e \in C!ToSet(tasks'[q].batch) : e.v = shop'[e.id].v \/ Delivered(e.id)'
  <2>1. CASE q = r
    BY <1>1, <1>2, <2>1
  <2>2. CASE q # r
    BY <1>1, <1>2, <2>2 DEF MirrorInv
  <2> QED BY <2>1, <2>2
<1> QED BY <1>3, <1>4, <1>5, <1>6 DEF MirrorInv

LEMMA InvFacts ==
  ASSUME MirrorInv
  PROVE  /\ MirrorTyped /\ DOMAIN tasks = Requests /\ shop \in [C!Ids -> C!Versions] /\ mirror \in [C!Ids -> C!Versions]
         /\ QueueOK(backlog) /\ cursor \in Cursors /\ missed \subseteq C!Ids
         /\ \A r \in Requests : TaskOK(tasks[r], shop)
         /\ runs \in 0 .. MaxRuns /\ mishaps \in 0 .. MirrorTroubles
  BY DEF MirrorInv, MirrorTyped

(* Copies taken now. *)
LEMMA EntriesOK ==
  ASSUME shop \in [C!Ids -> C!Versions], NEW n \in Nat, NEW b, b = [i \in 1 .. n |-> b[i]],
         \A i \in 1 .. n : \E p \in C!Ids : shop[p].live /\ b[i] = C!Entry(p)
  PROVE  /\ BatchOK(b, shop) /\ Len(b) = n
         /\ \A e \in C!ToSet(b) : e.v = shop[e.id].v
<1>1. \A p \in C!Ids : C!Entry(p) \in Snaps /\ C!Entry(p).id = p /\ C!Entry(p).v = shop[p].v
  BY MirrorAssumption DEF C!Entry, Snaps, C!Versions
<1>2. b \in Seq(Snaps) /\ Len(b) = n /\ DOMAIN b = 1 .. n
  <2>1. \A i \in 1 .. n : b[i] \in Snaps
    BY <1>1
  <2>2. DOMAIN b = 1 .. n
    OBVIOUS
  <2> QED BY <2>1, <2>2, Listed
<1>3. \A e \in C!ToSet(b) : \E p \in C!Ids : shop[p].live /\ e = C!Entry(p)
  BY <1>2 DEF C!ToSet
<1>4. \A e \in C!ToSet(b) : e = C!Entry(e.id) /\ e.v = shop[e.id].v /\ shop[e.id].live /\ shop[e.id].v \in Nat
  <2>1. \A p \in C!Ids : shop[p].v \in Nat
    BY MirrorAssumption DEF C!Versions
  <2> QED BY <1>1, <1>3, <2>1
<1>5. Once(b)
  BY <1>4 DEF Once
<1>6. \A e \in C!ToSet(b) : e.v <= shop[e.id].v /\ (e.v = shop[e.id].v => shop[e.id].live)
  BY <1>4
<1> QED BY <1>2, <1>4, <1>5, <1>6 DEF BatchOK

LEMMA DrainStarts ==
  ASSUME MirrorInv, NEW r \in Requests, C!DrainStart(r)
  PROVE  MirrorInv'
<1> DEFINE ups == C!ToBe("upsert")
           leaving == C!ToBe("remove")
           known == C!Only(ups, {e \in C!ToSet(backlog) : shop[e.id].live})
           t == [pc |-> IF ups = <<>> THEN "removals" ELSE "upserts",
                 seen |-> backlog, ids |-> C!IdsOf(ups),
                 batch |-> [i \in DOMAIN known |-> C!Entry(known[i].id)],
                 removals |-> [i \in DOMAIN leaving |-> leaving[i].id]]
<1>1. C!Set(r, t) /\ tasks[r].pc = "idle" /\ UNCHANGED <<shop, mirror, backlog, cursor, runs, mishaps, missed>>
  BY DEF C!DrainStart, C!On
<1>2. backlog \in Seq(Entries) /\ C!ToSet(backlog) \subseteq Entries
  <2>1. backlog \in Seq(Entries)
    BY InvFacts DEF QueueOK
  <2> QED BY <2>1, SeqFacts DEF C!ToSet
<1>3. /\ ups \in Seq(Entries) /\ C!ToSet(ups) \subseteq C!ToSet(backlog)
      /\ leaving \in Seq(Entries)
  BY <1>2, MirrorOnly DEF C!ToBe
<1> HIDE DEF ups, leaving
<1>4. known \in Seq(Entries) /\ C!ToSet(known) \subseteq {e \in C!ToSet(backlog) : shop[e.id].live}
  BY <1>3, MirrorOnly
<1> HIDE DEF known
<1>5. BatchOK(t.batch, shop)
  <2>1. Len(known) \in Nat /\ DOMAIN known = 1 .. Len(known)
    BY <1>4, SeqFacts
  <2>2. \A i \in 1 .. Len(known) : known[i] \in Entries /\ known[i].id \in C!Ids /\ shop[known[i].id].live
    <3>1. \A i \in 1 .. Len(known) : known[i] \in C!ToSet(known)
      BY <2>1 DEF C!ToSet
    <3> QED BY <1>2, <1>4, <3>1 DEF Entries
  <2> DEFINE b == [i \in 1 .. Len(known) |-> C!Entry(known[i].id)]
  <2>3. b = [i \in 1 .. Len(known) |-> b[i]] /\ \A i \in 1 .. Len(known) : b[i] = C!Entry(known[i].id)
    OBVIOUS
  <2>4. t.batch = b
    BY <2>1
  <2> HIDE DEF b
  <2>5. \A i \in 1 .. Len(known) : \E p \in C!Ids : shop[p].live /\ b[i] = C!Entry(p)
    BY <2>2, <2>3
  <2>6. BatchOK(b, shop)
    BY <2>1, <2>3, <2>5, InvFacts, EntriesOK
  <2> QED BY <2>4, <2>6
<1>6. t.removals \in Seq(C!Ids)
  <2>1. Len(leaving) \in Nat /\ DOMAIN leaving = 1 .. Len(leaving) /\ \A i \in 1 .. Len(leaving) : leaving[i] \in Entries
    BY <1>3, SeqFacts
  <2>2. \A i \in 1 .. Len(leaving) : leaving[i].id \in C!Ids
    BY <2>1 DEF Entries
  <2> DEFINE g == [i \in 1 .. Len(leaving) |-> leaving[i].id]
  <2>3. t.removals = g
    BY <2>1
  <2>4. g \in Seq(C!Ids)
    BY <2>1, <2>2
  <2> QED BY <2>3, <2>4
<1>7. t.ids \subseteq C!Ids
  BY <1>2, <1>3 DEF C!IdsOf, Entries
<1>8. t.pc \in {"removals", "upserts"} /\ t.seen = backlog
  OBVIOUS
<1> HIDE DEF t
<1>9. TaskOK(t, shop)
  BY <1>5, <1>6, <1>7, <1>8, InvFacts DEF TaskOK, Walks
<1>10. \A p \in C!Ids : Ahead(p) => AheadOf(cursor', shop, p)
  BY <1>1 DEF Ahead
<1>11. \A p \in Upserts(t.seen) : Told(p)
  BY <1>8 DEF MirrorInv
<1> QED BY <1>1, <1>8, <1>9, <1>10, <1>11, InvFacts, Turns DEF Walks

LEMMA MishapIsSmall ==
  ASSUME mishaps \in 0 .. MirrorTroubles, C!Mishap
  PROVE  mishaps' \in 0 .. MirrorTroubles
  BY MirrorAssumption DEF C!Mishap

LEMMA DrainStops ==
  ASSUME MirrorInv, NEW r \in Requests, C!DrainFails(r) \/ C!DrainEnds(r) \/ C!SweepStart(r) \/ (C!Ends(r) /\ ~C!On(r, "push"))
  PROVE  MirrorInv'
<1>1. /\ tasks[r].pc # "push" /\ UNCHANGED <<shop, mirror, backlog, cursor, runs, missed>>
      /\ mishaps' \in 0 .. MirrorTroubles
  BY InvFacts, MishapIsSmall DEF C!DrainFails, C!DrainEnds, C!SweepStart, C!Ends, C!On, C!QueuedAgain
<1>2. \A p \in C!Ids : Ahead(p) => AheadOf(cursor', shop, p)
  BY <1>1 DEF Ahead
<1>3. CASE C!DrainFails(r)
  <2> DEFINE t == [tasks[r] EXCEPT !.pc = "removals"]
  <2>1. C!Set(r, t) /\ tasks[r].pc = "upserts"
    BY <1>3 DEF C!DrainFails, C!Turn, C!On
  <2>2. t.pc = "removals" /\ t.seen = tasks[r].seen /\ t.removals = tasks[r].removals
    BY <2>1
  <2> HIDE DEF t
  <2>3. TaskOK(t, shop)
    BY <2>1, <2>2, InvFacts DEF TaskOK, Walks
  <2>4. \A p \in Upserts(t.seen) : Told(p)
    BY <2>1, <2>2 DEF MirrorInv
  <2> QED BY <1>1, <1>2, <2>1, <2>2, <2>3, <2>4, InvFacts, Turns DEF Walks
<1>4. CASE C!DrainEnds(r) \/ C!Ends(r)
  <2>1. C!Set(r, C!Free)
    BY <1>4 DEF C!DrainEnds, C!Ends
  <2>2. TaskOK(C!Free, shop) /\ C!Free.pc \notin Walks \cup {"push", "upserts", "removals"} /\ C!Free.pc # "send"
    BY DEF TaskOK, C!Free, Walks
  <2> QED BY <1>1, <1>2, <2>1, <2>2, InvFacts, Turns
<1>5. CASE C!SweepStart(r)
  <2>1. PICK ids : C!Set(r, [pc |-> "sweep", ids |-> ids, floor |-> ids[1], manifest |-> C!ToSet(ids)])
    BY <1>5 DEF C!SweepStart
  <2> DEFINE t == [pc |-> "sweep", ids |-> ids, floor |-> ids[1], manifest |-> C!ToSet(ids)]
  <2>2. TaskOK(t, shop) /\ t.pc = "sweep"
    BY DEF TaskOK, Walks
  <2> HIDE DEF t
  <2>3. C!Set(r, t)
    BY <2>1 DEF t
  <2> QED BY <1>1, <1>2, <2>2, <2>3, InvFacts, Turns DEF Walks
<1> QED BY <1>3, <1>4, <1>5

LEMMA WalkTurns ==
  ASSUME MirrorInv, NEW r \in Requests, C!WalkEmpty(r) \/ C!WalkFails(r)
  PROVE  MirrorInv'
<1> DEFINE t == [tasks[r] EXCEPT !.pc = "release"]
<1>1. /\ C!Set(r, t) /\ tasks[r].pc \in {"page", "send"} /\ UNCHANGED <<shop, mirror, backlog, cursor, runs, missed>>
      /\ mishaps' \in 0 .. MirrorTroubles
  BY InvFacts, MishapIsSmall DEF C!WalkEmpty, C!WalkFails, C!Turn, C!On
<1>2. t.pc = "release" /\ t.at = tasks[r].at
  BY <1>1
<1> HIDE DEF t
<1>3. TaskOK(t, shop)
  BY <1>1, <1>2, InvFacts DEF TaskOK, Walks
<1>4. \A p \in C!Ids : Ahead(p) => AheadOf(cursor', shop, p) /\ AheadOf(t.at, shop, p)
  BY <1>1, <1>2 DEF Ahead, Walks
<1> QED BY <1>1, <1>2, <1>3, <1>4, InvFacts, Turns

LEMMA WalkReads ==
  ASSUME MirrorInv, NEW r \in Requests, C!WalkRead(r)
  PROVE  MirrorInv'
<1> DEFINE t == [pc |-> "claim", at |-> cursor]
<1>1. /\ C!Set(r, t) /\ tasks[r].pc = "idle" /\ UNCHANGED <<shop, mirror, backlog, cursor, runs, missed, mishaps>>
  BY DEF C!WalkRead, C!On
<1>2. t.pc = "claim" /\ t.at = cursor
  OBVIOUS
<1> HIDE DEF t
<1>3. TaskOK(t, shop)
  BY <1>1, <1>2, InvFacts DEF TaskOK, Walks
<1>4. \A p \in C!Ids : Ahead(p) => AheadOf(cursor', shop, p) /\ AheadOf(t.at, shop, p)
  BY <1>1, <1>2 DEF Ahead
<1> QED BY <1>1, <1>2, <1>3, <1>4, InvFacts, Turns

LEMMA SameAhead ==
  ASSUME NEW c \in Cursors, NEW b
  PROVE  \A s, p : AheadOf([c EXCEPT !.claimed = b], s, p) <=> AheadOf(c, s, p)
<1>1. [c EXCEPT !.claimed = b].run = c.run /\ [c EXCEPT !.claimed = b].offset = c.offset
      /\ [c EXCEPT !.claimed = b].total = c.total
  BY DEF Cursors
<1> QED BY <1>1 DEF AheadOf

LEMMA WalkClaims ==
  ASSUME MirrorInv, NEW r \in Requests, C!WalkClaim(r)
  PROVE  MirrorInv'
<1> DEFINE c == [tasks[r].at EXCEPT !.claimed = TRUE]
           t == [pc |-> IF C!Complete(tasks[r].at) THEN "release" ELSE "page", at |-> c]
<1>1. /\ C!Set(r, t) /\ cursor' = c /\ tasks[r].pc = "claim" /\ UNCHANGED <<shop, mirror, backlog, runs, missed, mishaps>>
  BY DEF C!WalkClaim, C!On
<1>2. tasks[r].at \in Cursors
  BY <1>1, InvFacts DEF TaskOK, Walks
<1>3. c \in Cursors /\ \A s, p : AheadOf(c, s, p) <=> AheadOf(tasks[r].at, s, p)
  BY <1>2, SameAhead DEF Cursors
<1>4. t.pc \in {"release", "page"} /\ t.at = c
  OBVIOUS
<1> HIDE DEF t, c
<1>5. TaskOK(t, shop)
  BY <1>3, <1>4 DEF TaskOK, Walks
<1>6. \A p \in C!Ids : Ahead(p) => AheadOf(cursor', shop, p) /\ AheadOf(t.at, shop, p)
  BY <1>1, <1>3, <1>4 DEF Ahead, Walks
<1> QED BY <1>1, <1>3, <1>4, <1>5, <1>6, InvFacts, Turns

LEMMA WalkReleases ==
  ASSUME MirrorInv, NEW r \in Requests, C!WalkRelease(r)
  PROVE  MirrorInv'
<1> DEFINE c == [tasks[r].at EXCEPT !.claimed = FALSE]
<1>1. /\ C!Set(r, C!Free) /\ cursor' = c /\ tasks[r].pc = "release" /\ UNCHANGED <<shop, mirror, backlog, runs, missed, mishaps>>
  BY DEF C!WalkRelease, C!On
<1>2. tasks[r].at \in Cursors
  BY <1>1, InvFacts DEF TaskOK, Walks
<1>3. c \in Cursors /\ \A s, p : AheadOf(c, s, p) <=> AheadOf(tasks[r].at, s, p)
  BY <1>2, SameAhead DEF Cursors
<1> HIDE DEF c
<1>4. TaskOK(C!Free, shop) /\ C!Free.pc \notin Walks \cup {"push", "upserts", "removals"} /\ C!Free.pc # "send"
  BY DEF TaskOK, C!Free, Walks
<1>5. \A p \in C!Ids : Ahead(p) => AheadOf(cursor', shop, p)
  BY <1>1, <1>3 DEF Ahead, Walks
<1> QED BY <1>1, <1>3, <1>4, <1>5, InvFacts, Turns

LEMMA BeginsAhead ==
  ASSUME MirrorInv, NEW r \in Requests, tasks[r].pc = "page", tasks[r].at.run # 0 \/ runs < MaxRuns
  PROVE  /\ C!Begun(r) \in Cursors /\ C!Begun(r).run # 0
         /\ \A p \in C!Ids : AheadOf(tasks[r].at, shop, p) => AheadOf(C!Begun(r), shop, p)
         /\ (IF tasks[r].at.run = 0 THEN runs + 1 ELSE runs) \in 0 .. MaxRuns
<1>1. /\ tasks[r].at \in Cursors /\ runs \in 0 .. MaxRuns /\ MaxRuns \in Nat
  BY InvFacts, MirrorAssumption DEF TaskOK, Walks
<1>2. CASE tasks[r].at.run # 0
  BY <1>1, <1>2 DEF C!Begun
<1>3. CASE tasks[r].at.run = 0
  <2> DEFINE c == [run |-> runs + 1, offset |-> 0, total |-> Len(C!InShop), claimed |-> TRUE]
  <2>1. C!Begun(r) = c /\ runs + 1 \in 0 .. MaxRuns /\ runs + 1 # 0
    BY <1>1, <1>3 DEF C!Begun
  <2>2. c \in Cursors
    BY <2>1, InShopFacts, ProductsFacts DEF Cursors
  <2>3. ASSUME NEW p \in C!Ids, shop[p].live PROVE AheadOf(c, shop, p)
    BY <2>3, RowIs, InShopFacts DEF AheadOf
  <2> QED BY <1>3, <2>1, <2>2, <2>3 DEF AheadOf
<1> QED BY <1>2, <1>3

LEMMA WalkPages ==
  ASSUME MirrorInv, NEW r \in Requests, C!WalkPage(r)
  PROVE  MirrorInv'
<1> DEFINE c == C!Begun(r)
           batch == C!PageFrom(c.offset)
           at == IF batch = <<>> THEN [c EXCEPT !.offset = IF c.total > @ THEN c.total ELSE @] ELSE c
           t == [pc |-> IF batch = <<>> THEN "release" ELSE "send", at |-> at, batch |-> batch]
           last == IF c.offset + ProductBatch < Len(C!InShop) THEN c.offset + ProductBatch ELSE Len(C!InShop)
           n == IF last > c.offset THEN last - c.offset ELSE 0
<1>1. /\ C!Set(r, t) /\ tasks[r].pc = "page" /\ UNCHANGED <<shop, mirror, backlog, missed, mishaps>>
      /\ cursor' \in {cursor, at} /\ runs' = (IF tasks[r].at.run = 0 THEN runs + 1 ELSE runs)
      /\ (tasks[r].at.run # 0 \/ runs < MaxRuns)
  BY DEF C!WalkPage, C!On
<1>2. /\ c \in Cursors /\ c.run # 0 /\ runs' \in 0 .. MaxRuns
      /\ \A p \in C!Ids : AheadOf(tasks[r].at, shop, p) => AheadOf(c, shop, p)
  BY <1>1, BeginsAhead
<1>3. /\ c.offset \in 0 .. Len(Products) /\ c.total \in 0 .. Len(Products) /\ Len(Products) \in Nat
      /\ Len(C!InShop) \in Nat /\ Len(C!InShop) <= Len(Products) /\ ProductBatch \in Nat /\ ProductBatch >= 1
  BY <1>2, InShopFacts, ProductsFacts, MirrorAssumption DEF Cursors
<1>4. batch = [i \in 1 .. n |-> C!Entry(C!InShop[c.offset + i])]
  BY DEF C!PageFrom
<1>5. /\ n \in Nat /\ (n = 0 => Len(C!InShop) <= c.offset) /\ (n # 0 => c.offset + n <= Len(C!InShop))
  BY <1>3
<1> HIDE DEF c, n, batch
<1>6. BatchOK(batch, shop) /\ Len(batch) = n /\ \A e \in C!ToSet(batch) : e.v = shop[e.id].v
  <2>1. batch = [i \in 1 .. n |-> batch[i]] /\ \A i \in 1 .. n : batch[i] = C!Entry(C!InShop[c.offset + i])
    BY <1>4
  <2>2. \A i \in 1 .. n : c.offset + i \in 1 .. Len(C!InShop)
    BY <1>3, <1>5
  <2>3. \A i \in 1 .. n : \E p \in C!Ids : shop[p].live /\ batch[i] = C!Entry(p)
    BY <2>1, <2>2, InShopFacts
  <2> QED BY <1>5, <2>1, <2>3, EntriesOK, InvFacts
<1>7. \A p \in C!Ids : AheadOf(c, shop, p) =>
        /\ Row(shop, p) \in Nat /\ Row(shop, p) < Len(C!InShop) /\ C!InShop[Row(shop, p) + 1] = p
        /\ c.offset <= Row(shop, p)
  BY <1>2, RowIs, InShopFacts DEF AheadOf
<1>8. CASE batch = <<>>
  <2>1. n = 0
    BY <1>6, <1>8
  <2>2. \A p \in C!Ids : ~AheadOf(c, shop, p)
    BY <1>3, <1>5, <1>7, <2>1
  <2>3. \A p \in C!Ids : ~Ahead(p)
    BY <1>1, <1>2, <2>2 DEF Ahead, Walks
  <2>4. at \in Cursors
    BY <1>2, <1>3, <1>8 DEF Cursors
  <2>5. t.pc = "release" /\ t.at = at
    BY <1>8
  <2> HIDE DEF at, t
  <2>6. TaskOK(t, shop) /\ cursor' \in Cursors
    BY <1>1, <2>4, <2>5, InvFacts DEF TaskOK, Walks
  <2> QED BY <1>1, <1>2, <2>3, <2>5, <2>6, InvFacts, Turns DEF Walks
<1>9. CASE batch # <<>>
  <2>1. t.pc = "send" /\ t.at = c /\ t.batch = batch /\ cursor' \in {cursor, c}
    BY <1>1, <1>9
  <2>2. n # 0
    <3>1. batch \in Seq(Snaps)
      BY <1>6 DEF BatchOK
    <3> QED BY <1>6, <1>9, <3>1
  <2> HIDE DEF at, t
  <2>3. TaskOK(t, shop)
    BY <1>2, <1>3, <1>5, <1>6, <2>1, <2>2 DEF TaskOK, Walks
  <2>4. ASSUME NEW p \in C!Ids, AheadOf(c, shop, p) PROVE Batched(t, shop, p)
    <3> DEFINE m == Row(shop, p)
    <3> SUFFICES ASSUME m < c.offset + n PROVE batch[m - c.offset + 1].id = p
      BY <1>6, <2>1 DEF Batched
    <3>1. /\ m \in Nat /\ C!InShop[m + 1] = p /\ c.offset <= m
      BY <1>7, <2>4
    <3> HIDE DEF m
    <3>2. m - c.offset + 1 \in 1 .. n /\ c.offset + (m - c.offset + 1) = m + 1
      BY <1>3, <1>5, <3>1
    <3>3. batch[m - c.offset + 1] = C!Entry(C!InShop[m + 1])
      BY <1>4, <3>2
    <3> QED BY <3>1, <3>3 DEF C!Entry
  <2>5. \A p \in C!Ids : Ahead(p) => AheadOf(cursor', shop, p) /\ AheadOf(t.at, shop, p) /\ Batched(t, shop, p)
    BY <1>1, <1>2, <2>1, <2>4 DEF Ahead, Walks
  <2>6. \A e \in C!ToSet(t.batch) : e.v = shop[e.id].v \/ Delivered(e.id)
    BY <1>6, <2>1
  <2>7. cursor' \in Cursors
    BY <1>2, <2>1, InvFacts
  <2> QED BY <1>1, <1>2, <2>1, <2>3, <2>5, <2>6, <2>7, InvFacts, Turns DEF Walks
<1> QED BY <1>8, <1>9

(* Only the cursor changes. *)
LEMMA CursorTurns ==
  ASSUME MirrorInv, UNCHANGED <<shop, mirror, backlog, tasks, runs, missed>>, cursor' \in Cursors,
         mishaps' \in 0 .. MirrorTroubles, \A p \in C!Ids : Ahead(p) => AheadOf(cursor', shop, p)
  PROVE  MirrorInv'
<1>1. MirrorTyped'
  BY DEF MirrorInv, MirrorTyped
<1>2. \A p : (Delivered(p) <=> Delivered(p)') /\ (Told(p) <=> Told(p)')
  BY DEF Delivered, Told, Pushed
<1>3. \A p \in C!Ids : Delivered(p)' \/ Ahead(p)'
  BY <1>2 DEF MirrorInv, Ahead
<1> QED BY <1>1, <1>2, <1>3 DEF MirrorInv

LEMMA Afresh ==
  /\ C!NoCursor \in Cursors
  /\ \A p \in C!Ids : AheadOf(C!NoCursor, shop, p) <=> shop[p].live
  BY MirrorAssumption, ProductsFacts DEF C!NoCursor, Cursors, AheadOf

LEMMA CursorResets ==
  ASSUME MirrorInv, C!ClaimExpires \/ C!Restart
  PROVE  MirrorInv'
<1>1. CASE C!ClaimExpires
  <2> DEFINE c == [cursor EXCEPT !.claimed = FALSE]
  <2>1. UNCHANGED <<shop, mirror, backlog, tasks, runs, missed, mishaps>> /\ cursor' = c
    BY <1>1 DEF C!ClaimExpires
  <2>2. c \in Cursors /\ \A s, p : AheadOf(c, s, p) <=> AheadOf(cursor, s, p)
    BY InvFacts, SameAhead DEF Cursors
  <2> HIDE DEF c
  <2>3. \A p \in C!Ids : Ahead(p) => AheadOf(cursor', shop, p)
    BY <2>1, <2>2 DEF Ahead
  <2> QED BY <2>1, <2>2, <2>3, InvFacts, CursorTurns
<1>2. CASE C!Restart
  <2>1. UNCHANGED <<shop, mirror, backlog, tasks, runs, missed>> /\ cursor' = C!NoCursor /\ mishaps' \in 0 .. MirrorTroubles
    BY <1>2, InvFacts, MishapIsSmall DEF C!Restart
  <2>2. \A p \in C!Ids : Ahead(p) => AheadOf(cursor', shop, p)
    BY <2>1, Afresh DEF Ahead, AheadOf
  <2> QED BY <2>1, <2>2, Afresh, CursorTurns
<1> QED BY <1>1, <1>2

LEMMA Disconnects ==
  ASSUME MirrorInv, C!Disconnect
  PROVE  MirrorInv'
<1> DEFINE lost == {e.id : e \in {e \in C!ToSet(backlog) : e.action = "remove" \/ C!Walking}}
<1>1. /\ UNCHANGED <<shop, mirror, tasks, runs>> /\ cursor' = C!NoCursor /\ mishaps' \in 0 .. MirrorTroubles
      /\ backlog' = <<>> /\ missed' = missed \cup lost
  BY InvFacts, MishapIsSmall DEF C!Disconnect
<1>2. /\ \A e \in C!ToSet(backlog) : /\ e \in Entries /\ e.id \in C!Ids /\ e.action \in {"upsert", "remove"}
                                  /\ e = [id |-> e.id, action |-> e.action]
      /\ C!ToSet(backlog') = {}
  <2>1. backlog \in Seq(Entries)
    BY InvFacts DEF QueueOK
  <2>2. \A e \in C!ToSet(backlog) : e \in Entries
    BY <2>1, SeqFacts DEF C!ToSet
  <2> QED BY <1>1, <2>2 DEF Entries, C!ToSet
<1>3. /\ lost \subseteq C!Ids
      /\ \A e \in C!ToSet(backlog) : e.action = "remove" \/ C!Walking => e.id \in lost
  BY <1>2
<1> HIDE DEF lost
<1>4. MirrorTyped'
  <2>1. QueueOK(backlog')
    BY <1>1, <1>2, MirrorAssumption DEF QueueOK, Once
  <2> QED BY <1>1, <1>3, <2>1, Afresh DEF MirrorInv, MirrorTyped
<1>5. \A p : Pushed(p) <=> Pushed(p)'
  BY <1>1 DEF Pushed
<1>6. \A p : Told(p) => Told(p)'
  <2>1. \A p : [id |-> p, action |-> "remove"] \in C!ToSet(backlog) => p \in missed'
    <3> TAKE p
    <3> HAVE [id |-> p, action |-> "remove"] \in C!ToSet(backlog)
    <3> DEFINE e == [id |-> p, action |-> "remove"]
    <3>1. e.id = p /\ e.action = "remove" /\ e \in C!ToSet(backlog)
      OBVIOUS
    <3> HIDE DEF e
    <3> QED BY <1>1, <1>3, <3>1
  <2> QED BY <1>1, <1>5, <2>1 DEF Told
<1>7. ASSUME NEW p \in C!Ids, Delivered(p) PROVE Delivered(p)' \/ Ahead(p)'
  <2>1. CASE p \notin C!IdsOf(backlog)
    BY <1>1, <1>5, <1>7, <2>1 DEF Delivered
  <2>2. CASE p \in C!IdsOf(backlog)
    <3>1. PICK e \in C!ToSet(backlog) : e.id = p
      BY <2>2 DEF C!IdsOf
    <3>2. CASE e.action = "remove" \/ C!Walking
      BY <1>1, <1>3, <3>1, <3>2 DEF Delivered
    <3>3. CASE e.action = "upsert" /\ ~C!Walking
      <4>1. [id |-> p, action |-> "upsert"] \in C!ToSet(backlog)
        BY <1>2, <3>1, <3>3
      <4>2. Told(p)
        BY <4>1 DEF MirrorInv, Upserts
      <4>3. [id |-> p, action |-> "remove"] \notin C!ToSet(backlog)
        <5> DEFINE f == [id |-> p, action |-> "remove"]
                   g == [id |-> p, action |-> "upsert"]
        <5>1. f.id = g.id /\ f # g
          OBVIOUS
        <5> HIDE DEF f, g
        <5>2. f \notin C!ToSet(backlog)
          BY <4>1, <5>1, InvFacts DEF QueueOK, Once, g
        <5> QED BY <5>2 DEF f
      <4>4. p \in missed \/ shop[p].live \/ mirror[p] = shop[p] \/ Pushed(p)
        BY <4>2, <4>3 DEF Told
      <4>5. ASSUME shop[p].live PROVE Ahead(p)'
        <5>1. AheadOf(cursor', shop', p)
          BY <1>1, <4>5, Afresh
        <5>2. \A r \in Requests : tasks'[r].pc \notin Walks
          BY <1>1, <3>3 DEF C!Walking, Walks
        <5>3. \A r \in Requests : tasks'[r].pc # "send"
          BY <5>2 DEF Walks
        <5> QED BY <5>1, <5>2, <5>3 DEF Ahead
      <4> QED BY <1>1, <1>5, <4>4, <4>5 DEF Delivered
    <3> QED BY <1>2, <3>1, <3>2, <3>3
  <2> QED BY <2>1, <2>2
<1>8. ASSUME NEW p \in C!Ids, Ahead(p) PROVE Ahead(p)'
  <2>1. AheadOf(cursor', shop', p)
    BY <1>1, <1>8, Afresh DEF Ahead, AheadOf
  <2> QED BY <1>1, <1>8, <2>1 DEF Ahead
<1>9. \A p \in C!Ids : Delivered(p)' \/ Ahead(p)'
  BY <1>7, <1>8 DEF MirrorInv
<1>10. Upserts(backlog') = {}
  BY <1>2 DEF Upserts
<1>11. ASSUME NEW r \in Requests
       PROVE  /\ tasks'[r].pc \in {"push", "upserts", "removals"} => \A p \in Upserts(tasks'[r].seen) : Told(p)'
              /\ tasks'[r].pc = "send" => \A e \in C!ToSet(tasks'[r].batch) : e.v = shop'[e.id].v \/ Delivered(e.id)'
  <2>1. tasks'[r].pc = "send" => C!Walking
    BY <1>1 DEF C!Walking
  <2>2. C!Walking => \A p : Delivered(p) => Delivered(p)'
    <3> SUFFICES ASSUME C!Walking, NEW p, Delivered(p) PROVE Delivered(p)'
      OBVIOUS
    <3>1. p \in C!IdsOf(backlog) => p \in missed'
      BY <1>1, <1>3 DEF C!IdsOf
    <3> QED BY <1>1, <1>5, <3>1 DEF Delivered
  <2> QED BY <1>1, <1>6, <2>1, <2>2 DEF MirrorInv
<1> QED BY <1>4, <1>9, <1>10, <1>11 DEF MirrorInv
-----------------------------------------------------------------------------
(* No product has changed more often than all of them. *)
LEMMA ChangesBound ==
  ASSUME shop \in [C!Ids -> C!Versions]
  PROVE  C!Changes \in Nat /\ \A p \in C!Ids : shop[p].v \in Nat /\ shop[p].v <= C!Changes
<1> DEFINE n == Len(Products)
           Ver(i) == shop[Products[i]].v
           step == [i \in 1 .. n |-> [x \in Nat |-> x + Ver(i)]]
<1>1. n \in Nat /\ \A i \in 1 .. n : Ver(i) \in Nat
  <2>1. \A p \in C!Ids : shop[p].v \in Nat
    BY MirrorAssumption DEF C!Versions
  <2> QED BY <2>1, ProductsFacts
<1>2. step \in [1 .. n -> [Nat -> Nat]] /\ \A i \in 1 .. n : \A x \in Nat : step[i][x] = x + Ver(i)
  <2> HIDE DEF n, Ver
  <2> QED BY <1>1
<1> HIDE DEF step
<1>3. PICK f : Solves(f, n, Nat, 0, step)
  <2> HIDE DEF n
  <2> QED BY <1>1, <1>2, Recursion
<1>4. f = [i \in 0 .. n |-> IF i = 0 THEN 0 ELSE f[i - 1] + shop[Products[i]].v]
  <2> HIDE DEF n
  <2>1. f \in [0 .. n -> Nat] /\ f[0] = 0 /\ \A i \in 1 .. n : f[i - 1] \in Nat /\ f[i] = step[i][f[i - 1]]
    BY <1>1, <1>3 DEF Solves
  <2>2. \A i \in 1 .. n : f[i] = f[i - 1] + Ver(i)
    BY <1>2, <2>1
  <2> QED BY <1>1, <2>1, <2>2
<1> DEFINE count[i \in 0 .. n] == IF i = 0 THEN 0 ELSE count[i - 1] + shop[Products[i]].v
<1>5. count = [i \in 0 .. n |-> IF i = 0 THEN 0 ELSE count[i - 1] + shop[Products[i]].v]
  BY <1>4, Zenon
<1>6. C!Changes = count[n]
  BY Zenon DEF C!Changes
<1> HIDE DEF count, n
<1> DEFINE T == {k \in Nat : k <= n => count[k] \in Nat /\ \A i \in 1 .. k : Ver(i) <= count[k]}
<1>7. 0 \in T
  BY <1>1, <1>5
<1>8. ASSUME NEW k \in Nat, k \in T PROVE k + 1 \in T
  <2> SUFFICES ASSUME k + 1 <= n
               PROVE  count[k + 1] \in Nat /\ \A i \in 1 .. k + 1 : Ver(i) <= count[k + 1]
    OBVIOUS
  <2>1. count[k + 1] = count[k] + Ver(k + 1) /\ Ver(k + 1) \in Nat
    BY <1>1, <1>5
  <2>2. count[k] \in Nat /\ \A i \in 1 .. k : Ver(i) <= count[k] /\ Ver(i) \in Nat
    BY <1>1, <1>8
  <2> HIDE DEF Ver
  <2> QED BY <2>1, <2>2
<1>9. n \in T
  <2> HIDE DEF T
  <2> QED BY <1>1, <1>7, <1>8, Induction
<1>10. C!Changes \in Nat /\ \A i \in 1 .. n : Ver(i) \in Nat /\ Ver(i) <= C!Changes
  BY <1>1, <1>6, <1>9
<1> QED BY <1>10, ProductsFacts DEF n

LEMMA Merchant ==
  ASSUME MirrorInv, NEW r \in Requests, NEW p \in C!Ids, NEW b \in BOOLEAN, NEW action \in {"upsert", "remove"},
         tasks[r].pc = "idle", C!Changes < MaxSaves,
         shop' = [shop EXCEPT ![p] = [v |-> @.v + 1, live |-> b]],
         C!Set(r, [pc |-> "push", id |-> p, action |-> action, seen |-> backlog]),
         missed' = missed \cup C!Shifted(p) \/ (missed' = missed /\ shop[p].live = b),
         UNCHANGED <<mirror, backlog, cursor, runs, mishaps>>
  PROVE  MirrorInv'
<1> DEFINE t == [pc |-> "push", id |-> p, action |-> action, seen |-> backlog]
<1>1. /\ DOMAIN tasks' = Requests /\ tasks'[r] = t /\ \A q \in Requests \ {r} : tasks'[q] = tasks[q]
  BY InvFacts, SetFacts
<1>2. t.pc = "push" /\ t.id = p /\ t.action = action /\ t.seen = backlog
  OBVIOUS
<1> HIDE DEF t
<1>3. /\ C!Shifted(p) \subseteq C!Ids /\ (C!Shifted(p) = After(p) \/ (cursor.run = 0 /\ ~C!Walking))
  <2>1. After(p) \subseteq C!Ids
    BY ProductsFacts DEF After
  <2>2. CASE cursor.run = 0 /\ ~C!Walking
    BY <2>2 DEF C!Shifted
  <2>3. CASE ~(cursor.run = 0 /\ ~C!Walking)
    <3>1. C!Shifted(p) = After(p)
      BY <2>3, Zenon DEF C!Shifted, After
    <3> QED BY <2>1, <3>1
  <2> QED BY <2>2, <2>3
<1>4. /\ shop' \in [C!Ids -> C!Versions] /\ shop'[p].live = b /\ \A x \in C!Ids \ {p} : shop'[x] = shop[x]
  <2>1. shop[p].v \in Nat /\ shop[p].v <= C!Changes /\ C!Changes \in Nat
    BY InvFacts, ChangesBound
  <2>2. shop[p].v + 1 \in 0 .. MaxSaves
    BY <2>1, MirrorAssumption
  <2> QED BY <2>2, InvFacts DEF C!Versions
<1>5. Pushed(p)' /\ \A q : Pushed(q) => Pushed(q)'
  BY <1>1, <1>2, PushedStays DEF Pushed
<1>6. missed \subseteq missed' /\ missed' \subseteq C!Ids
  BY <1>3, InvFacts
<1>7. \A q \in C!Ids : (Delivered(q) => Delivered(q)') /\ (Told(q) => Told(q)')
  BY <1>4, <1>5, <1>6 DEF Delivered, Told
<1>8. \A batch : BatchOK(batch, shop) => BatchOK(batch, shop')
  BY BatchGrows, InvFacts
<1>9. MirrorTyped'
  <2>1. TaskOK(t, shop')
    BY <1>2, InvFacts DEF TaskOK, Walks
  <2>2. \A q \in Requests \ {r} : TaskOK(tasks[q], shop')
    BY <1>8, InvFacts DEF TaskOK
  <2> QED BY <1>1, <1>4, <1>6, <2>1, <2>2 DEF MirrorInv, MirrorTyped
<1>10. ASSUME NEW q \in C!Ids PROVE Delivered(q)' \/ Ahead(q)'
  <2> SUFFICES ASSUME ~Delivered(q)' PROVE Ahead(q)'
    OBVIOUS
  <2>1. q # p /\ q \notin missed' /\ Ahead(q) /\ shop'[q] = shop[q]
    BY <1>4, <1>5, <1>7 DEF MirrorInv, Delivered
  <2>2. CASE Row(shop', q) = Row(shop, q)
    <3>1. \A c : AheadOf(c, shop, q) => AheadOf(c, shop', q)
      BY <2>1, <2>2 DEF AheadOf
    <3>2. \A u : Batched(u, shop, q) => Batched(u, shop', q)
      BY <2>2 DEF Batched
    <3>3. ASSUME NEW x \in Requests
          PROVE  /\ tasks'[x].pc \in Walks => AheadOf(tasks'[x].at, shop', q)
                 /\ tasks'[x].pc = "send" => Batched(tasks'[x], shop', q)
      BY <1>1, <1>2, <2>1, <3>1, <3>2 DEF Ahead, Walks
    <3> QED BY <2>1, <3>1, <3>3 DEF Ahead
  <2>3. CASE Row(shop', q) # Row(shop, q)
    <3>1. shop[p].live # shop'[p].live /\ q \in After(p)
      <4>1. \A x \in C!Ids \ {p} : shop[x].live = shop'[x].live
        BY <1>4
      <4>2. ASSUME shop[p].live = shop'[p].live \/ q \notin After(p) PROVE Row(shop', q) = Row(shop, q)
        <5>1. NotBefore(shop, shop', p, q)
          BY <4>1, <4>2 DEF NotBefore
        <5> QED BY <5>1, RowStays
      <4> QED BY <2>3, <4>2
    <3>2. cursor.run = 0 /\ ~C!Walking
      BY <1>3, <1>4, <2>1, <3>1
    <3>3. AheadOf(cursor', shop', q)
      BY <2>1, <3>2 DEF Ahead, AheadOf
    <3>4. \A x \in Requests : tasks'[x].pc \notin Walks
      BY <1>1, <1>2, <3>2 DEF C!Walking, Walks
    <3> QED BY <3>3, <3>4 DEF Ahead, Walks
  <2> QED BY <2>2, <2>3
<1>11. \A q \in Upserts(backlog') : Told(q)'
  BY <1>7 DEF MirrorInv, Upserts
<1>12. ASSUME NEW x \in Requests
       PROVE  /\ tasks'[x].pc \in {"push", "upserts", "removals"} => \A q \in Upserts(tasks'[x].seen) : Told(q)'
              /\ tasks'[x].pc = "send" => \A e \in C!ToSet(tasks'[x].batch) : e.v = shop'[e.id].v \/ Delivered(e.id)'
  <2>1. CASE x = r
    BY <1>1, <1>2, <1>7, <2>1 DEF MirrorInv, Upserts
  <2>2. CASE x # r
    <3>1. tasks'[x].pc \in {"push", "upserts", "removals"} => \A q \in Upserts(tasks'[x].seen) : Told(q)'
      BY <1>1, <1>7, <2>2 DEF MirrorInv, Upserts
    <3>2. ASSUME tasks[x].pc = "send", NEW e \in C!ToSet(tasks[x].batch) PROVE e.v = shop'[e.id].v \/ Delivered(e.id)'
      <4>1. e.id \in C!Ids
        BY <3>2, InvFacts, BatchFacts DEF TaskOK
      <4>2. e.v = shop[e.id].v \/ Delivered(e.id)
        BY <3>2 DEF MirrorInv
      <4>3. CASE e.id = p
        BY <1>5, <4>3 DEF Delivered
      <4>4. CASE e.id # p
        BY <1>4, <1>7, <4>1, <4>2, <4>4
      <4> QED BY <4>3, <4>4
    <3> QED BY <1>1, <2>2, <3>1, <3>2
  <2> QED BY <2>1, <2>2
<1> QED BY <1>9, <1>10, <1>11, <1>12 DEF MirrorInv

LEMMA MerchantActs ==
  ASSUME MirrorInv, NEW r \in Requests, NEW p \in C!Ids, C!Save(r, p) \/ C!Trash(r, p)
  PROVE  MirrorInv'
<1>1. CASE C!Save(r, p)
  <2>1. /\ tasks[r].pc = "idle" /\ C!Changes < MaxSaves
        /\ shop' = [shop EXCEPT ![p] = [v |-> @.v + 1, live |-> TRUE]]
        /\ C!Set(r, [pc |-> "push", id |-> p, action |-> "upsert", seen |-> backlog])
        /\ UNCHANGED <<mirror, backlog, cursor, runs, mishaps>>
        /\ missed' = IF shop[p].live THEN missed ELSE missed \cup C!Shifted(p)
    BY <1>1 DEF C!Save, C!On
  <2>2. shop[p].live \in BOOLEAN
    BY InvFacts DEF C!Versions
  <2>3. missed' = missed \cup C!Shifted(p) \/ (missed' = missed /\ shop[p].live = TRUE)
    BY <2>1, <2>2
  <2> QED BY <2>1, <2>3, Merchant
<1>2. CASE C!Trash(r, p)
  <2>1. /\ tasks[r].pc = "idle" /\ C!Changes < MaxSaves
        /\ shop' = [shop EXCEPT ![p] = [v |-> @.v + 1, live |-> FALSE]]
        /\ C!Set(r, [pc |-> "push", id |-> p, action |-> "remove", seen |-> backlog])
        /\ UNCHANGED <<mirror, backlog, cursor, runs, mishaps>>
        /\ missed' = missed \cup C!Shifted(p)
    BY <1>2 DEF C!Trash, C!On
  <2> QED BY <2>1, Merchant
<1> QED BY <1>1, <1>2

(* What a request leaves of the queue when it writes `next'. *)
LEMMA WrittenOver ==
  ASSUME NEW r \in Requests, NEW next, NEW lost, backlog' = next, missed' = missed \cup C!Trampled(r, next) \cup lost
  PROVE  \A e \in C!ToSet(backlog) : e \in C!ToSet(tasks[r].seen) \/ e \in C!ToSet(backlog') \/ e.id \in missed'
  BY DEF C!Trampled

LEMMA QueueFacts ==
  ASSUME NEW q, QueueOK(q)
  PROVE  /\ q \in Seq(Entries) /\ DOMAIN q = 1 .. Len(q) /\ Len(q) \in Nat /\ Len(q) <= MaxProducts
         /\ \A i \in 1 .. Len(q) : q[i] \in Entries /\ q[i] \in C!ToSet(q)
         /\ \A e \in C!ToSet(q) : /\ e \in Entries /\ e.id \in C!Ids /\ e.action \in {"upsert", "remove"}
                               /\ e = [id |-> e.id, action |-> e.action] /\ e.id \in C!IdsOf(q)
                               /\ \E i \in 1 .. Len(q) : q[i] = e
         /\ C!IdsOf(q) \subseteq C!Ids /\ MaxProducts \in Nat /\ MaxProducts >= 1
<1>1. q \in Seq(Entries) /\ DOMAIN q = 1 .. Len(q) /\ Len(q) \in Nat /\ \A i \in 1 .. Len(q) : q[i] \in Entries
  BY SeqFacts DEF QueueOK
<1>2. /\ \A i \in 1 .. Len(q) : q[i] \in C!ToSet(q)
      /\ \A e \in C!ToSet(q) : \E i \in 1 .. Len(q) : q[i] = e
  BY <1>1 DEF C!ToSet
<1>3. \A e \in C!ToSet(q) : e \in Entries
  BY <1>1, <1>2
<1>4. \A e \in C!ToSet(q) : e.id \in C!Ids /\ e.action \in {"upsert", "remove"} /\ e = [id |-> e.id, action |-> e.action]
  BY <1>3 DEF Entries
<1>5. C!IdsOf(q) \subseteq C!Ids /\ \A e \in C!ToSet(q) : e.id \in C!IdsOf(q)
  BY <1>4 DEF C!IdsOf
<1> QED BY <1>1, <1>2, <1>3, <1>4, <1>5, MirrorAssumption DEF QueueOK

(* The queue a request makes of the one it has seen, and of its own entry. *)
LEMMA QueuedFacts ==
  ASSUME NEW q, QueueOK(q), NEW p \in C!Ids, NEW action \in {"upsert", "remove"}
  PROVE  LET next == C!Newest(C!Queued(q, p, action))
             mine == [id |-> p, action |-> action] IN
         /\ QueueOK(next) /\ mine \in C!ToSet(next)
         /\ \A e \in C!ToSet(next) : e = mine \/ (e \in C!ToSet(q) /\ e.id # p)
         /\ \A e \in C!ToSet(q) : e.id = p \/ e \in C!ToSet(next) \/ e.id \in C!IdsOf(q) \ C!IdsOf(next)
<1> DEFINE mine == [id |-> p, action |-> action]
           all == C!Queued(q, p, action)
           next == C!Newest(all)
           n == Len(q)
<1>0. mine \in Entries /\ mine.id = p
  BY DEF Entries
<1> HIDE DEF mine
<1>1. /\ q \in Seq(Entries) /\ DOMAIN q = 1 .. n /\ n \in Nat /\ n <= MaxProducts /\ MaxProducts \in Nat /\ MaxProducts >= 1
      /\ \A i \in 1 .. n : q[i] \in Entries /\ q[i] \in C!ToSet(q)
      /\ \A e \in C!ToSet(q) : e.id \in C!IdsOf(q) /\ \E i \in 1 .. n : q[i] = e
  BY QueueFacts
<1>2. \A e, f \in C!ToSet(q) : e.id = f.id => e = f
  BY DEF QueueOK, Once
<1>3. CASE p \in C!IdsOf(q)
  <2>1. all = [i \in 1 .. n |-> IF q[i].id = p THEN mine ELSE q[i]]
    BY <1>1, <1>3 DEF C!Queued, mine
  <2> HIDE DEF all
  <2>2. all \in Seq(Entries) /\ Len(all) = n /\ DOMAIN all = 1 .. n
    <3>1. DOMAIN all = 1 .. n /\ all = [i \in 1 .. n |-> all[i]] /\ \A i \in 1 .. n : all[i] \in Entries
      BY <1>0, <1>1, <2>1
    <3> HIDE DEF n
    <3> QED BY <1>1, <3>1, Listed
  <2>3. next = all
    BY <1>1, <2>2 DEF C!Newest
  <2>4. mine \in C!ToSet(next)
    <3>1. PICK e \in C!ToSet(q) : e.id = p
      BY <1>3 DEF C!IdsOf
    <3>2. PICK i \in 1 .. n : q[i] = e
      BY <1>1, <3>1
    <3> QED BY <2>1, <2>2, <2>3, <3>1, <3>2 DEF C!ToSet
  <2>5. \A e \in C!ToSet(next) : e = mine \/ (e \in C!ToSet(q) /\ e.id # p)
    <3>1. \A i \in 1 .. n : all[i] = mine \/ (all[i] \in C!ToSet(q) /\ all[i].id # p)
      BY <1>1, <2>1
    <3> QED BY <2>2, <2>3, <3>1 DEF C!ToSet
  <2>6. \A e \in C!ToSet(q) : e.id = p \/ e \in C!ToSet(next)
    <3>1. \A i \in 1 .. n : q[i].id = p \/ q[i] = all[i]
      BY <2>1
    <3>2. \A i \in 1 .. n : all[i] \in C!ToSet(next)
      BY <2>2, <2>3 DEF C!ToSet
    <3> QED BY <1>1, <3>1, <3>2
  <2>7. QueueOK(next)
    <3>1. Once(next)
      BY <1>0, <1>2, <2>5 DEF Once
    <3> QED BY <1>1, <2>2, <2>3, <3>1 DEF QueueOK
  <2> HIDE DEF next
  <2> QED BY <2>4, <2>5, <2>6, <2>7 DEF next, mine, all
<1>4. CASE p \notin C!IdsOf(q)
  <2>1. all = Append(q, mine)
    BY <1>4 DEF C!Queued, mine
  <2>2. /\ all \in Seq(Entries) /\ Len(all) = n + 1 /\ all[n + 1] = mine /\ DOMAIN all = 1 .. n + 1
        /\ \A i \in 1 .. n : all[i] = q[i]
    BY <1>0, <1>1, <2>1
  <2> HIDE DEF all
  <2> DEFINE m == IF n + 1 > MaxProducts THEN n + 1 - MaxProducts + 1 ELSE 1
  <2>3. m \in 1 .. n + 1 /\ (n + 1) - m + 1 <= MaxProducts
    BY <1>1
  <2>4. /\ next \in Seq(Entries) /\ Len(next) = (n + 1) - m + 1
        /\ \A k \in 1 .. (n + 1) - m + 1 : next[k] = all[m + k - 1]
    <3>1. CASE n + 1 > MaxProducts
      <4>1. next = SubSeq(all, m, n + 1)
        BY <1>1, <2>2, <3>1 DEF C!Newest
      <4>2. m \in 1 .. Len(all) + 1 /\ n + 1 \in m - 1 .. Len(all)
        BY <1>1, <2>2, <2>3
      <4> HIDE DEF m, n, next
      <4>3. Len(all) = n + 1
        BY <2>2
      <4>4. /\ SubSeq(all, m, n + 1) \in Seq(Entries) /\ Len(SubSeq(all, m, n + 1)) = (n + 1) - m + 1
            /\ \A k \in 1 .. (n + 1) - m + 1 : SubSeq(all, m, n + 1)[k] = all[m + k - 1]
        <5> DEFINE j == n + 1
        <5>1. all \in Seq(Entries) /\ m \in 1 .. Len(all) + 1 /\ j = Len(all)
          BY <2>2, <4>2, <4>3
        <5> HIDE DEF j
        <5>2. /\ SubSeq(all, m, j) \in Seq(Entries) /\ Len(SubSeq(all, m, j)) = j - m + 1
              /\ \A k \in 1 .. j - m + 1 : SubSeq(all, m, j)[k] = all[m + k - 1]
          BY <5>1, EndOf
        <5> QED BY <5>2 DEF j
      <4> QED BY <4>1, <4>4
    <3>2. CASE ~(n + 1 > MaxProducts)
      <4>1. next = all /\ m = 1
        BY <2>2, <3>2 DEF C!Newest
      <4>2. n + 1 - 1 + 1 = n + 1 /\ \A k \in 1 .. n + 1 : 1 + k - 1 = k
        BY <1>1
      <4> QED BY <2>2, <4>1, <4>2
    <3> QED BY <3>1, <3>2
  <2> HIDE DEF m, next
  <2>5. DOMAIN next = 1 .. (n + 1) - m + 1
    BY <2>4, SeqFacts
  <2>6. ASSUME NEW k \in 1 .. (n + 1) - m + 1
        PROVE  next[k] = mine \/ (next[k] \in C!ToSet(q) /\ next[k].id # p)
    <3>1. m + k - 1 \in 1 .. n + 1 /\ next[k] = all[m + k - 1]
      BY <1>1, <2>3, <2>4
    <3>2. \A i \in 1 .. n : q[i].id # p
      BY <1>1, <1>4
    <3>3. CASE m + k - 1 = n + 1
      BY <2>2, <3>1, <3>3
    <3>4. CASE m + k - 1 # n + 1
      <4>1. m + k - 1 \in 1 .. n
        BY <1>1, <3>1, <3>4
      <4> QED BY <1>1, <2>2, <3>1, <3>2, <4>1
    <3> QED BY <3>3, <3>4
  <2>7. \A e \in C!ToSet(next) : e = mine \/ (e \in C!ToSet(q) /\ e.id # p)
    BY <2>5, <2>6 DEF C!ToSet
  <2>8. mine \in C!ToSet(next)
    <3>1. (n + 1) - m + 1 \in 1 .. (n + 1) - m + 1 /\ m + ((n + 1) - m + 1) - 1 = n + 1
      BY <1>1, <2>3
    <3>2. next[(n + 1) - m + 1] = all[n + 1]
      BY <2>4, <3>1
    <3> QED BY <2>2, <2>5, <3>1, <3>2 DEF C!ToSet
  <2>9. ASSUME NEW e \in C!ToSet(q), e \notin C!ToSet(next) PROVE e.id \in C!IdsOf(q) \ C!IdsOf(next)
    <3>1. e.id # p /\ e.id \in C!IdsOf(q)
      BY <1>1, <1>4
    <3>2. ASSUME e.id \in C!IdsOf(next) PROVE FALSE
      <4>1. PICK f \in C!ToSet(next) : f.id = e.id
        BY <3>2 DEF C!IdsOf
      <4> QED BY <1>0, <1>2, <2>7, <2>9, <3>1, <4>1
    <3> QED BY <3>1, <3>2
  <2>10. QueueOK(next)
    <3>1. Once(next)
      BY <1>0, <1>2, <2>7 DEF Once
    <3>2. Len(next) <= MaxProducts
      BY <2>3, <2>4
    <3> QED BY <2>4, <3>1, <3>2 DEF QueueOK
  <2> QED BY <2>7, <2>8, <2>9, <2>10 DEF next, mine, all
<1> QED BY <1>3, <1>4

(* A request that does not walk writes to the queue, or the mirror. *)
LEMMA Writes ==
  ASSUME MirrorInv, NEW r \in Requests, NEW t, C!Set(r, t), UNCHANGED <<shop, cursor>>, MirrorTyped',
         t.pc \notin Walks,
         \A p \in C!Ids : (Delivered(p) => Delivered(p)') /\ (Told(p) => Told(p)'),
         \A p \in Upserts(backlog') : Told(p)',
         t.pc \in {"push", "upserts", "removals"} => \A p \in Upserts(t.seen) : Told(p)'
  PROVE  MirrorInv'
<1>1. DOMAIN tasks' = Requests /\ tasks'[r] = t /\ \A q \in Requests \ {r} : tasks'[q] = tasks[q]
  BY InvFacts, SetFacts
<1>2. t.pc # "send"
  BY DEF Walks
<1>3. ASSUME NEW p \in C!Ids, Ahead(p) PROVE Ahead(p)'
  <2>1. ASSUME NEW q \in Requests
        PROVE  /\ tasks'[q].pc \in Walks => AheadOf(tasks'[q].at, shop', p)
               /\ tasks'[q].pc = "send" => Batched(tasks'[q], shop', p)
    <3>1. CASE q = r
      BY <1>1, <1>2, <3>1
    <3>2. CASE q # r
      BY <1>1, <1>3, <3>2 DEF Ahead
    <3> QED BY <3>1, <3>2
  <2> QED BY <1>3, <2>1 DEF Ahead
<1>4. \A p \in C!Ids : Delivered(p)' \/ Ahead(p)'
  BY <1>3 DEF MirrorInv
<1>5. ASSUME NEW q \in Requests
      PROVE  /\ tasks'[q].pc \in {"push", "upserts", "removals"} => \A p \in Upserts(tasks'[q].seen) : Told(p)'
             /\ tasks'[q].pc = "send" => \A e \in C!ToSet(tasks'[q].batch) : e.v = shop'[e.id].v \/ Delivered(e.id)'
  <2>1. CASE q = r
    BY <1>1, <1>2, <2>1
  <2>2. CASE q # r
    <3>1. tasks'[q].pc \in {"push", "upserts", "removals"} => \A p \in Upserts(tasks'[q].seen) : Told(p)'
      BY <1>1, <2>2 DEF MirrorInv, Upserts
    <3>2. ASSUME tasks[q].pc = "send", NEW e \in C!ToSet(tasks[q].batch) PROVE e.v = shop'[e.id].v \/ Delivered(e.id)'
      <4>1. e.id \in C!Ids
        BY <3>2, InvFacts, BatchFacts DEF TaskOK
      <4> QED BY <3>2, <4>1 DEF MirrorInv
    <3> QED BY <1>1, <2>2, <3>1, <3>2
  <2> QED BY <2>1, <2>2
<1> QED BY <1>4, <1>5 DEF MirrorInv

(* And its types. *)
LEMMA WritesTyped ==
  ASSUME MirrorInv, NEW r \in Requests, NEW t, C!Set(r, t), UNCHANGED <<shop, cursor, runs>>,
         mishaps' \in 0 .. MirrorTroubles, TaskOK(t, shop), QueueOK(backlog'), missed' \subseteq C!Ids,
         mirror' \in [C!Ids -> C!Versions]
  PROVE  MirrorTyped'
<1>1. DOMAIN tasks' = Requests /\ tasks'[r] = t /\ \A q \in Requests \ {r} : tasks'[q] = tasks[q]
  BY InvFacts, SetFacts
<1> QED BY <1>1, InvFacts DEF MirrorTyped

LEMMA FreeOK == /\ TaskOK(C!Free, shop) /\ C!Free.pc \notin Walks
                /\ C!Free.pc \notin {"push", "upserts", "removals"}
  BY DEF TaskOK, C!Free, Walks

LEMMA Enqueues ==
  ASSUME MirrorInv, NEW r \in Requests, C!Enqueue(r)
  PROVE  MirrorInv'
<1>a. C!On(r, "push") /\ tasks[r].id \in C!Ids /\ tasks[r].action \in {"upsert", "remove"} /\ QueueOK(tasks[r].seen)
  BY InvFacts DEF C!Enqueue, C!On, TaskOK
<1>b. PICK p0 \in C!Ids, action \in {"upsert", "remove"} : p0 = tasks[r].id /\ action = tasks[r].action
  BY <1>a
<1> DEFINE q == tasks[r].seen
           mine == [id |-> p0, action |-> action]
           next == C!Newest(C!Queued(q, p0, action))
           lost == (C!IdsOf(q) \ C!IdsOf(next)) \cup C!Outdated(r)
<1>1. /\ C!Set(r, C!Free) /\ tasks[r].pc = "push" /\ UNCHANGED <<shop, mirror, cursor, runs, mishaps>>
      /\ backlog' = next /\ missed' = missed \cup C!Trampled(r, next) \cup lost
  BY <1>b DEF C!Enqueue, C!On
<1>2. QueueOK(q)
  BY <1>a
<1>3. /\ QueueOK(backlog') /\ mine \in C!ToSet(backlog')
      /\ \A e \in C!ToSet(backlog') : e = mine \/ (e \in C!ToSet(q) /\ e.id # p0)
      /\ \A e \in C!ToSet(q) : e.id = p0 \/ e \in C!ToSet(backlog') \/ e.id \in missed'
  <2>1. /\ QueueOK(next) /\ mine \in C!ToSet(next)
        /\ \A e \in C!ToSet(next) : e = mine \/ (e \in C!ToSet(q) /\ e.id # p0)
        /\ \A e \in C!ToSet(q) : e.id = p0 \/ e \in C!ToSet(next) \/ e.id \in lost
    <3>1. /\ QueueOK(next) /\ mine \in C!ToSet(next)
          /\ \A e \in C!ToSet(next) : e = mine \/ (e \in C!ToSet(q) /\ e.id # p0)
          /\ \A e \in C!ToSet(q) : e.id = p0 \/ e \in C!ToSet(next) \/ e.id \in C!IdsOf(q) \ C!IdsOf(next)
      <4> HIDE DEF q
      <4> QED BY <1>2, QueuedFacts
    <3> HIDE DEF next, mine, q
    <3> QED BY <3>1
  <2> HIDE DEF lost, next
  <2> QED BY <1>1, <2>1
<1>4. \A e \in C!ToSet(backlog) : e \in C!ToSet(q) \/ e \in C!ToSet(backlog') \/ e.id \in missed'
  <2> HIDE DEF lost, next
  <2> QED BY <1>1, WrittenOver
<1>5. \A e \in C!ToSet(backlog) : e.id = p0 \/ e \in C!ToSet(backlog') \/ e.id \in missed'
  BY <1>3, <1>4
<1>6. missed \subseteq missed' /\ missed' \subseteq C!Ids /\ C!Outdated(r) \subseteq missed'
  <2>1. C!IdsOf(q) \subseteq C!Ids /\ C!IdsOf(backlog) \subseteq C!Ids
    BY <1>2, InvFacts, QueueFacts
  <2>2. C!Trampled(r, next) \subseteq C!Ids
    BY <2>1 DEF C!Trampled, C!IdsOf
  <2>3. C!Outdated(r) \subseteq C!Ids
    BY DEF C!Outdated
  <2> HIDE DEF next
  <2> QED BY <1>1, <2>1, <2>2, <2>3, InvFacts
<1>7. MirrorTyped'
  BY <1>1, <1>3, <1>6, FreeOK, InvFacts, WritesTyped
<1> HIDE DEF next, lost
<1>8. /\ DOMAIN tasks' = Requests /\ tasks'[r] = C!Free /\ \A x \in Requests \ {r} : tasks'[x] = tasks[x]
  BY <1>1, InvFacts, SetFacts
<1>9. \A p : Pushed(p) => p = p0 \/ Pushed(p)'
  BY <1>8, <1>b DEF Pushed
<1>10. p0 \in C!IdsOf(backlog')
  <2>1. mine.id = p0
    OBVIOUS
  <2> QED BY <1>3, <2>1 DEF C!IdsOf
<1>11. \A p \in C!Ids : Delivered(p) => Delivered(p)'
  <2> SUFFICES ASSUME NEW p \in C!Ids, Delivered(p) PROVE Delivered(p)'
    OBVIOUS
  <2>1. CASE p \in C!IdsOf(backlog)
    <3>1. PICK e \in C!ToSet(backlog) : e.id = p
      BY <2>1 DEF C!IdsOf
    <3>2. p = p0 \/ p \in missed' \/ p \in C!IdsOf(backlog')
      BY <1>5, <3>1 DEF C!IdsOf
    <3> QED BY <1>10, <3>2 DEF Delivered
  <2>2. CASE p \notin C!IdsOf(backlog)
    BY <1>1, <1>6, <1>9, <1>10, <2>2 DEF Delivered
  <2> QED BY <2>1, <2>2
<1>12. Told(p0)'
  <2>1. CASE shop[p0].live \/ Pushed(p0)'
    BY <1>1, <2>1 DEF Told
  <2>2. CASE ~shop[p0].live /\ ~Pushed(p0)'
    <3>1. CASE action = "remove"
      BY <1>3, <3>1 DEF Told
    <3>2. CASE action = "upsert"
      <4>1. \A x \in Requests \ {r} : ~(tasks[x].pc = "push" /\ tasks[x].id = p0)
        BY <1>8, <2>2 DEF Pushed
      <4>2. p0 \in C!Outdated(r)
        <5>1. shop[p0].live # (action = "upsert")
          BY <2>2, <3>2
        <5> QED BY <1>b, <4>1, <5>1 DEF C!Outdated, C!On
      <4> QED BY <1>6, <4>2 DEF Told
    <3> QED BY <3>1, <3>2
  <2> QED BY <2>1, <2>2
<1>13. \A p \in C!Ids : Told(p) => Told(p)'
  <2> SUFFICES ASSUME NEW p \in C!Ids, Told(p), p # p0 PROVE Told(p)'
    BY <1>12
  <2>1. CASE [id |-> p, action |-> "remove"] \in C!ToSet(backlog)
    <3> DEFINE e == [id |-> p, action |-> "remove"]
    <3>1. e.id = p /\ e \in C!ToSet(backlog)
      BY <2>1
    <3> HIDE DEF e
    <3>2. e \in C!ToSet(backlog') \/ p \in missed'
      BY <1>5, <3>1
    <3> QED BY <3>2 DEF Told, e
  <2>2. CASE [id |-> p, action |-> "remove"] \notin C!ToSet(backlog)
    BY <1>1, <1>6, <1>9, <2>2 DEF Told
  <2> QED BY <2>1, <2>2
<1>14. ASSUME NEW p \in Upserts(backlog') PROVE Told(p)'
  <2> DEFINE e == [id |-> p, action |-> "upsert"]
  <2>1. p \in C!Ids /\ e \in C!ToSet(backlog') /\ e.id = p
    BY <1>14 DEF Upserts
  <2>2. CASE p = p0
    BY <1>12, <2>2
  <2>3. CASE p # p0
    <3>1. e \in C!ToSet(q)
      <4>1. mine.id = p0
        OBVIOUS
      <4> HIDE DEF e, mine
      <4> QED BY <1>3, <2>1, <2>3, <4>1
    <3>2. p \in Upserts(q)
      BY <2>1, <3>1 DEF Upserts
    <3>3. Told(p)
      BY <1>1, <3>2 DEF MirrorInv
    <3> QED BY <1>13, <2>1, <3>3
  <2> QED BY <2>2, <2>3
<1> QED BY <1>1, <1>7, <1>11, <1>13, <1>14, FreeOK, Writes

LEMMA DiesPushing ==
  ASSUME MirrorInv, NEW r \in Requests, C!Ends(r), C!On(r, "push")
  PROVE  MirrorInv'
<1>1. /\ C!Set(r, C!Free) /\ tasks[r].pc = "push" /\ UNCHANGED <<shop, mirror, backlog, cursor, runs>>
      /\ mishaps' \in 0 .. MirrorTroubles /\ missed' = missed \cup {tasks[r].id} /\ tasks[r].id \in C!Ids
  BY InvFacts, MishapIsSmall DEF C!Ends, C!On, TaskOK
<1>2. MirrorTyped'
  BY <1>1, FreeOK, InvFacts, WritesTyped
<1>3. /\ tasks'[r] = C!Free /\ \A x \in Requests \ {r} : tasks'[x] = tasks[x]
  BY <1>1, InvFacts, SetFacts
<1>4. \A p : Pushed(p) => p = tasks[r].id \/ Pushed(p)'
  BY <1>3 DEF Pushed
<1>5. \A p \in C!Ids : (Delivered(p) => Delivered(p)') /\ (Told(p) => Told(p)')
  BY <1>1, <1>4 DEF Delivered, Told
<1>6. \A p \in Upserts(backlog') : Told(p)'
  BY <1>1, <1>5 DEF MirrorInv, Upserts
<1> QED BY <1>1, <1>2, <1>5, <1>6, FreeOK, Writes

LEMMA ForgottenFacts ==
  ASSUME NEW r \in Requests, QueueOK(tasks[r].seen), NEW ids
  PROVE  /\ QueueOK(C!Forgotten(r, ids))
         /\ \A e : e \in C!ToSet(C!Forgotten(r, ids)) <=> e \in C!ToSet(tasks[r].seen) /\ e.id \notin ids
<1> DEFINE q == tasks[r].seen
           next == C!Forgotten(r, ids)
<1>1. q \in Seq(Entries) /\ Len(q) <= MaxProducts /\ Len(q) \in Nat /\ MaxProducts \in Nat
  BY QueueFacts
<1>2. /\ next \in Seq(Entries) /\ Len(next) <= Len(q)
      /\ C!ToSet(next) = C!ToSet(q) \cap {e \in C!ToSet(q) : e.id \notin ids}
  BY <1>1, MirrorOnly DEF C!Forgotten
<1>3. Len(next) \in Nat
  BY <1>2, SeqFacts
<1> HIDE DEF next
<1>4. Once(next)
  BY <1>2 DEF QueueOK, Once
<1>5. QueueOK(next)
  BY <1>1, <1>2, <1>3, <1>4 DEF QueueOK
<1> QED BY <1>2, <1>5 DEF next

LEMMA DrainsUpserts ==
  ASSUME MirrorInv, NEW r \in Requests, C!DrainUpserts(r)
  PROVE  MirrorInv'
<1> DEFINE q == tasks[r].seen
           batch == tasks[r].batch
           next == C!Forgotten(r, tasks[r].ids)
           stale == {p \in tasks[r].ids : \A i \in DOMAIN batch : batch[i].id = p => batch[i].v # shop[p].v}
           t == [tasks[r] EXCEPT !.pc = "removals", !.seen = next]
           lost == C!Overtaken(batch) \cup stale
<1>1. /\ C!Set(r, t) /\ tasks[r].pc = "upserts" /\ UNCHANGED <<shop, cursor, runs, mishaps>>
      /\ mirror' = C!Upserted(batch) /\ backlog' = next /\ missed' = missed \cup C!Trampled(r, next) \cup lost
  BY DEF C!DrainUpserts, C!ForgetUpserts, C!On
<1>2. /\ QueueOK(q) /\ tasks[r].removals \in Seq(C!Ids) /\ tasks[r].ids \subseteq C!Ids /\ BatchOK(batch, shop)
  BY <1>1, InvFacts DEF TaskOK
<1>3. /\ QueueOK(backlog') /\ \A e : e \in C!ToSet(backlog') <=> e \in C!ToSet(q) /\ e.id \notin tasks[r].ids
  BY <1>1, <1>2, ForgottenFacts
<1>4. /\ t.pc = "removals" /\ t.seen = backlog' /\ t.removals = tasks[r].removals
  BY <1>1
<1>5. \A e \in C!ToSet(backlog) : e \in C!ToSet(q) \/ e \in C!ToSet(backlog') \/ e.id \in missed'
  <2> HIDE DEF lost, next
  <2> QED BY <1>1, WrittenOver
<1> HIDE DEF t
<1>6. /\ mirror' \in [C!Ids -> C!Versions]
      /\ \A p \in C!Ids : mirror[p] = shop[p] => mirror'[p] = shop[p] \/ p \in missed'
      /\ \A e \in C!ToSet(batch) : e.v = shop[e.id].v => mirror'[e.id] = shop[e.id]
      /\ C!Overtaken(batch) \subseteq C!Ids
  <2>1. /\ C!Upserted(batch) \in [C!Ids -> C!Versions]
        /\ \A p \in C!Ids : mirror[p] = shop[p] => C!Upserted(batch)[p] = shop[p] \/ p \in C!Overtaken(batch)
        /\ \A e \in C!ToSet(batch) : e.v = shop[e.id].v => C!Upserted(batch)[e.id] = shop[e.id]
        /\ C!Overtaken(batch) \subseteq C!Ids
    BY <1>2, InvFacts, UpsertFacts
  <2>2. C!Overtaken(batch) \subseteq missed'
    BY <1>1
  <2> QED BY <1>1, <2>1, <2>2
<1>7. missed \subseteq missed' /\ missed' \subseteq C!Ids /\ stale \subseteq missed'
  <2>1. C!IdsOf(backlog) \subseteq C!Ids /\ stale \subseteq C!Ids
    BY <1>2, InvFacts, QueueFacts
  <2>2. C!Trampled(r, next) \subseteq C!Ids
    BY <2>1 DEF C!Trampled, C!IdsOf
  <2> HIDE DEF next, stale
  <2> QED BY <1>1, <1>6, <2>1, <2>2, InvFacts
<1>8. \A p \in tasks[r].ids : p \in missed' \/ mirror'[p] = shop[p]
  <2> SUFFICES ASSUME NEW p \in tasks[r].ids, p \notin stale PROVE mirror'[p] = shop[p]
    BY <1>7
  <2>1. PICK i \in DOMAIN batch : batch[i].id = p /\ batch[i].v = shop[p].v
    OBVIOUS
  <2>2. batch[i] \in C!ToSet(batch)
    BY DEF C!ToSet
  <2> QED BY <1>6, <2>1, <2>2
<1> HIDE DEF next, stale, lost
<1>9. TaskOK(t, shop)
  BY <1>2, <1>3, <1>4 DEF TaskOK, Walks
<1>10. MirrorTyped'
  BY <1>1, <1>3, <1>6, <1>7, <1>9, InvFacts, WritesTyped
<1>11. \A p : Pushed(p) => Pushed(p)'
  BY <1>1, InvFacts, SetFacts, PushedStays
<1>12. \A e \in C!ToSet(backlog) : e \in C!ToSet(backlog') \/ e.id \in missed' \/ mirror'[e.id] = shop[e.id]
  BY <1>3, <1>5, <1>8
<1>13. \A p \in C!Ids : Delivered(p) => Delivered(p)'
  <2> SUFFICES ASSUME NEW p \in C!Ids, Delivered(p) PROVE Delivered(p)'
    OBVIOUS
  <2>1. CASE p \in C!IdsOf(backlog)
    <3>1. PICK e \in C!ToSet(backlog) : e.id = p
      BY <2>1 DEF C!IdsOf
    <3> QED BY <1>1, <1>12, <3>1 DEF Delivered, C!IdsOf
  <2>2. CASE p \notin C!IdsOf(backlog)
    BY <1>1, <1>6, <1>7, <1>11, <2>2 DEF Delivered
  <2> QED BY <2>1, <2>2
<1>14. \A p \in C!Ids : Told(p) => Told(p)'
  <2> SUFFICES ASSUME NEW p \in C!Ids, Told(p) PROVE Told(p)'
    OBVIOUS
  <2>1. CASE [id |-> p, action |-> "remove"] \in C!ToSet(backlog)
    <3> DEFINE e == [id |-> p, action |-> "remove"]
    <3>1. e.id = p /\ e \in C!ToSet(backlog)
      BY <2>1
    <3> HIDE DEF e
    <3>2. e \in C!ToSet(backlog') \/ p \in missed' \/ mirror'[p] = shop'[p]
      BY <1>1, <1>12, <3>1
    <3> QED BY <3>2 DEF Told, e
  <2>2. CASE [id |-> p, action |-> "remove"] \notin C!ToSet(backlog)
    BY <1>1, <1>6, <1>7, <1>11, <2>2 DEF Told
  <2> QED BY <2>1, <2>2
<1>15. \A p \in Upserts(backlog') : Told(p)'
  <2>1. Upserts(backlog') \subseteq Upserts(q)
    BY <1>3 DEF Upserts
  <2>2. \A p \in Upserts(q) : p \in C!Ids /\ Told(p)
    BY <1>1 DEF MirrorInv, Upserts
  <2> QED BY <1>14, <2>1, <2>2
<1> QED BY <1>1, <1>4, <1>10, <1>13, <1>14, <1>15, Writes DEF Walks

LEMMA DrainsRemoval ==
  ASSUME MirrorInv, NEW r \in Requests, C!DrainRemoval(r)
  PROVE  MirrorInv'
<1>a. C!On(r, "removals") /\ QueueOK(tasks[r].seen) /\ tasks[r].removals \in Seq(C!Ids) /\ tasks[r].removals # <<>>
  BY InvFacts DEF C!DrainRemoval, C!On, TaskOK
<1>b. PICK p0 \in C!Ids : p0 = Head(tasks[r].removals)
  BY <1>a
<1> DEFINE q == tasks[r].seen
           next == C!Forgotten(r, {p0})
           t == [tasks[r] EXCEPT !.removals = Tail(@), !.seen = next]
           lost == IF shop[p0].live THEN {p0} ELSE {}
<1>1. /\ C!Set(r, t) /\ tasks[r].pc = "removals" /\ UNCHANGED <<shop, cursor, runs, mishaps>>
      /\ mirror' = [mirror EXCEPT ![p0] = [v |-> shop[p0].v, live |-> FALSE]]
      /\ backlog' = next /\ missed' = missed \cup C!Trampled(r, next) \cup lost
  BY <1>b DEF C!DrainRemoval, C!On
<1>2. /\ t.pc = "removals" /\ t.seen = backlog' /\ t.removals = Tail(tasks[r].removals)
      /\ t.removals \in Seq(C!Ids)
  BY <1>1, <1>a
<1> HIDE DEF t
<1>3. /\ QueueOK(backlog') /\ \A e : e \in C!ToSet(backlog') <=> e \in C!ToSet(q) /\ e.id # p0
  BY <1>1, <1>a, ForgottenFacts
<1>4. \A e \in C!ToSet(backlog) : e \in C!ToSet(q) \/ e \in C!ToSet(backlog') \/ e.id \in missed'
  <2> HIDE DEF lost, next
  <2> QED BY <1>1, WrittenOver
<1>5. missed \subseteq missed' /\ missed' \subseteq C!Ids
  <2>1. C!IdsOf(backlog) \subseteq C!Ids /\ lost \subseteq C!Ids
    BY InvFacts, QueueFacts
  <2>2. C!Trampled(r, next) \subseteq C!Ids
    BY <2>1 DEF C!Trampled, C!IdsOf
  <2> HIDE DEF next, lost
  <2> QED BY <1>1, <2>1, <2>2, InvFacts
<1>6. /\ mirror' \in [C!Ids -> C!Versions] /\ \A p \in C!Ids \ {p0} : mirror'[p] = mirror[p]
      /\ p0 \in missed' \/ mirror'[p0] = shop[p0]
  <2>1. shop[p0] \in C!Versions /\ shop \in [C!Ids -> C!Versions] /\ mirror \in [C!Ids -> C!Versions]
    BY InvFacts
  <2>2. [v |-> shop[p0].v, live |-> FALSE] \in C!Versions
    BY <2>1 DEF C!Versions
  <2>3. shop[p0] = [v |-> shop[p0].v, live |-> shop[p0].live] /\ shop[p0].live \in BOOLEAN
    BY <2>1 DEF C!Versions
  <2>4. shop[p0].live => p0 \in missed'
    BY <1>1
  <2> HIDE DEF next, lost
  <2> QED BY <1>1, <2>1, <2>2, <2>3, <2>4
<1> HIDE DEF next, lost
<1>7. TaskOK(t, shop)
  BY <1>2, <1>3 DEF TaskOK, Walks
<1>8. MirrorTyped'
  BY <1>1, <1>3, <1>5, <1>6, <1>7, InvFacts, WritesTyped
<1>9. \A p : Pushed(p) => Pushed(p)'
  BY <1>1, InvFacts, SetFacts, PushedStays
<1>10. Delivered(p0)' /\ Told(p0)'
  BY <1>1, <1>6 DEF Delivered, Told
<1>11. \A e \in C!ToSet(backlog) : e \in C!ToSet(backlog') \/ e.id \in missed' \/ e.id = p0
  BY <1>3, <1>4
<1>12. ASSUME NEW p \in C!Ids, Delivered(p), p # p0 PROVE Delivered(p)'
  <2>1. CASE p \in C!IdsOf(backlog)
    <3>1. PICK e \in C!ToSet(backlog) : e.id = p
      BY <2>1 DEF C!IdsOf
    <3> QED BY <1>11, <1>12, <3>1 DEF Delivered, C!IdsOf
  <2>2. CASE p \notin C!IdsOf(backlog)
    BY <1>1, <1>5, <1>6, <1>9, <1>12, <2>2 DEF Delivered
  <2> QED BY <2>1, <2>2
<1>13. ASSUME NEW p \in C!Ids, Told(p), p # p0 PROVE Told(p)'
  <2>1. CASE [id |-> p, action |-> "remove"] \in C!ToSet(backlog)
    <3> DEFINE e == [id |-> p, action |-> "remove"]
    <3>1. e.id = p /\ e \in C!ToSet(backlog)
      BY <2>1
    <3> HIDE DEF e
    <3>2. e \in C!ToSet(backlog') \/ p \in missed'
      BY <1>11, <1>13, <3>1
    <3> QED BY <3>2 DEF Told, e
  <2>2. CASE [id |-> p, action |-> "remove"] \notin C!ToSet(backlog)
    BY <1>1, <1>5, <1>6, <1>9, <1>13, <2>2 DEF Told
  <2> QED BY <2>1, <2>2
<1>14. \A p \in C!Ids : (Delivered(p) => Delivered(p)') /\ (Told(p) => Told(p)')
  BY <1>10, <1>12, <1>13
<1>15. \A p \in Upserts(backlog') : Told(p)'
  <2>1. Upserts(backlog') \subseteq Upserts(q)
    BY <1>3 DEF Upserts
  <2>2. \A p \in Upserts(q) : p \in C!Ids /\ Told(p)
    BY <1>1 DEF MirrorInv, Upserts
  <2> QED BY <1>14, <2>1, <2>2
<1> QED BY <1>1, <1>2, <1>8, <1>14, <1>15, Writes DEF Walks

LEMMA SweepsPage ==
  ASSUME MirrorInv, NEW r \in Requests, C!SweepPage(r)
  PROVE  MirrorInv'
<1> DEFINE stale == C!StaleFor(tasks[r].floor, tasks[r].ids)
<1>1. PICK t : t \in {C!Free, [tasks[r] EXCEPT !.ids = C!RestOf(@)]} /\ C!Set(r, t)
  BY DEF C!SweepPage
<1>2. /\ tasks[r].pc = "sweep" /\ UNCHANGED <<shop, backlog, cursor, runs, mishaps>>
      /\ mirror' = [p \in C!Ids |-> IF p \in stale THEN [mirror[p] EXCEPT !.live = FALSE] ELSE mirror[p]]
      /\ missed' = missed \cup (stale \cap C!Live)
  BY DEF C!SweepPage, C!On
<1>3. t.pc \in {"idle", "sweep"}
  <2> DEFINE u == [tasks[r] EXCEPT !.ids = C!RestOf(@)]
  <2>1. u.pc = "sweep"
    BY <1>2
  <2>2. t = C!Free \/ t = u
    BY <1>1
  <2> HIDE DEF u
  <2> QED BY <2>1, <2>2 DEF C!Free
<1> HIDE DEF stale
<1>4. TaskOK(t, shop) /\ t.pc \notin Walks /\ t.pc \notin {"push", "upserts", "removals"}
  BY <1>3 DEF TaskOK, Walks
<1>5. /\ mirror \in [C!Ids -> C!Versions] /\ shop \in [C!Ids -> C!Versions]
      /\ \A p \in C!Ids : /\ mirror[p] = [v |-> mirror[p].v, live |-> mirror[p].live]
                          /\ mirror[p].v \in 0 .. MaxSaves /\ mirror[p].live \in BOOLEAN
                          /\ shop[p].live \in BOOLEAN
  BY InvFacts DEF C!Versions
<1>6. \A p \in C!Ids : mirror'[p] \in C!Versions
  BY <1>2, <1>5 DEF C!Versions
<1>7. mirror' \in [C!Ids -> C!Versions]
  <2>1. mirror' = [p \in C!Ids |-> mirror'[p]]
    BY <1>2
  <2> QED BY <1>6, <2>1
<1>8. missed \subseteq missed' /\ missed' \subseteq C!Ids
  BY <1>2, InvFacts DEF C!Live
<1>9. ASSUME NEW p \in C!Ids, mirror[p] = shop[p] PROVE mirror'[p] = shop[p] \/ p \in missed'
  <2>1. CASE p \in stale /\ shop[p].live
    BY <1>2, <2>1 DEF C!Live
  <2>2. CASE p \in stale /\ ~shop[p].live
    BY <1>2, <1>5, <1>9, <2>2
  <2>3. CASE p \notin stale
    BY <1>2, <1>9, <2>3
  <2> QED BY <2>1, <2>2, <2>3
<1>10. MirrorTyped'
  BY <1>1, <1>2, <1>4, <1>7, <1>8, InvFacts, WritesTyped
<1>11. \A p : Pushed(p) => Pushed(p)'
  BY <1>1, <1>2, InvFacts, SetFacts, PushedStays
<1>12. \A p \in C!Ids : (Delivered(p) => Delivered(p)') /\ (Told(p) => Told(p)')
  BY <1>2, <1>8, <1>9, <1>11 DEF Delivered, Told
<1>13. \A p \in Upserts(backlog') : Told(p)'
  BY <1>2, <1>12 DEF MirrorInv, Upserts
<1> QED BY <1>1, <1>2, <1>4, <1>10, <1>12, <1>13, Writes

LEMMA WalkSends ==
  ASSUME MirrorInv, NEW r \in Requests, C!WalkSend(r)
  PROVE  MirrorInv'
<1> DEFINE batch == tasks[r].batch
           sent == C!Sent(batch)
           k == Len(sent)
           c == tasks[r].at
           at == [c EXCEPT !.offset = @ + k]
           t == [pc |-> "release", at |-> at]
<1>1. tasks[r].pc = "send" /\ UNCHANGED <<shop, backlog, runs, mishaps>>
  BY DEF C!WalkSend, C!On
<1>2. /\ BatchOK(batch, shop) /\ c \in Cursors /\ c.run # 0 /\ c.offset + Len(batch) <= Len(Products)
  BY <1>1, InvFacts DEF TaskOK, Walks
<1>3. /\ BatchOK(sent, shop) /\ k \in 0 .. Len(batch) /\ Len(batch) \in Nat
      /\ \A i \in 1 .. k : sent[i] = batch[i]
  BY <1>2, SentIs, BatchFacts
<1>4. /\ C!Set(r, t) /\ cursor' = at /\ mirror' = C!Upserted(sent) /\ missed' = missed \cup C!Overtaken(sent)
  <2>1. (IF sent = <<>> THEN 0 ELSE C!MoveBySent(r, sent)) = k
    BY <1>3 DEF C!MoveBySent
  <2>2. C!Advanced(r, k) = at
    BY DEF C!Advanced
  <2>3. /\ mirror' = C!Upserted(sent) /\ missed' = missed \cup C!Overtaken(sent)
        /\ C!Set(r, t) /\ cursor' = tasks'[r].at
    <3> HIDE DEF k, at
    <3> QED BY <2>1, <2>2 DEF C!WalkSend
  <2>4. tasks'[r] = t
    BY <2>3, InvFacts, SetFacts
  <2> QED BY <2>3, <2>4
<1>5. /\ at \in Cursors /\ at.run = c.run /\ at.total = c.total /\ at.offset = c.offset + k
      /\ c.offset \in Nat /\ c.total \in Nat
  <2>1. Len(Products) \in Nat /\ c.offset + k \in 0 .. Len(Products)
    <3>1. c.offset \in 0 .. Len(Products)
      BY <1>2 DEF Cursors
    <3> HIDE DEF c, k, batch
    <3> QED BY <1>2, <1>3, <3>1, ProductsFacts
  <2> HIDE DEF c, k
  <2> QED BY <1>2, <2>1 DEF Cursors
<1>6. t.pc = "release" /\ t.at = at
  OBVIOUS
<1> HIDE DEF t, at, k
<1>7. /\ C!Upserted(sent) \in [C!Ids -> C!Versions]
      /\ \A e \in C!ToSet(sent) : C!Upserted(sent)[e.id] = [v |-> e.v, live |-> TRUE]
      /\ \A p \in C!Ids : mirror[p] = shop[p] => C!Upserted(sent)[p] = shop[p] \/ p \in C!Overtaken(sent)
      /\ \A e \in C!ToSet(sent) : e.v = shop[e.id].v => C!Upserted(sent)[e.id] = shop[e.id]
      /\ C!Overtaken(sent) \subseteq C!Ids
  <2> HIDE DEF sent
  <2> QED BY <1>3, InvFacts, UpsertFacts
<1> HIDE DEF sent
<1>8. /\ mirror' \in [C!Ids -> C!Versions] /\ missed \subseteq missed' /\ missed' \subseteq C!Ids
      /\ \A p \in C!Ids : mirror[p] = shop[p] => mirror'[p] = shop[p] \/ p \in missed'
      /\ \A e \in C!ToSet(sent) : e.v = shop[e.id].v => mirror'[e.id] = shop[e.id]
  BY <1>4, <1>7, InvFacts
<1>9. /\ DOMAIN tasks' = Requests /\ tasks'[r] = t /\ \A q \in Requests \ {r} : tasks'[q] = tasks[q]
  BY <1>4, InvFacts, SetFacts
<1>10. TaskOK(t, shop)
  BY <1>5, <1>6 DEF TaskOK, Walks
<1>11. MirrorTyped'
  BY <1>1, <1>4, <1>5, <1>8, <1>9, <1>10, InvFacts DEF MirrorTyped
<1>12. \A p : Pushed(p) => Pushed(p)'
  BY <1>1, <1>9, PushedStays
<1>13. \A p \in C!Ids : (Delivered(p) => Delivered(p)') /\ (Told(p) => Told(p)')
  BY <1>1, <1>8, <1>12 DEF Delivered, Told
<1>14. ASSUME NEW p \in C!Ids, Ahead(p), ~Delivered(p)' PROVE AheadOf(at, shop, p)
  <2> DEFINE n == Row(shop, p)
  <2>1. /\ AheadOf(c, shop, p) /\ Batched(tasks[r], shop, p) /\ n \in Nat
    BY <1>1, <1>14, RowIsNat DEF Ahead, Walks
  <2>2. /\ shop[p].live /\ c.offset <= n /\ n < c.total
        /\ (n < c.offset + Len(batch) => batch[n - c.offset + 1].id = p)
    BY <1>2, <2>1 DEF AheadOf, Batched
  <2> HIDE DEF n
  <2>3. CASE n < c.offset + k
    <3>1. /\ n - c.offset + 1 \in 1 .. k /\ batch[n - c.offset + 1].id = p
          /\ sent[n - c.offset + 1] = batch[n - c.offset + 1]
      <4> HIDE DEF batch, c
      <4>1. n - c.offset + 1 \in 1 .. k
        BY <1>3, <1>5, <2>1, <2>2, <2>3
      <4>2. n < c.offset + Len(batch)
        BY <1>3, <1>5, <2>1, <2>3
      <4> QED BY <1>3, <2>2, <4>1, <4>2
    <3>2. PICK e \in C!ToSet(sent) : e.id = p /\ e \in C!ToSet(batch)
      <4>1. /\ DOMAIN sent = 1 .. k /\ \A i \in DOMAIN sent : sent[i] \in C!ToSet(sent)
            /\ DOMAIN batch = 1 .. Len(batch) /\ \A i \in DOMAIN batch : batch[i] \in C!ToSet(batch)
        <5> HIDE DEF batch
        <5> QED BY <1>2, <1>3, BatchFacts DEF k
      <4>2. n - c.offset + 1 \in 1 .. Len(batch)
        BY <1>3, <3>1
      <4> QED BY <3>1, <4>1, <4>2
    <3>3. e.v = shop[e.id].v \/ Delivered(e.id)
      BY <1>1, <3>2 DEF MirrorInv
    <3>4. CASE e.v = shop[e.id].v
      BY <1>1, <1>8, <1>14, <3>2, <3>4 DEF Delivered
    <3>5. CASE Delivered(e.id)
      BY <1>13, <1>14, <3>2, <3>5
    <3> QED BY <3>3, <3>4, <3>5
  <2>4. CASE ~(n < c.offset + k)
    BY <1>3, <1>5, <2>1, <2>2, <2>4 DEF AheadOf, n
  <2> QED BY <2>3, <2>4
<1>15. ASSUME NEW p \in C!Ids PROVE Delivered(p)' \/ Ahead(p)'
  <2> SUFFICES ASSUME ~Delivered(p)' PROVE Ahead(p)'
    OBVIOUS
  <2>1. Ahead(p) /\ AheadOf(at, shop, p)
    BY <1>13, <1>14 DEF MirrorInv
  <2>2. ASSUME NEW q \in Requests
        PROVE  /\ tasks'[q].pc \in Walks => AheadOf(tasks'[q].at, shop', p)
               /\ tasks'[q].pc = "send" => Batched(tasks'[q], shop', p)
    <3>1. CASE q = r
      BY <1>1, <1>6, <1>9, <2>1, <3>1
    <3>2. CASE q # r
      BY <1>1, <1>9, <2>1, <3>2 DEF Ahead
    <3> QED BY <3>1, <3>2
  <2> QED BY <1>1, <1>4, <2>1, <2>2 DEF Ahead
<1>16. \A p \in Upserts(backlog') : Told(p)'
  BY <1>1, <1>13 DEF MirrorInv, Upserts
<1>17. ASSUME NEW q \in Requests
       PROVE  /\ tasks'[q].pc \in {"push", "upserts", "removals"} => \A p \in Upserts(tasks'[q].seen) : Told(p)'
              /\ tasks'[q].pc = "send" => \A e \in C!ToSet(tasks'[q].batch) : e.v = shop'[e.id].v \/ Delivered(e.id)'
  <2>1. CASE q = r
    BY <1>6, <1>9, <2>1
  <2>2. CASE q # r
    <3>1. tasks'[q].pc \in {"push", "upserts", "removals"} => \A p \in Upserts(tasks'[q].seen) : Told(p)'
      BY <1>9, <1>13, <2>2 DEF MirrorInv, Upserts
    <3>2. ASSUME tasks[q].pc = "send", NEW e \in C!ToSet(tasks[q].batch) PROVE e.v = shop'[e.id].v \/ Delivered(e.id)'
      <4>1. e.id \in C!Ids
        BY <3>2, InvFacts, BatchFacts DEF TaskOK
      <4> QED BY <1>1, <1>13, <3>2, <4>1 DEF MirrorInv
    <3> QED BY <1>9, <2>2, <3>1, <3>2
  <2> QED BY <2>1, <2>2
<1> QED BY <1>11, <1>15, <1>16, <1>17 DEF MirrorInv

LEMMA MirrorStep == MirrorInv /\ [C!Next]_C!vars => MirrorInv'
<1> SUFFICES ASSUME MirrorInv, [C!Next]_C!vars PROVE MirrorInv'
  OBVIOUS
<1>1. CASE C!ClaimExpires \/ C!Restart
  BY <1>1, CursorResets
<1>2. CASE C!Disconnect
  BY <1>2, Disconnects
<1>3. ASSUME NEW r \in Requests, C!Enqueue(r) PROVE MirrorInv'
  BY <1>3, Enqueues
<1>4. ASSUME NEW r \in Requests, C!DrainStart(r) PROVE MirrorInv'
  BY <1>4, DrainStarts
<1>5. ASSUME NEW r \in Requests, C!DrainUpserts(r) PROVE MirrorInv'
  BY <1>5, DrainsUpserts
<1>6. ASSUME NEW r \in Requests, C!DrainFails(r) \/ C!DrainEnds(r) \/ C!SweepStart(r) PROVE MirrorInv'
  BY <1>6, DrainStops
<1>7. ASSUME NEW r \in Requests, C!DrainRemoval(r) PROVE MirrorInv'
  BY <1>7, DrainsRemoval
<1>8. ASSUME NEW r \in Requests, C!WalkRead(r) PROVE MirrorInv'
  BY <1>8, WalkReads
<1>9. ASSUME NEW r \in Requests, C!WalkClaim(r) PROVE MirrorInv'
  BY <1>9, WalkClaims
<1>10. ASSUME NEW r \in Requests, C!WalkPage(r) PROVE MirrorInv'
  BY <1>10, WalkPages
<1>11. ASSUME NEW r \in Requests, C!WalkEmpty(r) \/ C!WalkFails(r) PROVE MirrorInv'
  BY <1>11, WalkTurns
<1>12. ASSUME NEW r \in Requests, C!WalkSend(r) PROVE MirrorInv'
  BY <1>12, WalkSends
<1>13. ASSUME NEW r \in Requests, C!WalkRelease(r) PROVE MirrorInv'
  BY <1>13, WalkReleases
<1>14. ASSUME NEW r \in Requests, C!SweepPage(r) PROVE MirrorInv'
  BY <1>14, SweepsPage
<1>15. ASSUME NEW r \in Requests, C!Ends(r) PROVE MirrorInv'
  BY <1>15, DrainStops, DiesPushing
<1>16. ASSUME NEW r \in Requests, NEW p \in C!Ids, C!Save(r, p) \/ C!Trash(r, p) PROVE MirrorInv'
  BY <1>16, MerchantActs
<1>17. CASE UNCHANGED C!vars
  <2>1. UNCHANGED <<shop, mirror, backlog, cursor, tasks, runs, missed, mishaps>>
    BY <1>17 DEF C!vars
  <2>2. \A p \in C!Ids : Ahead(p) => AheadOf(cursor', shop, p)
    BY <2>1 DEF Ahead
  <2> QED BY <2>1, <2>2, InvFacts, CursorTurns
<1> QED BY <1>1, <1>2, <1>3, <1>4, <1>5, <1>6, <1>7, <1>8, <1>9, <1>10, <1>11, <1>12, <1>13, <1>14,
           <1>15, <1>16, <1>17 DEF C!Next

LEMMA MirrorMeans == MirrorInv => C!TypeOK /\ C!MirrorSettles
<1> SUFFICES ASSUME MirrorInv PROVE C!TypeOK /\ C!MirrorSettles
  OBVIOUS
<1>1. C!TypeOK
  <2>1. \A e \in C!ToSet(backlog) : e \in Entries
    BY InvFacts, QueueFacts
  <2> QED BY <2>1, InvFacts DEF C!TypeOK, QueueOK, Entries, Cursors
<1>2. C!MirrorSettles
  <2> SUFFICES ASSUME C!Quiet, backlog = <<>>, C!Complete(cursor), NEW p \in C!Ids \ missed
               PROVE  mirror[p] = shop[p]
    BY DEF C!MirrorSettles
  <2>1. ~Pushed(p) /\ p \notin C!IdsOf(backlog)
    BY DEF C!Quiet, C!On, Pushed, C!IdsOf, C!ToSet
  <2>2. ~Ahead(p)
    <3>1. Row(shop, p) \in Nat /\ cursor.offset \in Nat /\ cursor.total \in Nat
      BY InvFacts, RowIsNat, ProductsFacts DEF Cursors
    <3> QED BY <3>1 DEF Ahead, AheadOf, C!Complete
  <2> QED BY <2>1, <2>2 DEF MirrorInv, Delivered
<1> QED BY <1>1, <1>2
-----------------------------------------------------------------------------
(* A task is only ever replaced as a whole, and by the request whose it is.  A
   request that is sweeping sends the next page of its manifest, or stops. *)
Tasked == DOMAIN tasks = Requests

SetBy(r) == \E task : tasks' = [tasks EXCEPT ![r] = task]

LEMMA MerchantSets ==
  ASSUME NEW r \in Requests, NEW p, C!Save(r, p) \/ C!Trash(r, p)
  PROVE  SetBy(r) /\ tasks[r].pc # "sweep"
  BY DEF C!Save, C!Trash, C!On, C!Set, SetBy

LEMMA QueueSets ==
  ASSUME NEW r \in Requests,
         \/ C!Enqueue(r) \/ C!DrainStart(r) \/ C!DrainUpserts(r) \/ C!DrainFails(r)
         \/ C!DrainRemoval(r) \/ C!DrainEnds(r)
  PROVE  SetBy(r) /\ tasks[r].pc # "sweep"
<1>1. CASE C!Enqueue(r)
  BY <1>1 DEF C!Enqueue, C!On, C!Set, SetBy
<1>2. CASE C!DrainStart(r)
  BY <1>2 DEF C!DrainStart, C!On, C!Set, SetBy
<1>3. CASE C!DrainUpserts(r)
  BY <1>3 DEF C!DrainUpserts, C!ForgetUpserts, C!On, C!Set, SetBy
<1>4. CASE C!DrainFails(r)
  BY <1>4 DEF C!DrainFails, C!Turn, C!On, C!Set, SetBy
<1>5. CASE C!DrainRemoval(r)
  BY <1>5 DEF C!DrainRemoval, C!On, C!Set, SetBy
<1>6. CASE C!DrainEnds(r)
  BY <1>6 DEF C!DrainEnds, C!On, C!Set, SetBy
<1> QED BY <1>1, <1>2, <1>3, <1>4, <1>5, <1>6

LEMMA WalkSets ==
  ASSUME NEW r \in Requests,
         \/ C!WalkRead(r) \/ C!WalkClaim(r) \/ C!WalkPage(r) \/ C!WalkEmpty(r)
         \/ C!WalkSend(r) \/ C!WalkFails(r) \/ C!WalkRelease(r)
  PROVE  SetBy(r) /\ tasks[r].pc # "sweep"
<1>1. CASE C!WalkRead(r) \/ C!WalkEmpty(r) \/ C!WalkFails(r) \/ C!WalkRelease(r)
  BY <1>1 DEF C!WalkRead, C!WalkEmpty, C!WalkFails, C!WalkRelease, C!Turn, C!On, C!Set, SetBy
<1>2. CASE C!WalkClaim(r)
  BY <1>2 DEF C!WalkClaim, C!On, C!Set, SetBy
<1>3. CASE C!WalkPage(r)
  BY <1>3 DEF C!WalkPage, C!On, C!Set, SetBy
<1>4. CASE C!WalkSend(r)
  BY <1>4 DEF C!WalkSend, C!On, C!Set, SetBy
<1> QED BY <1>1, <1>2, <1>3, <1>4

LEMMA SetLeavesOthers ==
  ASSUME Tasked, NEW r \in Requests, SetBy(r)
  PROVE  Tasked' /\ \A q \in Requests \ {r} : tasks'[q] = tasks[q]
  BY DEF Tasked, SetBy

LEMMA NotSweeping ==
  ASSUME Tasked, NEW r \in Requests, SetBy(r), tasks[r].pc # "sweep"
  PROVE  Tasked' /\ C!PageDeletesNothing
  BY SetLeavesOthers DEF C!PageDeletesNothing, C!On

(* A page that is not the last compares nothing. *)
LEMMA MiddlePage ==
  ASSUME Tasked, NEW r \in Requests, C!SweepPage(r)
  PROVE  Tasked' /\ C!PageDeletesNothing
<1>1. SetBy(r)
  BY DEF C!SweepPage, C!Set, SetBy
<1>2. ASSUME tasks'[r].pc = "sweep"
      PROVE  \A p \in C!Ids : mirror[p].live => mirror'[p].live
  <2>1. C!RestOf(tasks[r].ids) # <<>>
    BY <1>2 DEF C!SweepPage, C!Set, C!Free, Tasked
  <2>2. C!StaleFor(tasks[r].floor, tasks[r].ids) = {}
    BY <2>1 DEF C!StaleFor
  <2> QED BY <2>2 DEF C!SweepPage
<1> QED BY <1>1, <1>2, SetLeavesOthers DEF C!PageDeletesNothing, C!On

LEMMA TasksStep ==
  ASSUME Tasked, C!Next \/ UNCHANGED catalogue
  PROVE  Tasked' /\ C!PageDeletesNothing
<1>1. CASE UNCHANGED tasks
  BY <1>1 DEF Tasked, C!PageDeletesNothing
<1>2. CASE C!ClaimExpires \/ C!Restart \/ C!Disconnect
  BY <1>1, <1>2 DEF C!ClaimExpires, C!Restart, C!Disconnect
<1>3. ASSUME NEW r \in Requests, NEW p \in C!Ids, C!Save(r, p) \/ C!Trash(r, p)
      PROVE  Tasked' /\ C!PageDeletesNothing
  BY <1>3, MerchantSets, NotSweeping
<1>4. ASSUME NEW r \in Requests,
             \/ C!Enqueue(r) \/ C!DrainStart(r) \/ C!DrainUpserts(r) \/ C!DrainFails(r)
             \/ C!DrainRemoval(r) \/ C!DrainEnds(r)
      PROVE  Tasked' /\ C!PageDeletesNothing
  BY <1>4, QueueSets, NotSweeping
<1>5. ASSUME NEW r \in Requests,
             \/ C!WalkRead(r) \/ C!WalkClaim(r) \/ C!WalkPage(r) \/ C!WalkEmpty(r)
             \/ C!WalkSend(r) \/ C!WalkFails(r) \/ C!WalkRelease(r)
      PROVE  Tasked' /\ C!PageDeletesNothing
  BY <1>5, WalkSets, NotSweeping
<1>6. ASSUME NEW r \in Requests, C!SweepStart(r)
      PROVE  Tasked' /\ C!PageDeletesNothing
  <2>1. SetBy(r) /\ tasks[r].pc # "sweep"
    BY <1>6 DEF C!SweepStart, C!On, C!Set, SetBy
  <2> QED BY <2>1, NotSweeping
<1>7. ASSUME NEW r \in Requests, C!SweepPage(r)
      PROVE  Tasked' /\ C!PageDeletesNothing
  BY <1>7, MiddlePage
<1>8. ASSUME NEW r \in Requests, C!Ends(r)
      PROVE  Tasked' /\ C!PageDeletesNothing
  <2>1. tasks' = [tasks EXCEPT ![r] = [pc |-> "idle"]] /\ SetBy(r)
    BY <1>8 DEF C!Ends, C!Set, C!Free, SetBy
  <2> QED BY <2>1, SetLeavesOthers DEF C!PageDeletesNothing, C!On, Tasked
<1> QED BY <1>1, <1>2, <1>3, <1>4, <1>5, <1>6, <1>7, <1>8 DEF C!Next, catalogue
-----------------------------------------------------------------------------
(* The parts beside one another. *)
everything == <<vars, reports, catalogue, breaker, views, installation, part>>

(* Either Connection steps, or what it owns stays. *)
LEMMA ConnectionSteps ==
  ASSUME [StoreNext]_everything
  PROVE  [Next]_vars
  BY DEF StoreNext, everything

LEMMA CatalogueSteps ==
  ASSUME [StoreNext]_everything
  PROVE  C!Next \/ UNCHANGED catalogue
  BY DEF StoreNext, everything

LEMMA BreakerSteps ==
  ASSUME [StoreNext]_everything
  PROVE  [B!Next]_B!vars
  BY DEF StoreNext, everything, breaker, B!vars

LEMMA ReportsSteps ==
  ASSUME [StoreNext]_everything
  PROVE  [O!Next]_O!vars
  BY DEF StoreNext, everything, reports, O!vars

LEMMA ViewsSteps ==
  ASSUME [StoreNext]_everything
  PROVE  [V!Next]_V!vars
  BY DEF StoreNext, everything, views, V!vars

LEMMA InstallationSteps ==
  ASSUME [StoreNext]_everything
  PROVE  [I!Next]_I!vars
  BY DEF StoreNext, everything, installation, I!vars
-----------------------------------------------------------------------------
(* A code gives one credential, a store that has left honours none and waits for
   no code, and a connected one has one, beside all that goes on (ConnectService,
   StoresService, Callback). *)
THEOREM ConnectionsHold == StoreSpec => []ConnectionIsSound
<1>1. StoreInit => IInv
  BY InvInit DEF StoreInit
<1>2. IInv /\ [StoreNext]_everything => IInv'
  BY ConnectionSteps, InvStep DEF Kept
<1>3. IInv => ConnectionIsSound
  BY DEF ConnectionIsSound, IInv, CloudOK, PluginOK, NoHandshakeAfterLeaving
<1>4. StoreSpec => StoreInit /\ [][StoreNext]_everything
  BY DEF StoreSpec, everything
<1> QED BY <1>1, <1>2, <1>3, <1>4, PTL

(* What the store's own options and rows settle stays settled, beside all that
   goes on: a code is approved into one workspace and, closed by a disconnect,
   gives no key; a page of a manifest that is still arriving deletes nothing
   (connect.service.ts, stores.service.ts, catalogue-ingest.service.ts). *)
THEOREM NothingIsEverReopened == StoreSpec => NothingIsReopened
<1>1. StoreInit => IInv /\ Tasked
  BY InvInit DEF StoreInit, C!Init, Tasked
<1>2. IInv /\ Tasked /\ [StoreNext]_everything => (IInv /\ Tasked)'
  BY ConnectionSteps, InvStep, CatalogueSteps, TasksStep DEF Kept
<1>3. IInv /\ Tasked /\ [StoreNext]_everything
        => [ApprovesOnce /\ LeavesClosed /\ C!PageDeletesNothing]_<<vars, catalogue>>
  BY ConnectionSteps, InvStep, CatalogueSteps, TasksStep DEF Kept, Grows, ApprovesOnce
<1>4. StoreSpec => StoreInit /\ [][StoreNext]_everything
  BY DEF StoreSpec, everything
<1> QED BY <1>1, <1>2, <1>3, <1>4, PTL DEF NothingIsReopened

(* An open circuit knows when it opened, and requests that come one at a time
   probe it a cooldown apart (CircuitBreaker.php). *)
THEOREM CircuitsHold == StoreSpec => []CircuitHolds
<1> DEFINE Both == BreakerInv /\ AloneInv
<1>1. StoreInit => Both
  BY BreakerInit, AloneInit DEF StoreInit
<1>2. Both /\ [StoreNext]_everything => Both'
  BY BreakerSteps, BreakerStep, AloneNext
<1>3. Both => CircuitHolds
  BY BreakerAssumption
     DEF CircuitHolds, BreakerInv, AloneInv, CircuitOK, ProbesApart, B!OpenIsTimed, B!OneProbeEach
<1>4. StoreSpec => StoreInit /\ [][StoreNext]_everything
  BY DEF StoreSpec, everything
<1> HIDE DEF Both
<1> QED BY <1>1, <1>2, <1>3, <1>4, PTL

(* An order marked as reported is recorded, is counted once with the revenue of
   all of its lines, and none that was paid goes missing unnoticed; a view is
   pending, refused or in the cloud, once, while no two writes of the counts
   cross.  For orders of any length, any number of requests and pages at once,
   and whatever is lost or dies (OrderReporter.php, orders.service.ts,
   ViewCollector.php, ViewReporter.php). *)
THEOREM ReportsAreAlwaysExact == StoreSpec => []ReportsAreExact
<1> DEFINE Both == ReportsInv /\ ViewsInv
<1>1. StoreInit => Both
  BY ReportsInit, ViewsInitially DEF StoreInit
<1>2. Both /\ [StoreNext]_everything => Both'
  BY ReportsSteps, ReportsStep, ViewsSteps, ViewsStep
<1>3. Both => ReportsAreExact
  BY ReportsMean, ViewsMeans DEF ReportsAreExact
<1>4. StoreSpec => StoreInit /\ [][StoreNext]_everything
  BY DEF StoreSpec, everything
<1> HIDE DEF Both
<1> QED BY <1>1, <1>2, <1>3, <1>4, PTL

(* The invariants of the parts, beside one another. *)
PartsInv ==
    /\ part \in {"connection", "reports", "catalogue", "breaker", "views", "installation"}
    /\ IInv /\ ReportsInv /\ MirrorInv /\ BreakerInv /\ ViewsInv /\ InstallInv

LEMMA PartsInitially == StoreInit => PartsInv
  BY InvInit, ReportsInit, MirrorInit, BreakerInit, ViewsInitially, InstallInit DEF StoreInit, PartsInv

LEMMA PartsStep == PartsInv /\ [StoreNext]_everything => PartsInv'
<1> SUFFICES ASSUME PartsInv, [StoreNext]_everything PROVE PartsInv'
  OBVIOUS
<1>1. IInv'
  BY ConnectionSteps, InvStep DEF PartsInv, Kept
<1>2. ReportsInv'
  BY ReportsSteps, ReportsStep DEF PartsInv
<1>3. MirrorInv'
  <2>1. [C!Next]_C!vars
    BY CatalogueSteps DEF catalogue, C!vars
  <2> QED BY <2>1, MirrorStep DEF PartsInv
<1>4. BreakerInv'
  BY BreakerSteps, BreakerStep DEF PartsInv
<1>5. ViewsInv'
  BY ViewsSteps, ViewsStep DEF PartsInv
<1>6. InstallInv'
  BY InstallationSteps, InstallStep DEF PartsInv
<1>7. part' = part
  BY DEF StoreNext, everything
<1> QED BY <1>1, <1>2, <1>3, <1>4, <1>5, <1>6, <1>7 DEF PartsInv

(* Every part of a store and its cloud is well typed in every reachable state. *)
THEOREM StoresAreTyped == StoreSpec => []StoreTypeOK
<1>1. PartsInv => StoreTypeOK
  <2> SUFFICES ASSUME PartsInv PROVE StoreTypeOK
    OBVIOUS
  <2>1. TypeOK
    BY DEF PartsInv, IInv, CloudOK, CloudType, PluginOK, TypeOK
  <2>2. B!TypeOK
    BY BreakerAssumption DEF PartsInv, BreakerInv, B!TypeOK, CircuitOK
  <2>3. O!TypeOK /\ C!TypeOK /\ V!TypeOK /\ I!TypeOK
    BY ReportsMean, MirrorMeans, ViewsMeans, InstallMeans DEF PartsInv
  <2> QED BY <2>1, <2>2, <2>3 DEF PartsInv, StoreTypeOK
<1>2. StoreSpec => StoreInit /\ [][StoreNext]_everything
  BY DEF StoreSpec, everything
<1> QED BY <1>1, <1>2, PartsInitially, PartsStep, PTL

(* Once the walk is complete and the queue is empty the mirror is the shop, but
   for changes that were shed, moved or overtaken; and a request that nothing
   disturbs leaves the plugin whole, its tables there and its hooks scheduled,
   or, after an uninstall that asked for it, nothing of it.  For any catalogue,
   any releases and whatever fails, dies or restarts in between
   (QueueDrainer.php, CataloguePusher.php, Migrator.php, uninstall.php). *)
THEOREM SitesSettle == StoreSpec => []SiteSettles
<1>1. PartsInv => SiteSettles
  BY MirrorMeans, InstallMeans DEF PartsInv, SiteSettles
<1>2. StoreSpec => StoreInit /\ [][StoreNext]_everything
  BY DEF StoreSpec, everything
<1> QED BY <1>1, <1>2, PartsInitially, PartsStep, PTL
=============================================================================
