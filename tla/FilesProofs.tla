----------------------------- MODULE FilesProofs -----------------------------
(* Theorems about Uploads and Renders, for every number of uploads, orders and
   lines, whatever the files, the quota, the batches and the bounds on trouble. *)
EXTENDS MCFiles, ListProofs

Keys == {"guest", "customer"}
RowTypes == [session : Keys \cup {""}, owner : Orders \cup {0}, expired : BOOLEAN]
OrderTypes == [state : {"none", "creating", "placed", "deleted"},
               tokens : SUBSET Uploads, todo : SUBSET Uploads]

(* A token that is in the cart or on the lines of an order. *)
Taken(u) == u \in cart \/ \E o \in Orders : u \in orders[o].tokens

(* The row of a request is made last; its file is young till then. *)
UploadOK(u) ==
    /\ request[u].pc \in {"none", "create", "done"}
    /\ request[u].pc = "create" => request[u].session \in Keys /\ u \in young
    /\ request[u].pc # "done" => rows[u] = NoRow
    /\ request[u].pc = "none" => u \notin disk
    /\ rows[u].owner # 0 => ~rows[u].expired
    /\ Taken(u) => request[u].pc = "done" /\ (u \in disk => Exists(u))

ShopOK ==
    /\ request = [u \in Uploads |-> request[u]]
    /\ rows \in [Uploads -> RowTypes] /\ orders \in [Orders -> OrderTypes]
    /\ young \subseteq disk /\ disk \subseteq Uploads \cup {Archive}
    /\ cart \subseteq Uploads /\ session \in Keys /\ troubles \in 0 .. MaxTroubles

(* What the expirer took stays due: past its deadline, claimed or released. *)
Due(u) == request[u].pc = "done" /\ (rows[u].owner = 0 /\ Exists(u) => rows[u].expired)
(* What the sweeper took has no request behind it, and no row. *)
Orphan(f) == f # Archive => request[f].pc = "done" /\ (~QueryFails => ~Exists(f))

JobOK ==
    /\ job.pc \in {"idle", "look", "file", "row", "known", "sweep"}
    /\ Expiring => job.todo \in Seq(Uploads) /\ \A u \in ToSet(job.todo) : Due(u)
    /\ job.pc \in {"file", "row"} => job.todo # <<>>
    /\ job.pc = "row" => Head(job.todo) \notin disk
    /\ job.pc = "known" => /\ job.entries \subseteq Uploads \cup {Archive}
                           /\ \A f \in job.entries \ {Archive} : request[f].pc # "none"
    /\ job.pc = "sweep" => /\ job.todo \in Seq(Uploads \cup {Archive})
                           /\ \A f \in ToSet(job.todo) : Orphan(f)

(* Where checkouts and expiry passes do not overlap, nobody comes to own a row
   between the look and the release. *)
Apart ==
    ~Overlapping => /\ Expiring => ~InCheckout
                    /\ job.pc = "file" => Owners(Head(job.todo)) = {}

UploadsInv ==
    /\ ShopOK /\ \A u \in Uploads : UploadOK(u)
    /\ JobOK /\ Apart /\ QuotaHolds
    /\ ~QueryFails => RecordedHasFile
-----------------------------------------------------------------------------
(* The bytes of a set of uploads, as the loop that adds them up. *)
Size(i, us) == IF i \in us THEN Files[i].kept ELSE 0
Sums(f, us) ==
    /\ f \in [0 .. Len(Files) -> Nat] /\ f[0] = 0 /\ f[Len(Files)] = Bytes(us)
    /\ \A i \in 1 .. Len(Files) : f[i] = f[i - 1] + Size(i, us)

LEMMA SumOf == ASSUME NEW us PROVE \E f : Sums(f, us)
<1> DEFINE n == Len(Files)
           Step(i, m) == IF i \in us THEN m + Files[i].kept ELSE m
           step == [i \in 1 .. n |-> [m \in Nat |-> Step(i, m)]]
<1>1. n \in Nat /\ \A i \in 1 .. n : Files[i].kept \in Nat
  BY UploadsAssumption
<1> HIDE DEF n
<1>2. \A i \in 1 .. n : \A m \in Nat : Step(i, m) \in Nat
  BY <1>1
<1>3. step \in [1 .. n -> [Nat -> Nat]]
  BY <1>2
<1>4. PICK f : Solves(f, n, Nat, 0, step)
  <2> HIDE DEF step
  <2> QED BY <1>1, <1>3, Recursion
<1>5. f \in [0 .. n -> Nat] /\ f[0] = 0 /\ \A i \in 1 .. n : f[i] = Step(i, f[i - 1])
  <2>1. f \in [0 .. n -> Nat] /\ f[0] = 0 /\ \A i \in 1 .. n : f[i] = step[i][f[i - 1]]
    <3> HIDE DEF step
    <3> QED BY <1>4 DEF Solves
  <2>2. \A i \in 1 .. n : f[i - 1] \in Nat
    BY <1>1, <2>1
  <2> QED BY <2>1, <2>2
<1> HIDE DEF step
<1>6. f = [i \in 0 .. n |-> IF i = 0 THEN 0 ELSE Step(i, f[i - 1])]
  BY <1>1, <1>5
<1> DEFINE sum[i \in 0 .. n] ==
              IF i = 0 THEN 0 ELSE IF i \in us THEN sum[i - 1] + Files[i].kept ELSE sum[i - 1]
<1>7. sum = [i \in 0 .. n |-> IF i = 0 THEN 0 ELSE Step(i, sum[i - 1])]
  BY <1>6, Zenon DEF Step
<1>8. Bytes(us) = sum[n]
  BY Zenon DEF Bytes, n
<1> HIDE DEF sum
<1>9. \A i \in 0 .. n : sum[i] = IF i = 0 THEN 0 ELSE Step(i, sum[i - 1])
  BY <1>7
<1> DEFINE T == {k \in Nat : k <= n => sum[k] = f[k]}
<1>10. 0 \in T
  BY <1>1, <1>5, <1>9
<1>11. ASSUME NEW k \in Nat, k \in T PROVE k + 1 \in T
  BY <1>1, <1>5, <1>9, <1>11
<1>12. n \in T
  <2> HIDE DEF T
  <2> QED BY <1>1, <1>10, <1>11, Induction
<1>13. sum[n] = f[n]
  BY <1>12
<1>14. \A i \in 1 .. n : f[i] = f[i - 1] + Size(i, us)
  <2> SUFFICES ASSUME NEW i \in 1 .. n PROVE f[i] = f[i - 1] + Size(i, us)
    OBVIOUS
  <2>1. i - 1 \in 0 .. n
    BY <1>1
  <2> QED BY <1>1, <1>5, <2>1 DEF Size
<1> QED BY <1>5, <1>8, <1>13, <1>14 DEF Sums, n

LEMMA BytesGrow ==
  ASSUME NEW us, NEW more, us \subseteq more
  PROVE  Bytes(us) \in Nat /\ Bytes(more) \in Nat /\ Bytes(us) <= Bytes(more)
<1>1. PICK f : Sums(f, us)
  BY SumOf
<1>2. PICK g : Sums(g, more)
  BY SumOf
<1> DEFINE n == Len(Files)
           T == {k \in Nat : k <= n => f[k] <= g[k]}
<1>3. n \in Nat /\ \A i \in 1 .. n : Files[i].kept \in Nat
  BY UploadsAssumption
<1>4. 0 \in T
  BY <1>1, <1>2 DEF Sums
<1>5. ASSUME NEW k \in Nat, k \in T PROVE k + 1 \in T
  <2> SUFFICES ASSUME k + 1 <= n PROVE f[k + 1] <= g[k + 1]
    OBVIOUS
  <2>1. k + 1 \in 1 .. n /\ f[k] \in Nat /\ g[k] \in Nat /\ f[k] <= g[k]
    BY <1>1, <1>2, <1>3, <1>5 DEF Sums
  <2>2. f[k + 1] = f[k] + Size(k + 1, us) /\ g[k + 1] = g[k] + Size(k + 1, more)
    BY <1>1, <1>2, <2>1 DEF Sums
  <2>3. Size(k + 1, us) <= Size(k + 1, more) /\ Size(k + 1, us) \in Nat /\ Size(k + 1, more) \in Nat
    BY <1>3, <2>1 DEF Size
  <2> QED BY <2>1, <2>2, <2>3
<1>6. n \in T
  <2> HIDE DEF T
  <2> QED BY <1>3, <1>4, <1>5, Induction
<1> QED BY <1>1, <1>2, <1>3, <1>6 DEF Sums

LEMMA BytesOneMore ==
  ASSUME NEW us, NEW u \in Uploads, u \notin us
  PROVE  Bytes(us \cup {u}) = Bytes(us) + Files[u].kept
<1> DEFINE more == us \cup {u}
           n == Len(Files)
<1>1. PICK f : Sums(f, us)
  BY SumOf
<1>2. PICK g : Sums(g, more)
  BY SumOf
<1> DEFINE T == {k \in Nat : k <= n => g[k] = IF k < u THEN f[k] ELSE f[k] + Files[u].kept}
<1>3. n \in Nat /\ u \in 1 .. n /\ \A i \in 1 .. n : Files[i].kept \in Nat
  BY UploadsAssumption
<1>4. 0 \in T
  BY <1>1, <1>2, <1>3 DEF Sums
<1>5. ASSUME NEW k \in Nat, k \in T PROVE k + 1 \in T
  <2> SUFFICES ASSUME k + 1 <= n
               PROVE  g[k + 1] = IF k + 1 < u THEN f[k + 1] ELSE f[k + 1] + Files[u].kept
    OBVIOUS
  <2>0. k + 1 \in 1 .. n /\ k \in 0 .. n /\ g[k] = IF k < u THEN f[k] ELSE f[k] + Files[u].kept
    BY <1>3, <1>5
  <2>1. f[k] \in Nat /\ g[k] \in Nat
    <3> HIDE DEF more, T
    <3> QED BY <1>1, <1>2, <2>0 DEF Sums
  <2>2. f[k + 1] = f[k] + Size(k + 1, us) /\ g[k + 1] = g[k] + Size(k + 1, more)
    <3> HIDE DEF more
    <3> QED BY <1>1, <1>2, <2>0 DEF Sums
  <2>3. Size(k + 1, us) \in Nat /\ Size(k + 1, more) = IF k + 1 = u THEN Files[u].kept ELSE Size(k + 1, us)
    BY <1>3, <2>0 DEF Size
  <2>4. k + 1 = u => Size(k + 1, us) = 0
    BY DEF Size
  <2> HIDE DEF more
  <2> QED BY <1>3, <2>0, <2>1, <2>2, <2>3, <2>4
<1>6. n \in T
  <2> HIDE DEF T
  <2> QED BY <1>3, <1>4, <1>5, Induction
<1>7. ~(n < u) /\ g[n] = f[n] + Files[u].kept
  BY <1>3, <1>6
<1> QED
  <2> HIDE DEF more
  <2>1. Bytes(more) = g[n] /\ Bytes(us) = f[n]
    BY <1>1, <1>2 DEF Sums
  <2> QED BY <1>7, <2>1 DEF more

LEMMA SomeUploads ==
  ASSUME NEW us, us \subseteq Uploads
  PROVE  IsFiniteSet(us) /\ Cardinality(us) \in Nat /\ \A less : less \subseteq us => Cardinality(less) <= Cardinality(us)
<1>1. IsFiniteSet(Uploads)
  BY UploadsAssumption, FS_Interval
<1> QED BY <1>1, FS_Subset, FS_CardinalityType

(* A session's quota. *)
Within(us) == Cardinality(us) <= MaxFiles /\ Bytes(us) <= MaxBytes

LEMMA QuotaIs == QuotaHolds <=> \A key \in Keys : Within(Usage(key))
  BY DEF QuotaHolds, Within, Keys

LEMMA LessIsWithin ==
  ASSUME NEW us, us \subseteq Uploads, NEW less, less \subseteq us, Within(us)
  PROVE  Within(less)
<1>1. Cardinality(us) \in Nat /\ Cardinality(less) \in Nat /\ Cardinality(less) <= Cardinality(us)
  BY SomeUploads
<1>2. Bytes(us) \in Nat /\ Bytes(less) \in Nat /\ Bytes(less) <= Bytes(us)
  BY BytesGrow
<1>3. MaxFiles \in Nat /\ MaxBytes \in Nat
  BY UploadsAssumption
<1> QED BY <1>1, <1>2, <1>3 DEF Within

LEMMA QuotaStays ==
  ASSUME QuotaHolds, \A key \in Keys : Usage(key)' \subseteq Usage(key)
  PROVE  QuotaHolds'
<1> SUFFICES ASSUME NEW key \in Keys PROVE Within(Usage(key)')
  BY DEF QuotaHolds, Within, Keys
<1>1. Usage(key) \subseteq Uploads /\ Within(Usage(key))
  BY QuotaIs DEF Usage
<1> QED BY <1>1, LessIsWithin

LEMMA OneMoreWithin ==
  ASSUME NEW us, us \subseteq Uploads, NEW u \in Uploads, u \notin us,
         Cardinality(us) + 1 <= MaxFiles, Bytes(us) + Files[u].kept <= MaxBytes
  PROVE  Within(us \cup {u})
<1>1. Cardinality(us \cup {u}) = Cardinality(us) + 1
  BY SomeUploads, FS_AddElement
<1> QED BY <1>1, BytesOneMore DEF Within
-----------------------------------------------------------------------------
(* Lists of uploads and of files. *)
LEMMA SeqWithin ==
  ASSUME NEW S, NEW T, NEW q \in Seq(S), ToSet(q) \subseteq T
  PROVE  q \in Seq(T)
<1>1. DOMAIN q = 1 .. Len(q) /\ Len(q) \in Nat /\ q = [i \in 1 .. Len(q) |-> q[i]]
  OBVIOUS
<1>2. \A i \in 1 .. Len(q) : q[i] \in T
  BY <1>1 DEF ToSet
<1> QED BY <1>1, <1>2, Listed

LEMMA FirstPart ==
  ASSUME NEW S, NEW q \in Seq(S), NEW n \in Nat, n <= Len(q)
  PROVE  SubSeq(q, 1, n) \in Seq(S) /\ Len(SubSeq(q, 1, n)) = n
         /\ ToSet(SubSeq(q, 1, n)) \subseteq ToSet(q)
<1> DEFINE front == SubSeq(q, 1, n)
<1>1. Len(q) \in Nat /\ DOMAIN q = 1 .. Len(q)
  OBVIOUS
<1>2. 1 \in 1 .. Len(q) + 1 /\ n \in 1 - 1 .. Len(q)
  BY <1>1
<1>3. front \in Seq(S) /\ Len(front) = n - 1 + 1 /\ \A k \in 1 .. n - 1 + 1 : front[k] = q[1 + k - 1]
  BY <1>2, PartOf
<1>4. DOMAIN front = 1 .. n /\ \A k \in 1 .. n : front[k] = q[k]
  BY <1>3, SeqFacts
<1> QED BY <1>1, <1>3, <1>4 DEF ToSet

LEMMA TailWithin ==
  ASSUME NEW S, NEW q \in Seq(S), q # <<>>
  PROVE  Head(q) \in ToSet(q) /\ Head(q) \in S /\ Tail(q) \in Seq(S) /\ ToSet(Tail(q)) \subseteq ToSet(q)
<1>1. Len(q) \in Nat /\ Len(q) >= 1 /\ DOMAIN q = 1 .. Len(q) /\ Head(q) = q[1]
  OBVIOUS
<1>2. DOMAIN Tail(q) = 1 .. Len(q) - 1 /\ \A i \in 1 .. Len(q) - 1 : Tail(q)[i] = q[i + 1]
  OBVIOUS
<1> QED BY <1>1, <1>2 DEF ToSet

LEMMA FilesInOrder ==
  ASSUME NEW s
  PROVE  /\ First(InOrder(s)) \in Seq(Uploads \cup {Archive})
         /\ ToSet(First(InOrder(s))) \subseteq s \cap (Uploads \cup {Archive})
<1> DEFINE all == [i \in 1 .. Len(Files) + 1 |-> i - 1]
           F == Uploads \cup {Archive}
           q == InOrder(s)
<1>1. Len(Files) + 1 \in Nat /\ \A i \in 1 .. Len(Files) + 1 : i - 1 \in F
  BY UploadsAssumption DEF Archive
<1>2. all \in Seq(F)
  BY <1>1, Listed
<1>3. ToSet(all) \subseteq F
  BY <1>1 DEF ToSet
<1>4. q = Only(all, s)
  BY DEF InOrder
<1>5. q \in Seq(F) /\ ToSet(q) \subseteq s \cap F
  <2> HIDE DEF all, F, q
  <2> QED BY <1>2, <1>3, <1>4, OnlyFacts
<1> HIDE DEF all, F, q
<1> DEFINE n == IF Len(q) < Batch THEN Len(q) ELSE Batch
<1>6. n \in Nat /\ n <= Len(q) /\ First(q) = SubSeq(q, 1, n)
  BY <1>5, UploadsAssumption DEF First
<1> HIDE DEF n
<1>7. First(q) \in Seq(F) /\ ToSet(First(q)) \subseteq s \cap F
  BY <1>5, <1>6, FirstPart
<1> QED BY <1>7 DEF q, F
-----------------------------------------------------------------------------
(* What a step leaves alone. *)
JobHolds ==
    /\ UNCHANGED job
    /\ \A u \in Uploads : Due(u) => Due(u)'
    /\ \A u \in Uploads : request[u].pc # "none" => request'[u].pc # "none"
    /\ \A f \in Uploads : Orphan(f) => Orphan(f)'
    /\ job.pc = "row" => (Head(job.todo) \in disk' => Head(job.todo) \in disk)

LEMMA JobStays == ASSUME JobOK, JobHolds PROVE JobOK'
<1>1. ASSUME Expiring PROVE Expiring' /\ job'.todo \in Seq(Uploads) /\ \A u \in ToSet(job'.todo) : Due(u)'
  <2>1. ToSet(job.todo) \subseteq Uploads
    BY <1>1 DEF JobOK, ToSet
  <2> QED BY <1>1, <2>1 DEF JobOK, JobHolds, Expiring
<1>2. job'.pc = "sweep" => job'.todo \in Seq(Uploads \cup {Archive}) /\ \A f \in ToSet(job'.todo) : Orphan(f)'
  <2> SUFFICES ASSUME job.pc = "sweep" PROVE \A f \in ToSet(job.todo) : Orphan(f)'
    BY DEF JobOK, JobHolds
  <2>1. ToSet(job.todo) \subseteq Uploads \cup {Archive}
    BY DEF JobOK, ToSet
  <2>2. Orphan(Archive)'
    BY DEF Orphan
  <2> QED BY <2>1, <2>2 DEF JobOK, JobHolds
<1>3. Expiring' <=> Expiring
  BY DEF Expiring, JobHolds
<1>4. job'.pc = "known" => /\ job'.entries \subseteq Uploads \cup {Archive}
                           /\ \A f \in job'.entries \ {Archive} : request'[f].pc # "none"
  BY DEF JobOK, JobHolds
<1>5. /\ job'.pc \in {"idle", "look", "file", "row", "known", "sweep"}
      /\ job'.pc \in {"file", "row"} => job'.todo # <<>>
      /\ job'.pc = "row" => Head(job'.todo) \notin disk'
  BY DEF JobOK, JobHolds
<1> QED BY <1>1, <1>2, <1>3, <1>4, <1>5 DEF JobOK

LEMMA ApartStays ==
  ASSUME Apart, UNCHANGED job, InCheckout' => InCheckout, \A u : Owners(u)' \subseteq Owners(u)
  PROVE  Apart'
  BY DEF Apart, Expiring

LEMMA TakenStays ==
  ASSUME NEW u, cart' \subseteq cart, \A o \in Orders : orders'[o].tokens = orders[o].tokens
  PROVE  Taken(u)' => Taken(u)
  BY DEF Taken

LEMMA NoRowIs == NoRow \in RowTypes /\ NoRow.owner = 0 /\ ~NoRow.expired
  BY DEF NoRow, RowTypes

LEMMA ClaimedIs ==
  ASSUME ShopOK, NEW u \in Uploads, UploadOK(u), NEW o \in Orders
  PROVE  LET r == Claimed(u, o) IN
         /\ r \in RowTypes /\ r.session = rows[u].session
         /\ (r = NoRow <=> rows[u] = NoRow)
         /\ r.owner # 0 => ~r.expired
         /\ rows[u].owner # 0 => r = rows[u]
         /\ r.owner = 0 => r = rows[u]
<1>1. rows[u] \in RowTypes
  BY DEF ShopOK
<1>2. o # 0
  BY UploadsAssumption
<1> QED BY <1>1, <1>2 DEF Claimed, Unclaimed, Exists, NoRow, RowTypes, UploadOK

LEMMA ReceiveKeeps == ASSUME UploadsInv, NEW u \in Uploads, Receive(u) PROVE UploadsInv'
<1> USE DEF UploadsInv
<1>1. request[u].pc = "none" /\ u \notin disk /\ rows[u] = NoRow /\ ~Taken(u)
  BY DEF Receive, UploadOK
<1>2. /\ request'[u] = [pc |-> "create", session |-> session]
      /\ \A v \in Uploads \ {u} : request'[v] = request[v]
      /\ \A v : v # u => (v \in disk' <=> v \in disk) /\ (v \in young => v \in young')
      /\ u \in young' /\ UNCHANGED <<rows, session, cart, orders, job, troubles>>
  BY DEF Receive, ShopOK
<1>3. ShopOK'
  BY <1>2 DEF Receive, ShopOK
<1>4. ASSUME NEW v \in Uploads PROVE UploadOK(v)'
  BY <1>1, <1>2 DEF UploadOK, Taken, Exists, ShopOK
<1>5. JobOK'
  <2>1. job.pc = "row" => Head(job.todo) \in Uploads /\ request[Head(job.todo)].pc = "done"
    BY TailWithin DEF JobOK, Expiring, Due
  <2>2. JobHolds
    BY <1>1, <1>2, <2>1 DEF JobHolds, Due, Orphan, Exists
  <2> QED BY <2>2, JobStays
<1>6. Apart'
  BY <1>2, ApartStays DEF InCheckout, Owners, Refers
<1>7. QuotaHolds'
  BY <1>2, QuotaStays DEF Usage, Unclaimed, Exists
<1>8. ~QueryFails => RecordedHasFile'
  BY <1>2 DEF RecordedHasFile, Exists, Receive
<1> QED BY <1>3, <1>4, <1>5, <1>6, <1>7, <1>8

LEMMA CreateKeeps == ASSUME UploadsInv, NEW u \in Uploads, Create(u) PROVE UploadsInv'
<1> USE DEF UploadsInv
<1> DEFINE key == request[u].session
<1>1. request[u].pc = "create" /\ key \in Keys /\ u \in young /\ u \in disk /\ rows[u] = NoRow /\ ~Taken(u)
  BY DEF Create, UploadOK, ShopOK
<1>2. /\ request'[u].pc = "done" /\ \A v \in Uploads \ {u} : request'[v] = request[v]
      /\ UNCHANGED <<session, cart, orders, job, troubles>>
      /\ \A v : v # u => (v \in disk' <=> v \in disk) /\ (v \in young <=> v \in young')
      /\ \A v \in Uploads \ {u} : rows'[v] = rows[v]
      /\ rows' \in [Uploads -> RowTypes] /\ rows'[u].owner = 0 /\ ~rows'[u].expired
      /\ young' \subseteq disk' /\ disk' \subseteq disk
      /\ u \notin disk' => rows'[u] = NoRow
  <2>1. /\ request'[u].pc = "done" /\ \A v \in Uploads \ {u} : request'[v] = request[v]
        /\ UNCHANGED <<session, cart, orders, job, troubles>>
    BY DEF Create, ShopOK
  <2>2. CASE Inserted(u, key)
    <3> DEFINE row == [session |-> key, owner |-> 0, expired |-> FALSE]
    <3>1. row \in RowTypes /\ row.owner = 0 /\ ~row.expired
      BY <1>1 DEF RowTypes
    <3>2. rows' = [rows EXCEPT ![u] = row] /\ UNCHANGED <<disk, young>>
      BY <2>2 DEF Create
    <3> HIDE DEF row
    <3>3. /\ \A v \in Uploads \ {u} : rows'[v] = rows[v]
          /\ rows' \in [Uploads -> RowTypes] /\ rows'[u] = row
      BY <3>1, <3>2 DEF ShopOK
    <3> QED BY <1>1, <2>1, <3>1, <3>2, <3>3 DEF ShopOK
  <2>3. CASE ~Inserted(u, key)
    <3>1. UNCHANGED rows /\ disk' = disk \ {u} /\ young' = young \ {u}
      BY <2>3 DEF Create
    <3> QED BY <1>1, <2>1, <3>1, NoRowIs DEF ShopOK
  <2> QED BY <2>2, <2>3
<1>3. ShopOK'
  BY <1>2 DEF Create, ShopOK
<1>4. ASSUME NEW v \in Uploads PROVE UploadOK(v)'
  <2>1. CASE v = u
    BY <1>1, <1>2, <2>1 DEF UploadOK, Taken
  <2>2. CASE v # u
    BY <1>2, <2>2 DEF UploadOK, Taken, Exists
  <2> QED BY <2>1, <2>2
<1>5. JobOK'
  <2>1. job.pc = "row" => Head(job.todo) \in Uploads /\ request[Head(job.todo)].pc = "done"
    BY TailWithin DEF JobOK, Expiring, Due
  <2>2. JobHolds
    BY <1>1, <1>2, <2>1 DEF JobHolds, Due, Orphan, Exists
  <2> QED BY <2>2, JobStays
<1>6. Apart'
  BY <1>2, ApartStays DEF InCheckout, Owners, Refers
<1>7. QuotaHolds'
  <2> SUFFICES ASSUME NEW k \in Keys PROVE Within(Usage(k)')
    BY DEF QuotaHolds, Within, Keys
  <2>1. Usage(k) \subseteq Uploads /\ Within(Usage(k)) /\ u \notin Usage(k)
    BY <1>1, QuotaIs DEF Usage, Unclaimed, Exists
  <2>2. CASE Usage(k)' = Usage(k)
    BY <2>1, <2>2
  <2>3. CASE Usage(k)' # Usage(k)
    <3>1. Usage(k)' = Usage(k) \cup {u} /\ Inserted(u, key) /\ k = key
      BY <1>1, <1>2, <2>1, <2>3 DEF Create, Usage, Unclaimed, Exists, ShopOK
    <3>2. Cardinality(Usage(k)) + 1 <= MaxFiles /\ Bytes(Usage(k)) + Files[u].kept <= MaxBytes
      BY <3>1 DEF Inserted, Fits
    <3> QED BY <2>1, <3>1, <3>2, OneMoreWithin
  <2> QED BY <2>2, <2>3
<1>8. ~QueryFails => RecordedHasFile'
  BY <1>1, <1>2 DEF RecordedHasFile, Exists
<1> QED BY <1>3, <1>4, <1>5, <1>6, <1>7, <1>8

LEMMA DiesKeeps == ASSUME UploadsInv, NEW u \in Uploads, UploadDies(u) PROVE UploadsInv'
<1> USE DEF UploadsInv
<1>1. request[u].pc = "create" /\ rows[u] = NoRow /\ ~Taken(u)
  BY DEF UploadDies, UploadOK
<1>2. /\ request'[u].pc = "done" /\ \A v \in Uploads \ {u} : request'[v] = request[v]
      /\ UNCHANGED <<rows, disk, young, session, cart, orders, job>>
  BY DEF UploadDies, ShopOK
<1>3. ShopOK'
  <2>1. troubles' \in 0 .. MaxTroubles
    BY UploadsAssumption DEF ShopOK, UploadDies, Trouble
  <2> QED BY <1>2, <2>1 DEF UploadDies, ShopOK
<1>4. ASSUME NEW v \in Uploads PROVE UploadOK(v)'
  <2>1. CASE v = u
    BY <1>1, <1>2, <2>1, NoRowIs DEF UploadOK, Taken
  <2>2. CASE v # u
    BY <1>2, <2>2 DEF UploadOK, Taken, Exists
  <2> QED BY <2>1, <2>2
<1>5. JobOK'
  <2>1. JobHolds
    BY <1>1, <1>2 DEF JobHolds, Due, Orphan, Exists
  <2> QED BY <2>1, JobStays
<1>6. Apart'
  BY <1>2, ApartStays DEF InCheckout, Owners, Refers
<1>7. QuotaHolds'
  BY <1>2, QuotaStays DEF Usage, Unclaimed, Exists
<1>8. ~QueryFails => RecordedHasFile'
  BY <1>2 DEF RecordedHasFile, Exists
<1> QED BY <1>3, <1>4, <1>5, <1>6, <1>7, <1>8

LEMMA CartKeeps == ASSUME UploadsInv, NEW u \in Uploads, AddToCart(u) PROVE UploadsInv'
<1> USE DEF UploadsInv
<1>1. Exists(u) /\ request[u].pc = "done"
  BY DEF AddToCart, Usable, Unclaimed, Exists, UploadOK
<1>2. cart' = cart \cup {u} /\ UNCHANGED <<request, rows, disk, young, session, orders, job, troubles>>
  BY DEF AddToCart
<1>3. ShopOK'
  BY <1>2 DEF ShopOK
<1>4. ASSUME NEW v \in Uploads PROVE UploadOK(v)'
  BY <1>1, <1>2 DEF UploadOK, Taken, Exists
<1>5. JobOK'
  BY <1>2, JobStays DEF JobHolds, Due, Orphan, Exists
<1>6. Apart'
  BY <1>2, ApartStays DEF InCheckout, Owners, Refers
<1>7. QuotaHolds'
  BY <1>2, QuotaStays DEF Usage, Unclaimed, Exists
<1>8. ~QueryFails => RecordedHasFile'
  BY <1>2 DEF RecordedHasFile, Exists
<1> QED BY <1>3, <1>4, <1>5, <1>6, <1>7, <1>8

LEMMA LogInKeeps == ASSUME UploadsInv, LogIn PROVE UploadsInv'
<1> USE DEF UploadsInv
<1>1. session' \in Keys /\ UNCHANGED <<request, rows, disk, young, cart, orders, job, troubles>>
  BY DEF LogIn, Keys
<1>2. ShopOK'
  BY <1>1 DEF ShopOK
<1>3. ASSUME NEW v \in Uploads PROVE UploadOK(v)'
  BY <1>1 DEF UploadOK, Taken, Exists
<1>4. JobOK'
  BY <1>1, JobStays DEF JobHolds, Due, Orphan, Exists
<1>5. Apart'
  BY <1>1, ApartStays DEF InCheckout, Owners, Refers
<1>6. QuotaHolds'
  BY <1>1, QuotaStays DEF Usage, Unclaimed, Exists
<1>7. ~QueryFails => RecordedHasFile'
  BY <1>1 DEF RecordedHasFile, Exists
<1> QED BY <1>2, <1>3, <1>4, <1>5, <1>6, <1>7

(* The orders change, and the rows do not. *)
LEMMA OrdersMove ==
  ASSUME UploadsInv, orders' \in [Orders -> OrderTypes], cart' \subseteq cart,
         \A v \in Uploads : Taken(v)' => Taken(v),
         UNCHANGED <<request, rows, disk, young, session, job, troubles>>, Apart'
  PROVE  UploadsInv'
<1> USE DEF UploadsInv
<1>1. ShopOK'
  BY DEF ShopOK
<1>2. ASSUME NEW v \in Uploads PROVE UploadOK(v)'
  BY DEF UploadOK, Exists
<1>3. JobOK'
  BY JobStays DEF JobHolds, Due, Orphan, Exists
<1>4. QuotaHolds'
  BY QuotaStays DEF Usage, Unclaimed, Exists
<1>5. ~QueryFails => RecordedHasFile'
  BY DEF RecordedHasFile, Exists
<1> QED BY <1>1, <1>2, <1>3, <1>4, <1>5

LEMMA StartKeeps == ASSUME UploadsInv, NEW o \in Orders, CheckoutStart(o) PROVE UploadsInv'
<1> USE DEF UploadsInv
<1> DEFINE new == [state |-> "creating", tokens |-> cart, todo |-> cart]
<1>1. /\ orders' = [orders EXCEPT ![o] = new]
      /\ UNCHANGED <<request, rows, disk, young, session, cart, job, troubles>>
      /\ Overlapping \/ ~Expiring
  BY DEF CheckoutStart
<1>2. new \in OrderTypes /\ new.tokens = cart
  BY DEF ShopOK, OrderTypes
<1> HIDE DEF new
<1>3. orders' \in [Orders -> OrderTypes]
  BY <1>1, <1>2 DEF ShopOK
<1>4. \A v \in Uploads : Taken(v)' => Taken(v)
  BY <1>1, <1>2 DEF Taken, ShopOK
<1>5. Apart'
  BY <1>1 DEF Apart, Expiring
<1> QED BY <1>1, <1>3, <1>4, <1>5, OrdersMove

LEMMA SavedKeeps == ASSUME UploadsInv, NEW o \in Orders, OrderSaved(o) PROVE UploadsInv'
<1> USE DEF UploadsInv
<1>1. /\ orders' = [orders EXCEPT ![o].state = "placed"] /\ orders[o].state = "creating"
      /\ UNCHANGED <<request, rows, disk, young, session, job, troubles>> /\ cart' \subseteq cart
  BY DEF OrderSaved
<1>2. /\ orders' \in [Orders -> OrderTypes]
      /\ \A p \in Orders : orders'[p].tokens = orders[p].tokens
  BY <1>1 DEF ShopOK, OrderTypes
<1>3. \A v \in Uploads : Taken(v)' => Taken(v)
  BY <1>1, <1>2, TakenStays
<1>4. InCheckout
  BY <1>1 DEF InCheckout
<1>5. Apart'
  BY <1>1, <1>4 DEF Apart, Expiring
<1> QED BY <1>1, <1>2, <1>3, <1>5, OrdersMove

(* A row is claimed for an order, or its claim fails. *)
Claims(u, o) == rows' \in {rows, [rows EXCEPT ![u] = Claimed(u, o)]}

LEMMA ClaimMoves ==
  ASSUME UploadsInv, NEW u \in Uploads, NEW o \in Orders, Claims(u, o)
  PROVE  /\ rows' \in [Uploads -> RowTypes]
         /\ \A v \in Uploads : /\ rows'[v].session = rows[v].session
                               /\ (rows'[v] = NoRow <=> rows[v] = NoRow)
                               /\ rows'[v].owner # 0 => ~rows'[v].expired
                               /\ rows'[v].owner = 0 => rows'[v] = rows[v]
                               /\ rows[v].owner # 0 => rows'[v] = rows[v]
<1> USE DEF UploadsInv
<1> DEFINE r == Claimed(u, o)
<1>1. /\ r \in RowTypes /\ r.session = rows[u].session /\ (r = NoRow <=> rows[u] = NoRow)
      /\ r.owner # 0 => ~r.expired
      /\ rows[u].owner # 0 => r = rows[u]
      /\ r.owner = 0 => r = rows[u]
  BY ClaimedIs
<1> HIDE DEF r
<1>2. rows' = rows \/ rows' = [rows EXCEPT ![u] = r]
  BY DEF Claims, r
<1>3. rows \in [Uploads -> RowTypes]
  BY DEF ShopOK
<1>4. CASE rows' = rows
  BY <1>3, <1>4 DEF UploadOK
<1>5. CASE rows' = [rows EXCEPT ![u] = r]
  <2>1. rows'[u] = r /\ \A v \in Uploads \ {u} : rows'[v] = rows[v]
    BY <1>3, <1>5
  <2>2. rows' \in [Uploads -> RowTypes]
    BY <1>1, <1>3, <1>5
  <2> QED BY <1>1, <2>1, <2>2 DEF UploadOK
<1> QED BY <1>2, <1>4, <1>5

LEMMA ClaimKeeps ==
  ASSUME UploadsInv, NEW u \in Uploads, NEW o \in Orders, Claims(u, o),
         UNCHANGED <<request, disk, young, session, cart>>,
         orders' \in [Orders -> OrderTypes], troubles' \in 0 .. MaxTroubles,
         \A v \in Uploads : Taken(v)' => Taken(v), JobOK', Apart'
  PROVE  UploadsInv'
<1> USE DEF UploadsInv
<1>1. ShopOK'
  BY ClaimMoves DEF ShopOK
<1>2. ASSUME NEW v \in Uploads PROVE UploadOK(v)'
  BY ClaimMoves DEF UploadOK, Exists
<1>3. QuotaHolds'
  BY ClaimMoves, QuotaStays DEF Usage, Unclaimed, Exists
<1>4. ~QueryFails => RecordedHasFile'
  BY ClaimMoves DEF RecordedHasFile, Exists
<1> QED BY <1>1, <1>2, <1>3, <1>4

LEMMA TroubleIs == ASSUME ShopOK, Trouble \/ UNCHANGED troubles PROVE troubles' \in 0 .. MaxTroubles
  BY UploadsAssumption DEF ShopOK, Trouble

LEMMA PromoteKeeps ==
  ASSUME UploadsInv, NEW o \in Orders, NEW u \in Uploads, Promote(o, u)
  PROVE  UploadsInv'
<1> USE DEF UploadsInv
<1>1. /\ orders' = [orders EXCEPT ![o].todo = @ \ {u}]
      /\ UNCHANGED <<request, disk, young, session, cart, job>>
      /\ Claims(u, o) /\ troubles' \in 0 .. MaxTroubles
  BY TroubleIs DEF Promote, Claims
<1>2. /\ orders' \in [Orders -> OrderTypes]
      /\ \A p \in Orders : orders'[p].tokens = orders[p].tokens /\ orders'[p].state = orders[p].state
  BY <1>1 DEF ShopOK, OrderTypes
<1>3. \A v \in Uploads : Taken(v)' => Taken(v)
  BY <1>1, <1>2, TakenStays
<1>4. JobOK'
  <2>1. JobHolds
    BY <1>1, ClaimMoves DEF JobHolds, Due, Orphan, Exists
  <2> QED BY <2>1, JobStays
<1>5. Apart'
  <2>1. (InCheckout' => InCheckout) /\ \A v : Owners(v)' \subseteq Owners(v)
    BY <1>2 DEF InCheckout, Owners, Refers
  <2> QED BY <1>1, <2>1, ApartStays
<1> QED BY <1>1, <1>2, <1>3, <1>4, <1>5, ClaimKeeps

LEMMA DeleteKeeps == ASSUME UploadsInv, NEW o \in Orders, DeleteOrder(o) PROVE UploadsInv'
<1> USE DEF UploadsInv
<1>1. PICK us : us = {u \in orders[o].tokens : BelongsTo(u, o)}
  OBVIOUS
<1>2. us \subseteq Uploads /\ \A u \in us : Exists(u) /\ request[u].pc = "done"
  <2>1. orders[o].tokens \subseteq Uploads
    BY DEF ShopOK, OrderTypes
  <2> QED BY <1>1, <2>1 DEF BelongsTo, UploadOK, Exists
<1>3. /\ rows' = [u \in Uploads |-> IF u \in us THEN NoRow ELSE rows[u]]
      /\ disk' = disk \ us /\ young' = young \ us
      /\ orders' = [orders EXCEPT ![o].state = "deleted"]
      /\ UNCHANGED <<request, session, cart, job, troubles>>
  BY <1>1 DEF DeleteOrder, Delete
<1>4. /\ orders' \in [Orders -> OrderTypes]
      /\ \A p \in Orders : /\ orders'[p].tokens = orders[p].tokens
                           /\ orders'[p].state = IF p = o THEN "deleted" ELSE orders[p].state
  BY <1>3 DEF ShopOK, OrderTypes
<1>5. \A v \in Uploads : Taken(v)' => Taken(v)
  BY <1>3, <1>4, TakenStays
<1>6. /\ \A v \in Uploads : rows'[v] = IF v \in us THEN NoRow ELSE rows[v]
      /\ rows' \in [Uploads -> RowTypes]
  BY <1>3, NoRowIs DEF ShopOK
<1>7. ShopOK'
  BY <1>3, <1>4, <1>6 DEF ShopOK
<1>8. ASSUME NEW v \in Uploads PROVE UploadOK(v)'
  BY <1>2, <1>3, <1>5, <1>6, NoRowIs DEF UploadOK, Exists
<1>9. JobOK'
  <2>1. JobHolds
    BY <1>3, <1>6 DEF JobHolds, Due, Orphan, Exists
  <2> QED BY <2>1, JobStays
<1>10. Apart'
  <2>1. (InCheckout' => InCheckout) /\ \A v : Owners(v)' \subseteq Owners(v)
    BY <1>4 DEF InCheckout, Owners, Refers
  <2> QED BY <1>3, <2>1, ApartStays
<1>11. QuotaHolds'
  BY <1>6, QuotaStays DEF Usage, Unclaimed, Exists
<1>12. ~QueryFails => RecordedHasFile'
  BY <1>3, <1>6 DEF RecordedHasFile, Exists
<1> QED BY <1>7, <1>8, <1>9, <1>10, <1>11, <1>12

(* The directory changes, and neither the rows nor the orders do. *)
LEMMA DiskMoves ==
  ASSUME UploadsInv, UNCHANGED <<request, rows, session, cart, orders>>,
         young' \subseteq disk', disk' \subseteq Uploads \cup {Archive}, troubles' \in 0 .. MaxTroubles,
         \A v \in Uploads : v \in disk' => v \in disk,
         \A v \in Uploads : request[v].pc = "create" /\ v \in young => v \in young',
         ~QueryFails => \A v \in Uploads : Exists(v) /\ ~rows[v].expired /\ rows[v].owner = 0 /\ v \in disk => v \in disk',
         JobOK', Apart'
  PROVE  UploadsInv'
<1> USE DEF UploadsInv
<1>1. ShopOK'
  BY DEF ShopOK
<1>2. ASSUME NEW v \in Uploads PROVE UploadOK(v)'
  BY DEF UploadOK, Taken, Exists
<1>3. QuotaHolds'
  BY QuotaStays DEF Usage, Unclaimed, Exists
<1>4. ~QueryFails => RecordedHasFile'
  BY DEF RecordedHasFile, Exists
<1> QED BY <1>1, <1>2, <1>3, <1>4

LEMMA ArchiveIsNone == Archive \notin Uploads
  BY UploadsAssumption DEF Archive

LEMMA DownloadKeeps == ASSUME UploadsInv, NEW o \in Orders, DownloadDies(o) PROVE UploadsInv'
<1> USE DEF UploadsInv
<1>1. /\ disk' = disk \cup {Archive} /\ young' = young \cup {Archive}
      /\ UNCHANGED <<request, rows, session, cart, orders, job>> /\ troubles' \in 0 .. MaxTroubles
  BY TroubleIs DEF DownloadDies
<1>2. JobOK'
  <2>1. job.pc = "row" => Head(job.todo) \in Uploads
    BY TailWithin DEF JobOK, Expiring
  <2>2. JobHolds
    BY <1>1, <2>1, ArchiveIsNone DEF JobHolds, Due, Orphan, Exists
  <2> QED BY <2>2, JobStays
<1>3. Apart'
  BY <1>1, ApartStays DEF InCheckout, Owners, Refers
<1>4. young' \subseteq disk' /\ disk' \subseteq Uploads \cup {Archive} /\ young \subseteq young'
  BY <1>1 DEF ShopOK
<1> QED BY <1>1, <1>2, <1>3, <1>4, ArchiveIsNone, DiskMoves

LEMMA AgesKeeps == ASSUME UploadsInv, NEW f \in Uploads \cup {Archive}, Ages(f) PROVE UploadsInv'
<1> USE DEF UploadsInv
<1>1. /\ young' = young \ {f} /\ ~Held(f) /\ UNCHANGED <<request, rows, disk, session, cart, orders, job, troubles>>
  BY DEF Ages
<1>2. JobOK'
  BY <1>1, JobStays DEF JobHolds, Due, Orphan, Exists
<1>3. Apart'
  BY <1>1, ApartStays DEF InCheckout, Owners, Refers
<1>4. young' \subseteq disk' /\ disk' \subseteq Uploads \cup {Archive} /\ troubles' \in 0 .. MaxTroubles
  BY <1>1 DEF ShopOK
<1>5. \A v \in Uploads : request[v].pc = "create" /\ v \in young => v \in young'
  BY <1>1, ArchiveIsNone DEF Held
<1> QED BY <1>1, <1>2, <1>3, <1>4, <1>5, DiskMoves

LEMMA DeadlineKeeps == ASSUME UploadsInv, NEW u \in Uploads, Deadline(u) PROVE UploadsInv'
<1> USE DEF UploadsInv
<1>1. /\ Unclaimed(u) /\ rows' = [rows EXCEPT ![u].expired = TRUE]
      /\ UNCHANGED <<request, disk, young, session, cart, orders, job, troubles>>
  BY DEF Deadline
<1>2. /\ rows' \in [Uploads -> RowTypes]
      /\ \A v \in Uploads \ {u} : rows'[v] = rows[v]
      /\ rows'[u].session = rows[u].session /\ rows'[u].owner = 0 /\ rows'[u].expired
      /\ rows[u] # NoRow /\ rows'[u] # NoRow /\ rows[u].owner = 0
  BY <1>1 DEF ShopOK, RowTypes, Unclaimed, Exists, NoRow
<1>3. ShopOK'
  BY <1>1, <1>2 DEF ShopOK
<1>4. ASSUME NEW v \in Uploads PROVE UploadOK(v)'
  <2>1. CASE v = u
    BY <1>1, <1>2, <2>1 DEF UploadOK, Taken, Exists
  <2>2. CASE v # u
    BY <1>1, <1>2, <2>2 DEF UploadOK, Taken, Exists
  <2> QED BY <2>1, <2>2
<1>5. JobOK'
  <2>1. JobHolds
    BY <1>1, <1>2 DEF JobHolds, Due, Orphan, Exists
  <2> QED BY <2>1, JobStays
<1>6. Apart'
  BY <1>1, ApartStays DEF InCheckout, Owners, Refers
<1>7. QuotaHolds'
  BY <1>2, QuotaStays DEF Usage, Unclaimed, Exists
<1>8. ~QueryFails => RecordedHasFile'
  BY <1>1, <1>2 DEF RecordedHasFile, Exists
<1> QED BY <1>3, <1>4, <1>5, <1>6, <1>7, <1>8
-----------------------------------------------------------------------------
(* The hourly run. *)
LEMMA JobStartKeeps == ASSUME UploadsInv, JobStart PROVE UploadsInv'
<1> USE DEF UploadsInv
<1> DEFINE todo == First(InOrder(Expired))
<1>1. todo \in Seq(Uploads \cup {Archive}) /\ ToSet(todo) \subseteq Expired
  BY FilesInOrder
<1>2. Expired \subseteq Uploads /\ \A u \in Expired : Due(u)
  BY DEF Expired, Due, Unclaimed, Exists, UploadOK
<1>3. todo \in Seq(Uploads)
  <2> HIDE DEF todo
  <2> QED BY <1>1, <1>2, SeqWithin
<1>4. /\ job' = [pc |-> "look", todo |-> todo] /\ (Overlapping \/ ~InCheckout)
      /\ UNCHANGED <<request, rows, disk, young, session, cart, orders, troubles>>
  BY DEF JobStart
<1> HIDE DEF todo
<1>5. JobOK'
  BY <1>1, <1>2, <1>3, <1>4 DEF JobOK, Expiring, Due, Exists
<1>6. Apart'
  BY <1>4 DEF Apart, InCheckout, Owners, Refers
<1>7. young' \subseteq disk' /\ disk' \subseteq Uploads \cup {Archive} /\ troubles' \in 0 .. MaxTroubles
  BY <1>4 DEF ShopOK
<1> QED BY <1>4, <1>5, <1>6, <1>7, DiskMoves

LEMMA Taking ==
  ASSUME JobOK, Expiring, job.todo # <<>>
  PROVE  /\ Head(job.todo) \in Uploads /\ Due(Head(job.todo)) /\ Tail(job.todo) \in Seq(Uploads)
         /\ ToSet(Tail(job.todo)) \subseteq ToSet(job.todo) /\ ToSet(job.todo) \subseteq Uploads
<1>1. job.todo \in Seq(Uploads) /\ \A u \in ToSet(job.todo) : Due(u)
  BY DEF JobOK
<1>2. ToSet(job.todo) \subseteq Uploads
  BY <1>1 DEF ToSet
<1> QED BY <1>1, <1>2, TailWithin

LEMMA RepairKeeps == ASSUME UploadsInv, Repair PROVE UploadsInv'
<1> USE DEF UploadsInv
<1>1. PICK o \in Owners(Head(job.todo)) :
         \/ rows' = [rows EXCEPT ![Head(job.todo)] = Claimed(Head(job.todo), o)] /\ UNCHANGED troubles
         \/ Trouble /\ UNCHANGED rows
  BY DEF Repair, Repaired
<1>2. PICK u : u = Head(job.todo)
  OBVIOUS
<1>3. /\ job.pc = "look" /\ Expiring /\ job.todo # <<>>
      /\ job' = [pc |-> "look", todo |-> Tail(job.todo)]
      /\ UNCHANGED <<request, disk, young, session, cart, orders>>
  BY DEF Repair, NextRow, Expiring
<1>4. u \in Uploads /\ o \in Orders /\ Claims(u, o) /\ troubles' \in 0 .. MaxTroubles
  BY <1>1, <1>2, <1>3, Taking, TroubleIs DEF Claims, Owners
<1>5. JobOK'
  <2>1. \A v \in Uploads : Due(v) => Due(v)'
    BY <1>3, <1>4, ClaimMoves DEF Due, Exists
  <2> QED BY <1>3, <2>1, Taking DEF JobOK, Expiring
<1>6. Apart'
  BY <1>3 DEF Apart, Expiring, InCheckout
<1>7. orders' \in [Orders -> OrderTypes] /\ \A v \in Uploads : Taken(v)' => Taken(v)
  BY <1>3 DEF ShopOK, Taken
<1> QED BY <1>3, <1>4, <1>5, <1>6, <1>7, ClaimKeeps

LEMMA LookKeeps == ASSUME UploadsInv, Look PROVE UploadsInv'
<1> USE DEF UploadsInv
<1>1. /\ job.pc = "look" /\ Expiring /\ job.todo # <<>> /\ Owners(Head(job.todo)) = {}
      /\ job' = [job EXCEPT !.pc = "file"]
      /\ UNCHANGED <<request, rows, disk, young, session, cart, orders, troubles>>
  BY DEF Look, Expiring
<1>2. job'.pc = "file" /\ job'.todo = job.todo
  BY <1>1
<1>3. JobOK'
  BY <1>1, <1>2 DEF JobOK, Expiring, Due, Exists
<1>4. Apart'
  BY <1>1, <1>2 DEF Apart, Expiring, InCheckout, Owners, Refers
<1>5. young' \subseteq disk' /\ disk' \subseteq Uploads \cup {Archive} /\ troubles' \in 0 .. MaxTroubles
  BY <1>1 DEF ShopOK
<1> QED BY <1>1, <1>3, <1>4, <1>5, DiskMoves

LEMMA FileKeeps == ASSUME UploadsInv, ReleaseFile PROVE UploadsInv'
<1> USE DEF UploadsInv
<1>1. PICK u : u = Head(job.todo)
  OBVIOUS
<1>2. /\ job.pc = "file" /\ Expiring /\ job.todo # <<>> /\ job' = [job EXCEPT !.pc = "row"]
      /\ disk' = disk \ {u} /\ young' = young \ {u}
      /\ UNCHANGED <<request, rows, session, cart, orders, troubles>>
  BY <1>1 DEF ReleaseFile, Expiring, JobOK
<1>3. u \in Uploads /\ Due(u)
  BY <1>1, <1>2, Taking
<1>4. job'.pc = "row" /\ job'.todo = job.todo
  BY <1>2
<1>5. JobOK'
  BY <1>1, <1>2, <1>4 DEF JobOK, Expiring, Due, Exists
<1>6. Apart'
  BY <1>2, <1>4 DEF Apart, Expiring, InCheckout
<1>7. young' \subseteq disk' /\ disk' \subseteq Uploads \cup {Archive} /\ troubles' \in 0 .. MaxTroubles
  BY <1>2 DEF ShopOK
<1> QED BY <1>2, <1>3, <1>5, <1>6, <1>7, DiskMoves DEF Due

LEMMA RowKeeps == ASSUME UploadsInv, ReleaseRow PROVE UploadsInv'
<1> USE DEF UploadsInv
<1>1. PICK u : u = Head(job.todo)
  OBVIOUS
<1>2. /\ job.pc = "row" /\ Expiring /\ job.todo # <<>> /\ u \notin disk
      /\ job' = [pc |-> "look", todo |-> Tail(job.todo)]
      /\ rows' = [rows EXCEPT ![u] = NoRow]
      /\ UNCHANGED <<request, disk, young, session, cart, orders, troubles>>
  BY <1>1 DEF ReleaseRow, NextRow, Expiring, JobOK
<1>3. u \in Uploads /\ Due(u)
  BY <1>1, <1>2, Taking
<1>4. /\ \A v \in Uploads : rows'[v] = IF v = u THEN NoRow ELSE rows[v]
      /\ rows' \in [Uploads -> RowTypes]
  BY <1>2, NoRowIs DEF ShopOK
<1>5. ShopOK'
  BY <1>2, <1>4 DEF ShopOK
<1>6. ASSUME NEW v \in Uploads PROVE UploadOK(v)'
  BY <1>2, <1>3, <1>4, NoRowIs DEF UploadOK, Taken, Exists, Due
<1>7. JobOK'
  <2>1. \A v \in Uploads : Due(v) => Due(v)'
    BY <1>2, <1>4 DEF Due, Exists
  <2> QED BY <1>2, <2>1, Taking DEF JobOK, Expiring
<1>8. Apart'
  BY <1>2 DEF Apart, Expiring, InCheckout
<1>9. QuotaHolds'
  BY <1>4, QuotaStays DEF Usage, Unclaimed, Exists
<1>10. ~QueryFails => RecordedHasFile'
  BY <1>2, <1>4 DEF RecordedHasFile, Exists
<1> QED BY <1>5, <1>6, <1>7, <1>8, <1>9, <1>10

LEMMA SweepStartKeeps == ASSUME UploadsInv, SweepStart PROVE UploadsInv'
<1> USE DEF UploadsInv
<1>1. /\ job' = [pc |-> "known", entries |-> disk]
      /\ UNCHANGED <<request, rows, disk, young, session, cart, orders, troubles>>
  BY DEF SweepStart
<1>2. young' \subseteq disk' /\ disk' \subseteq Uploads \cup {Archive} /\ troubles' \in 0 .. MaxTroubles
  BY <1>1 DEF ShopOK
<1>3. JobOK'
  BY <1>1, <1>2 DEF JobOK, Expiring, UploadOK
<1>4. Apart'
  BY <1>1 DEF Apart, Expiring
<1> QED BY <1>1, <1>2, <1>3, <1>4, DiskMoves

LEMMA KnownKeeps == ASSUME UploadsInv, KnownNames PROVE UploadsInv'
<1> USE DEF UploadsInv
<1>1. PICK known \in IF QueryFails THEN {Named, {}} ELSE {Named} :
         job' = [pc |-> "sweep", todo |-> First(InOrder({f \in job.entries : Sweepable(f, known)}))]
  BY DEF KnownNames
<1>2. PICK left : left = {f \in job.entries : Sweepable(f, known)}
  OBVIOUS
<1>3. PICK todo : todo = First(InOrder(left))
  OBVIOUS
<1>4. todo \in Seq(Uploads \cup {Archive}) /\ ToSet(todo) \subseteq left \cap (Uploads \cup {Archive})
  BY <1>3, FilesInOrder
<1>5. /\ job' = [pc |-> "sweep", todo |-> todo] /\ job.pc = "known"
      /\ UNCHANGED <<request, rows, disk, young, session, cart, orders, troubles>>
  BY <1>1, <1>2, <1>3 DEF KnownNames
<1>6. \A f \in left : f # Archive => f \in Uploads /\ f \notin young /\ f \notin known /\ request[f].pc # "none"
  BY <1>2, <1>5 DEF JobOK, Sweepable
<1>7. \A f \in left : Orphan(f)
  <2> SUFFICES ASSUME NEW f \in left, f # Archive
               PROVE  request[f].pc = "done" /\ (~QueryFails => ~Exists(f))
    BY DEF Orphan
  <2>1. f \in Uploads /\ request[f].pc = "done"
    BY <1>6 DEF UploadOK
  <2>2. ~QueryFails => known = Named
    OBVIOUS
  <2> QED BY <1>6, <2>1, <2>2 DEF Named
<1>8. JobOK'
  BY <1>4, <1>5, <1>7 DEF JobOK, Expiring, Orphan, Exists
<1>9. Apart'
  BY <1>5 DEF Apart, Expiring
<1>10. young' \subseteq disk' /\ disk' \subseteq Uploads \cup {Archive} /\ troubles' \in 0 .. MaxTroubles
  BY <1>5 DEF ShopOK
<1> QED BY <1>5, <1>8, <1>9, <1>10, DiskMoves

LEMMA IdleIs ==
  ASSUME job' = Idle PROVE JobOK' /\ Apart'
  BY DEF Idle, JobOK, Apart, Expiring

LEMMA SweepKeeps == ASSUME UploadsInv, Sweep PROVE UploadsInv'
<1> USE DEF UploadsInv
<1>1. PICK gone : gone = ToSet(job.todo)
  OBVIOUS
<1>2. /\ job.pc = "sweep" /\ job' = Idle /\ disk' = disk \ gone /\ young' = young \ gone
      /\ UNCHANGED <<request, rows, session, cart, orders, troubles>>
  BY <1>1 DEF Sweep
<1>3. \A f \in gone : Orphan(f)
  BY <1>1, <1>2 DEF JobOK
<1>4. young' \subseteq disk' /\ disk' \subseteq Uploads \cup {Archive} /\ troubles' \in 0 .. MaxTroubles
  BY <1>2 DEF ShopOK
<1>5. \A v \in Uploads : request[v].pc = "create" /\ v \in young => v \in young'
  BY <1>2, <1>3, ArchiveIsNone DEF Orphan
<1>6. ~QueryFails => \A v \in Uploads : Exists(v) /\ v \in disk => v \in disk'
  BY <1>2, <1>3, ArchiveIsNone DEF Orphan
<1> QED BY <1>2, <1>4, <1>5, <1>6, IdleIs, DiskMoves

LEMMA JobDiesKeeps == ASSUME UploadsInv, JobDies PROVE UploadsInv'
<1> USE DEF UploadsInv
<1>1. job' = Idle /\ UNCHANGED <<request, rows, disk, young, session, cart, orders>>
      /\ troubles' \in 0 .. MaxTroubles
  BY TroubleIs DEF JobDies
<1>2. young' \subseteq disk' /\ disk' \subseteq Uploads \cup {Archive}
  BY <1>1 DEF ShopOK
<1> QED BY <1>1, <1>2, IdleIs, DiskMoves

LEMMA UploadsInit == ASSUME Init PROVE UploadsInv
<1>1. ShopOK
  <2>1. NoRow \in RowTypes /\ NoOrder \in OrderTypes
    BY NoRowIs DEF NoOrder, OrderTypes
  <2>2. 0 \in 0 .. MaxTroubles
    BY UploadsAssumption
  <2> QED BY <2>1, <2>2 DEF Init, ShopOK, Keys
<1>2. ASSUME NEW u \in Uploads PROVE UploadOK(u)
  BY NoRowIs DEF Init, UploadOK, Taken, NoOrder
<1>3. JobOK /\ Apart
  BY DEF Init, Idle, JobOK, Apart, Expiring
<1>4. QuotaHolds
  <2> SUFFICES ASSUME NEW key \in Keys PROVE Within(Usage(key))
    BY QuotaIs
  <2>1. Usage(key) = {}
    BY DEF Init, Usage, Unclaimed, Exists
  <2>2. Bytes({}) = 0
    <3>1. PICK f : Sums(f, {})
      BY SumOf
    <3> DEFINE T == {k \in Nat : k <= Len(Files) => f[k] = 0}
    <3>2. 0 \in T /\ \A k \in Nat : k \in T => k + 1 \in T
      BY <3>1, UploadsAssumption DEF Sums, Size
    <3>3. Len(Files) \in T
      <4> HIDE DEF T
      <4> QED BY <3>2, Induction, UploadsAssumption
    <3> QED BY <3>1, <3>3, UploadsAssumption DEF Sums
  <2> QED BY <2>1, <2>2, FS_EmptySet, UploadsAssumption DEF Within
<1>5. RecordedHasFile
  BY DEF Init, RecordedHasFile, Exists
<1> QED BY <1>1, <1>2, <1>3, <1>4, <1>5 DEF UploadsInv

LEMMA UploadsStep == ASSUME UploadsInv, [Next]_vars PROVE UploadsInv'
<1>1. CASE Next
  <2>1. ASSUME NEW u \in Uploads, Receive(u) \/ Create(u) \/ UploadDies(u) \/ AddToCart(u) \/ Deadline(u)
        PROVE  UploadsInv'
    BY <2>1, ReceiveKeeps, CreateKeeps, DiesKeeps, CartKeeps, DeadlineKeeps
  <2>2. ASSUME NEW o \in Orders,
               \/ CheckoutStart(o) \/ OrderSaved(o) \/ DeleteOrder(o) \/ DownloadDies(o)
               \/ \E u \in Uploads : Promote(o, u)
        PROVE  UploadsInv'
    BY <2>2, StartKeeps, SavedKeeps, DeleteKeeps, DownloadKeeps, PromoteKeeps
  <2>3. CASE LogIn
    BY <2>3, LogInKeeps
  <2>4. ASSUME NEW f \in Uploads \cup {Archive}, Ages(f) PROVE UploadsInv'
    BY <2>4, AgesKeeps
  <2>5. ASSUME Job \/ JobDies PROVE UploadsInv'
    BY <2>5, JobStartKeeps, RepairKeeps, LookKeeps, FileKeeps, RowKeeps, SweepStartKeeps,
       KnownKeeps, SweepKeeps, JobDiesKeeps DEF Job
  <2> QED BY <1>1, <2>1, <2>2, <2>3, <2>4, <2>5 DEF Next
<1>2. CASE UNCHANGED vars
  <2> USE DEF UploadsInv
  <2>1. UNCHANGED <<request, rows, disk, young, session, cart, orders, job, troubles>>
    BY <1>2 DEF vars
  <2>2. young' \subseteq disk' /\ disk' \subseteq Uploads \cup {Archive} /\ troubles' \in 0 .. MaxTroubles
    BY <2>1 DEF ShopOK
  <2>3. JobOK'
    BY <2>1, JobStays DEF JobHolds, Due, Orphan, Exists
  <2>4. Apart'
    BY <2>1, ApartStays DEF InCheckout, Owners, Refers
  <2> QED BY <2>1, <2>2, <2>3, <2>4, DiskMoves
<1> QED BY <1>1, <1>2
-----------------------------------------------------------------------------
(* What was promised to an order about its uploads. *)
LEMMA ClaimsAreKept == ASSUME UploadsInv, [Next]_vars PROVE KeepsClaims
<1> USE DEF UploadsInv
<1> SUFFICES ASSUME NEW v \in Uploads, rows[v].owner # 0 PROVE rows'[v] \in {rows[v], NoRow}
  BY DEF KeepsClaims
<1>1. rows[v] # NoRow /\ rows \in [Uploads -> RowTypes]
  BY NoRowIs DEF ShopOK
<1>2. ASSUME NEW u \in Uploads, Create(u) PROVE rows'[v] \in {rows[v], NoRow}
  <2>1. rows[u] = NoRow
    BY <1>2 DEF Create, UploadOK
  <2>2. u # v
    BY <1>1, <2>1
  <2>3. CASE Inserted(u, request[u].session)
    <3>1. PICK row : rows' = [rows EXCEPT ![u] = row]
      BY <1>2, <2>3 DEF Create
    <3> QED BY <1>1, <2>2, <3>1
  <2>4. CASE ~Inserted(u, request[u].session)
    BY <1>2, <2>4 DEF Create
  <2> QED BY <2>3, <2>4
<1>3. ASSUME NEW u \in Uploads, Receive(u) \/ UploadDies(u) \/ AddToCart(u) PROVE rows'[v] = rows[v]
  BY <1>3 DEF Receive, UploadDies, AddToCart
<1>4. ASSUME NEW u \in Uploads, Deadline(u) PROVE rows'[v] = rows[v]
  <2>1. u # v
    BY <1>4 DEF Deadline, Unclaimed
  <2> QED BY <1>1, <1>4, <2>1 DEF Deadline
<1>5. ASSUME NEW o \in Orders, NEW u \in Uploads, Claims(u, o) PROVE rows'[v] = rows[v]
  BY <1>5, ClaimMoves
<1>6. ASSUME NEW o \in Orders, CheckoutStart(o) \/ OrderSaved(o) \/ DownloadDies(o) PROVE rows'[v] = rows[v]
  BY <1>6 DEF CheckoutStart, OrderSaved, DownloadDies
<1>7. ASSUME NEW o \in Orders, DeleteOrder(o) PROVE rows'[v] \in {rows[v], NoRow}
  BY <1>7 DEF DeleteOrder, Delete
<1>8. ASSUME NEW o \in Orders, NEW u \in Uploads, Promote(o, u) PROVE rows'[v] = rows[v]
  <2>1. Claims(u, o)
    BY <1>8 DEF Promote, Claims
  <2> QED BY <1>5, <2>1
<1>9. CASE Repair
  <2>1. job.todo # <<>> /\ Expiring
    BY <1>9 DEF Repair, Expiring
  <2>2. PICK u \in Uploads, o \in Orders : Claims(u, o)
    BY <1>9, <2>1, Taking DEF Repair, Repaired, Owners, Claims
  <2> QED BY <1>5, <2>2
<1>10. CASE ReleaseRow
  <2>1. PICK u : rows' = [rows EXCEPT ![u] = NoRow]
    BY <1>10 DEF ReleaseRow
  <2> QED BY <1>1, <2>1
<1>11. CASE JobStart \/ Look \/ ReleaseFile \/ SweepStart \/ KnownNames \/ Sweep \/ JobDies \/ LogIn \/ UNCHANGED vars
  BY <1>11 DEF JobStart, Look, ReleaseFile, SweepStart, KnownNames, Sweep, JobDies, LogIn, vars
<1>12. ASSUME NEW f, Ages(f) PROVE rows'[v] = rows[v]
  BY <1>12 DEF Ages
<1> QED BY <1>2, <1>3, <1>4, <1>6, <1>7, <1>8, <1>9, <1>10, <1>11, <1>12 DEF Next, Job

LEMMA ArtworkIsKept == ASSUME ~Overlapping, ~QueryFails, UploadsInv, [Next]_vars PROVE KeepsArtwork
<1> USE DEF UploadsInv
<1> SUFFICES ASSUME NEW o \in Orders, NEW v \in Uploads,
                    Refers(o, v), orders'[o].state = "placed", v \in disk,
                    \A p \in Orders \ {o} : v \notin orders[p].tokens
             PROVE  v \in disk'
  BY DEF KeepsArtwork
<1>1. Taken(v) /\ request[v].pc = "done" /\ Exists(v)
  BY DEF Refers, Taken, UploadOK
<1>2. ASSUME NEW u \in Uploads, Receive(u) PROVE v \in disk'
  BY <1>2 DEF Receive
<1>3. ASSUME NEW u \in Uploads, Create(u) PROVE v \in disk'
  <2>1. u # v
    BY <1>1, <1>3 DEF Create
  <2> QED BY <1>3, <2>1 DEF Create
<1>4. ASSUME NEW u \in Uploads, UploadDies(u) \/ AddToCart(u) \/ Deadline(u) PROVE v \in disk'
  BY <1>4 DEF UploadDies, AddToCart, Deadline
<1>5. ASSUME NEW p \in Orders, CheckoutStart(p) \/ OrderSaved(p) \/ \E u \in Uploads : Promote(p, u) PROVE v \in disk'
  BY <1>5 DEF CheckoutStart, OrderSaved, Promote
<1>6. ASSUME NEW p \in Orders, DownloadDies(p) PROVE v \in disk'
  BY <1>6 DEF DownloadDies
<1>7. ASSUME NEW p \in Orders, DeleteOrder(p) PROVE v \in disk'
  <2>1. p # o
    BY <1>7 DEF DeleteOrder, ShopOK
  <2> QED BY <1>7, <2>1 DEF DeleteOrder, Delete
<1>8. CASE ReleaseFile
  <2>1. Owners(Head(job.todo)) = {}
    BY <1>8 DEF ReleaseFile, Apart
  <2>2. v # Head(job.todo)
    BY <2>1 DEF Owners
  <2> QED BY <1>8, <2>2 DEF ReleaseFile
<1>9. CASE Sweep
  <2>1. v # Archive
    BY ArchiveIsNone
  <2>2. v \notin ToSet(job.todo)
    BY <1>1, <1>9, <2>1 DEF Sweep, JobOK, Orphan
  <2> QED BY <1>9, <2>2 DEF Sweep
<1>10. CASE JobStart \/ Repair \/ Look \/ ReleaseRow \/ SweepStart \/ KnownNames \/ JobDies \/ LogIn \/ UNCHANGED vars
  BY <1>10 DEF JobStart, Repair, Look, ReleaseRow, SweepStart, KnownNames, JobDies, LogIn, vars
<1>11. ASSUME NEW f, Ages(f) PROVE v \in disk'
  BY <1>11 DEF Ages
<1> QED BY <1>2, <1>3, <1>4, <1>5, <1>6, <1>7, <1>8, <1>9, <1>10, <1>11 DEF Next, Job
-----------------------------------------------------------------------------
(* Renders. *)
JobType == [attempts : Nat, done : BOOLEAN, dead : BOOLEAN, png : BOOLEAN,
            url : BOOLEAN, error : BOOLEAN]
ClaimTypes == [line : Lines, attempts : Nat]

(* The workers that hold a line, and the attempts it can have had: each worker
   that holds it, and each that died with it, has taken one that its outcome has
   not been written for. *)
Takers(l) == {w \in Workers : \E i \in DOMAIN claims[w] : claims[w][i].line = l}
Limit == MaxAttempts + faults + Cardinality(Workers) - 1
Bound(l) == MaxAttempts - 1 + Cardinality(Takers(l)) + faults

LineOK(l) ==
    /\ jobs[l] \in {R!NoJob} \cup JobType
    /\ jobs[l].attempts <= Limit
    /\ l \in R!Pending => jobs[l].attempts <= Bound(l)

WorkerOK(w) ==
    /\ claims[w] \in Seq(ClaimTypes)
    /\ \A i \in DOMAIN claims[w] : R!Accepted(claims[w][i].line) /\ claims[w][i].attempts <= Limit

OnALine(p) == pass[p].pc \in {"line", "confirm"}
PassOK(p) ==
    /\ pass[p].pc \in {"idle", "order", "line", "confirm"}
    /\ pass[p].pc # "idle" => pass[p].todo \in Seq(R!AllOrders)
    /\ OnALine(p) =>
          /\ pass[p].todo # <<>> /\ pass[p].lines \in Seq(ids)
          /\ pass[p].files \subseteq ids /\ pass[p].got \subseteq fresh
          /\ pass[p].failures \subseteq ids /\ pass[p].failed \subseteq ids /\ pass[p].told \subseteq ids
    /\ pass[p].pc = "confirm" => pass[p].lines # <<>> /\ Head(pass[p].lines) \in pass[p].got

PluginOK ==
    /\ queue \in Seq(R!AllOrders) /\ ids \subseteq Lines
    /\ files \subseteq ids /\ failures \subseteq ids /\ partials \subseteq ids
    /\ fresh \subseteq prints /\ prints \subseteq ids
    /\ \A l \in ids : R!Accepted(l)
    /\ faults \in 0 .. RenderTroubles
    /\ pass = [p \in Passes |-> pass[p]]

CloudOK ==
    /\ jobs = [l \in Lines |-> jobs[l]] /\ \A l \in Lines : LineOK(l)
    /\ claims = [w \in Workers |-> claims[w]] /\ \A w \in Workers : WorkerOK(w)

(* With one pass at a time, what a pass read of an order is what is there. *)
OnePass == \A p, q \in Passes : p = q
Recorded ==
    /\ \A p \in Passes : OnALine(p) => pass[p].files = R!LinesOf(Head(pass[p].todo)) \cap files
    /\ files \subseteq prints

RendersInv ==
    /\ PluginOK /\ CloudOK /\ \A p \in Passes : PassOK(p)
    /\ OnePass => Recorded
-----------------------------------------------------------------------------
LEMMA ToSetIsIts == ASSUME NEW q PROVE R!ToSet(q) = ToSet(q)
  BY DEF R!ToSet, ToSet

LEMMA OnlyIsIts == ASSUME NEW q, NEW keep PROVE R!Only(q, keep) = Only(q, keep)
  BY Zenon DEF R!Only, Only

LEMMA CardinalityIsIts == ASSUME NEW S PROVE R!Cardinality(S) = Cardinality(S)
  BY DEF R!Cardinality, Cardinality

LEMMA OrdersAreLines == R!AllOrders \subseteq Lines /\ \A o : R!LinesOf(o) \subseteq Lines
  BY RendersAssumption DEF R!AllOrders, R!LinesOf

LEMMA Numbers ==
  /\ MaxAttempts \in Nat /\ MaxAttempts >= 1 /\ RenderTroubles \in Nat
  /\ Cardinality(Workers) \in Nat
  /\ \A S : S \subseteq Workers => IsFiniteSet(S) /\ Cardinality(S) \in Nat /\ Cardinality(S) <= Cardinality(Workers)
<1>1. IsFiniteSet(Workers)
  BY RendersAssumption
<1> QED BY <1>1, RendersAssumption, FS_Subset, FS_CardinalityType

LEMMA LinesInOrder ==
  ASSUME NEW s
  PROVE  R!InOrder(s) \in Seq(s \cap Lines)
<1> DEFINE all == [i \in 1 .. Len(OrderOf) |-> i]
<1>1. Len(OrderOf) \in Nat /\ Lines = 1 .. Len(OrderOf)
  BY RendersAssumption
<1>2. all \in Seq(Lines)
  BY <1>1, Listed
<1>3. ToSet(all) \subseteq Lines
  BY <1>1 DEF ToSet
<1>4. R!InOrder(s) = Only(all, s)
  BY OnlyIsIts DEF R!InOrder
<1> HIDE DEF all
<1>5. R!InOrder(s) \in Seq(Lines) /\ ToSet(R!InOrder(s)) \subseteq s \cap Lines
  BY <1>2, <1>3, <1>4, OnlyFacts
<1> QED BY <1>5, SeqWithin

LEMMA FirstOf ==
  ASSUME NEW S, NEW q \in Seq(S)
  PROVE  R!First(q) \in Seq(S) /\ ToSet(R!First(q)) \subseteq ToSet(q)
<1> DEFINE n == IF Len(q) < RenderBatch THEN Len(q) ELSE RenderBatch
<1>1. n \in Nat /\ n <= Len(q) /\ R!First(q) = SubSeq(q, 1, n)
  BY RendersAssumption DEF R!First
<1> HIDE DEF n
<1> QED BY <1>1, FirstPart

LEMMA Shorter ==
  ASSUME NEW S, NEW q \in Seq(S), NEW keep
  PROVE  R!Only(q, keep) \in Seq(S)
  BY OnlyIsIts, OnlyFacts

LEMMA FaultsAre ==
  ASSUME PluginOK, R!Trouble \/ UNCHANGED faults
  PROVE  faults' \in 0 .. RenderTroubles /\ faults' \in Nat /\ faults \in Nat /\ faults <= faults'
  BY Numbers DEF PluginOK, R!Trouble

LEMMA NoJobIs == R!NoJob \notin JobType /\ R!NoJob.attempts = -1
                 /\ R!NewJob \in JobType /\ R!NewJob # R!NoJob /\ R!NewJob.attempts = 0
  BY DEF R!NoJob, R!NewJob, JobType

(* A pass that a step does not touch. *)
LEMMA PassStays ==
  ASSUME NEW p \in Passes, PassOK(p), pass'[p] = pass[p], ids \subseteq ids',
         OnALine(p) => (pass[p].got \subseteq fresh => pass[p].got \subseteq fresh')
  PROVE  PassOK(p)'
<1>1. OnALine(p)' <=> OnALine(p)
  BY DEF OnALine
<1>2. OnALine(p) => pass[p].lines \in Seq(ids')
  BY SeqFacts DEF PassOK
<1> QED BY <1>1, <1>2 DEF PassOK

(* A line whose job does not change, while nobody lets go of it. *)
LEMMA LineStays ==
  ASSUME RendersInv, NEW l \in Lines, jobs'[l] = jobs[l], UNCHANGED claims,
         R!Trouble \/ UNCHANGED faults
  PROVE  LineOK(l)'
<1>1. faults' \in Nat /\ faults \in Nat /\ faults <= faults'
  BY FaultsAre DEF RendersInv
<1>2. jobs[l].attempts \in Int
  BY NoJobIs DEF RendersInv, CloudOK, LineOK, JobType
<1>3. Takers(l)' = Takers(l) /\ Takers(l) \subseteq Workers
  BY DEF Takers
<1>4. Cardinality(Takers(l)) \in Nat
  BY <1>3, Numbers
<1>5. l \in R!Pending' <=> l \in R!Pending
  BY DEF R!Pending, R!Accepted
<1> QED BY <1>1, <1>2, <1>3, <1>4, <1>5, Numbers DEF RendersInv, CloudOK, LineOK, Limit, Bound

LEMMA WorkerStays ==
  ASSUME RendersInv, NEW w \in Workers, claims'[w] = claims[w],
         R!Trouble \/ UNCHANGED faults, \A l \in Lines : R!Accepted(l) => R!Accepted(l)'
  PROVE  WorkerOK(w)'
<1>1. faults' \in Nat /\ faults \in Nat /\ faults <= faults'
  BY FaultsAre DEF RendersInv
<1>2. ASSUME NEW i \in DOMAIN claims[w]
      PROVE  claims[w][i].line \in Lines /\ claims[w][i].attempts \in Nat
  <2>1. claims[w] \in Seq(ClaimTypes)
    BY DEF RendersInv, CloudOK, WorkerOK
  <2>2. claims[w][i] \in ClaimTypes
    BY <2>1
  <2> QED BY <2>2 DEF ClaimTypes
<1>3. ASSUME NEW n \in Nat, n <= Limit PROVE n <= Limit'
  BY <1>1, <1>3, Numbers DEF Limit
<1> QED BY <1>2, <1>3 DEF RendersInv, CloudOK, WorkerOK, R!Accepted
-----------------------------------------------------------------------------
(* The requester. *)
LEMMA AcceptIs ==
  ASSUME CloudOK, NEW ls, R!Accept(ls)
  PROVE  /\ jobs' = [l \in Lines |-> jobs'[l]]
         /\ \A l \in Lines : jobs'[l] = IF l \in ls /\ jobs[l] = R!NoJob THEN R!NewJob ELSE jobs[l]
  BY DEF CloudOK, R!Accept, R!Upserted, R!Accepted

LEMMA AcceptKeeps ==
  ASSUME RendersInv, NEW ls, R!Accept(ls), UNCHANGED claims, R!Trouble \/ UNCHANGED faults
  PROVE  CloudOK' /\ \A l \in Lines : (R!Accepted(l) \/ l \in ls) => R!Accepted(l)'
<1>1. /\ jobs' = [l \in Lines |-> jobs'[l]]
      /\ \A l \in Lines : jobs'[l] = IF l \in ls /\ jobs[l] = R!NoJob THEN R!NewJob ELSE jobs[l]
  BY AcceptIs DEF RendersInv
<1>2. \A l \in Lines : (R!Accepted(l) \/ l \in ls) => R!Accepted(l)'
  BY <1>1, NoJobIs DEF R!Accepted
<1>3. ASSUME NEW l \in Lines PROVE LineOK(l)'
  <2>1. CASE jobs'[l] = jobs[l]
    BY <2>1, LineStays
  <2>2. CASE jobs'[l] # jobs[l]
    <3>1. jobs'[l] = R!NewJob
      BY <1>1, <2>2
    <3>2. faults' \in Nat
      BY FaultsAre DEF RendersInv
    <3>3. Takers(l)' \subseteq Workers
      BY DEF Takers
    <3>4. PICK n : n = Cardinality(Takers(l)')
      OBVIOUS
    <3>5. n \in Nat
      BY <3>3, <3>4, Numbers
    <3>6. 0 <= Limit' /\ 0 <= Bound(l)'
      BY <3>2, <3>4, <3>5, Numbers DEF Limit, Bound
    <3> QED BY <3>1, <3>6, NoJobIs DEF LineOK
  <2> QED BY <2>1, <2>2
<1>4. ASSUME NEW w \in Workers PROVE WorkerOK(w)'
  BY <1>2, WorkerStays
<1> QED BY <1>1, <1>2, <1>3, <1>4 DEF CloudOK, RendersInv

(* What the requester leaves alone. *)
LEMMA AskedKeeps ==
  ASSUME RendersInv, NEW ls, R!Accept(ls), UNCHANGED <<files, failures, partials, prints, fresh, claims, pass>>,
         R!Trouble \/ UNCHANGED faults,
         ids \subseteq ids', ids' \subseteq Lines, \A l \in ids' : l \in ids \/ l \in ls \/ R!Accepted(l),
         queue' \in Seq(R!AllOrders)
  PROVE  RendersInv'
<1>1. CloudOK' /\ \A l \in Lines : (R!Accepted(l) \/ l \in ls) => R!Accepted(l)'
  BY AcceptKeeps
<1>2. PluginOK'
  <2>1. faults' \in 0 .. RenderTroubles
    BY FaultsAre DEF RendersInv
  <2>2. \A l \in ids' : R!Accepted(l)'
    BY <1>1 DEF RendersInv, PluginOK
  <2> QED BY <2>1, <2>2 DEF RendersInv, PluginOK
<1>3. \A p \in Passes : PassOK(p)'
  BY PassStays DEF RendersInv
<1>4. OnePass => Recorded'
  BY DEF RendersInv, Recorded, OnALine
<1> QED BY <1>1, <1>2, <1>3, <1>4 DEF RendersInv

LEMMA CheckedOutKeeps == ASSUME RendersInv, NEW o \in R!AllOrders, R!CheckedOut(o) PROVE RendersInv'
<1>1. /\ queue' = Append(queue, o)
      /\ UNCHANGED <<ids, files, failures, partials, prints, fresh, jobs, claims, pass, faults>>
  BY DEF R!CheckedOut, R!meta
<1>2. queue' \in Seq(R!AllOrders)
  BY <1>1 DEF RendersInv, PluginOK
<1>3. PluginOK'
  BY <1>1, <1>2 DEF RendersInv, PluginOK, R!Accepted
<1>4. CloudOK'
  <2>1. \A l \in Lines : LineOK(l)'
    BY <1>1, LineStays
  <2>2. \A w \in Workers : WorkerOK(w)'
    BY <1>1, WorkerStays DEF R!Accepted
  <2> QED BY <1>1, <2>1, <2>2 DEF CloudOK, RendersInv
<1>5. \A p \in Passes : PassOK(p)'
  BY <1>1, PassStays DEF RendersInv
<1>6. OnePass => Recorded'
  BY <1>1 DEF RendersInv, Recorded, OnALine
<1> QED BY <1>3, <1>4, <1>5, <1>6 DEF RendersInv

LEMMA RequestKeeps == ASSUME RendersInv, NEW o \in R!AllOrders, R!Request(o) PROVE RendersInv'
<1>1. PICK ls : ls = R!LinesOf(o) \ ids
  OBVIOUS
<1>2. /\ R!Accept(ls) /\ ids' = ids \cup R!LinesOf(o) /\ queue' = R!Only(queue, R!AllOrders \ {o})
      /\ UNCHANGED <<files, failures, partials, prints, fresh, claims, pass, faults>>
  BY <1>1 DEF R!Request
<1>3. queue' \in Seq(R!AllOrders) /\ ids' \subseteq Lines
  BY <1>2, Shorter, OrdersAreLines DEF RendersInv, PluginOK
<1> QED BY <1>1, <1>2, <1>3, AskedKeeps

LEMMA RequestFailsKeeps == ASSUME RendersInv, NEW o \in R!AllOrders, R!RequestFails(o) PROVE RendersInv'
<1>1. PICK last : R!Accept({l \in R!LinesOf(o) \ ids : l <= last})
  BY DEF R!RequestFails
<1>2. PICK ls : ls = {l \in R!LinesOf(o) \ ids : l <= last}
  OBVIOUS
<1>3. R!Trouble /\ UNCHANGED <<queue, ids, files, failures, partials, prints, fresh, claims, pass>>
  BY DEF R!RequestFails, R!meta
<1>4. queue' \in Seq(R!AllOrders) /\ ids' \subseteq Lines
  BY <1>3 DEF RendersInv, PluginOK
<1> QED BY <1>1, <1>2, <1>3, <1>4, AskedKeeps

LEMMA RefusedKeeps == ASSUME RendersInv, NEW o \in R!AllOrders, R!RequestRefused(o) PROVE RendersInv'
<1>1. PICK l \in R!LinesOf(o) \ ids :
         R!Accept(R!LinesOf(o) \ (ids \cup {l})) /\ ids' = ids \cup (R!LinesOf(o) \ {l})
  BY DEF R!RequestRefused
<1>2. PICK ls : ls = R!LinesOf(o) \ (ids \cup {l})
  OBVIOUS
<1>3. /\ R!Trouble /\ queue' = R!Only(queue, R!AllOrders \ {o})
      /\ UNCHANGED <<files, failures, partials, prints, fresh, claims, pass>>
  BY DEF R!RequestRefused
<1>4. queue' \in Seq(R!AllOrders) /\ ids' \subseteq Lines
  BY <1>1, <1>3, Shorter, OrdersAreLines DEF RendersInv, PluginOK
<1> QED BY <1>1, <1>2, <1>3, <1>4, AskedKeeps
-----------------------------------------------------------------------------
(* The workers. *)
LEMMA CloudStep ==
  ASSUME RendersInv, CloudOK', UNCHANGED <<queue, ids, files, failures, partials, prints, fresh, pass>>,
         R!Trouble \/ UNCHANGED faults, \A l \in Lines : R!Accepted(l) => R!Accepted(l)'
  PROVE  RendersInv'
<1>1. faults' \in 0 .. RenderTroubles
  BY FaultsAre DEF RendersInv
<1>2. PluginOK'
  BY <1>1 DEF RendersInv, PluginOK
<1>3. \A p \in Passes : PassOK(p)'
  BY PassStays DEF RendersInv
<1>4. OnePass => Recorded'
  BY DEF RendersInv, Recorded, OnALine
<1> QED BY <1>2, <1>3, <1>4 DEF RendersInv

LEMMA ClaimTaken == ASSUME RendersInv, NEW w \in Workers, R!Claim(w) PROVE RendersInv'
<1>1. PICK batch : batch = R!First(R!InOrder(R!Pending))
  OBVIOUS
<1>2. PICK taken : taken = R!ToSet(batch)
  OBVIOUS
<1>3. /\ jobs' = [l \in Lines |-> IF l \in taken THEN [jobs[l] EXCEPT !.attempts = @ + 1] ELSE jobs[l]]
      /\ claims' = [claims EXCEPT ![w] =
              [i \in DOMAIN batch |-> [line |-> batch[i], attempts |-> jobs[batch[i]].attempts + 1]]]
      /\ claims[w] = <<>>
      /\ UNCHANGED <<queue, ids, files, failures, partials, prints, fresh, pass, faults>>
  BY <1>1, <1>2 DEF R!Claim, R!meta
<1>4. batch \in Seq(R!Pending \cap Lines) /\ DOMAIN batch = 1 .. Len(batch) /\ Len(batch) \in Nat
  BY <1>1, LinesInOrder, FirstOf
<1>5. \A l \in taken : l \in R!Pending /\ l \in Lines
  BY <1>2, <1>4, ToSetIsIts DEF ToSet
<1>6. \A l \in taken : jobs[l] \in JobType /\ jobs[l].attempts <= Bound(l) /\ jobs[l] # R!NoJob
  BY <1>5 DEF RendersInv, CloudOK, LineOK, R!Pending, R!Accepted
<1>7. faults \in Nat
  BY <1>3, FaultsAre DEF RendersInv
<1>8. ASSUME NEW l \in taken
      PROVE  /\ Cardinality(Takers(l)) + 1 <= Cardinality(Workers)
             /\ Cardinality(Takers(l) \cup {w}) = Cardinality(Takers(l)) + 1
             /\ Cardinality(Takers(l)) \in Nat
  <2>1. Takers(l) \subseteq Workers /\ Takers(l) \cup {w} \subseteq Workers /\ w \notin Takers(l)
    BY <1>3 DEF Takers
  <2>2. IsFiniteSet(Takers(l)) /\ Cardinality(Takers(l)) \in Nat
    BY <2>1, Numbers
  <2>3. Cardinality(Takers(l) \cup {w}) = Cardinality(Takers(l)) + 1
    BY <2>1, <2>2, FS_AddElement
  <2> QED BY <2>1, <2>2, <2>3, Numbers
<1>9. ASSUME NEW l \in taken
      PROVE  jobs[l].attempts + 1 \in Nat /\ jobs[l].attempts + 1 <= Limit
  <2>1. jobs[l].attempts \in Nat
    BY <1>6 DEF JobType
  <2>2. PICK n : n = Cardinality(Takers(l))
    OBVIOUS
  <2>3. PICK k : k = Cardinality(Workers)
    OBVIOUS
  <2>4. n \in Nat /\ k \in Nat /\ n + 1 <= k
    BY <1>8, <2>2, <2>3, Numbers
  <2>5. jobs[l].attempts <= MaxAttempts - 1 + n + faults
    BY <1>6, <2>2 DEF Bound
  <2>6. jobs[l].attempts + 1 <= MaxAttempts + faults + k - 1
    BY <1>7, <2>1, <2>4, <2>5, Numbers
  <2> QED BY <2>1, <2>3, <2>6 DEF Limit
<1>10. Limit' = Limit
  BY <1>3 DEF Limit
<1>11. \A l \in Lines : jobs'[l] = IF l \in taken THEN [jobs[l] EXCEPT !.attempts = @ + 1] ELSE jobs[l]
  BY <1>3
<1>12. ASSUME NEW l \in Lines PROVE LineOK(l)'
  <2>1. CASE l \in taken
    <3>1. jobs'[l] \in JobType /\ jobs'[l].attempts = jobs[l].attempts + 1
      BY <1>6, <1>9, <1>11, <2>1 DEF JobType
    <3>2. Takers(l)' = Takers(l) \cup {w}
      <4>1. PICK i \in DOMAIN batch : batch[i] = l
        BY <1>2, <2>1, ToSetIsIts DEF ToSet
      <4>2. claims'[w][i].line = l /\ DOMAIN claims'[w] = DOMAIN batch
        BY <1>3, <4>1 DEF RendersInv, CloudOK
      <4>3. \A v \in Workers \ {w} : claims'[v] = claims[v]
        BY <1>3 DEF RendersInv, CloudOK
      <4> QED BY <4>1, <4>2, <4>3 DEF Takers
    <3>3. PICK n : n = Cardinality(Takers(l))
      OBVIOUS
    <3>4. Bound(l)' = MaxAttempts - 1 + (n + 1) + faults
      BY <1>3, <1>8, <2>1, <3>2, <3>3 DEF Bound
    <3>5. jobs[l].attempts + 1 <= MaxAttempts - 1 + (n + 1) + faults
      <4>1. jobs[l].attempts \in Nat /\ n \in Nat
        BY <1>6, <1>8, <2>1, <3>3 DEF JobType
      <4>2. jobs[l].attempts <= MaxAttempts - 1 + n + faults
        BY <1>6, <2>1, <3>3 DEF Bound
      <4> QED BY <1>7, <4>1, <4>2, Numbers
    <3> QED BY <1>9, <1>10, <2>1, <3>1, <3>4, <3>5 DEF LineOK
  <2>2. CASE l \notin taken
    <3>1. jobs'[l] = jobs[l]
      BY <1>11, <2>2
    <3>2. Takers(l)' = Takers(l)
      <4>1. \A i \in DOMAIN batch : batch[i] # l
        BY <1>2, <2>2, ToSetIsIts DEF ToSet
      <4>2. DOMAIN claims'[w] = DOMAIN batch /\ \A i \in DOMAIN batch : claims'[w][i].line = batch[i]
        BY <1>3 DEF RendersInv, CloudOK
      <4>3. \A v \in Workers \ {w} : claims'[v] = claims[v]
        BY <1>3 DEF RendersInv, CloudOK
      <4>4. \A i \in DOMAIN claims[w] : claims[w][i].line # l
        BY <1>3
      <4> QED BY <4>1, <4>2, <4>3, <4>4 DEF Takers
    <3>3. Bound(l)' = Bound(l)
      BY <1>3, <3>2 DEF Bound
    <3> QED BY <1>10, <3>1, <3>3 DEF RendersInv, CloudOK, LineOK, R!Pending, R!Accepted
  <2> QED BY <2>1, <2>2
<1>13. \A l \in Lines : R!Accepted(l) => R!Accepted(l)'
  <2> SUFFICES ASSUME NEW l \in Lines, R!Accepted(l) PROVE jobs'[l] # R!NoJob
    BY DEF R!Accepted
  <2>1. CASE l \in taken
    <3>1. jobs'[l] \in JobType
      BY <1>6, <1>9, <1>11, <2>1 DEF JobType
    <3> QED BY <3>1, NoJobIs
  <2>2. CASE l \notin taken
    BY <1>11, <2>2 DEF R!Accepted
  <2> QED BY <2>1, <2>2
<1>14. ASSUME NEW v \in Workers PROVE WorkerOK(v)'
  <2>1. CASE v # w
    <3>1. claims'[v] = claims[v]
      BY <1>3, <2>1 DEF RendersInv, CloudOK
    <3> QED BY <1>3, <1>13, <3>1, WorkerStays
  <2>2. CASE v = w
    <3>1. PICK held : held = [i \in DOMAIN batch |-> [line |-> batch[i], attempts |-> jobs[batch[i]].attempts + 1]]
      OBVIOUS
    <3>2. claims'[v] = held
      BY <1>3, <2>2, <3>1 DEF RendersInv, CloudOK
    <3>3. \A i \in DOMAIN batch : batch[i] \in taken
      BY <1>2, ToSetIsIts DEF ToSet
    <3>4. \A i \in DOMAIN batch : held[i] \in ClaimTypes
      BY <1>5, <1>9, <3>1, <3>3 DEF ClaimTypes
    <3>5. \A i \in DOMAIN batch : held[i].line \in Lines /\ R!Accepted(held[i].line) /\ held[i].attempts <= Limit
      BY <1>5, <1>9, <3>1, <3>3 DEF R!Pending
    <3>6. \A i \in DOMAIN batch : R!Accepted(held[i].line)' /\ held[i].attempts <= Limit'
      BY <1>10, <1>13, <3>5
    <3>7. DOMAIN held = 1 .. Len(batch) /\ held = [i \in 1 .. Len(batch) |-> held[i]]
      BY <1>4, <3>1
    <3>8. held \in Seq(ClaimTypes)
      BY <1>4, <3>4, <3>7, Listed
    <3> QED BY <1>4, <3>2, <3>6, <3>7, <3>8 DEF WorkerOK
  <2> QED BY <2>1, <2>2
<1>15. CloudOK'
  <2>1. jobs' = [l \in Lines |-> jobs'[l]] /\ claims' = [v \in Workers |-> claims'[v]]
    BY <1>3 DEF RendersInv, CloudOK
  <2> QED BY <1>12, <1>14, <2>1 DEF CloudOK
<1> QED BY <1>3, <1>13, <1>15, CloudStep

LEMMA HeldLines ==
  ASSUME RendersInv, NEW w \in Workers, claims[w] # <<>>
  PROVE  /\ Head(claims[w]).line \in Lines /\ R!Accepted(Head(claims[w]).line)
         /\ Head(claims[w]).attempts \in Nat /\ Head(claims[w]).attempts <= Limit
         /\ Tail(claims[w]) \in Seq(ClaimTypes)
         /\ \A i \in DOMAIN Tail(claims[w]) : i + 1 \in DOMAIN claims[w] /\ Tail(claims[w])[i] = claims[w][i + 1]
         /\ \A i \in DOMAIN claims[w] : i # 1 => i - 1 \in DOMAIN Tail(claims[w])
         /\ Head(claims[w]) = claims[w][1]
<1>1. claims[w] \in Seq(ClaimTypes) /\ WorkerOK(w)
  BY DEF RendersInv, CloudOK, WorkerOK
<1>2. PICK q \in Seq(ClaimTypes) : q = claims[w]
  BY <1>1
<1>3. /\ Len(q) \in Nat /\ Len(q) >= 1 /\ DOMAIN q = 1 .. Len(q) /\ Head(q) = q[1]
      /\ Tail(q) \in Seq(ClaimTypes) /\ DOMAIN Tail(q) = 1 .. Len(q) - 1
      /\ \A i \in 1 .. Len(q) - 1 : Tail(q)[i] = q[i + 1]
  BY <1>2
<1>4. 1 \in DOMAIN q /\ Head(q) \in ClaimTypes
  BY <1>2, <1>3
<1>5. \A i \in DOMAIN q : i # 1 => i - 1 \in DOMAIN Tail(q)
  BY <1>3
<1>6. Head(q).line \in Lines /\ Head(q).attempts \in Nat
  BY <1>4 DEF ClaimTypes
<1>7. \A i \in DOMAIN Tail(q) : i + 1 \in DOMAIN q /\ Tail(q)[i] = q[i + 1]
  BY <1>3
<1>8. R!Accepted(Head(q).line) /\ Head(q).attempts <= Limit
  BY <1>1, <1>2, <1>3, <1>4 DEF WorkerOK
<1> QED BY <1>2, <1>3, <1>5, <1>6, <1>7, <1>8

LEMMA OutcomeIs ==
  ASSUME NEW old \in JobType, NEW n \in Nat, NEW l
  PROVE  /\ R!Rendered(old, n, l) \in JobType /\ R!Rendered(old, n, l).attempts = n /\ R!Rendered(old, n, l).done
         /\ R!NotRendered(old, n) \in JobType /\ R!NotRendered(old, n).attempts = n
         /\ R!NotRendered(old, n).dead <=> n >= MaxAttempts
         /\ R!NotRendered(old, n).done = old.done
<1>1. (l \in Incomplete) \in BOOLEAN /\ (n >= MaxAttempts) \in BOOLEAN
  OBVIOUS
<1>2. PICK bad \in BOOLEAN : bad <=> l \in Incomplete
  OBVIOUS
<1>3. PICK over : over = R!GivenUp(n)
  OBVIOUS
<1>6. over \in BOOLEAN /\ (over <=> n >= MaxAttempts)
  BY <1>1, <1>3 DEF R!GivenUp
<1>4. R!Rendered(old, n, l) = [old EXCEPT !.attempts = n, !.done = TRUE, !.png = TRUE, !.error = bad]
  BY <1>2 DEF R!Rendered
<1>5. R!NotRendered(old, n) = [old EXCEPT !.attempts = n, !.dead = over, !.error = TRUE]
  BY <1>3 DEF R!NotRendered
<1> QED BY <1>4, <1>5, <1>6 DEF JobType

LEMMA RenderKeeps == ASSUME RendersInv, NEW w \in Workers, R!Render(w) PROVE RendersInv'
<1>1. PICK l, n, rest : l = Head(claims[w]).line /\ n = Head(claims[w]).attempts /\ rest = Tail(claims[w])
  OBVIOUS
<1>2. /\ claims[w] # <<>> /\ claims' = [claims EXCEPT ![w] = rest]
      /\ jobs' = [jobs EXCEPT ![l] = IF l \in BadScenes THEN R!NotRendered(@, n) ELSE R!Rendered(@, n, l)]
      /\ UNCHANGED <<queue, ids, files, failures, partials, prints, fresh, pass, faults>>
  BY <1>1 DEF R!Render, R!meta
<1>3. /\ l \in Lines /\ R!Accepted(l) /\ n \in Nat /\ n <= Limit
  BY <1>1, <1>2, HeldLines
<1>4. jobs[l] \in JobType
  BY <1>3 DEF RendersInv, CloudOK, LineOK, R!Accepted
<1>5. PICK new : new = IF l \in BadScenes THEN R!NotRendered(jobs[l], n) ELSE R!Rendered(jobs[l], n, l)
  OBVIOUS
<1>6. /\ new \in JobType /\ new.attempts = n
      /\ ~new.done /\ ~new.dead => n < MaxAttempts
  BY <1>3, <1>4, <1>5, OutcomeIs, Numbers
<1>7. /\ jobs' = [x \in Lines |-> jobs'[x]] /\ claims' = [v \in Workers |-> claims'[v]]
      /\ jobs'[l] = new /\ \A x \in Lines \ {l} : jobs'[x] = jobs[x]
      /\ claims'[w] = rest /\ \A v \in Workers \ {w} : claims'[v] = claims[v]
  BY <1>2, <1>3, <1>5 DEF RendersInv, CloudOK
<1>8. Limit' = Limit /\ faults' = faults /\ faults \in Nat
  BY <1>2, FaultsAre DEF Limit, RendersInv
<1>9. \A x \in Lines : R!Accepted(x) => R!Accepted(x)'
  BY <1>6, <1>7, NoJobIs DEF R!Accepted
<1>10. ASSUME NEW x \in Lines PROVE LineOK(x)'
  <2>1. CASE x = l
    <3>1. PICK k : k = Cardinality(Takers(l)')
      OBVIOUS
    <3>2. k \in Nat
      BY <3>1, Numbers DEF Takers
    <3>3. Bound(l)' = MaxAttempts - 1 + k + faults
      BY <1>8, <3>1 DEF Bound
    <3>4. l \in R!Pending' => n < MaxAttempts
      BY <1>6, <1>7 DEF R!Pending
    <3>5. l \in R!Pending' => n <= MaxAttempts - 1 + k + faults
      BY <1>3, <1>8, <3>2, <3>4, Numbers
    <3> QED BY <1>3, <1>6, <1>7, <1>8, <2>1, <3>3, <3>5 DEF LineOK
  <2>2. CASE x # l
    <3>1. jobs'[x] = jobs[x]
      BY <1>7, <2>2
    <3>2. Takers(x)' = Takers(x)
      <4>1. \A i \in DOMAIN rest : i + 1 \in DOMAIN claims[w] /\ rest[i] = claims[w][i + 1]
        BY <1>1, <1>2, HeldLines
      <4>2. \A i \in DOMAIN claims[w] : claims[w][i].line = x => i # 1 /\ i - 1 \in DOMAIN rest
        BY <1>1, <1>2, <2>2, HeldLines
      <4>3. \A i \in DOMAIN claims[w] : i \in Nat
        BY DEF RendersInv, CloudOK, WorkerOK
      <4>4. \A i \in DOMAIN claims[w] : claims[w][i].line = x => rest[i - 1].line = x
        BY <4>1, <4>2, <4>3
      <4> QED BY <1>7, <4>1, <4>2, <4>4 DEF Takers
    <3>3. Bound(x)' = Bound(x)
      BY <1>2, <3>2 DEF Bound
    <3> QED BY <1>8, <3>1, <3>3 DEF RendersInv, CloudOK, LineOK, R!Pending, R!Accepted
  <2> QED BY <2>1, <2>2
<1>11. ASSUME NEW v \in Workers PROVE WorkerOK(v)'
  <2>1. CASE v # w
    BY <1>2, <1>7, <1>9, <2>1, WorkerStays
  <2>2. CASE v = w
    <3>1. rest \in Seq(ClaimTypes) /\ \A i \in DOMAIN rest : i + 1 \in DOMAIN claims[w] /\ rest[i] = claims[w][i + 1]
      BY <1>1, <1>2, HeldLines
    <3>2. ASSUME NEW i \in DOMAIN rest PROVE rest[i].line \in Lines /\ R!Accepted(rest[i].line) /\ rest[i].attempts <= Limit
      <4>1. rest[i] \in ClaimTypes
        BY <3>1
      <4> QED BY <3>1, <4>1 DEF RendersInv, CloudOK, WorkerOK, ClaimTypes
    <3>3. \A i \in DOMAIN rest : R!Accepted(rest[i].line)' /\ rest[i].attempts <= Limit'
      BY <1>8, <1>9, <3>2
    <3> QED BY <1>7, <2>2, <3>1, <3>3 DEF WorkerOK
  <2> QED BY <2>1, <2>2
<1>12. CloudOK'
  BY <1>7, <1>10, <1>11 DEF CloudOK
<1> QED BY <1>2, <1>9, <1>12, CloudStep

LEMMA WorkerDiesKeeps == ASSUME RendersInv, NEW w \in Workers, R!WorkerDies(w) PROVE RendersInv'
<1>1. /\ claims' = [claims EXCEPT ![w] = <<>>] /\ R!Trouble /\ faults' = faults + 1
      /\ UNCHANGED <<queue, ids, files, failures, partials, prints, fresh, jobs, pass>>
  BY DEF R!WorkerDies, R!Trouble, R!meta
<1>2. /\ claims' = [v \in Workers |-> claims'[v]] /\ claims'[w] = <<>>
      /\ \A v \in Workers \ {w} : claims'[v] = claims[v]
  BY <1>1 DEF RendersInv, CloudOK
<1>3. faults \in Nat /\ faults' \in Nat
  BY <1>1, FaultsAre DEF RendersInv
<1>4. ASSUME NEW l \in Lines PROVE LineOK(l)'
  <2>1. PICK before, after : before = Takers(l) /\ after = Takers(l)'
    OBVIOUS
  <2>2. before \subseteq Workers /\ after = before \ {w}
    BY <1>2, <2>1 DEF Takers
  <2>3. IsFiniteSet(before)
    BY <2>2, Numbers
  <2>4. Cardinality(after) = IF w \in before THEN Cardinality(before) - 1 ELSE Cardinality(before)
    BY <2>2, <2>3, FS_RemoveElement
  <2>5. PICK a, b : a = Cardinality(after) /\ b = Cardinality(before)
    OBVIOUS
  <2>6. a \in Nat /\ b \in Nat /\ b <= a + 1
    BY <2>2, <2>4, <2>5, Numbers
  <2>7. Bound(l)' = MaxAttempts - 1 + a + (faults + 1) /\ Bound(l) = MaxAttempts - 1 + b + faults
    BY <1>1, <2>1, <2>5 DEF Bound
  <2>8. Limit' = MaxAttempts + (faults + 1) + Cardinality(Workers) - 1
    BY <1>1 DEF Limit
  <2>9. /\ jobs[l] \in {R!NoJob} \cup JobType /\ jobs[l].attempts \in Int
        /\ jobs[l].attempts <= Limit /\ (l \in R!Pending => jobs[l].attempts <= Bound(l))
    BY NoJobIs DEF RendersInv, CloudOK, LineOK, JobType
  <2>10. jobs[l].attempts <= Limit'
    BY <1>3, <2>8, <2>9, Numbers DEF Limit
  <2>11. l \in R!Pending => jobs[l].attempts <= Bound(l)'
    BY <1>3, <2>6, <2>7, <2>9, Numbers
  <2> QED BY <1>1, <2>9, <2>10, <2>11 DEF LineOK, R!Pending, R!Accepted
<1>5. ASSUME NEW v \in Workers PROVE WorkerOK(v)'
  <2>1. CASE v = w
    BY <1>2, <2>1 DEF WorkerOK
  <2>2. CASE v # w
    BY <1>1, <1>2, <2>2, WorkerStays DEF R!Accepted
  <2> QED BY <2>1, <2>2
<1>6. CloudOK'
  BY <1>1, <1>2, <1>4, <1>5 DEF CloudOK, RendersInv
<1> QED BY <1>1, <1>6, CloudStep DEF R!Accepted
-----------------------------------------------------------------------------
(* The collector. *)
LEMMA CloudStays ==
  ASSUME RendersInv, UNCHANGED <<jobs, claims>>, R!Trouble \/ UNCHANGED faults
  PROVE  CloudOK'
<1>1. \A l \in Lines : LineOK(l)'
  BY LineStays
<1>2. \A w \in Workers : WorkerOK(w)'
  BY WorkerStays DEF R!Accepted
<1> QED BY <1>1, <1>2 DEF CloudOK, RendersInv

(* One pass takes a step that writes no meta. *)
PassMoves(p, new) ==
    /\ pass' = [pass EXCEPT ![p] = new]
    /\ UNCHANGED <<queue, ids, files, failures, partials, claims>>
    /\ R!Trouble \/ UNCHANGED faults
    /\ fresh \subseteq fresh' /\ prints \subseteq prints' /\ fresh' \subseteq prints' /\ prints' \subseteq ids

LEMMA PassStep ==
  ASSUME RendersInv, NEW p \in Passes, NEW new, PassMoves(p, new), CloudOK',
         \A l \in Lines : R!Accepted(l) => R!Accepted(l)', PassOK(p)',
         OnALine(p)' /\ OnePass => new.files = R!LinesOf(Head(new.todo)) \cap files
  PROVE  RendersInv'
<1>1. pass'[p] = new /\ \A q \in Passes \ {p} : pass'[q] = pass[q]
  BY DEF PassMoves, RendersInv, PluginOK
<1>2. PluginOK'
  BY FaultsAre DEF PassMoves, RendersInv, PluginOK
<1>3. ASSUME NEW q \in Passes PROVE PassOK(q)'
  <2>1. CASE q # p
    <3>1. pass'[q] = pass[q] /\ ids \subseteq ids' /\ fresh \subseteq fresh'
      BY <1>1, <2>1 DEF PassMoves
    <3> QED BY <3>1, PassStays DEF RendersInv
  <2> QED BY <2>1
<1>4. OnePass => Recorded'
  <2> SUFFICES ASSUME OnePass PROVE Recorded'
    OBVIOUS
  <2>1. \A q \in Passes : q = p
    BY DEF OnePass
  <2> QED BY <1>1, <2>1 DEF RendersInv, Recorded, PassMoves, OnALine
<1> QED BY <1>2, <1>3, <1>4 DEF RendersInv

LEMMA StartCollecting == ASSUME RendersInv, NEW p \in Passes, R!CollectStart(p) PROVE RendersInv'
<1>1. PICK todo : todo = R!First(R!InOrder(R!WithRenders))
  OBVIOUS
<1>2. PICK new : new = [pc |-> "order", todo |-> todo]
  OBVIOUS
<1>3. /\ pass' = [pass EXCEPT ![p] = new]
      /\ UNCHANGED <<queue, ids, files, failures, partials, prints, fresh, jobs, claims, faults>>
  BY <1>1, <1>2 DEF R!CollectStart, R!meta
<1>4. todo \in Seq(R!AllOrders)
  <2>1. todo \in Seq(R!WithRenders \cap Lines)
    BY <1>1, LinesInOrder, FirstOf
  <2>2. R!WithRenders \cap Lines \subseteq R!AllOrders
    BY DEF R!WithRenders
  <2> QED BY <2>1, <2>2, SeqFacts
<1>5. PassMoves(p, new)
  BY <1>3 DEF PassMoves, RendersInv, PluginOK
<1>6. pass'[p] = new
  BY <1>3 DEF RendersInv, PluginOK
<1>7. PassOK(p)' /\ ~OnALine(p)'
  BY <1>2, <1>4, <1>6 DEF PassOK, OnALine
<1>8. CloudOK'
  BY <1>3, CloudStays
<1> QED BY <1>3, <1>5, <1>7, <1>8, PassStep DEF R!Accepted

LEMMA OpenKeeps == ASSUME RendersInv, NEW p \in Passes, R!OpenOrder(p) PROVE RendersInv'
<1>1. PICK own : own = R!LinesOf(Head(pass[p].todo))
  OBVIOUS
<1>2. PICK lines : lines = R!InOrder((own \cap ids) \ (files \cup failures))
  OBVIOUS
<1>3. PICK new : new = [pc |-> "line", todo |-> pass[p].todo, lines |-> lines,
                        files |-> own \cap files, got |-> {},
                        failures |-> own \cap failures, failed |-> {}, told |-> {}]
  OBVIOUS
<1>4. /\ pass[p].pc = "order" /\ pass[p].todo # <<>>
      /\ pass' = [pass EXCEPT ![p] = new]
      /\ UNCHANGED <<queue, ids, files, failures, partials, prints, fresh, jobs, claims, faults>>
  BY <1>1, <1>2, <1>3 DEF R!OpenOrder, R!meta
<1>5. lines \in Seq(ids)
  <2>1. PICK s : s = (own \cap ids) \ (files \cup failures)
    OBVIOUS
  <2>2. lines \in Seq(s \cap Lines) /\ s \cap Lines \subseteq ids
    BY <1>2, <2>1, LinesInOrder
  <2> QED BY <2>2, SeqFacts
<1>6. PassMoves(p, new)
  BY <1>4 DEF PassMoves, RendersInv, PluginOK
<1>7. pass'[p] = new
  BY <1>4 DEF RendersInv, PluginOK
<1>8. own \cap files \subseteq ids /\ own \cap failures \subseteq ids /\ pass[p].todo \in Seq(R!AllOrders)
  BY <1>4 DEF RendersInv, PluginOK, PassOK
<1>9. PassOK(p)' /\ OnALine(p)'
  BY <1>3, <1>4, <1>5, <1>7, <1>8 DEF PassOK, OnALine
<1>10. new.files = R!LinesOf(Head(new.todo)) \cap files
  BY <1>1, <1>3
<1>11. CloudOK'
  BY <1>4, CloudStays
<1> QED BY <1>4, <1>6, <1>9, <1>10, <1>11, PassStep DEF R!Accepted

LEMMA LineFacts ==
  ASSUME RendersInv, NEW p \in Passes, OnALine(p), pass[p].lines # <<>>
  PROVE  Head(pass[p].lines) \in ids /\ Tail(pass[p].lines) \in Seq(ids)
  BY NotEmpty DEF RendersInv, PassOK

(* A pass goes on with the lines of its order. *)
LEMMA GoesOn ==
  ASSUME RendersInv, NEW p \in Passes, OnALine(p), NEW new, PassMoves(p, new), CloudOK',
         \A l \in Lines : R!Accepted(l) => R!Accepted(l)',
         new.pc \in {"line", "confirm"}, new.todo = pass[p].todo, new.lines \in Seq(ids),
         new.files = pass[p].files, new.failures = pass[p].failures,
         new.got \subseteq fresh', new.failed \subseteq ids, new.told \subseteq ids,
         new.pc = "confirm" => new.lines # <<>> /\ Head(new.lines) \in new.got
  PROVE  RendersInv'
<1>1. pass'[p] = new /\ ids' = ids
  BY DEF PassMoves, RendersInv, PluginOK
<1>2. PassOK(p)' /\ OnALine(p)'
  BY <1>1 DEF PassOK, OnALine, RendersInv
<1>3. OnePass => new.files = R!LinesOf(Head(new.todo)) \cap files
  BY DEF RendersInv, Recorded
<1> QED BY <1>2, <1>3, PassStep

(* A pass ends, or leaves its order. *)
LEMMA Leaves ==
  ASSUME RendersInv, NEW p \in Passes, NEW new, PassMoves(p, new), UNCHANGED jobs,
         new.pc = "idle"
  PROVE  RendersInv'
<1>1. pass'[p] = new
  BY DEF PassMoves, RendersInv, PluginOK
<1>2. PassOK(p)' /\ ~OnALine(p)'
  BY <1>1 DEF PassOK, OnALine
<1>3. CloudOK'
  BY CloudStays DEF PassMoves
<1> QED BY <1>2, <1>3, PassStep DEF R!Accepted

LEMMA FetchKeeps == ASSUME RendersInv, NEW p \in Passes, R!Fetch(p) PROVE RendersInv'
<1>1. PICK l : l = Head(pass[p].lines)
  OBVIOUS
<1>2. OnALine(p) /\ pass[p].pc = "line" /\ pass[p].lines # <<>>
  BY DEF R!Fetch, R!AtLine, OnALine
<1>3. l \in ids /\ Tail(pass[p].lines) \in Seq(ids)
  BY <1>1, <1>2, LineFacts
<1>4. UNCHANGED <<queue, ids, files, failures, partials, jobs, claims, faults>>
  BY DEF R!Fetch, R!meta
<1>5. CloudOK' /\ \A x \in Lines : R!Accepted(x) => R!Accepted(x)'
  BY <1>4, CloudStays DEF R!Accepted
<1>6. /\ pass[p].lines \in Seq(ids) /\ pass[p].got \subseteq fresh
      /\ pass[p].failed \subseteq ids /\ pass[p].told \subseteq ids
  BY <1>2 DEF RendersInv, PassOK
<1>7. fresh \subseteq prints /\ prints \subseteq ids
  BY DEF RendersInv, PluginOK
<1>8. CASE jobs[l].png
  <2>1. PICK new : new = [pass[p] EXCEPT !.pc = "confirm", !.got = @ \cup {l}]
    OBVIOUS
  <2>2. /\ pass' = [pass EXCEPT ![p].pc = "confirm", ![p].got = @ \cup {l}]
        /\ prints' = prints \cup {l} /\ fresh' = fresh \cup {l}
    BY <1>1, <1>8 DEF R!Fetch, R!Written
  <2>3. pass' = [pass EXCEPT ![p] = new]
    <3>1. p \in DOMAIN pass
      BY DEF RendersInv, PluginOK
    <3>2. pass' = [pass EXCEPT ![p] = [pass[p] EXCEPT !.pc = "confirm", !.got = @ \cup {l}]]
      BY <2>2, <3>1
    <3> QED BY <2>1, <3>2
  <2>4. /\ new.pc = "confirm" /\ new.todo = pass[p].todo /\ new.lines = pass[p].lines
        /\ new.files = pass[p].files /\ new.failures = pass[p].failures
        /\ new.got = pass[p].got \cup {l} /\ new.failed = pass[p].failed /\ new.told = pass[p].told
    BY <2>1
  <2>5. PassMoves(p, new)
    BY <1>3, <1>4, <1>7, <2>2, <2>3 DEF PassMoves
  <2> QED BY <1>1, <1>2, <1>5, <1>6, <2>2, <2>4, <2>5, GoesOn
<1>9. CASE ~jobs[l].png
  <2>1. PICK failed : failed = R!Failed(l)
    OBVIOUS
  <2>2. failed \subseteq ids
    BY <1>3, <2>1 DEF R!Failed
  <2>3. PICK new : new = R!NextLine([pass[p] EXCEPT !.failed = @ \cup failed])
    OBVIOUS
  <2>4. pass' = [pass EXCEPT ![p] = new] /\ UNCHANGED <<prints, fresh>>
    BY <1>1, <1>9, <2>1, <2>3 DEF R!Fetch
  <2>5. /\ new.pc = "line" /\ new.todo = pass[p].todo /\ new.lines = Tail(pass[p].lines)
        /\ new.files = pass[p].files /\ new.failures = pass[p].failures
        /\ new.got = pass[p].got /\ new.failed = pass[p].failed \cup failed /\ new.told = pass[p].told
    BY <2>3 DEF R!NextLine
  <2>6. PassMoves(p, new)
    BY <1>4, <1>7, <2>4 DEF PassMoves
  <2> QED BY <1>2, <1>3, <1>5, <1>6, <2>2, <2>4, <2>5, <2>6, GoesOn
<1> QED BY <1>8, <1>9

LEMMA SkippedKeeps == ASSUME RendersInv, NEW p \in Passes, R!FetchSkipped(p) PROVE RendersInv'
<1>1. PICK new : new = R!NextLine(pass[p])
  OBVIOUS
<1>2. OnALine(p) /\ pass[p].lines # <<>>
  BY DEF R!FetchSkipped, R!AtLine, OnALine
<1>3. /\ pass' = [pass EXCEPT ![p] = new] /\ R!Trouble
      /\ UNCHANGED <<queue, ids, files, failures, partials, prints, fresh, jobs, claims>>
  BY <1>1 DEF R!FetchSkipped, R!meta
<1>4. /\ new.pc = "line" /\ new.todo = pass[p].todo /\ new.lines = Tail(pass[p].lines)
      /\ new.files = pass[p].files /\ new.failures = pass[p].failures
      /\ new.got = pass[p].got /\ new.failed = pass[p].failed /\ new.told = pass[p].told
  BY <1>1 DEF R!NextLine
<1>5. CloudOK' /\ \A x \in Lines : R!Accepted(x) => R!Accepted(x)'
  BY <1>3, CloudStays DEF R!Accepted
<1>6. PassMoves(p, new)
  BY <1>3 DEF PassMoves, RendersInv, PluginOK
<1>7. pass[p].got \subseteq fresh /\ pass[p].failed \subseteq ids /\ pass[p].told \subseteq ids
  BY <1>2 DEF RendersInv, PassOK
<1> QED BY <1>2, <1>3, <1>4, <1>5, <1>6, <1>7, LineFacts, GoesOn

LEMMA StopKeeps ==
  ASSUME RendersInv, NEW p \in Passes, R!FetchFails(p) \/ R!PassDies(p) \/ R!CollectEnd(p)
  PROVE  RendersInv'
<1>1. /\ pass' = [pass EXCEPT ![p] = R!Idle]
      /\ R!Trouble \/ UNCHANGED faults
      /\ UNCHANGED <<queue, ids, files, failures, partials, prints, fresh, jobs, claims>>
  BY DEF R!FetchFails, R!PassDies, R!CollectEnd, R!Stops, R!meta
<1>2. PICK new : new = R!Idle
  OBVIOUS
<1>3. PassMoves(p, new) /\ new.pc = "idle"
  BY <1>1, <1>2 DEF PassMoves, RendersInv, PluginOK, R!Idle
<1> QED BY <1>1, <1>3, Leaves

(* The cloud is told, and lets go of the bytes. *)
LEMMA CollectedKeeps ==
  ASSUME RendersInv, NEW l \in ids, jobs' = [jobs EXCEPT ![l] = R!Collected(@)],
         UNCHANGED claims, R!Trouble \/ UNCHANGED faults
  PROVE  CloudOK' /\ \A x \in Lines : R!Accepted(x) => R!Accepted(x)'
<1>1. l \in Lines /\ jobs[l] \in JobType /\ jobs = [x \in Lines |-> jobs[x]] /\ LineOK(l)
  BY DEF RendersInv, PluginOK, CloudOK, LineOK, R!Accepted
<1>2. PICK new : new = R!Collected(jobs[l])
  OBVIOUS
<1>3. /\ new \in JobType /\ new.attempts = jobs[l].attempts
      /\ new.done = jobs[l].done /\ new.dead = jobs[l].dead
  BY <1>1, <1>2 DEF R!Collected, JobType
<1>4. jobs'[l] = new /\ \A x \in Lines \ {l} : jobs'[x] = jobs[x]
  BY <1>1, <1>2
<1>5. \A x \in Lines : R!Accepted(x) => R!Accepted(x)'
  BY <1>3, <1>4, NoJobIs DEF R!Accepted
<1>6. ASSUME NEW x \in Lines PROVE LineOK(x)'
  <2>1. CASE x # l
    BY <1>4, <2>1, LineStays
  <2>2. CASE x = l
    <3>1. faults' \in Nat /\ faults \in Nat /\ faults <= faults'
      BY FaultsAre DEF RendersInv
    <3>2. Takers(l)' = Takers(l) /\ Takers(l) \subseteq Workers
      BY DEF Takers
    <3>3. PICK n : n = Cardinality(Takers(l))
      OBVIOUS
    <3>4. n \in Nat /\ Bound(l) = MaxAttempts - 1 + n + faults /\ Bound(l)' = MaxAttempts - 1 + n + faults'
      BY <3>2, <3>3, Numbers DEF Bound
    <3>5. l \in R!Pending' => l \in R!Pending
      BY <1>1, <1>3, <1>4, NoJobIs DEF R!Pending, R!Accepted
    <3>6. jobs[l].attempts \in Nat /\ jobs[l].attempts <= Limit
      BY <1>1 DEF JobType, LineOK
    <3>7. jobs[l].attempts <= Limit'
      BY <3>1, <3>6, Numbers DEF Limit
    <3>8. l \in R!Pending' => jobs[l].attempts <= Bound(l)'
      BY <1>1, <3>1, <3>4, <3>5, <3>6, Numbers DEF LineOK
    <3> QED BY <1>3, <1>4, <2>2, <3>7, <3>8 DEF LineOK
  <2> QED BY <2>1, <2>2
<1>7. \A w \in Workers : WorkerOK(w)'
  BY <1>5, WorkerStays
<1> QED BY <1>1, <1>5, <1>6, <1>7 DEF CloudOK, RendersInv

LEMMA ConfirmKeeps == ASSUME RendersInv, NEW p \in Passes, R!Confirm(p) PROVE RendersInv'
<1>1. PICK l : l = Head(pass[p].lines)
  OBVIOUS
<1>2. OnALine(p) /\ pass[p].lines # <<>>
  BY DEF R!Confirm, OnALine, RendersInv, PassOK
<1>3. l \in ids /\ Tail(pass[p].lines) \in Seq(ids)
  BY <1>1, <1>2, LineFacts
<1>4. /\ UNCHANGED <<queue, ids, files, failures, partials, prints, fresh, claims>>
      /\ R!Trouble \/ UNCHANGED faults
  BY DEF R!Confirm, R!meta
<1>5. PICK told : told = R!Told(l)
  OBVIOUS
<1>6. told \subseteq ids
  BY <1>3, <1>5 DEF R!Told
<1>7. PICK more \in {{}, told} : pass' = [pass EXCEPT ![p] = R!NextLine([pass[p] EXCEPT !.told = @ \cup more])]
  <2>1. CASE pass' = [pass EXCEPT ![p] = R!NextLine([pass[p] EXCEPT !.told = @ \cup told])]
    BY <2>1
  <2>2. CASE pass' = [pass EXCEPT ![p] = R!NextLine(pass[p])]
    <3>1. PICK t : t = pass[p]
      OBVIOUS
    <3>2. R!NextLine([t EXCEPT !.told = @ \cup {}]) = R!NextLine(t)
      BY DEF R!NextLine
    <3> QED BY <2>2, <3>1, <3>2
  <2>3. \/ pass' = [pass EXCEPT ![p] = R!NextLine([pass[p] EXCEPT !.told = @ \cup told])]
        \/ pass' = [pass EXCEPT ![p] = R!NextLine(@)]
    BY <1>1, <1>5 DEF R!Confirm
  <2>4. p \in DOMAIN pass
    BY DEF RendersInv, PluginOK
  <2> QED BY <2>1, <2>2, <2>3, <2>4
<1>8. PICK new : new = R!NextLine([pass[p] EXCEPT !.told = @ \cup more])
  OBVIOUS
<1>9. /\ new.pc = "line" /\ new.todo = pass[p].todo /\ new.lines = Tail(pass[p].lines)
      /\ new.files = pass[p].files /\ new.failures = pass[p].failures
      /\ new.got = pass[p].got /\ new.failed = pass[p].failed /\ new.told = pass[p].told \cup more
  BY <1>8 DEF R!NextLine
<1>10. CloudOK' /\ \A x \in Lines : R!Accepted(x) => R!Accepted(x)'
  <2>1. CASE UNCHANGED jobs
    BY <1>4, <2>1, CloudStays DEF R!Accepted
  <2>2. CASE jobs' = [jobs EXCEPT ![l] = R!Collected(@)]
    BY <1>3, <1>4, <2>2, CollectedKeeps
  <2> QED BY <1>1, <2>1, <2>2 DEF R!Confirm
<1>11. PassMoves(p, new)
  BY <1>4, <1>7, <1>8 DEF PassMoves, RendersInv, PluginOK
<1>12. pass[p].got \subseteq fresh /\ pass[p].failed \subseteq ids /\ pass[p].told \subseteq ids
  BY <1>2 DEF RendersInv, PassOK
<1>13. new.told \subseteq ids /\ new.got \subseteq fresh'
  BY <1>4, <1>6, <1>7, <1>9, <1>12
<1> QED BY <1>2, <1>3, <1>9, <1>10, <1>11, <1>12, <1>13, GoesOn

LEMMA SaveKeeps == ASSUME RendersInv, NEW p \in Passes, R!SaveOrder(p) PROVE RendersInv'
<1>1. PICK own : own = R!LinesOf(Head(pass[p].todo))
  OBVIOUS
<1>0. PICK rest : rest = Tail(pass[p].todo)
  OBVIOUS
<1>2. PICK new : new = [pc |-> "order", todo |-> rest]
  OBVIOUS
<1>3. /\ pass' = [pass EXCEPT ![p] = new] /\ OnALine(p)
      /\ files' = R!WriteBack(files, own, pass[p].files, pass[p].got)
      /\ failures' = R!WriteBack(failures, own, pass[p].failures, pass[p].failed)
      /\ partials' = R!WriteBack(partials, own, own \cap partials, pass[p].told)
      /\ UNCHANGED <<queue, ids, prints, fresh, jobs, claims, faults>>
  BY <1>0, <1>1, <1>2 DEF R!SaveOrder, OnALine
<1>4. /\ pass[p].todo # <<>> /\ pass[p].todo \in Seq(R!AllOrders)
      /\ pass[p].files \subseteq ids /\ pass[p].got \subseteq fresh
      /\ pass[p].failures \subseteq ids /\ pass[p].failed \subseteq ids /\ pass[p].told \subseteq ids
  BY <1>3 DEF RendersInv, PassOK, OnALine
<1>5. /\ files \subseteq ids /\ failures \subseteq ids /\ partials \subseteq ids
      /\ fresh \subseteq prints /\ prints \subseteq ids
  BY DEF RendersInv, PluginOK
<1>6. files' \subseteq ids /\ failures' \subseteq ids /\ partials' \subseteq ids
  BY <1>3, <1>4, <1>5 DEF R!WriteBack
<1>7. pass'[p] = new /\ \A q \in Passes \ {p} : pass'[q] = pass[q]
  BY <1>3 DEF RendersInv, PluginOK
<1>8. PluginOK'
  BY <1>3, <1>6 DEF RendersInv, PluginOK, R!Accepted
<1>9. CloudOK'
  BY <1>3, CloudStays
<1>10. ASSUME NEW q \in Passes PROVE PassOK(q)'
  <2>1. CASE q # p
    BY <1>3, <1>7, <2>1, PassStays DEF RendersInv
  <2>2. CASE q = p
    <3>1. rest \in Seq(R!AllOrders)
      BY <1>0, <1>4, NotEmpty
    <3>2. pass'[q].pc = "order" /\ pass'[q].todo \in Seq(R!AllOrders)
      BY <1>2, <1>7, <2>2, <3>1
    <3> QED BY <3>2 DEF PassOK, OnALine
  <2> QED BY <2>1, <2>2
<1>11. OnePass => Recorded'
  <2> SUFFICES ASSUME OnePass PROVE Recorded'
    OBVIOUS
  <2>1. \A q \in Passes : q = p
    BY DEF OnePass
  <2>2. pass[p].files = own \cap files /\ files \subseteq prints
    BY <1>1, <1>3 DEF RendersInv, Recorded
  <2>3. files' \subseteq prints
    BY <1>3, <1>4, <1>5, <2>2 DEF R!WriteBack
  <2> QED BY <1>2, <1>3, <1>7, <2>1, <2>3 DEF Recorded, OnALine
<1> QED BY <1>8, <1>9, <1>10, <1>11 DEF RendersInv

LEMMA AgedKeeps == ASSUME RendersInv, NEW l \in Lines, R!Ages(l) PROVE RendersInv'
<1>1. /\ fresh' = fresh \ {l} /\ \A p \in Passes : OnALine(p) => l \notin pass[p].got
      /\ UNCHANGED <<queue, ids, files, failures, partials, prints, jobs, claims, pass, faults>>
  BY DEF R!Ages, OnALine, R!meta
<1>2. PluginOK'
  BY <1>1 DEF RendersInv, PluginOK, R!Accepted
<1>3. CloudOK'
  BY <1>1, CloudStays
<1>4. ASSUME NEW p \in Passes PROVE PassOK(p)'
  BY <1>1, PassStays DEF RendersInv
<1>5. OnePass => Recorded'
  BY <1>1 DEF RendersInv, Recorded, OnALine
<1> QED BY <1>2, <1>3, <1>4, <1>5 DEF RendersInv

LEMMA SweptKeeps == ASSUME RendersInv, R!Sweep PROVE RendersInv'
<1>1. /\ prints' = prints \cap (fresh \cup files)
      /\ UNCHANGED <<queue, ids, files, failures, partials, fresh, jobs, claims, pass, faults>>
  BY DEF R!Sweep, R!PrintFileNames, R!meta
<1>2. PluginOK'
  BY <1>1 DEF RendersInv, PluginOK, R!Accepted
<1>3. CloudOK'
  BY <1>1, CloudStays
<1>4. ASSUME NEW p \in Passes PROVE PassOK(p)'
  BY <1>1, PassStays DEF RendersInv
<1>5. OnePass => Recorded'
  BY <1>1 DEF RendersInv, Recorded, OnALine
<1> QED BY <1>2, <1>3, <1>4, <1>5 DEF RendersInv

LEMMA StutterKeeps == ASSUME RendersInv, UNCHANGED renders PROVE RendersInv'
<1>1. UNCHANGED <<queue, ids, files, failures, partials, prints, fresh, jobs, claims, pass, faults>>
  BY DEF renders
<1>2. PluginOK'
  BY <1>1 DEF RendersInv, PluginOK, R!Accepted
<1>3. CloudOK'
  BY <1>1, CloudStays
<1>4. ASSUME NEW p \in Passes PROVE PassOK(p)'
  BY <1>1, PassStays DEF RendersInv
<1>5. OnePass => Recorded'
  BY <1>1 DEF RendersInv, Recorded, OnALine
<1> QED BY <1>2, <1>3, <1>4, <1>5 DEF RendersInv

LEMMA RendersInit == ASSUME R!Init PROVE RendersInv
<1>1. PluginOK
  <2>1. 0 \in 0 .. RenderTroubles
    BY Numbers
  <2> QED BY <2>1 DEF R!Init, PluginOK
<1>2. ASSUME NEW l \in Lines PROVE LineOK(l)
  <2>1. jobs[l] = R!NoJob /\ faults = 0
    BY DEF R!Init
  <2>2. -1 <= Limit
    BY <2>1, Numbers DEF Limit
  <2> QED BY <2>1, <2>2, NoJobIs DEF LineOK, R!Pending, R!Accepted
<1>3. CloudOK
  BY <1>2 DEF R!Init, CloudOK, WorkerOK
<1>4. \A p \in Passes : PassOK(p) /\ ~OnALine(p)
  BY DEF R!Init, R!Idle, PassOK, OnALine
<1>5. Recorded
  BY <1>4 DEF R!Init, Recorded
<1> QED BY <1>1, <1>3, <1>4, <1>5 DEF RendersInv

LEMMA RendersStep == ASSUME RendersInv, R!Next PROVE RendersInv'
<1>1. ASSUME NEW o \in R!AllOrders, R!CheckedOut(o) \/ R!Request(o) \/ R!RequestFails(o) \/ R!RequestRefused(o)
      PROVE  RendersInv'
  BY <1>1, CheckedOutKeeps, RequestKeeps, RequestFailsKeeps, RefusedKeeps
<1>2. ASSUME NEW w \in Workers, R!Claim(w) \/ R!Render(w) \/ R!WorkerDies(w) PROVE RendersInv'
  BY <1>2, ClaimTaken, RenderKeeps, WorkerDiesKeeps
<1>3. ASSUME NEW p \in Passes,
             \/ R!CollectStart(p) \/ R!OpenOrder(p) \/ R!Fetch(p) \/ R!FetchFails(p) \/ R!FetchSkipped(p)
             \/ R!Confirm(p) \/ R!SaveOrder(p) \/ R!CollectEnd(p) \/ R!PassDies(p)
      PROVE  RendersInv'
  BY <1>3, StartCollecting, OpenKeeps, FetchKeeps, SkippedKeeps, StopKeeps, ConfirmKeeps, SaveKeeps
<1>4. ASSUME NEW l \in Lines, R!Ages(l) PROVE RendersInv'
  BY <1>4, AgedKeeps
<1> QED BY <1>1, <1>2, <1>3, <1>4, SweptKeeps DEF R!Next
-----------------------------------------------------------------------------
(* What was promised to an order about its print files. *)
LEMMA FinishedIsKept == ASSUME RendersInv, R!Next \/ UNCHANGED renders PROVE R!KeepsFinished
<1> SUFFICES ASSUME NEW l \in Lines, R!Accepted(l), jobs[l].done PROVE jobs'[l].done
  BY DEF R!KeepsFinished
<1>1. jobs[l] \in JobType /\ CloudOK
  BY DEF RendersInv, CloudOK, LineOK, R!Accepted
<1>2. ASSUME NEW ls, R!Accept(ls) PROVE jobs'[l].done
  BY <1>1, <1>2, AcceptIs DEF R!Accepted
<1>3. ASSUME NEW o, R!Request(o) \/ R!RequestFails(o) \/ R!RequestRefused(o) PROVE jobs'[l].done
  BY <1>2, <1>3 DEF R!Request, R!RequestFails, R!RequestRefused
<1>4. ASSUME NEW w \in Workers, R!Claim(w) PROVE jobs'[l].done
  <2>1. PICK taken : jobs' = [x \in Lines |-> IF x \in taken THEN [jobs[x] EXCEPT !.attempts = @ + 1] ELSE jobs[x]]
    BY <1>4 DEF R!Claim
  <2> QED BY <1>1, <2>1 DEF JobType
<1>5. ASSUME NEW w \in Workers, R!Render(w) PROVE jobs'[l].done
  <2>1. PICK x, n : x = Head(claims[w]).line /\ n = Head(claims[w]).attempts
    OBVIOUS
  <2>2. x \in Lines /\ R!Accepted(x) /\ n \in Nat
    BY <1>5, <2>1, HeldLines DEF R!Render
  <2>3. jobs' = [jobs EXCEPT ![x] = IF x \in BadScenes THEN R!NotRendered(@, n) ELSE R!Rendered(@, n, x)]
    BY <1>5, <2>1 DEF R!Render
  <2>4. CASE x = l
    BY <1>1, <2>2, <2>3, <2>4, OutcomeIs DEF CloudOK
  <2>5. CASE x # l
    BY <1>1, <2>3, <2>5 DEF CloudOK
  <2> QED BY <2>4, <2>5
<1>6. ASSUME NEW p \in Passes, R!Confirm(p) PROVE jobs'[l].done
  <2>1. PICK x : jobs' = [jobs EXCEPT ![x] = R!Collected(@)] \/ UNCHANGED jobs
    BY <1>6 DEF R!Confirm
  <2>2. R!Collected(jobs[l]).done
    BY <1>1 DEF R!Collected, JobType
  <2> QED BY <1>1, <2>1, <2>2 DEF CloudOK
<1>7. ASSUME NEW o, R!CheckedOut(o) PROVE jobs'[l].done
  BY <1>7 DEF R!CheckedOut
<1>8. ASSUME NEW w, R!WorkerDies(w) PROVE jobs'[l].done
  BY <1>8 DEF R!WorkerDies
<1>9. ASSUME NEW p,
             \/ R!CollectStart(p) \/ R!OpenOrder(p) \/ R!Fetch(p) \/ R!FetchFails(p) \/ R!FetchSkipped(p)
             \/ R!SaveOrder(p) \/ R!CollectEnd(p) \/ R!PassDies(p)
      PROVE  jobs'[l].done
  BY <1>9 DEF R!CollectStart, R!OpenOrder, R!Fetch, R!FetchFails, R!FetchSkipped, R!SaveOrder,
              R!CollectEnd, R!PassDies
<1>10. ASSUME NEW x, R!Ages(x) PROVE jobs'[l].done
  BY <1>10 DEF R!Ages
<1>11. CASE R!Sweep \/ UNCHANGED renders
  BY <1>11 DEF R!Sweep, renders
<1> QED BY <1>3, <1>4, <1>5, <1>6, <1>7, <1>8, <1>9, <1>10, <1>11 DEF R!Next

LEMMA BytesAreKept == ASSUME RendersInv, R!Next \/ UNCHANGED renders PROVE R!KeepsBytes
<1> SUFFICES ASSUME NEW l \in Lines, R!Accepted(l), jobs[l].png PROVE ~jobs'[l].png => l \in prints
  BY DEF R!KeepsBytes
<1>1. jobs[l] \in JobType /\ CloudOK
  BY DEF RendersInv, CloudOK, LineOK, R!Accepted
<1>2. ASSUME NEW ls, R!Accept(ls) PROVE jobs'[l].png
  BY <1>1, <1>2, AcceptIs DEF R!Accepted
<1>3. ASSUME NEW o, R!Request(o) \/ R!RequestFails(o) \/ R!RequestRefused(o) PROVE jobs'[l].png
  BY <1>2, <1>3 DEF R!Request, R!RequestFails, R!RequestRefused
<1>4. ASSUME NEW w \in Workers, R!Claim(w) PROVE jobs'[l].png
  <2>1. PICK taken : jobs' = [x \in Lines |-> IF x \in taken THEN [jobs[x] EXCEPT !.attempts = @ + 1] ELSE jobs[x]]
    BY <1>4 DEF R!Claim
  <2> QED BY <1>1, <2>1 DEF JobType
<1>5. ASSUME NEW w \in Workers, R!Render(w) PROVE jobs'[l].png
  <2>1. PICK x, n : x = Head(claims[w]).line /\ n = Head(claims[w]).attempts
    OBVIOUS
  <2>2. jobs' = [jobs EXCEPT ![x] = IF x \in BadScenes THEN R!NotRendered(@, n) ELSE R!Rendered(@, n, x)]
    BY <1>5, <2>1 DEF R!Render
  <2>3. R!NotRendered(jobs[l], n).png /\ R!Rendered(jobs[l], n, l).png
    BY <1>1 DEF R!NotRendered, R!Rendered, JobType
  <2>4. CASE x = l
    BY <1>1, <2>2, <2>3, <2>4 DEF CloudOK
  <2>5. CASE x # l
    BY <1>1, <2>2, <2>5 DEF CloudOK
  <2> QED BY <2>4, <2>5
<1>6. ASSUME NEW p \in Passes, R!Confirm(p) PROVE ~jobs'[l].png => l \in prints
  <2>1. PICK x : x = Head(pass[p].lines)
    OBVIOUS
  <2>2. jobs' = [jobs EXCEPT ![x] = R!Collected(@)] \/ UNCHANGED jobs
    BY <1>6, <2>1 DEF R!Confirm
  <2>3. pass[p].pc = "confirm"
    BY <1>6 DEF R!Confirm
  <2>4. x \in prints
    BY <2>1, <2>3 DEF RendersInv, PassOK, OnALine, PluginOK
  <2>5. x # l => jobs'[l] = jobs[l]
    BY <1>1, <2>2 DEF CloudOK
  <2> QED BY <2>4, <2>5
<1>7. ASSUME NEW o, R!CheckedOut(o) PROVE jobs'[l].png
  BY <1>7 DEF R!CheckedOut
<1>8. ASSUME NEW w, R!WorkerDies(w) PROVE jobs'[l].png
  BY <1>8 DEF R!WorkerDies
<1>9. ASSUME NEW p,
             \/ R!CollectStart(p) \/ R!OpenOrder(p) \/ R!Fetch(p) \/ R!FetchFails(p) \/ R!FetchSkipped(p)
             \/ R!SaveOrder(p) \/ R!CollectEnd(p) \/ R!PassDies(p)
      PROVE  jobs'[l].png
  BY <1>9 DEF R!CollectStart, R!OpenOrder, R!Fetch, R!FetchFails, R!FetchSkipped, R!SaveOrder,
              R!CollectEnd, R!PassDies
<1>10. ASSUME NEW x, R!Ages(x) PROVE jobs'[l].png
  BY <1>10 DEF R!Ages
<1>11. CASE R!Sweep \/ UNCHANGED renders
  BY <1>11 DEF R!Sweep, renders
<1> QED BY <1>3, <1>4, <1>5, <1>6, <1>7, <1>8, <1>9, <1>10, <1>11 DEF R!Next
-----------------------------------------------------------------------------
(* The two, side by side. *)
FilesInv == UploadsInv /\ RendersInv

LEMMA FilesStart == ASSUME FilesInit PROVE FilesInv
  BY UploadsInit, RendersInit DEF FilesInit, FilesInv

LEMMA FilesStep ==
  ASSUME [FilesNext]_<<vars, renders, part>>
  PROVE  [Next]_vars /\ (R!Next \/ UNCHANGED renders)
  BY DEF FilesNext, Uploading, Rendering

LEMMA FilesKeep == ASSUME FilesInv, [FilesNext]_<<vars, renders, part>> PROVE FilesInv'
  BY FilesStep, UploadsStep, RendersStep, StutterKeeps DEF FilesInv

LEMMA FilesAreTypedThen == ASSUME FilesInv PROVE FilesTypeOK
<1>1. TypeOK
  <2>1. \A u \in Uploads : rows[u].owner \in Orders \cup {0}
    BY DEF FilesInv, UploadsInv, ShopOK, RowTypes
  <2>2. DOMAIN request = Uploads /\ DOMAIN rows = Uploads /\ DOMAIN orders = Orders
    BY DEF FilesInv, UploadsInv, ShopOK
  <2> QED BY <2>1, <2>2 DEF FilesInv, UploadsInv, ShopOK, UploadOK, TypeOK, Keys
<1>2. R!TypeOK
  <2>1. R!ToSet(queue) \subseteq R!AllOrders
    BY ToSetIsIts DEF FilesInv, RendersInv, PluginOK, ToSet
  <2> QED BY <2>1 DEF FilesInv, RendersInv, PluginOK, R!TypeOK
<1> QED BY <1>1, <1>2 DEF FilesTypeOK

LEMMA FilesAreAccountedThen == ASSUME ~QueryFails, OnePass, FilesInv PROVE FilesAreAccounted
<1>1. QuotaHolds /\ RecordedHasFile
  BY DEF FilesInv, UploadsInv
<1>2. R!GivenUpInTime
  BY CardinalityIsIts DEF FilesInv, RendersInv, CloudOK, LineOK, Limit, R!GivenUpInTime
<1>3. R!RecordedIsOnDisk
  BY DEF FilesInv, RendersInv, Recorded, R!RecordedIsOnDisk
<1> QED BY <1>1, <1>2, <1>3 DEF FilesAreAccounted

LEMMA PromisesThen ==
  ASSUME ~Overlapping, ~QueryFails, FilesInv, [FilesNext]_<<vars, renders, part>>
  PROVE  KeepsClaims /\ KeepsArtwork /\ R!KeepsFinished /\ R!KeepsBytes
  BY FilesStep, ClaimsAreKept, ArtworkIsKept, FinishedIsKept, BytesAreKept DEF FilesInv

(* Every record, file, claim and pass keeps its shape (UploadRepository.php,
   RenderCollector.php, render-jobs.service.ts). *)
THEOREM FilesAreTyped == FilesSpec => []FilesTypeOK
<1>1. FilesInv /\ [FilesNext]_<<vars, renders, part>> => FilesInv'
  BY FilesKeep
<1>2. FilesInv => FilesTypeOK
  BY FilesAreTypedThen
<1>3. FilesInit => FilesInv
  BY FilesStart
<1> QED BY <1>1, <1>2, <1>3, PTL DEF FilesSpec

(* However many uploads a shopper starts at once, a session stays within its
   quota, a recorded upload has its file until its release begins, a render job
   is tried no more often than it may be, and what an order records is on disk;
   where the sweep's query answers, and one collecting pass runs at a time
   (UploadQuota.php, UploadSweeper.php, render-worker.service.ts,
   RenderCollector.php). *)
THEOREM FilesStayAccounted ==
  ASSUME ~QueryFails, OnePass PROVE FilesSpec => []FilesAreAccounted
<1>1. FilesInv /\ [FilesNext]_<<vars, renders, part>> => FilesInv'
  BY FilesKeep
<1>2. FilesInv => FilesAreAccounted
  BY FilesAreAccountedThen
<1>3. FilesInit => FilesInv
  BY FilesStart
<1> QED BY <1>1, <1>2, <1>3, PTL DEF FilesSpec

(* A claimed upload stays with its order, no run deletes the artwork of an order,
   a finished render stays finished, and the cloud lets go of its bytes only when
   the plugin has them; where no checkout runs beside an expiry pass and the
   sweep's query answers (UploadExpirer.php, UploadSweeper.php,
   UploadPromoter.php, render-jobs.service.ts). *)
THEOREM OrdersKeepTheirFiles ==
  ASSUME ~Overlapping, ~QueryFails PROVE FilesSpec => PromisesAreKept
<1> DEFINE Kept == KeepsClaims /\ KeepsArtwork /\ R!KeepsFinished /\ R!KeepsBytes
<1>1. FilesInv /\ [FilesNext]_<<vars, renders, part>> => FilesInv'
  BY FilesKeep
<1>2. FilesInv /\ [FilesNext]_<<vars, renders, part>> => [Kept]_<<vars, renders>>
  BY PromisesThen
<1>3. FilesInit => FilesInv
  BY FilesStart
<1>4. FilesSpec => [][Kept]_<<vars, renders>>
  <2> HIDE DEF Kept
  <2> QED BY <1>1, <1>2, <1>3, PTL DEF FilesSpec
<1> QED BY <1>4 DEF PromisesAreKept
=============================================================================
