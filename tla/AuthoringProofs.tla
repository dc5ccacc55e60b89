--------------------------- MODULE AuthoringProofs ---------------------------
(* Theorems about the drafts of MCAccounts, for every number of rows, rules and
   requests; and the two properties of the run that need every part of it. *)
EXTENDS AccountsProofs

(* A tree of rows, which keep their kind and their parent. *)
Trees == {forest \in Seq(A!NodeType) : A!IsTree(forest)}
Grows(forest, next) ==
    \A n \in DOMAIN forest :
        n \in DOMAIN next /\ next[n].kind = forest[n].kind /\ next[n].parent = forest[n].parent

IsRow(forest, n, kinds) == n \in DOMAIN forest /\ forest[n].kind \in kinds

(* What a publish has read, and what it is to store. *)
ReadOK(forest, tree) ==
    \A n \in DOMAIN tree :
        /\ n \in DOMAIN forest /\ forest[n].kind # "set" /\ tree[n] \in A!NodeType
        /\ tree[n].kind = forest[n].kind /\ tree[n].parent = forest[n].parent
SnapOK(s) == s.rules = s.checked => A!Sound(s)

Stages == {"idle", "insert", "sole", "write", "cascade", "erase", "drop", "add", "save", "copy",
           "options", "values", "rules", "check", "store"}
Loading == {"options", "values", "rules", "check"}

(* A request names rows of the kind it works on. *)
InsertOK(forest, node) ==
    /\ node \in A!NodeType /\ node.kind # "set" /\ IsRow(forest, node.parent, {A!ParentKind[node.kind]})
    /\ node.default => node.kind = "value"
WriteOK(forest, e) ==
    /\ IsRow(forest, e.node, {"group", "option", "value"})
    /\ e.field \in {"on", "default"} /\ e.value \in BOOLEAN
    /\ e.field = "default" => forest[e.node].kind = "value"
CopyOK(forest, n, node) ==
    /\ IsRow(forest, n, {"set", "group", "option", "value"}) /\ node \in A!NodeType
    /\ node.kind = forest[n].kind /\ node.parent = forest[n].parent /\ node.live /\ ~node.default

EditOK(e, forest, k) ==
    /\ e.pc \in Stages /\ (e.pc = "idle" => e = A!Idle)
    /\ e.pc = "insert" => InsertOK(forest, e.node)
    /\ e.pc = "sole" => IsRow(forest, e.option, {"option"})
    /\ e.pc = "write" => WriteOK(forest, e)
    /\ e.pc = "cascade" => IsRow(forest, e.node, {"group", "option"})
    /\ e.pc = "erase" => IsRow(forest, e.node, {"value", "item"})
    /\ e.pc = "drop" => e.rule \in 1 .. k
    /\ e.pc = "add" => IsRow(forest, e.set, {"set"}) /\ e.draft \in A!DraftType
    /\ e.pc = "save" => e.rule \in 1 .. k /\ e.draft \in A!DraftType
    /\ e.pc = "copy" => CopyOK(forest, e.source, e.node)
    /\ e.pc \in Loading => ReadOK(forest, e.tree)
    /\ e.pc = "store" => SnapOK(e.snapshot)

(* One request at a time, what it checked of a target is so when it writes. *)
AimOK(e, forest, rs) ==
    /\ e.pc = "erase" => \A r \in DOMAIN rs : rs[r].live /\ rs[r].on => rs[r].target # e.node
    /\ e.pc \in {"add", "save"} =>
          A!Standing(forest, e.draft.target) /\ forest[e.draft.target].kind = e.draft.type

Busy(e) == e.pc # "idle"
SerialOK ==
    ~overlapped =>
        /\ \A c, d \in Requests : Busy(edits[c]) /\ Busy(edits[d]) => c = d
        /\ \A r \in A!Rules : A!Aims(nodes, rules[r])
        /\ \A c \in Requests : AimOK(edits[c], nodes, rules)

(* An option has one default, unless a request is to see to it, or was. *)
OneAt(forest, o) ==
    \A m, n \in DOMAIN forest :
        A!IsDefault(forest, m) /\ A!IsDefault(forest, n) /\ forest[m].parent = o /\ forest[n].parent = o => m = n
DefaultsOK == \A o \in A!Nodes : ~A!InTransit(o) => OneAt(nodes, o)

TreeOK == nodes \in Trees /\ rules \in Seq(A!RuleType) /\ A!RulesFit(nodes, rules) /\ A!CopiesAreOwn
EditsOK ==
    /\ edits = [c \in Requests |-> edits[c]]
    /\ \A c \in Requests : EditOK(edits[c], nodes, Len(rules))

AuthorInv ==
    /\ TreeOK /\ EditsOK /\ SerialOK /\ DefaultsOK
    /\ torn \subseteq A!Nodes /\ effort \in 0 .. MaxEffort /\ overlapped \in BOOLEAN
    /\ \A s \in published : SnapOK(s)
-----------------------------------------------------------------------------
(* Trees. *)
(* What the draft's definitions inherit is what the lemmas are about. *)
LEMMA SameNumbers == \A S, n : A!Ascending(S, n) = Ascending(S, n)
<1>1. \A q, keep : A!Only(q, keep) = Only(q, keep)
  BY Zenon DEF A!Only, Only
<1> QED BY <1>1, Zenon DEF A!Ascending, Ascending

LEMMA SameMaps == \A f : A!IsInjective(f) = IsInjective(f)
  BY Zenon DEF A!IsInjective, IsInjective

LEMMA ASize == \A S : A!Cardinality(S) = Cardinality(S)
  BY Zenon DEF A!Cardinality, Cardinality

LEMMA TreeFacts ==
  ASSUME NEW forest \in Trees
  PROVE  /\ DOMAIN forest = 1 .. Len(forest) /\ Len(forest) \in Nat /\ forest \in Seq(A!NodeType) /\ 0 \notin DOMAIN forest
         /\ \A n \in DOMAIN forest : n \in Nat /\ n # 0 /\ forest[n] \in A!NodeType
         /\ \A n \in DOMAIN forest : A!Up(forest, n) = forest[n].parent /\ A!Up(forest, 0) = 0
         /\ \A n \in DOMAIN forest : forest[n].kind = "set" => forest[n].parent = 0
         /\ \A n \in DOMAIN forest : forest[n].kind # "set" =>
               forest[n].parent \in DOMAIN forest /\ forest[forest[n].parent].kind = A!ParentKind[forest[n].kind]
<1>1. forest \in Seq(A!NodeType) /\ A!IsTree(forest)
  BY DEF Trees
<1>2. DOMAIN forest = 1 .. Len(forest) /\ Len(forest) \in Nat /\ \A n \in 1 .. Len(forest) : forest[n] \in A!NodeType
  BY <1>1, SeqFacts
<1>3. 0 \notin DOMAIN forest /\ \A n \in DOMAIN forest : n \in Nat /\ n # 0
  BY <1>2
<1> QED BY <1>1, <1>2, <1>3 DEF A!IsTree, A!Up

LEMMA UpStays ==
  ASSUME NEW forest \in Trees, NEW m \in DOMAIN forest \cup {0}
  PROVE  A!Up(forest, m) \in DOMAIN forest \cup {0}
<1>1. CASE m = 0
  <2>1. A!Up(forest, m) = 0
    BY <1>1, TreeFacts DEF A!Up
  <2> QED BY <2>1
<1>2. CASE m # 0
  <2>1. m \in DOMAIN forest
    BY <1>2
  <2>2. A!Up(forest, m) = forest[m].parent
    BY <2>1, TreeFacts
  <2>3. CASE forest[m].kind = "set"
    <3>1. forest[m].parent = 0
      BY <2>1, <2>3, TreeFacts
    <3> QED BY <2>2, <3>1
  <2>4. CASE forest[m].kind # "set"
    <3>1. forest[m].parent \in DOMAIN forest
      BY <2>1, <2>4, TreeFacts
    <3> QED BY <2>2, <3>1
  <2> QED BY <2>3, <2>4
<1> QED BY <1>1, <1>2

LEMMA LineageIn ==
  ASSUME NEW forest \in Trees, NEW n \in DOMAIN forest
  PROVE  n \in A!Lineage(forest, n) /\ A!Lineage(forest, n) \subseteq DOMAIN forest
<1>1. \A m \in DOMAIN forest \cup {0} : A!Up(forest, m) \in DOMAIN forest \cup {0}
  BY UpStays
<1> QED BY <1>1, TreeFacts DEF A!Lineage

LEMMA LineageKept ==
  ASSUME NEW forest \in Trees, NEW next \in Trees, Grows(forest, next), NEW n \in DOMAIN forest
  PROVE  A!Lineage(next, n) = A!Lineage(forest, n)
<1>1. \A m \in DOMAIN forest \cup {0} : A!Up(forest, m) \in DOMAIN forest \cup {0}
  BY UpStays
<1>2. \A m \in DOMAIN forest \cup {0} : A!Up(next, m) = A!Up(forest, m)
  <2>1. 0 \notin DOMAIN forest /\ 0 \notin DOMAIN next
    BY TreeFacts
  <2> QED BY <2>1 DEF Grows, A!Up
<1> QED BY <1>1, <1>2 DEF A!Lineage

(* Rows that hold one another up stand. *)
LEMMA Closed ==
  ASSUME NEW forest \in Trees, NEW F \in SUBSET DOMAIN forest, NEW n \in F,
         \A m \in F : forest[m].live /\ (forest[m].parent = 0 \/ forest[m].parent \in F)
  PROVE  A!Standing(forest, n) /\ A!Lineage(forest, n) \subseteq F
<1>1. \A m \in F \cup {0} : A!Up(forest, m) \in F \cup {0}
  <2>1. A!Up(forest, 0) = 0
    BY TreeFacts
  <2>2. \A m \in F : A!Up(forest, m) = forest[m].parent
    BY TreeFacts
  <2> QED BY <2>1, <2>2
<1>2. A!Lineage(forest, n) \subseteq F
  BY <1>1 DEF A!Lineage
<1> QED BY <1>2 DEF A!Standing

(* Whatever row it is, it is below a set, or is one. *)
LEMMA HasSet ==
  ASSUME NEW forest \in Trees, NEW n \in DOMAIN forest
  PROVE  \E m \in A!Lineage(forest, n) : forest[m].kind = "set"
<1> DEFINE p == A!Up(forest, n)
           q == A!Up(forest, p)
           r == A!Up(forest, q)
<1>1. A!Lineage(forest, n) = {n, p, q, r} \ {0}
  BY DEF A!Lineage
<1>2. \A m \in DOMAIN forest : forest[m].kind # "set" =>
         A!Up(forest, m) \in DOMAIN forest /\ A!Up(forest, m) # 0 /\ forest[A!Up(forest, m)].kind = A!ParentKind[forest[m].kind]
  BY TreeFacts
<1>3. n # 0 /\ forest[n].kind \in {"set", "group", "option", "value", "item"}
  BY TreeFacts DEF A!NodeType
<1> HIDE DEF p, q, r
<1>4. A!ParentKind["group"] = "set" /\ A!ParentKind["option"] = "group" /\ A!ParentKind["value"] = "option"
      /\ A!ParentKind["item"] = "group"
  BY DEF A!ParentKind
<1>5. CASE forest[n].kind = "set"
  BY <1>1, <1>3, <1>5
<1>6. CASE forest[n].kind = "group"
  <2>1. p # 0 /\ forest[p].kind = "set"
    BY <1>2, <1>4, <1>6 DEF p
  <2> QED BY <1>1, <2>1
<1>7. CASE forest[n].kind \in {"option", "item"}
  <2>1. p \in DOMAIN forest /\ forest[p].kind = "group"
    BY <1>2, <1>4, <1>7 DEF p
  <2>2. q # 0 /\ forest[q].kind = "set"
    BY <1>2, <1>4, <2>1 DEF q
  <2> QED BY <1>1, <2>2
<1>8. CASE forest[n].kind = "value"
  <2>1. p \in DOMAIN forest /\ forest[p].kind = "option"
    BY <1>2, <1>4, <1>8 DEF p
  <2>2. q \in DOMAIN forest /\ forest[q].kind = "group"
    BY <1>2, <1>4, <2>1 DEF q
  <2>3. r # 0 /\ forest[r].kind = "set"
    BY <1>2, <1>4, <2>2 DEF r
  <2> QED BY <1>1, <2>3
<1> QED BY <1>3, <1>5, <1>6, <1>7, <1>8

(* What a step that takes nothing away leaves. *)
LEMMA StandingKept ==
  ASSUME NEW forest \in Trees, NEW next \in Trees, Grows(forest, next), NEW n,
         \A m \in DOMAIN forest : forest[m].live /\ m \in A!Lineage(forest, n) => next[m].live, A!Standing(forest, n)
  PROVE  A!Standing(next, n) /\ next[n].kind = forest[n].kind
<1>1. n \in DOMAIN forest /\ \A m \in A!Lineage(forest, n) : forest[m].live
  BY DEF A!Standing
<1>2. A!Lineage(next, n) = A!Lineage(forest, n) /\ A!Lineage(forest, n) \subseteq DOMAIN forest
  BY <1>1, LineageKept, LineageIn
<1> QED BY <1>1, <1>2 DEF A!Standing, Grows

LEMMA OwnKept ==
  ASSUME NEW forest \in Trees, NEW next \in Trees, Grows(forest, next), NEW rule, rule.set \in DOMAIN forest,
         A!IsOwn(forest, rule)
  PROVE  A!IsOwn(next, rule)
<1> SUFFICES ASSUME rule.by = "copy", rule.on, NEW n \in {rule.target} \cup rule.reads
             PROVE  rule.set \in A!Lineage(next, n)
  BY DEF A!IsOwn
<1>1. rule.set \in A!Lineage(forest, n)
  BY DEF A!IsOwn
<1>2. n \in DOMAIN forest
  <2> SUFFICES ASSUME n \notin DOMAIN forest PROVE FALSE
    OBVIOUS
  <2>1. A!Up(forest, n) = 0 /\ A!Up(forest, 0) = 0
    BY TreeFacts DEF A!Up
  <2> QED BY <1>1, <2>1 DEF A!Lineage
<1> QED BY <1>1, <1>2, LineageKept

LEMMA FitKept ==
  ASSUME NEW forest, NEW next, Grows(forest, next), NEW rs, A!RulesFit(forest, rs)
  PROVE  A!RulesFit(next, rs)
  BY DEF Grows, A!RulesFit

LEMMA EditKept ==
  ASSUME NEW forest \in Trees, NEW next \in Trees, Grows(forest, next), NEW e, NEW k \in Nat, NEW l \in Nat, k <= l,
         EditOK(e, forest, k)
  PROVE  EditOK(e, next, l)
<1>1. \A n, kinds : IsRow(forest, n, kinds) => IsRow(next, n, kinds)
  BY DEF Grows, IsRow
<1>2. ASSUME NEW node, InsertOK(forest, node) PROVE InsertOK(next, node)
  BY <1>1, <1>2 DEF InsertOK
<1>3. ASSUME WriteOK(forest, e) PROVE WriteOK(next, e)
  BY <1>1, <1>3 DEF WriteOK, Grows, IsRow
<1>4. ASSUME NEW n, NEW node, CopyOK(forest, n, node) PROVE CopyOK(next, n, node)
  BY <1>1, <1>4 DEF CopyOK, Grows, IsRow
<1>5. ASSUME NEW tree, ReadOK(forest, tree) PROVE ReadOK(next, tree)
  BY <1>5 DEF ReadOK, Grows
<1>6. e.rule \in 1 .. k => e.rule \in 1 .. l
  OBVIOUS
<1> QED BY <1>1, <1>2, <1>3, <1>4, <1>5, <1>6 DEF EditOK

(* Rows rewritten in place, one appended. *)
LEMMA RowsRewritten ==
  ASSUME NEW forest \in Trees, NEW next, next = [n \in DOMAIN forest |-> next[n]],
         \A n \in DOMAIN forest :
            next[n] \in A!NodeType /\ next[n].kind = forest[n].kind /\ next[n].parent = forest[n].parent
  PROVE  next \in Trees /\ Grows(forest, next) /\ DOMAIN next = DOMAIN forest /\ Len(next) = Len(forest)
<1>1. DOMAIN forest = 1 .. Len(forest) /\ Len(forest) \in Nat
  BY TreeFacts
<1>2. DOMAIN next = DOMAIN forest
  OBVIOUS
<1>3. next \in Seq(A!NodeType) /\ Len(next) = Len(forest)
  <2>1. DOMAIN next = 1 .. Len(forest) /\ next = [n \in 1 .. Len(forest) |-> next[n]]
        /\ \A n \in 1 .. Len(forest) : next[n] \in A!NodeType
    BY <1>1, <1>2
  <2> QED BY <1>1, <2>1, Listed
<1>4. \A n \in DOMAIN forest : A!Up(next, n) = A!Up(forest, n)
  BY <1>2 DEF A!Up
<1>5. A!IsTree(next)
  BY <1>2, <1>4, TreeFacts DEF A!IsTree
<1> QED BY <1>2, <1>3, <1>5 DEF Trees, Grows

LEMMA RowAppended ==
  ASSUME NEW forest \in Trees, NEW node, InsertOK(forest, node)
  PROVE  /\ Append(forest, node) \in Trees /\ Grows(forest, Append(forest, node))
         /\ DOMAIN Append(forest, node) = DOMAIN forest \cup {Len(forest) + 1}
         /\ Append(forest, node)[Len(forest) + 1] = node /\ Len(forest) + 1 \notin DOMAIN forest
         /\ \A n \in DOMAIN forest : Append(forest, node)[n] = forest[n]
<1> DEFINE next == Append(forest, node)
           id == Len(forest) + 1
<1>1. DOMAIN forest = 1 .. Len(forest) /\ Len(forest) \in Nat /\ forest \in Seq(A!NodeType)
  BY TreeFacts
<1>2. node \in A!NodeType /\ node.kind # "set" /\ node.parent \in DOMAIN forest
      /\ forest[node.parent].kind = A!ParentKind[node.kind]
  BY DEF InsertOK, IsRow
<1>3. /\ next \in Seq(A!NodeType) /\ DOMAIN next = DOMAIN forest \cup {id} /\ id \notin DOMAIN forest
      /\ next[id] = node /\ \A n \in DOMAIN forest : next[n] = forest[n]
  BY <1>1, <1>2
<1> HIDE DEF next, id
<1>4. (\A n \in DOMAIN forest : A!Up(next, n) = A!Up(forest, n)) /\ A!Up(next, id) = node.parent
  BY <1>3 DEF A!Up
<1>5. A!IsTree(next)
  <2> SUFFICES ASSUME NEW n \in DOMAIN next
               PROVE  IF next[n].kind = "set" THEN next[n].parent = 0
                      ELSE A!Up(next, n) \in DOMAIN next /\ next[A!Up(next, n)].kind = A!ParentKind[next[n].kind]
    BY DEF A!IsTree
  <2>1. CASE n = id
    BY <1>2, <1>3, <1>4, <2>1
  <2>2. CASE n \in DOMAIN forest
    BY <1>3, <1>4, <2>2, TreeFacts
  <2> QED BY <1>3, <2>1, <2>2
<1>6. next \in Trees /\ Grows(forest, next)
  BY <1>3, <1>5 DEF Trees, Grows
<1> QED BY <1>3, <1>6 DEF next, id

(* Rows with one field or two rewritten. *)
LEMMA DefaultedIs ==
  ASSUME NEW t \in A!NodeType, NEW b \in BOOLEAN
  PROVE  /\ A!Defaulted(t, b) \in A!NodeType /\ A!Defaulted(t, b).kind = t.kind
         /\ A!Defaulted(t, b).parent = t.parent /\ A!Defaulted(t, b).live = t.live
         /\ A!Defaulted(t, b).default = b
  BY DEF A!Defaulted, A!NodeType

LEMMA SetIs ==
  ASSUME NEW t \in A!NodeType, NEW f \in {"on", "default"}, NEW b \in BOOLEAN
  PROVE  /\ A!Set(t, f, b) \in A!NodeType /\ A!Set(t, f, b).kind = t.kind
         /\ A!Set(t, f, b).parent = t.parent /\ A!Set(t, f, b).live = t.live
         /\ A!Set(t, f, b).default /\ ~t.default => f = "default" /\ b
<1>1. CASE f = "default"
  BY <1>1, DefaultedIs DEF A!Set
<1>2. CASE f = "on"
  BY <1>2 DEF A!Set, A!NodeType
<1> QED BY <1>1, <1>2

LEMMA DeletedIs ==
  ASSUME NEW t \in A!NodeType
  PROVE  A!Deleted(t) \in A!NodeType /\ A!Deleted(t).kind = t.kind /\ A!Deleted(t).parent = t.parent /\ ~A!Deleted(t).live
  BY DEF A!Deleted, A!NodeType

LEMMA TwinIs ==
  ASSUME NEW t \in A!NodeType, NEW k \in Nat
  PROVE  /\ A!Twin(t, k) \in A!NodeType /\ A!Twin(t, k).kind = t.kind
         /\ A!Twin(t, k).parent = t.parent /\ A!Twin(t, k).live = t.live /\ ~A!Twin(t, k).default
  BY DEF A!Twin, A!NodeType

LEMMA NewNodeIs ==
  ASSUME NEW kind \in {"set", "group", "option", "value", "item"}, NEW p \in Nat, NEW key \in Nat,
         NEW b \in BOOLEAN
  PROVE  /\ A!NewNode(kind, p, key, b) \in A!NodeType /\ A!NewNode(kind, p, key, b).kind = kind
         /\ A!NewNode(kind, p, key, b).parent = p /\ A!NewNode(kind, p, key, b).default = b
  BY DEF A!NewNode, A!NodeType

LEMMA RuleRewritten ==
  ASSUME NEW t \in A!RuleType
  PROVE  /\ A!Disabled(t) \in A!RuleType /\ A!Disabled(t).set = t.set /\ ~A!Disabled(t).on
         /\ A!Deleted(t) \in A!RuleType /\ A!Deleted(t).set = t.set /\ ~A!Deleted(t).live
         /\ A!Deleted(t).on = t.on /\ A!Deleted(t).reason = t.reason /\ A!Deleted(t).by = t.by
         /\ A!Deleted(t).target = t.target /\ A!Deleted(t).reads = t.reads
  BY DEF A!Disabled, A!Deleted, A!RuleType

LEMMA DraftIs ==
  ASSUME NEW d, d \in A!DraftType \/ d \in A!RuleType
  PROVE  /\ d.action \in {"hide", "require", "unrequire", "set_price"}
         /\ d.type \in {"group", "option", "value"} /\ d.target \in Nat /\ d.reads \in SUBSET Nat
         /\ d.amount \in Int
  BY DEF A!DraftType, A!RuleType

(* A step of one request, which changes no row and no rule ... *)
LEMMA Transits ==
  ASSUME NEW c \in Requests, edits[c].pc # "sole", NEW job,
         edits = [d \in Requests |-> edits[d]], edits' = [edits EXCEPT ![c] = job], torn' = torn
  PROVE  \A o : A!InTransit(o) => A!InTransit(o)'
<1> SUFFICES ASSUME NEW o, A!InTransit(o) PROVE A!InTransit(o)'
  OBVIOUS
<1>1. CASE o \in torn
  BY <1>1 DEF A!InTransit
<1>2. ASSUME NEW d \in Requests, A!At(d, "sole"), edits[d].option = o PROVE A!InTransit(o)'
  <2>1. edits'[d] = edits[d]
    BY <1>2 DEF A!At
  <2> QED BY <1>2, <2>1 DEF A!InTransit, A!At
<1> QED BY <1>1, <1>2 DEF A!InTransit

LEMMA Moves ==
  ASSUME AuthorInv, NEW c \in Requests, NEW job, edits' = [edits EXCEPT ![c] = job],
         edits[c].pc # "sole", UNCHANGED <<nodes, rules, torn>>,
         EditOK(job, nodes, Len(rules)), effort' \in 0 .. MaxEffort, overlapped' \in BOOLEAN,
         ~overlapped' =>
            /\ ~overlapped /\ AimOK(job, nodes, rules)
            /\ \A d \in Requests : d # c => ~Busy(edits[d]) \/ ~Busy(job),
         \A s \in published' : SnapOK(s)
  PROVE  AuthorInv'
<1>1. edits = [d \in Requests |-> edits[d]] /\ \A d \in Requests : EditOK(edits[d], nodes, Len(rules))
  BY DEF AuthorInv, EditsOK
<1>2. edits'[c] = job /\ \A d \in Requests : d # c => edits'[d] = edits[d]
  BY <1>1
<1>3. EditsOK'
  <2>1. edits' = [d \in Requests |-> edits'[d]]
    BY <1>1
  <2> QED BY <1>1, <1>2, <2>1 DEF EditsOK
<1>4. SerialOK'
  <2> SUFFICES ASSUME ~overlapped'
               PROVE  /\ \A d, f \in Requests : Busy(edits'[d]) /\ Busy(edits'[f]) => d = f
                      /\ \A r \in DOMAIN rules' : A!Aims(nodes', rules'[r])
                      /\ \A d \in Requests : AimOK(edits'[d], nodes', rules')
    BY DEF SerialOK, A!Rules
  <2>1. /\ \A d, f \in Requests : Busy(edits[d]) /\ Busy(edits[f]) => d = f
        /\ \A r \in DOMAIN rules : A!Aims(nodes, rules[r])
        /\ \A d \in Requests : AimOK(edits[d], nodes, rules)
    BY DEF AuthorInv, SerialOK, A!Rules
  <2>2. \A d \in Requests : AimOK(edits'[d], nodes, rules)
    BY <1>2, <2>1
  <2>3. \A d, f \in Requests : Busy(edits'[d]) /\ Busy(edits'[f]) => d = f
    BY <1>2, <2>1
  <2> QED BY <2>1, <2>2, <2>3
<1>5. DefaultsOK'
  <2>1. \A o \in DOMAIN nodes : A!InTransit(o) => A!InTransit(o)'
    BY <1>1, Transits
  <2>2. \A o \in DOMAIN nodes : ~A!InTransit(o) => OneAt(nodes, o)
    BY DEF AuthorInv, DefaultsOK, A!Nodes
  <2>3. \A o \in DOMAIN nodes : ~A!InTransit(o)' => OneAt(nodes, o)
    BY <2>1, <2>2
  <2> QED BY <2>3 DEF DefaultsOK, A!Nodes
<1>6. TreeOK'
  BY DEF AuthorInv, TreeOK, A!CopiesAreOwn, A!Rules
<1>7. torn' \subseteq A!Nodes'
  BY DEF AuthorInv, A!Nodes
<1> QED BY <1>3, <1>4, <1>5, <1>6, <1>7 DEF AuthorInv

(* ... which begins ... *)
LEMMA RequestBegins ==
  ASSUME AuthorInv, NEW c \in Requests, NEW job, A!Begins(c, job),
         UNCHANGED <<nodes, rules, published, torn>>,
         EditOK(job, nodes, Len(rules)), ~overlapped => AimOK(job, nodes, rules)
  PROVE  AuthorInv'
<1>1. edits[c] = A!Idle /\ edits' = [edits EXCEPT ![c] = job] /\ effort < MaxEffort /\ effort' = effort + 1
      /\ overlapped' = (overlapped \/ \E d \in Requests \ {c} : edits[d] # A!Idle)
  BY DEF A!Begins
<1>2. edits[c].pc # "sole" /\ \A d \in Requests : Busy(edits[d]) => edits[d] # A!Idle
  BY <1>1 DEF A!Idle, Busy
<1>3. effort' \in 0 .. MaxEffort
  BY <1>1, DraftAssumption DEF AuthorInv
<1>4. overlapped' \in BOOLEAN
  BY <1>1, Zenon
<1>5. ~overlapped' => ~overlapped /\ \A d \in Requests : d # c => ~Busy(edits[d])
  BY <1>1, <1>2
<1>6. \A s \in published' : SnapOK(s)
  BY DEF AuthorInv
<1> QED BY <1>1, <1>2, <1>3, <1>4, <1>5, <1>6, Moves

(* ... goes on to another statement, or ends. *)
LEMMA IdleIs ==
    /\ A!Idle.pc = "idle" /\ ~Busy(A!Idle)
    /\ \A forest, k, rs : EditOK(A!Idle, forest, k) /\ AimOK(A!Idle, forest, rs)
<1>1. A!Idle.pc = "idle"
  BY DEF A!Idle
<1> QED BY <1>1 DEF Busy, EditOK, AimOK, Stages, Loading

LEMMA RequestGoesOn ==
  ASSUME AuthorInv, NEW c \in Requests, NEW job, A!Continues(c, job), Busy(edits[c]), edits[c].pc # "sole",
         UNCHANGED <<nodes, rules, torn>>,
         EditOK(job, nodes, Len(rules)), ~overlapped => AimOK(job, nodes, rules),
         \A s \in published' : SnapOK(s)
  PROVE  AuthorInv'
<1>1. edits' = [edits EXCEPT ![c] = job] /\ effort' = effort /\ overlapped' = overlapped
  BY DEF A!Continues
<1>2. effort' \in 0 .. MaxEffort /\ overlapped' \in BOOLEAN
  BY <1>1 DEF AuthorInv
<1>3. ~overlapped => \A d \in Requests : d # c => ~Busy(edits[d])
  BY DEF AuthorInv, SerialOK
<1> QED BY <1>1, <1>2, <1>3, Moves

(* A step of one request that changes rows or rules. *)
LEMMA Settles ==
  ASSUME AuthorInv, NEW c \in Requests, NEW job, A!Continues(c, job), Busy(edits[c]),
         nodes' \in Trees, Grows(nodes, nodes'), rules' \in Seq(A!RuleType), A!RulesFit(nodes', rules'),
         A!CopiesAreOwn', Len(rules) <= Len(rules'),
         EditOK(job, nodes', Len(rules')), job.pc \in {"idle", "sole"},
         ~overlapped => \A r \in DOMAIN rules' : A!Aims(nodes', rules'[r]),
         torn' \subseteq DOMAIN nodes', DefaultsOK', \A s \in published' : SnapOK(s)
  PROVE  AuthorInv'
<1>1. edits' = [edits EXCEPT ![c] = job] /\ effort' = effort /\ overlapped' = overlapped
  BY DEF A!Continues
<1>2. edits = [d \in Requests |-> edits[d]] /\ \A d \in Requests : EditOK(edits[d], nodes, Len(rules))
  BY DEF AuthorInv, EditsOK
<1>3. edits'[c] = job /\ \A d \in Requests : d # c => edits'[d] = edits[d]
  BY <1>1, <1>2
<1>4. EditsOK'
  <2>1. edits' = [d \in Requests |-> edits'[d]]
    BY <1>1, <1>2
  <2>2. nodes \in Trees /\ Len(rules) \in Nat /\ Len(rules') \in Nat
    BY DEF AuthorInv, TreeOK
  <2>3. \A d \in Requests : EditOK(edits[d], nodes', Len(rules'))
    BY <1>2, <2>2, EditKept
  <2> QED BY <1>3, <2>1, <2>3 DEF EditsOK
<1>5. SerialOK'
  <2> SUFFICES ASSUME ~overlapped'
               PROVE  /\ \A d, f \in Requests : Busy(edits'[d]) /\ Busy(edits'[f]) => d = f
                      /\ \A r \in DOMAIN rules' : A!Aims(nodes', rules'[r])
                      /\ \A d \in Requests : AimOK(edits'[d], nodes', rules')
    BY DEF SerialOK, A!Rules
  <2>1. \A d \in Requests : d # c => ~Busy(edits[d])
    BY <1>1 DEF AuthorInv, SerialOK
  <2>2. \A d \in Requests : d # c => ~Busy(edits'[d])
    BY <1>3, <2>1
  <2>3. \A d \in Requests : AimOK(edits'[d], nodes', rules')
    BY <1>3, <2>2 DEF AimOK, Busy
  <2> QED BY <1>1, <2>2, <2>3
<1>6. effort' \in 0 .. MaxEffort /\ overlapped' \in BOOLEAN
  BY <1>1 DEF AuthorInv
<1> QED BY <1>4, <1>5, <1>6 DEF AuthorInv, TreeOK, A!Nodes

-----------------------------------------------------------------------------
(* Requests.  The key of a copy: of more keys than there are rows one is free. *)
LEMMA CopyKeyIs ==
  ASSUME nodes \in Trees, NEW p, NEW kind
  PROVE  A!CopyKey(p, kind) \in Nat
<1> DEFINE N == Len(nodes)
           K == 10 .. 10 + N
           T == {k \in K : A!KeyFree(p, kind, k)}
<1>1. N \in Nat /\ DOMAIN nodes = 1 .. N
  BY TreeFacts
<1> HIDE DEF N
<1>2. T # {}
  <2> SUFFICES ASSUME T = {} PROVE FALSE
    OBVIOUS
  <2>1. \A k \in K : \E n \in 1 .. N : nodes[n].key = k
    <3> SUFFICES ASSUME NEW k \in K PROVE \E n \in 1 .. N : nodes[n].key = k
      OBVIOUS
    <3>1. ~A!KeyFree(p, kind, k)
      OBVIOUS
    <3> QED BY <1>1, <3>1 DEF A!KeyFree, A!Children, A!Nodes
  <2>2. PICK f \in [K -> 1 .. N] : \A k \in K : nodes[f[k]].key = k
    <3> DEFINE g == [k \in K |-> CHOOSE n \in 1 .. N : nodes[n].key = k]
    <3>1. g \in [K -> 1 .. N] /\ \A k \in K : nodes[g[k]].key = k
      BY <2>1
    <3> HIDE DEF g
    <3> QED BY <3>1
  <2>3. IsFiniteSet(K) /\ Cardinality(K) = N + 1
    <3>1. PICK M \in Int : M = 10 + N
      BY <1>1
    <3>2. 10 \in Int
      OBVIOUS
    <3>3. IsFiniteSet(10 .. M) /\ Cardinality(10 .. M) = IF 10 > M THEN 0 ELSE M - 10 + 1
      BY <3>1, <3>2, FS_Interval, Zenon
    <3> QED BY <1>1, <3>1, <3>3
  <2>4. IsFiniteSet(1 .. N) /\ Cardinality(1 .. N) = N
    <3>1. 1 \in Int /\ N \in Int
      BY <1>1
    <3>2. IsFiniteSet(1 .. N) /\ Cardinality(1 .. N) = IF 1 > N THEN 0 ELSE N - 1 + 1
      BY <3>1, FS_Interval, Zenon
    <3> QED BY <1>1, <3>2
  <2> HIDE DEF K
  <2>5. Cardinality(1 .. N) < Cardinality(K)
    BY <1>1, <2>3, <2>4
  <2>6. \E x, y \in K : x # y /\ f[x] = f[y]
    <3>1. IsFiniteSet(K) /\ IsFiniteSet(1 .. N)
      BY <2>3, <2>4
    <3>2. f \in [K -> 1 .. N]
      BY <2>2
    <3> QED BY ONLY <2>5, <3>1, <3>2, FS_PigeonHole
  <2> QED BY <2>2, <2>6
<1>3. PICK k \in T : \A j \in T : k <= j
  <2>1. T \subseteq Nat
    BY <1>1
  <2> HIDE DEF T
  <2> QED BY <1>2, <2>1, Least
<1>4. k \in K /\ A!KeyFree(p, kind, k) /\ \A j \in 10 .. k - 1 : ~A!KeyFree(p, kind, j)
  BY <1>1, <1>3
<1>5. A!CopyKey(p, kind) \in K
  BY <1>4, Zenon DEF A!CopyKey, N
<1> QED BY <1>1, <1>5

LEMMA CreateKeeps ==
  ASSUME AuthorInv, NEW c \in Requests, NEW kind \in {"group", "option", "item", "value"}, NEW p,
         NEW key \in Nat, NEW b \in BOOLEAN, b => kind = "value", A!CreateNode(c, kind, p, key, b)
  PROVE  AuthorInv'
<1> DEFINE node == A!NewNode(kind, p, key, b)
           job == [pc |-> "insert", node |-> node]
<1>1. p \in DOMAIN nodes /\ nodes[p].kind = A!ParentKind[kind]
      /\ A!Begins(c, job) /\ UNCHANGED <<nodes, rules, published, torn>>
  BY DEF A!CreateNode, A!Nodes
<1>2. p \in Nat
  BY <1>1, TreeFacts DEF AuthorInv, TreeOK
<1>3. node \in A!NodeType /\ node.kind = kind /\ node.parent = p /\ node.default = b
  BY <1>2, NewNodeIs
<1>4. job.pc = "insert" /\ job.node = node
  OBVIOUS
<1> HIDE DEF node, job
<1>5. InsertOK(nodes, node)
  BY <1>1, <1>3 DEF InsertOK, IsRow
<1>6. EditOK(job, nodes, Len(rules)) /\ AimOK(job, nodes, rules)
  BY <1>4, <1>5 DEF EditOK, AimOK, Stages, Loading
<1> QED BY <1>1, <1>6, RequestBegins

LEMMA EditNodeKeeps ==
  ASSUME AuthorInv, NEW c \in Requests, NEW n \in A!Nodes, NEW kind \in {"group", "option", "value"},
         NEW field \in {"on", "default"}, NEW b \in BOOLEAN, field = "default" => kind = "value",
         A!EditNode(c, n, kind, field, b)
  PROVE  AuthorInv'
<1> DEFINE job == [pc |-> "write", node |-> n, field |-> field, value |-> b]
<1>1. nodes[n].kind = kind /\ A!Begins(c, job) /\ UNCHANGED <<nodes, rules, published, torn>>
  BY DEF A!EditNode
<1>2. job.pc = "write" /\ job.node = n /\ job.field = field /\ job.value = b
  OBVIOUS
<1> HIDE DEF job
<1>3. WriteOK(nodes, job)
  BY <1>1, <1>2 DEF WriteOK, IsRow, A!Nodes
<1>4. EditOK(job, nodes, Len(rules)) /\ AimOK(job, nodes, rules)
  BY <1>2, <1>3 DEF EditOK, AimOK, Stages, Loading
<1> QED BY <1>1, <1>4, RequestBegins

LEMMA RemoveKeeps ==
  ASSUME AuthorInv, NEW c \in Requests, NEW n \in A!Nodes
  PROVE  /\ A!RemoveGroup(c, n) \/ A!RemoveOption(c, n) => AuthorInv'
         /\ A!RemoveValue(c, n) \/ A!RemoveItem(c, n) => AuthorInv'
<1>1. ASSUME NEW kind \in {"group", "option"}, A!RemoveNode(c, n, kind, "cascade") PROVE AuthorInv'
  <2> DEFINE job == [pc |-> "cascade", node |-> n]
  <2>1. nodes[n].kind = kind /\ A!Begins(c, job) /\ UNCHANGED <<nodes, rules, published, torn>>
    BY <1>1 DEF A!RemoveNode
  <2>2. job.pc = "cascade" /\ job.node = n
    OBVIOUS
  <2> HIDE DEF job
  <2>3. EditOK(job, nodes, Len(rules)) /\ AimOK(job, nodes, rules)
    BY <2>1, <2>2 DEF EditOK, AimOK, Stages, Loading, IsRow, A!Nodes
  <2> QED BY <2>1, <2>3, RequestBegins
<1>2. ASSUME NEW kind \in {"value", "item"}, A!RemoveNode(c, n, kind, "erase"),
             kind = "value" => A!NotARuleTarget(n)
      PROVE  AuthorInv'
  <2> DEFINE job == [pc |-> "erase", node |-> n]
  <2>1. nodes[n].kind = kind /\ A!Begins(c, job) /\ UNCHANGED <<nodes, rules, published, torn>>
    BY <1>2 DEF A!RemoveNode
  <2>2. job.pc = "erase" /\ job.node = n
    OBVIOUS
  <2> HIDE DEF job
  <2>3. EditOK(job, nodes, Len(rules))
    BY <2>1, <2>2 DEF EditOK, Stages, Loading, IsRow, A!Nodes
  <2>4. ASSUME ~overlapped, NEW r \in A!Rules, rules[r].live, rules[r].on, rules[r].target = n PROVE FALSE
    <3>1. rules[r].type = kind
      BY <2>1, <2>4 DEF AuthorInv, SerialOK, A!Aims
    <3>2. rules[r].type \in {"group", "option", "value"}
      <4>1. rules[r] \in A!RuleType
        BY SeqFacts DEF AuthorInv, TreeOK, A!Rules
      <4> QED BY <4>1 DEF A!RuleType
    <3>3. kind = "value"
      BY <3>1, <3>2
    <3> QED BY <1>2, <2>4, <3>1, <3>3 DEF A!NotARuleTarget, A!EnabledOn
  <2>5. ~overlapped => AimOK(job, nodes, rules)
    BY <2>2, <2>4 DEF AimOK, A!Rules
  <2> QED BY <2>1, <2>3, <2>5, RequestBegins
<1> QED BY <1>1, <1>2 DEF A!RemoveGroup, A!RemoveOption, A!RemoveValue, A!RemoveItem

LEMMA RuleRequestKeeps ==
  ASSUME AuthorInv, NEW c \in Requests
  PROVE  /\ \A r : A!RemoveRule(c, r) => AuthorInv'
         /\ \A s, d : d \in Drafts /\ A!CreateRule(c, s, d) => AuthorInv'
         /\ \A r, d : d \in Drafts /\ A!EditRule(c, r, d) => AuthorInv'
<1>0. A!Rules = 1 .. Len(rules)
  BY SeqFacts DEF AuthorInv, TreeOK, A!Rules
<1>1. ASSUME NEW r, A!RemoveRule(c, r) PROVE AuthorInv'
  <2> DEFINE job == [pc |-> "drop", rule |-> r]
  <2>1. r \in A!Rules /\ A!Begins(c, job) /\ UNCHANGED <<nodes, rules, published, torn>>
    BY <1>1 DEF A!RemoveRule
  <2>2. job.pc = "drop" /\ job.rule = r
    OBVIOUS
  <2> HIDE DEF job
  <2>3. EditOK(job, nodes, Len(rules)) /\ AimOK(job, nodes, rules)
    BY <1>0, <2>1, <2>2 DEF EditOK, AimOK, Stages, Loading
  <2> QED BY <2>1, <2>3, RequestBegins
<1>2. ASSUME NEW s, NEW d \in Drafts, A!CreateRule(c, s, d) PROVE AuthorInv'
  <2> DEFINE job == [pc |-> "add", set |-> s, draft |-> d]
  <2>1. s \in A!Nodes /\ nodes[s].kind = "set" /\ A!TargetExists(d)
        /\ A!Begins(c, job) /\ UNCHANGED <<nodes, rules, published, torn>>
    BY <1>2 DEF A!CreateRule
  <2>2. job.pc = "add" /\ job.set = s /\ job.draft = d
    OBVIOUS
  <2> HIDE DEF job
  <2>3. d \in A!DraftType
    BY SeedAssumption
  <2>4. EditOK(job, nodes, Len(rules)) /\ AimOK(job, nodes, rules)
    BY <2>1, <2>2, <2>3 DEF EditOK, AimOK, Stages, Loading, IsRow, A!Nodes, A!TargetExists, A!Scoped
  <2> QED BY <2>1, <2>4, RequestBegins
<1>3. ASSUME NEW r, NEW d \in Drafts, A!EditRule(c, r, d) PROVE AuthorInv'
  <2> DEFINE job == [pc |-> "save", rule |-> r, draft |-> d]
  <2>1. r \in A!Rules /\ A!TargetExists(d)
        /\ A!Begins(c, job) /\ UNCHANGED <<nodes, rules, published, torn>>
    BY <1>3 DEF A!EditRule
  <2>2. job.pc = "save" /\ job.rule = r /\ job.draft = d
    OBVIOUS
  <2> HIDE DEF job
  <2>3. d \in A!DraftType
    BY SeedAssumption
  <2>4. EditOK(job, nodes, Len(rules)) /\ AimOK(job, nodes, rules)
    BY <1>0, <2>1, <2>2, <2>3 DEF EditOK, AimOK, Stages, Loading, A!TargetExists, A!Scoped
  <2> QED BY <2>1, <2>4, RequestBegins
<1> QED BY <1>1, <1>2, <1>3

LEMMA DuplicateKeeps ==
  ASSUME AuthorInv, NEW c \in Requests, NEW n \in A!Nodes, NEW kind \in {"set", "group", "option", "value"},
         A!Duplicate(c, n, kind)
  PROVE  AuthorInv'
<1>0. PICK key : key = A!CopyKey(nodes[n].parent, nodes[n].kind)
  OBVIOUS
<1> DEFINE node == A!Twin(nodes[n], key)
           job == [pc |-> "copy", source |-> n, node |-> node]
<1>1. nodes[n].kind = kind /\ A!Scoped(n) /\ A!Begins(c, job) /\ UNCHANGED <<nodes, rules, published, torn>>
  BY <1>0 DEF A!Duplicate
<1>2. nodes \in Trees /\ n \in DOMAIN nodes /\ nodes[n] \in A!NodeType
  BY TreeFacts DEF AuthorInv, TreeOK, A!Nodes
<1>3. nodes[n].live
  BY <1>1, <1>2, LineageIn DEF A!Scoped, A!Standing
<1>4. key \in Nat
  BY <1>0, <1>2, CopyKeyIs
<1>5. node \in A!NodeType /\ node.kind = kind /\ node.parent = nodes[n].parent /\ node.live /\ ~node.default
  BY <1>1, <1>2, <1>3, <1>4, TwinIs
<1>6. job.pc = "copy" /\ job.source = n /\ job.node = node
  OBVIOUS
<1> HIDE DEF node, job
<1>7. CopyOK(nodes, n, node)
  BY <1>1, <1>2, <1>5 DEF CopyOK, IsRow
<1>8. EditOK(job, nodes, Len(rules)) /\ AimOK(job, nodes, rules)
  BY <1>6, <1>7 DEF EditOK, AimOK, Stages, Loading
<1> QED BY <1>1, <1>8, RequestBegins

(* What a publish reads is of rows that are there, whatever they become. *)
LEMMA ReadIntoOK ==
  ASSUME nodes \in Trees, NEW tree, ReadOK(nodes, tree), NEW ps, NEW kinds, "set" \notin kinds
  PROVE  ReadOK(nodes, A!ReadInto(tree, A!LiveBelow(ps, kinds)))
<1> DEFINE ids == A!LiveBelow(ps, kinds)
<1>1. \A n \in ids : n \in DOMAIN nodes /\ nodes[n].kind # "set" /\ nodes[n] \in A!NodeType
  BY TreeFacts DEF A!LiveBelow, A!Nodes
<1> HIDE DEF ids
<1> DEFINE r == A!ReadInto(tree, ids)
<1>2. DOMAIN r = DOMAIN tree \cup ids
      /\ \A n \in DOMAIN tree \cup ids : r[n] = IF n \in DOMAIN tree THEN tree[n] ELSE nodes[n]
  BY DEF A!ReadInto
<1> HIDE DEF r
<1>3. ReadOK(nodes, r)
  BY <1>1, <1>2 DEF ReadOK
<1> QED BY <1>3 DEF r, ids

LEMMA PublishKeeps ==
  ASSUME AuthorInv, NEW c \in Requests, NEW s, A!Publish(c, s)
  PROVE  AuthorInv'
<1> DEFINE tree == A!ReadInto(<<>>, A!LiveBelow({s}, {"group"}))
           job == [pc |-> "options", set |-> s, tree |-> tree]
<1>1. A!Begins(c, job) /\ UNCHANGED <<nodes, rules, published, torn>>
  BY DEF A!Publish
<1>2. ReadOK(nodes, tree)
  <2>1. ReadOK(nodes, <<>>)
    BY DEF ReadOK
  <2>2. "set" \notin {"group"}
    OBVIOUS
  <2> QED BY <2>1, <2>2, ReadIntoOK DEF AuthorInv, TreeOK
<1>3. job.pc = "options" /\ job.tree = tree
  OBVIOUS
<1> HIDE DEF tree, job
<1>4. EditOK(job, nodes, Len(rules)) /\ AimOK(job, nodes, rules)
  BY <1>2, <1>3 DEF EditOK, AimOK, Stages, Loading
<1> QED BY <1>1, <1>4, RequestBegins

LEMMA ReadLevelKeeps ==
  ASSUME AuthorInv, NEW c \in Requests, NEW pc \in {"options", "values"}, NEW next \in {"values", "rules"},
         A!ReadLevel(c, pc, next)
  PROVE  AuthorInv'
<1>1. PICK e : e = edits[c]
  OBVIOUS
<1> DEFINE tree == A!ReadInto(e.tree, A!LiveBelow(DOMAIN e.tree, A!ReadKinds[pc]))
           job == [pc |-> next, set |-> e.set, tree |-> tree]
<1>2. e.pc = pc /\ A!Continues(c, job) /\ UNCHANGED <<nodes, rules, published, torn>>
  BY <1>1 DEF A!ReadLevel, A!At
<1>3. ReadOK(nodes, e.tree)
  <2>1. EditOK(e, nodes, Len(rules))
    BY <1>1 DEF AuthorInv, EditsOK
  <2> QED BY <1>2, <2>1 DEF EditOK, Loading
<1>4. ReadOK(nodes, tree)
  <2>1. "set" \notin A!ReadKinds[pc]
    BY DEF A!ReadKinds
  <2> QED BY <1>3, <2>1, ReadIntoOK DEF AuthorInv, TreeOK
<1>5. job.pc = next /\ job.tree = tree
  OBVIOUS
<1> HIDE DEF tree, job
<1>6. EditOK(job, nodes, Len(rules)) /\ AimOK(job, nodes, rules)
  BY <1>4, <1>5 DEF EditOK, AimOK, Stages, Loading
<1>7. Busy(edits[c]) /\ edits[c].pc # "sole"
  BY <1>1, <1>2 DEF Busy
<1>8. \A s \in published' : SnapOK(s)
  BY <1>2 DEF AuthorInv
<1> QED BY <1>2, <1>6, <1>7, <1>8, RequestGoesOn

LEMMA ReadRulesKeeps ==
  ASSUME AuthorInv, NEW c \in Requests, A!ReadRules(c)
  PROVE  AuthorInv'
<1>1. PICK e, rs : e = edits[c] /\ rs = {rules[r] : r \in A!RulesOf(edits[c].set)}
  OBVIOUS
<1> DEFINE job == [pc |-> "check", set |-> e.set, tree |-> e.tree, rules |-> rs]
<1>2. e.pc = "rules" /\ A!Continues(c, job) /\ UNCHANGED <<nodes, rules, published, torn>>
  BY <1>1 DEF A!ReadRules, A!At
<1>3. ReadOK(nodes, e.tree)
  <2>1. EditOK(e, nodes, Len(rules))
    BY <1>1 DEF AuthorInv, EditsOK
  <2> QED BY <1>2, <2>1 DEF EditOK, Loading
<1>4. job.pc = "check" /\ job.tree = e.tree
  OBVIOUS
<1> HIDE DEF job
<1>5. EditOK(job, nodes, Len(rules)) /\ AimOK(job, nodes, rules)
  BY <1>3, <1>4 DEF EditOK, AimOK, Stages, Loading
<1>6. Busy(edits[c]) /\ edits[c].pc # "sole"
  BY <1>1, <1>2 DEF Busy
<1>7. \A s \in published' : SnapOK(s)
  BY <1>2 DEF AuthorInv
<1> QED BY <1>2, <1>5, <1>6, <1>7, RequestGoesOn

LEMMA CreatesKeep ==
  ASSUME AuthorInv, NEW c \in Requests, NEW n
  PROVE  /\ A!CreateGroup(c, n) => AuthorInv'
         /\ A!CreateItem(c, n) => AuthorInv'
         /\ \A key \in 1 .. 2 : A!CreateOption(c, n, key) => AuthorInv'
         /\ \A key \in 1 .. 2, b \in BOOLEAN : A!CreateValue(c, n, key, b) => AuthorInv'
<1>1. ASSUME A!CreateNode(c, "group", n, 1, FALSE) PROVE AuthorInv'
  BY <1>1, CreateKeeps
<1>2. ASSUME A!CreateNode(c, "item", n, 1, FALSE) PROVE AuthorInv'
  BY <1>2, CreateKeeps
<1>3. ASSUME NEW key \in 1 .. 2, A!CreateNode(c, "option", n, key, FALSE) PROVE AuthorInv'
  <2>1. key \in Nat
    OBVIOUS
  <2> QED BY <1>3, <2>1, CreateKeeps
<1>4. ASSUME NEW key \in 1 .. 2, NEW b \in BOOLEAN, A!CreateNode(c, "value", n, key, b) PROVE AuthorInv'
  <2>1. key \in Nat
    OBVIOUS
  <2> QED BY <1>4, <2>1, CreateKeeps
<1> QED BY <1>1, <1>2, <1>3, <1>4 DEF A!CreateGroup, A!CreateItem, A!CreateOption, A!CreateValue

LEMMA RequestKeeps == ASSUME AuthorInv, NEW c \in Requests, A!Requested(c) PROVE AuthorInv'
<1>1. \A n \in A!Nodes : A!EditGroup(c, n) \/ A!EditOption(c, n) \/ A!EditValue(c, n) => AuthorInv'
  BY EditNodeKeeps DEF A!EditGroup, A!EditOption, A!EditValue
<1>2. \A n \in A!Nodes : A!DuplicateGroup(c, n) \/ A!DuplicateOption(c, n) \/ A!DuplicateValue(c, n) \/ A!DuplicateSet(c, n)
                          => AuthorInv'
  BY DuplicateKeeps DEF A!DuplicateGroup, A!DuplicateOption, A!DuplicateValue, A!DuplicateSet
<1>3. \A n \in A!Nodes : A!RemoveGroup(c, n) \/ A!RemoveOption(c, n) \/ A!RemoveValue(c, n) \/ A!RemoveItem(c, n)
                          => AuthorInv'
  BY RemoveKeeps
<1>4. ASSUME NEW n \in A!Nodes,
             \/ A!CreateGroup(c, n) \/ A!EditGroup(c, n) \/ A!RemoveGroup(c, n) \/ A!DuplicateGroup(c, n)
             \/ A!CreateItem(c, n) \/ A!RemoveItem(c, n) \/ A!DuplicateSet(c, n) \/ A!Publish(c, n)
      PROVE  AuthorInv'
  BY <1>1, <1>2, <1>3, <1>4, CreatesKeep, PublishKeeps
<1>5. ASSUME NEW n \in A!Nodes,
             \/ A!EditOption(c, n) \/ A!RemoveOption(c, n) \/ A!DuplicateOption(c, n)
             \/ A!EditValue(c, n) \/ A!RemoveValue(c, n) \/ A!DuplicateValue(c, n)
      PROVE  AuthorInv'
  BY <1>1, <1>2, <1>3, <1>5
<1>6. ASSUME NEW n \in A!Nodes, NEW key \in 1 .. 2,
             A!CreateOption(c, n, key) \/ \E default \in BOOLEAN : A!CreateValue(c, n, key, default)
      PROVE  AuthorInv'
  BY <1>6, CreatesKeep
<1>7. ASSUME NEW s, NEW d \in Drafts, A!CreateRule(c, s, d) \/ A!EditRule(c, s, d) \/ A!RemoveRule(c, s) PROVE AuthorInv'
  BY <1>7, RuleRequestKeeps
<1> QED BY <1>4, <1>5, <1>6, <1>7, RuleRequestKeeps DEF A!Requested

-----------------------------------------------------------------------------
(* Writes.  No option gets a default that nobody is to see to. *)
LEMMA DefaultsBut ==
  ASSUME AuthorInv, nodes' \in Trees, NEW p,
         \A n \in DOMAIN nodes' : A!IsDefault(nodes', n) /\ nodes'[n].parent # p =>
             n \in DOMAIN nodes /\ A!IsDefault(nodes, n) /\ nodes'[n].parent = nodes[n].parent,
         \A o : A!InTransit(o) => A!InTransit(o)', A!InTransit(p)' \/ p = 0
  PROVE  DefaultsOK'
<1> SUFFICES ASSUME NEW o \in DOMAIN nodes', ~A!InTransit(o)', NEW m \in DOMAIN nodes', NEW n \in DOMAIN nodes',
                    A!IsDefault(nodes', m), A!IsDefault(nodes', n), nodes'[m].parent = o, nodes'[n].parent = o
             PROVE  m = n
  BY DEF DefaultsOK, A!Nodes, OneAt
<1>0. o # p
  <2>1. o # 0
    BY TreeFacts
  <2>2. A!InTransit(p)' => o # p
    <3>1. \A q : q = o => ~A!InTransit(q)'
      BY Zenon
    <3> QED BY <3>1
  <2> QED BY <2>1, <2>2
<1>1. m \in DOMAIN nodes /\ n \in DOMAIN nodes /\ A!IsDefault(nodes, m) /\ A!IsDefault(nodes, n)
      /\ nodes[m].parent = o /\ nodes[n].parent = o
  BY <1>0
<1>2. o \in DOMAIN nodes
  <2>1. nodes \in Trees /\ nodes[m].kind = "value"
    BY <1>1 DEF AuthorInv, TreeOK, A!IsDefault
  <2> QED BY <1>1, <2>1, TreeFacts
<1>3. OneAt(nodes, o)
  BY <1>2 DEF AuthorInv, DefaultsOK, A!Nodes
<1> QED BY <1>1, <1>3 DEF OneAt

LEMMA FewerDefaults ==
  ASSUME AuthorInv, nodes' \in Trees,
         \A n \in DOMAIN nodes' : A!IsDefault(nodes', n) =>
             n \in DOMAIN nodes /\ A!IsDefault(nodes, n) /\ nodes'[n].parent = nodes[n].parent,
         \A o : A!InTransit(o) => A!InTransit(o)'
  PROVE  DefaultsOK'
  BY DefaultsBut

LEMMA SettledBy ==
  ASSUME AuthorInv, NEW c \in Requests, NEW job, A!Continues(c, job), edits[c].pc # "sole", torn' = torn
  PROVE  \A o : A!InTransit(o) => A!InTransit(o)'
<1>1. edits = [d \in Requests |-> edits[d]] /\ edits' = [edits EXCEPT ![c] = job]
  BY DEF AuthorInv, EditsOK, A!Continues
<1> QED BY <1>1, Transits

(* What holds of rows and rules, and of the one that works on them. *)
LEMMA DraftFacts ==
  ASSUME AuthorInv
  PROVE  /\ nodes \in Trees /\ DOMAIN nodes = A!Nodes /\ A!Rules = DOMAIN rules /\ rules \in Seq(A!RuleType)
         /\ DOMAIN rules = 1 .. Len(rules) /\ Len(rules) \in Nat
         /\ \A r \in DOMAIN rules : rules[r] \in A!RuleType /\ rules[r].set \in DOMAIN nodes
                                    /\ nodes[rules[r].set].kind = "set" /\ A!IsOwn(nodes, rules[r])
                                    /\ (rules[r].on => rules[r].reason # "target_deleted")
         /\ \A c \in Requests : EditOK(edits[c], nodes, Len(rules))
         /\ ~overlapped => /\ \A r \in DOMAIN rules : A!Aims(nodes, rules[r])
                           /\ \A c \in Requests : AimOK(edits[c], nodes, rules)
         /\ torn \subseteq DOMAIN nodes /\ \A s \in published : SnapOK(s)
<1>1. nodes \in Trees /\ rules \in Seq(A!RuleType) /\ A!RulesFit(nodes, rules) /\ A!CopiesAreOwn
  BY DEF AuthorInv, TreeOK
<1>2. DOMAIN rules = 1 .. Len(rules) /\ Len(rules) \in Nat /\ \A r \in 1 .. Len(rules) : rules[r] \in A!RuleType
  BY <1>1, SeqFacts
<1> QED BY <1>1, <1>2 DEF AuthorInv, EditsOK, SerialOK, A!RulesFit, A!CopiesAreOwn, A!Nodes, A!Rules

(* A step that changes rows only. *)
LEMMA RowsSettle ==
  ASSUME AuthorInv, NEW c \in Requests, NEW job, A!Continues(c, job), Busy(edits[c]),
         nodes' \in Trees, Grows(nodes, nodes'), UNCHANGED <<rules, published>>,
         EditOK(job, nodes', Len(rules)), job.pc \in {"idle", "sole"},
         ~overlapped => \A r \in DOMAIN rules : A!Aims(nodes', rules[r]),
         torn' \subseteq DOMAIN nodes', DefaultsOK'
  PROVE  AuthorInv'
<1>1. rules' \in Seq(A!RuleType) /\ Len(rules) <= Len(rules') /\ Len(rules') = Len(rules)
  BY DraftFacts
<1>2. A!RulesFit(nodes', rules')
  <2>1. A!RulesFit(nodes, rules)
    BY DEF AuthorInv, TreeOK
  <2> QED BY <2>1, FitKept
<1>3. A!CopiesAreOwn'
  <2>1. \A r \in DOMAIN rules : A!IsOwn(nodes', rules[r])
    BY DraftFacts, OwnKept
  <2> QED BY <2>1 DEF A!CopiesAreOwn, A!Rules
<1>4. \A s \in published' : SnapOK(s)
  BY DraftFacts
<1> QED BY <1>1, <1>2, <1>3, <1>4, Settles

(* A step that changes rules only. *)
LEMMA RulesSettle ==
  ASSUME AuthorInv, NEW c \in Requests, A!Ends(c), Busy(edits[c]), edits[c].pc # "sole",
         UNCHANGED <<nodes, published, torn>>,
         rules' \in Seq(A!RuleType), Len(rules) <= Len(rules'),
         \A r \in DOMAIN rules' :
            /\ rules'[r].set \in DOMAIN nodes /\ nodes[rules'[r].set].kind = "set"
            /\ (rules'[r].on => rules'[r].reason # "target_deleted") /\ A!IsOwn(nodes, rules'[r]),
         ~overlapped => \A r \in DOMAIN rules' : A!Aims(nodes, rules'[r])
  PROVE  AuthorInv'
<1>1. A!Continues(c, A!Idle)
  BY DEF A!Ends
<1>2. nodes' \in Trees /\ Grows(nodes, nodes') /\ torn' \subseteq DOMAIN nodes' /\ \A s \in published' : SnapOK(s)
  BY DraftFacts DEF Grows
<1>3. A!RulesFit(nodes', rules') /\ A!CopiesAreOwn'
  BY DEF A!RulesFit, A!CopiesAreOwn, A!Rules
<1>4. EditOK(A!Idle, nodes', Len(rules')) /\ A!Idle.pc \in {"idle", "sole"}
  BY IdleIs
<1>5. DefaultsOK'
  <2>1. \A o : A!InTransit(o) => A!InTransit(o)'
    BY <1>1, SettledBy
  <2> QED BY <1>2, <2>1, FewerDefaults
<1> QED BY <1>1, <1>2, <1>3, <1>4, <1>5, Settles

(* Rows that all stay alive: rules keep their targets. *)
LEMMA AimsStay ==
  ASSUME AuthorInv, nodes' \in Trees, Grows(nodes, nodes'),
         \A n \in DOMAIN nodes : nodes[n].live => nodes'[n].live
  PROVE  ~overlapped => \A r \in DOMAIN rules : A!Aims(nodes', rules[r])
<1> SUFFICES ASSUME ~overlapped, NEW r \in DOMAIN rules, rules[r].live, rules[r].on
             PROVE  A!Standing(nodes', rules[r].target) /\ nodes'[rules[r].target].kind = rules[r].type
  BY DEF A!Aims
<1>1. A!Standing(nodes, rules[r].target) /\ nodes[rules[r].target].kind = rules[r].type
  BY DraftFacts DEF A!Aims
<1> QED BY <1>1, DraftFacts, StandingKept

LEMMA InsertKeeps == ASSUME AuthorInv, NEW c \in Requests, A!Insert(c) PROVE AuthorInv'
<1>1. PICK node, id : node = edits[c].node /\ id = Len(nodes) + 1
  OBVIOUS
<1>2. Busy(edits[c]) /\ edits[c].pc = "insert" /\ UNCHANGED <<rules, published, torn>>
  BY DEF A!Insert, A!At, Busy
<1>3. InsertOK(nodes, node)
  BY <1>1, <1>2, DraftFacts DEF EditOK
<1>4. CASE ~A!Insertable(node)
  <2>1. A!Ends(c) /\ nodes' = nodes
    BY <1>1, <1>4 DEF A!Insert
  <2> QED BY <1>2, <2>1, IdleIs, RequestGoesOn, DraftFacts DEF A!Ends
<1>5. CASE A!Insertable(node)
  <2>1. /\ nodes' = Append(nodes, node)
        /\ IF node.default THEN A!Continues(c, [pc |-> "sole", option |-> node.parent, keep |-> id]) ELSE A!Ends(c)
    BY <1>1, <1>5 DEF A!Insert
  <2>2. /\ nodes' \in Trees /\ Grows(nodes, nodes') /\ DOMAIN nodes' = DOMAIN nodes \cup {id}
        /\ nodes'[id] = node /\ id \notin DOMAIN nodes /\ \A n \in DOMAIN nodes : nodes'[n] = nodes[n]
    BY <1>1, <1>3, <2>1, DraftFacts, RowAppended
  <2>3. ~overlapped => \A r \in DOMAIN rules : A!Aims(nodes', rules[r])
    BY <2>2, AimsStay
  <2>4. torn' \subseteq DOMAIN nodes'
    BY <1>2, <2>2, DraftFacts
  <2>5. CASE ~node.default
    <3>1. A!Continues(c, A!Idle)
      BY <2>1, <2>5 DEF A!Ends
    <3>2. \A o : A!InTransit(o) => A!InTransit(o)'
      BY <1>2, <3>1, SettledBy
    <3>3. \A n \in DOMAIN nodes' : A!IsDefault(nodes', n) =>
             n \in DOMAIN nodes /\ A!IsDefault(nodes, n) /\ nodes'[n].parent = nodes[n].parent
      BY <2>2, <2>5 DEF A!IsDefault
    <3>4. DefaultsOK'
      BY <2>2, <3>2, <3>3, FewerDefaults
    <3> QED BY <1>2, <2>2, <2>3, <2>4, <3>1, <3>4, IdleIs, RowsSettle
  <2>6. CASE node.default
    <3> DEFINE job == [pc |-> "sole", option |-> node.parent, keep |-> id]
    <3>1. A!Continues(c, job)
      BY <2>1, <2>6
    <3>2. job.pc = "sole" /\ job.option = node.parent
      OBVIOUS
    <3> HIDE DEF job
    <3>3. node.kind = "value" /\ node.parent \in DOMAIN nodes /\ nodes[node.parent].kind = "option"
      BY <1>3, <2>6 DEF InsertOK, IsRow, A!ParentKind
    <3>4. EditOK(job, nodes', Len(rules))
      BY <2>2, <3>2, <3>3 DEF EditOK, Stages, Loading, IsRow
    <3>5. PICK p : p = node.parent
      OBVIOUS
    <3>6. DefaultsOK'
      <4>1. edits'[c] = job
        BY <3>1 DEF A!Continues, AuthorInv, EditsOK
      <4>2. A!InTransit(p)'
        BY <3>2, <3>5, <4>1 DEF A!InTransit, A!At
      <4>3. \A o : A!InTransit(o) => A!InTransit(o)'
        BY <1>2, <3>1, SettledBy
      <4>4. \A n \in DOMAIN nodes' : A!IsDefault(nodes', n) /\ nodes'[n].parent # p =>
               n \in DOMAIN nodes /\ A!IsDefault(nodes, n) /\ nodes'[n].parent = nodes[n].parent
        BY <2>2, <3>5 DEF A!IsDefault
      <4> QED BY <2>2, <4>2, <4>3, <4>4, DefaultsBut
    <3>7. job.pc \in {"idle", "sole"}
      BY <3>2
    <3> QED BY <1>2, <2>2, <2>3, <2>4, <3>1, <3>4, <3>6, <3>7, RowsSettle
  <2> QED BY <2>5, <2>6
<1> QED BY <1>4, <1>5


(* A row rewritten, the others as they were. *)
LEMMA RowChanged ==
  ASSUME NEW forest \in Trees, NEW n \in DOMAIN forest, NEW row \in A!NodeType,
         row.kind = forest[n].kind, row.parent = forest[n].parent,
         NEW next, next = [forest EXCEPT ![n] = row]
  PROVE  /\ next \in Trees /\ Grows(forest, next) /\ DOMAIN next = DOMAIN forest
         /\ next[n] = row /\ \A m \in DOMAIN forest : m # n => next[m] = forest[m]
<1>1. DOMAIN forest = 1 .. Len(forest) /\ forest \in Seq(A!NodeType)
  BY TreeFacts
<1>2. next = [m \in DOMAIN forest |-> IF m = n THEN row ELSE forest[m]]
  BY <1>1
<1>3. next = [m \in DOMAIN forest |-> next[m]] /\ next[n] = row /\ \A m \in DOMAIN forest : m # n => next[m] = forest[m]
  BY <1>2
<1>4. \A m \in DOMAIN forest : next[m] \in A!NodeType /\ next[m].kind = forest[m].kind /\ next[m].parent = forest[m].parent
  BY <1>3, TreeFacts
<1> QED BY <1>3, <1>4, RowsRewritten

LEMMA MakeSoleKeeps == ASSUME AuthorInv, NEW c \in Requests, A!MakeSole(c) PROVE AuthorInv'
<1>1. PICK o, keep : o = edits[c].option /\ keep = edits[c].keep
  OBVIOUS
<1>2. /\ edits[c].pc = "sole" /\ Busy(edits[c]) /\ A!Continues(c, A!Idle) /\ UNCHANGED <<rules, published, torn>>
      /\ nodes' = [n \in DOMAIN nodes |->
                     IF n \in A!Children(o, "value") THEN A!Defaulted(nodes[n], n = keep) ELSE nodes[n]]
  BY <1>1 DEF A!MakeSole, A!At, Busy, A!Ends, A!SoleDefault, A!Nodes
<1>3. nodes \in Trees /\ \A n \in DOMAIN nodes : nodes[n] \in A!NodeType
  BY DraftFacts, TreeFacts
<1>4. \A n \in DOMAIN nodes :
         IF n \in A!Children(o, "value")
         THEN /\ nodes'[n] \in A!NodeType /\ nodes'[n].kind = nodes[n].kind /\ nodes'[n].parent = nodes[n].parent
              /\ nodes'[n].live = nodes[n].live /\ (nodes'[n].default <=> n = keep)
         ELSE nodes'[n] = nodes[n]
  <2> SUFFICES ASSUME NEW n \in DOMAIN nodes
               PROVE  IF n \in A!Children(o, "value")
                      THEN /\ nodes'[n] \in A!NodeType /\ nodes'[n].kind = nodes[n].kind
                           /\ nodes'[n].parent = nodes[n].parent
                           /\ nodes'[n].live = nodes[n].live /\ (nodes'[n].default <=> n = keep)
                      ELSE nodes'[n] = nodes[n]
    OBVIOUS
  <2>1. nodes'[n] = IF n \in A!Children(o, "value") THEN A!Defaulted(nodes[n], n = keep) ELSE nodes[n]
    BY <1>2, Zenon
  <2>2. CASE n \in A!Children(o, "value")
    <3>1. PICK b \in BOOLEAN : b = (n = keep)
      OBVIOUS
    <3>2. nodes'[n] = A!Defaulted(nodes[n], b)
      BY <2>1, <2>2, <3>1, Zenon
    <3>3. nodes[n] \in A!NodeType
      BY <1>3
    <3>4. /\ nodes'[n] \in A!NodeType /\ nodes'[n].kind = nodes[n].kind /\ nodes'[n].parent = nodes[n].parent
          /\ nodes'[n].live = nodes[n].live /\ nodes'[n].default = b
      <4>1. PICK d : d = A!Defaulted(nodes[n], b)
        OBVIOUS
      <4>2. /\ d \in A!NodeType /\ d.kind = nodes[n].kind /\ d.parent = nodes[n].parent
            /\ d.live = nodes[n].live /\ d.default = b
        BY <3>1, <3>3, <4>1, DefaultedIs, Zenon
      <4> QED BY <3>2, <4>1, <4>2, Zenon
    <3> QED BY <2>2, <3>1, <3>4, Zenon
  <2>3. CASE n \notin A!Children(o, "value")
    BY <2>1, <2>3, Zenon
  <2> QED BY <2>2, <2>3
<1>5. nodes' \in Trees /\ Grows(nodes, nodes') /\ DOMAIN nodes' = DOMAIN nodes
  <2>1. nodes' = [n \in DOMAIN nodes |-> nodes'[n]]
    BY <1>2
  <2>2. \A n \in DOMAIN nodes :
           nodes'[n] \in A!NodeType /\ nodes'[n].kind = nodes[n].kind /\ nodes'[n].parent = nodes[n].parent
    BY <1>3, <1>4
  <2> QED BY <1>3, <2>1, <2>2, RowsRewritten
<1>6. ~overlapped => \A r \in DOMAIN rules : A!Aims(nodes', rules[r])
  <2>1. \A n \in DOMAIN nodes : nodes[n].live => nodes'[n].live
    BY <1>4
  <2> QED BY <1>5, <2>1, AimsStay
<1>7. \A p : p # o /\ A!InTransit(p) => A!InTransit(p)'
  <2>1. \A d \in Requests : d # c => edits'[d] = edits[d]
    BY <1>2 DEF A!Continues, AuthorInv, EditsOK
  <2> QED BY <1>1, <1>2, <2>1 DEF A!InTransit, A!At
<1>8. DefaultsOK'
  <2> SUFFICES ASSUME NEW p \in DOMAIN nodes', ~A!InTransit(p)', NEW m \in DOMAIN nodes', NEW n \in DOMAIN nodes',
                      A!IsDefault(nodes', m), A!IsDefault(nodes', n), nodes'[m].parent = p, nodes'[n].parent = p
               PROVE  m = n
    BY DEF DefaultsOK, A!Nodes, OneAt
  <2>0. m \in DOMAIN nodes /\ n \in DOMAIN nodes /\ p \in DOMAIN nodes
    BY <1>5
  <2>1. CASE p = o
    <3>1. \A k \in {m, n} : k \in A!Children(o, "value")
      BY <1>4, <1>5, <2>1 DEF A!Children, A!Nodes, A!IsDefault
    <3> QED BY <1>4, <2>0, <3>1 DEF A!IsDefault
  <2>2. CASE p # o
    <3>1. \A k \in {m, n} : k \notin A!Children(o, "value")
      BY <1>4, <1>5, <2>2 DEF A!Children
    <3>2. nodes'[m] = nodes[m] /\ nodes'[n] = nodes[n]
      BY <1>4, <2>0, <3>1
    <3>3. OneAt(nodes, p)
      BY <1>7, <2>0, <2>2 DEF AuthorInv, DefaultsOK, A!Nodes
    <3> QED BY <2>0, <3>2, <3>3 DEF OneAt, A!IsDefault
  <2> QED BY <2>1, <2>2
<1>9. torn' \subseteq DOMAIN nodes' /\ EditOK(A!Idle, nodes', Len(rules)) /\ A!Idle.pc \in {"idle", "sole"}
  BY <1>2, <1>5, DraftFacts, IdleIs
<1> QED BY <1>2, <1>5, <1>6, <1>8, <1>9, RowsSettle

LEMMA WriteKeeps == ASSUME AuthorInv, NEW c \in Requests, A!Write(c) PROVE AuthorInv'
<1>1. PICK e, n : e = edits[c] /\ n = edits[c].node
  OBVIOUS
<1>2. /\ e.pc = "write" /\ Busy(edits[c]) /\ edits[c].pc # "sole" /\ UNCHANGED <<rules, published, torn>>
      /\ nodes' = IF A!Scoped(n) THEN [nodes EXCEPT ![n] = A!Set(@, e.field, e.value)] ELSE nodes
      /\ IF e.field = "default" /\ e.value
         THEN A!Continues(c, [pc |-> "sole", option |-> nodes[n].parent, keep |-> n]) ELSE A!Ends(c)
  BY <1>1 DEF A!Write, A!At, Busy
<1>3. WriteOK(nodes, e) /\ e.node = n
  BY <1>1, <1>2, DraftFacts DEF EditOK
<1>4. n \in DOMAIN nodes /\ e.field \in {"on", "default"} /\ e.value \in BOOLEAN
      /\ (e.field = "default" => nodes[n].kind = "value")
  BY <1>3 DEF WriteOK, IsRow
<1>5. nodes \in Trees /\ nodes[n] \in A!NodeType
  BY <1>4, DraftFacts, TreeFacts
<1>6. PICK row : row = IF A!Scoped(n) THEN A!Set(nodes[n], e.field, e.value) ELSE nodes[n]
  OBVIOUS
<1>7. /\ row \in A!NodeType /\ row.kind = nodes[n].kind /\ row.parent = nodes[n].parent /\ row.live = nodes[n].live
      /\ (row.default /\ ~nodes[n].default => e.field = "default" /\ e.value)
  <2>1. CASE A!Scoped(n)
    <3>1. row = A!Set(nodes[n], e.field, e.value)
      BY <1>6, <2>1
    <3>2. PICK f \in {"on", "default"}, b \in BOOLEAN : f = e.field /\ b = e.value
      BY <1>4
    <3>3. row = A!Set(nodes[n], f, b)
      BY <3>1, <3>2
    <3>4. /\ row \in A!NodeType /\ row.kind = nodes[n].kind /\ row.parent = nodes[n].parent
          /\ row.live = nodes[n].live /\ (row.default /\ ~nodes[n].default => f = "default" /\ b)
      BY <1>5, <3>2, <3>3, SetIs
    <3> QED BY <3>2, <3>4
  <2>2. CASE ~A!Scoped(n)
    BY <1>5, <1>6, <2>2
  <2> QED BY <2>1, <2>2
<1>8. nodes' = [nodes EXCEPT ![n] = row]
  <2>1. CASE A!Scoped(n)
    BY <1>2, <1>6, <2>1
  <2>2. CASE ~A!Scoped(n)
    <3>1. nodes = [m \in DOMAIN nodes |-> nodes[m]]
      BY <1>5, TreeFacts
    <3> QED BY <1>2, <1>4, <1>6, <2>2, <3>1
  <2> QED BY <2>1, <2>2
<1>9. /\ nodes' \in Trees /\ Grows(nodes, nodes') /\ DOMAIN nodes' = DOMAIN nodes
      /\ nodes'[n] = row /\ \A m \in DOMAIN nodes : m # n => nodes'[m] = nodes[m]
  BY <1>4, <1>5, <1>7, <1>8, RowChanged
<1>10. \A m \in DOMAIN nodes : nodes[m].live => nodes'[m].live
  BY <1>7, <1>9
<1>11. ~overlapped => \A r \in DOMAIN rules : A!Aims(nodes', rules[r])
  BY <1>9, <1>10, AimsStay
<1>12. torn' \subseteq DOMAIN nodes'
  BY <1>2, <1>9, DraftFacts
<1>13. CASE ~(e.field = "default" /\ e.value)
  <2>1. A!Continues(c, A!Idle)
    BY <1>2, <1>13 DEF A!Ends
  <2>2. \A o : A!InTransit(o) => A!InTransit(o)'
    BY <1>2, <2>1, SettledBy
  <2>3. \A m \in DOMAIN nodes' : A!IsDefault(nodes', m) =>
           m \in DOMAIN nodes /\ A!IsDefault(nodes, m) /\ nodes'[m].parent = nodes[m].parent
    BY <1>7, <1>9, <1>13 DEF A!IsDefault
  <2>4. DefaultsOK'
    BY <1>9, <2>2, <2>3, FewerDefaults
  <2> QED BY <1>2, <1>9, <1>11, <1>12, <2>1, <2>4, IdleIs, RowsSettle
<1>14. CASE e.field = "default" /\ e.value
  <2> DEFINE job == [pc |-> "sole", option |-> nodes[n].parent, keep |-> n]
  <2>1. A!Continues(c, job)
    BY <1>2, <1>14
  <2>2. job.pc = "sole" /\ job.option = nodes[n].parent
    OBVIOUS
  <2> HIDE DEF job
  <2>3. nodes[n].parent \in DOMAIN nodes /\ nodes[nodes[n].parent].kind = "option"
    BY <1>4, <1>5, <1>14, TreeFacts DEF A!ParentKind
  <2>4. EditOK(job, nodes', Len(rules)) /\ job.pc \in {"idle", "sole"}
    BY <1>9, <2>2, <2>3 DEF EditOK, Stages, Loading, IsRow, Grows
  <2>5. PICK p : p = nodes[n].parent
    OBVIOUS
  <2>6. A!InTransit(p)'
    <3>1. edits'[c] = job
      BY <2>1 DEF A!Continues, AuthorInv, EditsOK
    <3> QED BY <2>2, <2>5, <3>1 DEF A!InTransit, A!At
  <2>7. \A o : A!InTransit(o) => A!InTransit(o)'
    BY <1>2, <2>1, SettledBy
  <2>8. \A m \in DOMAIN nodes' : A!IsDefault(nodes', m) /\ nodes'[m].parent # p =>
           m \in DOMAIN nodes /\ A!IsDefault(nodes, m) /\ nodes'[m].parent = nodes[m].parent
    BY <1>7, <1>9, <2>5 DEF A!IsDefault
  <2>9. DefaultsOK'
    BY <1>9, <2>6, <2>7, <2>8, DefaultsBut
  <2> QED BY <1>2, <1>9, <1>11, <1>12, <2>1, <2>4, <2>9, RowsSettle
<1> QED BY <1>13, <1>14

(* Erasing: what is above a row is no value and no item. *)
LEMMA AboveIs ==
  ASSUME NEW forest \in Trees, NEW n \in DOMAIN forest, NEW m \in A!Lineage(forest, n), m # n
  PROVE  \E k \in DOMAIN forest : forest[k].kind # "set" /\ forest[k].parent = m
<1>1. \A k \in DOMAIN forest \cup {0} : A!Up(forest, k) \in DOMAIN forest \cup {0} /\ A!Up(forest, 0) = 0
  BY TreeFacts
<1>2. ASSUME NEW k \in DOMAIN forest \cup {0}, A!Up(forest, k) = m, m # 0
      PROVE  \E l \in DOMAIN forest : forest[l].kind # "set" /\ forest[l].parent = m
  BY <1>1, <1>2, TreeFacts
<1>3. m # 0 /\ m \in {A!Up(forest, n), A!Up(forest, A!Up(forest, n)), A!Up(forest, A!Up(forest, A!Up(forest, n)))}
  BY DEF A!Lineage
<1> QED BY <1>1, <1>2, <1>3

LEMMA EraseKeeps == ASSUME AuthorInv, NEW c \in Requests, A!Erase(c) PROVE AuthorInv'
<1>1. PICK n : n = edits[c].node
  OBVIOUS
<1>2. /\ edits[c].pc = "erase" /\ Busy(edits[c]) /\ A!Continues(c, A!Idle) /\ UNCHANGED <<rules, published, torn>>
      /\ nodes' = IF A!Scoped(n) THEN [nodes EXCEPT ![n] = A!Deleted(@)] ELSE nodes
  BY <1>1 DEF A!Erase, A!At, Busy, A!Ends
<1>3. n \in DOMAIN nodes /\ nodes[n].kind \in {"value", "item"}
  BY <1>1, <1>2, DraftFacts DEF EditOK, IsRow
<1>4. CASE ~A!Scoped(n)
  BY <1>2, <1>4, IdleIs, RequestGoesOn, DraftFacts
<1>5. CASE A!Scoped(n)
  <2>1. nodes \in Trees /\ nodes[n] \in A!NodeType
    BY <1>3, DraftFacts, TreeFacts
  <2>2. PICK row : row = A!Deleted(nodes[n])
    OBVIOUS
  <2>3. row \in A!NodeType /\ row.kind = nodes[n].kind /\ row.parent = nodes[n].parent /\ ~row.live
    BY <2>1, <2>2, DeletedIs
  <2>4. /\ nodes' \in Trees /\ Grows(nodes, nodes') /\ DOMAIN nodes' = DOMAIN nodes
        /\ nodes'[n] = row /\ \A m \in DOMAIN nodes : m # n => nodes'[m] = nodes[m]
    <3>1. nodes' = [nodes EXCEPT ![n] = row]
      BY <1>2, <1>5, <2>2
    <3> QED BY <1>3, <2>1, <2>3, <3>1, RowChanged
  <2>5. ~overlapped => \A r \in DOMAIN rules : A!Aims(nodes', rules[r])
    <3> SUFFICES ASSUME ~overlapped, NEW r \in DOMAIN rules, rules[r].live, rules[r].on
                 PROVE  A!Standing(nodes', rules[r].target) /\ nodes'[rules[r].target].kind = rules[r].type
      BY DEF A!Aims
    <3>1. PICK t : t = rules[r].target
      OBVIOUS
    <3>2. A!Standing(nodes, t) /\ nodes[t].kind = rules[r].type /\ t # n
      BY <1>1, <1>2, <3>1, DraftFacts DEF A!Aims, AimOK
    <3>3. n \notin A!Lineage(nodes, t)
      <4>1. t \in DOMAIN nodes
        BY <3>2 DEF A!Standing
      <4>2. \A k \in DOMAIN nodes : nodes[k].kind # "set" /\ nodes[k].parent = n => FALSE
        <5> SUFFICES ASSUME NEW k \in DOMAIN nodes, nodes[k].kind # "set", nodes[k].parent = n PROVE FALSE
          OBVIOUS
        <5>1. nodes[n].kind = A!ParentKind[nodes[k].kind] /\ nodes[k] \in A!NodeType
          BY <2>1, TreeFacts
        <5>2. nodes[k].kind \in {"group", "option", "item", "value"}
          BY <5>1 DEF A!NodeType
        <5> QED BY <1>3, <5>1, <5>2 DEF A!ParentKind
      <4> QED BY <2>1, <3>2, <4>1, <4>2, AboveIs
    <3>4. \A m \in DOMAIN nodes : nodes[m].live /\ m \in A!Lineage(nodes, t) => nodes'[m].live
      BY <2>4, <3>3
    <3>5. A!Standing(nodes', t) /\ nodes'[t].kind = nodes[t].kind
      BY <2>1, <2>4, <3>2, <3>4, StandingKept
    <3> QED BY <3>1, <3>2, <3>5
  <2>6. torn' \subseteq DOMAIN nodes'
    BY <1>2, <2>4, DraftFacts
  <2>7. DefaultsOK'
    <3>1. \A o : A!InTransit(o) => A!InTransit(o)'
      BY <1>2, SettledBy
    <3>2. \A m \in DOMAIN nodes' : A!IsDefault(nodes', m) =>
             m \in DOMAIN nodes /\ A!IsDefault(nodes, m) /\ nodes'[m].parent = nodes[m].parent
      BY <2>3, <2>4 DEF A!IsDefault
    <3> QED BY <2>4, <3>1, <3>2, FewerDefaults
  <2> QED BY <1>2, <2>4, <2>5, <2>6, <2>7, IdleIs, RowsSettle
<1> QED BY <1>4, <1>5

(* A cascade takes all that stands below what it takes. *)
LEMMA DownClosed ==
  ASSUME NEW forest \in Trees, NEW F, NEW t, A!Standing(forest, t), NEW m \in A!Lineage(forest, t), m \in F,
         \A x \in DOMAIN forest : forest[x].live /\ forest[x].kind # "set" /\ forest[x].parent \in F => x \in F
  PROVE  t \in F
<1> DEFINE p == A!Up(forest, t)
           q == A!Up(forest, p)
           r == A!Up(forest, q)
<1>1. t \in DOMAIN forest /\ \A x \in A!Lineage(forest, t) : forest[x].live
  BY DEF A!Standing
<1>2. \A x \in DOMAIN forest \cup {0} :
         /\ A!Up(forest, x) \in DOMAIN forest \cup {0} /\ A!Up(forest, 0) = 0
         /\ (A!Up(forest, x) # 0 =>
                x \in DOMAIN forest /\ forest[x].kind # "set" /\ A!Up(forest, x) = forest[x].parent)
  BY <1>1, TreeFacts
<1>3. A!Lineage(forest, t) = {t, p, q, r} \ {0} /\ 0 \notin DOMAIN forest
  BY TreeFacts DEF A!Lineage
<1>4. p \in DOMAIN forest \cup {0} /\ q \in DOMAIN forest \cup {0}
  BY <1>1, <1>2
<1>5. \A x \in {t, p, q} : A!Up(forest, x) # 0 /\ A!Up(forest, x) \in F => x \in F
  <2> SUFFICES ASSUME NEW x \in {t, p, q}, A!Up(forest, x) # 0, A!Up(forest, x) \in F PROVE x \in F
    OBVIOUS
  <2>1. x \in DOMAIN forest /\ forest[x].kind # "set" /\ A!Up(forest, x) = forest[x].parent
    BY <1>1, <1>2, <1>4
  <2>2. x \in A!Lineage(forest, t)
    <3>1. x # 0
      BY <1>3, <2>1
    <3> QED BY <1>3, <3>1
  <2> QED BY <1>1, <2>1, <2>2
<1>6. r # 0 => q # 0 /\ p # 0
  BY <1>1, <1>2, <1>4
<1>7. q # 0 => p # 0
  BY <1>2
<1> HIDE DEF p, q, r
<1>8. m \in {t, p, q, r} /\ m # 0
  BY <1>3
<1>9. p # 0 /\ p \in F => t \in F
  BY <1>5 DEF p
<1>10. q # 0 /\ q \in F => p \in F
  BY <1>5 DEF q
<1>11. r # 0 /\ r \in F => q \in F
  BY <1>5 DEF r
<1> QED BY <1>6, <1>7, <1>8, <1>9, <1>10, <1>11

LEMMA GoneIs ==
  ASSUME nodes \in Trees, NEW n, IsRow(nodes, n, {"group", "option"}), nodes[n].live, NEW gone,
         gone = {n} \cup A!OptionsBelow(n) \cup A!ValuesBelow(n) \cup A!ItemsBelow(n)
  PROVE  /\ \A x \in DOMAIN nodes :
               nodes[x].live /\ nodes[x].kind # "set" /\ nodes[x].parent \in gone => x \in gone
         /\ \A x \in gone : nodes[x].kind = "group" => x = n
         /\ \A x \in gone : nodes[x].kind = "option" => x \in A!OptionsBelow(n)
         /\ \A x \in gone : nodes[x].kind = "value" => x \in A!ValuesBelow(n)
<1>1. n \in DOMAIN nodes /\ nodes[n].kind \in {"group", "option"}
  BY DEF IsRow
<1>2. \A x : x \in A!OptionsBelow(n) <=> IF nodes[n].kind = "group" THEN x \in A!Children(n, "option") ELSE x = n
  BY DEF A!OptionsBelow
<1>3. \A x : x \in A!ValuesBelow(n) <=> \E o \in A!OptionsBelow(n) : x \in A!Children(o, "value")
  BY DEF A!ValuesBelow
<1>4. \A x, p, kind : x \in A!Children(p, kind) <=>
         x \in DOMAIN nodes /\ nodes[x].live /\ nodes[x].parent = p /\ nodes[x].kind = kind
  BY DEF A!Children, A!Nodes
<1>5. \A x : x \in gone <=> x = n \/ x \in A!OptionsBelow(n) \/ x \in A!ValuesBelow(n) \/ x \in A!Children(n, "item")
  BY DEF A!ItemsBelow
<1>6. \A x \in gone : nodes[x].kind = "group" => x = n
  BY <1>1, <1>2, <1>3, <1>4, <1>5
<1>7. \A x \in gone : nodes[x].kind = "option" => x \in A!OptionsBelow(n)
  BY <1>1, <1>2, <1>3, <1>4, <1>5
<1>8. \A x \in gone : nodes[x].kind = "value" => x \in A!ValuesBelow(n)
  BY <1>1, <1>2, <1>3, <1>4, <1>5
<1>9. ASSUME NEW x \in DOMAIN nodes, nodes[x].live, nodes[x].kind # "set", nodes[x].parent \in gone
      PROVE  x \in gone
  <2>1. PICK p : p = nodes[x].parent
    OBVIOUS
  <2>2. p \in gone /\ nodes[p].kind = A!ParentKind[nodes[x].kind] /\ nodes[x] \in A!NodeType
    BY <1>9, <2>1, TreeFacts
  <2>3. nodes[x].kind \in {"group", "option", "item", "value"}
    BY <1>9, <2>2 DEF A!NodeType
  <2>4. nodes[p].kind \in {"group", "option"}
    BY <1>1, <1>2, <1>3, <1>4, <1>5, <2>2, <2>3 DEF A!ParentKind
  <2>5. CASE nodes[p].kind = "group"
    <3>1. p = n /\ nodes[x].kind \in {"option", "item"}
      BY <1>6, <2>2, <2>3, <2>5 DEF A!ParentKind
    <3>2. nodes[x].parent = n /\ nodes[n].kind = "group"
      BY <2>1, <2>5, <3>1
    <3>3. x \in A!Children(n, "option") \/ x \in A!Children(n, "item")
      BY <1>4, <1>9, <3>1, <3>2
    <3> QED BY <1>2, <1>5, <3>2, <3>3
  <2>6. CASE nodes[p].kind = "option"
    <3>1. p \in A!OptionsBelow(n) /\ nodes[x].kind = "value"
      BY <1>7, <2>2, <2>3, <2>6 DEF A!ParentKind
    <3> QED BY <1>3, <1>4, <1>5, <1>9, <2>1, <3>1
  <2> QED BY <2>4, <2>5, <2>6
<1> QED BY <1>6, <1>7, <1>8, <1>9

(* Rules rewritten in place. *)
LEMMA RulesRewritten ==
  ASSUME NEW rs \in Seq(A!RuleType), NEW next, next = [r \in DOMAIN rs |-> next[r]],
         \A r \in DOMAIN rs : next[r] \in A!RuleType
  PROVE  next \in Seq(A!RuleType) /\ DOMAIN next = DOMAIN rs /\ Len(next) = Len(rs)
<1>1. DOMAIN rs = 1 .. Len(rs) /\ Len(rs) \in Nat
  BY SeqFacts
<1>2. DOMAIN next = 1 .. Len(rs) /\ next = [r \in 1 .. Len(rs) |-> next[r]]
      /\ \A r \in 1 .. Len(rs) : next[r] \in A!RuleType
  BY <1>1
<1> QED BY <1>1, <1>2, Listed

LEMMA CascadeKeeps == ASSUME AuthorInv, NEW c \in Requests, A!Cascade(c) PROVE AuthorInv'
<1>1. PICK n, gone : n = edits[c].node /\ gone = {n} \cup A!OptionsBelow(n) \cup A!ValuesBelow(n) \cup A!ItemsBelow(n)
  OBVIOUS
<1>2. /\ edits[c].pc = "cascade" /\ Busy(edits[c]) /\ A!Continues(c, A!Idle) /\ UNCHANGED <<published, torn>>
      /\ IF nodes[n].live
         THEN /\ nodes' = [m \in A!Nodes |-> IF m \in gone THEN A!Deleted(nodes[m]) ELSE nodes[m]]
              /\ rules' = [r \in A!Rules |-> IF r \in A!Orphaned(n) THEN A!Disabled(rules[r]) ELSE rules[r]]
         ELSE UNCHANGED <<nodes, rules>>
  BY <1>1 DEF A!Cascade, A!At, Busy, A!Ends
<1>3. IsRow(nodes, n, {"group", "option"})
  BY <1>1, <1>2, DraftFacts DEF EditOK
<1>4. CASE ~nodes[n].live
  BY <1>2, <1>4, IdleIs, RequestGoesOn, DraftFacts
<1>5. CASE nodes[n].live
  <2>0. /\ \A x \in DOMAIN nodes :
              nodes[x].live /\ nodes[x].kind # "set" /\ nodes[x].parent \in gone => x \in gone
        /\ \A x \in gone : nodes[x].kind = "group" => x = n
        /\ \A x \in gone : nodes[x].kind = "option" => x \in A!OptionsBelow(n)
        /\ \A x \in gone : nodes[x].kind = "value" => x \in A!ValuesBelow(n)
    <3>1. nodes \in Trees /\ gone = {n} \cup A!OptionsBelow(n) \cup A!ValuesBelow(n) \cup A!ItemsBelow(n)
      BY <1>1, DraftFacts
    <3> QED BY <1>3, <1>5, <3>1, GoneIs
  <2>1. \A m \in DOMAIN nodes : nodes'[m] = IF m \in gone THEN A!Deleted(nodes[m]) ELSE nodes[m]
    BY <1>2, <1>5, DraftFacts
  <2>2. \A r \in DOMAIN rules : rules'[r] = IF r \in A!Orphaned(n) THEN A!Disabled(rules[r]) ELSE rules[r]
    BY <1>2, <1>5, DraftFacts
  <2>3. nodes' = [m \in DOMAIN nodes |-> nodes'[m]] /\ rules' = [r \in DOMAIN rules |-> rules'[r]]
    BY <1>2, <1>5, DraftFacts
  <2>4. \A m \in DOMAIN nodes :
           /\ nodes'[m] \in A!NodeType /\ nodes'[m].kind = nodes[m].kind /\ nodes'[m].parent = nodes[m].parent
           /\ IF m \in gone THEN ~nodes'[m].live ELSE nodes'[m] = nodes[m]
    <3> SUFFICES ASSUME NEW m \in DOMAIN nodes
                 PROVE  /\ nodes'[m] \in A!NodeType /\ nodes'[m].kind = nodes[m].kind
                        /\ nodes'[m].parent = nodes[m].parent
                        /\ IF m \in gone THEN ~nodes'[m].live ELSE nodes'[m] = nodes[m]
      OBVIOUS
    <3>1. nodes[m] \in A!NodeType
      BY DraftFacts, TreeFacts
    <3> QED BY <2>1, <3>1, DeletedIs
  <2>5. nodes' \in Trees /\ Grows(nodes, nodes') /\ DOMAIN nodes' = DOMAIN nodes
    BY <2>3, <2>4, DraftFacts, RowsRewritten
  <2>6. \A r \in DOMAIN rules :
           /\ rules'[r] \in A!RuleType /\ rules'[r].set = rules[r].set
           /\ IF r \in A!Orphaned(n) THEN ~rules'[r].on ELSE rules'[r] = rules[r]
    BY <2>2, DraftFacts, RuleRewritten
  <2>7. rules' \in Seq(A!RuleType) /\ DOMAIN rules' = DOMAIN rules /\ Len(rules') = Len(rules)
    BY <2>3, <2>6, DraftFacts, RulesRewritten
  <2>8. A!RulesFit(nodes', rules')
    <3>1. A!RulesFit(nodes, rules')
      BY <2>6, <2>7, DraftFacts DEF A!RulesFit
    <3> QED BY <2>5, <3>1, FitKept
  <2>9. A!CopiesAreOwn'
    <3>1. \A r \in DOMAIN rules : A!IsOwn(nodes', rules[r])
      BY <2>5, DraftFacts, OwnKept
    <3>2. \A r \in DOMAIN rules : A!IsOwn(nodes', rules'[r])
      BY <2>6, <3>1 DEF A!IsOwn
    <3> QED BY <2>7, <3>2 DEF A!CopiesAreOwn, A!Rules
  <2>10. ~overlapped => \A r \in DOMAIN rules' : A!Aims(nodes', rules'[r])
    <3> SUFFICES ASSUME ~overlapped, NEW r \in DOMAIN rules, rules'[r].live, rules'[r].on
                 PROVE  A!Standing(nodes', rules'[r].target) /\ nodes'[rules'[r].target].kind = rules'[r].type
      BY <2>7 DEF A!Aims
    <3>1. PICK t : t = rules[r].target
      OBVIOUS
    <3>2. r \notin A!Orphaned(n) /\ rules'[r] = rules[r] /\ rules[r] \in A!RuleType
      BY <2>6, DraftFacts
    <3>3. A!Standing(nodes, t) /\ nodes[t].kind = rules[r].type
      BY <3>1, <3>2, DraftFacts DEF A!Aims
    <3>4. t \notin gone
      <4>1. rules[r].type \in {"group", "option", "value"}
        BY <3>2 DEF A!RuleType
      <4>2. nodes[t].kind = "group" => t # n
        BY <3>1, <3>2, <3>3 DEF A!Orphaned, A!EnabledOn, A!Rules
      <4>3. nodes[t].kind = "option" => t \notin A!OptionsBelow(n)
        BY <3>1, <3>2, <3>3 DEF A!Orphaned, A!EnabledOn, A!Rules
      <4>4. nodes[t].kind = "value" => t \notin A!ValuesBelow(n)
        BY <3>1, <3>2, <3>3 DEF A!Orphaned, A!EnabledOn, A!Rules
      <4> QED BY <2>0, <3>3, <4>1, <4>2, <4>3, <4>4
    <3>5. \A m \in A!Lineage(nodes, t) : m \notin gone
      BY <2>0, <3>3, <3>4, DraftFacts, DownClosed
    <3>6. \A m \in DOMAIN nodes : nodes[m].live /\ m \in A!Lineage(nodes, t) => nodes'[m].live
      BY <2>4, <3>5
    <3>7. A!Standing(nodes', t) /\ nodes'[t].kind = nodes[t].kind
      BY <2>5, <3>3, <3>6, DraftFacts, StandingKept
    <3> QED BY <3>1, <3>2, <3>3, <3>7
  <2>11. torn' \subseteq DOMAIN nodes' /\ Len(rules) <= Len(rules')
    BY <1>2, <2>5, <2>7, DraftFacts
  <2>12. DefaultsOK'
    <3>1. \A o : A!InTransit(o) => A!InTransit(o)'
      BY <1>2, SettledBy
    <3>2. \A m \in DOMAIN nodes' : A!IsDefault(nodes', m) =>
             m \in DOMAIN nodes /\ A!IsDefault(nodes, m) /\ nodes'[m].parent = nodes[m].parent
      BY <2>4, <2>5 DEF A!IsDefault
    <3> QED BY <2>5, <3>1, <3>2, FewerDefaults
  <2>13. \A s \in published' : SnapOK(s)
    BY <1>2, DraftFacts
  <2> QED BY <1>2, <2>5, <2>7, <2>8, <2>9, <2>10, <2>11, <2>12, <2>13, IdleIs, Settles
<1> QED BY <1>4, <1>5

(* Rules. *)
LEMMA RuleChanged ==
  ASSUME NEW rs \in Seq(A!RuleType), NEW r \in DOMAIN rs, NEW rule \in A!RuleType, NEW next, next = [rs EXCEPT ![r] = rule]
  PROVE  /\ next \in Seq(A!RuleType) /\ DOMAIN next = DOMAIN rs /\ Len(next) = Len(rs)
         /\ next[r] = rule /\ \A q \in DOMAIN rs : q # r => next[q] = rs[q]
<1>1. next = [q \in DOMAIN rs |-> IF q = r THEN rule ELSE rs[q]]
  OBVIOUS
<1>2. next = [q \in DOMAIN rs |-> next[q]] /\ next[r] = rule /\ \A q \in DOMAIN rs : q # r => next[q] = rs[q]
  BY <1>1
<1>3. \A q \in DOMAIN rs : next[q] \in A!RuleType
  BY <1>2, SeqFacts
<1> QED BY <1>2, <1>3, RulesRewritten

LEMMA DropRuleKeeps == ASSUME AuthorInv, NEW c \in Requests, A!DropRule(c) PROVE AuthorInv'
<1>1. PICK r : r = edits[c].rule
  OBVIOUS
<1>2. /\ edits[c].pc = "drop" /\ Busy(edits[c]) /\ edits[c].pc # "sole" /\ A!Ends(c) /\ UNCHANGED <<nodes, published, torn>>
      /\ rules' = IF A!Scoped(rules[r].set) THEN [rules EXCEPT ![r] = A!Deleted(@)] ELSE rules
  BY <1>1 DEF A!DropRule, A!At, Busy
<1>3. r \in DOMAIN rules /\ rules[r] \in A!RuleType
  BY <1>1, <1>2, DraftFacts DEF EditOK
<1>4. CASE ~A!Scoped(rules[r].set)
  BY <1>2, <1>4, IdleIs, RequestGoesOn, DraftFacts DEF A!Ends
<1>5. CASE A!Scoped(rules[r].set)
  <2>1. PICK rule : rule = A!Deleted(rules[r])
    OBVIOUS
  <2>2. /\ rule \in A!RuleType /\ rule.set = rules[r].set /\ ~rule.live /\ rule.on = rules[r].on
        /\ rule.reason = rules[r].reason /\ rule.by = rules[r].by
        /\ rule.target = rules[r].target /\ rule.reads = rules[r].reads
    BY <1>3, <2>1, RuleRewritten
  <2>3. /\ rules' \in Seq(A!RuleType) /\ DOMAIN rules' = DOMAIN rules /\ Len(rules') = Len(rules)
        /\ rules'[r] = rule /\ \A q \in DOMAIN rules : q # r => rules'[q] = rules[q]
    <3>1. rules' = [rules EXCEPT ![r] = rule]
      BY <1>2, <1>5, <2>1
    <3> QED BY <1>3, <2>2, <3>1, DraftFacts, RuleChanged
  <2>4. A!IsOwn(nodes, rule)
    BY <1>3, <2>2, DraftFacts DEF A!IsOwn
  <2>5. \A q \in DOMAIN rules' :
           /\ rules'[q].set \in DOMAIN nodes /\ nodes[rules'[q].set].kind = "set"
           /\ (rules'[q].on => rules'[q].reason # "target_deleted") /\ A!IsOwn(nodes, rules'[q])
    BY <1>3, <2>2, <2>3, <2>4, DraftFacts
  <2>6. ~overlapped => \A q \in DOMAIN rules' : A!Aims(nodes, rules'[q])
    BY <2>2, <2>3, DraftFacts DEF A!Aims
  <2>7. Len(rules) <= Len(rules')
    BY <2>3, DraftFacts
  <2> QED BY <1>2, <2>3, <2>5, <2>6, <2>7, RulesSettle
<1> QED BY <1>4, <1>5

LEMMA AddRuleKeeps == ASSUME AuthorInv, NEW c \in Requests, A!AddRule(c) PROVE AuthorInv'
<1>1. PICK e : e = edits[c]
  OBVIOUS
<1>2. /\ e.pc = "add" /\ Busy(edits[c]) /\ edits[c].pc # "sole" /\ A!Ends(c) /\ UNCHANGED <<nodes, published, torn>>
      /\ rules' = IF nodes[e.set].live THEN Append(rules, A!Written(e.draft, e.set, TRUE, "", "author")) ELSE rules
  BY <1>1 DEF A!AddRule, A!At, Busy
<1>3. /\ e.set \in DOMAIN nodes /\ nodes[e.set].kind = "set" /\ e.draft \in A!DraftType
      /\ (~overlapped => A!Standing(nodes, e.draft.target) /\ nodes[e.draft.target].kind = e.draft.type)
  BY <1>1, <1>2, DraftFacts DEF EditOK, IsRow, AimOK
<1>4. CASE ~nodes[e.set].live
  BY <1>2, <1>4, IdleIs, RequestGoesOn, DraftFacts DEF A!Ends
<1>5. CASE nodes[e.set].live
  <2>1. PICK rule : rule = A!Written(e.draft, e.set, TRUE, "", "author")
    OBVIOUS
  <2>2. /\ rule \in A!RuleType /\ rule.set = e.set /\ rule.reason = "" /\ rule.by = "author"
        /\ rule.type = e.draft.type /\ rule.target = e.draft.target
    <3>1. e.set \in Nat
      BY <1>3, DraftFacts, TreeFacts
    <3>2. rule \in A!RuleType
      BY <1>3, <2>1, <3>1, DraftIs DEF A!Written, A!RuleType
    <3> QED BY <2>1, <3>2 DEF A!Written
  <2>3. /\ rules' \in Seq(A!RuleType) /\ DOMAIN rules' = DOMAIN rules \cup {Len(rules) + 1}
        /\ Len(rules') = Len(rules) + 1 /\ Len(rules) + 1 \notin DOMAIN rules
        /\ rules'[Len(rules) + 1] = rule /\ \A q \in DOMAIN rules : rules'[q] = rules[q]
    <3>1. rules' = Append(rules, rule)
      BY <1>2, <1>5, <2>1
    <3>2. rules \in Seq(A!RuleType) /\ DOMAIN rules = 1 .. Len(rules) /\ Len(rules) \in Nat
      BY DraftFacts
    <3>3. rule \in A!RuleType
      BY <2>2
    <3> QED BY ONLY <3>1, <3>2, <3>3
  <2>4. PICK id : id = Len(rules) + 1
    OBVIOUS
  <2>5. \A q \in DOMAIN rules' : (q = id /\ rules'[q] = rule) \/ (q \in DOMAIN rules /\ rules'[q] = rules[q])
    BY <2>3, <2>4
  <2>6. A!IsOwn(nodes, rule)
    BY <2>2 DEF A!IsOwn
  <2>7. \A q \in DOMAIN rules' :
           /\ rules'[q].set \in DOMAIN nodes /\ nodes[rules'[q].set].kind = "set"
           /\ (rules'[q].on => rules'[q].reason # "target_deleted") /\ A!IsOwn(nodes, rules'[q])
    BY <1>3, <2>2, <2>5, <2>6, DraftFacts
  <2>8. ~overlapped => \A q \in DOMAIN rules' : A!Aims(nodes, rules'[q])
    <3> SUFFICES ASSUME ~overlapped, NEW q \in DOMAIN rules' PROVE A!Aims(nodes, rules'[q])
      OBVIOUS
    <3>1. A!Aims(nodes, rule)
      BY <1>3, <2>2 DEF A!Aims
    <3> QED BY <2>5, <3>1, DraftFacts
  <2>9. Len(rules) <= Len(rules')
    BY <2>3, DraftFacts
  <2> QED BY <1>2, <2>3, <2>7, <2>8, <2>9, RulesSettle
<1> QED BY <1>4, <1>5

LEMMA SaveRuleKeeps == ASSUME AuthorInv, NEW c \in Requests, A!SaveRule(c) PROVE AuthorInv'
<1>1. PICK e, r, old : e = edits[c] /\ r = edits[c].rule /\ old = rules[edits[c].rule]
  OBVIOUS
<1>2. /\ e.pc = "save" /\ Busy(edits[c]) /\ edits[c].pc # "sole" /\ A!Ends(c) /\ UNCHANGED <<nodes, published, torn>>
      /\ rules' = IF old.live /\ A!Scoped(old.set)
                  THEN [rules EXCEPT ![r] = A!Written(e.draft, old.set, old.on, old.reason, "author")] ELSE rules
  BY <1>1 DEF A!SaveRule, A!At, Busy
<1>3. /\ r \in DOMAIN rules /\ old \in A!RuleType /\ e.draft \in A!DraftType
      /\ old.set \in DOMAIN nodes /\ nodes[old.set].kind = "set" /\ (old.on => old.reason # "target_deleted")
      /\ (~overlapped => A!Standing(nodes, e.draft.target) /\ nodes[e.draft.target].kind = e.draft.type)
  BY <1>1, <1>2, DraftFacts DEF EditOK, AimOK
<1>4. CASE ~(old.live /\ A!Scoped(old.set))
  BY <1>2, <1>4, IdleIs, RequestGoesOn, DraftFacts DEF A!Ends
<1>5. CASE old.live /\ A!Scoped(old.set)
  <2>1. PICK rule : rule = A!Written(e.draft, old.set, old.on, old.reason, "author")
    OBVIOUS
  <2>2. /\ rule \in A!RuleType /\ rule.set = old.set /\ rule.on = old.on /\ rule.reason = old.reason
        /\ rule.by = "author" /\ rule.type = e.draft.type /\ rule.target = e.draft.target
    <3>1. old.set \in Nat /\ old.on \in BOOLEAN /\ old.reason \in {"", "target_deleted"}
      BY <1>3 DEF A!RuleType
    <3>2. rule \in A!RuleType
      BY <1>3, <2>1, <3>1, DraftIs DEF A!Written, A!RuleType
    <3> QED BY <2>1, <3>2 DEF A!Written
  <2>3. /\ rules' \in Seq(A!RuleType) /\ DOMAIN rules' = DOMAIN rules /\ Len(rules') = Len(rules)
        /\ rules'[r] = rule /\ \A q \in DOMAIN rules : q # r => rules'[q] = rules[q]
    <3>1. rules' = [rules EXCEPT ![r] = rule]
      BY <1>2, <1>5, <2>1
    <3> QED BY <1>3, <2>2, <3>1, DraftFacts, RuleChanged
  <2>4. A!IsOwn(nodes, rule)
    BY <2>2 DEF A!IsOwn
  <2>5. \A q \in DOMAIN rules' :
           /\ rules'[q].set \in DOMAIN nodes /\ nodes[rules'[q].set].kind = "set"
           /\ (rules'[q].on => rules'[q].reason # "target_deleted") /\ A!IsOwn(nodes, rules'[q])
    BY <1>3, <2>2, <2>3, <2>4, DraftFacts
  <2>6. ~overlapped => \A q \in DOMAIN rules' : A!Aims(nodes, rules'[q])
    BY <1>3, <2>2, <2>3, DraftFacts DEF A!Aims
  <2>7. Len(rules) <= Len(rules')
    BY <2>3, DraftFacts
  <2> QED BY <1>2, <2>3, <2>5, <2>6, <2>7, RulesSettle
<1> QED BY <1>4, <1>5

(* The last statements. *)
LEMMA StoreKeeps == ASSUME AuthorInv, NEW c \in Requests, A!Store(c) PROVE AuthorInv'
<1>1. PICK e : e = edits[c]
  OBVIOUS
<1>2. /\ e.pc = "store" /\ Busy(edits[c]) /\ edits[c].pc # "sole" /\ A!Continues(c, A!Idle) /\ UNCHANGED <<nodes, rules, torn>>
      /\ published' = IF nodes[e.set].live THEN published \cup {e.snapshot} ELSE published
  BY <1>1 DEF A!Store, A!At, Busy, A!Ends
<1>3. SnapOK(e.snapshot)
  BY <1>1, <1>2, DraftFacts DEF EditOK
<1>4. \A s \in published' : SnapOK(s)
  BY <1>2, <1>3, DraftFacts
<1> QED BY <1>2, <1>4, IdleIs, RequestGoesOn

LEMMA DiesKeeps == ASSUME AuthorInv, NEW c \in Requests, A!Dies(c) PROVE AuthorInv'
<1>1. PICK o : o = edits[c].option
  OBVIOUS
<1>2. /\ edits[c].pc = "sole" /\ Busy(edits[c]) /\ A!Continues(c, A!Idle) /\ UNCHANGED <<nodes, rules, published>>
      /\ torn' = torn \cup {o}
  BY <1>1 DEF A!Dies, A!At, Busy, A!Ends
<1>3. o \in DOMAIN nodes
  BY <1>1, <1>2, DraftFacts DEF EditOK, IsRow
<1>4. \A p : A!InTransit(p) => A!InTransit(p)'
  <2>1. \A d \in Requests : d # c => edits'[d] = edits[d]
    BY <1>2 DEF A!Continues, AuthorInv, EditsOK
  <2> QED BY <1>1, <1>2, <2>1 DEF A!InTransit, A!At
<1>5. nodes' \in Trees /\ Grows(nodes, nodes') /\ torn' \subseteq DOMAIN nodes'
  BY <1>2, <1>3, DraftFacts DEF Grows
<1>6. DefaultsOK'
  BY <1>2, <1>4, <1>5, FewerDefaults
<1>7. ~overlapped => \A r \in DOMAIN rules : A!Aims(nodes', rules[r])
  BY <1>2, DraftFacts
<1> QED BY <1>2, <1>5, <1>6, <1>7, IdleIs, RowsSettle
-----------------------------------------------------------------------------
(* The walk of the checks.  A finite set as a sequence has each of its elements. *)
LEMMA SetAsSeq ==
  ASSUME NEW S, IsFiniteSet(S)
  PROVE  A!SetToSeq(S) \in Seq(S) /\ \A x \in S : \E i \in DOMAIN A!SetToSeq(S) : A!SetToSeq(S)[i] = x
<1> DEFINE n == Cardinality(S)
           f == A!SetToSeq(S)
<1>1. n \in Nat /\ ExistsBijection(1 .. n, S)
  BY FS_CardinalityType
<1>2. \E g \in [1 .. n -> S] : A!IsInjective(g)
  BY <1>1, SameMaps DEF ExistsBijection, Bijection, Injection
<1>3. f \in [1 .. n -> S] /\ A!IsInjective(f)
  BY <1>2, ASize, Zenon DEF A!SetToSeq
<1> HIDE DEF n, f
<1>4. f \in Injection(1 .. n, S)
  BY <1>3, SameMaps DEF Injection
<1>5. Cardinality(1 .. n) = n
  <2>1. 1 \in Int /\ n \in Int
    BY <1>1
  <2>2. Cardinality(1 .. n) = IF 1 > n THEN 0 ELSE n - 1 + 1
    BY <2>1, FS_Interval, Zenon
  <2> QED BY <1>1, <2>2
<1>6. f \in Surjection(1 .. n, S)
  BY <1>4, <1>5, FS_Injection, Zenon DEF n
<1>7. f \in Seq(S) /\ DOMAIN f = 1 .. n
  BY <1>1, <1>3, Listed
<1> QED BY <1>6, <1>7 DEF Surjection, f

Steps(N) == [node : N, enter : BOOLEAN]
Walks(N) == [stack : Seq(Steps(N)), path : SUBSET N, settled : SUBSET N]

LEMMA StepIs ==
  ASSUME NEW N, NEW x \in N
  PROVE  /\ A!Enter(x) \in Steps(N) /\ A!Enter(x).node = x /\ A!Enter(x).enter
         /\ A!Leave(x) \in Steps(N) /\ A!Leave(x).node = x /\ ~A!Leave(x).enter
  BY DEF A!Enter, A!Leave, Steps

Enters(q, N, S) ==
    /\ q \in Seq(Steps(N)) /\ \A i \in DOMAIN q : q[i].enter
    /\ \A x \in S : \E i \in DOMAIN q : q[i].node = x

LEMMA EnteringIs ==
  ASSUME NEW N, NEW S, S \subseteq N, IsFiniteSet(S)
  PROVE  Enters(A!Entering(A!SetToSeq(S)), N, S)
<1>0. PICK q : q = A!Entering(A!SetToSeq(S))
  OBVIOUS
<1>1. PICK s : s = A!SetToSeq(S)
  OBVIOUS
<1>2. s \in Seq(S) /\ \A x \in S : \E i \in DOMAIN s : s[i] = x
  BY <1>1, SetAsSeq
<1>3. DOMAIN s = 1 .. Len(s) /\ Len(s) \in Nat /\ \A i \in 1 .. Len(s) : s[i] \in N
  BY <1>2, SeqFacts
<1>4. q = [i \in 1 .. Len(s) |-> A!Enter(s[i])]
  BY <1>0, <1>1 DEF A!Entering
<1>5. \A i \in 1 .. Len(s) : q[i] \in Steps(N) /\ q[i].node = s[i] /\ q[i].enter
  BY <1>3, <1>4, StepIs
<1>6. q \in Seq(Steps(N)) /\ DOMAIN q = 1 .. Len(s)
  BY <1>3, <1>4, <1>5, Listed
<1>7. \A x \in S : \E i \in DOMAIN q : q[i].node = x
  BY <1>2, <1>3, <1>5, <1>6
<1>8. Enters(q, N, S)
  BY <1>5, <1>6, <1>7 DEF Enters
<1> QED BY <1>0, <1>8

(* One more than the rest, then what is put on top. *)
LEMMA Stacked ==
  ASSUME NEW S, NEW r \in Seq(S), NEW m \in S, NEW q \in Seq(S)
  PROVE  LET t == r \o <<m>> \o q IN
         /\ t \in Seq(S) /\ Len(t) = Len(r) + 1 + Len(q)
         /\ \A i \in 1 .. Len(r) : t[i] = r[i]
         /\ t[Len(r) + 1] = m
         /\ \A i \in 1 .. Len(q) : t[Len(r) + 1 + i] = q[i]
  OBVIOUS

(* Ordered: what a node leads to is settled before it.  Then no part of it   *)
(* goes round.                                                               *)
Ordered(edges, S) ==
    /\ \A a, b : <<a, b>> \in edges /\ a \in S => b \in S
    /\ \A C \in SUBSET S : C # {} => \E b \in C : \A a \in C \ {b} : <<a, b>> \notin edges

LEMMA OneSettled ==
  ASSUME NEW edges, NEW S, Ordered(edges, S), NEW x, \A b : <<x, b>> \in edges => b \in S \cup {x}
  PROVE  Ordered(edges, S \cup {x})
<1>1. CASE x \in S
  <2>1. S \cup {x} = S
    BY <1>1
  <2> QED BY <2>1
<1>2. CASE x \notin S
  <2>1. \A a, b : <<a, b>> \in edges /\ a \in S \cup {x} => b \in S \cup {x}
    BY DEF Ordered
  <2>2. ASSUME NEW C \in SUBSET (S \cup {x}), C # {}
        PROVE  \E b \in C : \A a \in C \ {b} : <<a, b>> \notin edges
    <3>1. CASE x \in C
      <4>1. \A a \in C \ {x} : <<a, x>> \notin edges
        BY <1>2 DEF Ordered
      <4> QED BY <3>1, <4>1
    <3>2. CASE x \notin C
      <4>1. C \in SUBSET S
        BY <3>2
      <4> QED BY <2>2, <4>1 DEF Ordered
    <3> QED BY <3>1, <3>2
  <2> QED BY <2>1, <2>2 DEF Ordered
<1> QED BY <1>1, <1>2

(* Below a node to be left, what it leads to is to come, or is settled; so is *)
(* every start.                                                              *)
Awaits(edges, w) ==
    \A i \in 1 .. Len(w.stack) : ~w.stack[i].enter =>
        \A b : <<w.stack[i].node, b>> \in edges =>
            b \in w.settled \/ \E j \in i + 1 .. Len(w.stack) : w.stack[j].node = b
Starts(edges, w) ==
    \A a, b : <<a, b>> \in edges => a \in w.settled \/ \E j \in 1 .. Len(w.stack) : w.stack[j].node = a
Walked(edges, N) ==
    {w \in Walks(N) : Ordered(edges, w.settled) /\ Awaits(edges, w) /\ Starts(edges, w)}

(* A step taken off a stack whose node is settled. *)
LEMMA Popped ==
  ASSUME NEW N, NEW edges, NEW w \in Walked(edges, N), w.stack # <<>>, NEW v \in Walks(N),
         v.stack = SubSeq(w.stack, 1, Len(w.stack) - 1), w.settled \subseteq v.settled,
         w.stack[Len(w.stack)].node \in v.settled, Ordered(edges, v.settled)
  PROVE  v \in Walked(edges, N)
<1>1. w.stack \in Seq(Steps(N)) /\ Awaits(edges, w) /\ Starts(edges, w)
  BY DEF Walked, Walks
<1>2. PICK n \in Nat : n = Len(w.stack) /\ n >= 1
  BY <1>1, NotEmpty
<1>3. Len(v.stack) = n - 1 /\ \A k \in 1 .. n - 1 : v.stack[k] = w.stack[k]
  BY <1>1, <1>2, PartOf
<1>4. \A a : a \in w.settled \/ (\E j \in 1 .. n : w.stack[j].node = a) =>
             a \in v.settled \/ \E j \in 1 .. Len(v.stack) : v.stack[j].node = a
  BY <1>2, <1>3
<1>5. Starts(edges, v)
  BY <1>1, <1>2, <1>4 DEF Starts
<1>6. Awaits(edges, v)
  <2>1. ASSUME NEW i \in 1 .. n - 1, ~v.stack[i].enter, NEW b, <<v.stack[i].node, b>> \in edges
        PROVE  b \in v.settled \/ \E j \in i + 1 .. n - 1 : v.stack[j].node = b
    <3>1. i \in 1 .. Len(w.stack) /\ v.stack[i] = w.stack[i]
      BY <1>2, <1>3
    <3>2. ~w.stack[i].enter /\ <<w.stack[i].node, b>> \in edges
      BY <2>1, <3>1, Zenon
    <3>3. b \in w.settled \/ \E j \in i + 1 .. Len(w.stack) : w.stack[j].node = b
      BY <1>1, <3>1, <3>2, Zenon DEF Awaits
    <3>4. CASE b \in w.settled
      BY <3>4
    <3>5. ASSUME NEW j \in i + 1 .. Len(w.stack), w.stack[j].node = b
          PROVE  b \in v.settled \/ \E l \in i + 1 .. n - 1 : v.stack[l].node = b
      <4>1. CASE j = n
        BY <1>2, <3>5, <4>1
      <4>2. CASE j # n
        <5>1. j \in i + 1 .. n - 1 /\ j \in 1 .. n - 1
          BY <1>2, <4>2
        <5>2. v.stack[j] = w.stack[j]
          BY <1>3, <5>1, Zenon
        <5>3. v.stack[j].node = b
          BY <3>5, <5>2, Zenon
        <5> QED BY <5>1, <5>3, Zenon
      <4> QED BY <4>1, <4>2
    <3> QED BY <3>3, <3>4, <3>5
  <2>2. \A i \in 1 .. n - 1 : ~v.stack[i].enter =>
           \A b : <<v.stack[i].node, b>> \in edges => b \in v.settled \/ \E j \in i + 1 .. n - 1 : v.stack[j].node = b
    BY <2>1, Zenon
  <2>3. Len(v.stack) = n - 1
    BY <1>3
  <2>4. Awaits(edges, v) <=>
           \A i \in 1 .. Len(v.stack) : ~v.stack[i].enter =>
              \A b : <<v.stack[i].node, b>> \in edges =>
                 b \in v.settled \/ \E j \in i + 1 .. Len(v.stack) : v.stack[j].node = b
    BY Zenon DEF Awaits
  <2>5. \A i \in 1 .. Len(v.stack) : ~v.stack[i].enter =>
              \A b : <<v.stack[i].node, b>> \in edges =>
                 b \in v.settled \/ \E j \in i + 1 .. Len(v.stack) : v.stack[j].node = b
    BY <2>2, <2>3
  <2> QED BY <2>4, <2>5, Zenon
<1> QED BY <1>5, <1>6 DEF Walked

LEMMA WalkStays ==
  ASSUME NEW N, IsFiniteSet(N), NEW edges, edges \subseteq N \X N, NEW w \in Walked(edges, N), w.stack # <<>>
  PROVE  A!Walk(edges, w) \in Walked(edges, N)
<1> DEFINE step == w.stack[Len(w.stack)]
           rest == SubSeq(w.stack, 1, Len(w.stack) - 1)
           v == A!Walk(edges, w)
<1>1. /\ w \in Walks(N) /\ w.stack \in Seq(Steps(N)) /\ w.path \subseteq N /\ w.settled \subseteq N
      /\ Ordered(edges, w.settled) /\ Awaits(edges, w) /\ Starts(edges, w)
  BY DEF Walked, Walks
<1>2. PICK n \in Nat : n = Len(w.stack) /\ n >= 1
  BY <1>1, NotEmpty
<1>3. step \in Steps(N) /\ step.node \in N /\ step.enter \in BOOLEAN
  <2>1. step \in Steps(N)
    BY <1>1, <1>2, SeqFacts
  <2> HIDE DEF step
  <2> QED BY <2>1 DEF Steps
<1>4. rest \in Seq(Steps(N)) /\ Len(rest) = n - 1 /\ \A k \in 1 .. n - 1 : rest[k] = w.stack[k]
  BY <1>1, <1>2, PartOf
<1>5. CASE ~step.enter
  <2>1. v = [stack |-> rest, path |-> w.path \ {step.node}, settled |-> w.settled \cup {step.node}]
    BY <1>5 DEF A!Walk
  <2> HIDE DEF step, rest, v
  <2>2. v \in Walks(N) /\ v.stack = rest /\ v.settled = w.settled \cup {step.node}
    BY <1>1, <1>3, <1>4, <2>1 DEF Walks
  <2>3. \A b : <<step.node, b>> \in edges => b \in w.settled
    BY <1>1, <1>2, <1>5 DEF Awaits, step
  <2>4. Ordered(edges, v.settled)
    <3>1. PICK x, S : x = step.node /\ S = w.settled
      OBVIOUS
    <3>2. Ordered(edges, S) /\ \A b : <<x, b>> \in edges => b \in S \cup {x}
      BY <1>1, <2>3, <3>1
    <3>3. Ordered(edges, S \cup {x})
      BY <3>2, OneSettled
    <3> QED BY <2>2, <3>1, <3>3
  <2>5. v \in Walked(edges, N)
    BY <2>2, <2>4, Popped DEF rest, step
  <2> QED BY <2>5 DEF v
<1>6. CASE step.enter /\ step.node \in w.path
  <2>1. v = w
    BY <1>6 DEF A!Walk
  <2> QED BY <2>1
<1>7. CASE step.enter /\ step.node \in w.settled \ w.path
  <2>1. v = [w EXCEPT !.stack = rest]
    BY <1>7 DEF A!Walk
  <2> HIDE DEF step, rest, v
  <2>2. v \in Walks(N) /\ v.stack = rest /\ v.settled = w.settled
    BY <1>1, <1>4, <2>1 DEF Walks
  <2>3. v \in Walked(edges, N)
    BY <1>1, <1>7, <2>2, Popped DEF rest, step
  <2> QED BY <2>3 DEF v
<1>8. CASE step.enter /\ step.node \notin w.path /\ step.node \notin w.settled
  <2> DEFINE next == A!Ahead(edges, step.node) \ w.settled
             above == A!Entering(A!SetToSeq(next))
             stack == rest \o <<A!Leave(step.node)>> \o above
  <2>1. v = [stack |-> stack, path |-> w.path \cup {step.node}, settled |-> w.settled]
    BY <1>8 DEF A!Walk
  <2>2. \A b : <<step.node, b>> \in edges => b \in w.settled \/ b \in next
    <3> SUFFICES ASSUME NEW b, <<step.node, b>> \in edges PROVE b \in A!Ahead(edges, step.node)
      OBVIOUS
    <3> QED BY DEF A!Ahead
  <2>3. next \subseteq N
    BY DEF A!Ahead
  <2>4. IsFiniteSet(next)
    BY <2>3, FS_Subset
  <2> HIDE DEF step, rest, v, next
  <2>5. Enters(above, N, next)
    BY <2>3, <2>4, EnteringIs
  <2> HIDE DEF above
  <2>6. A!Leave(step.node) \in Steps(N) /\ A!Leave(step.node).node = step.node /\ ~A!Leave(step.node).enter
    BY <1>3, StepIs
  <2>7. PICK m \in Nat : m = Len(above) /\ DOMAIN above = 1 .. m
    BY <2>5, SeqFacts DEF Enters
  <2>8. /\ stack \in Seq(Steps(N)) /\ Len(stack) = n + m /\ stack[n] = A!Leave(step.node)
        /\ \A i \in 1 .. n - 1 : stack[i] = w.stack[i]
        /\ \A i \in 1 .. m : stack[n + i] = above[i]
    <3>1. Len(stack) = Len(rest) + 1 + Len(above) /\ stack \in Seq(Steps(N))
      BY <1>4, <2>5, <2>6, Stacked DEF Enters
    <3>2. \A i \in 1 .. Len(rest) : stack[i] = rest[i]
      BY <1>4, <2>5, <2>6, Stacked DEF Enters
    <3>3. stack[Len(rest) + 1] = A!Leave(step.node)
      BY <1>4, <2>5, <2>6, Stacked DEF Enters
    <3>4. \A i \in 1 .. Len(above) : stack[Len(rest) + 1 + i] = above[i]
      BY <1>4, <2>5, <2>6, Stacked DEF Enters
    <3> HIDE DEF stack
    <3>5. Len(rest) + 1 = n
      BY <1>2, <1>4
    <3> QED BY <1>2, <1>4, <2>7, <3>1, <3>2, <3>3, <3>4, <3>5
  <2> HIDE DEF stack
  <2>9. v \in Walks(N) /\ v.stack = stack /\ v.settled = w.settled
    BY <1>1, <1>3, <2>1, <2>8 DEF Walks
  <2>10. \A a : \A i \in 0 .. n : (\E j \in i + 1 .. n : w.stack[j].node = a) =>
             \E j \in i + 1 .. n + m : stack[j].node = a
    <3> SUFFICES ASSUME NEW a, NEW i \in 0 .. n, NEW j \in i + 1 .. n, w.stack[j].node = a
                 PROVE  \E k \in i + 1 .. n + m : stack[k].node = a
      OBVIOUS
    <3>1. j \in i + 1 .. n + m /\ j \in 1 .. n
      BY <1>2, <2>7
    <3>2. CASE j = n
      <4>1. stack[j].node = a
        BY <1>2, <2>6, <2>8, <3>2 DEF step
      <4> QED BY <3>1, <4>1
    <3>3. CASE j # n
      <4>1. j \in 1 .. n - 1
        BY <3>1, <3>3
      <4>2. stack[j].node = a
        BY <2>8, <4>1
      <4> QED BY <3>1, <4>2
    <3> QED BY <3>2, <3>3
  <2>11. Starts(edges, v)
    <3> SUFFICES ASSUME NEW a, NEW b, <<a, b>> \in edges
                 PROVE  a \in w.settled \/ \E j \in 1 .. n + m : stack[j].node = a
      BY <2>8, <2>9 DEF Starts
    <3>1. a \in w.settled \/ \E j \in 0 + 1 .. n : w.stack[j].node = a
      BY <1>1, <1>2 DEF Starts
    <3>2. (\E j \in 0 + 1 .. n : w.stack[j].node = a) => \E j \in 0 + 1 .. n + m : stack[j].node = a
      <4>1. 0 \in 0 .. n
        BY <1>2
      <4> QED BY <2>10, <4>1
    <3> QED BY <3>1, <3>2
  <2>12. Awaits(edges, v)
    <3> SUFFICES ASSUME NEW i \in 1 .. n + m, ~stack[i].enter, NEW b, <<stack[i].node, b>> \in edges
                 PROVE  b \in w.settled \/ \E j \in i + 1 .. n + m : stack[j].node = b
      BY <2>8, <2>9 DEF Awaits
    <3>1. CASE i \in 1 .. n - 1
      <4>1. stack[i] = w.stack[i] /\ i \in 1 .. n /\ i \in 0 .. n
        BY <1>2, <2>8, <3>1
      <4>2. b \in w.settled \/ \E j \in i + 1 .. n : w.stack[j].node = b
        BY <1>1, <1>2, <4>1 DEF Awaits
      <4> QED BY <2>10, <4>1, <4>2
    <3>2. CASE i = n
      <4>1. b \in w.settled \/ b \in next
        BY <2>2, <2>6, <2>8, <3>2
      <4>2. ASSUME b \in next PROVE \E j \in i + 1 .. n + m : stack[j].node = b
        <5>1. PICK k \in 1 .. m : above[k].node = b
          BY <2>5, <2>7, <4>2 DEF Enters
        <5>2. stack[n + k].node = b /\ n + k \in i + 1 .. n + m
          BY <1>2, <2>7, <2>8, <3>2, <5>1
        <5> QED BY <5>2
      <4> QED BY <4>1, <4>2
    <3>3. CASE i \notin 1 .. n
      <4>1. PICK k \in 1 .. m : i = n + k
        <5>1. i - n \in 1 .. m /\ i = n + (i - n)
          BY <1>2, <2>7, <3>3
        <5> QED BY <5>1
      <4> QED BY <2>5, <2>7, <2>8, <4>1 DEF Enters
    <3> QED BY <1>2, <3>1, <3>2, <3>3
  <2>13. v \in Walked(edges, N)
    BY <1>1, <2>9, <2>11, <2>12 DEF Walked
  <2> QED BY <2>13 DEF v
<1> QED BY <1>3, <1>5, <1>6, <1>7, <1>8

LEMMA CycleFree ==
  ASSUME NEW N, IsFiniteSet(N), NEW edges, edges \subseteq N \X N, ~A!CycleIn(edges), NEW C, C # {}
  PROVE  \E b \in C : \A a \in C \ {b} : <<a, b>> \notin edges
<1> DEFINE last == 4 * A!Cardinality(edges)
           start == [stack |-> A!Entering(A!SetToSeq({e[1] : e \in edges})), path |-> {}, settled |-> {}]
           G == Walked(edges, N)
           Step(w) == IF w.stack = <<>> THEN w ELSE A!Walk(edges, w)
<1>1. last \in Nat
  <2>1. IsFiniteSet(N \X N)
    BY FS_Product
  <2>2. IsFiniteSet(edges)
    BY <2>1, FS_Subset
  <2>3. A!Cardinality(edges) \in Nat
    BY <2>2, ASize, FS_CardinalityType
  <2> QED BY <2>3
<1>2. start \in G
  <2> DEFINE S == {e[1] : e \in edges}
             q == A!Entering(A!SetToSeq(S))
  <2>1. S \subseteq N /\ \A a, b : <<a, b>> \in edges => a \in S
    OBVIOUS
  <2>2. start = [stack |-> q, path |-> {}, settled |-> {}]
    OBVIOUS
  <2> HIDE DEF S
  <2>3. Enters(q, N, S)
    <3>1. IsFiniteSet(S)
      BY <2>1, FS_Subset
    <3> QED BY <2>1, <3>1, EnteringIs
  <2> HIDE DEF q, start
  <2>4. start \in Walks(N) /\ start.stack = q /\ start.settled = {}
    BY <2>2, <2>3 DEF Walks, Enters
  <2>5. DOMAIN q = 1 .. Len(q)
    BY <2>3, SeqFacts DEF Enters
  <2>6. Ordered(edges, start.settled)
    BY <2>4 DEF Ordered
  <2>7. Awaits(edges, start)
    BY <2>3, <2>4, <2>5 DEF Awaits, Enters
  <2>8. Starts(edges, start)
    BY <2>1, <2>3, <2>4, <2>5 DEF Starts, Enters
  <2> QED BY <2>4, <2>6, <2>7, <2>8 DEF Walked
<1>3. \A w \in G : Step(w) \in G
  BY WalkStays
<1> DEFINE walk[i \in 0 .. last] ==
              IF i = 0 THEN start
              ELSE IF walk[i - 1].stack = <<>> THEN walk[i - 1] ELSE A!Walk(edges, walk[i - 1])
<1>4. walk[last].stack = <<>>
  BY Zenon DEF A!CycleIn
<1> HIDE DEF last, start, G, Step
<1>5. PICK f : Solves(f, last, G, start, [i \in 1 .. last |-> [w \in G |-> Step(w)]])
  <2> DEFINE step == [i \in 1 .. last |-> [w \in G |-> Step(w)]]
  <2>1. step \in [1 .. last -> [G -> G]]
    BY <1>3
  <2> HIDE DEF step
  <2>2. \E f : Solves(f, last, G, start, step)
    BY <1>1, <1>2, <2>1, Recursion
  <2> QED BY <2>2 DEF step
<1>6. f = [i \in 0 .. last |-> IF i = 0 THEN start ELSE Step(f[i - 1])]
  <2>1. /\ f \in [0 .. last -> G] /\ f[0] = start
        /\ \A i \in 1 .. last : f[i] = [k \in 1 .. last |-> [w \in G |-> Step(w)]][i][f[i - 1]]
    BY <1>5 DEF Solves
  <2>2. \A i \in 1 .. last : f[i - 1] \in G
    BY <1>1, <2>1
  <2>3. \A i \in 1 .. last : f[i] = Step(f[i - 1])
    BY <2>1, <2>2
  <2> QED BY <1>1, <2>1, <2>3
<1>7. walk = [i \in 0 .. last |-> IF i = 0 THEN start ELSE Step(walk[i - 1])]
  BY <1>6, Zenon DEF Step
<1> HIDE DEF walk
<1>8. \A i \in 0 .. last : walk[i] = IF i = 0 THEN start ELSE Step(walk[i - 1])
  BY <1>7
<1> DEFINE T == {k \in Nat : k <= last => walk[k] \in G}
<1>9. 0 \in T
  BY <1>1, <1>2, <1>8
<1>10. ASSUME NEW k \in Nat, k \in T PROVE k + 1 \in T
  BY <1>1, <1>3, <1>8, <1>10
<1>11. last \in T
  <2> HIDE DEF T
  <2> QED BY <1>1, <1>9, <1>10, Induction
<1>12. PICK w \in Walked(edges, N) : w.stack = <<>>
  BY <1>4, <1>11 DEF G
<1>13. Ordered(edges, w.settled) /\ \A a, b : <<a, b>> \in edges => a \in w.settled
  <2>1. Len(w.stack) = 0
    BY <1>12
  <2>2. \A a, b : <<a, b>> \in edges => a \in w.settled
    BY <1>12, <2>1 DEF Walked, Starts
  <2> QED BY <2>2 DEF Walked
<1>14. \A a, b : <<a, b>> \in edges => b \in w.settled
  BY <1>13 DEF Ordered
<1>15. CASE C \subseteq w.settled
  BY <1>13, <1>15 DEF Ordered
<1>16. CASE ~(C \subseteq w.settled)
  BY <1>14, <1>16
<1> QED BY <1>15, <1>16

(* What the checks let through is sound: of rows as they are in the tree ... *)
LEMMA ChecksAreSound ==
  ASSUME NEW forest \in Trees, NEW tree, ReadOK(forest, tree), NEW today, A!Publishable(tree, today),
         \A r \in today : r.on => r.reason # "target_deleted",
         \A r \in today : r.type \in {"group", "option", "value"},
         NEW s, s.tree = tree, s.rules = {r \in today : r.on}
  PROVE  A!Sound(s)
<1> DEFINE options == A!In(tree, "option")
           edges == A!Edges(tree, today)
<1>1. /\ A!RulesAreInside(tree, today) /\ ~A!CycleIn(edges) /\ A!PricesDoNotConflict(today)
      /\ A!MinimumsReachable(tree, today)
  BY DEF A!Publishable
<1>2. /\ \A n \in DOMAIN tree : n \in DOMAIN forest /\ tree[n].kind = forest[n].kind /\ tree[n].parent = forest[n].parent
      /\ IsFiniteSet(DOMAIN tree)
  <2>1. \A n \in DOMAIN tree : n \in DOMAIN forest /\ tree[n].kind = forest[n].kind /\ tree[n].parent = forest[n].parent
    BY DEF ReadOK
  <2>2. DOMAIN forest = 1 .. Len(forest) /\ Len(forest) \in Int /\ 1 \in Int
    BY TreeFacts
  <2>3. IsFiniteSet(1 .. Len(forest))
    BY <2>2, FS_Interval
  <2>4. DOMAIN tree \in SUBSET (1 .. Len(forest))
    BY <2>1, <2>2
  <2> QED BY <2>1, <2>3, <2>4, FS_Subset
<1>3. \A r \in s.rules : r \in today /\ r.on /\ r \in A!NotDeleted(today)
  BY DEF A!NotDeleted
<1>4. \A r \in s.rules : r.target \in A!In(tree, r.type) /\ r.reads \subseteq options
  BY <1>1, <1>3 DEF A!RulesAreInside
<1>5. \A C \in (SUBSET options) \ {{}} : \E b \in C : \A a \in C \ {b} : <<a, b>> \notin edges
  <2>1. IsFiniteSet(options)
    <3>1. options \in SUBSET DOMAIN tree
      BY DEF A!In
    <3> QED BY <1>2, <3>1, FS_Subset
  <2>2. edges \subseteq options \X options
    BY DEF A!Edges
  <2> HIDE DEF options, edges
  <2> QED BY <1>1, <2>1, <2>2, CycleFree
<1>6. ASSUME NEW a \in options, NEW b \in options, a # b, NEW r \in s.rules, r.action = "hide", a \in r.reads,
             b \in {r.target, tree[r.target].parent} \/ r.target = tree[b].parent
      PROVE  <<a, b>> \in edges
  <2>1. PICK t : t = r.target
    OBVIOUS
  <2>2. t \in DOMAIN tree /\ b \in DOMAIN tree /\ tree[b].kind = "option"
    BY <1>4, <2>1 DEF A!In
  <2>3. /\ tree[t].kind = forest[t].kind /\ tree[t].parent = forest[t].parent /\ forest[t].kind # "set"
        /\ tree[b].kind = forest[b].kind /\ tree[b].parent = forest[b].parent /\ t \in DOMAIN forest /\ b \in DOMAIN forest
    BY <2>2 DEF ReadOK
  <2>4. b \in A!OptionsUnder(tree, t)
    <3>1. CASE b = t
      BY <2>2, <3>1 DEF A!OptionsUnder
    <3>2. CASE b = tree[t].parent
      <4>1. A!ParentKind[forest[t].kind] = "option" /\ forest[t] \in A!NodeType
        BY <2>2, <2>3, <3>2, TreeFacts
      <4>2. tree[t].kind \notin {"group", "option"}
        BY <2>3, <4>1 DEF A!ParentKind
      <4> QED BY <2>2, <3>2, <4>2 DEF A!OptionsUnder
    <3>3. CASE t = tree[b].parent
      <4>1. tree[t].kind = "group"
        BY <2>2, <2>3, <3>3, TreeFacts DEF A!ParentKind
      <4> QED BY <2>2, <3>3, <4>1 DEF A!OptionsUnder, A!In
    <3> QED BY <1>6, <2>1, <3>1, <3>2, <3>3
  <2> QED BY <1>3, <1>6, <2>1, <2>4 DEF A!Edges
<1>7. ASSUME NEW H \in SUBSET {r \in s.rules : r.type = "value" /\ r.action = "hide"},
             NEW o \in A!ShownOptions(tree), tree[o].takes
      PROVE  Cardinality(A!ShownValues(tree, o) \ {r.target : r \in H}) >= tree[o].minimum
  <2> DEFINE few == A!ShownValues(tree, o) \ A!Hideable(today)
             more == A!ShownValues(tree, o) \ {r.target : r \in H}
  <2>1. few \in SUBSET more
    BY <1>3 DEF A!Hideable
  <2>2. more \in SUBSET DOMAIN tree
    BY DEF A!ShownValues, A!In
  <2>3. Cardinality(few) >= tree[o].minimum
    BY <1>1, <1>7, ASize DEF A!MinimumsReachable
  <2>4. tree[o].minimum \in Nat
    <3>1. o \in DOMAIN tree
      BY DEF A!ShownOptions, A!In
    <3>2. tree[o] \in A!NodeType
      BY <3>1 DEF ReadOK
    <3> QED BY <3>2 DEF A!NodeType
  <2> HIDE DEF few, more
  <2>5. IsFiniteSet(more)
    BY <1>2, <2>2, FS_Subset
  <2>6. IsFiniteSet(few) /\ Cardinality(few) <= Cardinality(more)
    BY <2>1, <2>5, FS_Subset
  <2>7. Cardinality(few) \in Nat /\ Cardinality(more) \in Nat
    BY <2>5, <2>6, FS_CardinalityType
  <2>8. Cardinality(more) >= tree[o].minimum
    BY <2>3, <2>4, <2>6, <2>7
  <2> QED BY <2>8 DEF more
<1>8. \A q, r \in s.rules : q.action = "set_price" /\ r.action = "set_price" /\ q.target = r.target
                              => q.amount = r.amount
  BY <1>1, <1>3 DEF A!PricesDoNotConflict
<1>9. {r \in s.rules : r.on} = s.rules
  BY <1>3
<1> HIDE DEF options, edges
<1>10. \A C \in (SUBSET options) \ {{}} : \E b \in C : \A a \in C \ {b} :
           ~\E r \in s.rules : /\ r.action = "hide" /\ a \in r.reads
                               /\ b \in {r.target, tree[r.target].parent} \/ r.target = tree[b].parent
  <2> SUFFICES ASSUME NEW C \in (SUBSET options) \ {{}}
               PROVE  \E b \in C : \A a \in C \ {b} :
                        ~\E r \in s.rules :
                            /\ r.action = "hide" /\ a \in r.reads
                            /\ b \in {r.target, tree[r.target].parent} \/ r.target = tree[b].parent
    OBVIOUS
  <2>1. PICK b \in C : \A a \in C \ {b} : <<a, b>> \notin edges
    BY <1>5
  <2> QED BY <1>6, <2>1
<1>11. A!Consistent(tree, s.rules)
  BY <1>4, <1>7, <1>8, <1>10, ASize DEF A!Consistent, options
<1> QED BY <1>9, <1>11 DEF A!Sound

(* ... and so is what is to be stored, if no rule moved meanwhile. *)
LEMMA CheckKeeps == ASSUME AuthorInv, NEW c \in Requests, A!Check(c) PROVE AuthorInv'
<1>1. PICK e, today : e = edits[c] /\ today = {rules[r] : r \in A!RulesOf(edits[c].set)}
  OBVIOUS
<1> DEFINE snapshot == [tree |-> e.tree, rules |-> {r \in e.rules : r.on}, checked |-> {r \in today : r.on}]
           job == [pc |-> "store", set |-> e.set, snapshot |-> snapshot]
<1>2. /\ e.pc = "check" /\ Busy(edits[c]) /\ edits[c].pc # "sole" /\ UNCHANGED <<nodes, rules, published, torn>>
      /\ IF A!Publishable(e.tree, today) THEN A!Continues(c, job) ELSE A!Ends(c)
  BY <1>1 DEF A!Check, A!At, Busy
<1>3. \A s \in published' : SnapOK(s)
  BY <1>2, DraftFacts
<1>4. CASE ~A!Publishable(e.tree, today)
  BY <1>2, <1>3, <1>4, IdleIs, RequestGoesOn DEF A!Ends
<1>5. CASE A!Publishable(e.tree, today)
  <2>1. snapshot.tree = e.tree /\ snapshot.rules = {r \in e.rules : r.on}
        /\ snapshot.checked = {r \in today : r.on} /\ job.pc = "store" /\ job.snapshot = snapshot
    OBVIOUS
  <2>2. A!Continues(c, job)
    BY <1>2, <1>5
  <2> HIDE DEF snapshot, job
  <2>3. nodes \in Trees /\ ReadOK(nodes, e.tree)
    BY <1>1, <1>2, DraftFacts DEF EditOK, Loading
  <2>4. \A r \in today : r \in A!RuleType /\ (r.on => r.reason # "target_deleted")
    BY <1>1, DraftFacts DEF A!RulesOf
  <2>5. \A r \in today : r.type \in {"group", "option", "value"}
    BY <2>4 DEF A!RuleType
  <2>6. SnapOK(snapshot)
    BY <1>5, <2>1, <2>3, <2>4, <2>5, ChecksAreSound DEF SnapOK
  <2>7. EditOK(job, nodes, Len(rules)) /\ AimOK(job, nodes, rules)
    BY <2>1, <2>6 DEF EditOK, AimOK, Stages, Loading
  <2> QED BY <1>2, <1>3, <2>2, <2>7, RequestGoesOn
<1> QED BY <1>4, <1>5
-----------------------------------------------------------------------------
(* Copies.  What is below a row holds up to it. *)
LEMMA BelowIs ==
  ASSUME nodes \in Trees, NEW n \in DOMAIN nodes
  PROVE  \A m \in A!Below(n) :
            /\ m \in DOMAIN nodes /\ nodes[m].live /\ nodes[m].kind # "set" /\ m # n
            /\ nodes[m].parent = n \/ nodes[m].parent \in A!Below(n)
<1>1. \A x, p, kind : x \in A!Children(p, kind) <=>
         x \in DOMAIN nodes /\ nodes[x].live /\ nodes[x].parent = p /\ nodes[x].kind = kind
  BY DEF A!Children, A!Nodes
<1>2. \A p : nodes[p].kind = "group" => A!OptionsBelow(p) = A!Children(p, "option")
  BY DEF A!OptionsBelow
<1>3. \A p, x : x \in A!ValuesBelow(p) <=> \E o \in A!OptionsBelow(p) : x \in A!Children(o, "value")
  BY DEF A!ValuesBelow
<1>4. \A p : A!ItemsBelow(p) = A!Children(p, "item")
  BY DEF A!ItemsBelow
<1>5. CASE nodes[n].kind = "set"
  <2>1. \A m : m \in A!Below(n) <=>
           \/ m \in A!Children(n, "group")
           \/ \E g \in A!Children(n, "group") : m \in A!OptionsBelow(g) \/ m \in A!ValuesBelow(g) \/ m \in A!ItemsBelow(g)
    BY <1>5 DEF A!Below
  <2> SUFFICES ASSUME NEW m \in A!Below(n)
               PROVE  /\ m \in DOMAIN nodes /\ nodes[m].live /\ nodes[m].kind # "set" /\ m # n
                      /\ nodes[m].parent = n \/ nodes[m].parent \in A!Below(n)
    OBVIOUS
  <2>2. CASE m \in A!Children(n, "group")
    BY <1>1, <1>5, <2>2
  <2>3. ASSUME NEW g \in A!Children(n, "group"), m \in A!OptionsBelow(g) \/ m \in A!ItemsBelow(g)
        PROVE  /\ m \in DOMAIN nodes /\ nodes[m].live /\ nodes[m].kind # "set" /\ m # n
               /\ nodes[m].parent = n \/ nodes[m].parent \in A!Below(n)
    <3>1. nodes[g].kind = "group" /\ g \in A!Below(n)
      BY <1>1, <2>1
    <3>2. m \in A!Children(g, "option") \/ m \in A!Children(g, "item")
      BY <1>2, <1>4, <2>3, <3>1
    <3> QED BY <1>1, <1>5, <3>1, <3>2
  <2>4. ASSUME NEW g \in A!Children(n, "group"), m \in A!ValuesBelow(g)
        PROVE  /\ m \in DOMAIN nodes /\ nodes[m].live /\ nodes[m].kind # "set" /\ m # n
               /\ nodes[m].parent = n \/ nodes[m].parent \in A!Below(n)
    <3>1. PICK o \in A!OptionsBelow(g) : m \in A!Children(o, "value")
      BY <1>3, <2>4
    <3>2. o \in A!Below(n)
      BY <2>1, <3>1
    <3> QED BY <1>1, <1>5, <3>1, <3>2
  <2> QED BY <2>1, <2>2, <2>3, <2>4
<1>6. CASE nodes[n].kind = "group"
  <2>1. \A m : m \in A!Below(n) <=> m \in A!Children(n, "option") \/ m \in A!ValuesBelow(n) \/ m \in A!Children(n, "item")
    BY <1>2, <1>4, <1>6 DEF A!Below
  <2>2. \A m : m \in A!ValuesBelow(n) => \E o \in A!Children(n, "option") : m \in A!Children(o, "value")
    BY <1>2, <1>3, <1>6
  <2> QED BY <1>1, <1>6, <2>1, <2>2
<1>7. CASE nodes[n].kind \notin {"set", "group"}
  <2>1. A!Below(n) = A!Children(n, "value")
    BY <1>7 DEF A!Below
  <2>2. ASSUME NEW m \in A!Children(n, "value") PROVE m # n
    <3>1. nodes[m].kind = "value" /\ m \in DOMAIN nodes /\ nodes[m].parent = n
      BY <1>1
    <3>2. nodes[n].kind = "option"
      BY <3>1, TreeFacts DEF A!ParentKind
    <3> QED BY <3>1, <3>2
  <2> QED BY <1>1, <2>1, <2>2
<1> QED BY <1>5, <1>6, <1>7

LEMMA MovedIs ==
  ASSUME NEW n, NEW t \in A!NodeType, NEW p \in Nat, A!To(n, t.parent) = p
  PROVE  /\ A!Moved(n, t) \in A!NodeType /\ A!Moved(n, t).kind = t.kind /\ A!Moved(n, t).live = t.live
         /\ A!Moved(n, t).default = t.default /\ A!Moved(n, t).parent = p
  BY DEF A!Moved, A!NodeType

(* Where the copies are, and what they are. *)
Copies(forest, next, n, node, B, L) ==
    /\ L = Len(forest) /\ L + 1 \in DOMAIN next /\ L + 1 \notin DOMAIN forest /\ next[L + 1] = node
    /\ \A m \in DOMAIN forest : m \in DOMAIN next /\ next[m] = forest[m]
    /\ \A m \in B : /\ A!CopyOf(n, m) \in DOMAIN next /\ A!CopyOf(n, m) \notin DOMAIN forest
                    /\ A!CopyOf(n, m) # L + 1 /\ next[A!CopyOf(n, m)] = A!Moved(n, forest[m])
    /\ \A x \in DOMAIN next : x \in DOMAIN forest \/ x = L + 1 \/ \E m \in B : x = A!CopyOf(n, m)
    /\ \A m, x \in B : A!CopyOf(n, m) = A!CopyOf(n, x) => m = x

LEMMA CopiesAre ==
  ASSUME nodes \in Trees, NEW n, NEW node, CopyOK(nodes, n, node), NEW next, next = nodes \o A!Copied(n, node)
  PROVE  Copies(nodes, next, n, node, A!Below(n), Len(nodes)) /\ next \in Seq(A!NodeType)
<1> DEFINE B == A!Below(n)
           L == Len(nodes)
           from == A!Ascending(B, L)
           moved == [i \in 1 .. Len(from) |-> A!Moved(n, nodes[from[i]])]
<1>1. n \in DOMAIN nodes /\ node \in A!NodeType
  BY DEF CopyOK, IsRow
<1>2. L \in Nat /\ DOMAIN nodes = 1 .. L /\ nodes \in Seq(A!NodeType)
  BY TreeFacts
<1>3. B \subseteq 1 .. L
  BY <1>1, <1>2, BelowIs
<1>4. next = nodes \o (<<node>> \o moved)
  BY DEF A!Copied
<1> HIDE DEF L, B, from
<1>5. /\ from \in Seq(B)
      /\ \A m \in B : Cardinality(UpTo(B, m)) \in 1 .. Len(from) /\ from[Cardinality(UpTo(B, m))] = m
      /\ \A i \in 1 .. Len(from) : Cardinality(UpTo(B, from[i])) = i
  <2>1. from = Ascending(B, L)
    BY SameNumbers DEF from
  <2>2. /\ Ascending(B, L) \in Seq(B)
        /\ \A m \in B : /\ Cardinality(UpTo(B, m)) \in 1 .. Len(Ascending(B, L))
                        /\ Ascending(B, L)[Cardinality(UpTo(B, m))] = m
        /\ \A i \in 1 .. Len(Ascending(B, L)) : Cardinality(UpTo(B, Ascending(B, L)[i])) = i
    BY <1>2, <1>3, AscendingIs
  <2> QED BY <2>1, <2>2
<1>6. PICK k \in Nat : k = Len(from) /\ \A i \in 1 .. k : from[i] \in B
  BY <1>5, SeqFacts
<1>7. \A m \in B : A!CopyOf(n, m) = L + 1 + Cardinality(UpTo(B, m))
  BY ASize DEF A!CopyOf, UpTo, B, L
<1>8. moved \in Seq(A!NodeType) /\ Len(moved) = k /\ \A i \in 1 .. k : moved[i] = A!Moved(n, nodes[from[i]])
  <2>1. ASSUME NEW i \in 1 .. k PROVE A!Moved(n, nodes[from[i]]) \in A!NodeType
    <3>1. PICK m \in B : m = from[i]
      BY <1>6
    <3>2. m \in DOMAIN nodes /\ nodes[m] \in A!NodeType /\ (nodes[m].parent = n \/ nodes[m].parent \in B)
      BY <1>1, <1>2, <1>3, <3>1, BelowIs, TreeFacts DEF B
    <3>3. A!To(n, nodes[m].parent) \in Nat
      <4>1. \A p \in B : A!CopyOf(n, p) \in Nat
        BY <1>2, <1>5, <1>6, <1>7
      <4>2. A!To(n, nodes[m].parent) = IF nodes[m].parent = n THEN L + 1 ELSE A!CopyOf(n, nodes[m].parent)
        BY DEF A!To, L
      <4> QED BY <1>2, <3>2, <4>1, <4>2
    <3> QED BY <3>1, <3>2, <3>3, MovedIs
  <2>2. DOMAIN moved = 1 .. k /\ moved = [i \in 1 .. k |-> moved[i]] /\ \A i \in 1 .. k : moved[i] \in A!NodeType
    BY <1>6, <2>1
  <2>3. \A i \in 1 .. k : moved[i] = A!Moved(n, nodes[from[i]])
    BY <1>6
  <2> HIDE DEF moved
  <2>4. moved \in Seq(A!NodeType) /\ Len(moved) = k
    BY <1>6, <2>2, Listed
  <2> QED BY <2>3, <2>4
<1> HIDE DEF moved
<1>9. PICK tail : tail = <<node>> \o moved
  OBVIOUS
<1>10. /\ tail \in Seq(A!NodeType) /\ Len(tail) = k + 1 /\ tail[1] = node
       /\ \A i \in 1 .. k : tail[i + 1] = moved[i]
  BY <1>1, <1>6, <1>8, <1>9
<1>11. /\ next \in Seq(A!NodeType) /\ DOMAIN next = 1 .. L + (k + 1)
       /\ \A i \in 1 .. L : next[i] = nodes[i]
       /\ \A i \in 1 .. k + 1 : next[L + i] = tail[i]
  <2>1. next = nodes \o tail
    BY <1>4, <1>9
  <2>2. PICK j \in Nat : j = k + 1
    BY <1>6
  <2>3. Len(tail) = j /\ Len(nodes) = L /\ nodes \in Seq(A!NodeType) /\ tail \in Seq(A!NodeType) /\ L \in Nat
    BY <1>2, <1>10, <2>2 DEF L
  <2>4. /\ nodes \o tail \in Seq(A!NodeType) /\ DOMAIN (nodes \o tail) = 1 .. L + j
        /\ \A i \in 1 .. L : (nodes \o tail)[i] = nodes[i]
        /\ \A i \in 1 .. j : (nodes \o tail)[L + i] = tail[i]
    BY ONLY <2>2, <2>3
  <2> QED BY <2>1, <2>2, <2>4
<1>12. L + 1 \in DOMAIN next /\ L + 1 \notin DOMAIN nodes /\ next[L + 1] = node
  <2>1. 1 \in 1 .. k + 1
    BY <1>6
  <2> QED BY <1>2, <1>6, <1>10, <1>11, <2>1
<1>13. \A m \in DOMAIN nodes : m \in DOMAIN next /\ next[m] = nodes[m]
  BY <1>2, <1>6, <1>11
<1>14. ASSUME NEW m \in B
       PROVE  /\ A!CopyOf(n, m) \in DOMAIN next /\ A!CopyOf(n, m) \notin DOMAIN nodes
              /\ A!CopyOf(n, m) # L + 1 /\ next[A!CopyOf(n, m)] = A!Moved(n, nodes[m])
  <2>1. PICK i \in 1 .. k : i = Cardinality(UpTo(B, m)) /\ from[i] = m
    BY <1>5, <1>6
  <2>2. A!CopyOf(n, m) = L + (i + 1) /\ i + 1 \in 1 .. k + 1 /\ i + 1 # 1
    <3>1. i \in Nat /\ i + 1 \in 1 .. k + 1 /\ i + 1 # 1
      BY <1>6, <2>1
    <3>2. A!CopyOf(n, m) = L + 1 + i
      BY <1>7, <2>1
    <3>3. L + 1 + i = L + (i + 1)
      BY <1>2, <3>1
    <3> QED BY <3>1, <3>2, <3>3
  <2>3. next[L + (i + 1)] = A!Moved(n, nodes[m])
    <3>1. next[L + (i + 1)] = tail[i + 1]
      BY <1>11, <2>2
    <3>2. tail[i + 1] = moved[i] /\ moved[i] = A!Moved(n, nodes[from[i]])
      BY <1>8, <1>10, <2>1
    <3> QED BY <2>1, <3>1, <3>2
  <2>4. L + (i + 1) \in DOMAIN next /\ L + (i + 1) \notin DOMAIN nodes /\ L + (i + 1) # L + 1
    BY <1>2, <1>6, <1>11, <2>2
  <2> QED BY <2>2, <2>3, <2>4
<1>15. ASSUME NEW x \in DOMAIN next
       PROVE  x \in DOMAIN nodes \/ x = L + 1 \/ \E m \in B : x = A!CopyOf(n, m)
  <2>1. x \in 1 .. L + (k + 1)
    BY <1>11
  <2>2. CASE x <= L + 1
    BY <1>2, <2>1, <2>2
  <2>3. CASE x > L + 1
    <3>1. PICK i \in 1 .. k : x = L + 1 + i
      <4>1. x - (L + 1) \in 1 .. k /\ x = L + 1 + (x - (L + 1))
        BY <1>2, <1>6, <2>1, <2>3
      <4> QED BY <4>1
    <3>2. from[i] \in B /\ Cardinality(UpTo(B, from[i])) = i
      BY <1>5, <1>6, <3>1
    <3>3. A!CopyOf(n, from[i]) = x
      BY <1>7, <3>1, <3>2
    <3> QED BY <3>2, <3>3
  <2> QED BY <1>2, <1>6, <2>1, <2>2, <2>3
<1>16. ASSUME NEW m \in B, NEW x \in B, A!CopyOf(n, m) = A!CopyOf(n, x) PROVE m = x
  <2>1. PICK i \in 1 .. k : i = Cardinality(UpTo(B, m)) /\ from[i] = m
    BY <1>5, <1>6
  <2>2. PICK j \in 1 .. k : j = Cardinality(UpTo(B, x)) /\ from[j] = x
    BY <1>5, <1>6
  <2>3. L + 1 + i = L + 1 + j
    BY <1>7, <1>16, <2>1, <2>2
  <2>4. i = j
    BY ONLY <1>2, <1>6, <2>1, <2>2, <2>3
  <2> QED BY <2>1, <2>2, <2>4
<1> QED BY <1>11, <1>12, <1>13, <1>14, <1>15, <1>16 DEF Copies, B, L

(* Of the row copied and of those below it: each has its copy, new, alive,  *)
(* of its kind, and below the copy of what it is below.                     *)
CopiedRows(forest, next, n, B) ==
    /\ \A m \in DOMAIN forest : m \in DOMAIN next /\ next[m] = forest[m]
    /\ \A m \in {n} \cup B : /\ A!To(n, m) \in DOMAIN next /\ A!To(n, m) \notin DOMAIN forest
                             /\ next[A!To(n, m)].live /\ next[A!To(n, m)].kind = forest[m].kind
    /\ \A m \in B : /\ forest[m].kind # "set" /\ forest[m].live /\ forest[m].parent \in {n} \cup B
                    /\ next[A!To(n, m)].parent = A!To(n, forest[m].parent)
                    /\ next[A!To(n, m)].default = forest[m].default
    /\ next[A!To(n, n)].parent = forest[n].parent /\ ~next[A!To(n, n)].default
    /\ \A x \in DOMAIN next : x \in DOMAIN forest \/ \E m \in {n} \cup B : x = A!To(n, m)
    /\ \A m, x \in {n} \cup B : A!To(n, m) = A!To(n, x) => m = x
    /\ n \in DOMAIN forest /\ B \subseteq DOMAIN forest

LEMMA CopiedRowsAre ==
  ASSUME nodes \in Trees, NEW n, NEW node, CopyOK(nodes, n, node), NEW next, next = nodes \o A!Copied(n, node)
  PROVE  CopiedRows(nodes, next, n, A!Below(n)) /\ next \in Seq(A!NodeType)
<1>1. PICK B, L : B = A!Below(n) /\ L = Len(nodes)
  OBVIOUS
<1>2. Copies(nodes, next, n, node, B, L) /\ next \in Seq(A!NodeType)
  BY <1>1, CopiesAre
<1>3. n \in DOMAIN nodes /\ node.kind = nodes[n].kind /\ node.parent = nodes[n].parent /\ node.live /\ ~node.default
  BY DEF CopyOK, IsRow
<1>4. \A m \in B : /\ m \in DOMAIN nodes /\ nodes[m].live /\ nodes[m].kind # "set" /\ m # n
                   /\ nodes[m].parent \in {n} \cup B
  BY <1>1, <1>3, BelowIs
<1>5. A!To(n, n) = L + 1 /\ \A m \in B : A!To(n, m) = A!CopyOf(n, m)
  BY <1>1, <1>4 DEF A!To
<1>6. \A m \in {n} \cup B : A!To(n, m) \in DOMAIN next /\ A!To(n, m) \notin DOMAIN nodes
  BY <1>2, <1>5 DEF Copies
<1>7. \A x \in DOMAIN next : x \in Nat
  BY <1>2
<1>8. ASSUME NEW m \in B
      PROVE  /\ next[A!To(n, m)].live /\ next[A!To(n, m)].kind = nodes[m].kind
             /\ next[A!To(n, m)].parent = A!To(n, nodes[m].parent) /\ next[A!To(n, m)].default = nodes[m].default
  <2>1. PICK t \in A!NodeType : t = nodes[m]
    BY <1>4, TreeFacts
  <2>2. PICK p \in Nat : p = A!To(n, t.parent)
    BY <1>4, <1>6, <1>7, <2>1
  <2>3. next[A!To(n, m)] = A!Moved(n, t)
    BY <1>2, <1>5, <2>1 DEF Copies
  <2>4. /\ A!Moved(n, t).kind = t.kind /\ A!Moved(n, t).live = t.live
        /\ A!Moved(n, t).default = t.default /\ A!Moved(n, t).parent = p
    BY <2>1, <2>2, MovedIs
  <2> QED BY <1>4, <2>1, <2>2, <2>3, <2>4
<1>9. next[A!To(n, n)] = node
  BY <1>2, <1>5 DEF Copies
<1>10. \A x \in DOMAIN next : x \in DOMAIN nodes \/ \E m \in {n} \cup B : x = A!To(n, m)
  BY <1>2, <1>5 DEF Copies
<1>11. \A m \in DOMAIN nodes : m \in DOMAIN next /\ next[m] = nodes[m]
  BY <1>2 DEF Copies
<1>12. \A m, x \in {n} \cup B : A!To(n, m) = A!To(n, x) => m = x
  BY <1>2, <1>5 DEF Copies
<1> QED BY <1>1, <1>2, <1>3, <1>4, <1>6, <1>8, <1>9, <1>10, <1>11, <1>12 DEF CopiedRows

LEMMA CopiedTree ==
  ASSUME NEW forest \in Trees, NEW next \in Seq(A!NodeType), NEW n, NEW B, CopiedRows(forest, next, n, B)
  PROVE  next \in Trees /\ Grows(forest, next)
<1>1. Grows(forest, next)
  BY DEF CopiedRows, Grows
<1>2. \A x \in DOMAIN next : x # 0
  BY SeqFacts
<1>3. ASSUME NEW x \in DOMAIN next
      PROVE  IF next[x].kind = "set" THEN next[x].parent = 0
             ELSE next[x].parent \in DOMAIN next /\ next[next[x].parent].kind = A!ParentKind[next[x].kind]
  <2>1. CASE x \in DOMAIN forest
    BY <2>1, TreeFacts DEF CopiedRows
  <2>2. CASE x = A!To(n, n)
    <3>1. next[x].kind = forest[n].kind /\ next[x].parent = forest[n].parent /\ n \in DOMAIN forest
      BY <2>2 DEF CopiedRows
    <3> QED BY <3>1, TreeFacts DEF CopiedRows
  <2>3. ASSUME NEW m \in B, x = A!To(n, m)
        PROVE  /\ next[x].kind # "set" /\ next[x].parent \in DOMAIN next
               /\ next[next[x].parent].kind = A!ParentKind[next[x].kind]
    <3>1. PICK q \in {n} \cup B : q = forest[m].parent
      BY DEF CopiedRows
    <3>2. /\ next[x].kind = forest[m].kind /\ forest[m].kind # "set" /\ next[x].parent = A!To(n, q)
          /\ A!To(n, q) \in DOMAIN next /\ next[A!To(n, q)].kind = forest[q].kind /\ m \in DOMAIN forest
      BY <2>3, <3>1 DEF CopiedRows
    <3>3. forest[q].kind = A!ParentKind[forest[m].kind]
      BY <3>1, <3>2, TreeFacts
    <3> QED BY <3>2, <3>3
  <2>4. x \in DOMAIN forest \/ x = A!To(n, n) \/ \E m \in B : x = A!To(n, m)
    BY DEF CopiedRows
  <2> QED BY <2>1, <2>2, <2>3, <2>4
<1>4. A!IsTree(next)
  BY <1>3 DEF A!IsTree, A!Up
<1> QED BY <1>1, <1>4 DEF Trees

(* The copy of a set stands, and everything in it is below it. *)
LEMMA CopyStands ==
  ASSUME NEW forest \in Trees, NEW next \in Trees, NEW n, NEW B, CopiedRows(forest, next, n, B),
         forest[n].kind = "set", NEW m \in {n} \cup B
  PROVE  A!Standing(next, A!To(n, m)) /\ A!To(n, n) \in A!Lineage(next, A!To(n, m))
<1>1. PICK F : F = {A!To(n, q) : q \in {n} \cup B}
  OBVIOUS
<1>2. F \in SUBSET DOMAIN next /\ A!To(n, m) \in F
  BY <1>1 DEF CopiedRows
<1>3. forest[n].parent = 0
  BY TreeFacts DEF CopiedRows
<1>4. \A f \in F : /\ next[f].live /\ (next[f].parent = 0 \/ next[f].parent \in F)
                   /\ next[f].kind = "set" => f = A!To(n, n)
  BY <1>1, <1>3 DEF CopiedRows
<1>5. A!Standing(next, A!To(n, m)) /\ A!Lineage(next, A!To(n, m)) \subseteq F
  BY <1>2, <1>4, Closed
<1>6. \E q \in A!Lineage(next, A!To(n, m)) : next[q].kind = "set"
  BY <1>2, HasSet
<1> QED BY <1>4, <1>5, <1>6

(* A rule that is copied: all of it among the copies, or disabled. *)
LEMMA RemappedIs ==
  ASSUME NEW n, NEW r, NEW old \in A!RuleType, old = rules[r], NEW t \in Nat, t = Len(nodes) + 1,
         \A m \in A!Below(n) : A!To(n, m) \in Nat
  PROVE  /\ A!Remapped(n, r) \in A!RuleType /\ A!Remapped(n, r).set = t
         /\ A!Remapped(n, r).type = old.type /\ A!Remapped(n, r).live
         /\ A!Remapped(n, r).on =>
               /\ old.on /\ A!Remapped(n, r).reason = old.reason
               /\ old.target \in A!Below(n) /\ old.reads \subseteq A!Below(n)
               /\ A!Remapped(n, r).target = A!To(n, old.target)
               /\ A!Remapped(n, r).reads = {A!To(n, o) : o \in old.reads}
<1> DEFINE draft == [old EXCEPT !.target = IF @ \in A!Below(n) THEN A!To(n, @) ELSE @,
                                !.reads = IF @ \subseteq A!Below(n) THEN {A!To(n, o) : o \in @} ELSE @]
<1>1. /\ draft \in A!RuleType /\ draft.type = old.type
      /\ old.target \in A!Below(n) => draft.target = A!To(n, old.target)
      /\ old.reads \subseteq A!Below(n) => draft.reads = {A!To(n, o) : o \in old.reads}
  <2>1. PICK to : to = IF old.target \in A!Below(n) THEN A!To(n, old.target) ELSE old.target
    OBVIOUS
  <2>2. PICK asks : asks = IF old.reads \subseteq A!Below(n) THEN {A!To(n, o) : o \in old.reads} ELSE old.reads
    OBVIOUS
  <2>3. draft = [old EXCEPT !.target = to, !.reads = asks]
    BY <2>1, <2>2 DEF A!RuleType
  <2>4. to \in Nat /\ asks \in SUBSET Nat
    BY <2>1, <2>2, DraftIs
  <2>5. draft \in A!RuleType /\ draft.type = old.type /\ draft.target = to /\ draft.reads = asks
    BY <2>3, <2>4 DEF A!RuleType
  <2> QED BY <2>1, <2>2, <2>5
<1>2. PICK intact \in BOOLEAN : intact = (old.target \in A!Below(n) /\ old.reads \subseteq A!Below(n))
  BY Zenon
<1>3. A!Remapped(n, r) = IF intact THEN A!Written(draft, t, old.on, old.reason, "copy")
                         ELSE A!Written(draft, t, FALSE, "target_deleted", "copy")
  BY <1>2 DEF A!Remapped
<1>4. old.on \in BOOLEAN /\ old.reason \in {"", "target_deleted"}
  BY DEF A!RuleType
<1> HIDE DEF draft
<1>6. CASE intact
  <2>1. PICK rule : rule = A!Remapped(n, r)
    OBVIOUS
  <2>0. PICK on \in BOOLEAN, reason \in {"", "target_deleted"} : on = old.on /\ reason = old.reason
    BY <1>4
  <2>2. rule = A!Written(draft, t, on, reason, "copy")
    BY <1>3, <1>6, <2>0, <2>1
  <2>3. /\ rule \in A!RuleType /\ rule.set = t /\ rule.type = draft.type /\ rule.live
        /\ rule.on = old.on /\ rule.reason = old.reason /\ rule.target = draft.target /\ rule.reads = draft.reads
    <3>1. rule \in A!RuleType
      BY <1>1, <2>0, <2>2, DraftIs DEF A!Written, A!RuleType
    <3> QED BY <2>0, <2>2, <3>1 DEF A!Written
  <2> QED BY <1>1, <1>2, <1>6, <2>1, <2>3
<1>7. CASE ~intact
  <2>1. PICK rule : rule = A!Remapped(n, r)
    OBVIOUS
  <2>2. PICK on \in BOOLEAN : ~on
    OBVIOUS
  <2>3. rule = A!Written(draft, t, on, "target_deleted", "copy")
    BY <1>3, <1>7, <2>1, <2>2
  <2>4. /\ rule \in A!RuleType /\ rule.set = t /\ rule.type = draft.type /\ rule.live /\ rule.on = on
    <3>1. rule \in A!RuleType
      BY <1>1, <2>2, <2>3, DraftIs DEF A!Written, A!RuleType
    <3> QED BY <2>2, <2>3, <3>1 DEF A!Written
  <2> QED BY <1>1, <2>1, <2>2, <2>4
<1> QED BY <1>2, <1>6, <1>7

LEMMA RuleCopied ==
  ASSUME nodes \in Trees, NEW next \in Trees, NEW n, CopiedRows(nodes, next, n, A!Below(n)),
         nodes[n].kind = "set", NEW r, rules[r] \in A!RuleType, rules[r].live,
         rules[r].on => rules[r].reason # "target_deleted"
  PROVE  /\ A!Remapped(n, r) \in A!RuleType
         /\ A!Remapped(n, r).set \in DOMAIN next /\ next[A!Remapped(n, r).set].kind = "set"
         /\ A!Remapped(n, r).on => A!Remapped(n, r).reason # "target_deleted"
         /\ A!IsOwn(next, A!Remapped(n, r))
         /\ A!Aims(nodes, rules[r]) => A!Aims(next, A!Remapped(n, r))
<1>1. PICK old \in A!RuleType : old = rules[r]
  OBVIOUS
<1>2. PICK t \in Nat : t = Len(nodes) + 1 /\ t = A!To(n, n)
  BY TreeFacts DEF A!To
<1>3. \A m \in {n} \cup A!Below(n) : A!To(n, m) \in DOMAIN next /\ next[A!To(n, m)].kind = nodes[m].kind
  BY DEF CopiedRows
<1>4. \A m \in A!Below(n) : A!To(n, m) \in Nat
  BY <1>3, TreeFacts
<1>5. PICK rule : rule = A!Remapped(n, r)
  OBVIOUS
<1>6. /\ rule \in A!RuleType /\ rule.set = t /\ rule.type = old.type /\ rule.live
      /\ rule.on =>
            /\ old.on /\ rule.reason = old.reason
            /\ old.target \in A!Below(n) /\ old.reads \subseteq A!Below(n)
            /\ rule.target = A!To(n, old.target)
            /\ rule.reads = {A!To(n, o) : o \in old.reads}
  BY <1>1, <1>2, <1>4, <1>5, RemappedIs
<1>7. rule.set \in DOMAIN next /\ next[rule.set].kind = "set"
  BY <1>2, <1>3, <1>6
<1>8. A!IsOwn(next, rule)
  <2> SUFFICES ASSUME rule.on, NEW m \in {rule.target} \cup rule.reads PROVE t \in A!Lineage(next, m)
    BY <1>6 DEF A!IsOwn
  <2>1. PICK q \in A!Below(n) : m = A!To(n, q)
    BY <1>6
  <2> QED BY <1>2, <2>1, CopyStands
<1>9. ASSUME A!Aims(nodes, old) PROVE A!Aims(next, rule)
  <2> SUFFICES ASSUME rule.on PROVE A!Standing(next, rule.target) /\ next[rule.target].kind = rule.type
    BY DEF A!Aims
  <2>1. old.target \in A!Below(n) /\ nodes[old.target].kind = old.type
    BY <1>1, <1>6, <1>9 DEF A!Aims
  <2> QED BY <1>3, <1>6, <2>1, CopyStands
<1>10. rule.on => rule.reason # "target_deleted"
  BY <1>1, <1>6
<1> QED BY <1>1, <1>5, <1>6, <1>7, <1>8, <1>9, <1>10

LEMMA RulesCopiedAre ==
  ASSUME rules \in Seq(A!RuleType), NEW n, \A r \in A!RulesOf(n) : A!Remapped(n, r) \in A!RuleType
  PROVE  /\ A!RulesCopied(n) \in Seq(A!RuleType)
         /\ \A i \in DOMAIN A!RulesCopied(n) : \E r \in A!RulesOf(n) : A!RulesCopied(n)[i] = A!Remapped(n, r)
<1>0. PICK R : R = A!RulesOf(n)
  OBVIOUS
<1>1. PICK k \in Nat : R = A!RulesOf(n) /\ k = Len(rules)
  BY <1>0
<1>2. R \subseteq 1 .. k
  BY <1>1, SeqFacts DEF A!RulesOf, A!Rules
<1> DEFINE from == A!Ascending(R, k)
           added == [i \in 1 .. Len(from) |-> A!Remapped(n, from[i])]
<1>3. A!RulesCopied(n) = added
  BY <1>1 DEF A!RulesCopied
<1>4. from \in Seq(R)
  BY <1>2, AscendingIs, SameNumbers
<1> HIDE DEF from
<1>5. PICK j \in Nat : j = Len(from) /\ \A i \in 1 .. j : from[i] \in R
  BY <1>4, SeqFacts
<1>6. /\ DOMAIN added = 1 .. j /\ added = [i \in 1 .. j |-> added[i]]
      /\ \A i \in 1 .. j : added[i] = A!Remapped(n, from[i]) /\ from[i] \in R
  BY <1>5
<1> HIDE DEF added
<1>7. \A i \in 1 .. j : added[i] \in A!RuleType
  BY <1>1, <1>6
<1>8. added \in Seq(A!RuleType)
  BY <1>6, <1>7, Listed
<1> QED BY <1>1, <1>3, <1>6, <1>8

(* Rules, and more after them. *)
LEMMA Followed ==
  ASSUME NEW S, NEW q \in Seq(S), NEW t \in Seq(S), NEW next, next = q \o t
  PROVE  /\ next \in Seq(S) /\ Len(q) <= Len(next)
         /\ \A i \in DOMAIN next :
               (i \in DOMAIN q /\ next[i] = q[i]) \/ \E j \in DOMAIN t : next[i] = t[j]
<1>1. PICK a \in Nat, b \in Nat : a = Len(q) /\ b = Len(t) /\ DOMAIN q = 1 .. a /\ DOMAIN t = 1 .. b
  BY SeqFacts
<1>2. /\ next \in Seq(S) /\ Len(next) = a + b /\ DOMAIN next = 1 .. a + b
      /\ \A i \in 1 .. a : next[i] = q[i]
      /\ \A i \in a + 1 .. a + b : next[i] = t[i - a]
  BY <1>1
<1>3. ASSUME NEW i \in a + 1 .. a + b PROVE \E j \in 1 .. b : next[i] = t[j]
  <2>1. i - a \in 1 .. b
    BY <1>1
  <2> QED BY <1>2, <2>1
<1>4. \A i \in 1 .. a + b : i \in 1 .. a \/ i \in a + 1 .. a + b
  BY <1>1
<1> QED BY <1>1, <1>2, <1>3, <1>4

(* The defaults of a copy are those of what was copied, in transit with it. *)
LEMMA CopiedDefaults ==
  ASSUME AuthorInv, nodes' \in Trees, NEW n, NEW B, CopiedRows(nodes, nodes', n, B),
         \A o : A!InTransit(o) => A!InTransit(o)',
         NEW away, \A o \in {n} \cup B : nodes[o].kind = "option" /\ A!InTransit(o) => A!To(n, o) \in away,
         away \subseteq torn'
  PROVE  DefaultsOK'
<1> SUFFICES ASSUME NEW o \in DOMAIN nodes', ~A!InTransit(o)', NEW m \in DOMAIN nodes', NEW x \in DOMAIN nodes',
                    A!IsDefault(nodes', m), A!IsDefault(nodes', x), nodes'[m].parent = o, nodes'[x].parent = o
             PROVE  m = x
  BY DEF DefaultsOK, A!Nodes, OneAt
<1>1. nodes \in Trees /\ \A p \in DOMAIN nodes : ~A!InTransit(p) => OneAt(nodes, p)
  BY DEF AuthorInv, TreeOK, DefaultsOK, A!Nodes
<1>2. ~A!InTransit(o)
  <2>1. \A q : q = o => ~A!InTransit(q)'
    BY Zenon
  <2> QED BY <2>1
<1>3. \A q : q \in torn' => q # o
  <2>1. \A q : q = o => ~A!InTransit(q)'
    BY Zenon
  <2> QED BY <2>1 DEF A!InTransit
<1>4. \A y \in DOMAIN nodes' : A!IsDefault(nodes', y) =>
         \/ y \in DOMAIN nodes /\ A!IsDefault(nodes, y) /\ nodes'[y].parent = nodes[y].parent
         \/ \E q \in B : y = A!To(n, q) /\ A!IsDefault(nodes, q) /\ nodes'[y].parent = A!To(n, nodes[q].parent)
  BY DEF CopiedRows, A!IsDefault
<1>5. \A y \in DOMAIN nodes : A!IsDefault(nodes, y) =>
         nodes[y].parent \in DOMAIN nodes /\ nodes[nodes[y].parent].kind = "option"
  BY <1>1, TreeFacts DEF A!IsDefault, A!ParentKind
<1>6. CASE o \in DOMAIN nodes
  <2>1. \A q \in B : A!To(n, nodes[q].parent) # o
    BY <1>6 DEF CopiedRows
  <2>2. /\ m \in DOMAIN nodes /\ A!IsDefault(nodes, m) /\ nodes[m].parent = o
        /\ x \in DOMAIN nodes /\ A!IsDefault(nodes, x) /\ nodes[x].parent = o
    BY <1>4, <2>1
  <2>3. OneAt(nodes, o)
    BY <1>1, <1>2, <1>6
  <2> QED BY <2>2, <2>3 DEF OneAt
<1>7. CASE o \notin DOMAIN nodes
  <2>1. PICK q \in B : m = A!To(n, q) /\ A!IsDefault(nodes, q) /\ o = A!To(n, nodes[q].parent)
    BY <1>4, <1>5, <1>7
  <2>2. PICK r \in B : x = A!To(n, r) /\ A!IsDefault(nodes, r) /\ o = A!To(n, nodes[r].parent)
    BY <1>4, <1>5, <1>7
  <2>3. PICK p : p = nodes[q].parent
    OBVIOUS
  <2>4. /\ q \in DOMAIN nodes /\ r \in DOMAIN nodes
        /\ p \in {n} \cup B /\ nodes[r].parent \in {n} \cup B /\ nodes[r].parent = p
    BY <2>1, <2>2, <2>3 DEF CopiedRows
  <2>5. p \in DOMAIN nodes /\ nodes[p].kind = "option"
    BY <1>5, <2>1, <2>3, <2>4
  <2>6. ~A!InTransit(p)
    BY <1>3, <2>1, <2>3, <2>4, <2>5
  <2>7. OneAt(nodes, p)
    BY <1>1, <2>5, <2>6
  <2>8. q = r
    BY <2>1, <2>2, <2>3, <2>4, <2>7 DEF OneAt
  <2> QED BY <2>1, <2>2, <2>8
<1> QED BY <1>6, <1>7

LEMMA CopyKeeps == ASSUME AuthorInv, NEW c \in Requests, A!Copy(c) PROVE AuthorInv'
<1>1. PICK e, n, node : e = edits[c] /\ n = e.source /\ node = e.node
  OBVIOUS
<1>2. /\ e.pc = "copy" /\ Busy(edits[c]) /\ edits[c].pc # "sole" /\ A!Ends(c) /\ A!Continues(c, A!Idle)
      /\ published' = published
  BY <1>1 DEF A!Copy, A!At, Busy, A!Ends
<1>3. CopyOK(nodes, n, node)
  BY <1>1, <1>2, DraftFacts DEF EditOK
<1>4. PICK B, away : B = A!Below(n) /\ away = {A!To(n, o) : o \in {q \in {o \in {n} \cup B : nodes[o].kind = "option"} : A!InTransit(q)}}
  OBVIOUS
<1>5. \/ UNCHANGED <<nodes, rules, torn>>
      \/ /\ nodes' = nodes \o A!Copied(n, node)
         /\ rules' = IF node.kind = "set" THEN rules \o A!RulesCopied(n) ELSE rules
         /\ torn' = torn \cup away
  BY <1>1, <1>4 DEF A!Copy
<1>6. CASE UNCHANGED <<nodes, rules, torn>>
  BY <1>2, <1>6, IdleIs, RequestGoesOn, DraftFacts
<1>7. CASE /\ nodes' = nodes \o A!Copied(n, node)
           /\ rules' = IF node.kind = "set" THEN rules \o A!RulesCopied(n) ELSE rules
           /\ torn' = torn \cup away
  <2>1. CopiedRows(nodes, nodes', n, A!Below(n)) /\ nodes' \in Seq(A!NodeType)
    BY <1>3, <1>7, DraftFacts, CopiedRowsAre
  <2>2. nodes' \in Trees /\ Grows(nodes, nodes')
    BY <2>1, DraftFacts, CopiedTree
  <2>3. torn' \subseteq DOMAIN nodes'
    <3>1. away \subseteq DOMAIN nodes'
      BY <1>4, <2>1 DEF CopiedRows
    <3> QED BY <1>7, <2>2, <3>1, DraftFacts DEF Grows
  <2>4. \A o : A!InTransit(o) => A!InTransit(o)'
    <3>1. edits = [d \in Requests |-> edits[d]] /\ edits' = [edits EXCEPT ![c] = A!Idle]
      BY <1>2 DEF AuthorInv, EditsOK, A!Continues
    <3> SUFFICES ASSUME NEW o, A!InTransit(o) PROVE A!InTransit(o)'
      OBVIOUS
    <3>2. CASE o \in torn
      BY <1>7, <3>2 DEF A!InTransit
    <3>3. ASSUME NEW d \in Requests, A!At(d, "sole"), edits[d].option = o PROVE A!InTransit(o)'
      <4>1. edits'[d] = edits[d]
        BY <1>2, <3>1, <3>3 DEF A!At
      <4> QED BY <3>3, <4>1 DEF A!InTransit, A!At
    <3> QED BY <3>2, <3>3 DEF A!InTransit
  <2>5. DefaultsOK'
    <3>1. \A o \in {n} \cup A!Below(n) : nodes[o].kind = "option" /\ A!InTransit(o) => A!To(n, o) \in away
      BY <1>4
    <3>2. away \subseteq torn'
      BY <1>7
    <3> QED BY <2>1, <2>2, <2>4, <3>1, <3>2, CopiedDefaults
  <2>6. ASSUME NEW r \in A!RulesOf(n), node.kind = "set"
        PROVE  /\ A!Remapped(n, r) \in A!RuleType
               /\ A!Remapped(n, r).set \in DOMAIN nodes' /\ nodes'[A!Remapped(n, r).set].kind = "set"
               /\ A!Remapped(n, r).on => A!Remapped(n, r).reason # "target_deleted"
               /\ A!IsOwn(nodes', A!Remapped(n, r))
               /\ A!Aims(nodes, rules[r]) => A!Aims(nodes', A!Remapped(n, r))
    <3>1. nodes[n].kind = "set"
      BY <1>3, <2>6 DEF CopyOK
    <3>2. r \in DOMAIN rules /\ rules[r].live
      BY DEF A!RulesOf, A!Rules
    <3>3. nodes \in Trees /\ rules[r] \in A!RuleType /\ (rules[r].on => rules[r].reason # "target_deleted")
      BY <3>2, DraftFacts
    <3> QED BY <2>1, <2>2, <3>1, <3>2, <3>3, RuleCopied
  <2>7. /\ rules' \in Seq(A!RuleType) /\ Len(rules) <= Len(rules')
        /\ \A i \in DOMAIN rules' :
              \/ i \in DOMAIN rules /\ rules'[i] = rules[i]
              \/ node.kind = "set" /\ \E r \in A!RulesOf(n) : rules'[i] = A!Remapped(n, r)
    <3>1. CASE node.kind # "set"
      BY <1>7, <3>1, DraftFacts
    <3>2. CASE node.kind = "set"
      <4>1. PICK added : added = A!RulesCopied(n)
        OBVIOUS
      <4>2. added \in Seq(A!RuleType) /\ \A i \in DOMAIN added : \E r \in A!RulesOf(n) : added[i] = A!Remapped(n, r)
        BY <2>6, <3>2, <4>1, DraftFacts, RulesCopiedAre
      <4>3. rules' = rules \o added
        BY <1>7, <3>2, <4>1
      <4>4. /\ rules' \in Seq(A!RuleType) /\ Len(rules) <= Len(rules')
            /\ \A i \in DOMAIN rules' :
                  (i \in DOMAIN rules /\ rules'[i] = rules[i]) \/ \E j \in DOMAIN added : rules'[i] = added[j]
        <5>1. rules \in Seq(A!RuleType)
          BY DraftFacts
        <5> QED BY <4>2, <4>3, <5>1, Followed
      <4> QED BY <3>2, <4>2, <4>4
    <3> QED BY <3>1, <3>2
  <2>8. A!RulesFit(nodes', rules') /\ A!CopiesAreOwn'
    <3>1. \A i \in DOMAIN rules :
             /\ rules[i].set \in DOMAIN nodes' /\ nodes'[rules[i].set].kind = "set"
             /\ (rules[i].on => rules[i].reason # "target_deleted") /\ A!IsOwn(nodes', rules[i])
      <4>1. \A i \in DOMAIN rules : A!IsOwn(nodes', rules[i])
        BY <2>2, DraftFacts, OwnKept
      <4> QED BY <2>2, <4>1, DraftFacts DEF Grows
    <3>2. \A i \in DOMAIN rules' :
             /\ rules'[i].set \in DOMAIN nodes' /\ nodes'[rules'[i].set].kind = "set"
             /\ (rules'[i].on => rules'[i].reason # "target_deleted") /\ A!IsOwn(nodes', rules'[i])
      BY <2>6, <2>7, <3>1
    <3> QED BY <3>2 DEF A!RulesFit, A!CopiesAreOwn, A!Rules
  <2>9. ~overlapped => \A i \in DOMAIN rules' : A!Aims(nodes', rules'[i])
    <3>1. \A m \in DOMAIN nodes : nodes[m].live => nodes'[m].live
      BY <2>1 DEF CopiedRows
    <3>2. ~overlapped => \A i \in DOMAIN rules : A!Aims(nodes', rules[i])
      BY <2>2, <3>1, AimsStay
    <3>3. ~overlapped => \A r \in A!RulesOf(n) : A!Aims(nodes, rules[r])
      BY DraftFacts DEF A!RulesOf, A!Rules
    <3> QED BY <2>6, <2>7, <3>2, <3>3
  <2>10. \A s \in published' : SnapOK(s)
    BY <1>2, DraftFacts
  <2>11. EditOK(A!Idle, nodes', Len(rules')) /\ A!Idle.pc \in {"idle", "sole"}
    BY IdleIs
  <2> QED BY <1>2, <2>2, <2>3, <2>5, <2>7, <2>8, <2>9, <2>10, <2>11, Settles
<1> QED BY <1>5, <1>6, <1>7
-----------------------------------------------------------------------------
(* From the first draft on. *)
LEMMA AuthorInit == ASSUME A!Init PROVE AuthorInv
<1>1. /\ nodes = SeedNodes /\ rules = SeedRules /\ edits = [c \in Requests |-> A!Idle]
      /\ published = {} /\ effort = 0 /\ torn = {} /\ overlapped \in BOOLEAN
  BY DEF A!Init
<1>2. TreeOK
  BY <1>1, SeedAssumption DEF TreeOK, Trees, A!CopiesAreOwn, A!Rules
<1>3. EditsOK
  BY <1>1, IdleIs DEF EditsOK
<1>4. SerialOK
  <2>1. \A c \in Requests : ~Busy(edits[c]) /\ AimOK(edits[c], nodes, rules)
    BY <1>1, IdleIs
  <2> QED BY <1>1, <2>1, SeedAssumption DEF SerialOK, A!Rules
<1>5. DefaultsOK
  BY <1>1, SeedAssumption DEF DefaultsOK, OneAt
<1> QED BY <1>1, <1>2, <1>3, <1>4, <1>5, DraftAssumption DEF AuthorInv

LEMMA AuthorStands == ASSUME AuthorInv, UNCHANGED A!vars PROVE AuthorInv'
<1>1. UNCHANGED <<nodes, rules, edits, published, effort, overlapped, torn>>
  BY DEF A!vars
<1>2. TreeOK' /\ EditsOK'
  BY <1>1 DEF AuthorInv, TreeOK, EditsOK, A!CopiesAreOwn, A!Rules
<1>3. SerialOK'
  BY <1>1 DEF AuthorInv, SerialOK, A!Rules
<1>4. DefaultsOK'
  <2>1. \A o : A!InTransit(o)' <=> A!InTransit(o)
    BY <1>1, Zenon DEF A!InTransit, A!At
  <2>2. \A o \in DOMAIN nodes : ~A!InTransit(o) => OneAt(nodes, o)
    BY DEF AuthorInv, DefaultsOK, A!Nodes
  <2>3. \A o \in DOMAIN nodes : ~A!InTransit(o)' => OneAt(nodes, o)
    BY <2>1, <2>2
  <2> QED BY <1>1, <2>3 DEF DefaultsOK, A!Nodes
<1> QED BY <1>1, <1>2, <1>3, <1>4 DEF AuthorInv, A!Nodes

LEMMA AuthorStep == ASSUME AuthorInv, [A!Next]_A!vars PROVE AuthorInv'
<1>1. CASE UNCHANGED A!vars
  BY <1>1, AuthorStands
<1>2. ASSUME NEW c \in Requests,
             \/ A!Requested(c)
             \/ A!Insert(c) \/ A!MakeSole(c) \/ A!Write(c) \/ A!Cascade(c) \/ A!Erase(c) \/ A!DropRule(c)
             \/ A!AddRule(c) \/ A!SaveRule(c) \/ A!Copy(c)
             \/ A!ReadLevel(c, "options", "values") \/ A!ReadLevel(c, "values", "rules")
             \/ A!ReadRules(c) \/ A!Check(c) \/ A!Store(c) \/ A!Dies(c)
      PROVE  AuthorInv'
  <2>1. CASE A!Requested(c) \/ A!Insert(c) \/ A!MakeSole(c) \/ A!Write(c) \/ A!Cascade(c) \/ A!Erase(c)
    BY <2>1, RequestKeeps, InsertKeeps, MakeSoleKeeps, WriteKeeps, CascadeKeeps, EraseKeeps
  <2>2. CASE A!DropRule(c) \/ A!AddRule(c) \/ A!SaveRule(c) \/ A!Copy(c)
    BY <2>2, DropRuleKeeps, AddRuleKeeps, SaveRuleKeeps, CopyKeeps
  <2>3. CASE A!ReadLevel(c, "options", "values") \/ A!ReadLevel(c, "values", "rules")
    BY <2>3, ReadLevelKeeps
  <2>4. CASE A!ReadRules(c) \/ A!Check(c) \/ A!Store(c) \/ A!Dies(c)
    BY <2>4, ReadRulesKeeps, CheckKeeps, StoreKeeps, DiesKeeps
  <2> QED BY <1>2, <2>1, <2>2, <2>3, <2>4
<1> QED BY <1>1, <1>2 DEF A!Next

(* What the invariant says of the requirements. *)
LEMMA AuthorIsSound ==
  ASSUME AuthorInv
  PROVE  A!TypeOK /\ A!DefaultsSettle /\ A!RulesKeepTargets /\ A!CopiesAreOwn /\ A!SnapshotsAreSound
<1>1. A!TypeOK
  BY DEF AuthorInv, TreeOK, Trees, A!TypeOK
<1>2. A!DefaultsSettle
  <2> SUFFICES ASSUME NEW o \in A!Nodes, ~A!InTransit(o)
               PROVE  Cardinality({v \in A!Children(o, "value") : nodes[v].default}) <= 1
    BY ASize DEF A!DefaultsSettle
  <2>1. PICK V : V = {v \in A!Children(o, "value") : nodes[v].default}
    OBVIOUS
  <2>2. OneAt(nodes, o)
    BY DEF AuthorInv, DefaultsOK
  <2>3. \A m, x \in V : m = x
    BY <2>1, <2>2 DEF OneAt, A!IsDefault, A!Children, A!Nodes
  <2>4. V = {} \/ \E v : V = {v}
    BY <2>3
  <2>5. Cardinality(V) <= 1
    <3>1. PICK size : size = Cardinality(V)
      OBVIOUS
    <3>2. size = 0 \/ size = 1
      BY <2>4, <3>1, FS_EmptySet, FS_Singleton, Zenon
    <3> QED BY <3>1, <3>2
  <2> QED BY <2>1, <2>5
<1>3. A!RulesKeepTargets
  BY DEF AuthorInv, SerialOK, A!RulesKeepTargets
<1> QED BY <1>1, <1>2, <1>3 DEF AuthorInv, TreeOK, A!SnapshotsAreSound, SnapOK

(* Of every number of rows, rules, requests and drafts, the inductive         *)
(* invariant of a draft (option-sets/*.service.ts): rows that keep their     *)
(* kind and parent, rules that name such rows, requests that know what they  *)
(* work on, and an option whose default nobody is to see to has one.         *)
THEOREM AuthoringInvariance == AccountsSpec => []AuthorInv
<1>1. AccountsInit => AuthorInv
  BY AuthorInit DEF AccountsInit
<1>2. [AccountsNext]_everything => [A!Next]_(A!vars)
  BY DEF AccountsNext, everything, authoring, A!vars
<1>3. AuthorInv /\ [AccountsNext]_everything => AuthorInv'
  BY <1>2, AuthorStep
<1> QED BY <1>1, <1>3, PTL DEF AccountsSpec, everything

(* However many requests overlap, an option is left with one default unless  *)
(* a request died or a copy was made before the sweep; while none overlap,   *)
(* an enabled rule has its target; a rule of a copied set acts on the copy;  *)
(* what the checks let through is sound, whatever rules fire, when no rule   *)
(* moved while they were read (option-values.repository.ts,                  *)
(* cascade.service.ts, publish-check.ts).  And the designs of the Design Lab *)
(* hold.                                                                     *)
THEOREM DraftsHold == AccountsSpec => []AuthoringIsSound
<1>1. AuthorInv /\ LabInv => AuthoringIsSound
  BY AuthorIsSound, LabIsSound DEF AuthoringIsSound
<1> QED BY <1>1, AuthoringInvariance, LabInvariance, PTL

OfOnePart == part \in {"sessions", "workspace", "authoring", "lab"}

(* The state of each part stays well typed (AccountsTypeOK).                  *)
THEOREM AccountsTyped == AccountsSpec => []AccountsTypeOK
<1>1. AccountsInit => SessionsInv /\ OfOnePart
  BY SessionsInit DEF AccountsInit, OfOnePart
<1>2. SessionsInv /\ [AccountsNext]_everything => SessionsInv'
  BY SessionsStep DEF AccountsNext, everything
<1>3. OfOnePart /\ [AccountsNext]_everything => OfOnePart'
  BY DEF AccountsNext, everything, OfOnePart
<1>4. SessionsInv /\ WorkspaceInv /\ AuthorInv /\ LabInv => TypeOK /\ W!TypeOK /\ A!TypeOK /\ D!TypeOK
  BY SessionsTyped, WorkspaceTyped, AuthorIsSound, LabIsSound
<1>5. SessionsInv /\ WorkspaceInv /\ AuthorInv /\ LabInv /\ OfOnePart => AccountsTypeOK
  BY <1>4 DEF AccountsTypeOK, OfOnePart
<1> QED BY <1>1, <1>2, <1>3, <1>5, WorkspaceInvariance, AuthoringInvariance, LabInvariance, PTL
           DEF AccountsSpec, everything
=============================================================================
