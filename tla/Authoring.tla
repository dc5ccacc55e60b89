----------------------------- MODULE Authoring ------------------------------
(***************************************************************************)
(* What a merchant draws below an option set (option-sets/*.service.ts):    *)
(* groups, options, values and items, the rules over them, their deletion   *)
(* by cascade, their duplication, and the checks that stand between a draft *)
(* and a storefront (publish-check.ts).  Requests overlap: each checks what *)
(* it read and writes later.  Order, labels and the row version of the set  *)
(* are left out (the last is in OptionSets).                                *)
(***************************************************************************)
EXTENDS Integers, FiniteSets, SequencesExt, Lists

CONSTANTS
    Requests,
    SeedNodes,     \* the rows a draft starts from: a sequence of nodes
    SeedRules,     \* and its rules
    Drafts,        \* the rules a merchant may write: [type, target, reads, action, amount]
    MaxSiblings,   \* AUTHORING_LIMITS, one figure for every kind of row
    MaxRows, MaxRules, MaxEffort    \* bounds

VARIABLES
    nodes,       \* every row of the tree, by id
    rules,       \* every rule, by id
    edits,       \* the request each client has in flight
    published,   \* the snapshots stored, with what was read for them
    effort,      \* requests begun
    overlapped,  \* some two requests ran at once
    torn         \* options whose values were copied, or left, part way through a change

vars == <<nodes, rules, edits, published, effort, overlapped, torn>>

NodeType == [kind : {"set", "group", "option", "value", "item"}, parent : Nat, key : Nat, live : BOOLEAN,
             on : BOOLEAN, default : BOOLEAN, takes : BOOLEAN, minimum : Nat]
DraftType == [action : {"hide", "require", "unrequire", "set_price"}, type : {"group", "option", "value"},
              target : Nat, reads : SUBSET Nat, amount : Int]
RuleType == [set : Nat, action : {"hide", "require", "unrequire", "set_price"},
             type : {"group", "option", "value"}, target : Nat, reads : SUBSET Nat, amount : Int,
             on : BOOLEAN, reason : {"", "target_deleted"}, live : BOOLEAN, by : {"author", "copy"}]

Idle == [pc |-> "idle"]
Nodes == DOMAIN nodes
Rules == DOMAIN rules
ParentKind == [group |-> "set", option |-> "group", item |-> "group", value |-> "option"]
Keyed == {"option", "value"}

(* A row and those above it: a value has an option, a group and a set. *)
Up(rows, n) == IF n \in DOMAIN rows THEN rows[n].parent ELSE 0
Lineage(rows, n) == {n, Up(rows, n), Up(rows, Up(rows, n)), Up(rows, Up(rows, Up(rows, n)))} \ {0}

(* ParentScopedRepository.scoped: a row is there when it and every parent is. *)
Standing(rows, n) == n \in DOMAIN rows /\ \A m \in Lineage(rows, n) : rows[m].live
Scoped(n) == Standing(nodes, n)

Children(p, kind) == {n \in Nodes : nodes[n].live /\ nodes[n].parent = p /\ nodes[n].kind = kind}
RulesOf(s) == {r \in Rules : rules[r].live /\ rules[r].set = s}

(* The unique index on (parent, key, deletedAt). *)
KeyFree(p, kind, key) == kind \in Keyed => \A n \in Children(p, kind) : nodes[n].key # key
CopyKey(p, kind) ==
    CHOOSE k \in 10 .. 10 + Len(nodes) : KeyFree(p, kind, k) /\ \A j \in 10 .. k - 1 : ~KeyFree(p, kind, j)

(* assertWithinLimit, read before the write. *)
Room(p, kind) == Cardinality(Children(p, kind)) < MaxSiblings

Begins(c, job) ==
    /\ edits[c] = Idle /\ effort < MaxEffort
    /\ effort' = effort + 1
    /\ edits' = [edits EXCEPT ![c] = job]
    /\ overlapped' = (overlapped \/ \E d \in Requests \ {c} : edits[d] # Idle)

Continues(c, job) == edits' = [edits EXCEPT ![c] = job] /\ UNCHANGED <<effort, overlapped>>
Ends(c) == Continues(c, Idle)
At(c, pc) == edits[c].pc = pc
-----------------------------------------------------------------------------
NewNode(kind, p, key, default) ==
    [kind |-> kind, parent |-> p, key |-> key, live |-> TRUE, on |-> TRUE, default |-> default,
     takes |-> FALSE, minimum |-> 0]

(* Creating a row: the checks, then a transaction that asserts the parent    *)
(* and inserts, then for a default value the sweep of the others.            *)
CreateNode(c, kind, p, key, default) ==
    /\ p \in Nodes /\ nodes[p].kind = ParentKind[kind] /\ Scoped(p)
    /\ Room(p, kind) /\ KeyFree(p, kind, key)
    /\ Begins(c, [pc |-> "insert", node |-> NewNode(kind, p, key, default)])
    /\ UNCHANGED <<nodes, rules, published, torn>>

CreateGroup(c, s) == CreateNode(c, "group", s, 1, FALSE)
CreateOption(c, g, key) == CreateNode(c, "option", g, key, FALSE)
CreateItem(c, g) == CreateNode(c, "item", g, 1, FALSE)
CreateValue(c, o, key, default) == nodes[o].takes /\ CreateNode(c, "value", o, key, default)

(* The nearest parent must be live; those above it are not asked. *)
Insertable(node) == nodes[node.parent].live /\ KeyFree(node.parent, node.kind, node.key)

Insert(c) ==
    /\ At(c, "insert")
    /\ LET node == edits[c].node id == Len(nodes) + 1 IN
       IF Insertable(node)
       THEN /\ id <= MaxRows
            /\ nodes' = Append(nodes, node)
            /\ IF node.default THEN Continues(c, [pc |-> "sole", option |-> node.parent, keep |-> id])
                               ELSE Ends(c)
       ELSE Ends(c) /\ UNCHANGED nodes
    /\ UNCHANGED <<rules, published, torn>>

Defaulted(row, value) == [row EXCEPT !.default = value]

(* Mutant: the other values keep their default. *)
SoleRaised(option, keep) == [nodes EXCEPT ![keep] = Defaulted(@, TRUE)]

(* makeSoleDefault: one UPDATE over the option's live values. *)
SoleDefault(option, keep) ==
    [n \in Nodes |-> IF n \in Children(option, "value")
                     THEN Defaulted(nodes[n], n = keep) ELSE nodes[n]]

MakeSole(c) ==
    /\ At(c, "sole")
    /\ nodes' = SoleDefault(edits[c].option, edits[c].keep)
    /\ Ends(c)
    /\ UNCHANGED <<rules, published, torn>>

(* An edit re-selects the scoped row before it writes. *)
EditNode(c, n, kind, field, value) ==
    /\ nodes[n].kind = kind /\ Scoped(n) /\ nodes[n][field] # value
    /\ Begins(c, [pc |-> "write", node |-> n, field |-> field, value |-> value])
    /\ UNCHANGED <<nodes, rules, published, torn>>

EditGroup(c, n) == EditNode(c, n, "group", "on", FALSE)
EditOption(c, n) == EditNode(c, n, "option", "on", FALSE)
EditValue(c, n) == EditNode(c, n, "value", "on", FALSE) \/ EditNode(c, n, "value", "default", TRUE)

Set(row, field, value) ==
    IF field = "default" THEN Defaulted(row, value) ELSE [row EXCEPT !.on = value]

Write(c) ==
    /\ At(c, "write")
    /\ LET e == edits[c] n == e.node IN
       /\ nodes' = IF Scoped(n) THEN [nodes EXCEPT ![n] = Set(@, e.field, e.value)] ELSE nodes
       /\ IF e.field = "default" /\ e.value
          THEN Continues(c, [pc |-> "sole", option |-> nodes[n].parent, keep |-> n])
          ELSE Ends(c)
    /\ UNCHANGED <<rules, published, torn>>
-----------------------------------------------------------------------------
(* Deletion.  A group or an option takes what is below it along, and         *)
(* disables the rules that target any of it; a value is refused while an     *)
(* enabled rule targets it; an item or a rule goes alone.                    *)
EnabledOn(kind, ids) ==
    {r \in Rules : rules[r].live /\ rules[r].on /\ rules[r].type = kind /\ rules[r].target \in ids}

NotARuleTarget(n) == EnabledOn("value", {n}) = {}

RemoveNode(c, n, kind, pc) ==
    /\ nodes[n].kind = kind /\ Scoped(n)
    /\ Begins(c, [pc |-> pc, node |-> n])
    /\ UNCHANGED <<nodes, rules, published, torn>>

RemoveGroup(c, n) == RemoveNode(c, n, "group", "cascade")
RemoveOption(c, n) == RemoveNode(c, n, "option", "cascade")
RemoveValue(c, n) == NotARuleTarget(n) /\ RemoveNode(c, n, "value", "erase")
RemoveItem(c, n) == RemoveNode(c, n, "item", "erase")

OptionsBelow(n) == IF nodes[n].kind = "group" THEN Children(n, "option") ELSE {n}
ValuesBelow(n) == UNION {Children(o, "value") : o \in OptionsBelow(n)}
ItemsBelow(n) == Children(n, "item")

(* Mutant: rules on the values below are forgotten. *)
OrphanedAbove(n) == EnabledOn("group", {n}) \cup EnabledOn("option", OptionsBelow(n))

(* Which enabled rules a cascade disables: those that act on what it takes. *)
Orphaned(n) ==
    EnabledOn("group", {n}) \cup EnabledOn("option", OptionsBelow(n)) \cup EnabledOn("value", ValuesBelow(n))

Deleted(row) == [row EXCEPT !.live = FALSE]
Disabled(rule) == [rule EXCEPT !.on = FALSE, !.reason = "target_deleted"]

(* claimDeletion: the loser of two deletions is told it was already done. *)
Cascade(c) ==
    /\ At(c, "cascade")
    /\ LET n == edits[c].node
           gone == {n} \cup OptionsBelow(n) \cup ValuesBelow(n) \cup ItemsBelow(n)
       IN IF nodes[n].live
          THEN /\ nodes' = [m \in Nodes |-> IF m \in gone THEN Deleted(nodes[m]) ELSE nodes[m]]
               /\ rules' = [r \in Rules |-> IF r \in Orphaned(n) THEN Disabled(rules[r]) ELSE rules[r]]
          ELSE UNCHANGED <<nodes, rules>>
    /\ Ends(c)
    /\ UNCHANGED <<published, torn>>

Erase(c) ==
    /\ At(c, "erase")
    /\ nodes' = IF Scoped(edits[c].node) THEN [nodes EXCEPT ![edits[c].node] = Deleted(@)] ELSE nodes
    /\ Ends(c)
    /\ UNCHANGED <<rules, published, torn>>

RemoveRule(c, r) ==
    /\ r \in Rules /\ rules[r].live /\ Scoped(rules[r].set)
    /\ Begins(c, [pc |-> "drop", rule |-> r])
    /\ UNCHANGED <<nodes, rules, published, torn>>

DropRule(c) ==
    /\ At(c, "drop")
    /\ rules' = IF Scoped(rules[edits[c].rule].set)
                THEN [rules EXCEPT ![edits[c].rule] = Deleted(@)] ELSE rules
    /\ Ends(c)
    /\ UNCHANGED <<nodes, published, torn>>
-----------------------------------------------------------------------------
(* Rules.  The target must exist and be what it claims, in any set of the    *)
(* tenant; an edit never re-enables.                                         *)
TargetExists(d) == Scoped(d.target) /\ nodes[d.target].kind = d.type

CreateRule(c, s, d) ==
    /\ s \in Nodes /\ nodes[s].kind = "set" /\ Scoped(s)
    /\ Cardinality(RulesOf(s)) < MaxRules /\ TargetExists(d)
    /\ Begins(c, [pc |-> "add", set |-> s, draft |-> d])
    /\ UNCHANGED <<nodes, rules, published, torn>>

Written(d, s, on, reason, by) ==
    [set |-> s, type |-> d.type, target |-> d.target, reads |-> d.reads, action |-> d.action,
     amount |-> d.amount, on |-> on, reason |-> reason, live |-> TRUE, by |-> by]

AddRule(c) ==
    /\ At(c, "add")
    /\ rules' = IF nodes[edits[c].set].live
                THEN Append(rules, Written(edits[c].draft, edits[c].set, TRUE, "", "author"))
                ELSE rules
    /\ Ends(c)
    /\ UNCHANGED <<nodes, published, torn>>

EditRule(c, r, d) ==
    /\ r \in Rules /\ rules[r].live /\ Scoped(rules[r].set) /\ TargetExists(d)
    /\ Begins(c, [pc |-> "save", rule |-> r, draft |-> d])
    /\ UNCHANGED <<nodes, rules, published, torn>>

SaveRule(c) ==
    /\ At(c, "save")
    /\ LET old == rules[edits[c].rule] IN
       rules' = IF old.live /\ Scoped(old.set)
                THEN [rules EXCEPT ![edits[c].rule] =
                        Written(edits[c].draft, old.set, old.on, old.reason, "author")]
                ELSE rules
    /\ Ends(c)
    /\ UNCHANGED <<nodes, published, torn>>
-----------------------------------------------------------------------------
(* Of a copied row: a key of its own, and it is nobody's default.             *)
Twin(row, key) == [row EXCEPT !.key = key, !.default = FALSE]

(* Duplication.  The source row is copied from memory, what is live below it *)
(* as the transaction finds it; the copy of a set gets its rules, aimed at   *)
(* the copies.                                                               *)
Duplicate(c, n, kind) ==
    /\ nodes[n].kind = kind /\ Scoped(n)
    /\ Begins(c, [pc |-> "copy", source |-> n,
                  node |-> Twin(nodes[n], CopyKey(nodes[n].parent, nodes[n].kind))])
    /\ UNCHANGED <<nodes, rules, published, torn>>

RoomBeside(n) == Room(nodes[n].parent, nodes[n].kind)
DuplicateGroup(c, n) == RoomBeside(n) /\ Duplicate(c, n, "group")
DuplicateOption(c, n) == RoomBeside(n) /\ Duplicate(c, n, "option")
DuplicateValue(c, n) == RoomBeside(n) /\ Duplicate(c, n, "value")
DuplicateSet(c, n) == Duplicate(c, n, "set")

Below(n) ==
    CASE nodes[n].kind = "set" ->
            LET groups == Children(n, "group") IN
            groups \cup UNION {OptionsBelow(g) \cup ValuesBelow(g) \cup ItemsBelow(g) : g \in groups}
      [] nodes[n].kind = "group" -> OptionsBelow(n) \cup ValuesBelow(n) \cup ItemsBelow(n)
      [] OTHER -> Children(n, "value")

(* Where each copied row goes: after the rows there are, in the order of ids. *)
CopyOf(n, m) == Len(nodes) + 1 + Cardinality({k \in Below(n) : k <= m})
To(n, m) == IF m = n THEN Len(nodes) + 1 ELSE CopyOf(n, m)
Moved(n, row) == [row EXCEPT !.parent = To(n, @)]
Copied(n, node) ==
    LET from == Ascending(Below(n), Len(nodes)) IN
    <<node>> \o [i \in 1 .. Len(from) |-> Moved(n, nodes[from[i]])]

(* Mutant: a copied rule reads what the original read. *)
RemappedTarget(n, r) ==
    Written([rules[r] EXCEPT !.target = CopyOf(n, @)], Len(nodes) + 1, rules[r].on, rules[r].reason, "copy")

(* copyRulesInto: a rule that names a row which was not copied is disabled. *)
Remapped(n, r) ==
    LET old == rules[r]
        intact == old.target \in Below(n) /\ old.reads \subseteq Below(n)
        draft == [old EXCEPT !.target = IF @ \in Below(n) THEN To(n, @) ELSE @,
                             !.reads = IF @ \subseteq Below(n) THEN {To(n, o) : o \in @} ELSE @]
    IN IF intact THEN Written(draft, Len(nodes) + 1, old.on, old.reason, "copy")
                 ELSE Written(draft, Len(nodes) + 1, FALSE, "target_deleted", "copy")

RulesCopied(n) ==
    LET from == Ascending(RulesOf(n), Len(rules))
    IN [i \in 1 .. Len(from) |-> Remapped(n, from[i])]

InTransit(option) ==
    option \in torn \/ \E c \in Requests : At(c, "sole") /\ edits[c].option = option

Copy(c) ==
    /\ At(c, "copy")
    /\ LET n == edits[c].source node == edits[c].node
           fits == KeyFree(node.parent, node.kind, node.key)
                   /\ (node.kind = "value" => nodes[node.parent].live)
           options == {o \in {n} \cup Below(n) : nodes[o].kind = "option"}
       IN IF fits
          THEN /\ Len(nodes) + 1 + Cardinality(Below(n)) <= MaxRows
               /\ nodes' = nodes \o Copied(n, node)
               /\ rules' = IF node.kind = "set" THEN rules \o RulesCopied(n) ELSE rules
               /\ torn' = torn \cup {To(n, o) : o \in {q \in options : InTransit(q)}}
          ELSE UNCHANGED <<nodes, rules, torn>>
    /\ Ends(c)
    /\ UNCHANGED published
-----------------------------------------------------------------------------
(* Publishing reads the tree one level at a time, then the rules for the     *)
(* snapshot, then the rules again for the checks, and none of it in a        *)
(* transaction (OptionSetTreeLoader.load, PublishService.context).           *)
ReadInto(tree, ids) == [n \in DOMAIN tree \cup ids |-> IF n \in DOMAIN tree THEN tree[n] ELSE nodes[n]]
LiveBelow(parents, kinds) ==
    {n \in Nodes : nodes[n].live /\ nodes[n].parent \in parents /\ nodes[n].kind \in kinds}
ReadKinds == [options |-> {"option", "item"}, values |-> {"value"}]

Publish(c, s) ==
    /\ s \in Nodes /\ nodes[s].kind = "set" /\ Scoped(s)
    /\ Begins(c, [pc |-> "options", set |-> s, tree |-> ReadInto(<<>>, LiveBelow({s}, {"group"}))])
    /\ UNCHANGED <<nodes, rules, published, torn>>

ReadLevel(c, pc, next) ==
    /\ At(c, pc)
    /\ LET e == edits[c] IN
       Continues(c, [pc |-> next, set |-> e.set,
                     tree |-> ReadInto(e.tree, LiveBelow(DOMAIN e.tree, ReadKinds[pc]))])
    /\ UNCHANGED <<nodes, rules, published, torn>>

ReadRules(c) ==
    /\ At(c, "rules")
    /\ Continues(c, [pc |-> "check", set |-> edits[c].set, tree |-> edits[c].tree,
                     rules |-> {rules[r] : r \in RulesOf(edits[c].set)}])
    /\ UNCHANGED <<nodes, rules, published, torn>>

In(tree, kind) == {n \in DOMAIN tree : tree[n].kind = kind}
Shown(tree, n) == tree[n].on /\ tree[tree[n].parent].on
ShownOptions(tree) == {o \in In(tree, "option") : Shown(tree, o)}
ShownValues(tree, o) == {v \in In(tree, "value") : tree[v].parent = o /\ tree[v].on}

HasContent(tree) ==
    \/ ShownOptions(tree) # {}
    \/ \E i \in In(tree, "item") : tree[tree[i].parent].on

OptionsHaveValues(tree) ==
    \A o \in ShownOptions(tree) : tree[o].takes => ShownValues(tree, o) # {}

NotDeleted(rs) == {r \in rs : r.reason # "target_deleted"}
(* Mutant: what a rule reads is not looked at. *)
TargetsAreInside(tree, rs) == \A r \in NotDeleted(rs) : r.target \in In(tree, r.type)

(* Containment: a rule acts on, and reads, what is published with it. *)
RulesAreInside(tree, rs) ==
    \A r \in NotDeleted(rs) :
        /\ r.target \in In(tree, r.type)
        /\ r.reads \subseteq In(tree, "option")

(* Mutant: an id that is no option hides none. *)
OptionsNamed(tree, id) == {id} \cap In(tree, "option")

(* Which options an id hides, whatever kind of row it is. *)
OptionsUnder(tree, id) ==
    CASE id \notin DOMAIN tree -> {}
      [] tree[id].kind = "group" -> {o \in In(tree, "option") : tree[o].parent = id}
      [] tree[id].kind = "option" -> {id}
      [] OTHER -> {tree[id].parent}

Edges(tree, rs) ==
    {e \in In(tree, "option") \X In(tree, "option") :
        /\ e[1] # e[2]
        /\ \E r \in rs : r.on /\ r.action = "hide" /\ e[1] \in r.reads /\ e[2] \in OptionsUnder(tree, r.target)}

(* cycleIn: depth first, with the nodes entered and not yet left on a stack;  *)
(* one that is met on its own path is a cycle, and the walk stands there.     *)
Enter(node) == [node |-> node, enter |-> TRUE]
Leave(node) == [node |-> node, enter |-> FALSE]
Entering(next) == [i \in 1 .. Len(next) |-> Enter(next[i])]
Ahead(edges, node) == {e[2] : e \in {f \in edges : f[1] = node}}

Walk(edges, w) ==
    LET step == w.stack[Len(w.stack)]
        rest == SubSeq(w.stack, 1, Len(w.stack) - 1)
    IN CASE ~step.enter ->
              [stack |-> rest, path |-> w.path \ {step.node}, settled |-> w.settled \cup {step.node}]
         [] step.enter /\ step.node \in w.path -> w
         [] step.enter /\ step.node \in w.settled \ w.path -> [w EXCEPT !.stack = rest]
         [] OTHER ->
              [stack |-> rest \o <<Leave(step.node)>>
                              \o Entering(SetToSeq(Ahead(edges, step.node) \ w.settled)),
               path |-> w.path \cup {step.node}, settled |-> w.settled]

(* From every node that has an edge.  A node is entered by each of its edges, *)
(* and as a start, and left once: the bound is never what ends a walk.       *)
CycleIn(edges) ==
    LET last == 4 * Cardinality(edges)
        start == [stack |-> Entering(SetToSeq({e[1] : e \in edges})), path |-> {}, settled |-> {}]
        walk[i \in 0 .. last] ==
            IF i = 0 THEN start
            ELSE IF walk[i - 1].stack = <<>> THEN walk[i - 1] ELSE Walk(edges, walk[i - 1])
    IN walk[last].stack # <<>>

Metered(tree, o) == o \in In(tree, "option") /\ ~tree[o].takes
PricesDoNotFight(tree, rs) ==
    \A r \in rs : r.on /\ r.action = "set_price" /\ r.type = "option" => ~Metered(tree, r.target)

PricesDoNotConflict(rs) ==
    \A q, r \in rs :
        q.on /\ r.on /\ q.action = "set_price" /\ r.action = "set_price" /\ q.target = r.target
            => q.amount = r.amount

Hideable(rs) == {r.target : r \in {q \in NotDeleted(rs) : q.type = "value" /\ q.action = "hide"}}

(* Mutant: values a rule may hide are counted in. *)
MinimumsCounted(tree, rs) ==
    \A o \in ShownOptions(tree) :
        tree[o].takes => Cardinality(ShownValues(tree, o)) >= tree[o].minimum

MinimumsReachable(tree, rs) ==
    \A o \in ShownOptions(tree) :
        tree[o].takes => Cardinality(ShownValues(tree, o) \ Hideable(rs)) >= tree[o].minimum

(* runPublishChecks: whether a draft has no blocker. *)
Publishable(tree, rs) ==
    /\ HasContent(tree) /\ OptionsHaveValues(tree) /\ RulesAreInside(tree, rs)
    /\ ~CycleIn(Edges(tree, rs)) /\ PricesDoNotFight(tree, rs) /\ PricesDoNotConflict(rs)
    /\ MinimumsReachable(tree, rs)

(* The checks look at the rules as they are now, the snapshot has them as    *)
(* they were.                                                                *)
Check(c) ==
    /\ At(c, "check")
    /\ LET e == edits[c] now == {rules[r] : r \in RulesOf(e.set)} IN
       IF Publishable(e.tree, now)
       THEN Continues(c, [pc |-> "store", set |-> e.set,
                          snapshot |-> [tree |-> e.tree, rules |-> {r \in e.rules : r.on},
                                        checked |-> {r \in now : r.on}]])
       ELSE Ends(c)
    /\ UNCHANGED <<nodes, rules, published, torn>>

Store(c) ==
    /\ At(c, "store")
    /\ published' = IF nodes[edits[c].set].live THEN published \cup {edits[c].snapshot} ELSE published
    /\ Ends(c)
    /\ UNCHANGED <<nodes, rules, torn>>

(* The process dies, between any two statements of the request. *)
Dies(c) ==
    /\ At(c, "sole")
    /\ torn' = torn \cup {edits[c].option}
    /\ Ends(c)
    /\ UNCHANGED <<nodes, rules, published>>
-----------------------------------------------------------------------------
Init ==
    /\ nodes = SeedNodes /\ rules = SeedRules
    /\ edits = [c \in Requests |-> Idle]
    /\ published = {} /\ effort = 0 /\ overlapped = FALSE /\ torn = {}

Requested(c) ==
    \/ \E n \in Nodes :
          \/ CreateGroup(c, n) \/ EditGroup(c, n) \/ RemoveGroup(c, n) \/ DuplicateGroup(c, n)
          \/ CreateItem(c, n) \/ RemoveItem(c, n) \/ DuplicateSet(c, n) \/ Publish(c, n)
          \/ EditOption(c, n) \/ RemoveOption(c, n) \/ DuplicateOption(c, n)
          \/ EditValue(c, n) \/ RemoveValue(c, n) \/ DuplicateValue(c, n)
          \/ \E key \in 1 .. 2 :
                CreateOption(c, n, key) \/ \E default \in BOOLEAN : CreateValue(c, n, key, default)
          \/ \E d \in Drafts : CreateRule(c, n, d)
    \/ \E r \in Rules : RemoveRule(c, r) \/ \E d \in Drafts : EditRule(c, r, d)

Next ==
    \E c \in Requests :
        \/ Requested(c)
        \/ Insert(c) \/ MakeSole(c) \/ Write(c) \/ Cascade(c) \/ Erase(c) \/ DropRule(c)
        \/ AddRule(c) \/ SaveRule(c) \/ Copy(c)
        \/ ReadLevel(c, "options", "values") \/ ReadLevel(c, "values", "rules")
        \/ ReadRules(c) \/ Check(c) \/ Store(c) \/ Dies(c)

Spec == Init /\ [][Next]_vars
-----------------------------------------------------------------------------
IsTree(rows) ==
    \A n \in DOMAIN rows :
        IF rows[n].kind = "set" THEN rows[n].parent = 0
        ELSE Up(rows, n) \in DOMAIN rows /\ rows[Up(rows, n)].kind = ParentKind[rows[n].kind]

RulesFit(rows, rs) ==
    \A r \in DOMAIN rs :
        /\ rs[r].set \in DOMAIN rows /\ rows[rs[r].set].kind = "set"
        /\ rs[r].on => rs[r].reason # "target_deleted"

(* Rows and rules are well formed: a child is below a row of the right kind, *)
(* and what names a row names one of its kind.                               *)
TypeOK ==
    /\ nodes \in Seq(NodeType) /\ IsTree(nodes) /\ rules \in Seq(RuleType) /\ RulesFit(nodes, rules)
    /\ torn \subseteq Nodes /\ effort \in 0 .. MaxEffort /\ overlapped \in BOOLEAN

(* Whoever sets defaults at once, an option is left with one: the sweep of    *)
(* the others is one statement.  (Not an option whose request died before    *)
(* the sweep, nor a copy made before it.)                                    *)
IsDefault(rows, v) == rows[v].live /\ rows[v].kind = "value" /\ rows[v].default
DefaultsSettle ==
    \A o \in Nodes : nodes[o].kind = "option" /\ ~InTransit(o) =>
        Cardinality({v \in Children(o, "value") : nodes[v].default}) <= 1

(* One request at a time, an enabled rule has its target: whatever takes a    *)
(* row away disables, or is refused by, the rules that act on it.            *)
Aims(rows, rule) ==
    rule.live /\ rule.on => Standing(rows, rule.target) /\ rows[rule.target].kind = rule.type
RulesKeepTargets == ~overlapped => \A r \in Rules : Aims(nodes, rules[r])

(* A rule of a copied set that can fire acts on the copy and asks the copy,   *)
(* never the set it was copied from.                                         *)
IsOwn(rows, rule) ==
    rule.by = "copy" /\ rule.on =>
        \A n \in {rule.target} \cup rule.reads : rule.set \in Lineage(rows, n)
CopiesAreOwn == \A r \in Rules : IsOwn(nodes, rules[r])

(* What a storefront needs of a snapshot, said without the checks: its rules  *)
(* act and ask inside it, no group of options each waits for another of the  *)
(* group, whatever values the rules hide leave enough, one price wins.       *)
Consistent(tree, fires) ==
    LET options == In(tree, "option")
        hides(a, b) == \E r \in fires :
            /\ r.action = "hide" /\ a \in r.reads
            /\ b \in {r.target, tree[r.target].parent} \/ r.target = tree[b].parent
    IN /\ \A r \in fires : r.target \in In(tree, r.type) /\ r.reads \subseteq options
       /\ \A C \in (SUBSET options) \ {{}} : \E b \in C : \A a \in C \ {b} : ~hides(a, b)
       /\ \A H \in SUBSET {r \in fires : r.type = "value" /\ r.action = "hide"}, o \in ShownOptions(tree) :
              tree[o].takes =>
                  Cardinality(ShownValues(tree, o) \ {r.target : r \in H}) >= tree[o].minimum
       /\ \A q, r \in fires : q.action = "set_price" /\ r.action = "set_price" /\ q.target = r.target
                                  => q.amount = r.amount

Sound(s) == Consistent(s.tree, {r \in s.rules : r.on})

(* A draft the checks let through is sound, when no rule moved between the    *)
(* reading of the snapshot and the reading for the checks.                   *)
SnapshotsAreSound == \A s \in published : s.rules = s.checked => Sound(s)
-----------------------------------------------------------------------------
(* Refuted.  What is stored passed the checks: the rules of the snapshot are  *)
(* read before those that are checked, and a rule repaired in between is     *)
(* published as it was.                                                      *)
PublishedIsSound == \A s \in published : Sound(s)

(* Refuted.  The same with requests at once: a rule is written after the      *)
(* deletion that should have disabled it.                                    *)
EnabledRulesHaveTargets ==
    \A r \in Rules : rules[r].live /\ rules[r].on => Scoped(rules[r].target)

(* Refuted.  An option has one default: a copy made between the insertion of  *)
(* a default and the sweep has two for good.                                 *)
OneDefault ==
    \A o \in Nodes : (\A c \in Requests : ~At(c, "sole")) =>
        Cardinality({v \in Children(o, "value") : nodes[v].default}) <= 1
=============================================================================
