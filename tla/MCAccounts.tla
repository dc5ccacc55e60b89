----------------------------- MODULE MCAccounts -----------------------------
(***************************************************************************)
(* What a signed-in team does in the cloud: Sessions, Workspace, Authoring  *)
(* and DesignLab, which share no state, checked one beside the other: part  *)
(* says which of them a behaviour is of.  A tab and the request it makes    *)
(* may bear one name.                                                       *)
(***************************************************************************)
EXTENDS Sessions, TLC

CONSTANTS Requests, People, Founder, Sets, Products, Limits, MaxWork,
          SeedNodes, SeedRules, Drafts, MaxSiblings, MaxRows, MaxRules, MaxEffort,
          HistoryLimit, MaxLayers, MaxActs, MaxOpens

(* A registration has one founder; a plan's limits are numbers; there are only *)
(* so many people, and a server works on one request at least.              *)
ASSUME TeamAssumption ==
    /\ Founder \in People /\ IsFiniteSet(People)
    /\ IsFiniteSet(Requests) /\ Requests # {}
    /\ Limits \subseteq Nat /\ Limits # {} /\ MaxWork \in Nat

ASSUME DraftAssumption == {MaxSiblings, MaxRows, MaxRules, MaxEffort} \subseteq Nat
ASSUME LabAssumption == {HistoryLimit, MaxLayers, MaxActs, MaxOpens} \subseteq Nat \ {0}

VARIABLES members, invitations, sets, assigned, limits, links, requests, work, peak,
          joins, overwrote, settled,
          nodes, rules, edits, published, effort, overlapped, torn,
          design, cropping, history, hidx, dialog, session, timers, drag, images, saved,
          counter, acts,
          part

workspace == <<members, invitations, sets, assigned, limits, links, requests, work, peak,
               joins, overwrote, settled>>

authoring == <<nodes, rules, edits, published, effort, overlapped, torn>>

lab == <<design, cropping, history, hidx, dialog, session, timers, drag, images, saved,
         counter, acts>>

W == INSTANCE Workspace WITH jobs <- requests
A == INSTANCE Authoring
D == INSTANCE DesignLab

(* A merchant's first draft is a tree with rules that name its rows, and an *)
(* option has at most one default; a rule names what the requests may name. *)
ASSUME SeedAssumption ==
    /\ Drafts \subseteq A!DraftType
    /\ SeedNodes \in Seq(A!NodeType) /\ SeedRules \in Seq(A!RuleType)
    /\ A!IsTree(SeedNodes) /\ A!RulesFit(SeedNodes, SeedRules)
    /\ \A r \in DOMAIN SeedRules : A!Aims(SeedNodes, SeedRules[r]) /\ A!IsOwn(SeedNodes, SeedRules[r])
    /\ \A m, n \in DOMAIN SeedNodes :
          A!IsDefault(SeedNodes, m) /\ A!IsDefault(SeedNodes, n) /\ SeedNodes[m].parent = SeedNodes[n].parent
              => m = n

AccountsInit ==
    /\ Init /\ W!Init /\ A!Init /\ D!Init /\ part \in {"sessions", "workspace", "authoring", "lab"}
    /\ part # "workspace" => \A m \in DOMAIN limits : limits[m] = 1
    /\ part # "lab" => ~saved.layers[1].framed

AccountsNext ==
    \/ part = "sessions" /\ Next /\ UNCHANGED <<workspace, authoring, lab, part>>
    \/ part = "workspace" /\ W!Next /\ UNCHANGED <<vars, authoring, lab, part>>
    \/ part = "authoring" /\ A!Next /\ UNCHANGED <<vars, workspace, lab, part>>
    \/ part = "lab" /\ D!Next /\ UNCHANGED <<vars, workspace, authoring, part>>

AccountsSpec == AccountsInit /\ [][AccountsNext]_<<vars, workspace, authoring, lab, part>>

(* The state of every part is well typed. *)
AccountsTypeOK ==
    CASE part = "sessions" -> TypeOK
      [] part = "workspace" -> W!TypeOK
      [] part = "authoring" -> A!TypeOK
      [] part = "lab" -> D!TypeOK

(* A session is one chain of tokens, and ends for good: after every step a  *)
(* token has one successor and one used twice has ended its session; what   *)
(* has ended stays so, and a logout ends what it can see                    *)
(* (sessions.service.ts, rotate and revokeFamily).                          *)
SessionsAreChains ==
    [][/\ (OneSuccessor /\ ReuseEndsSession)'
       /\ \A t \in Tokens : Over(rows[t].family) => Over(rows[t].family)'
       /\ \A tab \in Tabs : Sweeps(tab)]_vars

(* The user's own tabs are not taken for a thief, and what their browser    *)
(* stores is what was last granted (refresh-lock.ts, client.ts).            *)
TabsKeepUp == part = "sessions" => NoSpuriousReuse /\ StorageCurrent

(* Owners cannot remove one another away, an invitation is taken once, a    *)
(* plan is overshot by less than the requests in flight, and a reset closes *)
(* every link sent before it (team.service.ts, plan-limit.guard.ts,         *)
(* auth-tokens.service.ts).                                                 *)
WorkspaceIsSound ==
    part = "workspace" => W!LastOwnerStays /\ W!AcceptedOnce /\ W!OvershootIsBounded /\ W!ResetClosesLinks

(* An option is left with one default, an enabled rule has its target when  *)
(* requests do not overlap, the rules of a copied set act on the copy, and  *)
(* what the checks let through is sound; what the Design Lab shows and      *)
(* keeps is composed, is where undo starts from, and is of the session that *)
(* is open (option-values.repository.ts, cascade.service.ts,                *)
(* copyRulesInto, publish-check.ts, design-lab/store.ts).                   *)
AuthoringIsSound ==
    /\ part = "authoring" =>
          A!DefaultsSettle /\ A!RulesKeepTargets /\ A!CopiesAreOwn /\ A!SnapshotsAreSound
    /\ part = "lab" => D!DesignsAreComposed /\ D!CanvasIsCommitted /\ D!HistoryIsThisSessions

Branch(kind, parent, key, default, takes, minimum) ==
    [kind |-> kind, parent |-> parent, key |-> key, live |-> TRUE, on |-> TRUE,
     default |-> default, takes |-> takes, minimum |-> minimum]
MCSeedNodes ==
    <<Branch("set", 0, 1, FALSE, FALSE, 0), Branch("group", 1, 1, FALSE, FALSE, 0),
      Branch("option", 2, 1, FALSE, TRUE, 1), Branch("value", 3, 1, TRUE, FALSE, 0),
      Branch("option", 2, 2, FALSE, FALSE, 0)>>

Draft(action, type, target, reads, amount) ==
    [action |-> action, type |-> type, target |-> target, reads |-> reads, amount |-> amount]
MCDrafts ==
    {Draft("hide", "group", 2, {3}, 0), Draft("hide", "option", 3, {5}, 0),
     Draft("hide", "value", 4, {5}, 0), Draft("set_price", "value", 4, {5}, 1),
     Draft("set_price", "value", 4, {5}, 2), Draft("set_price", "option", 5, {3}, 1)}
MCSeedRules ==
    <<Draft("hide", "option", 5, {3}, 0)
        @@ [set |-> 1, on |-> TRUE, reason |-> "", live |-> TRUE, by |-> "author"]>>

Symmetry == Permutations(Requests) \cup Permutations(Products)
=============================================================================
