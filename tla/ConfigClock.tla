----------------------------- MODULE ConfigClock -----------------------------
(***************************************************************************)
(* What the cloud promises a storefront about its configuration document,   *)
(* as one store's storefront can observe it: the published version of every *)
(* option set, the products each is assigned to, and `stores.configVersion`,*)
(* the only value a storefront compares to decide that it is behind.        *)
(*                                                                          *)
(* A change and the version that announces it commit in one transaction     *)
(* (config-version.service.ts).  The one exception the code allows is a     *)
(* set deleted by a request that read it while it was still a draft: it     *)
(* leaves the document with no bump.  `unannounced` names those sets until  *)
(* the next bump makes every storefront refetch anyway.                     *)
(*                                                                          *)
(* OptionSets implements this module; ConfigSync reads from it.             *)
(***************************************************************************)
EXTENDS Naturals

CONSTANTS Sets,         \* option sets of the one store modelled
          Products      \* assignment targets

VARIABLES published,     \* set -> its published version, 0 when not in the document
          assigned,      \* set -> targets the document gives it
          configVersion, \* stores.configVersion
          unannounced    \* sets that left the document since the last bump, without one

clockVars == <<published, assigned, configVersion, unannounced>>

ClockTypeOK ==
    /\ published \in [Sets -> Nat]
    /\ assigned \in [Sets -> SUBSET Products]
    /\ configVersion \in Nat
    /\ unannounced \in SUBSET Sets

ClockInit ==
    /\ published = [s \in Sets |-> 0]
    /\ assigned = [s \in Sets |-> {}]
    /\ configVersion = 0
    /\ unannounced = {}

(* ConfigVersionService.bump: every storefront is now behind. *)
Announce ==
    /\ configVersion' = configVersion + 1
    /\ unannounced' = {}

(* A publish or a rollback puts the next version of s in the document; a
   set's first publish brings the assignments it already has. *)
Release(s, targets) ==
    /\ published' = [published EXCEPT ![s] = @ + 1]
    /\ assigned' = [assigned EXCEPT ![s] = targets]
    /\ Announce

(* Mutant: an assignment write that announces nothing. *)
ReassignSilently(s, targets) ==
    /\ targets = {} \/ published[s] # 0
    /\ assigned' = [assigned EXCEPT ![s] = targets]
    /\ UNCHANGED <<published, configVersion, unannounced>>

(* An assignment write.  It announces itself whether or not the set is in the
   document and whether or not it changed a row. *)
Reassign(s, targets) ==
    /\ targets = {} \/ published[s] # 0
    /\ assigned' = [assigned EXCEPT ![s] = targets]
    /\ Announce
    /\ UNCHANGED published

(* A delete or a purge removes s from the document. *)
Withdraw(s) ==
    /\ published' = [published EXCEPT ![s] = 0]
    /\ assigned' = [assigned EXCEPT ![s] = {}]
    /\ Announce

(* The same removal by a request that had read s as a draft. *)
WithdrawSilently(s) ==
    /\ published[s] # 0
    /\ published' = [published EXCEPT ![s] = 0]
    /\ assigned' = [assigned EXCEPT ![s] = {}]
    /\ unannounced' = unannounced \cup {s}
    /\ UNCHANGED configVersion

ClockNext ==
    \E s \in Sets :
        \/ \E targets \in SUBSET Products : Release(s, targets) \/ Reassign(s, targets)
        \/ Withdraw(s)
        \/ WithdrawSilently(s)

ClockSpec == ClockInit /\ [][ClockNext]_clockVars
=============================================================================
