------------------------------- MODULE Rules ---------------------------------
(***************************************************************************)
(* Engine/RuleEvaluator.php: what the conditional rules of the option sets  *)
(* decide for one set of answers.                                           *)
(*                                                                          *)
(* An answer is the set of scalars a buyer gave and whether it arrived as a *)
(* list.  A condition compares members of it with its operand, a set with   *)
(* one member except for `in` and `not_in`.                                 *)
(***************************************************************************)
EXTENDS Integers, FiniteSets, Sequences, SequencesExt, Lists

CONSTANTS NumberOf,   \* the numeric scalars and their value in hundredths
          Occurs,     \* <<needle, text>>: the needle occurs in the text
          MaxPasses   \* RuleEvaluator::MAX_PASSES

ASSUME MaxPassesAssumption == MaxPasses \in Nat \ {0}

Given(members) == [many |-> FALSE, members |-> members]
GivenList(members) == [many |-> TRUE, members |-> members]
Nothing == Given({})

Supplied(answer) == answer.members \notin {{}, {""}} \/ (answer.many /\ answer.members # {})

AnswerOf(answers, o) == IF o \in DOMAIN answers THEN answers[o] ELSE Nothing

NumericValue(answer) ==
    IF answer.many THEN {}
    ELSE {NumberOf[s] : s \in answer.members \cap DOMAIN NumberOf}

Compares(operator, answer, operand) ==
    CASE operator = "is_empty" -> ~Supplied(answer)
      [] operator = "is_not_empty" -> Supplied(answer)
      [] operator = "greater_than" ->
             \E a \in NumericValue(answer), b \in NumericValue(Given(operand)) : a > b
      [] operator = "less_than" ->
             \E a \in NumericValue(answer), b \in NumericValue(Given(operand)) : a < b
      [] OTHER ->
             /\ Supplied(answer)
             /\ CASE operator = "equals" -> answer.members = operand
                  [] operator = "not_equals" -> answer.members # operand
                  [] operator = "contains" ->
                         \E needle \in operand, text \in answer.members :
                             <<needle, text>> \in Occurs
                  [] operator = "in" -> answer.members \cap operand # {}
                  [] operator = "not_in" -> answer.members \cap operand = {}
                  [] OTHER -> FALSE

ConditionHolds(condition, answers) ==
    Compares(condition.operator, AnswerOf(answers, condition.option), condition.operand)

RuleFires(rule, answers) ==
    /\ rule.conditions # {}
    /\ IF rule.match = "any"
       THEN \E c \in rule.conditions : ConditionHolds(c, answers)
       ELSE \A c \in rule.conditions : ConditionHolds(c, answers)

-----------------------------------------------------------------------------
(* What the rules say of one target.  `price` is empty or one amount.       *)
Unruled == [hidden |-> FALSE, required |-> "unruled", price |-> {}, conflict |-> FALSE]

(* Mutant: a second price overrides the first, whichever rule comes last. *)
ApplyLastPrice(state, rule) ==
    CASE rule.action = "hide" -> [state EXCEPT !.hidden = TRUE]
      [] rule.action = "require" -> [state EXCEPT !.required = "required"]
      [] rule.action = "unrequire" /\ state.required # "required" ->
             [state EXCEPT !.required = "optional"]
      [] rule.action = "set_price" -> [state EXCEPT !.price = {rule.amount}]
      [] OTHER -> state

ApplyRule(state, rule) ==
    CASE rule.action = "hide" -> [state EXCEPT !.hidden = TRUE]
      [] rule.action = "require" -> [state EXCEPT !.required = "required"]
      [] rule.action = "unrequire" /\ state.required # "required" ->
             [state EXCEPT !.required = "optional"]
      [] rule.action = "set_price" ->
             IF state.conflict \/ (state.price # {} /\ state.price # {rule.amount})
             THEN [state EXCEPT !.price = {}, !.conflict = TRUE]
             ELSE [state EXCEPT !.price = {rule.amount}]
      [] OTHER -> state

StateOf(states, target) ==
    IF target \in DOMAIN states THEN states[target] ELSE Unruled

Targets(rules) == {rules[i].target : i \in DOMAIN rules}

Said(rules, target) ==
    Folded(ApplyRule, Unruled, Only(rules, {rule \in ToSet(rules) : rule.target = target}))

StatesBy(fired, alreadyHidden) ==
    [target \in Targets(fired) \cup alreadyHidden |->
        [Said(fired, target) EXCEPT !.hidden = @ \/ target \in alreadyHidden]]

(* RuleEvaluator.resolve: one pass over the rules that fire. *)
RuleStates(rules, answers, alreadyHidden) ==
    StatesBy(Only(rules, {rule \in ToSet(rules) : RuleFires(rule, answers)}), alreadyHidden)

HiddenTargets(states) == {target \in DOMAIN states : states[target].hidden}

(* The options inside a set of targets: none for a value. *)
Covered(targets, under) == UNION {under[t] : t \in targets \cap DOMAIN under}

Without(answers, options) == [o \in DOMAIN answers \ options |-> answers[o]]

(* Hiding latches: what a pass hid, its answer removed, stays hidden.  The   *)
(* passes settle when one leaves the answers as they were.                  *)
AfterPass(before, answers, under, states) ==
    LET hidden == before.hidden \cup HiddenTargets(states)
        left == Without(answers, Covered(hidden, under))
    IN [hidden |-> hidden, answers |-> left, states |-> states,
        settled |-> left = before.answers]

Outcome(pass) == [refused |-> ~pass.settled,
                  states |-> IF pass.settled THEN pass.states ELSE <<>>]

Evaluate(rules, answers, under) ==
    LET Pass[n \in 0..MaxPasses] ==
            IF n = 0
            THEN {[hidden |-> {}, answers |-> answers, states |-> <<>>, settled |-> FALSE]}
            ELSE {IF before.settled THEN before
                  ELSE AfterPass(before, answers, under,
                                 RuleStates(rules, before.answers, before.hidden)) :
                  before \in Pass[n - 1]}
    IN Outcome(CHOOSE last \in Pass[MaxPasses] : TRUE)
=============================================================================
