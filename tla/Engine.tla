------------------------------- MODULE Engine --------------------------------
(***************************************************************************)
(* Engine/SelectionResolver.php: validates the selections of one cart line  *)
(* against the published option sets and prices them.                       *)
(*                                                                          *)
(* A document is the options of the sets that apply (a function of option   *)
(* ids) and their rules in order.  A scalar is a string; what the checks    *)
(* tell apart about it is given by the constants.  Numbers and quantities   *)
(* are in hundredths, dates are days.                                       *)
(***************************************************************************)
EXTENDS Rules, Money, Functions, FiniteSetsExt

CONSTANTS LengthOf,      \* Text::measure of the scalars longer than 1
          DayOf,         \* the scalars that are dates, and their day
          CleanOf,       \* the scalars that clean_text alters, and what it leaves
          Matches,       \* <<character set or pattern, text>> that match
          MaxLength,     \* ABSOLUTE_MAX_LENGTH
          MaxQuantity,   \* ABSOLUTE_MAX_QUANTITY, in hundredths
          MaxText,       \* MAX_TEXT_BYTES
          FileTokens,    \* well-formed upload tokens
          Line           \* the field of an error of the whole line

ASSUME TextAssumption ==
    /\ \A text \in DOMAIN LengthOf : LengthOf[text] \in Nat
    /\ \A text \in DOMAIN NumberOf : NumberOf[text] \in Int
    /\ "" \notin DOMAIN NumberOf
    /\ MaxQuantity \in Nat

OptionPricedTypes == {"per_char", "per_unit", "tiered"}

Has(record, field) == field \in DOMAIN record

Length(text) == IF text \in DOMAIN LengthOf THEN LengthOf[text]
                ELSE IF text = "" THEN 0 ELSE 1

CleanText(text) == IF text \in DOMAIN CleanOf THEN CleanOf[text] ELSE text

TakesMany(option) == option.many /\ option.type = "checkbox"

IsHidden(option) == option.type = "hidden"

Scalar(answer) == CHOOSE s \in answer.members : TRUE

(* What the engine reads as a price, an option, a rule and a document.      *)
IsPrice(price) ==
    /\ price.type = "fixed" => price.amount \in Int
    /\ price.type = "percentage" => price.points \in Int

IsPricing(pricing) ==
    /\ pricing.type \in {"per_char", "per_unit"} => pricing.amount \in Int
    /\ pricing.type = "per_char" => pricing.free \in Int
    /\ pricing.type = "tiered" =>
           \A tier \in pricing.tiers : tier.from \in Int /\ tier.amount \in Int

IsOption(option) ==
    /\ option.values \in Seq(ToSet(option.values))
    /\ \A value \in ToSet(option.values) : IsPrice(value.price)
    /\ IsPricing(option.pricing)

ValueIds(options) == {value.id : value \in UNION {ToSet(options[o].values) : o \in DOMAIN options}}

IsDocument(doc) ==
    /\ DOMAIN doc = {"options", "rules"}
    /\ IsFiniteSet(DOMAIN doc.options)
    /\ \A o \in DOMAIN doc.options : IsOption(doc.options[o])
    /\ doc.rules \in Seq(ToSet(doc.rules))
    /\ \A rule \in ToSet(doc.rules) :
           /\ rule.action = "set_price" => rule.amount \in Int
           /\ rule.targetType # "value" => rule.target \notin ValueIds(doc.options)

(* The code of the first check that fails, of <<failed, code>> pairs.       *)
FirstFailed(checks) ==
    LET failed == {i \in DOMAIN checks : checks[i][1]}
    IN IF failed = {} THEN "taken"
       ELSE checks[CHOOSE i \in failed : \A j \in failed : i <= j][2]
-----------------------------------------------------------------------------
Containment(doc) ==
    LET groups == {doc.options[o].group : o \in DOMAIN doc.options}
    IN [t \in groups \cup DOMAIN doc.options \cup ValueIds(doc.options) |->
           IF t \in DOMAIN doc.options THEN {t}
           ELSE {o \in DOMAIN doc.options : doc.options[o].group = t}]

(* A hidden field answers with its configured value, whatever was posted.   *)
RuleAnswers(options, selections) ==
    LET hidden == {o \in DOMAIN options : IsHidden(options[o])}
        silent == {o \in hidden : CleanText(options[o].default) = ""}
    IN [o \in (DOMAIN selections \cup hidden) \ silent |->
           IF o \in hidden THEN Given({CleanText(options[o].default)}) ELSE selections[o]]

HiddenOptions(states, under) == Covered(HiddenTargets(states), under)

HiddenValues(rules, states) ==
    {t \in HiddenTargets(states) : \E i \in DOMAIN rules :
         rules[i].target = t /\ rules[i].targetType = "value"}
-----------------------------------------------------------------------------
(* Prices.  A price is the minor units and the pricing types it could not   *)
(* be computed for.                                                         *)
Price(amount) == [amount |-> amount, unpriced |-> {}]
NoPrice(type) == [amount |-> 0, unpriced |-> {type} \ {""}]
PriceOr(amount, type) == IF amount = Unpriceable THEN NoPrice(type) ELSE Price(amount)

(* SelectionResolver.set_price_for: the amount a rule sets, if any.         *)
SetPriceFor(option, states, optionId, valueId) ==
    LET ofOption == StateOf(states, optionId)
        ofValue == IF valueId = "" THEN Unruled ELSE StateOf(states, valueId)
        amount == IF ofValue.price # {} THEN ofValue.price ELSE ofOption.price
    IN IF ofOption.conflict \/ ofValue.conflict
       THEN [ruled |-> "conflict", amount |-> {}, unpriced |-> {"rule_price_conflict"}]
       ELSE IF amount = {}
       THEN [ruled |-> "no", amount |-> {}, unpriced |-> {}]
       ELSE IF option.pricing.type \in OptionPricedTypes
       THEN [ruled |-> "no", amount |-> {}, unpriced |-> {option.pricing.type}]
       ELSE [ruled |-> "yes", amount |-> amount, unpriced |-> {}]

(* A set price wins over a configured one; a conflict charges nothing.      *)
UnderRule(ruled, configured) ==
    [amount |-> CASE ruled.ruled = "conflict" -> 0
                  [] ruled.ruled = "yes" -> CHOOSE a \in ruled.amount : TRUE
                  [] OTHER -> configured.amount,
     unpriced |-> ruled.unpriced \cup
                  (IF ruled.ruled = "no" THEN configured.unpriced ELSE {})]

(* SelectionResolver.delta_for: what one chosen value costs.                *)
DeltaFor(value, base) ==
    CASE value.price.type = "none" -> Price(0)
      [] value.price.type = "percentage" ->
             PriceOr(PercentageOf(base, value.price.points), "percentage")
      [] value.price.type = "fixed" -> Price(value.price.amount)
      [] OTHER -> NoPrice(value.price.type)

TierAmount(tiers, quantity) ==
    LET reached == {t \in tiers : t.from <= quantity}
    IN {t.amount : t \in {t \in reached : \A u \in reached : u.from <= t.from}}

PerUnitDelta(type, amount, answer) ==
    IF answer \notin DOMAIN NumberOf THEN Price(0)
    ELSE IF NumberOf[answer] > MaxQuantity THEN NoPrice(type)
    ELSE PriceOr(PerUnitOf(amount, NumberOf[answer]), type)

TieredDelta(pricing, answer) ==
    IF answer \notin DOMAIN NumberOf THEN Price(0)
    ELSE LET amount == TierAmount(pricing.tiers, NumberOf[answer])
         IN IF amount # {}
            THEN PerUnitDelta(pricing.type, CHOOSE a \in amount : TRUE, answer)
            ELSE IF NumberOf[answer] > 0 THEN NoPrice(pricing.type) ELSE Price(0)

PerCharDelta(pricing, answer) ==
    LET charged == Length(answer) - pricing.free
    IN IF charged <= 0 \/ ~MultiplicationInRange(charged, pricing.amount)
       THEN Price(0) ELSE Price(charged * pricing.amount)

(* SelectionResolver.option_delta: what a typed answer costs.               *)
OptionDelta(option, answer) ==
    LET type == option.pricing.type
    IN CASE type \in {"none", "fixed"} -> Price(0)
         [] type = "per_char" /\ option.kind = "text" /\ ~IsHidden(option) ->
                PerCharDelta(option.pricing, answer)
         [] type = "per_unit" /\ option.kind = "number" ->
                PerUnitDelta(type, option.pricing.amount, answer)
         [] type = "tiered" /\ option.kind = "number" ->
                TieredDelta(option.pricing, answer)
         [] OTHER -> NoPrice(type)
-----------------------------------------------------------------------------
(* Verdicts on one answer: an error code, "empty" (as if not answered) or   *)
(* "taken" with the canonical answer and its price.                         *)
Verdict(code) == [code |-> code, chosen |-> Nothing, amount |-> 0, unpriced |-> {}]

Taken(chosen, price) ==
    [code |-> "taken", chosen |-> chosen, amount |-> price.amount, unpriced |-> price.unpriced]

TakenTyped(option, o, states, text) ==
    Taken(Given({text}),
          UnderRule(SetPriceFor(option, states, o, ""), OptionDelta(option, text)))

HiddenVerdict(option, o, states) ==
    LET configured == CleanText(option.default)
    IN IF configured = "" THEN Verdict("empty")
       ELSE TakenTyped(option, o, states, configured)

FileVerdict(option, o, states, token) ==
    IF token = "" THEN Verdict("empty")
    ELSE IF token \in FileTokens THEN TakenTyped(option, o, states, token)
    ELSE Verdict("unknown_value")

MinLengthOf(option) ==
    IF Has(option.validation, "min_length") /\ option.validation.min_length >= 1
    THEN IF option.validation.min_length < MaxLength
         THEN option.validation.min_length ELSE MaxLength
    ELSE 0

MaxLengthOf(option) ==
    IF Has(option.validation, "max_length") /\ option.validation.max_length >= 1
    THEN IF option.validation.max_length < MaxLength
         THEN option.validation.max_length ELSE MaxLength
    ELSE MaxLength

CharsetViolation(v, text) ==
    Has(v, "allowed_charset") /\ <<v.allowed_charset, text>> \notin Matches

ForbiddenWord(v, text) ==
    Has(v, "forbidden_words") /\ \E w \in v.forbidden_words : <<w, text>> \in Occurs

PatternViolation(v, text) ==
    Has(v, "pattern") /\ <<v.pattern, text>> \notin Matches

TextRuleViolation(option, text) ==
    << <<CharsetViolation(option.validation, text), "charset">>,
       <<ForbiddenWord(option.validation, text), "forbidden_word">>,
       <<PatternViolation(option.validation, text), "pattern_mismatch">> >>

TextVerdict(option, o, states, raw) ==
    LET text == CleanText(raw)
        code == FirstFailed(<< <<text = "", "empty">>,
                    <<Length(text) < MinLengthOf(option), "too_short">>,
                    <<Length(text) > MaxLengthOf(option), "too_long">> >>
                    \o TextRuleViolation(option, text))
    IN IF code = "taken" THEN TakenTyped(option, o, states, text) ELSE Verdict(code)

ParseDate(raw) == IF raw \in DOMAIN DayOf THEN {DayOf[raw]} ELSE {}

RelativeDateViolation(v, day, today) ==
    \/ Has(v, "lead_time_days") /\ day < today + v.lead_time_days
    \/ Has(v, "max_advance_days") /\ day > today + v.max_advance_days

DateViolation(option, day, today) ==
    LET v == option.validation
    IN << <<Has(v, "min_date") /\ day < v.min_date, "date_out_of_range">>,
          <<Has(v, "max_date") /\ day > v.max_date, "date_out_of_range">>,
          <<Has(v, "blackout_dates") /\ day \in v.blackout_dates, "date_unavailable">>,
          <<Has(v, "allowed_weekdays") /\ day % 7 \notin v.allowed_weekdays,
            "date_unavailable">>,
          <<RelativeDateViolation(v, day, today), "date_out_of_range">> >>

DateVerdict(option, o, states, raw, today) ==
    IF raw = "" THEN Verdict("empty")
    ELSE IF ParseDate(raw) = {} THEN Verdict("not_a_date")
    ELSE LET code == FirstFailed(DateViolation(option, DayOf[raw], today))
         IN IF code = "taken" THEN TakenTyped(option, o, states, raw) ELSE Verdict(code)

ParseNumber(raw) == IF raw \in DOMAIN NumberOf THEN {NumberOf[raw]} ELSE {}

NumberViolation(option, n) ==
    LET v == option.validation
        from == IF Has(v, "min") THEN v.min ELSE 0
    IN << <<Has(v, "min") /\ n < v.min, "out_of_range">>,
          <<Has(v, "max") /\ n > v.max, "out_of_range">>,
          <<Has(v, "integer_only") /\ n % Scale # 0, "bad_step">>,
          <<Has(v, "step") /\ (n - from) % v.step # 0, "bad_step">> >>

NumberVerdict(option, o, states, raw) ==
    IF raw = "" THEN Verdict("empty")
    ELSE IF ParseNumber(raw) = {} THEN Verdict("not_a_number")
    ELSE LET code == FirstFailed(NumberViolation(option, NumberOf[raw]))
         IN IF code = "taken" THEN TakenTyped(option, o, states, raw) ELSE Verdict(code)

ValueFor(option, key) ==
    CHOOSE value \in ToSet(option.values) : value.key = key

Keys(option) == {option.values[i].key : i \in DOMAIN option.values}

(* The checks of a choice; no key is looked up before it is known.          *)
ChoiceChecks(option, keys, hiddenValues) ==
    LET v == option.validation
    IN << <<~(keys \subseteq Keys(option)), "unknown_value">>,
          <<Has(v, "min_selections") /\ Cardinality(keys) < v.min_selections,
            "too_few_selections">>,
          <<Has(v, "max_selections") /\ Cardinality(keys) > v.max_selections,
            "too_many_selections">>,
          <<\E key \in keys \cap Keys(option) : ValueFor(option, key).id \in hiddenValues,
            "hidden_by_rule">> >>

(* Several values are charged as the sum of what each costs.                *)
ChoicePrice(option, o, states, keys, base) ==
    LET priced(key) ==
            UnderRule(SetPriceFor(option, states, o, ValueFor(option, key).id),
                      DeltaFor(ValueFor(option, key), base))
    IN [amount |-> SumFunction([key \in keys |-> priced(key).amount]),
        unpriced |-> UNION {priced(key).unpriced : key \in keys}]

ChoiceVerdict(option, o, states, keys, hiddenValues, base) ==
    LET code == FirstFailed(ChoiceChecks(option, keys, hiddenValues))
    IN IF code # "taken" THEN Verdict(code)
       ELSE Taken([many |-> TakesMany(option), members |-> keys],
                  ChoicePrice(option, o, states, keys, base))
-----------------------------------------------------------------------------
(* The verdict on one posted answer, in the order the code checks.          *)
Answered(doc, o, answer, states, hidden, hiddenValues, base, today) ==
    LET option == doc.options[o]
        scalar == Scalar(answer)
    IN IF o \in hidden THEN Verdict("hidden_by_rule")
       ELSE IF answer.many /\ ~TakesMany(option) THEN Verdict("not_scalar")
       ELSE IF answer.members = {} THEN Verdict("empty")
       ELSE IF IsHidden(option) THEN HiddenVerdict(option, o, states)
       ELSE CASE option.kind = "file" -> FileVerdict(option, o, states, scalar)
              [] option.kind = "text" -> TextVerdict(option, o, states, scalar)
              [] option.kind = "date" -> DateVerdict(option, o, states, scalar, today)
              [] option.kind = "number" -> NumberVerdict(option, o, states, scalar)
              [] OTHER -> ChoiceVerdict(option, o, states, answer.members, hiddenValues, base)

Required(option, state) ==
    \/ state.required = "required"
    \/ state.required = "unruled" /\ option.required

(* Required options nothing was given for, and nothing was reported about.  *)
Missing(doc, verdicts, states, hidden) ==
    {o \in DOMAIN doc.options \ hidden :
        /\ Required(doc.options[o], StateOf(states, o))
        /\ o \notin DOMAIN verdicts \/ verdicts[o].code = "empty"}

TextSize(doc, verdicts, taken) ==
    LET texts == {o \in taken : doc.options[o].kind = "text" /\ ~IsHidden(doc.options[o])}
    IN SumFunction([o \in texts |-> Length(Scalar(verdicts[o].chosen))])

Refused(errors) == [ok |-> FALSE, errors |-> errors]

SumDeltas(base, deltas) ==
    LET total == base + SumFunction(deltas)
    IN IF InRange(base) /\ InRange(total) /\ \A o \in DOMAIN deltas : InRange(deltas[o])
       THEN ClampToZero(total) ELSE Unpriceable

Verdicts(doc, selections, base, today, states, hidden) ==
    [o \in DOMAIN selections \cap DOMAIN doc.options |->
        Answered(doc, o, selections[o], states, hidden,
                 HiddenValues(doc.rules, states), base, today)]

TakenOf(verdicts) == {o \in DOMAIN verdicts : verdicts[o].code = "taken"}

Errors(doc, selections, states, hidden, verdicts) ==
    {<<"unknown_option", o>> : o \in DOMAIN selections \ DOMAIN doc.options}
    \cup {<<verdicts[o].code, o>> :
            o \in {o \in DOMAIN verdicts : verdicts[o].code \notin {"taken", "empty"}}}
    \cup {<<"too_much_text", l>> : l \in
            {l \in {Line} : TextSize(doc, verdicts, TakenOf(verdicts)) > MaxText}}
    \cup {<<"required", o>> : o \in Missing(doc, verdicts, states, hidden)}

Charged(base, deltas, verdicts) ==
    [ok |-> TRUE, errors |-> {}, deltas |-> deltas, total |-> SumDeltas(base, deltas),
     resolved |-> [o \in DOMAIN deltas |-> verdicts[o].chosen],
     unpriced |-> UNION {verdicts[o].unpriced : o \in DOMAIN deltas}]

Unless(errors, answer) ==
    IF errors # {} THEN Refused(errors)
    ELSE IF answer.total = Unpriceable THEN Refused({<<"unpriceable", Line>>})
    ELSE answer

Judged(doc, selections, base, states, hidden, verdicts) ==
    Unless(Errors(doc, selections, states, hidden, verdicts),
           Charged(base, [o \in TakenOf(verdicts) |-> verdicts[o].amount], verdicts))

RuledBy(doc, selections, base, today, states, hidden) ==
    Judged(doc, selections, base, states, hidden,
           Verdicts(doc, selections, base, today, states, hidden))

Settled(doc, selections, base, today, evaluation) ==
    IF evaluation.refused THEN Refused({<<"rules_unsettled", Line>>})
    ELSE RuledBy(doc, selections, base, today, evaluation.states,
                 HiddenOptions(evaluation.states, Containment(doc)))

(* SelectionResolver.resolve *)
Resolve(doc, selections, base, today) ==
    Settled(doc, selections, base, today,
            Evaluate(doc.rules, RuleAnswers(doc.options, selections), Containment(doc)))
=============================================================================
