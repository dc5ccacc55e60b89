---------------------------- MODULE MCStorefront ----------------------------
(***************************************************************************)
(* Documents and inputs for Storefront: rules that hide a group, require,   *)
(* set conflicting prices and hide a value; every pricing type; an upload.  *)
(***************************************************************************)
EXTENDS Storefront

NoPricing == [type |-> "none"]
Free == [type |-> "none"]
Fixed(amount) == [type |-> "fixed", amount |-> amount]
Percent(points) == [type |-> "percentage", points |-> points]

Value(key, price) == [key |-> key, id |-> "v_" \o key, price |-> price, default |-> FALSE]

Choice(type, group, values) ==
    [kind |-> "choice", type |-> type, many |-> type = "checkbox", group |-> group,
     values |-> values, required |-> FALSE, default |-> "", validation |-> <<>>,
     pricing |-> NoPricing]

Field(kind, group, validation, pricing) ==
    [kind |-> kind, type |-> kind, many |-> FALSE, group |-> group, values |-> <<>>,
     required |-> FALSE, default |-> "", validation |-> validation, pricing |-> pricing]

When(option, operator, operand) ==
    {[option |-> option, operator |-> operator, operand |-> operand]}

Rule(conditions, action, targetType, target, amount) ==
    [match |-> "all", conditions |-> conditions, action |-> action,
     targetType |-> targetType, target |-> target, amount |-> amount]

Size(large) == Choice("radio", "top", <<Value("s", Free), Value("l", Fixed(large))>>)
Wrap(values) == Choice("dropdown", "extras", values)
Note == Field("text", "extras", [max_length |-> 2, forbidden_words |-> {"x"}],
              [type |-> "per_char", amount |-> 2, free |-> 1])

Gift == [options |-> [size |-> Size(30),
                      wrap |-> Wrap(<<Value("p", Fixed(5)), Value("r", Percent(1000))>>),
                      note |-> Note],
         rules |-> <<Rule(When("size", "equals", {"s"}), "hide", "group", "extras", 0),
                     Rule(When("wrap", "is_not_empty", {}), "require", "option", "note", 0)>>]

Regift == [options |-> [size |-> Size(40), wrap |-> Wrap(<<Value("p", Fixed(6))>>),
                        note |-> [Note EXCEPT !.required = TRUE]],
           rules |-> <<Rule(When("size", "in", {"l"}), "set_price", "option", "wrap", 7),
                       Rule(When("note", "contains", {"a"}), "set_price", "option", "wrap", 9),
                       Rule(When("size", "not_equals", {"l"}), "unrequire", "option", "note", 0)>>]

Plain == [options |-> [size |-> Size(30),
                       wrap |-> Wrap(<<Value("p", Fixed(5)), Value("r", Percent(1000))>>)],
          rules |-> <<Rule(When("size", "equals", {"s"}), "hide", "option", "wrap", 0)>>]

Parts == [options |->
            [parts |-> [Choice("checkbox", "top",
                              <<Value("a", Fixed(10)), Value("b", Fixed(-50)), Value("c", Free)>>)
                        EXCEPT !.validation = [min_selections |-> 1, max_selections |-> 2]],
             count |-> Field("number", "top", [min |-> 100, max |-> 900, step |-> 100],
                             [type |-> "tiered",
                              tiers |-> {[from |-> 100, amount |-> 5], [from |-> 300, amount |-> 3]}]),
             due |-> [Field("date", "top", [lead_time_days |-> 1], NoPricing)
                      EXCEPT !.required = TRUE]],
          rules |-> <<Rule(When("count", "greater_than", {"2"}), "hide", "value", "v_c", 0)>>]

Artwork == [options |-> [style |-> Choice("radio", "top", <<Value("own", Fixed(4)), Value("stock", Free)>>),
                       art |-> [Field("file", "top", <<>>, NoPricing) EXCEPT !.required = TRUE],
                       origin |-> [Field("text", "top", <<>>, NoPricing)
                          EXCEPT !.type = "hidden", !.default = "web"]],
          rules |-> <<Rule(When("style", "equals", {"stock"}), "hide", "option", "art", 0)>>]

MCDocs == [gift |-> Gift, regift |-> Regift, plain |-> Plain, parts |-> Parts, artwork |-> Artwork]

MCTyped == [text |-> {"a", "abc"}, number |-> {"1", "3"},
            date |-> {"day1", "day2"}, file |-> {"token"}]

MCNumberOf == [n \in {"1", "2", "3", "1.5"} |->
                  CASE n = "1" -> 100 [] n = "2" -> 200 [] n = "3" -> 300 [] OTHER -> 150]
MCLengthOf == [t \in {"ab", "abc"} |-> IF t = "ab" THEN 2 ELSE 3]
MCDayOf == [d \in {"day1", "day2"} |-> IF d = "day1" THEN 1 ELSE 2]
MCCleanOf == <<>>
MCOccurs == {<<"a", "a">>, <<"a", "ab">>, <<"a", "abc">>, <<"x", "x">>}
MCMatches == {}

(* The documents of the run are such as EstimateIsCharged is proved for. *)
ASSUME AnswersAssumption == OneAnswerEach
=============================================================================
