----------------------------- MODULE Storefront ------------------------------
(***************************************************************************)
(* One product of a storefront and one buyer: the product page (rules.js    *)
(* and frontend.js), the cart line, checkout and reorder (Integration/),    *)
(* over the engine, while the merchant publishes, the base price and the    *)
(* store's day move and uploads go away.                                    *)
(*                                                                          *)
(* WooCommerce's session, cart and order are modelled from how Integration/ *)
(* uses them: a cart line is found by its key, checkout validates every     *)
(* line before it creates the order's lines.                                *)
(***************************************************************************)
EXTENDS Engine

CONSTANTS Docs,         \* the documents that may be published, by name
          BasePrices,   \* the product's base prices, in minor units
          Typed,        \* what a buyer may type, by value kind
          MaxChanges,   \* bound: publishes, price changes, days, expiries
          MaxVisits,    \* bound: product pages opened
          MaxLines,     \* bound: lines of the cart
          MaxOrders     \* bound: order lines

NoDoc == "none"

(* A product's price is not negative and within what Pricing computes with. *)
(* Only a choice takes many answers, and an option keeps its value kind and *)
(* its cardinality for good (type-registry.ts:703-712).                     *)
ASSUME ShopAssumption ==
    /\ \A d \in DOMAIN Docs : IsDocument(Docs[d])
    /\ \A d, e \in DOMAIN Docs : \A o \in DOMAIN Docs[d].options \cap DOMAIN Docs[e].options :
           /\ Docs[d].options[o].kind = Docs[e].options[o].kind
           /\ Docs[d].options[o].many = Docs[e].options[o].many
           /\ Docs[d].options[o].many => Docs[d].options[o].kind = "choice"
    /\ NoDoc \notin DOMAIN Docs
    /\ BasePrices \subseteq 0..MaxMinor /\ MaxChanges \in Nat

VARIABLES doc,        \* the published document
          version,    \* its config version
          published,  \* history: the document of every version
          base,       \* BasePrice::minor
          today,      \* StoreClock::today
          files,      \* tokens UploadTokenCheck finds usable for this session
          secret,     \* generation of the salt wp_hash signs with
          page,       \* the product page the buyer has open
          cart,       \* the cart's lines
          orders,     \* the order lines created
          changes,    \* what happened around the buyer, counted for the bound
          visits      \* pages opened, counted for the bound

config == <<doc, version, published>>
shop == <<base, today, files, secret>>
storefrontVars == <<config, shop, page, cart, orders, changes, visits>>
-----------------------------------------------------------------------------
(* The page.  `values` is what each control holds, `gone` the rule targets  *)
(* hidden, `estimate` the figure shown (empty when none), `typing` that an  *)
(* input event was seen and its change event not yet.                       *)
ClosedPage == [doc |-> NoDoc, values |-> <<>>, gone |-> {}, estimate |-> {}, typing |-> FALSE]

Options(d) == Docs[d].options

DefaultKeys(option) ==
    {option.values[i].key : i \in {i \in DOMAIN option.values : option.values[i].default}}

Checked(option, keys) == {i \in DOMAIN option.values : option.values[i].key \in keys}

(* Of several values under one name the last is kept: by a browser that      *)
(* draws radio buttons or a dropdown, and by PHP of what was posted.        *)
LastChecked(option, keys) ==
    LET checked == Checked(option, keys)
    IN {option.values[i].key : i \in {i \in checked : \A j \in checked : j <= i}}

(* What the template of an option starts with. *)
Rendered(option) ==
    IF option.kind = "choice"
    THEN IF option.type = "checkbox" THEN DefaultKeys(option)
         ELSE LastChecked(option, DefaultKeys(option))
    ELSE IF option.kind = "file" THEN {""} ELSE {option.default}

(* frontend.js answersIn: of a group of checkboxes only the first checked.  *)
FirstChecked(option, keys) ==
    LET checked == Checked(option, keys)
    IN {option.values[i].key : i \in {i \in checked : \A j \in checked : i <= j}}

AnswersIn(d, values) ==
    LET answer(o) == IF Options(d)[o].kind = "choice"
                     THEN FirstChecked(Options(d)[o], values[o]) ELSE values[o] \ {""}
    IN [o \in {o \in DOMAIN values : answer(o) # {}} |-> Given(answer(o))]

(* rules.js evaluate: the PHP evaluator without set_price. *)
PageEvaluate(d, answers) ==
    Evaluate(Only(Docs[d].rules, {rule \in ToSet(Docs[d].rules) : rule.action # "set_price"}),
             answers, Containment(Docs[d]))

HiddenOnPage(p) == Covered(p.gone, Containment(Docs[p.doc]))

(* An <option> is deselected when its value is hidden; a radio button or a  *)
(* checkbox is only taken out of sight.                                     *)
Deselected(option, keys, gone) ==
    IF option.type # "dropdown" THEN keys
    ELSE {k \in keys : ValueFor(option, k).id \notin gone}

(* Mutant: what a rule hides keeps its value and is submitted. *)
NeverCleared(option) == FALSE

(* frontend.js clearWithin: a control of input type hidden, a file's token  *)
(* or a hidden field, keeps its value.                                      *)
ClearedWithin(option) == option.kind # "file" /\ ~IsHidden(option)

Cleared(option, held, gone, covered) ==
    IF covered /\ ClearedWithin(option) THEN IF option.kind = "choice" THEN {} ELSE {""}
    ELSE IF option.kind = "choice" THEN Deselected(option, held, gone) ELSE held

ClearedPage(p, gone, covered) ==
    [p EXCEPT !.gone = gone,
              !.values = [o \in DOMAIN p.values |->
                  Cleared(Options(p.doc)[o], p.values[o], gone, o \in covered)]]

(* frontend.js applyRules: what cannot be settled hides nothing.            *)
Hiding(p, gone) == ClearedPage(p, gone, Covered(gone, Containment(Docs[p.doc])))
GoneBy(outcome) == IF outcome.refused THEN {} ELSE HiddenTargets(outcome.states)
ApplyRules(p) == Hiding(p, GoneBy(PageEvaluate(p.doc, AnswersIn(p.doc, p.values))))

SetsAPrice(d) == \E i \in DOMAIN Docs[d].rules : Docs[d].rules[i].action = "set_price"

(* Mutant: the estimate counts what it cannot price as nothing. *)
SelectedTotalGuessed(p) ==
    LET chosen == UNION {{ValueFor(Options(p.doc)[o], k) : k \in p.values[o]} :
                          o \in {o \in DOMAIN p.values : Options(p.doc)[o].kind = "choice"}}
    IN {MapThenSumSet(LAMBDA v : IF v.price.type = "fixed" THEN v.price.amount ELSE 0, chosen)}

(* frontend.js selectedTotal: empty when the page will not guess.           *)
SelectedTotal(p) ==
    LET chosen == UNION {{ValueFor(Options(p.doc)[o], k) : k \in p.values[o]} :
                          o \in {o \in DOMAIN p.values : Options(p.doc)[o].kind = "choice"}}
    IN IF SetsAPrice(p.doc) \/ \E v \in chosen : v.price.type \notin {"none", "fixed"}
       THEN {}
       ELSE {MapThenSumSet(LAMBDA v : IF v.price.type = "fixed" THEN v.price.amount ELSE 0,
                           chosen)}

Refresh(p) == [p EXCEPT !.estimate = SelectedTotal(p) \ {0}]

Changed(p) == [Refresh(ApplyRules(p)) EXCEPT !.typing = FALSE]

(* What the form submits: a control clearWithin disabled is left out, a     *)
(* group with nothing checked submits nothing.                              *)
Submitted(p) ==
    LET option(o) == Options(p.doc)[o]
        sent == {o \in DOMAIN p.values :
                    /\ ~(o \in HiddenOnPage(p) /\ ClearedWithin(option(o)))
                    /\ p.values[o] # {}
                    /\ IsHidden(option(o)) => option(o).default # ""}
        posted(o) == IF option(o).kind = "choice" /\ ~option(o).many
                     THEN LastChecked(option(o), p.values[o]) ELSE p.values[o]
    IN [o \in sent |-> [many |-> option(o).many /\ option(o).kind = "choice",
                        members |-> posted(o)]]
-----------------------------------------------------------------------------
(* The cart.  A line's snapshot is empty when an option could not be priced *)
(* and on a reordered line.                                                 *)
Frozen(deltas, v) == {[deltas |-> deltas, version |-> v, secret |-> secret]}

(* CartItemPayload.trusted_deltas *)
Trusted(line) ==
    {s.deltas : s \in {s \in line.snapshot :
        s.secret = secret /\ DOMAIN line.selections \subseteq DOMAIN s.deltas}}

(* Mutant: the line is priced by the document of the day. *)
UnitPriceLive(d, line) ==
    LET live == Resolve(Docs[d], line.selections, base, today)
    IN IF ~live.ok THEN base ELSE live.total

(* CartTotals.apply_to_line: the unit price WooCommerce will charge.        *)
UnitPriceUnder(d, line) ==
    LET live == Resolve(Docs[d], line.selections, base, today)
        frozen == {SumDeltas(base, deltas) : deltas \in Trusted(line)} \ {Unpriceable}
    IN IF ~live.ok THEN base
       ELSE IF frozen # {} THEN CHOOSE total \in frozen : TRUE ELSE live.total

TokensIn(selections) ==
    UNION {selections[o].members : o \in DOMAIN selections} \cap FileTokens

(* Mutant: only the line's files are looked at again. *)
LineStandsByFiles(line) == TokensIn(line.selections) \subseteq files

(* CheckoutValidator.validate_line *)
LineStands(line) ==
    /\ Resolve(Docs[doc], line.selections, 0, today).ok
    /\ TokensIn(line.selections) \subseteq files

(* Mutant: the snapshot is priced without the product's base price. *)
AttachWithoutBase(answer) ==
    [selections |-> answer.resolved,
     snapshot |-> IF answer.unpriced = {}
                  THEN Frozen(Resolve(Docs[doc], answer.resolved, 0, today).deltas, version)
                  ELSE {},
     base |-> base, day |-> today]

(* CartItemData.attach: what the engine accepted, and its price unless some *)
(* of it could not be priced.                                               *)
Attach(answer) ==
    [selections |-> answer.resolved,
     snapshot |-> IF answer.unpriced = {} THEN Frozen(answer.deltas, version) ELSE {},
     base |-> base, day |-> today]

(* Mutant: the key of a line tells two versions of a configuration apart. *)
MergedByVersion(line) ==
    IF \E l \in cart : l = line THEN cart ELSE cart \cup {line}

(* CartItemKey.filter: a line is found by its selections alone, and the one *)
(* already there keeps its snapshot.                                        *)
Merged(line) ==
    IF \E l \in cart : l.selections = line.selections THEN cart ELSE cart \cup {line}

(* Mutant: the order records the snapshot whether or not it is trusted. *)
OrderLineUnverified(line) ==
    [selections |-> line.selections, charged |-> UnitPriceUnder(doc, line), base |-> base,
     day |-> today, checkedAgainst |-> version,
     meta |-> {[delta |-> SumFunction(s.deltas), version |-> s.version] :
                s \in line.snapshot}]
-----------------------------------------------------------------------------
StorefrontInit ==
    /\ doc \in DOMAIN Docs /\ version = 1 /\ published = <<doc>>
    /\ base \in BasePrices /\ today = 1
    /\ files = FileTokens /\ secret = 0
    /\ page = ClosedPage /\ cart = {} /\ orders = {}
    /\ changes = 0 /\ visits = 0

(* OrderLineItem.attach *)
OrderLine(line) ==
    [selections |-> line.selections, charged |-> UnitPriceUnder(doc, line), base |-> base,
     day |-> today, checkedAgainst |-> version,
     meta |-> {[delta |-> SumFunction(d),
                version |-> (CHOOSE s \in line.snapshot : TRUE).version] :
                d \in {d \in Trusted(line) : DOMAIN d # {}}}]

(* Steps of the merchant, of time and of cron around the buyer. *)
Around == changes < MaxChanges /\ changes' = changes + 1 /\ UNCHANGED <<page, cart, orders, visits>>

(* The storefront's cache takes a newly published document. *)
Publish(d) ==
    /\ d # doc
    /\ doc' = d /\ version' = version + 1 /\ published' = Append(published, d)
    /\ Around /\ UNCHANGED shop

BaseChanges(b) ==
    /\ b # base /\ base' = b
    /\ Around /\ UNCHANGED <<config, today, files, secret>>

DayPasses ==
    /\ today' = today + 1
    /\ Around /\ UNCHANGED <<config, base, files, secret>>

(* UploadExpirer deletes an upload that no order claimed. *)
FileExpires(token) ==
    /\ token \in files /\ files' = files \ {token}
    /\ Around /\ UNCHANGED <<config, base, today, secret>>

(* The salts of wp-config.php are changed. *)
SecretRotates ==
    /\ secret = 0 /\ secret' = 1
    /\ Around /\ UNCHANGED <<config, base, today, files>>

(* Renderer.render, then frontend.js bind. *)
OpenPage ==
    /\ page.doc = NoDoc /\ visits < MaxVisits /\ visits' = visits + 1
    /\ page' = Changed([ClosedPage EXCEPT !.doc = doc,
                           !.values = [o \in DOMAIN Options(doc) |-> Rendered(Options(doc)[o])]])
    /\ UNCHANGED <<config, shop, cart, orders, changes>>

OnPage(o) == page.doc # NoDoc /\ o \in DOMAIN page.values /\ o \notin HiddenOnPage(page)

(* A radio button, a dropdown or a checkbox. *)
Choose(o, key) ==
    /\ OnPage(o)
    /\ Options(page.doc)[o].kind = "choice" /\ key \in Keys(Options(page.doc)[o])
    /\ ValueFor(Options(page.doc)[o], key).id \notin page.gone
    /\ page' = Changed([page EXCEPT !.values[o] =
                   IF Options(page.doc)[o].type # "checkbox" THEN {key}
                   ELSE IF key \in @ THEN @ \ {key} ELSE @ \cup {key}])
    /\ UNCHANGED <<config, shop, cart, orders, changes, visits>>

(* Keystrokes: rules are applied, the estimate waits for the change event.  *)
Type(o, text) ==
    /\ OnPage(o)
    /\ Options(page.doc)[o].kind # "choice" /\ ~IsHidden(Options(page.doc)[o])
    /\ text \in Typed[Options(page.doc)[o].kind]
    /\ page' = [ApplyRules([page EXCEPT !.values[o] = {text}]) EXCEPT !.typing = TRUE]
    /\ UNCHANGED <<config, shop, cart, orders, changes, visits>>

LeaveField ==
    /\ page.typing
    /\ page' = Changed(page)
    /\ UNCHANGED <<config, shop, cart, orders, changes, visits>>

Room(selections) ==
    Cardinality(cart) < MaxLines \/ \E line \in cart : line.selections = selections

(* AddToCartValidator.validate, then CartItemData.attach on what it passed. *)
AddToCart ==
    /\ page.doc # NoDoc /\ ~page.typing
    /\ \E answer \in {Resolve(Docs[doc], Submitted(page), base, today)} :
          /\ answer.ok /\ TokensIn(answer.resolved) \subseteq files
          /\ Room(answer.resolved)
          /\ cart' = IF answer.resolved = <<>> THEN cart ELSE Merged(Attach(answer))
    /\ page' = ClosedPage
    /\ UNCHANGED <<config, shop, orders, changes, visits>>

(* WooCommerce checkout: every line stands, then becomes an order line, and *)
(* its uploads belong to the order.                                         *)
Checkout ==
    /\ cart # {} /\ Cardinality(orders) < MaxOrders
    /\ \A line \in cart : LineStands(line)
    /\ orders' = orders \cup {OrderLine(line) : line \in cart}
    /\ files' = files \ UNION {TokensIn(line.selections) : line \in cart}
    /\ cart' = {}
    /\ UNCHANGED <<config, base, today, secret, page, changes, visits>>

RemoveLine(line) ==
    /\ cart' = cart \ {line}
    /\ UNCHANGED <<config, shop, page, orders, changes, visits>>

(* OrderAgain.rebuild: the selections and nothing of how they were priced.  *)
OrderAgain(order) ==
    /\ \E answer \in {Resolve(Docs[doc], order.selections, base, today)} :
          answer.ok /\ TokensIn(answer.resolved) \subseteq files
    /\ Room(order.selections)
    /\ cart' = Merged([selections |-> order.selections, snapshot |-> {},
                       base |-> base, day |-> today])
    /\ UNCHANGED <<config, shop, page, orders, changes, visits>>

StorefrontNext ==
    \/ \E d \in DOMAIN Docs : Publish(d)
    \/ \E b \in BasePrices : BaseChanges(b)
    \/ DayPasses \/ SecretRotates
    \/ \E token \in FileTokens : FileExpires(token)
    \/ OpenPage \/ LeaveField \/ AddToCart \/ Checkout
    \/ \E o \in DOMAIN page.values :
         \/ \E key \in IF OnPage(o) THEN Keys(Options(page.doc)[o]) ELSE {} : Choose(o, key)
         \/ \E text \in UNION {Typed[k] : k \in DOMAIN Typed} : Type(o, text)
    \/ \E line \in cart : RemoveLine(line)
    \/ \E order \in orders : OrderAgain(order)

StorefrontSpec == StorefrontInit /\ [][StorefrontNext]_storefrontVars
-----------------------------------------------------------------------------
(* The page holds a value for every control of the document it was drawn    *)
(* from, a line or an order only answers of some published document, and an *)
(* order never charges less than nothing.                                   *)
StorefrontTypeOK ==
    /\ doc \in DOMAIN Docs /\ version \in 1..MaxChanges + 1
    /\ published \in Seq(DOMAIN Docs) /\ Len(published) = version
    /\ base \in BasePrices /\ today \in 1..MaxChanges + 1
    /\ files \subseteq FileTokens /\ secret \in 0..1
    /\ page.doc # NoDoc => DOMAIN page.values = DOMAIN Options(page.doc)
    /\ \A line \in cart \cup orders :
           \E i \in 1..version : DOMAIN line.selections \subseteq DOMAIN Options(published[i])
    /\ \A order \in orders : order.charged \in 0..MaxMinor

(* A snapshot in the cart is what the engine charged for these selections   *)
(* under the version it is labelled with, at the base price and on the day  *)
(* the line was added (CartItemData::attach).                               *)
SnapshotIsQuote ==
    \A line \in cart : \A s \in line.snapshot :
        LET quote == Resolve(Docs[published[s.version]], line.selections, line.base, line.day)
        IN quote.ok /\ quote.unpriced = {} /\ quote.deltas = s.deltas

(* No line of the cart is past what Pricing computes with (Pricing.php:76,   *)
(* "Nothing legitimate approaches it"): the hypothesis of two theorems.     *)
WithinMoney ==
    \A line \in cart :
        /\ Resolve(Docs[doc], line.selections, base, today).errors # {<<"unpriceable", Line>>}
        /\ \A deltas \in Trusted(line) : SumDeltas(base, deltas) # Unpriceable

(* The order's recorded price delta explains what was charged for it: the   *)
(* base price then plus the recorded delta (OrderLineItem, CartTotals).     *)
MetaMatchesCharge ==
    \A order \in orders : \A m \in order.meta :
        order.charged = ClampToZero(order.base + m.delta)

(* No order was created from selections the document of that day refuses,   *)
(* and what it charges was computed by the engine under a published version *)
(* (CheckoutValidator before CartTotals).                                   *)
OrdersWereValid ==
    \A order \in orders :
        LET atCheckout == Resolve(Docs[published[order.checkedAgainst]], order.selections,
                                  order.base, order.day)
        IN atCheckout.ok /\ (order.meta = {} => order.charged = atCheckout.total)

(* One line per configuration: two lines never hold the same selections     *)
(* (CartItemKey::filter), however many versions they were added under.      *)
LinesDistinct ==
    \A a, b \in cart : a.selections = b.selections => a = b

(* Publishing does not move the price of a line already in the cart with a  *)
(* trusted snapshot, as long as the new document accepts it.                *)
PublishKeepsPrices ==
    [][\A line \in cart, d \in DOMAIN Docs :
          /\ doc' = d /\ d # doc /\ Trusted(line) # {}
          /\ Resolve(Docs[doc], line.selections, base, today).ok
          /\ Resolve(Docs[d], line.selections, base, today).ok
          => UnitPriceUnder(d, line) = UnitPriceUnder(doc, line)]_storefrontVars

(* The order in which rules are written decides nothing: two prices for one *)
(* target conflict either way (RuleEvaluator::resolve).                     *)
RuleOrderIrrelevant ==
    page.doc # NoDoc =>
        Resolve(Docs[page.doc], Submitted(page), base, today)
        = Resolve([Docs[page.doc] EXCEPT !.rules = Reverse(@)], Submitted(page), base, today)

(* The estimate on the page is what the engine then adds to the base price, *)
(* when nothing that was typed costs anything.                              *)
EstimateIsCharged ==
    LET answer == Resolve(Docs[doc], Submitted(page), base, today)
    IN (/\ page.doc = doc /\ ~page.typing /\ page.estimate # {} /\ answer.ok
        /\ \A o \in DOMAIN answer.deltas :
               Options(doc)[o].kind # "choice" => answer.deltas[o] = 0)
       => page.estimate = {SumFunction(answer.deltas)}

(* A choice whose boxes ask for one answer at most when it takes one.        *)
Proper(option) ==
    option.kind = "choice" =>
        /\ ~IsHidden(option)
        /\ option.type = "checkbox" /\ ~option.many => Len(option.values) <= 1

(* Documents for which the estimate can be right: an option's values are its *)
(* own, a choice is no hidden field, and a checkbox of one answer has one    *)
(* value (type-registry.ts).  Of two checked boxes frontend.js adds up both, *)
(* and of an option with one answer the server takes the last.               *)
OneAnswerEach ==
    \A d \in DOMAIN Docs :
        /\ \A o, q \in DOMAIN Options(d) :
               o # q => ToSet(Options(d)[o].values) \cap ToSet(Options(d)[q].values) = {}
        /\ \A o \in DOMAIN Options(d) : Proper(Options(d)[o])

(* Documents whose rules hide only options a page can clear, and whose       *)
(* options have one answer each: of two checked boxes the page reads the    *)
(* first, the server the last or both.                                      *)
Clearable(d) ==
    /\ \A i \in DOMAIN Docs[d].rules : Docs[d].rules[i].targetType # "value"
    /\ \A o \in DOMAIN Options(d) :
           /\ Options(d)[o].kind # "file" /\ ~IsHidden(Options(d)[o])
           /\ ~Options(d)[o].many
           /\ Options(d)[o].type = "checkbox" => Len(Options(d)[o].values) <= 1

HiddenRefusals(d) ==
    {e \in Resolve(Docs[d], Submitted(page), base, today).errors : e[1] = "hidden_by_rule"}

(* For such documents the page and the server agree: nothing the page still *)
(* submits is refused as hidden (rules.js, frontend.js clearWithin).        *)
PageCoversServer ==
    page.doc # NoDoc /\ Clearable(page.doc) => HiddenRefusals(page.doc) = {}

(* What the page shows is what the server answers: no line is past what     *)
(* Pricing computes, and the estimate is the server's price (frontend.js).  *)
QuotesHold == WithinMoney /\ EstimateIsCharged

(* What reaches an order could be bought when it was placed and charges     *)
(* what it records, a cart holds no configuration twice, and the order in   *)
(* which rules are written decides nothing (AddToCartValidator.php,         *)
(* CheckoutValidator.php, OrderLineItem.php, RuleEvaluator.php).            *)
OrdersAreSound ==
    OrdersWereValid /\ MetaMatchesCharge /\ LinesDistinct /\ RuleOrderIrrelevant

(* From the page to the order: a page that can clear what rules hide        *)
(* submits none of it, the snapshot a line carries is the quote it was      *)
(* added under, and what is ordered is valid and charged as recorded        *)
(* (frontend.js, rules.js, CartItemData.php and the above).                 *)
CheckoutIsSound == OrdersAreSound /\ SnapshotIsQuote /\ PageCoversServer

(* rules.js:37 says of every document that customers "are not offered a     *)
(* field the server would then refuse".                                     *)
NotOfferedARefusedField ==
    page.doc # NoDoc => HiddenRefusals(page.doc) = {}
=============================================================================
