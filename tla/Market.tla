------------------------------- MODULE Market -------------------------------
(***************************************************************************)
(* Selling numbers while administrators work on the shop: the provider     *)
(* rows (services/admin/providers.service.ts, providers/sms/registry.ts),  *)
(* the Setting document and its cache (lib/settings.ts), and the buyer's   *)
(* way from a quote to an order and on to reopening it (getQuote,          *)
(* listCatalogProducts, createOrder, reactivateOrder), over the pure       *)
(* modules Catalog and Resellers.  A process is one HTTP request; its      *)
(* steps are the database or reseller calls its handler awaits.            *)
(*                                                                         *)
(* Priorities matter only while two providers are on, which is transient:  *)
(* any of them then counts as the first.  The wallet is module             *)
(* PlaceOrder's, and what else happens to an order Orders'.                *)
(***************************************************************************)
EXTENDS Resellers

CONSTANTS
  Provider, Kind,      \* provider rows, and the adapter of each
  Admin, Buyer,        \* requests in flight
  Setting, Default,    \* what the Setting document may hold, and the defaults
  Listing,             \* the price lists a reseller may have
  Country,
  MaxEdits, MaxOrders  \* bounds: no edit, price change or request beyond them

ASSUME KindAssumption == Kind \in [Provider -> Kinds]
ASSUME SettingAssumption ==
  Default \in Setting /\ \A s \in Setting : s.percent \in Nat /\ s.flat \in Nat
ASSUME ListingAssumption == \A l \in Listing : l \in Seq(PriceRow)
ASSUME BoundAssumption == {MaxEdits, MaxOrders} \subseteq Nat

VARIABLES
  row,      \* ProviderConfig: none, off, on, deleted
  list,     \* the price list of each reseller
  setting,  \* the Setting document
  cache,    \* getSettings' cache: none or one setting
  admin,    \* what each request of an administrator is doing
  buyer,    \* what each request of a buyer is doing
  order,    \* the orders made
  cut,      \* history: a request died before it turned the others off
  torn,     \* history: the rows deleted in the hands of a buyer's request
  edits     \* bound: edits and price changes so far

vars == <<row, list, setting, cache, admin, buyer, order, cut, torn, edits>>

None == <<>>
Idle == [step |-> "idle"]
On == {p \in Provider : row[p] = "on"}

Edit == edits < MaxEdits /\ edits' = edits + 1
AdminAt(a, s) == admin[a].step = s
BuyerAt(b, s) == buyer[b].step = s
AdminDoes(a, r) == admin' = [admin EXCEPT ![a] = r]
BuyerDoes(b, r) == buyer' = [buyer EXCEPT ![b] = r]
Reads(b) == UNCHANGED <<row, list, setting, admin, cut, torn, edits>>

(* The request of b reads provider rows.                                   *)
ReadsRows(b) ==
  /\ torn' = {t \in torn : t[1] # b}
  /\ UNCHANGED <<row, list, setting, admin, cut, edits>>

(* What an order is asked for, and what its buyer was shown before, which  *)
(* is history.                                                             *)
Orders(b, c, tier, cap, seen) ==
  BuyerDoes(b, [step |-> "settings", ask |->
    [goal |-> "order", country |-> c, tier |-> tier, cap |-> cap, seen |-> seen]])

Seen(quote, page) == <<[price |-> quote.price, tiers |-> quote.tiers, page |-> page]>>

Waiting(p) == {i \in DOMAIN order : order[i].status = "waiting" /\ order[i].provider = p}

(* The provider rows a buyer's request has read and will act on.           *)
Held(r) ==
  {p \in Provider :
     \/ r.step \in {"rent", "create"} /\ p \in r.chain
     \/ r.step = "insert" /\ p = r.provider
     \/ r.step \in {"settings", "fetch", "keep", "price", "reopen"}
        /\ r.ask.goal = "reopen" /\ p = r.ask.provider}

(* An order comes to wait on p after p was deleted, or its orders counted. *)
Races(b, p) ==
  <<b, p>> \in torn \/ \E a \in Admin : AdminAt(a, "delete") /\ admin[a].provider = p

-----------------------------------------------------------------------------
(* Bugs the properties must notice, in place of definitions below.         *)

(* A provider that is turned on leaves the others as they are.             *)
SaveProviderAlone(a) ==
  /\ AdminAt(a, "save")
  /\ row' = [row EXCEPT ![admin[a].provider] =
       IF @ # "deleted" /\ admin[a].want # admin[a].read THEN admin[a].want ELSE @]
  /\ AdminDoes(a, Idle)
  /\ UNCHANGED <<list, setting, cache, buyer, order, cut, torn, edits>>

(* Orders are not counted.                                                 *)
DeleteProviderUnchecked(a, p) ==
  /\ admin[a] = Idle /\ row[p] \in {"on", "off"}
  /\ Edit
  /\ AdminDoes(a, [step |-> "delete", provider |-> p])
  /\ UNCHANGED <<row, list, setting, cache, buyer, order, cut, torn>>

(* The page does not tell what price it showed.                            *)
BuyUncapped(b) ==
  /\ BuyerAt(b, "page")
  /\ LET offer == ParseOfferId(buyer[b].quote.id)
     IN Orders(b, offer.country, offer.tier, None, Seen(buyer[b].quote, TRUE))
  /\ Reads(b) /\ UNCHANGED <<cache, order>>

(* A cache without a time to live.                                         *)
NeverExpires == FALSE /\ UNCHANGED vars

-----------------------------------------------------------------------------
(* Administrators.  The label is unique: a second row is a conflict.       *)
CreateProvider(a, p, on) ==
  /\ admin[a] = Idle /\ row[p] = "none"
  /\ Edit
  /\ row' = [row EXCEPT ![p] = IF on THEN "on" ELSE "off"]
  /\ AdminDoes(a, IF on THEN [step |-> "disable", provider |-> p] ELSE Idle)
  /\ UNCHANGED <<list, setting, cache, buyer, order, cut, torn>>

(* An edit that turns p on or off, or leaves that alone.                   *)
UpdateProvider(a, p, want) ==
  /\ admin[a] = Idle /\ row[p] \in {"on", "off"}
  /\ Edit
  /\ AdminDoes(a, [step |-> "save", provider |-> p, read |-> row[p],
                   want |-> IF want = "same" THEN row[p] ELSE want])
  /\ UNCHANGED <<row, list, setting, cache, buyer, order, cut, torn>>

(* Saving writes what the edit changed in the document it read; a deleted  *)
(* row is an error.                                                        *)
SaveProvider(a) ==
  /\ AdminAt(a, "save")
  /\ LET p == admin[a].provider
         saved == row[p] # "deleted"
     IN /\ row' = [row EXCEPT ![p] =
             IF saved /\ admin[a].want # admin[a].read THEN admin[a].want ELSE @]
        /\ AdminDoes(a, IF saved /\ admin[a].want = "on"
                        THEN [step |-> "disable", provider |-> p] ELSE Idle)
  /\ UNCHANGED <<list, setting, cache, buyer, order, cut, torn, edits>>

DisableOthers(a) ==
  /\ AdminAt(a, "disable")
  /\ row' = [q \in Provider |->
       IF row[q] = "on" /\ q # admin[a].provider THEN "off" ELSE row[q]]
  /\ cut' = FALSE
  /\ AdminDoes(a, Idle)
  /\ UNCHANGED <<list, setting, cache, buyer, order, torn, edits>>

(* No row with waiting orders is deleted; the orders are counted first.    *)
DeleteProvider(a, p) ==
  /\ admin[a] = Idle /\ row[p] \in {"on", "off"}
  /\ Waiting(p) = {}
  /\ Edit
  /\ AdminDoes(a, [step |-> "delete", provider |-> p])
  /\ UNCHANGED <<row, list, setting, cache, buyer, order, cut, torn>>

DeleteRow(a) ==
  /\ AdminAt(a, "delete")
  /\ LET p == admin[a].provider
     IN /\ row' = [row EXCEPT ![p] = "deleted"]
        /\ torn' = torn \cup {<<b, p>> : b \in {d \in Buyer : p \in Held(buyer[d])}}
  /\ AdminDoes(a, Idle)
  /\ UNCHANGED <<list, setting, cache, buyer, order, cut, edits>>

(* The write, then the reset of the cache; the answer is getSettings'.     *)
UpdateSettings(a, s) ==
  /\ admin[a] = Idle
  /\ Edit
  /\ setting' = s
  /\ AdminDoes(a, [step |-> "reset"])
  /\ UNCHANGED <<row, list, cache, buyer, order, cut, torn>>

ResetCache(a) ==
  /\ AdminAt(a, "reset")
  /\ cache' = None
  /\ AdminDoes(a, [step |-> "fetch"])
  /\ UNCHANGED <<row, list, setting, buyer, order, cut, torn, edits>>

AdminFetch(a) ==
  /\ AdminAt(a, "fetch")
  /\ AdminDoes(a, [step |-> "keep", read |-> setting])
  /\ UNCHANGED <<row, list, setting, cache, buyer, order, cut, torn, edits>>

AdminKeep(a) ==
  /\ AdminAt(a, "keep")
  /\ cache' = <<admin[a].read>>
  /\ AdminDoes(a, Idle)
  /\ UNCHANGED <<row, list, setting, buyer, order, cut, torn, edits>>

(* The process dies, with a row saved and the others not turned off.       *)
Die(a) ==
  /\ AdminAt(a, "disable")
  /\ AdminDoes(a, Idle)
  /\ cut' = TRUE
  /\ UNCHANGED <<row, list, setting, cache, buyer, order, torn, edits>>

-----------------------------------------------------------------------------
(* The cached settings are ten seconds old.                                *)
Expire ==
  /\ cache # None
  /\ cache' = None
  /\ UNCHANGED <<row, list, setting, admin, buyer, order, cut, torn, edits>>

(* A reseller changes its prices or sells out.                             *)
Reprice(p, l) ==
  /\ l # list[p]
  /\ Edit
  /\ list' = [list EXCEPT ![p] = l]
  /\ UNCHANGED <<row, setting, cache, admin, buyer, order, cut, torn>>

-----------------------------------------------------------------------------
(* Buyers.  `ask' is what a request is for.                                *)
OpenQuote(b, c) ==
  /\ buyer[b] = Idle
  /\ BuyerDoes(b, [step |-> "settings", ask |-> [goal |-> "quote", country |-> c]])
  /\ Reads(b) /\ UNCHANGED <<cache, order>>

(* The page buys the tier it shows, capped at the price it shows.          *)
Buy(b) ==
  /\ BuyerAt(b, "page")
  /\ LET quote == buyer[b].quote  offer == ParseOfferId(quote.id)
     IN Orders(b, offer.country, offer.tier, <<quote.price>>, Seen(quote, TRUE))
  /\ Reads(b) /\ UNCHANGED <<cache, order>>

(* A developer may do the same, or not cap the price; and leave the tier   *)
(* open who was told that this one is the best offer.                      *)
BuyByApi(b) ==
  /\ BuyerAt(b, "page")
  /\ LET quote == buyer[b].quote  offer == ParseOfferId(quote.id)
     IN \E tier \in {offer.tier} \cup (IF quote.best THEN {Unknown} ELSE {}) :
          Orders(b, offer.country, tier, None, Seen(quote, FALSE))
  /\ Reads(b) /\ UNCHANGED <<cache, order>>

(* A developer may order without having asked for a price.                 *)
BuyUnseen(b, c) ==
  /\ buyer[b] = Idle
  /\ Orders(b, c, Unknown, None, None)
  /\ Reads(b) /\ UNCHANGED <<cache, order>>

(* reactivateOrder claims a completed order, and looks up its adapter.     *)
Reactivate(b, i) ==
  /\ buyer[b] = Idle
  /\ order[i].status = "completed" /\ ~order[i].reopening
  /\ order' = [order EXCEPT ![i].reopening = TRUE]
  /\ BuyerDoes(b, [step |-> "adapter", order |-> i])
  /\ Reads(b) /\ UNCHANGED cache

FindAdapter(b) ==
  /\ BuyerAt(b, "adapter")
  /\ LET i == buyer[b].order  p == order[i].provider
     IN /\ row[p] # "deleted" /\ Kind[p] \in Reactivates
        /\ BuyerDoes(b, [step |-> "settings", ask |->
             [goal |-> "reopen", country |-> order[i].country, order |-> i, provider |-> p]])
  /\ ReadsRows(b) /\ UNCHANGED <<cache, order>>

(* getSettings, for whatever a request is after.                           *)
Priced(b, s) == BuyerDoes(b, [step |-> "price", ask |-> buyer[b].ask, setting |-> s])

Hit(b) ==
  /\ BuyerAt(b, "settings") /\ cache # None
  /\ Priced(b, cache[1])
  /\ Reads(b) /\ UNCHANGED <<cache, order>>

Miss(b) ==
  /\ BuyerAt(b, "settings") /\ cache = None
  /\ BuyerDoes(b, [step |-> "fetch", ask |-> buyer[b].ask])
  /\ Reads(b) /\ UNCHANGED <<cache, order>>

Fetch(b) ==
  /\ BuyerAt(b, "fetch")
  /\ BuyerDoes(b, [step |-> "keep", ask |-> buyer[b].ask, setting |-> setting])
  /\ Reads(b) /\ UNCHANGED <<cache, order>>

(* A read that fails is answered with the defaults, which are not cached.  *)
FetchFails(b) ==
  /\ BuyerAt(b, "fetch")
  /\ Priced(b, Default)
  /\ Reads(b) /\ UNCHANGED <<cache, order>>

Keep(b) ==
  /\ BuyerAt(b, "keep")
  /\ cache' = <<buyer[b].setting>>
  /\ Priced(b, buyer[b].setting)
  /\ Reads(b) /\ UNCHANGED order

TiersOf(p, c, s, brief) == ToTiers(ListPrices(Kind[p], list[p], c, brief), s)

(* The tiers of the catalogue provider, as the request asks for them.      *)
TiersFor(b, p, brief) == TiersOf(p, buyer[b].ask.country, buyer[b].setting, brief)
Pricing(b, goal) == BuyerAt(b, "price") /\ buyer[b].ask.goal = goal

Shows(b, o, best, tiers) ==
  /\ InStock(o)
  /\ BuyerDoes(b, [step |-> "page", quote |->
       [id |-> o.id, price |-> o.price, best |-> best, tiers |-> tiers]])

(* getQuote: the buyer looks at one of the offers in stock.                *)
ShowQuote(b) ==
  /\ Pricing(b, "quote")
  /\ \E p \in On, brief \in BOOLEAN :
       LET tiers == TiersFor(b, p, brief)
           quote == Quote(buyer[b].ask.country, tiers, AnyOperator)
       IN \E o \in ToSet(quote.offers) : Shows(b, o, o \in quote.best, tiers)
  /\ Reads(b) /\ UNCHANGED <<cache, order>>

(* listCatalogProducts for one country.                                    *)
ShowProduct(b) ==
  /\ Pricing(b, "quote")
  /\ \E p \in On, brief \in BOOLEAN :
       LET tiers == TiersFor(b, p, brief)
       IN \E o \in ToSet(Products(<<[country |-> buyer[b].ask.country, tiers |-> tiers]>>, 200)) :
            Shows(b, o, FALSE, tiers)
  /\ Reads(b) /\ UNCHANGED <<cache, order>>

WithinCap(t, cap) == \A most \in ToSet(cap) : t.price <= most

(* createOrder prices the order and compares the price with the cap.       *)
PriceOrder(b) ==
  /\ Pricing(b, "order")
  /\ ~buyer[b].setting.maintenance
  /\ \E p \in On, brief \in BOOLEAN :
       \E t \in Resolve(TiersFor(b, p, brief), buyer[b].ask.tier, AnyOperator) :
         /\ WithinCap(t, buyer[b].ask.cap)
         /\ BuyerDoes(b, [step |-> "chain", sale |->
              [country |-> buyer[b].ask.country, price |-> t.price, raw |-> t.raw,
               seen |-> buyer[b].ask.seen]])
  /\ Reads(b) /\ UNCHANGED <<cache, order>>

(* A reactivation is priced as the cheapest tier of today's catalogue.     *)
PriceReopening(b) ==
  /\ Pricing(b, "reopen")
  /\ \E p \in On, brief \in BOOLEAN : Resolve(TiersFor(b, p, brief), Unknown, AnyOperator) # {}
  /\ BuyerDoes(b, [step |-> "reopen", ask |-> buyer[b].ask])
  /\ Reads(b) /\ UNCHANGED <<cache, order>>

(* An empty catalogue, a sold-out tier, maintenance, a cap that is too     *)
(* low, a wallet that is empty; a buyer who leaves the page.               *)
Refuse(b) ==
  /\ BuyerAt(b, "page") \/ Pricing(b, "quote") \/ Pricing(b, "order")
  /\ BuyerDoes(b, Idle)
  /\ Reads(b) /\ UNCHANGED <<cache, order>>

(* No such adapter, no offer, no money, or the provider declines.          *)
RefuseReopening(b) ==
  /\ \/ BuyerAt(b, "adapter")
        /\ order' = [order EXCEPT ![buyer[b].order].reopening = FALSE]
     \/ /\ Pricing(b, "reopen") \/ BuyerAt(b, "reopen")
        /\ order' = [order EXCEPT ![buyer[b].ask.order].reopening = FALSE]
  /\ BuyerDoes(b, Idle)
  /\ Reads(b) /\ UNCHANGED cache

ResolveChain(b) ==
  /\ BuyerAt(b, "chain")
  /\ BuyerDoes(b, IF On = {} THEN Idle
                  ELSE [step |-> "rent", sale |-> buyer[b].sale, chain |-> On])
  /\ ReadsRows(b) /\ UNCHANGED <<cache, order>>

Rented(b, p, raw) ==
  BuyerDoes(b, [step |-> "insert", sale |-> buyer[b].sale, provider |-> p, billed |-> raw])

(* The cap of the rental is the raw price of the tier.                     *)
Rent(b) ==
  /\ BuyerAt(b, "rent")
  /\ \E p \in buyer[b].chain :
       /\ Kind[p] # "sms_code"
       /\ \E r \in Rentals(Kind[p], list[p], buyer[b].sale.country, buyer[b].sale.raw) :
            Rented(b, p, r.raw)
  /\ Reads(b) /\ UNCHANGED <<cache, order>>

(* smscode: the choice of a product, and the order for it.                 *)
ChooseProduct(b) ==
  /\ BuyerAt(b, "rent")
  /\ \E p \in buyer[b].chain :
       /\ Kind[p] = "sms_code"
       /\ \E r \in CodeChoice(list[p], buyer[b].sale.country, buyer[b].sale.raw) :
            BuyerDoes(b, [step |-> "create", sale |-> buyer[b].sale, chain |-> buyer[b].chain,
                          provider |-> p, amount |-> r.raw])
  /\ Reads(b) /\ UNCHANGED <<cache, order>>

OrderProduct(b) ==
  /\ BuyerAt(b, "create")
  /\ LET p == buyer[b].provider
     IN \E r \in CodeRent(list[p], buyer[b].sale.country, buyer[b].amount) : Rented(b, p, r.raw)
  /\ Reads(b) /\ UNCHANGED <<cache, order>>

(* No stock under the cap, or any error: the next one is tried.            *)
RentFails(b) ==
  /\ buyer[b].step \in {"rent", "create"}
  /\ \E p \in IF BuyerAt(b, "rent") THEN buyer[b].chain ELSE {buyer[b].provider} :
       BuyerDoes(b, IF buyer[b].chain = {p} THEN Idle
                    ELSE [step |-> "rent", sale |-> buyer[b].sale, chain |-> buyer[b].chain \ {p}])
  /\ Reads(b) /\ UNCHANGED <<cache, order>>

(* `raced' is history, of the last time the order came to wait.            *)
InsertOrder(b) ==
  /\ BuyerAt(b, "insert")
  /\ order' = Append(order, [provider |-> buyer[b].provider, country |-> buyer[b].sale.country,
       status |-> "waiting", reopening |-> FALSE, price |-> buyer[b].sale.price,
       billed |-> buyer[b].billed, raced |-> Races(b, buyer[b].provider)])
  /\ BuyerDoes(b, Idle)
  /\ Reads(b) /\ UNCHANGED cache

Reopen(b) ==
  /\ BuyerAt(b, "reopen")
  /\ order' = [order EXCEPT ![buyer[b].ask.order] =
       [@ EXCEPT !.status = "waiting", !.reopening = FALSE,
                 !.raced = Races(b, buyer[b].ask.provider)]]
  /\ BuyerDoes(b, Idle)
  /\ Reads(b) /\ UNCHANGED cache

(* The code arrives; or the order expires or is canceled: module Orders.   *)
CloseOrder(i, s) ==
  /\ order[i].status = "waiting" /\ s \in {"completed", "closed"}
  /\ order' = [order EXCEPT ![i].status = s]
  /\ UNCHANGED <<row, list, setting, cache, admin, buyer, cut, torn, edits>>

-----------------------------------------------------------------------------
(* A restart: ensureProviders leaves the rows alone that exist.            *)
Init ==
  /\ row \in [Provider -> {"none", "off", "on"}]
  /\ \A p, q \in On : p = q
  /\ \E l \in Listing : list = [p \in Provider |-> l]
  /\ setting = Default
  /\ cache = None
  /\ admin = [a \in Admin |-> Idle]
  /\ buyer = [b \in Buyer |-> Idle]
  /\ order = <<>>
  /\ cut = FALSE
  /\ torn = {}
  /\ edits = 0

AdminStarts(a) ==
  \/ \E p \in Provider, on \in BOOLEAN : CreateProvider(a, p, on)
  \/ \E p \in Provider, want \in {"on", "off", "same"} : UpdateProvider(a, p, want)
  \/ \E p \in Provider : DeleteProvider(a, p)
  \/ \E s \in Setting \ {setting} : UpdateSettings(a, s)
AdminGoesOn(a) ==
  SaveProvider(a) \/ DisableOthers(a) \/ DeleteRow(a) \/ ResetCache(a) \/ AdminFetch(a)
  \/ AdminKeep(a)
BuyerStarts(b) ==
  \/ /\ Len(order) < MaxOrders
     /\ \E c \in Country : OpenQuote(b, c) \/ BuyUnseen(b, c)
  \/ \E i \in DOMAIN order : Reactivate(b, i)
BuyerPrices(b) ==
  \/ Buy(b) \/ BuyByApi(b) \/ Hit(b) \/ Miss(b) \/ Fetch(b) \/ FetchFails(b) \/ Keep(b)
  \/ ShowQuote(b) \/ ShowProduct(b) \/ PriceOrder(b) \/ Refuse(b)
BuyerRents(b) ==
  \/ ResolveChain(b) \/ Rent(b) \/ ChooseProduct(b) \/ OrderProduct(b) \/ RentFails(b)
  \/ InsertOrder(b)
BuyerReopens(b) ==
  FindAdapter(b) \/ PriceReopening(b) \/ RefuseReopening(b) \/ Reopen(b)
BuyerGoesOn(b) == BuyerPrices(b) \/ BuyerRents(b) \/ BuyerReopens(b)

Next ==
  \/ \E a \in Admin : AdminStarts(a) \/ AdminGoesOn(a) \/ Die(a)
  \/ \E b \in Buyer : BuyerStarts(b) \/ BuyerGoesOn(b)
  \/ \E i \in DOMAIN order : CloseOrder(i, "completed") \/ CloseOrder(i, "closed")
  \/ \E p \in Provider, l \in Listing : Reprice(p, l)
  \/ Expire

(* Time passes.                                                            *)
Fairness == WF_vars(Expire)

Spec == Init /\ [][Next]_vars /\ Fairness
-----------------------------------------------------------------------------
AdminTask ==
  [step : {"idle", "reset", "fetch"}] \cup [step : {"keep"}, read : Setting]
    \cup [step : {"disable", "delete"}, provider : Provider]
    \cup [step : {"save"}, provider : Provider, read : {"on", "off"}, want : {"on", "off"}]

(* The types of the shared state and of what administrators do.            *)
TypeOK ==
  /\ row \in [Provider -> {"none", "off", "on", "deleted"}]
  /\ list \in [Provider -> Listing]
  /\ setting \in Setting
  /\ cache \in {None} \cup {<<s>> : s \in Setting}
  /\ admin \in [Admin -> AdminTask]
  /\ DOMAIN buyer = Buyer
  /\ \A i \in DOMAIN order : order[i].provider \in Provider
  /\ cut \in BOOLEAN

(* disableOthers: "only one provider is active at a time".  Two are on     *)
(* only while the request that turned one of them on has not turned the    *)
(* others off, or after it died before it could.                           *)
AtMostOneEnabled ==
  \A p, q \in On : p # q =>
    cut \/ \E a \in Admin : AdminAt(a, "disable") /\ admin[a].provider \in {p, q}

(* deleteProvider refuses while orders wait on the provider.  An order     *)
(* that waits without its provider row, so that its number is never polled *)
(* or released, was inserted or reopened across the deletion: after the    *)
(* orders were counted, by a request that had read the row before it went. *)
WaitingHasProvider ==
  \A i \in DOMAIN order :
    order[i].status = "waiting" /\ row[order[i].provider] = "deleted" => order[i].raced

(* orders.service.ts: "we're never billed above what we quoted".  Whatever *)
(* member of the chain rents the number, and however prices moved since    *)
(* the quote, the reseller bills no more than the buyer pays, up to the    *)
(* rounding of the cap to four decimals; for smscode, whose prices may     *)
(* move between its two calls, up to the headroom of the second.           *)
Dearest(kind, price) ==
  IF kind = "sms_code" THEN CodeMax(price) ELSE price + PriceStep \div 2

NotBelowCost ==
  \A i \in DOMAIN order :
    Kind[order[i].provider] # "custom_http" =>
      order[i].billed <= Dearest(Kind[order[i].provider], order[i].price)

(* The provider still lists, as in stock, the tier that is being rented,   *)
(* and can be told its price.                                              *)
Lists(p, c, raw) ==
  \E brief \in BOOLEAN : \E t \in ToSet(ListPrices(Kind[p], list[p], c, brief)) :
    t.raw = raw /\ t.stock \notin {0, Unknown}
Told(p, c, raw) ==
  CASE Kind[p] = "sms_code"    -> Cardinality(DOMAIN InCountry(list[p], c)) <= CodePage
    [] Kind[p] = "custom_http" -> TRUE
    [] OTHER                   -> PriceCap(raw) >= raw
Sells(p, c, raw) ==
  IF Kind[p] = "sms_code" THEN CodeChoice(list[p], c, raw) # {}
  ELSE Rentals(Kind[p], list[p], c, raw) # {}

(* What is shown is what is bought, from the quote to the rental.  An      *)
(* offer's id counts tiers that may have shifted when the order comes: it  *)
(* names the tier that was shown if they have not, and whoever buys on the *)
(* page never pays more than was shown.  And while a provider of the chain *)
(* still lists the tier it has a number for it, if smscode's prices of the *)
(* country are one page.                                                   *)
QuotedIsBought ==
  \A b \in Buyer :
    /\ Pricing(b, "order") => \A quote \in ToSet(buyer[b].ask.seen), p \in On, brief \in BOOLEAN :
         TiersFor(b, p, brief) = quote.tiers =>
           \E t \in Resolve(TiersFor(b, p, brief), buyer[b].ask.tier, AnyOperator) :
             t.price = quote.price /\ WithinCap(t, buyer[b].ask.cap)
    /\ buyer[b].step \in {"chain", "rent", "create", "insert"} =>
         \A quote \in ToSet(buyer[b].sale.seen) :
           quote.page => buyer[b].sale.price <= quote.price
    /\ BuyerAt(b, "rent") => LET sale == buyer[b].sale IN \A p \in buyer[b].chain :
         Lists(p, sale.country, sale.raw) /\ Told(p, sale.country, sale.raw) =>
           Sells(p, sale.country, sale.raw)

(* A change of the settings takes effect: whatever reads were in flight,   *)
(* once the settings stay as they are no others are served for ever.       *)
SettingsTakeEffect == <>[](cache \in {None, <<setting>>})
=============================================================================
