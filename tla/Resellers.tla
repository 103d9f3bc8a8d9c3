------------------------------ MODULE Resellers ------------------------------
(***************************************************************************)
(* The adapters of providers/sms/adapters, as far as prices go: what each  *)
(* makes of a reseller's price list, and what it asks the reseller for     *)
(* when it rents a number of the one service (WhatsApp).  Codes are mapped *)
(* to themselves, as they are unless an administrator maps them.           *)
(***************************************************************************)
EXTENDS Catalog

CONSTANT CodePage  \* rows in a page of smscode's products that is not asked for by size

ASSUME PageAssumption == CodePage \in Nat \ {0}

(* hero_sms, sms_bower and tiger_sms speak the SMS-Activate protocol.      *)
ActivateKind == {"hero_sms", "sms_bower", "tiger_sms"}
Kinds == ActivateKind \cup {"sms_pool", "sms_code", "custom_http"}

(* A row of a reseller's price list.                                       *)
PriceRow == [country : STRING, raw : Nat, stock : Nat \cup {Unknown},
             operator : STRING \cup {AnyOperator}]

(* Bugs the properties must notice, in place of definitions below.         *)

(* The cap never reaches the reseller.                                     *)
Uncapped(cap) == 1000 * cap

-----------------------------------------------------------------------------
(* WhatsApp for the United States is bought in Canada.                     *)
ChangeRoute(country) == IF country = "us" THEN "ca" ELSE country

(* toFixed(4): resellers are told a price in steps of a hundred            *)
(* micro-dollars.  The catalogue's raw prices are finer.                   *)
PriceStep == 100
PriceCap(cap) == PriceStep * ((cap + PriceStep \div 2) \div PriceStep)

(* smscode may bill two per cent and a step more than the product chosen.  *)
CodeMax(amount) == PriceStep * ((102 * amount + 15000) \div 10000)

InCountry(list, country) == RestrictValues(list, LAMBDA r : r.country = country)
Untagged(rows) == [i \in DOMAIN rows |-> [rows[i] EXCEPT !.operator = AnyOperator]]

(* getPrices, the one price of those who have no other list.               *)
Single(rows) ==
  Untagged(Restrict(rows, {i \in DOMAIN rows : \A j \in DOMAIN rows : i <= j}))

-----------------------------------------------------------------------------
(* listPrices for one country.  When the endpoint with a price for each    *)
(* tier or operator fails, or knows nothing of the country, the answer is  *)
(* `brief': a single price, or for smspool prices without a stock.         *)
HeroPrices(list, country, brief) ==
  LET rows == InCountry(list, ChangeRoute(country))
  IN IF brief THEN Single(rows) ELSE Untagged(rows)

BowerPrices(list, country, brief) ==
  LET rows == InCountry(list, ChangeRoute(country))
  IN IF brief THEN Single(rows) ELSE rows

TigerPrices(list, country, brief) ==
  LET rows == InCountry(list, country) IN IF brief THEN Single(rows) ELSE rows

PoolPrices(list, country, brief) ==
  LET rows == Untagged(InCountry(list, country))
  IN [i \in DOMAIN rows |-> IF brief THEN [rows[i] EXCEPT !.stock = Unknown] ELSE rows[i]]

CodePrices(list, country) == InCountry(list, country)

CustomPrices == <<>>

ListPrices(kind, list, country, brief) ==
  CASE kind = "hero_sms"    -> HeroPrices(list, country, brief)
    [] kind = "sms_bower"   -> BowerPrices(list, country, brief)
    [] kind = "tiger_sms"   -> TigerPrices(list, country, brief)
    [] kind = "sms_pool"    -> PoolPrices(list, country, brief)
    [] kind = "sms_code"    -> CodePrices(list, country)
    [] kind = "custom_http" -> CustomPrices

-----------------------------------------------------------------------------
(* The rows a reseller may sell a number of, and bill for.  It sells what  *)
(* it has under the cap it was told; a templated request has no place for  *)
(* a cap.                                                                  *)
Affordable(list, country, cap) ==
  {r \in ToSet(InCountry(list, country)) : InStock(r) /\ r.raw <= cap}

HeroRent(list, country, cap)  == Affordable(list, ChangeRoute(country), PriceCap(cap))
BowerRent(list, country, cap) == Affordable(list, ChangeRoute(country), PriceCap(cap))
TigerRent(list, country, cap) == Affordable(list, country, PriceCap(cap))
PoolRent(list, country, cap)  == Affordable(list, country, PriceCap(cap))
CustomRent(list, country)     == {r \in ToSet(InCountry(list, country)) : InStock(r)}

(* smscode is asked twice: for a page of products, of which the cheapest   *)
(* under the cap is chosen, and then for a number at up to CodeMax of it.  *)
FirstPage(rows) ==
  Restrict(rows, {i \in DOMAIN rows : Cardinality({j \in DOMAIN rows : j < i}) < CodePage})
CodeChoice(list, country, cap) ==
  LET rows == {r \in ToSet(FirstPage(InCountry(list, country))) : InStock(r) /\ r.raw <= cap}
  IN {r \in rows : \A q \in rows : r.raw <= q.raw}
CodeRent(list, country, amount) == Affordable(list, country, CodeMax(amount))

(* The others rent in one call.                                            *)
Rentals(kind, list, country, cap) ==
  CASE kind = "hero_sms"    -> HeroRent(list, country, cap)
    [] kind = "sms_bower"   -> BowerRent(list, country, cap)
    [] kind = "tiger_sms"   -> TigerRent(list, country, cap)
    [] kind = "sms_pool"    -> PoolRent(list, country, cap)
    [] kind = "custom_http" -> CustomRent(list, country)

(* Those that can revive a number.                                         *)
Reactivates == {"sms_pool", "sms_code"}
=============================================================================
