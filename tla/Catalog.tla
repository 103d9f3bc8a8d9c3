------------------------------- MODULE Catalog -------------------------------
(***************************************************************************)
(* How the rows a reseller quotes become the tiers, offers and products    *)
(* the shop shows, and how an order finds its tier again: the pure half of *)
(* services/catalog.service.ts, lib/catalog.ts and services/v2.service.ts. *)
(* There is one service; prices are in micro-dollars.                      *)
(***************************************************************************)
EXTENDS Integers, Sequences, SequencesExt, FiniteSets

Unknown == -1     \* a stock, a cost or a tier index that is not given
AnyOperator == "" \* no operator

-----------------------------------------------------------------------------
SellPrice(raw, s) == ((raw * (100 + s.percent) + 50) \div 100) + s.flat

(* Rows are numbered, with gaps where other countries' rows were.          *)
Repeats(rows, j, i) == j < i /\ rows[j].raw = rows[i].raw /\ rows[j].operator = rows[i].operator
Kept(rows) == {i \in DOMAIN rows : rows[i].raw > 0 /\ ~\E j \in DOMAIN rows : Repeats(rows, j, i)}
Before(rows, j, i) ==
  rows[j].raw < rows[i].raw \/ (rows[j].raw = rows[i].raw /\ j < i)
NthRow(rows, n) ==
  CHOOSE i \in Kept(rows) : Cardinality({j \in Kept(rows) : Before(rows, j, i)}) = n - 1

Tier(r, s) == [raw |-> r.raw, price |-> SellPrice(r.raw, s), stock |-> r.stock,
               operator |-> r.operator]

(* Cheapest first, one for each raw price and operator.                    *)
ToTiers(rows, s) == [n \in 1 .. Cardinality(Kept(rows)) |-> Tier(rows[NthRow(rows, n)], s)]

InStock(t) == t.stock # 0
OfOperator(s, operator) ==
  IF operator = AnyOperator THEN s ELSE SelectSeq(s, LAMBDA t : t.operator = operator)

(* An offer's id without its service: its country, and its tier counted    *)
(* from 0, which is left out for the cheapest.                             *)
BuildOfferId(country, tier) == IF tier > 0 THEN <<country, tier>> ELSE <<country>>
ParseOfferId(id) == [country |-> id[1], tier |-> IF Len(id) = 1 THEN 0 ELSE id[2]]

Offers(country, tiers) ==
  [i \in DOMAIN tiers |-> [id |-> BuildOfferId(country, i - 1), price |-> tiers[i].price,
                           stock |-> tiers[i].stock, operator |-> tiers[i].operator]]
ListOffers(country, tiers, operator) == OfOperator(Offers(country, tiers), operator)

(* The first in stock, else the first; empty for null.                     *)
FirstInStock(s) ==
  LET stocked == {i \in DOMAIN s : InStock(s[i])}
      found == IF stocked = {} THEN DOMAIN s ELSE stocked
  IN {s[i] : i \in {j \in found : \A k \in found : j <= k}}

SumStock(tiers) ==
  LET known == {i \in DOMAIN tiers : tiers[i].stock # Unknown}
  IN IF known = {} THEN Unknown ELSE MapThenSumSet(LAMBDA i : tiers[i].stock, known)

(* Each operator's tiers, and everybody's under AnyOperator.               *)
OperatorViews(tiers) ==
  {[id |-> o, count |-> Len(OfOperator(tiers, o)), stock |-> SumStock(OfOperator(tiers, o)),
    from |-> Min({t.price : t \in ToSet(OfOperator(tiers, o))})] :
     o \in IF tiers = <<>> THEN {} ELSE {AnyOperator} \cup {t.operator : t \in ToSet(tiers)}}

Quote(country, tiers, operator) ==
  LET offers == ListOffers(country, tiers, operator)
  IN [offers |-> offers, operators |-> OperatorViews(tiers),
      available |-> \E o \in ToSet(offers) : InStock(o),
      best |-> FirstInStock(offers)]

(* The tier an order is for.  An operator narrows the tiers and makes the  *)
(* index meaningless.                                                      *)
Resolve(tiers, index, operator) ==
  LET own == OfOperator(tiers, operator)
      pick == IF operator = AnyOperator /\ index # Unknown
              THEN IF index + 1 \in DOMAIN own THEN {own[index + 1]} ELSE {}
              ELSE FirstInStock(own)
  IN {t \in pick : InStock(t)}

(* The developer API's list: the first `limit' tiers of the countries.     *)
Products(lists, limit) ==
  LET product(country, tiers, i) ==
        [id |-> BuildOfferId(country, i - 1), country |-> country, operator |-> tiers[i].operator,
         price |-> tiers[i].price, stock |-> IF tiers[i].stock = Unknown THEN 0 ELSE tiers[i].stock]
      all == FlattenSeq([l \in DOMAIN lists |->
               [i \in DOMAIN lists[l].tiers |-> product(lists[l].country, lists[l].tiers, i)]])
  IN SubSeq(all, 1, Min({limit, Len(all)}))
=============================================================================
