------------------------------ MODULE MCMarket ------------------------------
(* Market for TLC: hero-sms, which reroutes, and smscode, which does not.  *)
EXTENDS Market

MCProvider == {"hero", "code"}
MCKind == [hero |-> "hero_sms", code |-> "sms_code"]
MCSetting == {[percent |-> 0, flat |-> 0, maintenance |-> FALSE],
              [percent |-> 50, flat |-> 10, maintenance |-> FALSE]}
MCDefault == [percent |-> 0, flat |-> 0, maintenance |-> FALSE]
Row(country, raw, stock, operator) ==
  [country |-> country, raw |-> raw, stock |-> stock, operator |-> operator]
(* smscode's page is two rows: it does not show Canada's cheapest of the   *)
(* first listing.                                                          *)
MCListing ==
  {<<Row("us", 900, 1, "x"), Row("ca", 760, 2, "x"), Row("ca", 800, 1, "x"), Row("ca", 430, 1, "y")>>,
   <<Row("us", 500, 1, "y"), Row("ca", 840, Unknown, "x"), Row("ca", 600, 0, "x")>>}
=============================================================================
